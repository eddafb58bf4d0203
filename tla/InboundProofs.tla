--------------------------- MODULE InboundProofs ---------------------------
(***************************************************************************)
(* Proofs about Inbound, for any set of processes, chats and any bounds:   *)
(* types, routing, and what a message is given up for.                     *)
(***************************************************************************)
EXTENDS Inbound, SequenceTheorems, FiniteSetTheorems, TLAPS

-----------------------------------------------------------------------------
(* Types *)

\* The update a goroutine works on is in the batch, and the batch in the inbox.
InBatch(p) == /\ 1 <= cur[p]
              /\ cur[p] <= top[p]
              /\ top[p] <= Len(inbox)

\* Types alone are not inductive: ChatOf(p) must have a meaning.
TypeInv ==
  /\ TypeOK
  /\ \A p \in Procs : pc[p] \in Handling \cup {"persist"} => InBatch(p)

LEMMA InitType == Init => TypeInv
  BY InboundAssumption
     DEF Init, TypeInv, TypeOK, SharedTypes, LocalTypes, PCs, Handling

LEMMA ChatInBatch ==
  ASSUME TypeInv, NEW p \in Procs, pc[p] \in Handling
  PROVE  /\ cur[p] \in 1 .. Len(inbox)
         /\ ChatOf(p) \in Chats
<1>1. cur[p] \in 1 .. Len(inbox) /\ inbox \in Seq(Update)
  BY DEF TypeInv, TypeOK, SharedTypes, LocalTypes, InBatch
<1>2. inbox[cur[p]] \in Update
  BY <1>1
<1> QED
  BY <1>1, <1>2 DEF Update, ChatOf

LEMMA SmallerType ==
  ASSUME NEW a \in Nat, NEW b \in Nat
  PROVE  /\ Smaller(a, b) \in Nat
         /\ Smaller(a, b) <= a
         /\ a > b => Smaller(a, b) = b
         /\ a <= b => Smaller(a, b) = a
  BY DEF Smaller

\* A flag set in one record of a sequence (or in none, when the index is
\* outside) leaves a sequence of such records, of the same length.
LEMMA ThreadFlag ==
  ASSUME NEW t \in Nat, threads \in Seq(ThreadRecord)
  PROVE  /\ [threads EXCEPT ![t].degraded = TRUE] \in Seq(ThreadRecord)
         /\ [threads EXCEPT ![t].agent = TRUE] \in Seq(ThreadRecord)
<1> DEFINE d == [threads EXCEPT ![t].degraded = TRUE]
           a == [threads EXCEPT ![t].agent = TRUE]
<1>1. threads \in [1 .. Len(threads) -> ThreadRecord] /\ Len(threads) \in Nat
  OBVIOUS
<1>2. d \in [1 .. Len(threads) -> ThreadRecord]
  BY <1>1 DEF ThreadRecord
<1>3. a \in [1 .. Len(threads) -> ThreadRecord]
  BY <1>1 DEF ThreadRecord
<1> HIDE DEF d, a
<1>4. d \in Seq(ThreadRecord) /\ a \in Seq(ThreadRecord)
  BY <1>1, <1>2, <1>3
<1> QED
  BY <1>4 DEF d, a

\* blocked_at of an existing row changes, and nothing else.
LEMMA RowFlag ==
  ASSUME NEW c \in Chats, NEW b \in BOOLEAN,
         mapping \in [Chats -> Row \cup {NoRow}], mapping[c] # NoRow
  PROVE  [mapping EXCEPT ![c].blocked = b] \in [Chats -> Row \cup {NoRow}]
<1>1. mapping[c] \in Row
  OBVIOUS
<1>2. [mapping[c] EXCEPT !.blocked = b] \in Row
  BY <1>1 DEF Row
<1> QED
  BY <1>2

\* The ways a handler leaves an update keep the types of the locals.
LEMMA LeaveType ==
  ASSUME NEW p \in Procs, LocalTypes
  PROVE  /\ Advance(p) => LocalTypes'
         /\ GiveUpBatch(p) => LocalTypes'
         /\ Abandon(p) => LocalTypes'
<1> USE DEF LocalTypes, Goto, DropUpdate, DropBatch, PCs, Handling
<1>1. Advance(p) => LocalTypes'
  BY DEF Advance
<1>2. GiveUpBatch(p) => LocalTypes'
  BY DEF GiveUpBatch
<1> QED
  BY <1>1, <1>2 DEF Abandon

\* The environment keeps the types.
LEMMA EnvironmentType == TypeOK /\ Environment => TypeOK'
<1> SUFFICES ASSUME TypeOK, Environment PROVE TypeOK'
  OBVIOUS
<1> USE InboundAssumption
        DEF TypeOK, SharedTypes, LocalTypes, telegram, service, database, locals
<1>1. CASE Arrive
  BY <1>1 DEF Arrive, Update
<1>2. CASE Degrade
  <2>1. PICK t \in DOMAIN threads :
          threads' = [threads EXCEPT ![t].degraded = TRUE]
    BY <1>2 DEF Degrade
  <2>2. threads' \in Seq(ThreadRecord)
    <3>1. t \in Nat
      OBVIOUS
    <3> QED
      BY <2>1, <3>1, ThreadFlag
  <2> QED
    BY <1>2, <2>2 DEF Degrade
<1>3. CASE MarkBlocked
  BY <1>3, RowFlag DEF MarkBlocked
<1>4. CASE \E p \in Procs : OutboundRejected(p)
  BY <1>4 DEF OutboundRejected
<1>5. CASE \E p \in Procs : Stop(p)
  BY <1>5 DEF Stop, Goto, Fault, DropBatch, DropUpdate, PCs, Handling
<1> QED
  BY <1>1, <1>2, <1>3, <1>4, <1>5 DEF Environment

\* Every step of a worker keeps the types of what is shared.
LEMMA WorkerSharedType ==
  ASSUME NEW p \in Procs, TypeInv, Worker(p)
  PROVE  SharedTypes'
<1>0. /\ SharedTypes
      /\ last[p] \in Nat /\ cur[p] \in Nat
      /\ top[p] \in Nat /\ thread[p] \in Nat
      /\ InboundAssumption
  BY InboundAssumption DEF TypeInv, TypeOK, LocalTypes
<1>a. Fault \/ NoFault => faults' \in Nat
  BY <1>0, InboundAssumption DEF Fault, NoFault, SharedTypes
<1>1. CASE Start(p) \/ LoadInstallationState(p) \/ BeginPoll(p)
  BY <1>0, <1>1
     DEF Start, LoadInstallationState, BeginPoll, SharedTypes, telegram,
         service, database
<1>2. CASE PollAnswered(p) \/ PollFailed(p)
  BY <1>0, <1>a, <1>2
     DEF PollAnswered, PollFailed, Confirm, Larger, SharedTypes, service,
         database
<1>3. CASE HandleUpdate(p) \/ BuildInboundMessage(p)
  <2>1. UNCHANGED <<telegram, service, database>>
    BY <1>3 DEF HandleUpdate, BuildInboundMessage
  <2>2. skipped' = skipped \/ skipped' = skipped \cup {cur[p]}
    BY <1>3 DEF HandleUpdate, BuildInboundMessage
  <2>3. Fault \/ NoFault
    BY <1>3 DEF HandleUpdate, BuildInboundMessage, Abandon
  <2> QED
    BY <1>0, <1>a, <2>1, <2>2, <2>3
       DEF SharedTypes, telegram, service, database
<1>4. CASE ClearChatBlocked(p) \/ CreateChatMapping(p) \/ DeleteChatMapping(p)
  <2>1. UNCHANGED <<telegram, service, lastStored, skipped>>
    BY <1>4 DEF ClearChatBlocked, CreateChatMapping, DeleteChatMapping
  <2>2. ChatOf(p) \in Chats
    BY <1>4, ChatInBatch
       DEF ClearChatBlocked, CreateChatMapping, DeleteChatMapping, Handling
  <2>3. mapping \in [Chats -> Row \cup {NoRow}]
    BY <1>0 DEF SharedTypes
  <2>4. mapping' \in [Chats -> Row \cup {NoRow}]
    <3>1. CASE ClearChatBlocked(p)
      BY <2>2, <2>3, <3>1, RowFlag DEF ClearChatBlocked
    <3>2. CASE CreateChatMapping(p)
      <4>1. \/ UNCHANGED mapping
            \/ mapping' = [mapping EXCEPT ![ChatOf(p)] =
                             IF mapping[ChatOf(p)] = NoRow
                               THEN [thread |-> thread[p], blocked |-> FALSE]
                               ELSE mapping[ChatOf(p)]]
        BY <3>2 DEF CreateChatMapping
      <4>2. [thread |-> thread[p], blocked |-> FALSE] \in Row
        BY <1>0 DEF Row
      <4> QED
        BY <2>2, <2>3, <4>1, <4>2
    <3>3. CASE DeleteChatMapping(p)
      BY <2>2, <2>3, <3>3 DEF DeleteChatMapping
    <3> QED
      BY <1>4, <3>1, <3>2, <3>3
  <2>5. Fault \/ NoFault
    BY <1>4
       DEF ClearChatBlocked, CreateChatMapping, DeleteChatMapping, Abandon
  <2> QED
    BY <1>0, <1>a, <2>1, <2>4, <2>5 DEF SharedTypes, telegram, service
<1>5. CASE CreateThread(p) \/ AddParticipant(p)
  <2>1. UNCHANGED <<telegram, posts, database, skipped>>
    BY <1>5 DEF CreateThread, AddParticipant
  <2>2. threads' \in Seq(ThreadRecord)
    <3>1. CASE CreateThread(p)
      <4>1. ChatOf(p) \in Chats
        BY <3>1, ChatInBatch DEF CreateThread, Handling
      <4>2. [chat |-> ChatOf(p), agent |-> FALSE, degraded |-> FALSE]
              \in ThreadRecord
        BY <4>1 DEF ThreadRecord
      <4>3. Append(threads, [chat |-> ChatOf(p), agent |-> FALSE,
                             degraded |-> FALSE]) \in Seq(ThreadRecord)
        BY <1>0, <4>2, AppendProperties DEF SharedTypes
      <4> QED
        BY <1>0, <3>1, <4>3 DEF CreateThread, SharedTypes
    <3>2. CASE AddParticipant(p)
      BY <1>0, <3>2, ThreadFlag DEF AddParticipant, SharedTypes
    <3> QED
      BY <1>5, <3>1, <3>2
  <2>3. Fault \/ NoFault
    BY <1>5 DEF CreateThread, AddParticipant, Abandon
  <2> QED
    BY <1>0, <1>a, <2>1, <2>2, <2>3 DEF SharedTypes, telegram, database
<1>6. CASE SendMessage(p) \/ ResendMessage(p)
  <2>1. UNCHANGED <<telegram, threads, database>>
    BY <1>6 DEF SendMessage, ResendMessage
  <2>2. posts' = posts \/
        posts' = Append(posts, [thread |-> thread[p], update |-> cur[p]])
    BY <1>6 DEF SendMessage, ResendMessage, Post
  <2>3. skipped' = skipped \/ skipped' = skipped \cup {cur[p]}
    BY <1>6 DEF SendMessage, ResendMessage, Post
  <2>4. Fault \/ NoFault
    BY <1>6 DEF SendMessage, ResendMessage, Post, Abandon
  <2>5. [thread |-> thread[p], update |-> cur[p]] \in PostRecord
    BY <1>0 DEF PostRecord
  <2>6. posts' \in Seq(PostRecord)
    <3>1. Append(posts, [thread |-> thread[p], update |-> cur[p]])
            \in Seq(PostRecord)
      BY <1>0, <2>5, AppendProperties DEF SharedTypes
    <3> QED
      BY <1>0, <2>2, <3>1 DEF SharedTypes
  <2> QED
    BY <1>0, <1>a, <2>1, <2>3, <2>4, <2>6
       DEF SharedTypes, telegram, database
<1>7. CASE PersistInstallationState(p)
  BY <1>0, <1>a, <1>7
     DEF PersistInstallationState, SharedTypes, telegram, service
<1> QED
  BY <1>1, <1>2, <1>3, <1>4, <1>5, <1>6, <1>7 DEF Worker

\* Every step of a worker keeps the types of the locals.
LEMMA WorkerLocalType ==
  ASSUME NEW p \in Procs, TypeInv, Worker(p)
  PROVE  LocalTypes'
<1>0. LocalTypes /\ SharedTypes
  BY DEF TypeInv, TypeOK
<1>1. CASE Start(p) \/ LoadInstallationState(p) \/ BeginPoll(p)
  BY <1>0, <1>1
     DEF Start, LoadInstallationState, BeginPoll, LocalTypes, SharedTypes,
         locals, Goto, PCs, Handling
<1>2. CASE PollAnswered(p) \/ PollFailed(p)
  <2>1. PICK n \in Nat : n = confirmed'
    BY <1>0, <1>2
       DEF PollAnswered, PollFailed, Confirm, Larger, LocalTypes, SharedTypes
  <2>2. n + 1 \in Nat /\ Smaller(Len(inbox), n + Batch) \in Nat
    <3>1. Len(inbox) \in Nat
      BY <1>0 DEF SharedTypes
    <3>2. n + 1 \in Nat /\ n + Batch \in Nat
      BY InboundAssumption
    <3> QED
      BY <3>1, <3>2, SmallerType
  <2>3. \/ UNCHANGED <<cur, top>>
        \/ /\ cur' = [cur EXCEPT ![p] = n + 1]
           /\ top' = [top EXCEPT ![p] = Smaller(Len(inbox), n + Batch)]
    BY <1>2, <2>1 DEF PollAnswered, PollFailed
  <2>4. top' \in [Procs -> Nat] /\ cur' \in [Procs -> Nat]
    BY <1>0, <2>2, <2>3 DEF LocalTypes
  <2> QED
    BY <1>0, <1>2, <2>4
       DEF PollAnswered, PollFailed, LocalTypes, Goto, PCs, Handling
<1>3. ASSUME Advance(p) \/ GiveUpBatch(p) \/ Abandon(p) PROVE LocalTypes'
  BY <1>0, <1>3, LeaveType
<1>4. CASE HandleUpdate(p)
  <2>1. CASE mapping[ChatOf(p)] = NoRow
    BY <1>0, <1>3, <1>4, <2>1
       DEF HandleUpdate, LocalTypes, Goto, PCs, Handling
  <2>2. CASE mapping[ChatOf(p)] # NoRow
    <3>1. ChatOf(p) \in Chats
      BY <1>4, ChatInBatch DEF HandleUpdate, Handling
    <3>2. mapping[ChatOf(p)].thread \in Nat
      BY <1>0, <2>2, <3>1 DEF SharedTypes, Row
    <3> QED
      BY <1>0, <1>3, <1>4, <2>2, <3>2
         DEF HandleUpdate, LocalTypes, Goto, PCs, Handling
  <2> QED
    BY <2>1, <2>2
<1>5. CASE ClearChatBlocked(p) \/ BuildInboundMessage(p)
  BY <1>0, <1>3, <1>5
     DEF ClearChatBlocked, BuildInboundMessage, LocalTypes, locals, Goto, PCs,
         Handling
<1>6. CASE CreateThread(p)
  <2>1. Len(threads) + 1 \in Nat
    BY <1>0 DEF SharedTypes
  <2> QED
    BY <1>0, <1>3, <1>6, <2>1
       DEF CreateThread, LocalTypes, Goto, PCs, Handling
<1>7. CASE AddParticipant(p)
  BY <1>0, <1>3, <1>7
     DEF AddParticipant, LocalTypes, locals, Goto, PCs, Handling
<1>8. CASE CreateChatMapping(p)
  <2> DEFINE row == IF mapping[ChatOf(p)] = NoRow
                      THEN [thread |-> thread[p], blocked |-> FALSE]
                      ELSE mapping[ChatOf(p)]
  <2>1. ChatOf(p) \in Chats
    BY <1>8, ChatInBatch DEF CreateChatMapping, Handling
  <2>2. row.thread \in Nat
    BY <1>0, <2>1 DEF SharedTypes, LocalTypes, Row
  <2>3. \/ Abandon(p)
        \/ /\ thread' = [thread EXCEPT ![p] = row.thread]
           /\ Goto(p, IF rotating[p] THEN "resend" ELSE "build")
           /\ UNCHANGED <<last, cur, top, rotating, rejected>>
    BY <1>8 DEF CreateChatMapping
  <2> HIDE DEF row
  <2> QED
    BY <1>0, <1>3, <2>2, <2>3 DEF LocalTypes, Goto, PCs, Handling
<1>9. CASE SendMessage(p) \/ ResendMessage(p)
  BY <1>0, <1>3, <1>9
     DEF SendMessage, ResendMessage, Post, LocalTypes, locals, Goto, PCs,
         Handling
<1>10. CASE DeleteChatMapping(p)
  BY <1>0, <1>3, <1>10 DEF DeleteChatMapping, LocalTypes, Goto, PCs, Handling
<1>11. CASE PersistInstallationState(p)
  <2>1. \/ UNCHANGED <<pc, last, cur, top, thread, rotating>>
        \/ /\ last' = last \/ last' = [last EXCEPT ![p] = top[p]]
           /\ Goto(p, "top")
           /\ DropBatch(p)
    BY <1>11 DEF PersistInstallationState
  <2>2. UNCHANGED rejected
    BY <1>11 DEF PersistInstallationState
  <2>3. CASE UNCHANGED <<pc, last, cur, top, thread, rotating>>
    BY <1>0, <2>2, <2>3 DEF LocalTypes
  <2>4. CASE /\ last' = last \/ last' = [last EXCEPT ![p] = top[p]]
             /\ Goto(p, "top")
             /\ DropBatch(p)
    BY <1>0, <2>2, <2>4
       DEF LocalTypes, Goto, DropBatch, DropUpdate, PCs, Handling
  <2> QED
    BY <2>1, <2>3, <2>4
<1> QED
  BY <1>1, <1>2, <1>4, <1>5, <1>6, <1>7, <1>8, <1>9, <1>10, <1>11 DEF Worker

-----------------------------------------------------------------------------
(* What a step does, in the terms the invariants need *)

\* A worker leaves the locals of every other worker alone.
LEMMA OthersKeep ==
  ASSUME NEW p \in Procs, NEW q \in Procs, q # p, TypeInv, Worker(p)
  PROVE  /\ pc'[q] = pc[q]
         /\ last'[q] = last[q]
         /\ cur'[q] = cur[q]
         /\ top'[q] = top[q]
         /\ thread'[q] = thread[q]
         /\ rotating'[q] = rotating[q]
<1>0. LocalTypes
  BY DEF TypeInv, TypeOK
<1> DEFINE Kept == /\ pc'[q] = pc[q]
                   /\ last'[q] = last[q]
                   /\ cur'[q] = cur[q]
                   /\ top'[q] = top[q]
                   /\ thread'[q] = thread[q]
                   /\ rotating'[q] = rotating[q]
<1>1. Advance(p) => Kept
  BY <1>0 DEF Advance, Goto, DropUpdate, LocalTypes
<1>2. GiveUpBatch(p) \/ Abandon(p) => Kept
  BY <1>0 DEF Abandon, GiveUpBatch, Goto, DropBatch, DropUpdate, LocalTypes
<1>3. CASE Start(p) \/ LoadInstallationState(p) \/ BeginPoll(p)
  BY <1>0, <1>3
     DEF Start, LoadInstallationState, BeginPoll, locals, Goto, LocalTypes
<1>4. CASE PollAnswered(p) \/ PollFailed(p)
  BY <1>0, <1>4 DEF PollAnswered, PollFailed, Goto, LocalTypes
<1>5. CASE HandleUpdate(p) \/ ClearChatBlocked(p) \/ BuildInboundMessage(p)
  BY <1>0, <1>1, <1>2, <1>5
     DEF HandleUpdate, ClearChatBlocked, BuildInboundMessage, locals, Goto,
         LocalTypes
<1>6. CASE CreateThread(p) \/ AddParticipant(p) \/ CreateChatMapping(p)
  BY <1>0, <1>2, <1>6
     DEF CreateThread, AddParticipant, CreateChatMapping, locals, Goto,
         LocalTypes
<1>7. CASE SendMessage(p) \/ ResendMessage(p) \/ DeleteChatMapping(p)
  BY <1>0, <1>1, <1>2, <1>7
     DEF SendMessage, ResendMessage, DeleteChatMapping, Post, locals, Goto,
         LocalTypes
<1>8. CASE PersistInstallationState(p)
  BY <1>0, <1>8
     DEF PersistInstallationState, Goto, DropBatch, DropUpdate, LocalTypes
<1> QED
  BY <1>3, <1>4, <1>5, <1>6, <1>7, <1>8 DEF Worker

\* The ways a worker moves through the queue.
Stays(p) ==
  /\ last'[p] = last[p] /\ cur'[p] = cur[p] /\ top'[p] = top[p]
  /\ pc'[p] \in Handling => pc[p] \in Handling
  /\ pc'[p] = "persist" => pc[p] = "persist"
Leaves(p) ==
  /\ last'[p] = last[p]
  /\ pc'[p] \notin Handling \cup {"persist"}
Loads(p) ==
  /\ last'[p] = lastStored
  /\ pc'[p] = "top"
Fetches(p) ==
  /\ last'[p] = last[p]
  /\ pc'[p] = "update"
  /\ \E n \in {confirmed, last[p]} :
       /\ n < Len(inbox)
       /\ cur'[p] = n + 1
       /\ top'[p] = Smaller(Len(inbox), n + Batch)
Advances(p) ==
  /\ pc[p] \in Handling
  /\ last'[p] = last[p] /\ top'[p] = top[p]
  /\ \/ cur[p] \in skipped'
     \/ \E i \in DOMAIN posts' : posts'[i].update = cur[p]
  /\ \/ cur[p] = top[p] /\ cur'[p] = cur[p] /\ pc'[p] = "persist"
     \/ cur[p] # top[p] /\ cur'[p] = cur[p] + 1 /\ pc'[p] = "update"
Persists(p) ==
  /\ pc[p] = "persist"
  /\ last'[p] \in {last[p], top[p]}
  /\ pc'[p] = "top"

\* Every step of a worker is one of these moves.
LEMMA Moves ==
  ASSUME NEW p \in Procs, TypeInv, Worker(p)
  PROVE  Stays(p) \/ Leaves(p) \/ Loads(p) \/ Fetches(p) \/ Advances(p)
           \/ Persists(p)
<1>0. LocalTypes /\ SharedTypes
  BY DEF TypeInv, TypeOK
<1> DEFINE Appended == posts' = Append(posts, [thread |-> thread[p],
                                               update |-> cur[p]])
<1>a. GiveUpBatch(p) \/ Abandon(p) => Leaves(p)
  BY <1>0 DEF Abandon, GiveUpBatch, Goto, Leaves, Handling, LocalTypes
<1>b. ASSUME Appended
      PROVE  \E i \in DOMAIN posts' : posts'[i].update = cur[p]
  <2> DEFINE r == [thread |-> thread[p], update |-> cur[p]]
  <2>1. r \in PostRecord /\ posts \in Seq(PostRecord)
    BY <1>0 DEF PostRecord, LocalTypes, SharedTypes
  <2>2. /\ Append(posts, r) \in Seq(PostRecord)
        /\ Len(Append(posts, r)) = Len(posts) + 1
        /\ Append(posts, r)[Len(posts) + 1] = r
    BY <2>1, AppendProperties
  <2>3. Len(posts) + 1 \in DOMAIN Append(posts, r)
    BY <2>1, <2>2
  <2> QED
    BY <1>b, <2>2, <2>3
<1>c. ASSUME Advance(p), pc[p] \in Handling, cur[p] \in skipped' \/ Appended
      PROVE  Advances(p)
  BY <1>0, <1>b, <1>c DEF Advance, Goto, Advances, LocalTypes
<1> HIDE DEF Appended
<1>1. CASE Start(p) \/ BeginPoll(p) \/ PollFailed(p)
  BY <1>0, <1>1
     DEF Start, BeginPoll, PollFailed, locals, Goto, Leaves, Handling,
         LocalTypes
<1>2. CASE LoadInstallationState(p)
  BY <1>0, <1>2 DEF LoadInstallationState, Goto, Loads, LocalTypes
<1>3. CASE PollAnswered(p)
  <2>1. PICK n \in {confirmed, last[p]} : n = confirmed'
    BY <1>3 DEF PollAnswered, Confirm, Larger
  <2>2. CASE n < Len(inbox)
    BY <1>0, <1>3, <2>1, <2>2 DEF PollAnswered, Goto, Fetches, LocalTypes
  <2>3. CASE ~(n < Len(inbox))
    BY <1>0, <1>3, <2>1, <2>3
       DEF PollAnswered, Goto, Leaves, Handling, LocalTypes
  <2> QED
    BY <2>2, <2>3
<1>4. CASE HandleUpdate(p)
  BY <1>0, <1>a, <1>c, <1>4
     DEF HandleUpdate, Goto, Stays, Handling, LocalTypes
<1>5. CASE ClearChatBlocked(p) \/ CreateThread(p) \/ AddParticipant(p)
             \/ CreateChatMapping(p) \/ DeleteChatMapping(p)
  BY <1>0, <1>a, <1>5
     DEF ClearChatBlocked, CreateThread, AddParticipant, CreateChatMapping,
         DeleteChatMapping, locals, Goto, Stays, Handling, LocalTypes
<1>6. CASE BuildInboundMessage(p)
  BY <1>0, <1>a, <1>c, <1>6
     DEF BuildInboundMessage, locals, Goto, Stays, Handling, LocalTypes
<1>7. CASE SendMessage(p) \/ ResendMessage(p)
  BY <1>0, <1>a, <1>c, <1>7
     DEF SendMessage, ResendMessage, Post, Appended, locals, Goto, Stays,
         Handling, LocalTypes
<1>8. CASE PersistInstallationState(p)
  BY <1>0, <1>8
     DEF PersistInstallationState, Goto, Stays, Persists, Handling, LocalTypes
<1> QED
  BY <1>1, <1>2, <1>3, <1>4, <1>5, <1>6, <1>7, <1>8 DEF Worker

\* No worker adds to the inbox; a user does, at the end.
LEMMA InboxGrows ==
  ASSUME TypeInv, Next
  PROVE  /\ Len(inbox) <= Len(inbox')
         /\ \A u \in 1 .. Len(inbox) : inbox'[u] = inbox[u]
<1>0. inbox \in Seq(Update)
  BY DEF TypeInv, TypeOK, SharedTypes
<1>1. CASE Arrive
  <2>1. PICK c \in Chats, k \in Kinds :
          inbox' = Append(inbox, [chat |-> c, kind |-> k])
    BY <1>1 DEF Arrive
  <2> DEFINE r == [chat |-> c, kind |-> k]
  <2>2. r \in Update
    BY DEF Update
  <2>3. /\ Len(Append(inbox, r)) = Len(inbox) + 1
        /\ \A u \in 1 .. Len(inbox) : Append(inbox, r)[u] = inbox[u]
    BY <1>0, <2>2, AppendProperties
  <2>4. Len(inbox) \in Nat
    BY <1>0
  <2> QED
    BY <2>1, <2>3, <2>4
<1>2. CASE inbox' = inbox
  BY <1>0, <1>2
<1>3. ASSUME NEW p \in Procs, Worker(p) PROVE inbox' = inbox
  BY <1>3
     DEF Worker, Start, LoadInstallationState, BeginPoll, PollAnswered,
         PollFailed, HandleUpdate, ClearChatBlocked, CreateThread,
         AddParticipant, CreateChatMapping, BuildInboundMessage, SendMessage,
         DeleteChatMapping, ResendMessage, PersistInstallationState, telegram
<1> QED
  BY <1>1, <1>2, <1>3
     DEF Next, Environment, Degrade, MarkBlocked, OutboundRejected, Stop,
         telegram

\* The environment and a stop leave a worker where it is, or stopped.
LEMMA EnvironmentMoves ==
  ASSUME NEW q \in Procs, TypeInv, Environment
  PROVE  \/ /\ pc'[q] = pc[q] /\ last'[q] = last[q]
            /\ cur'[q] = cur[q] /\ top'[q] = top[q]
            /\ thread'[q] = thread[q] /\ rotating'[q] = rotating[q]
         \/ pc'[q] = "down" /\ last'[q] = 0
<1>0. LocalTypes
  BY DEF TypeInv, TypeOK
<1>1. CASE Arrive \/ Degrade \/ MarkBlocked
  BY <1>1 DEF Arrive, Degrade, MarkBlocked, locals
<1>2. CASE \E p \in Procs : OutboundRejected(p)
  BY <1>2 DEF OutboundRejected
<1>3. CASE \E p \in Procs : Stop(p)
  BY <1>0, <1>3 DEF Stop, Goto, DropBatch, DropUpdate, LocalTypes
<1> QED
  BY <1>1, <1>2, <1>3 DEF Environment

\* The batch a worker holds stays inside the inbox.
LEMMA BatchStep ==
  ASSUME TypeInv, Next, TypeOK', NEW q \in Procs,
         pc'[q] \in Handling \cup {"persist"}
  PROVE  InBatch(q)'
<1>0. /\ Len(inbox) \in Nat /\ Len(inbox') \in Nat
      /\ Len(inbox) <= Len(inbox')
      /\ cur[q] \in Nat /\ top[q] \in Nat
      /\ cur'[q] \in Nat /\ top'[q] \in Nat
  <2>1. SharedTypes /\ LocalTypes /\ SharedTypes' /\ LocalTypes'
    BY DEF TypeInv, TypeOK
  <2>2. Len(inbox) <= Len(inbox')
    BY InboxGrows
  <2>3. cur[q] \in Nat /\ top[q] \in Nat /\ cur'[q] \in Nat /\ top'[q] \in Nat
    BY <2>1 DEF LocalTypes
  <2>4. Len(inbox) \in Nat /\ Len(inbox') \in Nat
    BY <2>1 DEF SharedTypes
  <2> QED
    BY <2>2, <2>3, <2>4
<1>1. ASSUME pc'[q] = pc[q], cur'[q] = cur[q], top'[q] = top[q]
      PROVE  InBatch(q)'
  BY <1>0, <1>1 DEF TypeInv, InBatch
<1>2. CASE Environment
  BY <1>1, <1>2, EnvironmentMoves DEF Handling
<1>3. ASSUME NEW p \in Procs, Worker(p), p # q PROVE InBatch(q)'
  BY <1>1, <1>3, OthersKeep
<1>4. CASE Worker(q)
  <2>1. CASE Stays(q)
    BY <1>0, <2>1 DEF TypeInv, Stays, InBatch
  <2>2. CASE Leaves(q) \/ Loads(q) \/ Persists(q)
    BY <2>2 DEF Leaves, Loads, Persists, Handling
  <2>3. CASE Fetches(q)
    <3>1. PICK n \in Nat : /\ n < Len(inbox)
                           /\ cur'[q] = n + 1
                           /\ top'[q] = Smaller(Len(inbox), n + Batch)
      BY <2>3 DEF Fetches, TypeInv, TypeOK, SharedTypes, LocalTypes
    <3>2. /\ n + 1 <= Smaller(Len(inbox), n + Batch)
          /\ Smaller(Len(inbox), n + Batch) <= Len(inbox)
      BY <1>0, <3>1, InboundAssumption DEF Smaller
    <3> QED
      BY <1>0, <3>1, <3>2 DEF InBatch
  <2>4. CASE Advances(q)
    BY <1>0, <2>4 DEF TypeInv, Advances, InBatch
  <2> QED
    BY <1>4, <2>1, <2>2, <2>3, <2>4, Moves
<1> QED
  BY <1>2, <1>3, <1>4 DEF Next

LEMMA StepType == TypeInv /\ [Next]_vars => TypeInv'
<1>1. TypeInv /\ UNCHANGED vars => TypeInv'
  BY DEF TypeInv, TypeOK, SharedTypes, LocalTypes, InBatch, vars, telegram,
         service, database, locals
<1>2. ASSUME TypeInv, Next PROVE TypeInv'
  <2>1. TypeOK'
    BY <1>2, EnvironmentType, WorkerSharedType, WorkerLocalType
       DEF TypeInv, TypeOK, Next
  <2> QED
    BY <1>2, <2>1, BatchStep DEF TypeInv
<1> QED
  BY <1>1, <1>2

LEMMA TypeInvariant == Spec => []TypeInv
  BY InitType, StepType, PTL DEF Spec

\* Every variable keeps its type, in every reachable state.
THEOREM TypeCorrect == Spec => []TypeOK
<1>1. TypeInv => TypeOK
  BY DEF TypeInv
<1> QED
  BY <1>1, TypeInvariant, PTL

\* What a step adds to the history: nothing, or the update in hand.
Adds(u, t) ==
  \/ /\ posts' = posts
     /\ skipped' = skipped \/ skipped' = skipped \cup {u}
  \/ /\ posts' = Append(posts, [thread |-> t, update |-> u])
     /\ skipped' = skipped

LEMMA History ==
  ASSUME TypeInv, Next
  PROVE  \/ UNCHANGED <<posts, skipped>>
         \/ \E p \in Procs : /\ pc[p] \in Handling
                             /\ Adds(cur[p], thread[p])
                             /\ posts' # posts => pc[p] \in {"send", "resend"}
                             /\ Worker(p)
<1>1. CASE Environment
  BY <1>1 DEF Environment, Arrive, Degrade, MarkBlocked, OutboundRejected,
              Stop, service
<1>2. ASSUME NEW p \in Procs, Worker(p)
      PROVE  \/ UNCHANGED <<posts, skipped>>
             \/ /\ pc[p] \in Handling
                /\ Adds(cur[p], thread[p])
                /\ posts' # posts => pc[p] \in {"send", "resend"}
  <2>1. CASE \/ Start(p) \/ LoadInstallationState(p) \/ BeginPoll(p)
             \/ PollAnswered(p) \/ PollFailed(p)
             \/ PersistInstallationState(p)
    <3>1. CASE Start(p) \/ LoadInstallationState(p) \/ BeginPoll(p)
      BY <3>1 DEF Start, LoadInstallationState, BeginPoll, service
    <3>2. CASE PollAnswered(p) \/ PollFailed(p)
      BY <3>2 DEF PollAnswered, PollFailed, service
    <3>3. CASE PersistInstallationState(p)
      BY <3>3 DEF PersistInstallationState, service
    <3> QED
      BY <2>1, <3>1, <3>2, <3>3
  <2>2. CASE \/ ClearChatBlocked(p) \/ CreateThread(p) \/ AddParticipant(p)
             \/ CreateChatMapping(p) \/ DeleteChatMapping(p)
    <3>1. CASE CreateThread(p)
      BY <3>1 DEF CreateThread
    <3>2. CASE AddParticipant(p)
      BY <3>2 DEF AddParticipant
    <3>3. CASE ClearChatBlocked(p)
      BY <3>3 DEF ClearChatBlocked, service
    <3>4. CASE CreateChatMapping(p)
      BY <3>4 DEF CreateChatMapping, service
    <3>5. CASE DeleteChatMapping(p)
      BY <3>5 DEF DeleteChatMapping, service
    <3> QED
      BY <2>2, <3>1, <3>2, <3>3, <3>4, <3>5
  <2>3. CASE HandleUpdate(p) \/ BuildInboundMessage(p)
    <3>1. UNCHANGED posts /\ pc[p] \in Handling
      BY <2>3 DEF HandleUpdate, BuildInboundMessage, service, Handling
    <3>2. skipped' = skipped \/ skipped' = skipped \cup {cur[p]}
      BY <2>3 DEF HandleUpdate, BuildInboundMessage
    <3> QED
      BY <3>1, <3>2 DEF Adds
  <2>4. CASE SendMessage(p) \/ ResendMessage(p)
    BY <2>4 DEF SendMessage, ResendMessage, Post, Adds, Handling
  <2> QED
    BY <1>2, <2>1, <2>2, <2>3, <2>4 DEF Worker
<1> QED
  BY <1>1, <1>2 DEF Next

\* A post that is appended is the last one, and the others stay.
LEMMA AppendPost ==
  ASSUME TypeInv, NEW p \in Procs, NEW r,
         r = [thread |-> thread[p], update |-> cur[p]],
         posts' = Append(posts, r)
  PROVE  /\ Len(posts) \in Nat
         /\ DOMAIN posts = 1 .. Len(posts)
         /\ DOMAIN posts' = 1 .. Len(posts) + 1
         /\ \A i \in DOMAIN posts : posts'[i] = posts[i]
         /\ posts'[Len(posts) + 1] = r
<1>1. r \in PostRecord /\ posts \in Seq(PostRecord)
  BY DEF TypeInv, TypeOK, SharedTypes, LocalTypes, PostRecord
<1>2. /\ Append(posts, r) \in Seq(PostRecord)
      /\ Len(Append(posts, r)) = Len(posts) + 1
      /\ \A i \in 1 .. Len(posts) : Append(posts, r)[i] = posts[i]
      /\ Append(posts, r)[Len(posts) + 1] = r
  BY <1>1, AppendProperties
<1>3. Len(posts) \in Nat /\ DOMAIN posts = 1 .. Len(posts)
  BY <1>1
<1>4. DOMAIN posts' = 1 .. Len(posts) + 1
  BY <1>2
<1> QED
  BY <1>2, <1>3, <1>4

-----------------------------------------------------------------------------
(* Routing: MappingSound and PostsRouted.                                  *)
(*                                                                         *)
(* The invariant follows a thread from createThreadMapping on: made for    *)
(* the chat of the update in hand, joined by the agent, entered in         *)
(* chat_mappings, posted to.  A thread never changes its chat and an agent *)
(* never leaves, so what one process knows of a thread stays true while    *)
(* another one deletes the row, or is first to insert it.                  *)

Own(t, c)   == t \in DOMAIN threads /\ threads[t].chat = c
Ready(t, c) == Own(t, c) /\ threads[t].agent

\* Where a process holds a thread the agent is in.
HoldsReady == {"clear", "insert", "build", "send", "delete", "resend"}

Routed(p) ==
  /\ pc[p] = "join" => Own(thread[p], ChatOf(p))
  /\ pc[p] \in HoldsReady => Ready(thread[p], ChatOf(p))

RowsReady ==
  \A c \in Chats : mapping[c] # NoRow => Ready(mapping[c].thread, c)

PostsReady ==
  \A i \in DOMAIN posts : /\ posts[i].update \in DOMAIN inbox
                          /\ Ready(posts[i].thread, inbox[posts[i].update].chat)

RouteInv == RowsReady /\ PostsReady /\ \A p \in Procs : Routed(p)

LEMMA InitRoute == Init => RouteInv
  BY DEF Init, RouteInv, RowsReady, PostsReady, Routed, HoldsReady

\* Threads are added at the end and keep their chat; an agent stays, and so
\* does the degraded state.
LEMMA ThreadsGrow ==
  ASSUME TypeInv, Next, NEW t \in DOMAIN threads
  PROVE  /\ t \in DOMAIN threads'
         /\ threads'[t].chat = threads[t].chat
         /\ threads[t].agent => threads'[t].agent
         /\ threads[t].degraded => threads'[t].degraded
<1>0. /\ threads \in Seq(ThreadRecord) /\ t \in Nat
      /\ DOMAIN threads = 1 .. Len(threads) /\ Len(threads) \in Nat
      /\ threads[t] \in ThreadRecord
  BY DEF TypeInv, TypeOK, SharedTypes
<1>1. CASE threads' = threads
  BY <1>1
<1>2. CASE Degrade
  <2>1. PICK s \in DOMAIN threads :
          threads' = [threads EXCEPT ![s].degraded = TRUE]
    BY <1>2 DEF Degrade
  <2> QED
    BY <1>0, <2>1 DEF ThreadRecord
<1>3. ASSUME NEW p \in Procs, CreateThread(p), threads' # threads
      PROVE  /\ t \in DOMAIN threads'
             /\ threads'[t] = threads[t]
  <2> DEFINE r == [chat |-> ChatOf(p), agent |-> FALSE, degraded |-> FALSE]
  <2>1. threads' = Append(threads, r)
    BY <1>3 DEF CreateThread
  <2>2. r \in ThreadRecord
    BY <1>3, ChatInBatch DEF CreateThread, Handling, ThreadRecord
  <2>3. /\ Len(Append(threads, r)) = Len(threads) + 1
        /\ Append(threads, r) \in Seq(ThreadRecord)
        /\ \A i \in 1 .. Len(threads) : Append(threads, r)[i] = threads[i]
    BY <1>0, <2>2, AppendProperties
  <2>4. t \in DOMAIN Append(threads, r)
    BY <1>0, <2>3
  <2> HIDE DEF r
  <2> QED
    BY <1>0, <2>1, <2>3, <2>4
<1>4. ASSUME NEW p \in Procs, AddParticipant(p), threads' # threads
      PROVE  /\ t \in DOMAIN threads'
             /\ threads'[t].chat = threads[t].chat
             /\ threads[t].agent => threads'[t].agent
             /\ threads[t].degraded => threads'[t].degraded
  <2>1. threads' = [threads EXCEPT ![thread[p]].agent = TRUE]
    BY <1>4 DEF AddParticipant
  <2> QED
    BY <1>0, <2>1 DEF ThreadRecord
<1>5. ASSUME NEW p \in Procs, Worker(p), ~CreateThread(p), ~AddParticipant(p)
      PROVE  threads' = threads
  <2>1. CASE Start(p) \/ LoadInstallationState(p) \/ BeginPoll(p)
    BY <2>1 DEF Start, LoadInstallationState, BeginPoll, service
  <2>2. CASE PollAnswered(p) \/ PollFailed(p) \/ PersistInstallationState(p)
    BY <2>2 DEF PollAnswered, PollFailed, PersistInstallationState, service
  <2>3. CASE HandleUpdate(p) \/ ClearChatBlocked(p) \/ BuildInboundMessage(p)
    BY <2>3 DEF HandleUpdate, ClearChatBlocked, BuildInboundMessage, service
  <2>4. CASE CreateChatMapping(p) \/ DeleteChatMapping(p)
    BY <2>4 DEF CreateChatMapping, DeleteChatMapping, service
  <2>5. CASE SendMessage(p) \/ ResendMessage(p)
    BY <2>5 DEF SendMessage, ResendMessage
  <2> QED
    BY <1>5, <2>1, <2>2, <2>3, <2>4, <2>5 DEF Worker
<1>6. CASE Environment
  BY <1>1, <1>2, <1>6
     DEF Environment, Arrive, MarkBlocked, OutboundRejected, Stop, service
<1> QED
  BY <1>1, <1>3, <1>4, <1>5, <1>6 DEF Next

LEMMA ReadyStays ==
  ASSUME TypeInv, Next, NEW t, NEW c
  PROVE  /\ Own(t, c) => Own(t, c)'
         /\ Ready(t, c) => Ready(t, c)'
  BY ThreadsGrow DEF Own, Ready

-----------------------------------------------------------------------------
(* RouteInv is inductive *)

\* A handler that leaves the update holds no thread any more.
LEMMA LeaveRouted ==
  ASSUME NEW p \in Procs, TypeInv, Advance(p) \/ GiveUpBatch(p) \/ Abandon(p)
  PROVE  Routed(p)'
  BY DEF TypeInv, TypeOK, LocalTypes, Advance, GiveUpBatch, Abandon, Goto,
         Routed, HoldsReady

\* A worker that moved holds a thread of the chat it serves.
LEMMA WorkerRouted ==
  ASSUME NEW p \in Procs, TypeInv, RouteInv, Next, Worker(p)
  PROVE  Routed(p)'
<1>0. LocalTypes /\ SharedTypes /\ Routed(p)
  BY DEF TypeInv, TypeOK, RouteInv
<1>1. ASSUME pc[p] \in Handling, UNCHANGED <<inbox, cur>>,
             NEW t, thread'[p] = t,
             Ready(t, ChatOf(p)) \/ (pc'[p] \notin HoldsReady /\ Own(t, ChatOf(p)))
      PROVE  Routed(p)'
  <2>1. PICK c : c = ChatOf(p)
    OBVIOUS
  <2>2. ChatOf(p)' = c
    BY <1>1, <2>1 DEF ChatOf
  <2>3. Own(t, c)' /\ (pc'[p] \in HoldsReady => Ready(t, c)')
    BY <1>1, <2>1, ReadyStays DEF Ready
  <2> QED
    BY <1>1, <2>2, <2>3 DEF Routed, Own, Ready
<1>2. CASE Start(p) \/ LoadInstallationState(p) \/ BeginPoll(p)
  BY <1>0, <1>2
     DEF Start, LoadInstallationState, BeginPoll, Goto, LocalTypes, Routed,
         HoldsReady
<1>3. CASE PollAnswered(p) \/ PollFailed(p)
  BY <1>0, <1>3
     DEF PollAnswered, PollFailed, Goto, LocalTypes, Routed, HoldsReady
<1>4. CASE HandleUpdate(p)
  <2>1. CASE Advance(p) \/ Abandon(p)
    BY <2>1, LeaveRouted
  <2>2. CASE pc'[p] = "create"
    BY <2>2 DEF Routed, HoldsReady
  <2>3. CASE /\ ~(Advance(p) \/ Abandon(p))
             /\ pc'[p] # "create"
    <3>1. /\ mapping[ChatOf(p)] # NoRow
          /\ thread' = [thread EXCEPT ![p] = mapping[ChatOf(p)].thread]
          /\ UNCHANGED <<inbox, cur>>
          /\ pc[p] \in Handling
      BY <1>0, <1>4, <2>3
         DEF HandleUpdate, Goto, LocalTypes, telegram, Handling
    <3>2. ChatOf(p) \in Chats
      BY <3>1, ChatInBatch
    <3>3. Ready(mapping[ChatOf(p)].thread, ChatOf(p))
      BY <3>1, <3>2 DEF RouteInv, RowsReady
    <3>4. thread'[p] = mapping[ChatOf(p)].thread
      BY <1>0, <3>1 DEF LocalTypes
    <3> QED
      BY <1>1, <3>1, <3>3, <3>4
  <2> QED
    BY <2>1, <2>2, <2>3
<1>5. CASE ClearChatBlocked(p) \/ BuildInboundMessage(p) \/ SendMessage(p)
             \/ ResendMessage(p)
  <2>1. CASE Advance(p) \/ GiveUpBatch(p) \/ Abandon(p)
    BY <2>1, LeaveRouted
  <2>2. CASE ~(Advance(p) \/ GiveUpBatch(p) \/ Abandon(p))
    <3>1. UNCHANGED <<inbox, cur, thread>> /\ pc[p] \in HoldsReady \cap Handling
      BY <1>5, <2>2
         DEF ClearChatBlocked, BuildInboundMessage, SendMessage, ResendMessage,
             Post, telegram, locals, Handling, HoldsReady
    <3>2. Ready(thread[p], ChatOf(p)) /\ thread'[p] = thread[p]
      BY <1>0, <3>1 DEF Routed
    <3> QED
      BY <1>1, <3>1, <3>2
  <2> QED
    BY <2>1, <2>2
<1>6. CASE CreateThread(p)
  <2>1. CASE Abandon(p)
    BY <2>1, LeaveRouted
  <2>2. CASE ~Abandon(p)
    <3> DEFINE n == Len(threads) + 1
               r == [chat |-> ChatOf(p), agent |-> FALSE, degraded |-> FALSE]
    <3>1. /\ threads' = Append(threads, r) /\ UNCHANGED <<inbox, cur>>
          /\ thread'[p] = n /\ pc'[p] = "join"
      BY <1>0, <1>6, <2>2 DEF CreateThread, Goto, LocalTypes, telegram
    <3>2. r \in ThreadRecord
      BY <1>6, ChatInBatch DEF CreateThread, Handling, ThreadRecord
    <3>3. /\ Append(threads, r)[n] = r
          /\ n \in DOMAIN Append(threads, r)
      <4>1. /\ Append(threads, r)[n] = r /\ Len(Append(threads, r)) = n
            /\ Append(threads, r) \in Seq(ThreadRecord)
        BY <1>0, <3>2, AppendProperties DEF SharedTypes
      <4>2. Len(threads) \in Nat
        BY <1>0 DEF SharedTypes
      <4> QED
        BY <4>1, <4>2
    <3>4. ChatOf(p)' = ChatOf(p)
      BY <3>1 DEF ChatOf
    <3>5. thread'[p] \in DOMAIN threads' /\ threads'[thread'[p]].chat = ChatOf(p)
      BY <3>1, <3>3
    <3> QED
      BY <3>1, <3>4, <3>5 DEF Routed, Own, HoldsReady
  <2> QED
    BY <2>1, <2>2
<1>7. CASE AddParticipant(p)
  <2>1. CASE Abandon(p)
    BY <2>1, LeaveRouted
  <2>2. CASE ~Abandon(p)
    <3>1. /\ threads' = [threads EXCEPT ![thread[p]].agent = TRUE]
          /\ UNCHANGED <<inbox, cur, thread>> /\ pc'[p] = "insert"
      BY <1>0, <1>7, <2>2
         DEF AddParticipant, Goto, LocalTypes, telegram, locals
    <3>2. Own(thread[p], ChatOf(p)) /\ threads \in Seq(ThreadRecord)
      BY <1>0, <1>7 DEF AddParticipant, Routed, SharedTypes
    <3>3. /\ thread[p] \in DOMAIN threads'
          /\ threads'[thread[p]].chat = ChatOf(p)
          /\ threads'[thread[p]].agent
      <4>1. PICK t \in Nat : t = thread[p] /\ t \in DOMAIN threads
        BY <1>0, <3>2 DEF Own, LocalTypes
      <4>2. threads[t] \in ThreadRecord /\ threads[t].chat = ChatOf(p)
        BY <3>2, <4>1 DEF Own
      <4>3. threads' = [threads EXCEPT ![t] = [threads[t] EXCEPT !.agent = TRUE]]
        BY <3>1, <4>1
      <4>4. t \in DOMAIN threads' /\ threads'[t] = [threads[t] EXCEPT !.agent = TRUE]
        BY <4>1, <4>3
      <4> QED
        BY <4>1, <4>2, <4>4 DEF ThreadRecord
    <3>4. ChatOf(p)' = ChatOf(p)
      BY <3>1 DEF ChatOf
    <3> QED
      BY <3>1, <3>3, <3>4 DEF Routed, Own, Ready
  <2> QED
    BY <2>1, <2>2
<1>8. CASE CreateChatMapping(p)
  <2>1. CASE Abandon(p)
    BY <2>1, LeaveRouted
  <2>2. CASE ~Abandon(p)
    <3> DEFINE row == IF mapping[ChatOf(p)] = NoRow
                        THEN [thread |-> thread[p], blocked |-> FALSE]
                        ELSE mapping[ChatOf(p)]
    <3>1. /\ thread' = [thread EXCEPT ![p] = row.thread]
          /\ UNCHANGED <<inbox, cur>> /\ pc[p] = "insert"
      BY <1>8, <2>2 DEF CreateChatMapping, telegram
    <3>2. ChatOf(p) \in Chats /\ Ready(thread[p], ChatOf(p))
      BY <1>0, <3>1, ChatInBatch DEF Handling, Routed, HoldsReady
    <3>3. Ready(row.thread, ChatOf(p))
      BY <3>2 DEF RouteInv, RowsReady
    <3>4. thread'[p] = row.thread
      BY <1>0, <3>1 DEF LocalTypes
    <3> HIDE DEF row
    <3> QED
      BY <1>1, <3>1, <3>3, <3>4 DEF Handling
  <2> QED
    BY <2>1, <2>2
<1>9. CASE DeleteChatMapping(p)
  <2>1. CASE Abandon(p)
    BY <2>1, LeaveRouted
  <2>2. CASE ~Abandon(p)
    BY <1>0, <1>9, <2>2
       DEF DeleteChatMapping, Goto, LocalTypes, Routed, HoldsReady
  <2> QED
    BY <2>1, <2>2
<1>10. CASE PersistInstallationState(p)
  <2>1. pc'[p] \in {"persist", "top"}
    BY <1>0, <1>10 DEF PersistInstallationState, Goto, LocalTypes
  <2> QED
    BY <2>1 DEF Routed, HoldsReady
<1> QED
  BY <1>2, <1>3, <1>4, <1>5, <1>6, <1>7, <1>8, <1>9, <1>10 DEF Worker

LEMMA RoutedStep ==
  ASSUME TypeInv, TypeInv', RouteInv, Next, NEW q \in Procs
  PROVE  Routed(q)'
<1>1. ASSUME pc'[q] = pc[q], cur'[q] = cur[q], thread'[q] = thread[q]
      PROVE  Routed(q)'
  <2>1. CASE pc[q] \notin HoldsReady \cup {"join"}
    BY <1>1, <2>1 DEF Routed
  <2>2. CASE pc[q] \in HoldsReady \cup {"join"}
    <3>1. pc[q] \in Handling
      BY <2>2 DEF HoldsReady, Handling
    <3>2. PICK c : c = ChatOf(q)
      OBVIOUS
    <3>3. ChatOf(q)' = c
      BY <1>1, <3>1, <3>2, ChatInBatch, InboxGrows DEF ChatOf
    <3>4. PICK t : t = thread[q]
      OBVIOUS
    <3>5. /\ pc[q] = "join" => Own(t, c)
          /\ pc[q] \in HoldsReady => Ready(t, c)
      BY <3>2, <3>4 DEF RouteInv, Routed
    <3>6. /\ pc[q] = "join" => Own(t, c)'
          /\ pc[q] \in HoldsReady => Ready(t, c)'
      BY <3>5, ReadyStays
    <3> QED
      BY <1>1, <3>3, <3>4, <3>6 DEF Routed, Own, Ready
  <2> QED
    BY <2>1, <2>2
<1>2. CASE Environment
  BY <1>1, <1>2, EnvironmentMoves DEF Routed, HoldsReady
<1>3. ASSUME NEW p \in Procs, p # q, Worker(p) PROVE Routed(q)'
  BY <1>1, <1>3, OthersKeep
<1>4. CASE Worker(q)
  BY <1>4, WorkerRouted
<1> QED
  BY <1>2, <1>3, <1>4 DEF Next

\* A row keeps its thread, or is entered by a process that holds one for it.
LEMMA RowsChange ==
  ASSUME TypeInv, Next, NEW c \in Chats, mapping'[c] # NoRow
  PROVE  \/ mapping[c] # NoRow /\ mapping'[c].thread = mapping[c].thread
         \/ \E p \in Procs : /\ CreateChatMapping(p) /\ c = ChatOf(p)
                             /\ mapping'[c].thread = thread[p]
<1>0. mapping \in [Chats -> Row \cup {NoRow}]
  BY DEF TypeInv, TypeOK, SharedTypes
<1>1. CASE mapping' = mapping
  BY <1>1
<1>2. ASSUME NEW d \in Chats, NEW b \in BOOLEAN, mapping[d] # NoRow,
             mapping' = [mapping EXCEPT ![d].blocked = b]
      PROVE  mapping[c] # NoRow /\ mapping'[c].thread = mapping[c].thread
  <2>1. mapping[d] \in Row
    BY <1>0, <1>2
  <2>2. mapping' = [mapping EXCEPT ![d] = [mapping[d] EXCEPT !.blocked = b]]
    BY <1>2
  <2>3. CASE c = d
    BY <1>0, <1>2, <2>1, <2>2, <2>3 DEF Row
  <2>4. CASE c # d
    BY <1>0, <2>2, <2>4
  <2> QED
    BY <2>3, <2>4
<1>3. CASE MarkBlocked
  BY <1>2, <1>3 DEF MarkBlocked
<1>4. ASSUME NEW p \in Procs, ClearChatBlocked(p), mapping' # mapping
      PROVE  mapping[c] # NoRow /\ mapping'[c].thread = mapping[c].thread
  BY <1>2, <1>4, ChatInBatch DEF ClearChatBlocked, Handling
<1>5. ASSUME NEW p \in Procs, CreateChatMapping(p), mapping' # mapping
      PROVE  \/ mapping[c] # NoRow /\ mapping'[c].thread = mapping[c].thread
             \/ c = ChatOf(p) /\ mapping'[c].thread = thread[p]
  <2>1. ChatOf(p) \in Chats /\ pc[p] = "insert"
    BY <1>5, ChatInBatch DEF CreateChatMapping, Handling
  <2>2. mapping' = [mapping EXCEPT ![ChatOf(p)] =
                      IF mapping[ChatOf(p)] = NoRow
                        THEN [thread |-> thread[p], blocked |-> FALSE]
                        ELSE mapping[ChatOf(p)]]
    BY <1>5 DEF CreateChatMapping
  <2>3. CASE c = ChatOf(p)
    BY <1>0, <2>1, <2>2, <2>3
  <2>4. CASE c # ChatOf(p)
    BY <1>0, <2>1, <2>2, <2>4
  <2> QED
    BY <2>3, <2>4
<1>6. ASSUME NEW p \in Procs, DeleteChatMapping(p), mapping' # mapping
      PROVE  mapping[c] # NoRow /\ mapping'[c].thread = mapping[c].thread
  <2>1. ChatOf(p) \in Chats /\ mapping' = [mapping EXCEPT ![ChatOf(p)] = NoRow]
    BY <1>6, ChatInBatch DEF DeleteChatMapping, Handling
  <2> QED
    BY <1>0, <2>1
<1>7. ASSUME NEW p \in Procs, Worker(p), ~ClearChatBlocked(p),
             ~CreateChatMapping(p), ~DeleteChatMapping(p)
      PROVE  mapping' = mapping
  <2>1. CASE Start(p) \/ LoadInstallationState(p) \/ BeginPoll(p)
    BY <2>1 DEF Start, LoadInstallationState, BeginPoll, database
  <2>2. CASE PollAnswered(p) \/ PollFailed(p) \/ PersistInstallationState(p)
    BY <2>2 DEF PollAnswered, PollFailed, PersistInstallationState, database
  <2>3. CASE HandleUpdate(p) \/ BuildInboundMessage(p) \/ CreateThread(p)
    BY <2>3 DEF HandleUpdate, BuildInboundMessage, CreateThread, database
  <2>4. CASE AddParticipant(p) \/ SendMessage(p) \/ ResendMessage(p)
    BY <2>4 DEF AddParticipant, SendMessage, ResendMessage, database
  <2> QED
    BY <1>7, <2>1, <2>2, <2>3, <2>4 DEF Worker
<1>8. CASE Environment /\ ~MarkBlocked
  BY <1>1, <1>8
     DEF Environment, Arrive, Degrade, OutboundRejected, Stop, database
<1> QED
  BY <1>1, <1>3, <1>4, <1>5, <1>6, <1>7, <1>8 DEF Next

\* A row is entered by a process that holds a ready thread of the chat.
LEMMA RowsStep ==
  ASSUME TypeInv, RouteInv, Next
  PROVE  RowsReady'
<1>1. ASSUME NEW c \in Chats, mapping'[c] # NoRow,
             NEW t, mapping'[c].thread = t, Ready(t, c)
      PROVE  Ready(mapping[c].thread, c)'
  <2>1. Ready(t, c)'
    BY <1>1, ReadyStays
  <2> QED
    BY <1>1, <2>1 DEF Ready, Own
<1>2. ASSUME NEW c \in Chats, mapping'[c] # NoRow
      PROVE  \E t : mapping'[c].thread = t /\ Ready(t, c)
  BY <1>2, RowsChange DEF RouteInv, RowsReady, Routed, HoldsReady, CreateChatMapping
<1> QED
  BY <1>1, <1>2 DEF RowsReady

\* A post goes to the thread the process holds for the update in hand.
LEMMA PostsStep ==
  ASSUME TypeInv, RouteInv, Next
  PROVE  PostsReady'
<1>1. ASSUME NEW t, NEW u, u \in DOMAIN inbox, Ready(t, inbox[u].chat)
      PROVE  u \in DOMAIN inbox' /\ Ready(t, inbox[u].chat)'
  <2>1. inbox \in Seq(Update) /\ inbox' \in Seq(Update)
    BY StepType DEF TypeInv, TypeOK, SharedTypes
  <2>2. Len(inbox) <= Len(inbox') /\ u \in 1 .. Len(inbox) /\ inbox'[u] = inbox[u]
    BY <1>1, <2>1, InboxGrows
  <2>3. PICK c : c = inbox[u].chat
    OBVIOUS
  <2>4. Ready(t, c)'
    BY <1>1, <2>3, ReadyStays
  <2>5. u \in DOMAIN inbox'
    BY <2>1, <2>2
  <2> QED
    BY <2>2, <2>3, <2>4, <2>5 DEF Ready, Own
<1>2. ASSUME NEW i \in DOMAIN posts', i \in DOMAIN posts, posts'[i] = posts[i]
      PROVE  /\ posts'[i].update \in DOMAIN inbox'
             /\ Ready(posts[i].thread, inbox[posts[i].update].chat)'
  <2>1. PICK t, u : t = posts[i].thread /\ u = posts[i].update
    OBVIOUS
  <2>2. u \in DOMAIN inbox /\ Ready(t, inbox[u].chat)
    BY <1>2, <2>1 DEF RouteInv, PostsReady
  <2>3. u \in DOMAIN inbox' /\ Ready(t, inbox[u].chat)'
    BY <1>1, <2>2
  <2> QED
    BY <1>2, <2>1, <2>3 DEF Ready, Own
<1>3. CASE posts' = posts
  BY <1>2, <1>3 DEF PostsReady
<1>4. CASE posts' # posts
  <2>1. PICK p \in Procs : /\ pc[p] \in Handling
                           /\ pc[p] \in {"send", "resend"}
                           /\ Adds(cur[p], thread[p])
    BY <1>4, History
  <2>2. PICK r : /\ r = [thread |-> thread[p], update |-> cur[p]]
                 /\ posts' = Append(posts, r)
    BY <1>4, <2>1 DEF Adds
  <2>3. /\ Len(posts) \in Nat
        /\ DOMAIN posts = 1 .. Len(posts)
        /\ DOMAIN posts' = 1 .. Len(posts) + 1
        /\ \A i \in DOMAIN posts : posts'[i] = posts[i]
        /\ posts'[Len(posts) + 1] = r
    BY <2>2, AppendPost
  <2>4. r.update \in DOMAIN inbox /\ Ready(r.thread, inbox[r.update].chat)
    <3>1. cur[p] \in 1 .. Len(inbox) /\ inbox \in Seq(Update)
      BY <2>1, ChatInBatch DEF TypeInv, TypeOK, SharedTypes
    <3>2. Ready(thread[p], ChatOf(p))
      BY <2>1 DEF RouteInv, Routed, HoldsReady
    <3> QED
      BY <2>2, <3>1, <3>2 DEF ChatOf
  <2>5. PICK t, u : t = r.thread /\ u = r.update
    OBVIOUS
  <2>6. u \in DOMAIN inbox' /\ Ready(t, inbox[u].chat)'
    BY <1>1, <2>4, <2>5
  <2>7. ASSUME NEW i \in DOMAIN posts'
        PROVE  /\ posts'[i].update \in DOMAIN inbox'
               /\ Ready(posts[i].thread, inbox[posts[i].update].chat)'
    <3>1. CASE i \in DOMAIN posts
      BY <1>2, <2>3, <3>1
    <3>2. CASE i = Len(posts) + 1
      BY <2>3, <2>5, <2>6, <3>2 DEF Ready, Own
    <3> QED
      BY <2>3, <2>7, <3>1, <3>2
  <2> QED
    BY <2>7 DEF PostsReady
<1> QED
  BY <1>3, <1>4

LEMMA StepRoute == TypeInv /\ TypeInv' /\ RouteInv /\ [Next]_vars => RouteInv'
<1>1. RouteInv /\ UNCHANGED vars => RouteInv'
  BY DEF RouteInv, RowsReady, PostsReady, Routed, Own, Ready, ChatOf, vars,
         telegram, service, database, locals
<1>2. ASSUME TypeInv, TypeInv', RouteInv, Next PROVE RouteInv'
  BY <1>2, RoutedStep, RowsStep, PostsStep DEF RouteInv
<1> QED
  BY <1>1, <1>2

LEMMA RouteInvariant == Spec => []RouteInv
  BY InitRoute, StepRoute, TypeInvariant, PTL DEF Spec

\* A row of chat_mappings always leads to a thread made for its chat, with the
\* agent in it, whatever processes create, rotate and delete rows meanwhile.
THEOREM MappingAlwaysSound == Spec => []MappingSound
<1>1. RouteInv => MappingSound
  BY DEF RouteInv, RowsReady, Ready, Own, MappingSound
<1> QED
  BY <1>1, RouteInvariant, PTL

\* No message is ever posted to a thread of another chat, or to a thread the
\* agent is not in.
THEOREM PostsAlwaysRouted == Spec => []PostsRouted
<1>1. RouteInv => PostsRouted
  BY DEF RouteInv, PostsReady, Ready, Own, PostsRouted
<1> QED
  BY <1>1, RouteInvariant, PTL

-----------------------------------------------------------------------------
(* Updates given up: SkippedForCause.                                      *)
(*                                                                         *)
(* Why are the two threads different?  A thread that is replaced is        *)
(* retired: no row names it, and it is not on its way into a row, so no    *)
(* process can find it again, whichever of them enters the next row.       *)

\* Where a process holds a thread, and where that may not be in a row yet.
HoldsThread == HoldsReady \cup {"join"}
Enters == {"join", "insert"}

\* The thread a process is about to enter in chat_mappings is its own.
NotYetListed(p) ==
  pc[p] \in Enters =>
    /\ \A c \in Chats : mapping[c] # NoRow => mapping[c].thread # thread[p]
    /\ \A q \in Procs \ {p} : pc[q] \in HoldsThread => thread[q] # thread[p]

Retired(s) ==
  /\ s \in DOMAIN threads /\ threads[s].degraded
  /\ \A c \in Chats : mapping[c] # NoRow => mapping[c].thread # s
  /\ \A p \in Procs : pc[p] \in Enters => thread[p] # s

\* remapThreadMapping has replaced a degraded thread of the chat.
Replaced(p) ==
  \E s \in DOMAIN threads :
    /\ Retired(s) /\ threads[s].chat = ChatOf(p)
    /\ pc[p] = "resend" => thread[p] # s

Replaces(p) ==
  /\ pc[p] = "delete" => threads[thread[p]].degraded
  /\ pc[p] = "resend" \/ (pc[p] \in Enters \cup {"create"} /\ rotating[p]) => Replaced(p)

SkipInv ==
  /\ skipped \subseteq DOMAIN inbox
  /\ SkippedForCause
  /\ \A p \in Procs : NotYetListed(p) /\ Replaces(p)

LEMMA InitSkip == Init => SkipInv
  BY DEF Init, SkipInv, SkippedForCause, NotYetListed, Replaces, Enters

\* How a worker comes by a thread: it has it, makes it, or reads it from a row.
LEMMA ThreadMoves ==
  ASSUME TypeInv, NEW p \in Procs, Worker(p), pc'[p] \in HoldsThread
  PROVE  \/ /\ pc[p] \in HoldsThread /\ thread'[p] = thread[p]
            /\ pc'[p] \in Enters => pc[p] \in Enters
            /\ cur'[p] = cur[p] /\ inbox' = inbox
         \/ /\ CreateThread(p) /\ pc'[p] = "join"
            /\ thread'[p] = Len(threads) + 1
            /\ cur'[p] = cur[p] /\ inbox' = inbox /\ rotating'[p] = rotating[p]
         \/ /\ pc'[p] \notin Enters \cup {"delete"}
            /\ mapping[ChatOf(p)] # NoRow
            /\ thread'[p] = mapping[ChatOf(p)].thread
            /\ cur'[p] = cur[p] /\ inbox' = inbox
<1>0. LocalTypes /\ SharedTypes
  BY DEF TypeInv, TypeOK
<1> USE <1>0 DEF HoldsThread, HoldsReady, Enters
<1>1. ~Advance(p) /\ ~GiveUpBatch(p) /\ ~Abandon(p)
  BY DEF Advance, GiveUpBatch, Abandon, Goto, LocalTypes
<1>2. CASE Start(p) \/ LoadInstallationState(p) \/ BeginPoll(p)
  BY <1>2 DEF Start, LoadInstallationState, BeginPoll, Goto, LocalTypes
<1>3. CASE PollAnswered(p) \/ PollFailed(p)
  BY <1>3 DEF PollAnswered, PollFailed, Goto, LocalTypes
<1>4. CASE HandleUpdate(p)
  BY <1>1, <1>4 DEF HandleUpdate, Goto, LocalTypes, telegram
<1>5. CASE ClearChatBlocked(p) \/ AddParticipant(p) \/ BuildInboundMessage(p)
  BY <1>1, <1>5
     DEF ClearChatBlocked, AddParticipant, BuildInboundMessage, Goto, LocalTypes, locals,
         telegram
<1>6. CASE CreateThread(p)
  BY <1>1, <1>6 DEF CreateThread, Goto, LocalTypes, telegram
<1>7. CASE CreateChatMapping(p)
  BY <1>1, <1>7 DEF CreateChatMapping, Goto, LocalTypes, telegram
<1>8. CASE SendMessage(p) \/ ResendMessage(p)
  BY <1>1, <1>8 DEF SendMessage, ResendMessage, Post, Goto, LocalTypes, locals, telegram
<1>9. CASE DeleteChatMapping(p)
  BY <1>1, <1>9 DEF DeleteChatMapping, Goto, LocalTypes
<1>10. CASE PersistInstallationState(p)
  BY <1>10 DEF PersistInstallationState, Goto, LocalTypes
<1> QED
  BY <1>2, <1>3, <1>4, <1>5, <1>6, <1>7, <1>8, <1>9, <1>10 DEF Worker

\* How a worker comes to replace a thread.
LEMMA ReplaceMoves ==
  ASSUME TypeInv, NEW p \in Procs, Worker(p)
  PROVE  /\ pc'[p] = "delete" =>
              /\ pc[p] = "send" /\ threads[thread[p]].degraded
              /\ thread'[p] = thread[p] /\ threads' = threads
         /\ pc'[p] = "create" /\ rotating'[p] =>
              /\ pc[p] = "delete" /\ mapping' = [mapping EXCEPT ![ChatOf(p)] = NoRow]
              /\ cur'[p] = cur[p] /\ UNCHANGED <<inbox, threads>>
         /\ pc'[p] \in Enters /\ rotating'[p] =>
              /\ pc[p] \in Enters \cup {"create"} /\ rotating[p]
              /\ cur'[p] = cur[p] /\ inbox' = inbox
         /\ pc'[p] = "resend" =>
              pc[p] = "insert" /\ rotating[p] /\ cur'[p] = cur[p] /\ inbox' = inbox
<1>0. LocalTypes /\ SharedTypes
  BY DEF TypeInv, TypeOK
<1> USE <1>0 DEF Enters
<1>a. Advance(p) \/ GiveUpBatch(p) \/ Abandon(p) =>
        pc'[p] \notin {"delete", "create", "resend"} \cup Enters
  BY DEF Advance, GiveUpBatch, Abandon, Goto, LocalTypes
<1>1. CASE Start(p) \/ LoadInstallationState(p) \/ BeginPoll(p)
  BY <1>1 DEF Start, LoadInstallationState, BeginPoll, Goto, LocalTypes
<1>2. CASE PollAnswered(p) \/ PollFailed(p)
  BY <1>2 DEF PollAnswered, PollFailed, Goto, LocalTypes
<1>3. CASE HandleUpdate(p)
  BY <1>a, <1>3 DEF HandleUpdate, Goto, LocalTypes, telegram
<1>4. CASE ClearChatBlocked(p) \/ BuildInboundMessage(p)
  BY <1>a, <1>4 DEF ClearChatBlocked, BuildInboundMessage, Goto, LocalTypes
<1>5. CASE CreateThread(p)
  BY <1>a, <1>5 DEF CreateThread, Goto, LocalTypes, telegram
<1>6. CASE AddParticipant(p)
  BY <1>a, <1>6 DEF AddParticipant, Goto, LocalTypes, locals, telegram
<1>7. CASE CreateChatMapping(p)
  BY <1>a, <1>7 DEF CreateChatMapping, Goto, LocalTypes, telegram
<1>8. CASE SendMessage(p) \/ ResendMessage(p)
  BY <1>a, <1>8 DEF SendMessage, ResendMessage, Post, Goto, LocalTypes, locals
<1>9. CASE DeleteChatMapping(p)
  BY <1>a, <1>9 DEF DeleteChatMapping, Goto, LocalTypes, telegram, service
<1>10. CASE PersistInstallationState(p)
  <2>1. pc'[p] \in {"persist", "top"}
    BY <1>10 DEF PersistInstallationState, Goto, LocalTypes
  <2> QED
    BY <2>1
<1> QED
  BY <1>1, <1>2, <1>3, <1>4, <1>5, <1>6, <1>7, <1>8, <1>9, <1>10 DEF Worker

\* A thread that is retired stays so: no process can enter it in a row again.
LEMMA RetiredStays ==
  ASSUME TypeInv, Next, NEW s, Retired(s)
  PROVE  Retired(s)'
<1>1. s \in DOMAIN threads' /\ threads'[s].degraded
  BY ThreadsGrow DEF Retired
<1>2. ASSUME NEW c \in Chats, mapping'[c] # NoRow PROVE mapping'[c].thread # s
  BY <1>2, RowsChange DEF Retired, CreateChatMapping, Enters
<1>3. ASSUME NEW p \in Procs, pc'[p] \in Enters PROVE thread'[p] # s
  <2>1. CASE thread'[p] = thread[p] /\ pc[p] \in Enters
    BY <2>1 DEF Retired
  <2>2. CASE Worker(p)
    <3>1. s \in 1 .. Len(threads) /\ Len(threads) \in Nat
      BY DEF Retired, TypeInv, TypeOK, SharedTypes
    <3> QED
      BY <1>3, <2>1, <2>2, <3>1, ThreadMoves DEF HoldsThread, HoldsReady, Enters
  <2>3. ASSUME NEW q \in Procs, q # p, Worker(q) PROVE thread'[p] # s
    BY <1>3, <2>1, <2>3, OthersKeep
  <2>4. CASE Environment
    BY <1>3, <2>1, <2>4, EnvironmentMoves DEF Enters
  <2> QED
    BY <2>2, <2>3, <2>4 DEF Next
<1> QED
  BY <1>1, <1>2, <1>3 DEF Retired

\* Every thread a process holds, and every one in a row, exists.
LEMMA HeldExists ==
  ASSUME TypeInv, RouteInv
  PROVE  /\ Len(threads) \in Nat /\ DOMAIN threads = 1 .. Len(threads)
         /\ \A p \in Procs : pc[p] \in HoldsThread => thread[p] \in DOMAIN threads
         /\ \A c \in Chats : mapping[c] # NoRow => mapping[c].thread \in DOMAIN threads
<1>1. Len(threads) \in Nat /\ DOMAIN threads = 1 .. Len(threads)
  BY DEF TypeInv, TypeOK, SharedTypes
<1> QED
  BY <1>1 DEF RouteInv, Routed, RowsReady, Ready, Own, HoldsThread

LEMMA ListedStep ==
  ASSUME TypeInv, RouteInv, SkipInv, Next, NEW q \in Procs
  PROVE  NotYetListed(q)'
<1> SUFFICES ASSUME pc'[q] \in Enters
             PROVE  /\ \A c \in Chats : mapping'[c] # NoRow => mapping'[c].thread # thread'[q]
                    /\ \A p \in Procs \ {q} : pc'[p] \in HoldsThread => thread'[p] # thread'[q]
  BY DEF NotYetListed
<1>0. NotYetListed(q) /\ \A p \in Procs : NotYetListed(p)
  BY DEF SkipInv
<1>1. CASE pc[q] \in Enters /\ thread'[q] = thread[q]
  <2>1. ASSUME NEW c \in Chats, mapping'[c] # NoRow PROVE mapping'[c].thread # thread[q]
    <3>1. CASE mapping[c] # NoRow /\ mapping'[c].thread = mapping[c].thread
      BY <1>0, <1>1, <3>1 DEF NotYetListed
    <3>2. ASSUME NEW p \in Procs, CreateChatMapping(p), mapping'[c].thread = thread[p]
          PROVE  mapping'[c].thread # thread[q]
      <4>1. pc[p] = "insert" /\ pc'[p] \notin Enters
        BY <3>2 DEF CreateChatMapping, Abandon, GiveUpBatch, Goto, Enters, TypeInv, TypeOK,
                    LocalTypes
      <4>2. p # q
        BY <4>1
      <4> QED
        BY <1>0, <1>1, <3>2, <4>1, <4>2 DEF NotYetListed, HoldsThread, HoldsReady
    <3> QED
      BY <2>1, <3>1, <3>2, RowsChange
  <2>2. ASSUME NEW p \in Procs, p # q, pc'[p] \in HoldsThread PROVE thread'[p] # thread[q]
    <3>1. CASE pc[p] \in HoldsThread /\ thread'[p] = thread[p]
      BY <1>0, <1>1, <2>2, <3>1 DEF NotYetListed
    <3>2. CASE Worker(p)
      <4>1. thread[q] \in 1 .. Len(threads) /\ Len(threads) \in Nat
        BY <1>1, HeldExists DEF HoldsThread, HoldsReady, Enters
      <4>2. CASE thread'[p] = Len(threads) + 1
        BY <4>1, <4>2
      <4>3. CASE mapping[ChatOf(p)] # NoRow /\ thread'[p] = mapping[ChatOf(p)].thread
                 /\ ChatOf(p) \in Chats
        BY <1>0, <1>1, <4>3 DEF NotYetListed
      <4>4. pc[p] \in Handling
        BY <2>2, <3>2, Moves
           DEF Leaves, Loads, Fetches, Stays, Advances, Persists, HoldsThread, HoldsReady,
               Handling
      <4> QED
        BY <2>2, <3>1, <3>2, <4>2, <4>3, <4>4, ThreadMoves, ChatInBatch
    <3>3. ASSUME NEW r \in Procs, r # p, Worker(r) PROVE thread'[p] # thread[q]
      BY <2>2, <3>1, <3>3, OthersKeep
    <3>4. CASE Environment
      BY <2>2, <3>1, <3>4, EnvironmentMoves DEF HoldsThread, HoldsReady
    <3> QED
      BY <3>2, <3>3, <3>4 DEF Next
  <2> QED
    BY <1>1, <2>1, <2>2
<1>2. CASE CreateThread(q) /\ thread'[q] = Len(threads) + 1 /\ Worker(q)
  <2>1. mapping' = mapping
    BY <1>2 DEF CreateThread, database
  <2>2. \A p \in Procs \ {q} : pc'[p] = pc[p] /\ thread'[p] = thread[p]
    BY <1>2, OthersKeep
  <2> QED
    BY <1>2, <2>1, <2>2, HeldExists
<1>3. CASE Worker(q)
  BY <1>1, <1>2, <1>3, ThreadMoves DEF HoldsThread, HoldsReady, Enters
<1>4. ASSUME NEW p \in Procs, p # q, Worker(p)
      PROVE  pc[q] \in Enters /\ thread'[q] = thread[q]
  BY <1>4, OthersKeep
<1>5. CASE Environment
  BY <1>1, <1>5, EnvironmentMoves DEF Enters
<1> QED
  BY <1>1, <1>3, <1>4, <1>5 DEF Next

LEMMA ReplacesStep ==
  ASSUME TypeInv, RouteInv, SkipInv, Next, NEW q \in Procs
  PROVE  Replaces(q)'
<1>0. /\ Replaces(q) /\ Routed(q)
      /\ \A p \in Procs : NotYetListed(p)
      /\ \A c \in Chats : mapping[c] # NoRow => Ready(mapping[c].thread, c)
  BY DEF SkipInv, RouteInv, RowsReady
\* What is known of a replaced thread stays true.
<1>a. ASSUME NEW s, NEW c, Retired(s), s \in DOMAIN threads, threads[s].chat = c,
             ChatOf(q)' = c, pc'[q] = "resend" => thread'[q] # s
      PROVE  Replaced(q)'
  <2>1. Retired(s)' /\ s \in DOMAIN threads' /\ threads'[s].chat = c
    BY <1>a, RetiredStays, ThreadsGrow
  <2> QED
    BY <1>a, <2>1 DEF Replaced
<1>b. ASSUME cur'[q] = cur[q], pc[q] \in Handling
      PROVE  ChatOf(q)' = ChatOf(q)
  BY <1>b, ChatInBatch, InboxGrows DEF ChatOf
<1>c. ASSUME Replaced(q), cur'[q] = cur[q], pc[q] \in Handling,
             pc'[q] = "resend" =>
               \/ pc[q] = "resend" /\ thread'[q] = thread[q]
               \/ pc[q] = "insert" /\ thread'[q] = thread[q]
               \/ /\ mapping[ChatOf(q)] # NoRow
                  /\ thread'[q] = mapping[ChatOf(q)].thread
      PROVE  Replaced(q)'
  <2>1. PICK s \in DOMAIN threads :
          /\ Retired(s) /\ threads[s].chat = ChatOf(q)
          /\ pc[q] = "resend" => thread[q] # s
    BY <1>c DEF Replaced
  <2>2. PICK c : c = ChatOf(q)
    OBVIOUS
  <2>3. ChatOf(q)' = c
    BY <1>b, <1>c, <2>2
  <2>4. pc'[q] = "resend" => thread'[q] # s
    BY <1>c, <2>1, ChatInBatch DEF Retired, Enters
  <2> QED
    BY <1>a, <2>1, <2>2, <2>3, <2>4
\* A process that did not move.
<1>1. ASSUME pc'[q] = pc[q], cur'[q] = cur[q], thread'[q] = thread[q], rotating'[q] = rotating[q]
      PROVE  Replaces(q)'
  <2>1. ASSUME pc[q] = "delete" PROVE threads'[thread'[q]].degraded
    <3>1. thread[q] \in DOMAIN threads /\ threads[thread[q]].degraded
      BY <1>0, <2>1, HeldExists DEF Replaces, HoldsThread, HoldsReady
    <3> QED
      BY <1>1, <3>1, ThreadsGrow
  <2>2. ASSUME pc[q] = "resend" \/ (pc[q] \in Enters \cup {"create"} /\ rotating[q])
        PROVE  Replaced(q)'
    BY <1>0, <1>1, <1>c, <2>2 DEF Replaces, Enters, Handling
  <2> QED
    BY <1>1, <2>1, <2>2 DEF Replaces
<1>2. CASE Worker(q)
  <2>1. ASSUME pc'[q] = "delete" PROVE threads'[thread'[q]].degraded
    BY <1>2, <2>1, ReplaceMoves
  <2>2. ASSUME pc'[q] = "create", rotating'[q] PROVE Replaced(q)'
    <3>1. /\ pc[q] = "delete" /\ mapping' = [mapping EXCEPT ![ChatOf(q)] = NoRow]
          /\ cur'[q] = cur[q] /\ UNCHANGED <<inbox, threads>>
      BY <1>2, <2>2, ReplaceMoves
    <3>2. PICK s : s = thread[q]
      OBVIOUS
    <3>3. /\ s \in DOMAIN threads /\ threads[s].degraded /\ threads[s].chat = ChatOf(q)
      BY <1>0, <3>1, <3>2 DEF Replaces, Routed, HoldsReady, Ready, Own
    <3>4. ASSUME NEW c \in Chats, mapping'[c] # NoRow PROVE mapping'[c].thread # s
      <4>1. c # ChatOf(q) /\ mapping'[c] = mapping[c]
        BY <3>1, <3>4 DEF TypeInv, TypeOK, SharedTypes
      <4> QED
        BY <1>0, <3>3, <3>4, <4>1 DEF Ready, Own
    <3>5. ASSUME NEW p \in Procs, pc'[p] \in Enters PROVE thread'[p] # s
      <4>1. p # q
        BY <2>2, <3>5 DEF Enters
      <4>2. pc[p] \in Enters /\ thread'[p] = thread[p]
        BY <1>2, <3>5, <4>1, OthersKeep
      <4> QED
        BY <1>0, <3>1, <3>2, <4>1, <4>2 DEF NotYetListed, HoldsThread, HoldsReady
    <3>6. ChatOf(q)' = ChatOf(q)
      BY <1>b, <3>1 DEF Handling
    <3>7. s \in DOMAIN threads' /\ threads'[s] = threads[s]
      BY <3>1, <3>3
    <3>8. Retired(s)'
      BY <3>3, <3>4, <3>5, <3>7 DEF Retired
    <3> QED
      BY <2>2, <3>3, <3>6, <3>7, <3>8 DEF Replaced
  <2>3. ASSUME pc'[q] \in Enters, rotating'[q] PROVE Replaced(q)'
    <3>1. pc[q] \in Enters \cup {"create"} /\ rotating[q] /\ cur'[q] = cur[q]
      BY <1>2, <2>3, ReplaceMoves
    <3> QED
      BY <1>0, <1>c, <2>3, <3>1 DEF Replaces, Enters, Handling
  <2>4. ASSUME pc'[q] = "resend" PROVE Replaced(q)'
    <3>1. pc[q] = "insert" /\ rotating[q] /\ cur'[q] = cur[q]
      BY <1>2, <2>4, ReplaceMoves
    <3>2. \/ thread'[q] = thread[q]
          \/ mapping[ChatOf(q)] # NoRow /\ thread'[q] = mapping[ChatOf(q)].thread
      BY <1>2, <2>4, <3>1, ThreadMoves DEF HoldsThread, HoldsReady
    <3> QED
      BY <1>0, <1>c, <3>1, <3>2 DEF Replaces, Enters, Handling
  <2> QED
    BY <2>1, <2>2, <2>3, <2>4 DEF Replaces
<1>3. ASSUME NEW p \in Procs, p # q, Worker(p) PROVE Replaces(q)'
  BY <1>1, <1>3, OthersKeep
<1>4. CASE Environment
  BY <1>1, <1>4, EnvironmentMoves DEF Replaces, Enters
<1> QED
  BY <1>2, <1>3, <1>4 DEF Next

\* The places where an update is given up.
LEMMA GivenUp ==
  ASSUME TypeInv, Next, skipped' # skipped
  PROVE  \E p \in Procs :
           /\ pc[p] \in Handling
           /\ skipped' = skipped \cup {cur[p]}
           /\ UNCHANGED <<inbox, threads>>
           /\ \/ inbox[cur[p]].kind \in {"ignored", "blank"}
              \/ pc[p] = "resend" /\ threads[thread[p]].degraded
<1>1. PICK p \in Procs : Worker(p)
  BY DEF Next, Environment, Arrive, Degrade, MarkBlocked, OutboundRejected, Stop
<1>2. CASE \/ Start(p) \/ LoadInstallationState(p) \/ BeginPoll(p) \/ PollAnswered(p)
           \/ PollFailed(p) \/ PersistInstallationState(p)
  BY <1>2 DEF Start, LoadInstallationState, BeginPoll, PollAnswered, PollFailed,
              PersistInstallationState
<1>3. CASE \/ ClearChatBlocked(p) \/ CreateThread(p) \/ AddParticipant(p)
           \/ CreateChatMapping(p) \/ DeleteChatMapping(p)
  BY <1>3 DEF ClearChatBlocked, CreateThread, AddParticipant, CreateChatMapping,
              DeleteChatMapping
<1>4. CASE HandleUpdate(p) \/ BuildInboundMessage(p)
  BY <1>4 DEF HandleUpdate, BuildInboundMessage, telegram, service, Handling
<1>5. CASE SendMessage(p) \/ ResendMessage(p)
  BY <1>5 DEF SendMessage, ResendMessage, Post, telegram, Handling
<1> QED
  BY <1>1, <1>2, <1>3, <1>4, <1>5 DEF Worker

\* The cause for which an update was given up.
Cause(u) ==
  inbox[u].kind \in {"ignored", "blank"} \/
    \E s, t \in DOMAIN threads :
      /\ s # t
      /\ threads[s].chat = inbox[u].chat /\ threads[s].degraded
      /\ threads[t].chat = inbox[u].chat /\ threads[t].degraded

LEMMA CauseStep ==
  ASSUME TypeInv, RouteInv, SkipInv, Next
  PROVE  skipped' \subseteq DOMAIN inbox' /\ SkippedForCause'
<1>0. /\ inbox \in Seq(Update) /\ inbox' \in Seq(Update)
      /\ skipped \subseteq DOMAIN inbox /\ \A u \in skipped : Cause(u)
  BY StepType DEF SkipInv, SkippedForCause, Cause, TypeInv, TypeOK, SharedTypes
<1>1. ASSUME NEW u \in DOMAIN inbox, Cause(u)
      PROVE  u \in DOMAIN inbox' /\ Cause(u)'
  <2>1. Len(inbox) <= Len(inbox') /\ u \in 1 .. Len(inbox) /\ inbox'[u] = inbox[u]
    BY <1>0, <1>1, InboxGrows
  <2>2. u \in DOMAIN inbox'
    BY <1>0, <2>1
  <2>3. CASE inbox[u].kind \in {"ignored", "blank"}
    BY <2>1, <2>2, <2>3 DEF Cause
  <2>4. CASE \E s, t \in DOMAIN threads :
               /\ s # t
               /\ threads[s].chat = inbox[u].chat /\ threads[s].degraded
               /\ threads[t].chat = inbox[u].chat /\ threads[t].degraded
    <3>1. PICK s, t \in DOMAIN threads :
            /\ s # t
            /\ threads[s].chat = inbox[u].chat /\ threads[s].degraded
            /\ threads[t].chat = inbox[u].chat /\ threads[t].degraded
      BY <2>4
    <3>2. /\ s \in DOMAIN threads' /\ threads'[s].chat = inbox[u].chat /\ threads'[s].degraded
          /\ t \in DOMAIN threads' /\ threads'[t].chat = inbox[u].chat /\ threads'[t].degraded
      BY <3>1, ThreadsGrow
    <3> QED
      BY <2>1, <2>2, <3>1, <3>2 DEF Cause
  <2> QED
    BY <1>1, <2>3, <2>4 DEF Cause
<1>2. ASSUME NEW p \in Procs, pc[p] \in Handling, UNCHANGED <<inbox, threads>>,
             \/ inbox[cur[p]].kind \in {"ignored", "blank"}
             \/ pc[p] = "resend" /\ threads[thread[p]].degraded
      PROVE  cur[p] \in DOMAIN inbox /\ Cause(cur[p])
  <2>1. cur[p] \in DOMAIN inbox
    BY <1>0, <1>2, ChatInBatch
  <2>2. CASE pc[p] = "resend" /\ threads[thread[p]].degraded
    <3>1. PICK s \in DOMAIN threads :
            /\ Retired(s) /\ threads[s].chat = ChatOf(p)
            /\ thread[p] # s
      BY <2>2 DEF SkipInv, Replaces, Replaced
    <3>2. thread[p] \in DOMAIN threads /\ threads[thread[p]].chat = ChatOf(p)
      BY <2>2 DEF RouteInv, Routed, HoldsReady, Ready, Own
    <3> QED
      BY <2>1, <2>2, <3>1, <3>2 DEF Cause, Retired, ChatOf
  <2> QED
    BY <1>2, <2>1, <2>2 DEF Cause
<1>3. ASSUME NEW u \in skipped' PROVE u \in DOMAIN inbox' /\ Cause(u)'
  <2>1. u \in DOMAIN inbox /\ Cause(u)
    BY <1>0, <1>2, <1>3, GivenUp
  <2> QED
    BY <1>1, <2>1
<1> QED
  BY <1>3 DEF SkippedForCause, Cause

LEMMA StepSkip == TypeInv /\ RouteInv /\ SkipInv /\ [Next]_vars => SkipInv'
<1>1. SkipInv /\ UNCHANGED vars => SkipInv'
  BY DEF SkipInv, SkippedForCause, NotYetListed, Replaces, Replaced, Retired, ChatOf, vars,
         telegram, service, database, locals
<1>2. ASSUME TypeInv, RouteInv, SkipInv, Next PROVE SkipInv'
  BY <1>2, ListedStep, ReplacesStep, CauseStep DEF SkipInv
<1> QED
  BY <1>1, <1>2

LEMMA SkipInvariant == Spec => []SkipInv
  BY InitSkip, StepSkip, TypeInvariant, RouteInvariant, PTL DEF Spec

\* A message with content is never given up without cause, not even when several
\* processes replace the threads of one chat at the same time.
THEOREM GivenUpForCause == Spec => []SkippedForCause
<1>1. SkipInv => SkippedForCause
  BY DEF SkipInv
<1> QED
  BY <1>1, SkipInvariant, PTL
=============================================================================
