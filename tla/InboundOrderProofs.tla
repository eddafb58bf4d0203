------------------------- MODULE InboundOrderProofs ------------------------
(***************************************************************************)
(* NoUpdateLost, HandledInOrder and the refinement of Relay, for any       *)
(* number of processes and any bounds, and what one process alone          *)
(* guarantees: DuplicatesBounded, OffsetNeverRegresses, AnswerFindsWayBack.*)
(*                                                                         *)
(* None of these is inductive.  OrderInv adds what every process knows     *)
(* about its place in the queue: all before its offset is settled, all     *)
(* before the update in hand is settled, and, once the batch is done, all  *)
(* of the batch.  What is settled stays settled whoever moves, so one      *)
(* process never invalidates what another one knows.                       *)
(***************************************************************************)
EXTENDS InboundProofs

Reads(p) ==
  /\ last[p] <= Len(inbox) /\ SettledUpTo(last[p])
  /\ pc[p] \in Handling => SettledUpTo(cur[p] - 1)
  /\ pc[p] = "persist" => SettledUpTo(top[p])

OrderInv ==
  /\ confirmed <= Len(inbox)
  /\ lastStored <= Len(inbox)
  /\ NoUpdateLost
  /\ HandledInOrder
  /\ \A p \in Procs : Reads(p)

LEMMA InitOrder == Init => OrderInv
  BY DEF Init, OrderInv, NoUpdateLost, HandledInOrder, Reads, SettledUpTo,
         Handling

\* What is settled stays settled.
LEMMA SettledStays ==
  ASSUME TypeInv, Next, NEW u, Settled(u)
  PROVE  Settled(u)'
<1>1. CASE UNCHANGED <<posts, skipped>>
  BY <1>1 DEF Settled, Posted
<1>2. ASSUME NEW p \in Procs, Adds(cur[p], thread[p]) PROVE Settled(u)'
  <2> DEFINE r == [thread |-> thread[p], update |-> cur[p]]
  <2>1. skipped \subseteq skipped'
    BY <1>2 DEF Adds
  <2>2. CASE posts' = posts
    BY <2>1, <2>2 DEF Settled, Posted
  <2>3. CASE posts' = Append(posts, r)
    <3>1. /\ Len(posts) \in Nat
          /\ DOMAIN posts = 1 .. Len(posts)
          /\ DOMAIN posts' = 1 .. Len(posts) + 1
          /\ \A i \in DOMAIN posts : posts'[i] = posts[i]
      BY <2>3, AppendPost
    <3>2. Posted(u) => Posted(u)'
      BY <3>1 DEF Posted
    <3> QED
      BY <2>1, <3>2 DEF Settled
  <2> QED
    BY <1>2, <2>2, <2>3 DEF Adds
<1> QED
  BY <1>1, <1>2, History

LEMMA SettledUpToStays ==
  ASSUME TypeInv, Next, NEW n, SettledUpTo(n)
  PROVE  SettledUpTo(n)'
  BY SettledStays DEF SettledUpTo

-----------------------------------------------------------------------------
(* OrderInv is inductive *)

\* A worker that moved knows its new place.
LEMMA ReadsStep ==
  ASSUME TypeInv, TypeInv', OrderInv, Next, NEW q \in Procs
  PROVE  Reads(q)'
<1>0. /\ Len(inbox) \in Nat /\ Len(inbox') \in Nat
      /\ Len(inbox) <= Len(inbox')
      /\ lastStored \in Nat /\ confirmed \in Nat
      /\ last[q] \in Nat /\ last'[q] \in Nat
      /\ cur[q] \in Nat /\ top[q] \in Nat
      /\ cur'[q] \in Nat /\ top'[q] \in Nat
  <2>1. SharedTypes /\ LocalTypes /\ SharedTypes' /\ LocalTypes'
    BY DEF TypeInv, TypeOK
  <2>2. Len(inbox) <= Len(inbox')
    BY InboxGrows
  <2>3. /\ cur[q] \in Nat /\ top[q] \in Nat /\ cur'[q] \in Nat
        /\ top'[q] \in Nat /\ last[q] \in Nat /\ last'[q] \in Nat
    BY <2>1 DEF LocalTypes
  <2>4. /\ Len(inbox) \in Nat /\ Len(inbox') \in Nat
        /\ lastStored \in Nat /\ confirmed \in Nat
    BY <2>1 DEF SharedTypes
  <2> QED
    BY <2>2, <2>3, <2>4
<1>a. Reads(q)
  BY DEF OrderInv
<1>b. ASSUME NEW n \in Nat, n <= Len(inbox), SettledUpTo(n), last'[q] = n
      PROVE  last'[q] <= Len(inbox') /\ SettledUpTo(last[q])'
  <2>1. SettledUpTo(n)'
    BY <1>b, SettledUpToStays
  <2>2. SettledUpTo(last[q])'
    BY <1>b, <2>1 DEF SettledUpTo
  <2> QED
    BY <1>0, <1>b, <2>2
<1>c. ASSUME NEW n \in Int, SettledUpTo(n)', cur'[q] - 1 = n
      PROVE  SettledUpTo(cur[q] - 1)'
  BY <1>c DEF SettledUpTo
<1>d. ASSUME NEW n \in Int, SettledUpTo(n)', top'[q] = n
      PROVE  SettledUpTo(top[q])'
  BY <1>d DEF SettledUpTo
<1>1. ASSUME Stays(q) PROVE Reads(q)'
  <2>1. last'[q] <= Len(inbox') /\ SettledUpTo(last[q])'
    BY <1>0, <1>a, <1>b, <1>1 DEF Reads, Stays
  <2>2. ASSUME pc'[q] \in Handling PROVE SettledUpTo(cur[q] - 1)'
    <3>1. SettledUpTo(cur[q] - 1)
      BY <1>a, <1>1, <2>2 DEF Reads, Stays
    <3>2. PICK n \in Int : n = cur[q] - 1 /\ SettledUpTo(n)
      BY <1>0, <3>1
    <3>3. SettledUpTo(n)'
      BY <3>2, SettledUpToStays
    <3> QED
      BY <1>0, <1>c, <1>1, <3>2, <3>3 DEF Stays
  <2>3. ASSUME pc'[q] = "persist" PROVE SettledUpTo(top[q])'
    <3>1. SettledUpTo(top[q])
      BY <1>a, <1>1, <2>3 DEF Reads, Stays
    <3>2. PICK n \in Nat : n = top[q] /\ SettledUpTo(n)
      BY <1>0, <3>1
    <3>3. SettledUpTo(n)'
      BY <3>2, SettledUpToStays
    <3> QED
      BY <1>d, <1>1, <3>2, <3>3 DEF Stays
  <2> QED
    BY <2>1, <2>2, <2>3 DEF Reads
<1>2. CASE Environment
  <2>1. CASE pc'[q] = "down" /\ last'[q] = 0
    BY <1>0, <2>1 DEF Reads, SettledUpTo, Handling
  <2> QED
    BY <1>1, <1>2, <2>1, EnvironmentMoves DEF Stays
<1>3. ASSUME NEW p \in Procs, p # q, Worker(p) PROVE Reads(q)'
  BY <1>1, <1>3, OthersKeep DEF Stays
<1>4. CASE Leaves(q)
  <2>1. last'[q] <= Len(inbox') /\ SettledUpTo(last[q])'
    BY <1>0, <1>a, <1>b, <1>4 DEF Reads, Leaves
  <2> QED
    BY <1>4, <2>1 DEF Reads, Leaves
<1>5. CASE Loads(q)
  <2>1. lastStored <= Len(inbox) /\ SettledUpTo(lastStored)
    BY DEF OrderInv, NoUpdateLost
  <2>2. last'[q] <= Len(inbox') /\ SettledUpTo(last[q])'
    BY <1>0, <1>b, <1>5, <2>1 DEF Loads
  <2> QED
    BY <1>5, <2>2 DEF Reads, Loads, Handling
<1>6. CASE Fetches(q)
  <2>1. PICK n \in Nat : SettledUpTo(n) /\ cur'[q] = n + 1
    <3>1. SettledUpTo(confirmed) /\ SettledUpTo(last[q])
      BY <1>a DEF OrderInv, NoUpdateLost, Reads
    <3> QED
      BY <1>0, <1>6, <3>1 DEF Fetches
  <2>2. SettledUpTo(n)'
    BY <2>1, SettledUpToStays
  <2>3. cur'[q] - 1 = n
    BY <1>0, <2>1
  <2>4. SettledUpTo(cur[q] - 1)'
    BY <1>c, <2>2, <2>3
  <2>5. last'[q] <= Len(inbox') /\ SettledUpTo(last[q])'
    BY <1>0, <1>a, <1>b, <1>6 DEF Reads, Fetches
  <2> QED
    BY <1>6, <2>4, <2>5 DEF Reads, Fetches
<1>7. CASE Advances(q)
  <2>1. PICK n \in Nat : n = cur[q]
    BY <1>0
  <2>2. SettledUpTo(n - 1)
    BY <1>a, <1>7, <2>1 DEF Reads, Advances
  <2>3. Settled(n)'
    BY <1>7, <2>1 DEF Advances, Settled, Posted
  <2>4. SettledUpTo(n)'
    <3>1. ASSUME NEW u \in 1 .. n, u # n PROVE Settled(u)'
      <4>1. u \in 1 .. n - 1
        BY <2>1, <3>1
      <4>2. Settled(u)
        BY <2>2, <4>1 DEF SettledUpTo
      <4> QED
        BY <4>2, SettledStays
    <3> QED
      BY <2>3, <3>1 DEF SettledUpTo
  <2>5. last'[q] <= Len(inbox') /\ SettledUpTo(last[q])'
    BY <1>0, <1>a, <1>b, <1>7 DEF Reads, Advances
  <2>6. CASE pc'[q] = "persist"
    <3>1. top'[q] = n
      BY <1>7, <2>1, <2>6 DEF Advances
    <3>2. SettledUpTo(top[q])'
      BY <1>d, <2>4, <3>1
    <3> QED
      BY <2>5, <2>6, <3>2 DEF Reads, Handling
  <2>7. CASE pc'[q] = "update"
    <3>1. cur'[q] - 1 = n
      BY <1>0, <1>7, <2>1, <2>7 DEF Advances
    <3>2. SettledUpTo(cur[q] - 1)'
      BY <1>c, <2>4, <3>1
    <3> QED
      BY <2>5, <2>7, <3>2 DEF Reads
  <2> QED
    BY <1>7, <2>6, <2>7 DEF Advances
<1>8. CASE Persists(q)
  <2>1. SettledUpTo(top[q]) /\ SettledUpTo(last[q]) /\ last[q] <= Len(inbox)
    BY <1>a, <1>8 DEF Reads, Persists
  <2>2. top[q] <= Len(inbox)
    BY <1>8 DEF TypeInv, InBatch, Persists
  <2>3. last'[q] <= Len(inbox') /\ SettledUpTo(last[q])'
    BY <1>0, <1>b, <1>8, <2>1, <2>2 DEF Persists
  <2> QED
    BY <1>8, <2>3 DEF Reads, Persists, Handling
<1> QED
  BY <1>1, <1>2, <1>3, <1>4, <1>5, <1>6, <1>7, <1>8, Moves DEF Next

\* What has been discarded, or stored as the offset, was settled before.
LEMMA OffsetsStep ==
  ASSUME TypeInv, TypeInv', OrderInv, Next
  PROVE  /\ confirmed' <= Len(inbox')
         /\ lastStored' <= Len(inbox')
         /\ NoUpdateLost'
<1>0. /\ Len(inbox) \in Nat /\ Len(inbox') \in Nat
      /\ Len(inbox) <= Len(inbox')
      /\ lastStored \in Nat /\ confirmed \in Nat
      /\ \A p \in Procs : last[p] \in Nat /\ top[p] \in Nat
  <2>1. SharedTypes /\ LocalTypes /\ SharedTypes'
    BY DEF TypeInv, TypeOK
  <2>2. Len(inbox) <= Len(inbox')
    BY InboxGrows
  <2>3. \A p \in Procs : last[p] \in Nat /\ top[p] \in Nat
    BY <2>1 DEF LocalTypes
  <2>4. /\ Len(inbox) \in Nat /\ Len(inbox') \in Nat
        /\ lastStored \in Nat /\ confirmed \in Nat
    BY <2>1 DEF SharedTypes
  <2> QED
    BY <2>2, <2>3, <2>4
<1>1. ASSUME NEW n \in Nat, n <= Len(inbox), SettledUpTo(n)
      PROVE  n <= Len(inbox') /\ SettledUpTo(n)'
  BY <1>0, <1>1, SettledUpToStays
<1>2. \/ UNCHANGED <<confirmed, lastStored>>
      \/ \E p \in Procs : /\ confirmed' \in {confirmed, last[p]}
                          /\ UNCHANGED lastStored
      \/ \E p \in Procs : /\ pc[p] = "persist"
                          /\ lastStored' \in {lastStored, top[p]}
                          /\ UNCHANGED confirmed
  <2>1. CASE Environment
    BY <2>1 DEF Environment, Arrive, Degrade, MarkBlocked, OutboundRejected,
                Stop, telegram, database
  <2>2. ASSUME NEW p \in Procs, Worker(p)
        PROVE  \/ UNCHANGED <<confirmed, lastStored>>
               \/ /\ confirmed' \in {confirmed, last[p]}
                  /\ UNCHANGED lastStored
               \/ /\ pc[p] = "persist"
                  /\ lastStored' \in {lastStored, top[p]}
                  /\ UNCHANGED confirmed
    <3>1. CASE PollAnswered(p) \/ PollFailed(p)
      <4>1. UNCHANGED lastStored
        BY <3>1 DEF PollAnswered, PollFailed, database
      <4>2. confirmed' \in {confirmed, last[p]}
        BY <3>1 DEF PollAnswered, PollFailed, Confirm, Larger
      <4> QED
        BY <4>1, <4>2
    <3>2. CASE PersistInstallationState(p)
      BY <3>2 DEF PersistInstallationState, telegram
    <3>3. CASE \/ Start(p) \/ LoadInstallationState(p) \/ BeginPoll(p)
               \/ HandleUpdate(p) \/ BuildInboundMessage(p) \/ CreateThread(p)
               \/ AddParticipant(p) \/ SendMessage(p) \/ ResendMessage(p)
      <4>1. UNCHANGED telegram /\ UNCHANGED database
        BY <3>3
           DEF Start, LoadInstallationState, BeginPoll, HandleUpdate,
               BuildInboundMessage, CreateThread, AddParticipant, SendMessage,
               ResendMessage
      <4> QED
        BY <4>1 DEF telegram, database
    <3>4. CASE ClearChatBlocked(p) \/ CreateChatMapping(p) \/ DeleteChatMapping(p)
      <4>1. UNCHANGED telegram /\ UNCHANGED lastStored
        BY <3>4 DEF ClearChatBlocked, CreateChatMapping, DeleteChatMapping
      <4> QED
        BY <4>1 DEF telegram
    <3> QED
      BY <2>2, <3>1, <3>2, <3>3, <3>4 DEF Worker
  <2> QED
    BY <2>1, <2>2 DEF Next
<1>3. PICK m \in Nat : /\ m = confirmed' /\ m <= Len(inbox) /\ SettledUpTo(m)
  BY <1>0, <1>2 DEF OrderInv, NoUpdateLost, Reads
<1>4. PICK n \in Nat : /\ n = lastStored' /\ n <= Len(inbox) /\ SettledUpTo(n)
  <2>1. ASSUME NEW p \in Procs, pc[p] = "persist"
        PROVE  top[p] <= Len(inbox) /\ SettledUpTo(top[p])
    BY <2>1 DEF OrderInv, Reads, TypeInv, InBatch
  <2> QED
    BY <1>0, <1>2, <2>1 DEF OrderInv, NoUpdateLost
<1>5. m <= Len(inbox') /\ SettledUpTo(m)'
  BY <1>1, <1>3
<1>6. n <= Len(inbox') /\ SettledUpTo(n)'
  BY <1>1, <1>4
<1>7. SettledUpTo(confirmed)' /\ SettledUpTo(lastStored)'
  BY <1>3, <1>4, <1>5, <1>6 DEF SettledUpTo
<1> QED
  BY <1>3, <1>4, <1>5, <1>6, <1>7 DEF NoUpdateLost

\* The one update a step can add has everything before it settled.
LEMMA HandledStep ==
  ASSUME TypeInv, OrderInv, Next
  PROVE  HandledInOrder'
<1>1. \A u \in Nat : SettledUpTo(u - 1) => SettledUpTo(u - 1)'
  BY SettledUpToStays
<1>2. /\ \A i \in DOMAIN posts : /\ posts[i].update \in Nat
                                 /\ SettledUpTo(posts[i].update - 1)
      /\ \A u \in skipped : u \in Nat /\ SettledUpTo(u - 1)
  <2>1. posts \in Seq(PostRecord) /\ skipped \subseteq Nat /\ HandledInOrder
    BY DEF OrderInv, TypeInv, TypeOK, SharedTypes
  <2>2. \A i \in DOMAIN posts : posts[i] \in PostRecord
    BY <2>1
  <2> QED
    BY <2>1, <2>2 DEF HandledInOrder, PostRecord
<1>3. CASE UNCHANGED <<posts, skipped>>
  <2>1. \A i \in DOMAIN posts' : \E u \in Nat : /\ u = posts'[i].update
                                                /\ SettledUpTo(u - 1)'
    BY <1>1, <1>2, <1>3
  <2>2. \A u \in skipped' : SettledUpTo(u - 1)'
    BY <1>1, <1>2, <1>3
  <2> QED
    BY <2>1, <2>2 DEF HandledInOrder
<1>4. ASSUME NEW p \in Procs, pc[p] \in Handling, Adds(cur[p], thread[p])
      PROVE  HandledInOrder'
  <2> DEFINE r == [thread |-> thread[p], update |-> cur[p]]
  <2>1. cur[p] \in Nat /\ SettledUpTo(cur[p] - 1)
    BY <1>4 DEF OrderInv, Reads, TypeInv, TypeOK, LocalTypes
  <2>2. \A u \in skipped' : SettledUpTo(u - 1)'
    BY <1>1, <1>2, <1>4, <2>1 DEF Adds
  <2>3. \A i \in DOMAIN posts' : \E u \in Nat : /\ u = posts'[i].update
                                                /\ SettledUpTo(u - 1)'
    <3>1. CASE posts' = posts
      BY <1>1, <1>2, <3>1
    <3>2. CASE posts' = Append(posts, r)
      <4>1. /\ Len(posts) \in Nat
            /\ DOMAIN posts = 1 .. Len(posts)
            /\ DOMAIN posts' = 1 .. Len(posts) + 1
            /\ \A i \in DOMAIN posts : posts'[i] = posts[i]
            /\ posts'[Len(posts) + 1] = r
        BY <3>2, AppendPost
      <4>2. ASSUME NEW i \in DOMAIN posts'
            PROVE  \E u \in Nat : u = posts'[i].update /\ SettledUpTo(u - 1)
        <5>1. CASE i \in DOMAIN posts
          BY <1>2, <4>1, <5>1
        <5>2. CASE i = Len(posts) + 1
          BY <2>1, <4>1, <5>2
        <5> QED
          BY <4>1, <4>2, <5>1, <5>2
      <4> QED
        BY <1>1, <4>2
    <3> QED
      BY <1>4, <3>1, <3>2 DEF Adds
  <2> QED
    BY <2>2, <2>3 DEF HandledInOrder
<1> QED
  BY <1>3, <1>4, History

LEMMA StepOrder == TypeInv /\ TypeInv' /\ OrderInv /\ [Next]_vars => OrderInv'
<1>1. OrderInv /\ UNCHANGED vars => OrderInv'
  BY DEF OrderInv, NoUpdateLost, HandledInOrder, Reads, SettledUpTo, Settled,
         Posted, vars, telegram, service, database, locals
<1>2. ASSUME TypeInv, TypeInv', OrderInv, Next PROVE OrderInv'
  BY <1>2, ReadsStep, OffsetsStep, HandledStep DEF OrderInv
<1> QED
  BY <1>1, <1>2

LEMMA OrderInvariant == Spec => []OrderInv
  BY InitOrder, StepOrder, TypeInvariant, PTL DEF Spec

\* No crash, no lost answer and no second process makes the connector lose a
\* message, for any number of processes, chats and updates.
THEOREM NothingLost == Spec => []NoUpdateLost
<1>1. OrderInv => NoUpdateLost
  BY DEF OrderInv
<1> QED
  BY <1>1, OrderInvariant, PTL

\* Messages are first handled in the order they were sent.
THEOREM InOrder == Spec => []HandledInOrder
<1>1. OrderInv => HandledInOrder
  BY DEF OrderInv
<1> QED
  BY <1>1, OrderInvariant, PTL

-----------------------------------------------------------------------------
(* The loop implements the relay *)

\* The updates in a thread, which is what Relay calls posted.
PostedSet == {posts[i].update : i \in DOMAIN posts}

LEMMA RelayInit == Init => RelayOf!Init
<1>1. Init => PostedSet = {}
  BY DEF Init, PostedSet
<1> QED
  BY <1>1 DEF Init, RelayOf!Init, PostedSet

\* Relay says of the mapped state what Inbound says of its own.
LEMMA RelayHandled ==
  ASSUME NEW n, SettledUpTo(n) PROVE RelayOf!HandledUpTo(n)
  BY DEF SettledUpTo, Settled, Posted, RelayOf!HandledUpTo, RelayOf!Handled

\* Inside handleUpdate a worker leaves Telegram alone.
LEMMA HandlingKeepsTelegram ==
  ASSUME NEW p \in Procs, pc[p] \in Handling, Worker(p)
  PROVE  UNCHANGED <<inbox, confirmed>>
<1>1. CASE HandleUpdate(p) \/ ClearChatBlocked(p) \/ CreateThread(p)
  BY <1>1 DEF HandleUpdate, ClearChatBlocked, CreateThread, telegram
<1>2. CASE AddParticipant(p) \/ CreateChatMapping(p) \/ BuildInboundMessage(p)
  BY <1>2 DEF AddParticipant, CreateChatMapping, BuildInboundMessage, telegram
<1>3. CASE SendMessage(p) \/ DeleteChatMapping(p) \/ ResendMessage(p)
  BY <1>3 DEF SendMessage, DeleteChatMapping, ResendMessage, telegram
<1>4. pc[p] \notin {"down", "load", "top", "polling", "persist"}
  BY DEF Handling
<1> QED
  BY <1>1, <1>2, <1>3, <1>4
     DEF Worker, Start, LoadInstallationState, BeginPoll, PollAnswered,
         PollFailed, PersistInstallationState

LEMMA RelayStep ==
  ASSUME TypeInv, TypeInv', OrderInv, OrderInv', Next
  PROVE  [RelayOf!Next]_(RelayOf!vars)
<1>0. /\ inbox \in Seq(Update) /\ Len(inbox) \in Nat
      /\ confirmed \in Nat /\ confirmed' \in Nat
  BY DEF TypeInv, TypeOK, SharedTypes
<1>1. CASE Arrive
  <2>1. /\ \E m \in Update : inbox' = Append(inbox, m)
        /\ UNCHANGED <<posts, skipped, confirmed>>
    BY <1>1 DEF Arrive, service, Update
  <2> QED
    BY <2>1 DEF RelayOf!Next, RelayOf!Accept
<1>2. CASE UNCHANGED <<inbox, posts, skipped, confirmed>>
  BY <1>2 DEF RelayOf!vars
<1>3. ASSUME NEW p \in Procs, pc[p] \in Handling, Adds(cur[p], thread[p]),
             Worker(p)
      PROVE  [RelayOf!Next]_(RelayOf!vars)
  <2>1. PICK u \in 1 .. Len(inbox) : u = cur[p] /\ UNCHANGED <<inbox, confirmed>>
    BY <1>3, ChatInBatch, HandlingKeepsTelegram
  <2> DEFINE r == [thread |-> thread[p], update |-> u]
  <2>2. RelayOf!HandledUpTo(u - 1)
    BY <1>3, <2>1, RelayHandled DEF OrderInv, Reads
  <2>3. CASE UNCHANGED <<posts, skipped>>
    BY <1>2, <2>1, <2>3
  <2>4. CASE posts' = posts /\ skipped' = skipped \cup {u}
    <3>1. RelayOf!Skip(u)
      BY <2>1, <2>2, <2>4 DEF RelayOf!Skip
    <3> QED
      BY <3>1 DEF RelayOf!Next
  <2>5. CASE posts' = Append(posts, r) /\ skipped' = skipped
    <3>1. PostedSet' = PostedSet \cup {u}
      <4>1. /\ Len(posts) \in Nat
            /\ DOMAIN posts = 1 .. Len(posts)
            /\ DOMAIN posts' = 1 .. Len(posts) + 1
            /\ \A i \in DOMAIN posts : posts'[i] = posts[i]
            /\ posts'[Len(posts) + 1] = r
        BY <2>1, <2>5, AppendPost
      <4> QED
        BY <4>1 DEF PostedSet
    <3>2. RelayOf!Post(u)
      BY <2>1, <2>2, <2>5, <3>1 DEF RelayOf!Post, PostedSet
    <3> QED
      BY <3>2 DEF RelayOf!Next
  <2> QED
    BY <1>3, <2>1, <2>3, <2>4, <2>5 DEF Adds
<1>4. ASSUME NEW p \in Procs, PollAnswered(p) \/ PollFailed(p)
      PROVE  [RelayOf!Next]_(RelayOf!vars)
  <2>1. UNCHANGED <<inbox, posts, skipped>>
    BY <1>4 DEF PollAnswered, PollFailed, service
  <2>2. PICK n \in {confirmed, last[p]} : n = confirmed' /\ confirmed <= n
    BY <1>0, <1>4
       DEF PollAnswered, PollFailed, Confirm, Larger, TypeInv, TypeOK, LocalTypes
  <2>3. n \in Nat /\ n <= Len(inbox) /\ SettledUpTo(n)
    BY <2>2 DEF OrderInv, NoUpdateLost, Reads, TypeInv, TypeOK, SharedTypes,
                LocalTypes
  <2>4. CASE n = confirmed
    BY <1>2, <2>1, <2>2, <2>4
  <2>5. CASE n # confirmed
    <3>1. n \in confirmed + 1 .. Len(inbox)
      BY <1>0, <2>2, <2>3, <2>5
    <3>2. RelayOf!Forget(n)
      BY <2>1, <2>2, <2>3, RelayHandled DEF RelayOf!Forget
    <3> QED
      BY <3>1, <3>2 DEF RelayOf!Next
  <2> QED
    BY <2>4, <2>5
<1>5. ASSUME UNCHANGED <<posts, skipped>>, ~Arrive,
             \A p \in Procs : ~(PollAnswered(p) \/ PollFailed(p))
      PROVE  UNCHANGED <<inbox, confirmed>>
  <2>1. CASE Environment
    BY <1>5, <2>1
       DEF Environment, Degrade, MarkBlocked, OutboundRejected, Stop, telegram
  <2>2. ASSUME NEW p \in Procs, Worker(p) PROVE UNCHANGED <<inbox, confirmed>>
    <3>1. CASE pc[p] \in Handling
      BY <2>2, <3>1, HandlingKeepsTelegram
    <3>2. CASE Start(p) \/ LoadInstallationState(p) \/ BeginPoll(p)
      BY <3>2 DEF Start, LoadInstallationState, BeginPoll, telegram
    <3>3. CASE PersistInstallationState(p)
      BY <3>3 DEF PersistInstallationState, telegram
    <3>4. CASE \/ HandleUpdate(p) \/ ClearChatBlocked(p) \/ CreateThread(p)
               \/ AddParticipant(p) \/ CreateChatMapping(p)
               \/ BuildInboundMessage(p) \/ SendMessage(p)
               \/ DeleteChatMapping(p) \/ ResendMessage(p)
      <4>1. pc[p] \in Handling
        BY <3>4
           DEF HandleUpdate, ClearChatBlocked, CreateThread, AddParticipant,
               CreateChatMapping, BuildInboundMessage, SendMessage,
               DeleteChatMapping, ResendMessage, Handling
      <4> QED
        BY <3>1, <4>1
    <3> QED
      BY <1>5, <2>2, <3>2, <3>3, <3>4 DEF Worker
  <2> QED
    BY <2>1, <2>2 DEF Next
<1> QED
  BY <1>1, <1>2, <1>3, <1>4, <1>5, History

\* The loop with its crashes, retries and second processes is an at-least-once
\* relay that keeps the order, for every value of the constants.
THEOREM ImplementsRelay == Spec => RelaySpec
<1>1. UNCHANGED vars => UNCHANGED RelayOf!vars
  BY DEF vars, telegram, service, database, RelayOf!vars
<1>2. TypeInv /\ TypeInv' /\ OrderInv /\ OrderInv' /\ [Next]_vars
        => [RelayOf!Next]_(RelayOf!vars)
  BY <1>1, RelayStep
<1> QED
  BY <1>2, RelayInit, TypeInvariant, OrderInvariant, PTL
     DEF Spec, RelaySpec, RelayOf!Spec

-----------------------------------------------------------------------------
(* One process                                                             *)
(*                                                                         *)
(* With a single process p the offset in the database, the one in memory   *)
(* and the one Telegram knows are tied together, and Place(p), the last    *)
(* update p is done with, only falls back when a call fails.               *)

Place(p) ==
  IF pc[p] \in Handling THEN cur[p] - 1
  ELSE IF pc[p] = "persist" THEN top[p] ELSE lastStored

Offsets(p) ==
  /\ confirmed <= lastStored
  /\ pc[p] \notin {"down", "load", "persist"} => last[p] = lastStored
  /\ pc[p] = "persist" => lastStored \in {last[p], top[p]}
  /\ pc[p] \in Handling \cup {"persist"} => last[p] < top[p]

PostsAt(u) == {i \in DOMAIN posts : posts[i].update = u}
PostCount(u) == Cardinality(PostsAt(u))

Repeats(p) ==
  \A u \in Nat : /\ PostCount(u) <= 1 + faults
                 /\ u > Place(p) => PostCount(u) <= faults

\* A process that holds a thread it found or stored holds the one in the row.
Maps(p) ==
  pc[p] \in {"clear", "build", "send", "delete", "resend"} =>
    /\ mapping[ChatOf(p)] # NoRow
    /\ mapping[ChatOf(p)].thread = thread[p]

LEMMA InitAlone ==
  ASSUME Init, NEW p \in Procs
  PROVE  Offsets(p) /\ Repeats(p) /\ Maps(p)
<1>1. Offsets(p) /\ Maps(p)
  BY DEF Init, Offsets, Maps, Handling
<1>2. ASSUME NEW u \in Nat PROVE PostCount(u) = 0
  <2>1. PostsAt(u) = {}
    BY DEF Init, PostsAt
  <2> QED
    BY <2>1, FS_EmptySet DEF PostCount
<1> QED
  BY <1>1, <1>2 DEF Init, Repeats

\* A post adds one to the count of its update, and to no other.
LEMMA PostCounts ==
  ASSUME TypeInv, NEW u \in Nat
  PROVE  /\ PostCount(u) \in Nat
         /\ posts' = posts => PostCount(u)' = PostCount(u)
         /\ \A p \in Procs :
              posts' = Append(posts, [thread |-> thread[p], update |-> cur[p]])
                => PostCount(u)' = PostCount(u) + IF u = cur[p] THEN 1 ELSE 0
<1>1. /\ posts \in Seq(PostRecord) /\ Len(posts) \in Nat
      /\ DOMAIN posts = 1 .. Len(posts)
  BY DEF TypeInv, TypeOK, SharedTypes
<1>2. IsFiniteSet(PostsAt(u))
  <2>1. IsFiniteSet(1 .. Len(posts))
    BY <1>1, FS_Interval
  <2>2. PostsAt(u) \in SUBSET (1 .. Len(posts))
    BY <1>1 DEF PostsAt
  <2> QED
    BY <2>1, <2>2, FS_Subset
<1>3. PostCount(u) \in Nat
  BY <1>2, FS_CardinalityType DEF PostCount
<1>4. ASSUME posts' = posts PROVE PostCount(u)' = PostCount(u)
  BY <1>4 DEF PostCount, PostsAt
<1>5. ASSUME NEW p \in Procs,
             posts' = Append(posts, [thread |-> thread[p], update |-> cur[p]])
      PROVE  PostCount(u)' = PostCount(u) + IF u = cur[p] THEN 1 ELSE 0
  <2>1. PICK r : r = [thread |-> thread[p], update |-> cur[p]]
    OBVIOUS
  <2>2. PICK n : n = Len(posts)
    OBVIOUS
  <2>3. /\ n \in Nat
        /\ DOMAIN posts = 1 .. n
        /\ DOMAIN posts' = 1 .. n + 1
        /\ \A i \in 1 .. n : posts'[i] = posts[i]
        /\ posts'[n + 1] = r
    BY <1>5, <2>1, <2>2, AppendPost
  <2>4. r.update = cur[p]
    BY <2>1
  <2>5. CASE u = cur[p]
    <3>1. PostsAt(u)' = PostsAt(u) \cup {n + 1}
      BY <2>3, <2>4, <2>5 DEF PostsAt
    <3>2. n + 1 \notin PostsAt(u)
      BY <2>3 DEF PostsAt
    <3>3. Cardinality(PostsAt(u) \cup {n + 1}) = Cardinality(PostsAt(u)) + 1
      BY <1>2, <3>2, FS_AddElement
    <3> QED
      BY <2>5, <3>1, <3>3 DEF PostCount
  <2>6. CASE u # cur[p]
    <3>1. PostsAt(u)' = PostsAt(u)
      BY <2>3, <2>4, <2>6 DEF PostsAt
    <3> QED
      BY <1>3, <2>6, <3>1 DEF PostCount
  <2> QED
    BY <2>5, <2>6
<1> QED
  BY <1>3, <1>4, <1>5

\* Where the offsets go, and that Place falls back only with a fault, if every
\* attachment can be fetched at some time.
LEMMA AloneMoves ==
  ASSUME TypeInv, TypeInv', NEW p \in Procs, Procs = {p}, Offsets(p), Next
  PROVE  /\ Offsets(p)'
         /\ lastStored' >= lastStored
         /\ "poison" \notin Kinds =>
              /\ \/ faults' = faults + 1
                 \/ faults' = faults /\ Place(p)' >= Place(p)
              /\ posts' # posts /\ faults' = faults => Place(p)' >= cur[p]
<1>0. /\ SharedTypes /\ LocalTypes /\ SharedTypes' /\ LocalTypes'
      /\ pc[p] \in Handling \cup {"persist"} =>
           1 <= cur[p] /\ cur[p] <= top[p] /\ top[p] <= Len(inbox)
  BY DEF TypeInv, TypeOK, InBatch
<1>n. /\ lastStored \in Nat /\ confirmed \in Nat /\ faults \in Nat
      /\ last[p] \in Nat /\ cur[p] \in Nat /\ top[p] \in Nat
      /\ lastStored' \in Nat /\ confirmed' \in Nat /\ faults' \in Nat
      /\ last'[p] \in Nat /\ cur'[p] \in Nat /\ top'[p] \in Nat
      /\ Len(inbox) \in Nat
  BY <1>0 DEF SharedTypes, LocalTypes
<1>k. pc[p] \in Handling /\ inbox[cur[p]].kind = "poison" => "poison" \in Kinds
  <2>1. ASSUME pc[p] \in Handling PROVE inbox[cur[p]] \in Update
    BY <1>0, <2>1, ChatInBatch DEF SharedTypes
  <2> QED
    BY <2>1 DEF Update
<1> DEFINE Kept == UNCHANGED <<confirmed, lastStored>>
           Goal == /\ Offsets(p)'
                   /\ lastStored' >= lastStored
                   /\ "poison" \notin Kinds =>
                        /\ \/ faults' = faults + 1
                           \/ faults' = faults /\ Place(p)' >= Place(p)
                        /\ posts' # posts /\ faults' = faults => Place(p)' >= cur[p]
\* A process that stays where it is.
<1>a. ASSUME Kept, last'[p] = last[p], cur'[p] = cur[p], top'[p] = top[p],
             \/ pc'[p] = pc[p]
             \/ pc[p] \in Handling /\ pc'[p] \in Handling,
             faults' = faults \/ faults' = faults + 1,
             posts' = posts
      PROVE  Goal
  BY <1>n, <1>a DEF Offsets, Place, Handling
\* A call that failed.
<1>b. ASSUME Kept, Abandon(p), pc[p] \in Handling
      PROVE  Goal
  BY <1>0, <1>n, <1>b
     DEF Abandon, Fault, GiveUpBatch, Goto, DropBatch, Offsets, Handling, LocalTypes
\* An attachment that can never be fetched.
<1>e. ASSUME Kept, GiveUpBatch(p), pc[p] \in Handling, "poison" \in Kinds
      PROVE  Goal
  BY <1>0, <1>n, <1>e
     DEF GiveUpBatch, Goto, DropBatch, Offsets, Handling, LocalTypes
\* An update that is done with.
<1>c. ASSUME Kept, Advance(p), NoFault, pc[p] \in Handling
      PROVE  Goal
  <2>1. /\ last'[p] = last[p] /\ top'[p] = top[p] /\ faults' = faults
        /\ \/ cur[p] = top[p] /\ cur'[p] = cur[p] /\ pc'[p] = "persist"
           \/ cur'[p] = cur[p] + 1 /\ pc'[p] = "update"
    BY <1>0, <1>c DEF Advance, NoFault, Goto, LocalTypes
  <2>2. last[p] = lastStored /\ last[p] < top[p] /\ confirmed <= lastStored
    BY <1>c DEF Offsets, Handling
  <2>3. Offsets(p)'
    BY <1>n, <1>c, <2>1, <2>2 DEF Offsets, Handling
  <2>4. Place(p) = cur[p] - 1 /\ Place(p)' = cur[p]
    BY <1>n, <1>c, <2>1 DEF Place, Handling
  <2> QED
    BY <1>n, <1>c, <2>1, <2>3, <2>4
<1>d. ASSUME Kept, Post(p), pc[p] \in Handling
      PROVE  Goal
  BY <1>b, <1>c, <1>d DEF Post
<1>1. CASE Environment
  <2>1. CASE \E q \in Procs : Stop(q)
    <3>1. Stop(p)
      BY <2>1
    <3> QED
      BY <1>0, <1>n, <3>1
         DEF Stop, Fault, Goto, telegram, service, database, Offsets, Handling,
             LocalTypes
  <2>2. CASE Arrive \/ Degrade \/ MarkBlocked \/ \E q \in Procs : OutboundRejected(q)
    <3>1. /\ Kept /\ pc' = pc /\ last' = last /\ cur' = cur /\ top' = top
          /\ faults' = faults /\ posts' = posts
      BY <2>2 DEF Arrive, Degrade, MarkBlocked, OutboundRejected, telegram, service,
                  database, locals
    <3> QED
      BY <1>a, <3>1
  <2> QED
    BY <1>1, <2>1, <2>2 DEF Environment
<1>2. CASE Worker(p)
  <2>1. CASE Start(p) \/ BeginPoll(p)
    BY <1>0, <1>n, <2>1
       DEF Start, BeginPoll, Goto, telegram, service, database, locals, Offsets, Place,
           Handling, LocalTypes
  <2>2. CASE LoadInstallationState(p)
    BY <1>0, <1>n, <2>2
       DEF LoadInstallationState, Goto, telegram, service, database, Offsets, Place,
           Handling, LocalTypes
  <2>3. CASE PollAnswered(p)
    <3>1. confirmed' = lastStored
      BY <1>n, <2>3 DEF PollAnswered, Confirm, Larger, Offsets
    <3>2. /\ UNCHANGED <<lastStored, faults, posts>> /\ last'[p] = last[p]
          /\ pc[p] = "polling"
          /\ \/ pc'[p] = "top"
             \/ pc'[p] = "update" /\ cur'[p] = confirmed' + 1
      BY <1>0, <2>3 DEF PollAnswered, Goto, service, database, LocalTypes
    <3>3. last[p] = lastStored /\ Place(p) = lastStored
      BY <3>2 DEF Offsets, Place, Handling
    <3>4. Place(p)' = lastStored
      BY <1>n, <3>1, <3>2 DEF Place, Handling
    <3>5. pc'[p] = "update" => 1 <= cur'[p] /\ cur'[p] <= top'[p]
      BY DEF TypeInv, InBatch, Handling
    <3>6. Offsets(p)'
      BY <1>n, <3>1, <3>2, <3>3, <3>5 DEF Offsets, Handling
    <3> QED
      BY <1>n, <3>2, <3>3, <3>4, <3>6
  <2>4. CASE PollFailed(p)
    <3>1. confirmed' \in {confirmed, lastStored}
      BY <1>n, <2>4 DEF PollFailed, Confirm, Larger, Offsets
    <3>2. /\ UNCHANGED <<lastStored, posts>> /\ faults' = faults + 1
          /\ last'[p] = last[p] /\ pc[p] = "polling" /\ pc'[p] = "top"
      BY <1>0, <2>4 DEF PollFailed, Fault, Goto, service, database, LocalTypes
    <3> QED
      BY <1>n, <3>1, <3>2 DEF Offsets, Handling
  <2>5. CASE HandleUpdate(p)
    <3>1. Kept /\ posts' = posts /\ pc[p] \in Handling
      BY <2>5 DEF HandleUpdate, telegram, service, database, Handling
    <3>2. \/ Advance(p) /\ NoFault
          \/ Abandon(p)
          \/ /\ NoFault /\ UNCHANGED <<last, cur, top>>
             /\ pc'[p] \in Handling
      BY <1>0, <2>5 DEF HandleUpdate, Goto, Handling, LocalTypes
    <3> QED
      BY <1>a, <1>b, <1>c, <3>1, <3>2 DEF NoFault
  <2>6. CASE ClearChatBlocked(p) \/ CreateThread(p) \/ AddParticipant(p)
               \/ CreateChatMapping(p) \/ DeleteChatMapping(p)
    <3>1. Kept /\ posts' = posts /\ pc[p] \in Handling
      BY <2>6 DEF ClearChatBlocked, CreateThread, AddParticipant, CreateChatMapping,
                  DeleteChatMapping, telegram, service, database, Handling
    <3>2. \/ Abandon(p)
          \/ /\ NoFault /\ UNCHANGED <<last, cur, top>>
             /\ pc'[p] \in Handling
      BY <1>0, <2>6
         DEF ClearChatBlocked, CreateThread, AddParticipant, CreateChatMapping,
             DeleteChatMapping, Goto, locals, Handling, LocalTypes
    <3> QED
      BY <1>a, <1>b, <3>1, <3>2 DEF NoFault
  <2>7. CASE BuildInboundMessage(p)
    <3>1. Kept /\ posts' = posts /\ pc[p] \in Handling
      BY <2>7 DEF BuildInboundMessage, telegram, service, database, Handling
    <3>2. \/ Advance(p) /\ NoFault
          \/ Abandon(p)
          \/ GiveUpBatch(p) /\ "poison" \in Kinds
          \/ /\ NoFault /\ UNCHANGED <<last, cur, top>>
             /\ pc'[p] \in Handling
      BY <1>0, <1>k, <2>7, <3>1
         DEF BuildInboundMessage, Goto, locals, Handling, LocalTypes
    <3> QED
      BY <1>a, <1>b, <1>c, <1>e, <3>1, <3>2 DEF NoFault
  <2>8. CASE SendMessage(p) \/ ResendMessage(p)
    <3>1. Kept /\ pc[p] \in Handling
      BY <2>8 DEF SendMessage, ResendMessage, telegram, database, Handling
    <3>2. \/ Post(p)
          \/ posts' = posts /\ Advance(p) /\ NoFault
          \/ posts' = posts /\ Abandon(p)
          \/ /\ posts' = posts /\ NoFault /\ UNCHANGED <<last, cur, top>>
             /\ pc'[p] \in Handling
      BY <1>0, <2>8
         DEF SendMessage, ResendMessage, Goto, locals, Handling, LocalTypes
    <3> QED
      BY <1>a, <1>b, <1>c, <1>d, <3>1, <3>2 DEF NoFault
  <2>9. CASE PersistInstallationState(p)
    <3>1. /\ confirmed' = confirmed /\ posts' = posts /\ pc[p] = "persist"
          /\ \/ /\ top[p] > last[p] /\ lastStored' = top[p] /\ faults' = faults + 1
                /\ pc'[p] = pc[p] /\ last'[p] = last[p] /\ top'[p] = top[p]
             \/ /\ IF top[p] > last[p] THEN lastStored' = top[p] /\ last'[p] = top[p]
                   ELSE lastStored' = lastStored /\ last'[p] = last[p]
                /\ faults' = faults /\ pc'[p] = "top"
      BY <1>0, <2>9
         DEF PersistInstallationState, Fault, NoFault, Goto, telegram, service, LocalTypes
    <3>2. /\ Place(p) = top[p] /\ lastStored \in {last[p], top[p]}
          /\ last[p] < top[p]
      BY <3>1 DEF Offsets, Place, Handling
    <3>3. CASE pc'[p] = "persist"
      <4>1. Place(p)' = top[p] /\ Offsets(p)'
        BY <1>n, <3>1, <3>2, <3>3 DEF Offsets, Place, Handling
      <4> QED
        BY <1>n, <3>1, <3>2, <3>3, <4>1
    <3>4. CASE pc'[p] = "top"
      <4>1. /\ lastStored' >= lastStored /\ lastStored' >= top[p]
            /\ last'[p] = lastStored'
        BY <1>n, <3>1, <3>2, <3>4
      <4>2. Place(p)' = lastStored' /\ Offsets(p)'
        BY <1>n, <3>1, <3>4, <4>1 DEF Offsets, Place, Handling
      <4> QED
        BY <1>n, <3>1, <3>2, <3>4, <4>1, <4>2
    <3> QED
      BY <3>1, <3>3, <3>4
  <2> QED
    BY <1>2, <2>1, <2>2, <2>3, <2>4, <2>5, <2>6, <2>7, <2>8, <2>9 DEF Worker
<1> QED
  BY <1>1, <1>2 DEF Next

LEMMA RepeatsStep ==
  ASSUME TypeInv, TypeInv', NEW p \in Procs, Procs = {p}, "poison" \notin Kinds,
         Offsets(p), Repeats(p), Next
  PROVE  Repeats(p)'
<1> SUFFICES ASSUME NEW u \in Nat
             PROVE  /\ PostCount(u)' <= 1 + faults'
                    /\ u > Place(p)' => PostCount(u)' <= faults'
  BY DEF Repeats
<1>1. /\ \/ faults' = faults + 1
         \/ faults' = faults /\ Place(p)' >= Place(p)
      /\ posts' # posts /\ faults' = faults => Place(p)' >= cur[p]
  BY AloneMoves
<1>2. /\ faults \in Nat /\ PostCount(u) \in Nat
      /\ Place(p) \in Int /\ Place(p)' \in Int
  <2>1. SharedTypes /\ LocalTypes /\ SharedTypes' /\ LocalTypes'
    BY DEF TypeInv, TypeOK
  <2>2. faults \in Nat /\ lastStored \in Nat /\ lastStored' \in Nat
    BY <2>1 DEF SharedTypes
  <2>3. cur[p] \in Nat /\ top[p] \in Nat /\ cur'[p] \in Nat /\ top'[p] \in Nat
    BY <2>1 DEF LocalTypes
  <2>4. PostCount(u) \in Nat
    BY PostCounts
  <2>5. Place(p) \in Int /\ Place(p)' \in Int
    BY <2>2, <2>3 DEF Place
  <2> QED
    BY <2>2, <2>4, <2>5
<1>3. PostCount(u) <= 1 + faults /\ (u > Place(p) => PostCount(u) <= faults)
  BY DEF Repeats
<1>4. CASE posts' = posts
  <2>1. PostCount(u)' = PostCount(u)
    BY <1>4, PostCounts
  <2> QED
    BY <1>1, <1>2, <1>3, <2>1
<1>5. CASE posts' # posts
  <2>1. /\ pc[p] \in Handling
        /\ posts' = Append(posts, [thread |-> thread[p], update |-> cur[p]])
    BY <1>5, History DEF Adds
  <2>2. PostCount(u)' = PostCount(u) + IF u = cur[p] THEN 1 ELSE 0
    BY <2>1, PostCounts
  <2>3. Place(p) = cur[p] - 1 /\ cur[p] \in Nat
    BY <2>1 DEF Place, TypeInv, TypeOK, LocalTypes
  <2> QED
    BY <1>1, <1>2, <1>3, <1>5, <2>2, <2>3
<1> QED
  BY <1>4, <1>5

\* Who changes the row of a chat while a process holds its thread.
LEMMA MapsStep ==
  ASSUME TypeInv, TypeInv', NEW p \in Procs, Procs = {p}, Maps(p), Next
  PROVE  Maps(p)'
<1>0. SharedTypes /\ LocalTypes
  BY DEF TypeInv, TypeOK
<1> SUFFICES ASSUME pc'[p] \in {"clear", "build", "send", "delete", "resend"}
             PROVE  /\ mapping'[ChatOf(p)'] # NoRow
                    /\ mapping'[ChatOf(p)'].thread = thread'[p]
  BY DEF Maps
<1>a. ASSUME cur'[p] = cur[p], pc[p] \in Handling
      PROVE  ChatOf(p)' = ChatOf(p) /\ ChatOf(p) \in Chats
  BY <1>a, ChatInBatch, InboxGrows DEF ChatOf
<1>b. ASSUME NEW c \in Chats
      PROVE  /\ mapping[c] \in Row \cup {NoRow}
             /\ NoRow \notin Row
  BY <1>0, InboundAssumption DEF SharedTypes, Row
<1>1. ASSUME pc[p] \in {"clear", "build", "send", "delete", "resend"},
             cur'[p] = cur[p], thread'[p] = thread[p], mapping' = mapping
      PROVE  mapping'[ChatOf(p)'] # NoRow /\ mapping'[ChatOf(p)'].thread = thread'[p]
  BY <1>a, <1>1 DEF Maps, Handling
<1>2. CASE Environment
  <2>1. CASE MarkBlocked
    <3>1. PICK c \in Chats : /\ mapping[c] # NoRow
                             /\ mapping' = [mapping EXCEPT ![c].blocked = TRUE]
      BY <2>1 DEF MarkBlocked
    <3>2. pc'[p] = pc[p] /\ cur'[p] = cur[p] /\ thread'[p] = thread[p]
      BY <2>1 DEF MarkBlocked, locals
    <3>3. /\ ChatOf(p)' = ChatOf(p) /\ ChatOf(p) \in Chats
          /\ mapping[ChatOf(p)] # NoRow /\ mapping[ChatOf(p)].thread = thread[p]
      BY <1>a, <3>2 DEF Maps, Handling
    <3>4. mapping'[ChatOf(p)] # NoRow /\ mapping'[ChatOf(p)].thread = thread[p]
      BY <1>0, <1>b, <3>1, <3>3 DEF SharedTypes, Row
    <3> QED
      BY <3>2, <3>3, <3>4
  <2>2. CASE Arrive \/ Degrade
    BY <1>1, <2>2 DEF Arrive, Degrade, database, locals
  <2>3. CASE \E q \in Procs : OutboundRejected(q)
    BY <1>1, <2>3 DEF OutboundRejected, database
  <2>4. CASE \E q \in Procs : Stop(q)
    <3>1. pc'[p] = "down"
      BY <1>0, <2>4 DEF Stop, Goto, LocalTypes
    <3> QED
      BY <3>1
  <2> QED
    BY <1>2, <2>1, <2>2, <2>3, <2>4 DEF Environment
<1>3. CASE Worker(p)
  <2>a. ~GiveUpBatch(p) /\ ~Abandon(p) /\ ~Advance(p)
    BY <1>0 DEF Abandon, GiveUpBatch, Advance, Goto, LocalTypes
  <2>1. CASE \/ Start(p) \/ LoadInstallationState(p) \/ BeginPoll(p)
             \/ PollAnswered(p) \/ PollFailed(p) \/ PersistInstallationState(p)
    <3>1. pc'[p] \in {"load", "top", "parked", "polling", "update", "persist"}
      BY <1>0, <2>1
         DEF Start, LoadInstallationState, BeginPoll, PollAnswered, PollFailed,
             PersistInstallationState, Goto, LocalTypes
    <3> QED
      BY <3>1
  <2>2. CASE CreateThread(p) \/ AddParticipant(p) \/ DeleteChatMapping(p)
    <3>1. pc'[p] \in {"join", "insert", "create"}
      BY <1>0, <2>2, <2>a
         DEF CreateThread, AddParticipant, DeleteChatMapping, Goto, LocalTypes
    <3> QED
      BY <3>1
  <2>3. CASE HandleUpdate(p)
    <3>1. /\ cur'[p] = cur[p] /\ mapping' = mapping /\ pc[p] \in Handling
          /\ mapping[ChatOf(p)] # NoRow
          /\ thread'[p] = mapping[ChatOf(p)].thread
      BY <1>0, <2>3, <2>a DEF HandleUpdate, database, Goto, Handling, LocalTypes
    <3> QED
      BY <1>a, <3>1
  <2>4. CASE ClearChatBlocked(p)
    <3>1. /\ mapping' = IF mapping[ChatOf(p)] = NoRow THEN mapping
                        ELSE [mapping EXCEPT ![ChatOf(p)].blocked = FALSE]
          /\ cur'[p] = cur[p] /\ thread'[p] = thread[p] /\ pc[p] = "clear"
      BY <1>0, <2>4, <2>a DEF ClearChatBlocked, locals
    <3>2. /\ ChatOf(p)' = ChatOf(p) /\ ChatOf(p) \in Chats
          /\ mapping[ChatOf(p)] # NoRow /\ mapping[ChatOf(p)].thread = thread[p]
      BY <1>a, <3>1 DEF Maps, Handling
    <3>3. mapping'[ChatOf(p)] # NoRow /\ mapping'[ChatOf(p)].thread = thread[p]
      BY <1>0, <1>b, <3>1, <3>2 DEF SharedTypes, Row
    <3> QED
      BY <3>1, <3>2, <3>3
  <2>5. CASE CreateChatMapping(p)
    <3>1. PICK row : row = IF mapping[ChatOf(p)] = NoRow
                             THEN [thread |-> thread[p], blocked |-> FALSE]
                             ELSE mapping[ChatOf(p)]
      OBVIOUS
    <3>2. /\ mapping' = [mapping EXCEPT ![ChatOf(p)] = row]
          /\ cur'[p] = cur[p] /\ thread'[p] = row.thread /\ pc[p] = "insert"
      BY <1>0, <2>5, <2>a, <3>1 DEF CreateChatMapping, LocalTypes
    <3>3. ChatOf(p)' = ChatOf(p) /\ ChatOf(p) \in Chats
      BY <1>a, <3>2 DEF Handling
    <3>4. row # NoRow
      <4>1. thread[p] \in Nat
        BY <1>0 DEF LocalTypes
      <4>2. [thread |-> thread[p], blocked |-> FALSE] \in Row /\ NoRow \notin Row
        BY <1>b, <3>3, <4>1 DEF Row
      <4> QED
        BY <3>1, <4>2
    <3> QED
      BY <1>0, <3>2, <3>3, <3>4 DEF SharedTypes
  <2>6. CASE BuildInboundMessage(p) \/ SendMessage(p) \/ ResendMessage(p)
    <3>1. /\ pc[p] \in {"build", "send", "resend"} /\ cur'[p] = cur[p]
          /\ thread'[p] = thread[p] /\ mapping' = mapping
      BY <1>0, <2>6, <2>a
         DEF BuildInboundMessage, SendMessage, ResendMessage, Post, database, locals, Goto,
             LocalTypes
    <3> QED
      BY <1>1, <3>1
  <2> QED
    BY <1>3, <2>1, <2>2, <2>3, <2>4, <2>5, <2>6 DEF Worker
<1> QED
  BY <1>2, <1>3 DEF Next

LEMMA OffsetsInvariant ==
  ASSUME NEW p \in Procs, Procs = {p}
  PROVE  Spec => []Offsets(p)
<1>1. TypeInv /\ TypeInv' /\ Offsets(p) /\ [Next]_vars => Offsets(p)'
  <2>1. CASE Next
    BY <2>1, AloneMoves
  <2>2. CASE UNCHANGED vars
    BY <2>2 DEF vars, telegram, database, locals, Offsets, Handling
  <2> QED
    BY <2>1, <2>2
<1> QED
  BY <1>1, InitAlone, TypeInvariant, PTL DEF Spec

LEMMA RepeatsInvariant ==
  ASSUME NEW p \in Procs, Procs = {p}, "poison" \notin Kinds
  PROVE  Spec => []Repeats(p)
<1>1. /\ TypeInv /\ TypeInv' /\ Offsets(p) /\ Repeats(p) /\ [Next]_vars
      => Repeats(p)'
  <2>1. CASE Next
    BY <2>1, RepeatsStep
  <2>2. CASE UNCHANGED vars
    BY <2>2 DEF vars, telegram, service, database, locals, Repeats, Place, PostCount,
                PostsAt, Handling
  <2> QED
    BY <2>1, <2>2
<1> QED
  BY <1>1, InitAlone, OffsetsInvariant, TypeInvariant, PTL DEF Spec

LEMMA MapsInvariant ==
  ASSUME NEW p \in Procs, Procs = {p}
  PROVE  Spec => []Maps(p)
<1>1. TypeInv /\ TypeInv' /\ Maps(p) /\ [Next]_vars => Maps(p)'
  <2>1. CASE Next
    BY <2>1, MapsStep
  <2>2. CASE UNCHANGED vars
    BY <2>2 DEF vars, telegram, service, database, locals, Maps, ChatOf
  <2> QED
    BY <2>1, <2>2
<1> QED
  BY <1>1, InitAlone, TypeInvariant, PTL DEF Spec

\* One process posts an update again only after a fault.  Hypotheses: a single
\* process, and no attachment that can never be fetched.
THEOREM RepeatsArePaidFor ==
  ASSUME NEW p \in Procs, Procs = {p}, "poison" \notin Kinds
  PROVE  Spec => []DuplicatesBounded
<1>1. TypeInv /\ Repeats(p) => DuplicatesBounded
  <2> SUFFICES ASSUME TypeInv, Repeats(p), NEW u \in DOMAIN inbox
               PROVE  PostCount(u) <= 1 + faults
    BY DEF DuplicatesBounded, PostCount, PostsAt
  <2>1. u \in Nat
    BY DEF TypeInv, TypeOK, SharedTypes
  <2> QED
    BY <2>1 DEF Repeats
<1> QED
  BY <1>1, RepeatsInvariant, TypeInvariant, PTL

\* One process never writes an offset below the one in the database.
THEOREM OffsetOnlyGrows ==
  ASSUME NEW p \in Procs, Procs = {p}
  PROVE  Spec => OffsetNeverRegresses
<1>1. TypeInv /\ TypeInv' /\ Offsets(p) /\ [Next]_vars
        => [lastStored' >= lastStored]_lastStored
  <2>1. CASE Next
    BY <2>1, AloneMoves
  <2>2. CASE UNCHANGED vars
    BY <2>2 DEF vars, database
  <2> QED
    BY <2>1, <2>2
<1> QED
  BY <1>1, OffsetsInvariant, TypeInvariant, PTL DEF Spec, OffsetNeverRegresses

\* One process posts a message to the thread the chat's row names, so that an
\* answer in that thread finds its chat.
THEOREM PostsFollowTheRow ==
  ASSUME NEW p \in Procs, Procs = {p}
  PROVE  Spec => AnswerFindsWayBack
<1> DEFINE Way == LET new == posts'[Len(posts')]
                      row == mapping[inbox[new.update].chat]
                  IN row # NoRow /\ row.thread = new.thread
<1>1. TypeInv /\ TypeInv' /\ Maps(p) /\ [Next]_vars /\ posts' # posts => Way
  <2> SUFFICES ASSUME TypeInv, TypeInv', Maps(p), [Next]_vars, posts' # posts
               PROVE  Way
    OBVIOUS
  <2>1. Next
    BY DEF vars, service
  <2>2. PICK r : r = [thread |-> thread[p], update |-> cur[p]]
    OBVIOUS
  <2>3. posts' = Append(posts, r) /\ pc[p] \in {"send", "resend"}
    BY <2>1, <2>2, History DEF Adds
  <2>4. posts'[Len(posts')] = r
    <3>1. /\ Len(posts) \in Nat
          /\ DOMAIN posts' = 1 .. Len(posts) + 1
          /\ posts'[Len(posts) + 1] = r
      BY <2>2, <2>3, AppendPost
    <3>2. Len(posts') = Len(posts) + 1
      BY <3>1 DEF TypeInv, TypeOK, SharedTypes
    <3> QED
      BY <3>1, <3>2
  <2>5. r.thread = thread[p] /\ inbox[r.update].chat = ChatOf(p)
    BY <2>2 DEF ChatOf
  <2>6. mapping[ChatOf(p)] # NoRow /\ mapping[ChatOf(p)].thread = thread[p]
    BY <2>3 DEF Maps
  <2> QED
    BY <2>4, <2>5, <2>6
<1>2. TypeInv /\ TypeInv' /\ Maps(p) /\ [Next]_vars
        => [posts' # posts => Way]_posts
  BY <1>1
<1> QED
  BY <1>2, MapsInvariant, TypeInvariant, PTL DEF Spec, AnswerFindsWayBack

\* A thread that was posted to is degraded or still in its chat's row.
Listed(t) ==
  LET c == threads[t].chat IN mapping[c] # NoRow /\ mapping[c].thread = t

PostsLast ==
  \A i \in DOMAIN posts : threads[posts[i].thread].degraded \/ Listed(posts[i].thread)

\* A row stays in place, with its thread, unless its process replaces it.
LEMMA RowKept ==
  ASSUME TypeInv, NEW p \in Procs, Procs = {p}, Next,
         NEW c \in Chats, mapping[c] # NoRow, ~(pc[p] = "delete" /\ c = ChatOf(p))
  PROVE  mapping'[c] # NoRow /\ mapping'[c].thread = mapping[c].thread
<1>0. SharedTypes
  BY DEF TypeInv, TypeOK
<1>1. mapping'[c] # NoRow
  <2>1. mapping \in [Chats -> Row \cup {NoRow}] /\ NoRow \notin Row
    BY <1>0, InboundAssumption DEF SharedTypes, Row
  <2>2. ASSUME NEW d \in Chats, NEW b \in BOOLEAN, mapping[d] # NoRow,
               mapping' = [mapping EXCEPT ![d].blocked = b]
        PROVE  mapping'[c] # NoRow
    <3>1. [mapping[d] EXCEPT !.blocked = b] \in Row
      BY <2>1, <2>2 DEF Row
    <3> QED
      BY <2>1, <2>2, <3>1
  <2>3. CASE Environment
    BY <2>2, <2>3 DEF Environment, Arrive, Degrade, MarkBlocked, OutboundRejected, Stop,
                      database
  <2>4. CASE ClearChatBlocked(p)
    <3>1. ChatOf(p) \in Chats
      BY <2>4, ChatInBatch DEF ClearChatBlocked, Handling
    <3> QED
      BY <2>2, <2>4, <3>1 DEF ClearChatBlocked
  <2>5. CASE CreateChatMapping(p)
    <3>1. CASE mapping[ChatOf(p)] # NoRow
      BY <2>1, <2>5, <3>1 DEF CreateChatMapping
    <3>2. CASE mapping[ChatOf(p)] = NoRow
      BY <2>1, <2>5, <3>2 DEF CreateChatMapping
    <3> QED
      BY <3>1, <3>2
  <2>6. CASE DeleteChatMapping(p)
    BY <2>1, <2>6 DEF DeleteChatMapping
  <2>7. CASE Worker(p) /\ ~ClearChatBlocked(p) /\ ~CreateChatMapping(p)
             /\ ~DeleteChatMapping(p)
    BY <2>7 DEF Worker, Start, LoadInstallationState, BeginPoll, PollAnswered, PollFailed,
                HandleUpdate, CreateThread, AddParticipant, BuildInboundMessage,
                SendMessage, ResendMessage, PersistInstallationState, database
  <2> QED
    BY <2>3, <2>4, <2>5, <2>6, <2>7 DEF Next
<1>2. ASSUME CreateChatMapping(p), c = ChatOf(p)
      PROVE  mapping'[c].thread = mapping[c].thread
  BY <1>0, <1>2 DEF CreateChatMapping, SharedTypes
<1> QED
  BY <1>1, <1>2, RowsChange

\* One process replaces a row only for its degraded thread.
LEMMA PostsLastStep ==
  ASSUME TypeInv, RouteInv, RouteInv', SkipInv, NEW p \in Procs, Procs = {p}, Maps(p),
         PostsLast, Next
  PROVE  PostsLast'
<1>1. ASSUME NEW t \in DOMAIN threads, threads[t].chat \in Chats,
             threads[t].degraded \/ Listed(t)
      PROVE  (threads[t].degraded \/ Listed(t))'
  <2>0. PICK c \in Chats : c = threads[t].chat
    BY <1>1
  <2>1. threads'[t].chat = c /\ (threads[t].degraded => threads'[t].degraded)
    BY <2>0, ThreadsGrow
  <2>2. CASE threads[t].degraded
    BY <2>1, <2>2
  <2>3. CASE ~threads[t].degraded
    <3>1. mapping[c] # NoRow /\ mapping[c].thread = t
      BY <1>1, <2>0, <2>3 DEF Listed
    <3>2. ~(pc[p] = "delete" /\ c = ChatOf(p))
      BY <2>3, <3>1 DEF Maps, SkipInv, Replaces
    <3>3. mapping'[c] # NoRow /\ mapping'[c].thread = t
      BY <3>1, <3>2, RowKept
    <3> QED
      BY <2>1, <3>3 DEF Listed
  <2> QED
    BY <2>2, <2>3
<1>2. \A t \in DOMAIN threads : threads[t].chat \in Chats
  <2>1. \A t \in DOMAIN threads : threads[t] \in ThreadRecord
    BY DEF TypeInv, TypeOK, SharedTypes
  <2> QED
    BY <2>1 DEF ThreadRecord
<1>3. ASSUME NEW i \in DOMAIN posts'
      PROVE  (threads[posts[i].thread].degraded \/ Listed(posts[i].thread))'
  <2>1. CASE i \in DOMAIN posts /\ posts'[i] = posts[i]
    <3>1. PICK t : t = posts[i].thread
      OBVIOUS
    <3>2. t \in DOMAIN threads /\ (threads[t].degraded \/ Listed(t))
      BY <2>1, <3>1 DEF RouteInv, PostsReady, Ready, Own, PostsLast
    <3>3. (threads[t].degraded \/ Listed(t))'
      BY <1>1, <1>2, <3>2
    <3> QED
      BY <2>1, <3>1, <3>3 DEF Listed
  <2>2. CASE ~(i \in DOMAIN posts /\ posts'[i] = posts[i])
    <3>1. PICK r : r = [thread |-> thread[p], update |-> cur[p]]
      OBVIOUS
    <3>2. posts' = Append(posts, r) /\ pc[p] \in {"send", "resend"}
      BY <2>2, <3>1, History DEF Adds
    <3>3. posts'[i] = r
      BY <2>2, <3>1, <3>2, AppendPost
    <3>4. PICK t : t = thread[p]
      OBVIOUS
    <3>5. PICK c : c = ChatOf(p)
      OBVIOUS
    <3>6. t \in DOMAIN threads /\ threads[t].chat = c
      BY <3>2, <3>4, <3>5 DEF RouteInv, Routed, HoldsReady, Ready, Own
    <3>7. mapping[c] # NoRow /\ mapping[c].thread = t
      BY <3>2, <3>4, <3>5 DEF Maps
    <3>8. (threads[t].degraded \/ Listed(t))'
      BY <1>1, <1>2, <3>6, <3>7 DEF Listed
    <3> QED
      BY <3>1, <3>3, <3>4, <3>8 DEF Listed
  <2> QED
    BY <2>1, <2>2
<1> QED
  BY <1>3 DEF PostsLast

LEMMA PostsLastInvariant ==
  ASSUME NEW p \in Procs, Procs = {p}
  PROVE  Spec => []PostsLast
<1>1. Init => PostsLast
  BY DEF Init, PostsLast
<1>2. /\ TypeInv /\ RouteInv /\ RouteInv' /\ SkipInv /\ Maps(p) /\ PostsLast /\ [Next]_vars
      => PostsLast'
  <2>1. CASE Next
    BY <2>1, PostsLastStep
  <2>2. CASE UNCHANGED vars
    BY <2>2 DEF vars, service, database, PostsLast, Listed
  <2> QED
    BY <2>1, <2>2
<1> QED
  BY <1>1, <1>2, TypeInvariant, RouteInvariant, SkipInvariant, MapsInvariant, PTL DEF Spec
=============================================================================
