--------------------------- MODULE ConnectorProofs --------------------------
(***************************************************************************)
(* The composition of both loops implements each half as it was proved by  *)
(* itself, for any number of processes and chats; so all that was proved   *)
(* of either half holds of the composition.  Then what neither half says   *)
(* alone: whom an answer reaches, and that it does.                        *)
(***************************************************************************)
EXTENDS Connector, FiniteSetTheorems, SequenceTheorems, TLAPS

\* The halves with what was proved about them.
InP == INSTANCE InboundOrderProofs

OutP == INSTANCE OutboundOrderProofs WITH
  Workers <- Procs,
  Threads <- 1 .. MaxThreads,
  Serves <- [p \in Procs |-> Chats],
  MayLimit <- {},
  Listeners <- {},
  OldestFirst <- FALSE,
  MaxRejections <- MaxFaults + MaxOutFaults,
  MaxFaults <- MaxOutFaults,
  row <- mapping,
  pc <- opc,
  faults <- outFaults

-----------------------------------------------------------------------------
(* The halves of Connector are those that were proved about *)

LEMMA SameInbound ==
  /\ In!Init => InP!Init
  /\ \A p \in Procs : In!Worker(p) => InP!Worker(p)
  /\ In!Environment => InP!Environment
<1> USE DEF In!vars, InP!vars, In!telegram, InP!telegram, In!service, InP!service,
            In!database, InP!database, In!locals, InP!locals, In!Goto, InP!Goto,
            In!Fault, InP!Fault, In!NoFault, InP!NoFault, In!ChatOf, InP!ChatOf,
            In!DropUpdate, InP!DropUpdate, In!DropBatch, InP!DropBatch,
            In!Advance, InP!Advance, In!GiveUpBatch, InP!GiveUpBatch,
            In!Abandon, InP!Abandon, In!Post, InP!Post,
            In!Larger, InP!Larger, In!Smaller, InP!Smaller, In!Confirm, InP!Confirm
<1>1. In!Init => InP!Init
  BY DEF In!Init, InP!Init
<1>2. ASSUME NEW p \in Procs, In!Worker(p) PROVE InP!Worker(p)
  BY <1>2 DEF In!Worker, InP!Worker, In!Start, InP!Start,
       In!LoadInstallationState, InP!LoadInstallationState,
       In!BeginPoll, InP!BeginPoll, In!PollAnswered, InP!PollAnswered,
       In!PollFailed, InP!PollFailed, In!HandleUpdate, InP!HandleUpdate,
       In!ClearChatBlocked, InP!ClearChatBlocked, In!CreateThread, InP!CreateThread,
       In!AddParticipant, InP!AddParticipant,
       In!CreateChatMapping, InP!CreateChatMapping,
       In!BuildInboundMessage, InP!BuildInboundMessage,
       In!SendMessage, InP!SendMessage, In!DeleteChatMapping, InP!DeleteChatMapping,
       In!ResendMessage, InP!ResendMessage,
       In!PersistInstallationState, InP!PersistInstallationState
<1>3. In!Environment => InP!Environment
  <2>1. In!Arrive => InP!Arrive
    BY DEF In!Arrive, InP!Arrive
  <2>2. In!Degrade => InP!Degrade
    BY DEF In!Degrade, InP!Degrade, In!Cardinality, InP!Cardinality
  <2>3. In!MarkBlocked => InP!MarkBlocked
    BY DEF In!MarkBlocked, InP!MarkBlocked
  <2>4. ASSUME NEW p \in Procs
        PROVE  /\ In!OutboundRejected(p) => InP!OutboundRejected(p)
               /\ In!Stop(p) => InP!Stop(p)
    BY DEF In!OutboundRejected, InP!OutboundRejected, In!Stop, InP!Stop
  <2> QED
    BY <2>1, <2>2, <2>3, <2>4 DEF In!Environment, InP!Environment
<1> QED
  BY <1>1, <1>2, <1>3

LEMMA SameOutbound ==
  /\ Out!Init => OutP!Init
  /\ \A p \in Procs : Out!Worker(p) => OutP!Worker(p)
  /\ Out!Environment => OutP!Environment
<1> USE DEF Out!vars, OutP!vars, Out!service, OutP!service, Out!telegram, OutP!telegram,
            Out!rows, OutP!rows, Out!world, OutP!world, Out!wakeup, OutP!wakeup,
            Out!locals, OutP!locals, Out!history, OutP!history, Out!token, OutP!token,
            Out!Goto, OutP!Goto, Out!Fault, OutP!Fault, Out!NoFault, OutP!NoFault,
            Out!Record, OutP!Record,
            Out!DropMessage, OutP!DropMessage, Out!Return, OutP!Return,
            Out!Reject, OutP!Reject, Out!Receive, OutP!Receive,
            Out!Notify, OutP!Notify, Out!Announce, OutP!Announce
<1>1. Out!Init => OutP!Init
  BY DEF Out!Init, OutP!Init
<1>2. ASSUME NEW p \in Procs, Out!Worker(p) PROVE OutP!Worker(p)
  <2>1. CASE Out!Start(p) \/ Out!Tick(p) \/ Out!Wake(p)
    BY <2>1 DEF Out!Start, OutP!Start, Out!Tick, OutP!Tick, Out!Wake, OutP!Wake, OutP!Worker
  <2>2. CASE Out!GetUnackedMessages(p) \/ Out!FinishRun(p) \/ Out!PassOver(p)
    BY <2>2 DEF Out!GetUnackedMessages, OutP!GetUnackedMessages, Out!Unacked, OutP!Unacked,
         Out!FinishRun, OutP!FinishRun, Out!PassOver, OutP!PassOver, OutP!Worker
  <2>3. CASE Out!TakeMessage(p) \/ Out!FindMapping(p)
    BY <2>3 DEF Out!TakeMessage, OutP!TakeMessage, Out!Upcoming, OutP!Upcoming,
         Out!FindMapping, OutP!FindMapping, Out!MappedTo, OutP!MappedTo, OutP!Worker
  <2>4. CASE Out!Deliver(p)
    BY <2>4 DEF Out!Deliver, OutP!Deliver, Out!FinishDelivery, OutP!FinishDelivery,
         Out!Sending, OutP!Sending, Out!PartKind, OutP!PartKind,
         Out!SendPart, OutP!SendPart, Out!SendFails, OutP!SendFails,
         Out!SendTimesOut, OutP!SendTimesOut, Out!SendRefused, OutP!SendRefused,
         Out!SendUnauthorized, OutP!SendUnauthorized, Out!SendLimited, OutP!SendLimited,
         Out!SendBlocked, OutP!SendBlocked, OutP!Worker
  <2>5. CASE Out!MarkChatBlocked(p) \/ Out!LogOutboundFailure(p) \/ Out!AckMessage(p)
    BY <2>5 DEF Out!MarkChatBlocked, OutP!MarkChatBlocked,
         Out!LogOutboundFailure, OutP!LogOutboundFailure,
         Out!AckMessage, OutP!AckMessage, Out!NextMessage, OutP!NextMessage, OutP!Worker
  <2> QED
    BY <1>2, <2>1, <2>2, <2>3, <2>4, <2>5 DEF Out!Worker
<1>3. Out!Environment => OutP!Environment
  <2>1. Out!PostMessage => OutP!PostMessage
    BY DEF Out!PostMessage, OutP!PostMessage
  <2>2. Out!ToggleBlock \/ Out!Limit => OutP!ToggleBlock \/ OutP!Limit
    BY DEF Out!ToggleBlock, OutP!ToggleBlock, Out!Limit, OutP!Limit
  <2>3. Out!InboundUpdatesRow => OutP!InboundUpdatesRow
    BY DEF Out!InboundUpdatesRow, OutP!InboundUpdatesRow, Out!RowInserted, OutP!RowInserted,
         Out!RowDeleted, OutP!RowDeleted, Out!BlockCleared, OutP!BlockCleared
  <2>4. ASSUME NEW p \in Procs
        PROVE  /\ Out!Stop(p) => OutP!Stop(p)
               /\ Out!Subscribe(p) => OutP!Subscribe(p)
               /\ Out!StreamEnds(p) => OutP!StreamEnds(p)
               /\ Out!InboundRejected(p) => OutP!InboundRejected(p)
               /\ Out!InboundSucceeds(p) => OutP!InboundSucceeds(p)
    BY DEF Out!Stop, OutP!Stop, Out!Subscribe, OutP!Subscribe, Out!StreamEnds, OutP!StreamEnds,
         Out!InboundRejected, OutP!InboundRejected, Out!InboundSucceeds, OutP!InboundSucceeds
  <2> QED
    BY <2>1, <2>2, <2>3, <2>4 DEF Out!Environment, OutP!Environment
<1> QED
  BY <1>1, <1>2, <1>3

-----------------------------------------------------------------------------
(* The inductive invariant *)

\* run has loaded the state and started the goroutines.
Running(p) == pc[p] \notin {"down", "load"}

\* A row has named thread t.
Named(t) == \E c \in Chats : t \in mapped[c]

\* p has made a thread that is not in a row yet, or holds one that was.
Making(p) == pc[p] \in {"join", "insert"}
Using(p)  == pc[p] \in {"clear", "build", "send", "delete", "resend"}

\* Both goroutines run, or none.
Together == \A p \in Procs : opc[p] # "down" <=> Running(p)

\* A rejection is a fault of one of the loops.
Bounded ==
  /\ Len(threads) <= MaxThreads
  /\ faults <= MaxFaults
  /\ outFaults <= MaxOutFaults
  /\ rejections <= faults + outFaults

NoStream == stream = [p \in Procs |-> FALSE]

\* A thread in the making is nobody else's.
Unshared ==
  \A p \in Procs : Making(p) =>
    /\ ~Named(thread[p])
    /\ \A q \in Procs \ {p} : Making(q) => thread[q] # thread[p]

KnownThreads ==
  /\ \A p \in Procs : Using(p) => Named(thread[p])
  /\ \A i \in DOMAIN posts : Named(posts[i].thread)

OwnThreads == \A c \in Chats : \A t \in mapped[c] : InP!Own(t, c)

HalvesInv == InP!TypeInv /\ InP!RouteInv /\ OutP!OrderInv

ConnectorInv ==
  /\ HalvesInv
  /\ Together /\ Bounded /\ NoStream /\ Unshared /\ KnownThreads /\ OwnThreads

\* The types that are used most.
LEMMA Types ==
  ASSUME HalvesInv
  PROVE  /\ mapping \in [Chats -> [thread : 1 .. MaxThreads, blocked : BOOLEAN] \cup {NoRow}]
         /\ mapped \in [Chats -> SUBSET (1 .. MaxThreads)]
         /\ rejected \in [Procs -> BOOLEAN]
         /\ pc \in [Procs -> InP!PCs] /\ opc \in [Procs -> OutP!PCs]
         /\ thread \in [Procs -> Nat]
         /\ {faults, outFaults, rejections} \subseteq Nat
         /\ threads \in Seq(InP!ThreadRecord)
         /\ posts \in Seq(InP!PostRecord)
         /\ trigger \in [Procs -> BOOLEAN]
  BY DEF HalvesInv, InP!TypeInv, InP!TypeOK, InP!SharedTypes, InP!LocalTypes, InP!Row,
         OutP!OrderInv, OutP!TypeInv, OutP!TypeOK, OutP!Row

-----------------------------------------------------------------------------
(* What the steps of a worker do to what both halves see *)

\* An inbound step stores the thread it made, removes a row or clears its
\* blocked_at; or a poll sets or clears the flag; or it leaves both alone.
LEMMA InboundDoes ==
  ASSUME HalvesInv, NEW p \in Procs, In!Worker(p), pc[p] # "load"
  PROVE  \/ UNCHANGED <<mapping, rejected>>
         \/ /\ UNCHANGED rejected
            /\ \E c \in Chats :
                 \/ /\ pc[p] = "insert" /\ mapping[c] = NoRow
                    /\ mapping' = [mapping EXCEPT ![c] = [thread |-> thread[p], blocked |-> FALSE]]
                 \/ mapping[c] # NoRow /\ mapping' = [mapping EXCEPT ![c] = NoRow]
                 \/ mapping[c] # NoRow /\ mapping' = [mapping EXCEPT ![c].blocked = FALSE]
         \/ /\ UNCHANGED mapping /\ pc[p] = "polling"
            /\ \/ rejected' = [rejected EXCEPT ![p] = FALSE]
               \/ rejected' = [rejected EXCEPT ![p] = TRUE] /\ In!Fault
<1> DEFINE c == In!ChatOf(p)
<1>0. mapping \in [Chats -> [thread : 1 .. MaxThreads, blocked : BOOLEAN] \cup {NoRow}]
  BY Types
<1>1. pc[p] \in InP!Handling => c \in Chats
  BY InP!ChatInBatch, ConnectorAssumption
     DEF HalvesInv, In!ChatOf, InP!ChatOf, InP!InboundAssumption, InP!AllKinds
<1>2. In!Advance(p) \/ In!GiveUpBatch(p) \/ In!Abandon(p) => UNCHANGED rejected
  BY DEF In!Advance, In!GiveUpBatch, In!Abandon
<1> HIDE DEF c
<1>3. CASE In!Start(p) \/ In!LoadInstallationState(p) \/ In!BeginPoll(p)
  BY <1>3 DEF In!Start, In!LoadInstallationState, In!BeginPoll, In!database, In!locals
<1>4. CASE In!PollAnswered(p) \/ In!PollFailed(p)
  BY <1>4 DEF In!PollAnswered, In!PollFailed, In!database
<1>5. CASE In!HandleUpdate(p) \/ In!BuildInboundMessage(p)
  BY <1>2, <1>5 DEF In!HandleUpdate, In!BuildInboundMessage, In!database, In!locals
<1>6. CASE In!ClearChatBlocked(p)
  BY <1>1, <1>2, <1>6 DEF In!ClearChatBlocked, In!locals, InP!Handling, c
<1>7. CASE In!CreateThread(p) \/ In!AddParticipant(p)
  BY <1>2, <1>7 DEF In!CreateThread, In!AddParticipant, In!database, In!locals
<1>8. CASE In!CreateChatMapping(p)
  <2>1. c \in Chats
    BY <1>1, <1>8 DEF In!CreateChatMapping, InP!Handling
  <2>2. CASE mapping[c] = NoRow
    BY <1>2, <1>8, <2>1, <2>2 DEF In!CreateChatMapping, c
  <2>3. CASE mapping[c] # NoRow
    <3>1. [mapping EXCEPT ![c] = mapping[c]] = mapping
      BY <1>0
    <3> QED
      BY <1>2, <1>8, <2>3, <3>1 DEF In!CreateChatMapping, c
  <2> QED
    BY <2>2, <2>3
<1>9. CASE In!SendMessage(p) \/ In!ResendMessage(p)
  BY <1>2, <1>9 DEF In!SendMessage, In!ResendMessage, In!Post, In!database, In!locals
<1>10. CASE In!DeleteChatMapping(p)
  <2>1. c \in Chats
    BY <1>1, <1>10 DEF In!DeleteChatMapping, InP!Handling
  <2>2. mapping[c] = NoRow => [mapping EXCEPT ![c] = NoRow] = mapping
    BY <1>0, <2>1
  <2> QED
    BY <1>2, <1>10, <2>1, <2>2 DEF In!DeleteChatMapping, c
<1>11. CASE In!PersistInstallationState(p)
  BY <1>11 DEF In!PersistInstallationState
<1> QED
  BY <1>3, <1>4, <1>5, <1>6, <1>7, <1>8, <1>9, <1>10, <1>11 DEF In!Worker

\* The histories that follow an inbound step: how often a token was rejected.
LEMMA RejectionCounted ==
  ASSUME HalvesInv, NEW p \in Procs, NEW b \in BOOLEAN, Follows,
         rejected' = [rejected EXCEPT ![p] = b]
  PROVE  rejections' = IF b /\ ~rejected[p] THEN rejections + 1 ELSE rejections
<1> DEFINE S == {q \in Procs : ~rejected[q] /\ rejected'[q]}
<1>0. rejections \in Nat /\ rejected \in [Procs -> BOOLEAN]
  BY Types
<1>1. rejections' = rejections + Cardinality(S)
  BY DEF Follows
<1>2. S = IF b /\ ~rejected[p] THEN {p} ELSE {}
  BY <1>0
<1>3. Cardinality(S) = IF b /\ ~rejected[p] THEN 1 ELSE 0
  BY <1>2, FS_EmptySet, FS_Singleton
<1> HIDE DEF S
<1> QED
  BY <1>0, <1>1, <1>3

LEMMA TokenKept ==
  ASSUME HalvesInv, Follows, UNCHANGED rejected
  PROVE  UNCHANGED rejections
<1> DEFINE S == {q \in Procs : ~rejected[q] /\ rejected'[q]}
<1>0. rejections \in Nat
  BY Types
<1>1. rejections' = rejections + Cardinality(S)
  BY DEF Follows
<1>2. Cardinality(S) = 0
  <2>1. S = {}
    OBVIOUS
  <2> QED
    BY <2>1, FS_EmptySet
<1> HIDE DEF S
<1> QED
  BY <1>0, <1>1, <1>2

\* The threads that rows have named.
LEMMA RowsKept ==
  ASSUME HalvesInv, Follows, UNCHANGED mapping
  PROVE  UNCHANGED mapped
<1>1. mapped \in [Chats -> SUBSET (1 .. MaxThreads)]
  BY Types
<1>2. \A c \in Chats : mapping[c] # NoRow => mapping[c].thread \in mapped[c]
  BY DEF HalvesInv, OutP!OrderInv, OutP!RowsMapped
<1> QED
  BY <1>1, <1>2 DEF Follows

LEMMA RowFollowed ==
  ASSUME HalvesInv, Follows, NEW c \in Chats, NEW r,
         mapping' = [mapping EXCEPT ![c] = r],
         r = NoRow \/ (mapping[c] # NoRow /\ r.thread = mapping[c].thread)
  PROVE  UNCHANGED mapped
<1>1. /\ mapped \in [Chats -> SUBSET (1 .. MaxThreads)]
      /\ mapping \in [Chats -> [thread : 1 .. MaxThreads, blocked : BOOLEAN] \cup {NoRow}]
  BY Types
<1>2. \A d \in Chats : mapping[d] # NoRow => mapping[d].thread \in mapped[d]
  BY DEF HalvesInv, OutP!OrderInv, OutP!RowsMapped
<1>3. \A d \in Chats : mapping'[d] # NoRow => mapping'[d].thread \in mapped[d]
  BY <1>1, <1>2
<1> QED
  BY <1>1, <1>3 DEF Follows

LEMMA RowInsertFollowed ==
  ASSUME HalvesInv, Follows, NEW c \in Chats, NEW t \in 1 .. MaxThreads,
         NEW b, mapping' = [mapping EXCEPT ![c] = [thread |-> t, blocked |-> b]],
         [thread |-> t, blocked |-> b] # NoRow
  PROVE  mapped' = [mapped EXCEPT ![c] = @ \cup {t}]
<1>1. /\ mapped \in [Chats -> SUBSET (1 .. MaxThreads)]
      /\ mapping \in [Chats -> [thread : 1 .. MaxThreads, blocked : BOOLEAN] \cup {NoRow}]
  BY Types
<1>2. \A d \in Chats : mapping[d] # NoRow => mapping[d].thread \in mapped[d]
  BY DEF HalvesInv, OutP!OrderInv, OutP!RowsMapped
<1>3. /\ mapping'[c] # NoRow /\ mapping'[c].thread = t
      /\ \A d \in Chats \ {c} : mapping'[d] = mapping[d]
  BY <1>1
<1> QED
  BY <1>1, <1>2, <1>3 DEF Follows

-----------------------------------------------------------------------------
(* Every step is one of each half *)

\* What an inbound step does is what Outbound allows the inbound goroutines.
LEMMA InboundStepOutside ==
  ASSUME ConnectorInv, NEW p \in Procs, InboundStep(p)
  PROVE  Out!Environment \/ UNCHANGED Out!vars
<1> USE DEF outboundOnly, Out!vars, Out!service, Out!world, Out!telegram, Out!rows,
            Out!wakeup, Out!locals, Out!history, Out!token
<1>0. HalvesInv /\ Follows /\ In!Worker(p) /\ pc[p] # "load" /\ UNCHANGED outboundOnly
  BY DEF ConnectorInv, InboundStep, Follows
<1>t. /\ mapped \in [Chats -> SUBSET (1 .. MaxThreads)]
      /\ mapping \in [Chats -> [thread : 1 .. MaxThreads, blocked : BOOLEAN] \cup {NoRow}]
      /\ rejected \in [Procs -> BOOLEAN]
      /\ thread \in [Procs -> Nat]
      /\ {faults, outFaults, rejections} \subseteq Nat
      /\ threads \in Seq(InP!ThreadRecord)
  BY <1>0, Types
<1>1. CASE UNCHANGED <<mapping, rejected>>
  BY <1>0, <1>1, RowsKept, TokenKept
<1>2. ASSUME UNCHANGED rejected, NEW c \in Chats, pc[p] = "insert", mapping[c] = NoRow,
             mapping' = [mapping EXCEPT ![c] = [thread |-> thread[p], blocked |-> FALSE]]
      PROVE  Out!Environment \/ UNCHANGED Out!vars
  <2> DEFINE r == [thread |-> thread[p], blocked |-> FALSE]
  <2>1. UNCHANGED rejections
    BY <1>0, <1>2, TokenKept
  <2>2. CASE r = NoRow
    <3>1. mapping' = mapping
      BY <1>t, <1>2, <2>2
    <3> QED
      BY <1>0, <1>2, <2>1, <3>1, RowsKept
  <2>3. CASE r # NoRow
    <3>1. InP!Own(thread[p], InP!ChatOf(p)) /\ Len(threads) <= MaxThreads
      BY <1>2 DEF ConnectorInv, HalvesInv, Bounded, InP!RouteInv, InP!Routed, InP!HoldsReady,
                  InP!Ready
    <3>2. thread[p] \in 1 .. MaxThreads
      BY <1>t, <3>1, ConnectorAssumption DEF InP!Own
    <3>3. mapped' = [mapped EXCEPT ![c] = @ \cup {thread[p]}]
      BY <1>0, <1>2, <2>3, <3>2, RowInsertFollowed
    <3>4. thread[p] \notin UNION {mapped[d] : d \in Chats}
      BY <1>2 DEF ConnectorInv, Unshared, Making, Named
    <3>5. Out!RowInserted(c)
      BY <1>2, <3>2, <3>3, <3>4 DEF Out!RowInserted
    <3> QED
      BY <1>0, <1>2, <2>1, <3>5 DEF Out!Environment, Out!InboundUpdatesRow
  <2> QED
    BY <2>2, <2>3
<1>3. ASSUME UNCHANGED rejected, NEW c \in Chats, mapping[c] # NoRow,
             mapping' = [mapping EXCEPT ![c] = NoRow]
      PROVE  Out!Environment \/ UNCHANGED Out!vars
  <2>1. UNCHANGED mapped /\ UNCHANGED rejections
    BY <1>0, <1>3, TokenKept, RowFollowed
  <2>2. Out!RowDeleted(c)
    BY <1>3, <2>1 DEF Out!RowDeleted
  <2> QED
    BY <1>0, <1>3, <2>1, <2>2 DEF Out!Environment, Out!InboundUpdatesRow
<1>4. ASSUME UNCHANGED rejected, NEW c \in Chats, mapping[c] # NoRow,
             mapping' = [mapping EXCEPT ![c].blocked = FALSE]
      PROVE  Out!Environment \/ UNCHANGED Out!vars
  <2> DEFINE r == [mapping[c] EXCEPT !.blocked = FALSE]
  <2>1. mapping[c] \in [thread : 1 .. MaxThreads, blocked : BOOLEAN]
    BY <1>t, <1>4
  <2>2. r.thread = mapping[c].thread /\ mapping' = [mapping EXCEPT ![c] = r]
    BY <1>4, <2>1
  <2> HIDE DEF r
  <2>3. UNCHANGED mapped /\ UNCHANGED rejections
    BY <1>0, <1>4, <2>2, TokenKept, RowFollowed
  <2>4. Out!BlockCleared(c)
    BY <1>4, <2>3 DEF Out!BlockCleared
  <2> QED
    BY <1>0, <1>4, <2>3, <2>4 DEF Out!Environment, Out!InboundUpdatesRow
<1>5. ASSUME UNCHANGED mapping, pc[p] = "polling", rejected' = [rejected EXCEPT ![p] = FALSE]
      PROVE  Out!Environment \/ UNCHANGED Out!vars
  <2>1. UNCHANGED mapped /\ UNCHANGED rejections
    BY <1>0, <1>5, RowsKept, RejectionCounted
  <2>2. CASE rejected[p]
    <3>1. Out!InboundSucceeds(p)
      BY <1>0, <1>5, <2>1, <2>2 DEF Out!InboundSucceeds
    <3> QED
      BY <3>1 DEF Out!Environment
  <2>3. CASE ~rejected[p]
    <3>1. UNCHANGED rejected
      BY <1>t, <1>5, <2>3
    <3> QED
      BY <1>0, <1>5, <2>1, <3>1
  <2> QED
    BY <2>2, <2>3
<1>6. ASSUME UNCHANGED mapping, pc[p] = "polling", In!Fault,
             rejected' = [rejected EXCEPT ![p] = TRUE]
      PROVE  Out!Environment \/ UNCHANGED Out!vars
  <2>1. UNCHANGED mapped
    BY <1>0, <1>6, RowsKept
  <2>2. rejections' = IF rejected[p] THEN rejections ELSE rejections + 1
    BY <1>0, <1>6, RejectionCounted
  <2>3. CASE ~rejected[p]
    <3>1. rejections < MaxFaults + MaxOutFaults
      BY <1>t, <1>6, ConnectorAssumption DEF ConnectorInv, Bounded, In!Fault
    <3>2. opc[p] # "down"
      BY <1>6 DEF ConnectorInv, Together, Running
    <3>3. Out!InboundRejected(p)
      BY <1>0, <1>6, <2>1, <2>2, <2>3, <3>1, <3>2 DEF Out!InboundRejected, Out!Reject
    <3> QED
      BY <3>3 DEF Out!Environment
  <2>4. CASE rejected[p]
    <3>1. UNCHANGED rejected
      BY <1>t, <1>6, <2>4
    <3> QED
      BY <1>0, <1>6, <2>1, <2>2, <2>4, <3>1
  <2> QED
    BY <2>3, <2>4
<1> QED
  BY <1>0, <1>1, <1>2, <1>3, <1>4, <1>5, <1>6, InboundDoes

\* An outbound step marks a row blocked, or counts a rejection, or leaves what
\* both halves see alone; it never opens a stream.
LEMMA OutboundDoes ==
  ASSUME HalvesInv, NEW p \in Procs, Out!Worker(p), opc[p] # "down"
  PROVE  /\ UNCHANGED <<mapped, stream>>
         /\ opc'[p] # "down"
         /\ \/ UNCHANGED <<mapping, rejected, rejections>> /\ (UNCHANGED outFaults \/ Out!Fault)
            \/ /\ UNCHANGED <<mapping>> /\ Out!Fault
               /\ rejected' = [rejected EXCEPT ![p] = TRUE]
               /\ rejections' = IF rejected[p] THEN rejections ELSE rejections + 1
            \/ /\ UNCHANGED <<rejected, rejections, outFaults>>
               /\ \E c \in Chats : /\ mapping[c] # NoRow
                                   /\ mapping' = [mapping EXCEPT ![c].blocked = TRUE]
<1>0. opc \in [Procs -> OutP!PCs]
  BY Types
<1> USE DEF Out!service, Out!telegram, Out!rows, Out!world, Out!wakeup, Out!locals,
            Out!history, Out!token, Out!Goto, Out!NoFault
<1>1. CASE Out!Start(p) \/ Out!Tick(p) \/ Out!Wake(p)
  BY <1>0, <1>1 DEF Out!Start, Out!Tick, Out!Wake
<1>2. CASE Out!GetUnackedMessages(p) \/ Out!FinishRun(p) \/ Out!TakeMessage(p)
           \/ Out!PassOver(p) \/ Out!FindMapping(p)
  BY <1>0, <1>2 DEF Out!GetUnackedMessages, Out!FinishRun, Out!TakeMessage, Out!PassOver,
       Out!FindMapping, Out!Return
<1>3. CASE Out!FinishDelivery(p) \/ Out!SendPart(p) \/ Out!SendFails(p) \/ Out!SendTimesOut(p)
           \/ Out!SendRefused(p) \/ Out!SendLimited(p) \/ Out!SendBlocked(p)
  BY <1>0, <1>3 DEF Out!FinishDelivery, Out!SendPart, Out!SendFails, Out!SendTimesOut,
       Out!SendRefused, Out!SendLimited, Out!SendBlocked, Out!Sending, Out!Return, Out!vars
<1>4. CASE Out!SendUnauthorized(p)
  BY <1>0, <1>4 DEF Out!SendUnauthorized, Out!Reject
<1>5. CASE Out!MarkChatBlocked(p)
  <2>1. dest[p] \in Chats
    BY <1>5 DEF Out!MarkChatBlocked, HalvesInv, OutP!OrderInv, OutP!TypeInv, OutP!Holds
  <2> QED
    BY <1>0, <1>5, <2>1 DEF Out!MarkChatBlocked
<1>6. CASE Out!LogOutboundFailure(p) \/ Out!AckMessage(p)
  BY <1>0, <1>6 DEF Out!LogOutboundFailure, Out!AckMessage, Out!NextMessage
<1> QED
  BY <1>1, <1>2, <1>3, <1>4, <1>5, <1>6 DEF Out!Worker, Out!Deliver

\* What an outbound step does is what Inbound allows the outbound goroutines.
LEMMA OutboundStepOutside ==
  ASSUME ConnectorInv, NEW p \in Procs, OutboundStep(p)
  PROVE  In!Environment \/ UNCHANGED In!vars
<1> USE DEF inboundOnly, In!vars, In!telegram, In!service, In!database, In!locals
<1>0. HalvesInv /\ Out!Worker(p) /\ opc[p] # "down" /\ UNCHANGED inboundOnly
  BY DEF ConnectorInv, OutboundStep
<1>1. CASE UNCHANGED <<mapping, rejected>>
  BY <1>0, <1>1
<1>2. CASE UNCHANGED mapping /\ rejected' = [rejected EXCEPT ![p] = TRUE]
  <2>1. pc[p] \notin {"down", "load"}
    BY <1>0 DEF ConnectorInv, Together, Running
  <2>2. In!OutboundRejected(p)
    BY <1>0, <1>2, <2>1 DEF In!OutboundRejected
  <2> QED
    BY <2>2 DEF In!Environment
<1>3. CASE /\ UNCHANGED rejected
           /\ \E c \in Chats : /\ mapping[c] # NoRow
                               /\ mapping' = [mapping EXCEPT ![c].blocked = TRUE]
  <2>1. In!MarkBlocked
    BY <1>0, <1>3 DEF In!MarkBlocked
  <2> QED
    BY <2>1 DEF In!Environment
<1> QED
  BY <1>0, <1>1, <1>2, <1>3, OutboundDoes

\* The agent speaks in a thread that was named by a row.
LEMMA PostMessageOutside ==
  ASSUME ConnectorInv, PostMessage
  PROVE  Out!PostMessage /\ UNCHANGED In!vars
<1> USE DEF inboundOnly, In!vars, In!telegram, In!service, In!database, In!locals
<1>1. UNCHANGED In!vars
  BY DEF PostMessage
<1>2. stream = [q \in Procs |-> FALSE] /\ trigger \in [Procs -> BOOLEAN]
  BY Types DEF ConnectorInv, NoStream
<1>3. Out!Announce
  <2>1. trigger = [q \in Procs |-> trigger[q] \/ stream[q]]
    BY <1>2
  <2> QED
    BY <2>1 DEF Out!Announce, PostMessage
<1>4. notified' = [q \in Procs |-> IF stream[q] THEN notified[q] \cup {Len(outbox) + 1}
                                               ELSE notified[q]]
  <2>1. notified \in [Procs -> SUBSET Nat]
    BY DEF ConnectorInv, HalvesInv, OutP!OrderInv, OutP!TypeInv, OutP!TypeOK
  <2> QED
    BY <1>2, <2>1 DEF PostMessage
<1>5. \/ \E c \in Chats, b \in Bodies : \E t \in mapped[c] :
          outbox' = Append(outbox, [kind |-> "reply", thread |-> t, parts |-> b])
      \/ outbox' = Append(outbox, [kind |-> "other", thread |-> 0, parts |-> <<>>])
  <2>1. \A i \in DOMAIN posts : \E c \in Chats : posts[i].thread \in mapped[c]
    BY DEF ConnectorInv, KnownThreads, Named
  <2> QED
    BY <2>1 DEF PostMessage
<1> QED
  BY <1>1, <1>3, <1>4, <1>5
     DEF PostMessage, Out!PostMessage, Out!world, Out!telegram, Out!rows, Out!locals,
         Out!history, Out!token

\* Every step is a step of the inbound half, and one of the outbound half, or
\* leaves the half alone.
LEMMA StepOfHalves ==
  ASSUME ConnectorInv, Next
  PROVE  [In!Next]_In!vars /\ [Out!Next]_Out!vars
<1> USE DEF inboundOnly, outboundOnly, answering, In!vars, In!telegram, In!service,
            In!database, In!locals, Out!vars, Out!service, Out!telegram, Out!rows,
            Out!world, Out!wakeup, Out!locals, Out!history, Out!token
<1>0. HalvesInv
  BY DEF ConnectorInv
<1>1. ASSUME NEW p \in Procs, InboundStep(p)
      PROVE  [In!Next]_In!vars /\ [Out!Next]_Out!vars
  <2>1. Out!Environment \/ UNCHANGED Out!vars
    BY <1>1, InboundStepOutside
  <2>2. In!Worker(p)
    BY <1>1 DEF InboundStep
  <2> QED
    BY <2>1, <2>2 DEF In!Next, Out!Next
<1>2. ASSUME NEW p \in Procs, StartLoops(p)
      PROVE  [In!Next]_In!vars /\ [Out!Next]_Out!vars
  BY <1>2 DEF StartLoops, In!Next, In!Worker, Out!Next, Out!Worker
<1>3. ASSUME NEW p \in Procs, OutboundStep(p)
      PROVE  [In!Next]_In!vars /\ [Out!Next]_Out!vars
  <2>1. In!Environment \/ UNCHANGED In!vars
    BY <1>3, OutboundStepOutside
  <2>2. Out!Worker(p)
    BY <1>3 DEF OutboundStep
  <2> QED
    BY <2>1, <2>2 DEF In!Next, Out!Next
<1>4. ASSUME NEW p \in Procs, Stop(p)
      PROVE  [In!Next]_In!vars /\ [Out!Next]_Out!vars
  <2>1. In!Next
    BY <1>4 DEF Stop, In!Next, In!Environment
  <2>2. CASE opc[p] # "down"
    BY <1>4, <2>1, <2>2 DEF Stop, Out!Next, Out!Environment
  <2>3. CASE opc[p] = "down"
    <3>1. /\ Follows /\ UNCHANGED mapping
          /\ rejected' = [rejected EXCEPT ![p] = FALSE]
      BY <1>4, <2>3 DEF Stop, In!Stop
    <3>2. UNCHANGED mapped /\ UNCHANGED rejections /\ UNCHANGED outboundOnly
      BY <1>0, <3>1, RowsKept, RejectionCounted DEF Follows
    <3>3. CASE rejected[p]
      <4>1. Out!InboundSucceeds(p)
        BY <3>1, <3>2, <3>3 DEF Out!InboundSucceeds
      <4> QED
        BY <2>1, <4>1 DEF Out!Next, Out!Environment
    <3>4. CASE ~rejected[p]
      <4>1. UNCHANGED rejected
        BY <1>0, <3>1, <3>4, Types
      <4> QED
        BY <2>1, <3>1, <3>2, <4>1
    <3> QED
      BY <3>3, <3>4
  <2> QED
    BY <2>2, <2>3
<1>5. CASE Arrive
  BY <1>5 DEF Arrive, In!Arrive, In!Next, In!Environment
<1>6. CASE Degrade
  BY <1>6 DEF Degrade, In!Degrade, In!Next, In!Environment
<1>7. CASE PostMessage
  BY <1>7, PostMessageOutside DEF Out!Next, Out!Environment
<1>8. CASE ToggleBlock
  BY <1>8 DEF ToggleBlock, Out!ToggleBlock, Out!Next, Out!Environment
<1> QED
  BY <1>1, <1>2, <1>3, <1>4, <1>5, <1>6, <1>7, <1>8 DEF Next, Process, World

-----------------------------------------------------------------------------
(* The invariant is inductive *)

LEMMA InAssumption == InP!InboundAssumption
  BY ConnectorAssumption DEF InP!InboundAssumption, InP!AllKinds

LEMMA OutAssumption == OutP!OutboundAssumption
  BY ConnectorAssumption DEF OutP!OutboundAssumption, OutP!PartKinds

LEMMA InboundNext == [In!Next]_In!vars => [InP!Next]_InP!vars
<1>1. CASE \E p \in Procs : In!Worker(p)
  BY <1>1, SameInbound DEF InP!Next
<1>2. CASE In!Environment
  BY <1>2, SameInbound DEF InP!Next
<1>3. UNCHANGED In!vars => UNCHANGED InP!vars
  BY DEF In!vars, InP!vars, In!telegram, InP!telegram, In!service, InP!service, In!database,
         InP!database, In!locals, InP!locals
<1> QED
  BY <1>1, <1>2, <1>3 DEF In!Next

LEMMA OutboundNext == [Out!Next]_Out!vars => [OutP!Next]_OutP!vars
<1>1. CASE \E p \in Procs : Out!Worker(p)
  BY <1>1, SameOutbound DEF OutP!Next
<1>2. CASE Out!Environment
  BY <1>2, SameOutbound DEF OutP!Next
<1>3. UNCHANGED Out!vars => UNCHANGED OutP!vars
  BY DEF Out!vars, OutP!vars, Out!service, OutP!service, Out!telegram, OutP!telegram,
         Out!rows, OutP!rows, Out!world, OutP!world, Out!wakeup, OutP!wakeup, Out!locals,
         OutP!locals, Out!history, OutP!history, Out!token, OutP!token
<1> QED
  BY <1>1, <1>2, <1>3 DEF Out!Next

LEMMA HalvesStay == ConnectorInv /\ [Next]_vars => HalvesInv'
<1> SUFFICES ASSUME ConnectorInv, [Next]_vars PROVE HalvesInv'
  OBVIOUS
<1>1. [In!Next]_In!vars /\ [Out!Next]_Out!vars
  <2>1. CASE Next
    BY <2>1, StepOfHalves
  <2>2. CASE UNCHANGED vars
    BY <2>2 DEF vars, inboundOnly, outboundOnly, In!vars, In!telegram, In!service, In!database,
         In!locals, Out!vars, Out!service, Out!telegram, Out!rows, Out!world, Out!wakeup,
         Out!locals, Out!history, Out!token
  <2> QED
    BY <2>1, <2>2
<1>2. InP!TypeInv /\ InP!RouteInv /\ OutP!OrderInv
  BY DEF ConnectorInv, HalvesInv
<1>3. InP!TypeInv'
  BY <1>1, <1>2, InAssumption, InboundNext, InP!StepType
<1>4. InP!RouteInv'
  BY <1>1, <1>2, <1>3, InAssumption, InboundNext, InP!StepRoute
<1>5. OutP!OrderInv'
  BY <1>1, <1>2, OutAssumption, OutboundNext, OutP!StepOrder, OutP!StutterOrder
<1> QED
  BY <1>3, <1>4, <1>5 DEF HalvesInv

\* How an inbound step moves the process and the thread it holds.
LEMMA InboundMoves ==
  ASSUME HalvesInv, NEW p \in Procs, In!Worker(p), pc[p] # "load"
  PROVE  /\ IF pc[p] = "down" THEN pc'[p] = "load" ELSE Running(p)'
         /\ Making(p)' => /\ UNCHANGED mapping
                          /\ \/ Making(p) /\ thread'[p] = thread[p]
                             \/ thread'[p] = Len(threads) + 1
         /\ Using(p)' => \/ Using(p) /\ thread'[p] = thread[p]
                         \/ \E c \in Chats : mapping'[c] # NoRow /\ thread'[p] = mapping'[c].thread
         /\ \/ UNCHANGED posts
            \/ Using(p) /\ posts' = Append(posts, [thread |-> thread[p], update |-> cur[p]])
         /\ UNCHANGED faults \/ In!Fault
<1> DEFINE Moves ==
         /\ IF pc[p] = "down" THEN pc'[p] = "load" ELSE Running(p)'
         /\ Making(p)' => /\ UNCHANGED mapping
                          /\ \/ Making(p) /\ thread'[p] = thread[p]
                             \/ thread'[p] = Len(threads) + 1
         /\ Using(p)' => \/ Using(p) /\ thread'[p] = thread[p]
                         \/ \E c \in Chats : mapping'[c] # NoRow /\ thread'[p] = mapping'[c].thread
         /\ UNCHANGED faults \/ In!Fault
       Posts ==
         \/ UNCHANGED posts
         \/ Using(p) /\ posts' = Append(posts, [thread |-> thread[p], update |-> cur[p]])
<1>0. /\ pc \in [Procs -> InP!PCs] /\ thread \in [Procs -> Nat]
      /\ mapping \in [Chats -> [thread : 1 .. MaxThreads, blocked : BOOLEAN] \cup {NoRow}]
  BY Types
<1>c. pc[p] \in InP!Handling => In!ChatOf(p) \in Chats
  BY InP!ChatInBatch, InAssumption DEF HalvesInv, In!ChatOf, InP!ChatOf
<1>l. In!Advance(p) \/ In!GiveUpBatch(p) \/ In!Abandon(p)
        => Running(p)' /\ ~Making(p)' /\ ~Using(p)'
  BY <1>0 DEF In!Advance, In!GiveUpBatch, In!Abandon, In!Goto, Running, Making, Using
<1> USE DEF In!Goto, In!NoFault, Running, Making, Using, In!locals, In!service
<1>1. CASE In!Start(p) \/ In!LoadInstallationState(p) \/ In!BeginPoll(p)
  BY <1>0, <1>1 DEF In!Start, In!LoadInstallationState, In!BeginPoll
<1>2. CASE In!PollAnswered(p) \/ In!PollFailed(p)
  BY <1>0, <1>2 DEF In!PollAnswered, In!PollFailed
<1>3. CASE In!HandleUpdate(p)
  <2>1. CASE In!Advance(p) \/ In!Abandon(p)
    BY <1>l, <1>3, <2>1 DEF In!HandleUpdate, In!Abandon
  <2>2. CASE ~(In!Advance(p) \/ In!Abandon(p))
    BY <1>0, <1>c, <1>3, <2>2 DEF In!HandleUpdate, In!database, InP!Handling
  <2> QED
    BY <2>1, <2>2
<1>4. CASE In!ClearChatBlocked(p)
  BY <1>0, <1>l, <1>4 DEF In!ClearChatBlocked, In!Abandon
<1>5. CASE In!CreateThread(p) \/ In!AddParticipant(p)
  BY <1>0, <1>l, <1>5 DEF In!CreateThread, In!AddParticipant, In!Abandon, In!database
<1>6. CASE In!CreateChatMapping(p)
  <2>1. CASE In!Abandon(p)
    BY <1>l, <1>6, <2>1 DEF In!CreateChatMapping, In!Abandon
  <2>2. CASE ~In!Abandon(p)
    <3> DEFINE c == In!ChatOf(p)
               r == IF mapping[c] = NoRow THEN [thread |-> thread[p], blocked |-> FALSE]
                                          ELSE mapping[c]
    <3>1. c \in Chats
      BY <1>c, <1>6 DEF In!CreateChatMapping, InP!Handling
    <3>2. /\ mapping' = [mapping EXCEPT ![c] = r]
          /\ thread' = [thread EXCEPT ![p] = r.thread]
          /\ pc' = [pc EXCEPT ![p] = IF rotating[p] THEN "resend" ELSE "build"]
          /\ UNCHANGED <<faults, posts>>
      BY <1>6, <2>2 DEF In!CreateChatMapping
    <3>3. r # NoRow
      <4>1. [thread |-> thread[p], blocked |-> FALSE] \in [thread : Nat, blocked : BOOLEAN]
        BY <1>0
      <4> QED
        BY <4>1, ConnectorAssumption
    <3> HIDE DEF c, r
    <3>4. mapping'[c] = r /\ thread'[p] = r.thread
      BY <1>0, <3>1, <3>2
    <3>5. pc'[p] \in {"resend", "build"}
      BY <1>0, <3>2
    <3> QED
      BY <1>6, <3>1, <3>2, <3>3, <3>4, <3>5 DEF In!CreateChatMapping
  <2> QED
    BY <2>1, <2>2
<1>7. CASE In!BuildInboundMessage(p)
  BY <1>0, <1>l, <1>7 DEF In!BuildInboundMessage, In!Abandon
<1>8. CASE In!SendMessage(p) \/ In!ResendMessage(p)
  <2>1. Posts
    BY <1>8 DEF In!SendMessage, In!ResendMessage, In!Post
  <2>2. Moves
    BY <1>0, <1>l, <1>8 DEF In!SendMessage, In!ResendMessage, In!Post, In!Abandon
  <2> QED
    BY <2>1, <2>2
<1>9. CASE In!DeleteChatMapping(p)
  BY <1>0, <1>l, <1>9 DEF In!DeleteChatMapping, In!Abandon
<1>10. CASE In!PersistInstallationState(p)
  BY <1>0, <1>10 DEF In!PersistInstallationState
<1> QED
  BY <1>1, <1>2, <1>3, <1>4, <1>5, <1>6, <1>7, <1>8, <1>9, <1>10 DEF In!Worker

\* An inbound step leaves the other processes where they are.
LEMMA OthersWait ==
  ASSUME HalvesInv, NEW p \in Procs, In!Worker(p), NEW q \in Procs \ {p}
  PROVE  pc'[q] = pc[q] /\ thread'[q] = thread[q]
<1>1. InP!Worker(p) /\ InP!TypeInv
  BY SameInbound DEF HalvesInv
<1> QED
  BY <1>1, InAssumption, InP!OthersKeep

LEMMA OtherLoopsWait ==
  ASSUME HalvesInv, NEW p \in Procs, Out!Worker(p), NEW q \in Procs \ {p}
  PROVE  opc'[q] = opc[q]
<1>1. OutP!Worker(p) /\ OutP!TypeInv
  BY SameOutbound DEF HalvesInv, OutP!OrderInv
<1> QED
  BY <1>1, OutAssumption, OutP!OthersSame DEF OutP!Same

LEMMA TogetherStays == ConnectorInv /\ Next => Together'
<1> SUFFICES ASSUME ConnectorInv, Next PROVE Together'
  OBVIOUS
<1>0. /\ HalvesInv /\ \A q \in Procs : opc[q] # "down" <=> Running(q)
      /\ pc \in [Procs -> InP!PCs] /\ opc \in [Procs -> OutP!PCs]
  BY Types DEF ConnectorInv, Together
<1> USE DEF Together, Running, inboundOnly, outboundOnly
<1>1. ASSUME NEW p \in Procs, InboundStep(p) PROVE Together'
  <2>1. In!Worker(p) /\ pc[p] # "load" /\ UNCHANGED opc
    BY <1>1 DEF InboundStep, Follows
  <2>2. IF pc[p] = "down" THEN pc'[p] = "load" ELSE Running(p)'
    BY <1>0, <2>1, InboundMoves
  <2>3. \A q \in Procs \ {p} : pc'[q] = pc[q]
    BY <1>0, <2>1, OthersWait
  <2> QED
    BY <1>0, <2>1, <2>2, <2>3
<1>2. ASSUME NEW p \in Procs, StartLoops(p) PROVE Together'
  BY <1>0, <1>2 DEF StartLoops, In!LoadInstallationState, In!Goto, Out!Start, Out!Goto
<1>3. ASSUME NEW p \in Procs, OutboundStep(p) PROVE Together'
  <2>1. Out!Worker(p) /\ opc[p] # "down" /\ UNCHANGED pc
    BY <1>3 DEF OutboundStep
  <2>2. opc'[p] # "down"
    BY <1>0, <2>1, OutboundDoes
  <2>3. \A q \in Procs \ {p} : opc'[q] = opc[q]
    BY <1>0, <2>1, OtherLoopsWait
  <2> QED
    BY <1>0, <2>1, <2>2, <2>3
<1>4. ASSUME NEW p \in Procs, Stop(p) PROVE Together'
  BY <1>0, <1>4 DEF Stop, Follows, In!Stop, In!Goto, Out!Stop
<1>5. CASE World
  BY <1>0, <1>5 DEF World, Arrive, Degrade, PostMessage, ToggleBlock, In!Arrive, In!Degrade,
                    Out!ToggleBlock
<1> QED
  BY <1>1, <1>2, <1>3, <1>4, <1>5 DEF Next, Process

\* Each rejection is paid for, and the faults are bounded.
LEMMA BoundedStays == ConnectorInv /\ Next => Bounded' /\ NoStream'
<1> SUFFICES ASSUME ConnectorInv, Next PROVE Bounded' /\ NoStream'
  OBVIOUS
<1>0. /\ HalvesInv /\ Bounded /\ NoStream
      /\ {faults, outFaults, rejections} \subseteq Nat
      /\ threads \in Seq(InP!ThreadRecord)
      /\ rejected \in [Procs -> BOOLEAN]
      /\ {MaxFaults, MaxOutFaults, MaxThreads} \subseteq Nat
  BY Types, ConnectorAssumption DEF ConnectorInv
<1> USE <1>0 DEF Bounded, NoStream, inboundOnly, outboundOnly
<1>1. ASSUME NEW p \in Procs, InboundStep(p) PROVE Bounded' /\ NoStream'
  <2>1. /\ In!Worker(p) /\ pc[p] # "load" /\ Follows
        /\ UNCHANGED <<outFaults, stream>> /\ Len(threads') <= MaxThreads
    BY <1>1 DEF InboundStep, Follows
  <2>2. UNCHANGED faults \/ In!Fault
    BY <2>1, InboundMoves
  <2>3. UNCHANGED rejections \/ (rejections' = rejections + 1 /\ In!Fault)
    BY <2>1, InboundDoes, TokenKept, RejectionCounted
  <2>4. /\ faults' <= MaxFaults /\ faults' \in Nat /\ rejections' <= faults' + outFaults
    BY <2>2, <2>3 DEF In!Fault
  <2> QED
    BY <2>1, <2>4
<1>2. ASSUME NEW p \in Procs, StartLoops(p) PROVE Bounded' /\ NoStream'
  BY <1>2 DEF StartLoops, In!LoadInstallationState, In!service, Out!Start, Out!wakeup, Out!token
<1>3. ASSUME NEW p \in Procs, OutboundStep(p) PROVE Bounded' /\ NoStream'
  <2>1. Out!Worker(p) /\ opc[p] # "down" /\ UNCHANGED inboundOnly
    BY <1>3 DEF OutboundStep
  <2>2. /\ UNCHANGED stream
        /\ \/ UNCHANGED rejections /\ (UNCHANGED outFaults \/ Out!Fault)
           \/ (rejections' = rejections \/ rejections' = rejections + 1) /\ Out!Fault
    BY <2>1, OutboundDoes
  <2>3. /\ outFaults' <= MaxOutFaults /\ outFaults' \in Nat /\ rejections' <= faults + outFaults'
    BY <2>2 DEF Out!Fault
  <2> QED
    BY <2>1, <2>2, <2>3
<1>4. ASSUME NEW p \in Procs, Stop(p) PROVE Bounded' /\ NoStream'
  <2>1. /\ In!Fault /\ UNCHANGED threads /\ UNCHANGED mapping
        /\ rejected' = [rejected EXCEPT ![p] = FALSE]
    BY <1>4 DEF Stop, In!Stop, In!service, In!database
  <2>2. CASE opc[p] = "down"
    <3>1. Follows /\ UNCHANGED outboundOnly
      BY <1>4, <2>2 DEF Stop, Follows
    <3>2. UNCHANGED rejections
      BY <2>1, <3>1, RejectionCounted
    <3> QED
      BY <2>1, <3>1, <3>2 DEF In!Fault
  <2>3. CASE opc[p] # "down"
    <3>1. Out!Fault /\ UNCHANGED rejections /\ stream' = [stream EXCEPT ![p] = FALSE]
      BY <1>4, <2>3 DEF Stop, Out!Stop
    <3>2. stream' = [q \in Procs |-> FALSE]
      BY <3>1
    <3>3. /\ faults' = faults + 1 /\ faults' <= MaxFaults
          /\ outFaults' = outFaults + 1 /\ outFaults' <= MaxOutFaults
      BY <2>1, <3>1 DEF In!Fault, Out!Fault
    <3>4. rejections' <= faults' + outFaults'
      BY <3>1, <3>3
    <3> QED
      BY <2>1, <3>2, <3>3, <3>4
  <2> QED
    BY <2>2, <2>3
<1>5. CASE Arrive \/ PostMessage \/ ToggleBlock
  BY <1>5 DEF Arrive, PostMessage, ToggleBlock, In!Arrive, In!service, Out!ToggleBlock,
              Out!wakeup, Out!token
<1>6. CASE Degrade
  <2>1. Len(threads') = Len(threads)
    BY <1>6 DEF Degrade, In!Degrade
  <2> QED
    BY <1>6, <2>1 DEF Degrade, In!Degrade
<1> QED
  BY <1>1, <1>2, <1>3, <1>4, <1>5, <1>6 DEF Next, Process, World

\* A thread that becomes named was in the making by the process that moved, and
\* is in the row that names it.
LEMMA NamesGrow ==
  ASSUME ConnectorInv, NEW p \in Procs, InboundStep(p)
  PROVE  /\ \A c \in Chats : mapped[c] \subseteq mapped'[c]
         /\ \A c \in Chats : \A t \in mapped'[c] \ mapped[c] :
              /\ mapping'[c] # NoRow /\ t = mapping'[c].thread
              /\ pc[p] = "insert" /\ t = thread[p] /\ ~(UNCHANGED mapping)
<1>0. /\ HalvesInv /\ Follows /\ In!Worker(p) /\ pc[p] # "load"
      /\ mapping \in [Chats -> [thread : 1 .. MaxThreads, blocked : BOOLEAN] \cup {NoRow}]
      /\ \A d \in Chats : mapping[d] # NoRow => mapping[d].thread \in mapped[d]
  BY Types DEF ConnectorInv, InboundStep, HalvesInv, OutP!OrderInv, OutP!RowsMapped
<1>1. \A c \in Chats : mapped'[c] = IF mapping'[c] = NoRow THEN mapped[c]
                                    ELSE mapped[c] \cup {mapping'[c].thread}
  BY <1>0 DEF Follows
<1>2. ASSUME NEW c \in Chats, mapping'[c] # NoRow, mapping'[c].thread \notin mapped[c]
      PROVE  pc[p] = "insert" /\ mapping'[c].thread = thread[p] /\ ~(UNCHANGED mapping)
  <2>1. ~(UNCHANGED mapping)
    BY <1>0, <1>2
  <2>2. PICK d \in Chats :
           \/ /\ pc[p] = "insert" /\ mapping[d] = NoRow
              /\ mapping' = [mapping EXCEPT ![d] = [thread |-> thread[p], blocked |-> FALSE]]
           \/ mapping[d] # NoRow /\ mapping' = [mapping EXCEPT ![d] = NoRow]
           \/ mapping[d] # NoRow /\ mapping' = [mapping EXCEPT ![d].blocked = FALSE]
    BY <1>0, <2>1, InboundDoes
  <2>3. d = c
    BY <1>0, <1>2, <2>2
  <2>4. CASE mapping[d] # NoRow /\ mapping' = [mapping EXCEPT ![d].blocked = FALSE]
    <3>1. mapping[d] \in [thread : 1 .. MaxThreads, blocked : BOOLEAN]
      BY <1>0, <2>4
    <3>2. mapping'[d].thread = mapping[d].thread
      BY <1>0, <2>4, <3>1
    <3> QED
      BY <1>0, <1>2, <2>3, <2>4, <3>2
  <2> QED
    BY <1>0, <1>2, <2>1, <2>2, <2>3, <2>4
<1> QED
  BY <1>1, <1>2

\* Whoever else moves, no thread becomes named.
LEMMA NamesStay ==
  ASSUME ConnectorInv, Next, \A p \in Procs : ~InboundStep(p)
  PROVE  UNCHANGED <<mapped, posts>>
<1>0. HalvesInv
  BY DEF ConnectorInv
<1> USE DEF inboundOnly, outboundOnly, Out!world, Out!rows, In!service, In!database
<1>1. ASSUME NEW p \in Procs, StartLoops(p) PROVE UNCHANGED <<mapped, posts>>
  BY <1>1 DEF StartLoops, In!LoadInstallationState, Out!Start
<1>2. ASSUME NEW p \in Procs, OutboundStep(p) PROVE UNCHANGED <<mapped, posts>>
  BY <1>0, <1>2, OutboundDoes DEF OutboundStep
<1>3. ASSUME NEW p \in Procs, Stop(p) PROVE UNCHANGED <<mapped, posts>>
  <2>1. UNCHANGED <<mapping, posts>>
    BY <1>3 DEF Stop, In!Stop
  <2>2. CASE opc[p] = "down"
    BY <1>0, <1>3, <2>1, <2>2, RowsKept DEF Stop
  <2>3. CASE opc[p] # "down"
    BY <1>3, <2>1, <2>3 DEF Stop, Out!Stop
  <2> QED
    BY <2>2, <2>3
<1>4. CASE World
  BY <1>4 DEF World, Arrive, Degrade, PostMessage, ToggleBlock, In!Arrive, In!Degrade,
              Out!ToggleBlock
<1> QED
  BY <1>1, <1>2, <1>3, <1>4 DEF Next, Process

\* Nor does any process begin to hold a thread.
LEMMA HoldersStay ==
  ASSUME ConnectorInv, Next, \A p \in Procs : ~InboundStep(p), NEW q \in Procs
  PROVE  \/ pc'[q] = pc[q] /\ thread'[q] = thread[q]
         \/ ~Making(q)' /\ ~Using(q)'
<1>0. pc \in [Procs -> InP!PCs] /\ thread \in [Procs -> Nat]
  BY Types DEF ConnectorInv
<1> USE DEF inboundOnly, Making, Using, In!Goto
<1>1. ASSUME NEW p \in Procs, StartLoops(p)
      PROVE  (pc'[q] = pc[q] \/ pc'[q] = "top") /\ UNCHANGED thread
  BY <1>0, <1>1 DEF StartLoops, In!LoadInstallationState
<1>2. ASSUME NEW p \in Procs, OutboundStep(p) PROVE UNCHANGED <<pc, thread>>
  BY <1>2 DEF OutboundStep
<1>3. ASSUME NEW p \in Procs, Stop(p)
      PROVE  pc'[q] = "down" \/ (pc'[q] = pc[q] /\ thread'[q] = thread[q])
  BY <1>0, <1>3 DEF Stop, In!Stop, In!DropBatch, In!DropUpdate
<1>4. CASE World
  BY <1>4 DEF World, Arrive, Degrade, PostMessage, ToggleBlock, In!Arrive, In!Degrade, In!locals
<1> QED
  BY <1>1, <1>2, <1>3, <1>4 DEF Next, Process

LEMMA UnsharedStays == ConnectorInv /\ Next => Unshared'
<1> SUFFICES ASSUME ConnectorInv, Next PROVE Unshared'
  OBVIOUS
<1>0. HalvesInv /\ Unshared
  BY DEF ConnectorInv
<1>1. ASSUME NEW p \in Procs, InboundStep(p) PROVE Unshared'
  <2>0. /\ In!Worker(p) /\ pc[p] # "load" /\ Follows
        /\ threads \in Seq(InP!ThreadRecord) /\ thread \in [Procs -> Nat]
    BY <1>0, <1>1, Types DEF InboundStep
  <2>1. \A q \in Procs \ {p} : pc'[q] = pc[q] /\ thread'[q] = thread[q]
    BY <1>0, <2>0, OthersWait
  <2>2. \A t : Named(t)' => Named(t) \/ (t = thread[p] /\ pc[p] = "insert" /\ ~(UNCHANGED mapping))
    BY <1>1, NamesGrow DEF Named
  <2>3. \A t : Named(t) => t \in 1 .. Len(threads)
    BY <2>0 DEF Named, ConnectorInv, OwnThreads, InP!Own
  <2>4. \A q \in Procs : Making(q) => thread[q] \in 1 .. Len(threads)
    BY <1>0, <2>0 DEF Making, HalvesInv, InP!RouteInv, InP!Routed,
                      InP!HoldsReady, InP!Ready, InP!Own
  <2>5. ASSUME Making(p)', NEW t, t = thread'[p]
        PROVE  ~Named(t)' /\ \A q \in Procs \ {p} : Making(q) => thread[q] # t
    <3>1. UNCHANGED mapping
      BY <1>0, <2>0, <2>5, InboundMoves
    <3>2. Named(t)' => Named(t)
      BY <2>2, <3>1
    <3>3. CASE Making(p) /\ t = thread[p]
      BY <1>0, <3>2, <3>3 DEF Unshared
    <3>4. CASE t = Len(threads) + 1
      <4>1. t \notin 1 .. Len(threads)
        BY <2>0, <3>4
      <4> QED
        BY <2>3, <2>4, <3>2, <4>1
    <3> QED
      BY <1>0, <2>0, <2>5, <3>3, <3>4, InboundMoves
  <2>6. ASSUME NEW q \in Procs \ {p}, Making(q)', NEW t, t = thread'[q]
        PROVE  Making(q) /\ t = thread[q] /\ ~Named(t)'
    <3>1. pc'[q] = pc[q] /\ t = thread[q]
      BY <2>1, <2>6
    <3>2. Making(q)
      BY <2>6, <3>1 DEF Making
    <3>3. ~Named(t) /\ (Making(p) => t # thread[p])
      BY <1>0, <3>1, <3>2 DEF Unshared
    <3>4. pc[p] = "insert" => t # thread[p]
      BY <3>3 DEF Making
    <3> QED
      BY <2>2, <3>1, <3>2, <3>3, <3>4
  <2>7. ASSUME NEW q \in Procs, Making(q)' PROVE ~Named(thread[q])'
    BY <2>5, <2>6, <2>7
  <2>8. ASSUME NEW q \in Procs, NEW r \in Procs \ {q}, Making(q)', Making(r)'
        PROVE  thread'[r] # thread'[q]
    <3>1. CASE q = p
      BY <2>5, <2>6, <2>8, <3>1
    <3>2. CASE r = p
      BY <2>5, <2>6, <2>8, <3>2
    <3>3. CASE q # p /\ r # p
      BY <1>0, <2>6, <2>8, <3>3 DEF Unshared
    <3> QED
      BY <3>1, <3>2, <3>3
  <2> QED
    BY <2>7, <2>8 DEF Unshared
<1>2. CASE \A p \in Procs : ~InboundStep(p)
  <2>1. UNCHANGED mapped
    BY <1>2, NamesStay
  <2>2. \A q \in Procs : Making(q)' => Making(q) /\ thread'[q] = thread[q]
    BY <1>2, HoldersStay DEF Making
  <2> QED
    BY <1>0, <2>1, <2>2 DEF Unshared, Named
<1> QED
  BY <1>1, <1>2

LEMMA KnownThreadsStay == ConnectorInv /\ HalvesInv' /\ Next => KnownThreads'
<1> SUFFICES ASSUME ConnectorInv, HalvesInv', Next PROVE KnownThreads'
  OBVIOUS
<1>0. HalvesInv /\ KnownThreads
  BY DEF ConnectorInv
<1>1. ASSUME NEW p \in Procs, InboundStep(p) PROVE KnownThreads'
  <2>0. In!Worker(p) /\ pc[p] # "load"
    BY <1>1 DEF InboundStep
  <2>1. \A q \in Procs \ {p} : pc'[q] = pc[q] /\ thread'[q] = thread[q]
    BY <1>0, <2>0, OthersWait
  <2>2. \A t : Named(t) => Named(t)'
    BY <1>1, NamesGrow DEF Named
  <2>3. \A c \in Chats : mapping'[c] # NoRow => mapping'[c].thread \in mapped'[c]
    BY DEF HalvesInv, OutP!OrderInv, OutP!RowsMapped
  <2>4. ASSUME NEW q \in Procs, Using(q)' PROVE Named(thread[q])'
    <3>1. CASE q = p
      <4>1. CASE Using(p) /\ thread'[p] = thread[p]
        BY <1>0, <2>2, <3>1, <4>1 DEF KnownThreads, Named
      <4>2. CASE \E c \in Chats : mapping'[c] # NoRow /\ thread'[p] = mapping'[c].thread
        BY <2>3, <3>1, <4>2 DEF Named
      <4> QED
        BY <1>0, <2>0, <2>4, <3>1, <4>1, <4>2, InboundMoves
    <3>2. CASE q # p
      BY <1>0, <2>1, <2>2, <2>4, <3>2 DEF KnownThreads, Using, Named
    <3> QED
      BY <3>1, <3>2
  <2>5. ASSUME NEW i \in DOMAIN posts' PROVE Named(posts[i].thread)'
    <3>1. CASE UNCHANGED posts
      BY <1>0, <2>2, <3>1 DEF KnownThreads, Named
    <3>2. CASE Using(p) /\ posts' = Append(posts, [thread |-> thread[p], update |-> cur[p]])
      <4>1. /\ posts \in Seq(InP!PostRecord)
            /\ [thread |-> thread[p], update |-> cur[p]] \in InP!PostRecord
        BY <1>0, Types DEF HalvesInv, InP!TypeInv, InP!TypeOK, InP!LocalTypes, InP!PostRecord
      <4>2. (i \in DOMAIN posts /\ posts'[i] = posts[i]) \/ posts'[i].thread = thread[p]
        BY <3>2, <4>1, AppendProperties
      <4> QED
        BY <1>0, <2>2, <3>2, <4>2 DEF KnownThreads, Named
    <3> QED
      BY <1>0, <2>0, <3>1, <3>2, InboundMoves
  <2> QED
    BY <2>4, <2>5 DEF KnownThreads
<1>2. CASE \A p \in Procs : ~InboundStep(p)
  <2>1. UNCHANGED <<mapped, posts>>
    BY <1>2, NamesStay
  <2>2. \A q \in Procs : Using(q)' => Using(q) /\ thread'[q] = thread[q]
    BY <1>2, HoldersStay DEF Using
  <2> QED
    BY <1>0, <2>1, <2>2 DEF KnownThreads, Named
<1> QED
  BY <1>1, <1>2

LEMMA OwnThreadsStay == ConnectorInv /\ HalvesInv' /\ Next => OwnThreads'
<1> SUFFICES ASSUME ConnectorInv, HalvesInv', Next PROVE OwnThreads'
  OBVIOUS
<1>1. \A c \in Chats : \A t : InP!Own(t, c) => InP!Own(t, c)'
  <2>1. [InP!Next]_InP!vars
    BY StepOfHalves, InboundNext
  <2>2. CASE InP!Next
    BY <2>2, InAssumption, InP!ReadyStays DEF ConnectorInv, HalvesInv
  <2>3. CASE UNCHANGED InP!vars
    BY <2>3 DEF InP!vars, InP!service, InP!Own
  <2> QED
    BY <2>1, <2>2, <2>3
<1>2. ASSUME NEW c \in Chats, NEW t \in mapped'[c] PROVE InP!Own(t, c)'
  <2>1. CASE t \in mapped[c]
    BY <1>1, <2>1 DEF ConnectorInv, OwnThreads
  <2>2. CASE t \notin mapped[c]
    <3>1. PICK p \in Procs : InboundStep(p)
      BY <2>2, NamesStay
    <3>2. mapping'[c] # NoRow /\ t = mapping'[c].thread
      BY <2>2, <3>1, NamesGrow
    <3> QED
      BY <3>2 DEF HalvesInv, InP!RouteInv, InP!RowsReady, InP!Ready
  <2> QED
    BY <2>1, <2>2
<1> QED
  BY <1>2 DEF OwnThreads

LEMMA StepConnector == ConnectorInv /\ [Next]_vars => ConnectorInv'
<1> SUFFICES ASSUME ConnectorInv, [Next]_vars PROVE ConnectorInv'
  OBVIOUS
<1>1. HalvesInv'
  BY HalvesStay
<1>2. CASE Next
  BY <1>1, <1>2, TogetherStays, BoundedStays, UnsharedStays, KnownThreadsStay, OwnThreadsStay
     DEF ConnectorInv
<1>3. CASE UNCHANGED vars
  BY <1>1, <1>3 DEF ConnectorInv, Together, Running, Bounded, NoStream, Unshared, KnownThreads,
       OwnThreads, Named, Making, Using, InP!Own, vars, inboundOnly, outboundOnly
<1> QED
  BY <1>2, <1>3

LEMMA InitConnector == Init => ConnectorInv
<1> SUFFICES ASSUME Init PROVE ConnectorInv
  OBVIOUS
<1>1. In!Init /\ Out!Init
  BY DEF Init
<1>2. InP!TypeInv /\ InP!RouteInv
  BY <1>1, SameInbound, InAssumption, InP!InitType, InP!InitRoute
<1>3. OutP!OrderInv
  BY <1>1, SameOutbound, OutAssumption, OutP!InitOrder
<1> QED
  BY <1>1, <1>2, <1>3, ConnectorAssumption
     DEF In!Init, Out!Init, ConnectorInv, HalvesInv, Together, Running, Bounded, NoStream,
         Unshared, KnownThreads, OwnThreads, Named, Making, Using

LEMMA AlwaysConnected == Spec => []ConnectorInv
  BY InitConnector, StepConnector, PTL DEF Spec

-----------------------------------------------------------------------------
(* The theorems *)

LEMMA EveryStepOfHalves ==
  ConnectorInv /\ [Next]_vars => [In!Next]_In!vars /\ [Out!Next]_Out!vars
<1>1. ASSUME UNCHANGED vars PROVE UNCHANGED In!vars /\ UNCHANGED Out!vars
  BY <1>1 DEF vars, inboundOnly, outboundOnly, In!vars, In!telegram, In!service, In!database,
       In!locals, Out!vars, Out!service, Out!telegram, Out!rows, Out!world, Out!wakeup,
       Out!locals, Out!history, Out!token
<1> QED
  BY <1>1, StepOfHalves

\* What the outbound loops, the users and the agents do is allowed to the
\* environment of the inbound loops: whatever was proved of Inbound holds here.
THEOREM ImplementsInbound == Spec => InboundSpec
<1>1. Init => In!Init
  BY DEF Init
<1>2. ConnectorInv /\ [Next]_vars => [In!Next]_In!vars
  BY EveryStepOfHalves
<1> QED
  BY <1>1, <1>2, AlwaysConnected, PTL DEF Spec, InboundSpec, In!Spec

\* What the inbound loops, the users and the agents do is allowed to the
\* environment of the outbound loops: whatever was proved of Outbound holds here.
THEOREM ImplementsOutbound == Spec => OutboundSpec
<1>1. Init => Out!Init
  BY DEF Init
<1>2. ConnectorInv /\ [Next]_vars => [Out!Next]_Out!vars
  BY EveryStepOfHalves
<1> QED
  BY <1>1, <1>2, AlwaysConnected, PTL DEF Spec, OutboundSpec, Out!Spec

\* An agent's words reach only the user for whose messages their thread was made.
THEOREM OnlyAskerIsAnswered == Spec => []PartsReachAsker
<1>1. ConnectorInv => PartsReachAsker
  <2> SUFFICES ASSUME ConnectorInv, NEW i \in DOMAIN sent
               PROVE  threads[outbox[sent[i].message].thread].chat = sent[i].chat
    BY DEF PartsReachAsker
  <2>1. outbox[sent[i].message].thread \in mapped[sent[i].chat] /\ sent[i].chat \in Chats
    <3>1. OutP!OrderInv
      BY DEF ConnectorInv, HalvesInv
    <3>2. outbox[sent[i].message].thread \in mapped[sent[i].chat]
      BY <3>1 DEF OutP!OrderInv, OutP!InOrder
    <3>3. sent \in Seq(OutP!Part)
      BY <3>1 DEF OutP!OrderInv, OutP!TypeInv, OutP!TypeOK
    <3>4. sent[i] \in OutP!Part
      BY <3>3
    <3> QED
      BY <3>2, <3>4 DEF OutP!Part
  <2> QED
    BY <2>1 DEF ConnectorInv, OwnThreads, InP!Own
<1> QED
  BY <1>1, AlwaysConnected, PTL

-----------------------------------------------------------------------------
(* Answers: AnswersDelivered.                                              *)
(*                                                                         *)
(* The inbound half keeps the row of every thread that was posted to and   *)
(* is not degraded (PostsLast), and the outbound half gives up no reply    *)
(* whose thread is in a row (ReplyReachesChat).  What is between them: an  *)
(* answer is a reply in a thread that was posted to.                       *)

Answers ==
  \A m \in answers :
    /\ m \in DOMAIN outbox /\ outbox[m].kind = "reply"
    /\ \E i \in DOMAIN posts : posts[i].thread = outbox[m].thread

\* No step takes back a message or a post.
LEMMA HistoriesGrow ==
  ASSUME ConnectorInv, [Next]_vars
  PROVE  /\ DOMAIN outbox \subseteq DOMAIN outbox'
         /\ \A m \in DOMAIN outbox : outbox'[m] = outbox[m]
         /\ DOMAIN posts \subseteq DOMAIN posts'
         /\ \A i \in DOMAIN posts : posts'[i] = posts[i]
<1>1. HalvesInv /\ [InP!Next]_InP!vars /\ [OutP!Next]_OutP!vars
  <2>1. CASE Next
    BY <2>1, StepOfHalves, InboundNext, OutboundNext DEF ConnectorInv
  <2>2. CASE UNCHANGED vars
    BY <2>2 DEF ConnectorInv, vars, inboundOnly, outboundOnly, InP!vars, InP!telegram,
         InP!service, InP!database, InP!locals, OutP!vars, OutP!service, OutP!telegram,
         OutP!rows, OutP!world, OutP!wakeup, OutP!locals, OutP!history, OutP!token
  <2> QED
    BY <2>1, <2>2
<1>2. /\ DOMAIN outbox \subseteq DOMAIN outbox'
      /\ \A m \in DOMAIN outbox : outbox'[m] = outbox[m]
  <2>1. CASE OutP!Next
    BY <1>1, <2>1, OutAssumption, OutP!Grows DEF HalvesInv, OutP!OrderInv
  <2>2. CASE UNCHANGED OutP!vars
    BY <2>2 DEF OutP!vars, OutP!service
  <2> QED
    BY <1>1, <2>1, <2>2
<1>3. /\ DOMAIN posts \subseteq DOMAIN posts'
      /\ \A i \in DOMAIN posts : posts'[i] = posts[i]
  <2>1. CASE UNCHANGED posts
    BY <2>1
  <2>2. ASSUME NEW p \in Procs,
               posts' = Append(posts, [thread |-> thread[p], update |-> cur[p]])
        PROVE  /\ DOMAIN posts \subseteq DOMAIN posts'
               /\ \A i \in DOMAIN posts : posts'[i] = posts[i]
    <3>1. PICK r : r = [thread |-> thread[p], update |-> cur[p]]
      OBVIOUS
    <3>2. /\ Len(posts) \in Nat
          /\ DOMAIN posts = 1 .. Len(posts)
          /\ DOMAIN posts' = 1 .. Len(posts) + 1
          /\ \A i \in DOMAIN posts : posts'[i] = posts[i]
      BY <1>1, <2>2, <3>1, InAssumption, InP!AppendPost DEF HalvesInv
    <3> QED
      BY <3>2
  <2>3. CASE InP!Next
    BY <1>1, <2>1, <2>2, <2>3, InAssumption, InP!History DEF HalvesInv, InP!Adds
  <2>4. CASE UNCHANGED InP!vars
    BY <2>1, <2>4 DEF InP!vars, InP!service
  <2> QED
    BY <1>1, <2>3, <2>4
<1> QED
  BY <1>2, <1>3

LEMMA AnswersStay == ConnectorInv /\ Answers /\ [Next]_vars => Answers'
<1> SUFFICES ASSUME ConnectorInv, Answers, [Next]_vars, NEW m \in answers'
             PROVE  /\ m \in DOMAIN outbox' /\ outbox'[m].kind = "reply"
                    /\ \E i \in DOMAIN posts' : posts'[i].thread = outbox'[m].thread
  BY DEF Answers
<1>1. CASE m \in answers
  BY <1>1, HistoriesGrow DEF Answers
<1>2. CASE m \notin answers
  <2>1. PostMessage
    BY <1>2 DEF Next, Process, World, InboundStep, StartLoops, OutboundStep, Stop, Arrive,
         Degrade, ToggleBlock, answering, vars
  <2>2. PICK i \in DOMAIN posts, b \in Bodies :
          /\ outbox' = Append(outbox, [kind |-> "reply", thread |-> posts[i].thread,
                                       parts |-> b])
          /\ answers' \subseteq answers \cup {Len(outbox')}
    BY <1>2, <2>1 DEF PostMessage
  <2>3. PICK r : r = [kind |-> "reply", thread |-> posts[i].thread, parts |-> b]
    OBVIOUS
  <2>4. outbox \in Seq(OutP!Message) /\ r \in OutP!Message
    <3>1. posts[i].thread \in Nat
      <4>1. posts[i] \in InP!PostRecord
        BY Types DEF ConnectorInv
      <4> QED
        BY <4>1 DEF InP!PostRecord
    <3>2. b \in Seq(OutP!PartKinds)
      BY ConnectorAssumption DEF OutP!PartKinds
    <3> QED
      BY <2>3, <3>1, <3>2
         DEF OutP!Message, OutP!MessageKinds, ConnectorInv, HalvesInv, OutP!OrderInv,
             OutP!TypeInv, OutP!TypeOK
  <2>5. /\ Len(outbox) \in Nat
        /\ outbox' \in Seq(OutP!Message)
        /\ Len(outbox') = Len(outbox) + 1
        /\ outbox'[Len(outbox) + 1] = r
    BY <2>2, <2>3, <2>4, AppendProperties
  <2>6. m = Len(outbox') /\ m \in DOMAIN outbox' /\ outbox'[m] = r
    BY <1>2, <2>2, <2>5
  <2>7. posts' = posts
    BY <2>1 DEF PostMessage, inboundOnly
  <2> QED
    BY <2>3, <2>6, <2>7
<1> QED
  BY <1>1, <1>2

LEMMA InboundRuns == Spec => InP!Spec
<1>1. Init => InP!Init
  BY SameInbound DEF Init
<1>2. ConnectorInv /\ [Next]_vars => [InP!Next]_InP!vars
  BY EveryStepOfHalves, InboundNext
<1> QED
  BY <1>1, <1>2, AlwaysConnected, PTL DEF Spec, InP!Spec

LEMMA OutboundRuns == Spec => OutP!Spec
<1>1. Init => OutP!Init
  BY SameOutbound DEF Init
<1>2. ConnectorInv /\ [Next]_vars => [OutP!Next]_OutP!vars
  BY EveryStepOfHalves, OutboundNext
<1> QED
  BY <1>1, <1>2, AlwaysConnected, PTL DEF Spec, OutP!Spec

\* With one process an agent's answer, in a thread the platform accepts, to a
\* user who never blocks the bot is never acknowledged undelivered, unless an
\* outbound call failed: neither loop alone could promise it.
THEOREM AnswersReachTheUser ==
  ASSUME NEW p \in Procs, Procs = {p}
  PROVE  Spec => []AnswersDelivered
<1>1. Spec => []InP!PostsLast
  BY InboundRuns, InAssumption, InP!PostsLastInvariant, PTL
<1>2. Spec => []OutP!ReplyReachesChat
  <2>1. \A w \in Procs : [q \in Procs |-> Chats][w] = Chats
    OBVIOUS
  <2>2. OutP!Spec => []OutP!ReplyReachesChat
    BY <2>1, OutAssumption, OutP!RepliesReachTheChat
  <2> QED
    BY <2>2, OutboundRuns, PTL
<1>3. Spec => []Answers
  <2>1. Init => Answers
    BY DEF Init, Answers
  <2> QED
    BY <2>1, AnswersStay, AlwaysConnected, PTL DEF Spec
<1>4. ConnectorInv /\ InP!PostsLast /\ OutP!ReplyReachesChat /\ Answers => AnswersDelivered
  <2> SUFFICES ASSUME ConnectorInv, InP!PostsLast, OutP!ReplyReachesChat, Answers,
                      outFaults = 0, NEW m \in acked \cap answers,
                      threads[outbox[m].thread].chat \notin MayBlock
               PROVE  Given(m)
    BY DEF AnswersDelivered
  <2>1. PICK t : t = outbox[m].thread
    OBVIOUS
  <2>2. PICK c : c = threads[t].chat
    OBVIOUS
  <2>3. PICK i \in DOMAIN posts : posts[i].thread = t
    BY <2>1 DEF Answers
  <2>4. c \in Chats
    <3>1. t \in DOMAIN threads
      BY <2>3 DEF ConnectorInv, HalvesInv, InP!RouteInv, InP!PostsReady, InP!Ready, InP!Own
    <3>2. threads[t] \in InP!ThreadRecord
      BY <3>1, Types DEF ConnectorInv
    <3> QED
      BY <2>2, <3>2 DEF InP!ThreadRecord
  <2>5. CASE threads[t].degraded
    BY <2>1, <2>5 DEF Given
  <2>6. CASE mapping[c] # NoRow /\ mapping[c].thread = t
    <3>1. CASE \E k \in DOMAIN outbox[m].parts : outbox[m].parts[k] = "bad"
      BY <3>1 DEF Given
    <3>2. CASE \A k \in DOMAIN outbox[m].parts : outbox[m].parts[k] # "bad"
      <4>1. OutP!Delivered(m)
        BY <2>1, <2>2, <2>4, <2>6, <3>2 DEF Answers, OutP!ReplyReachesChat
      <4>2. Out!Delivered(m)
        BY <4>1 DEF OutP!Delivered, Out!Delivered, OutP!Got, Out!Got
      <4> QED
        BY <4>2 DEF Given
    <3> QED
      BY <3>1, <3>2
  <2> QED
    BY <2>2, <2>3, <2>5, <2>6 DEF InP!PostsLast, InP!Listed
<1> QED
  BY <1>1, <1>2, <1>3, <1>4, AlwaysConnected, PTL
=============================================================================
