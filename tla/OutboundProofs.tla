--------------------------- MODULE OutboundProofs --------------------------
(***************************************************************************)
(* Proofs about Outbound, for any workers, chats and installations, any    *)
(* messages and any bounds: types, wake-ups, what a rejection may lose and *)
(* what a fault may repeat.                                                *)
(***************************************************************************)
EXTENDS Outbound, SequenceTheorems, FiniteSetTheorems, TLAPS

-----------------------------------------------------------------------------
(* Types *)

\* The points of the code at which a message is in hand.
Busy == {"find", "deliver", "mark", "log", "ack"}

Holds(w) ==
  /\ batch[w] \subseteq DOMAIN outbox
  /\ pc[w] \in Busy => current[w] \in batch[w]
  /\ pc[w] \in {"deliver", "mark"} => dest[w] \in Chats

\* Types alone are not inductive: a part needs a message of the list and a chat.
TypeInv == TypeOK /\ \A w \in Workers : Holds(w)

LEMMA InitType == Init => TypeInv
  BY OutboundAssumption DEF Init, TypeInv, TypeOK, Holds, Busy, PCs

LEMMA CurrentPosted ==
  ASSUME TypeInv, NEW w \in Workers, pc[w] \in Busy
  PROVE  /\ current[w] \in batch[w]
         /\ current[w] \in DOMAIN outbox
         /\ current[w] \in Nat
         /\ Record(w) \in Message
<1>1. batch[w] \in SUBSET Nat /\ batch[w] \subseteq DOMAIN outbox
  BY DEF TypeInv, TypeOK, Holds
<1>2. current[w] \in batch[w] /\ current[w] \in Nat
  BY <1>1 DEF TypeInv, Holds
<1>3. outbox \in Seq(Message)
  BY DEF TypeInv, TypeOK
<1> QED
  BY <1>1, <1>2, <1>3 DEF Record

\* blocked_at of an existing row changes, and nothing else.
LEMMA RowFlag ==
  ASSUME NEW c \in Chats, NEW b \in BOOLEAN,
         row \in [Chats -> Row \cup {NoRow}], row[c] # NoRow
  PROVE  [row EXCEPT ![c].blocked = b] \in [Chats -> Row \cup {NoRow}]
<1>1. row[c] \in Row
  OBVIOUS
<1>2. [row[c] EXCEPT !.blocked = b] \in Row
  BY <1>1 DEF Row
<1> QED
  BY <1>2

\* A message that is posted has its type and keeps its place.
LEMMA AppendPosted ==
  ASSUME outbox \in Seq(Message), NEW r \in Message, outbox' = Append(outbox, r)
  PROVE  /\ outbox' \in Seq(Message)
         /\ Len(outbox) \in Nat
         /\ DOMAIN outbox = 1 .. Len(outbox)
         /\ DOMAIN outbox' = 1 .. Len(outbox) + 1
         /\ \A m \in DOMAIN outbox : outbox'[m] = outbox[m]
  BY AppendProperties

LEMMA PostedIsMessage ==
  ASSUME TypeOK, PostMessage
  PROVE  \E r \in Message : outbox' = Append(outbox, r)
<1>1. CASE \E c \in Chats, b \in Bodies : \E t \in mapped[c] :
             outbox' = Append(outbox, [kind |-> "reply", thread |-> t, parts |-> b])
  <2>0. PICK c \in Chats, b \in Bodies : \E t \in mapped[c] :
          outbox' = Append(outbox, [kind |-> "reply", thread |-> t, parts |-> b])
    BY <1>1
  <2>1. PICK t \in mapped[c] :
          outbox' = Append(outbox, [kind |-> "reply", thread |-> t, parts |-> b])
    BY <2>0
  <2>2. t \in Nat /\ b \in Seq(PartKinds)
    BY OutboundAssumption DEF TypeOK
  <2> QED
    BY <2>1, <2>2 DEF Message, MessageKinds
<1>2. CASE outbox' = Append(outbox, [kind |-> "other", thread |-> 0, parts |-> <<>>])
  <2>1. <<>> \in Seq(PartKinds)
    OBVIOUS
  <2> QED
    BY <1>2, <2>1 DEF Message, MessageKinds
<1> QED
  BY <1>1, <1>2 DEF PostMessage

\* A part that arrives has its type and keeps its place.
LEMMA ReceivePart ==
  ASSUME TypeInv, NEW w \in Workers, Sending(w), Receive(w)
  PROVE  /\ sent' \in Seq(Part)
         /\ Len(sent) \in Nat
         /\ DOMAIN sent = 1 .. Len(sent)
         /\ DOMAIN sent' = 1 .. Len(sent) + 1
         /\ \A i \in DOMAIN sent : sent'[i] = sent[i]
         /\ sent'[Len(sent) + 1] =
              [message |-> current[w], part |-> part[w], chat |-> dest[w]]
<1> DEFINE r == [message |-> current[w], part |-> part[w], chat |-> dest[w]]
<1>1. pc[w] \in Busy /\ dest[w] \in Chats
  BY DEF Sending, TypeInv, Holds, Busy
<1>2. current[w] \in Nat
  BY <1>1, CurrentPosted
<1>3. part[w] \in Nat /\ sent \in Seq(Part)
  BY DEF TypeInv, TypeOK
<1>4. r \in Part
  BY <1>1, <1>2, <1>3 DEF Part
<1>5. sent' = Append(sent, r)
  BY DEF Receive
<1> HIDE DEF r
<1>6. /\ sent' \in Seq(Part)
      /\ Len(sent) \in Nat
      /\ DOMAIN sent = 1 .. Len(sent)
      /\ DOMAIN sent' = 1 .. Len(sent) + 1
      /\ \A i \in DOMAIN sent : sent'[i] = sent[i]
      /\ sent'[Len(sent) + 1] = r
  BY <1>3, <1>4, <1>5, AppendProperties
<1> QED
  BY <1>6 DEF r

\* The ways to leave a message keep the types of the locals.
LocalTypes ==
  /\ pc \in [Workers -> PCs]
  /\ batch \in [Workers -> SUBSET Nat]
  /\ current \in [Workers -> Nat]
  /\ dest \in [Workers -> Chats \cup {NoRow}]
  /\ part \in [Workers -> Nat]
  /\ attempts \in [Workers -> 0 .. RetryMax]
  /\ unauthorized \in [Workers -> BOOLEAN]

LEMMA LeaveType ==
  ASSUME LocalTypes, NEW w \in Workers
  PROVE  /\ Return(w) => LocalTypes'
         /\ NextMessage(w) => LocalTypes'
<1> USE OutboundAssumption DEF LocalTypes, DropMessage, Goto, PCs
<1>1. Return(w) => LocalTypes'
  BY DEF Return
<1>2. NextMessage(w) => LocalTypes'
  <2> SUFFICES ASSUME NextMessage(w) PROVE LocalTypes'
    OBVIOUS
  <2>1. batch[w] \ {current[w]} \in SUBSET Nat
    OBVIOUS
  <2> QED
    BY <2>1 DEF NextMessage
<1> QED
  BY <1>1, <1>2

SharedTypes ==
  /\ outbox \in Seq(Message)
  /\ acked \in SUBSET Nat
  /\ userBlocked \in [Chats -> BOOLEAN]
  /\ limited \in [Chats -> BOOLEAN]
  /\ sent \in Seq(Part)
  /\ row \in [Chats -> Row \cup {NoRow}]
  /\ mapped \in [Chats -> SUBSET Threads]
  /\ trigger \in [Workers -> BOOLEAN]
  /\ stream \in [Workers -> BOOLEAN]
  /\ rejected \in [Workers -> BOOLEAN]
  /\ gaveUp \in SUBSET Nat
  /\ silent \in SUBSET Nat
  /\ notified \in [Workers -> SUBSET Nat]
  /\ rejections \in Nat
  /\ faults \in Nat

LEMMA TypeParts == TypeOK <=> LocalTypes /\ SharedTypes
  BY DEF TypeOK, LocalTypes, SharedTypes

LEMMA FaultType ==
  ASSUME faults \in Nat, Fault \/ NoFault
  PROVE  faults' \in Nat
  BY OutboundAssumption DEF Fault, NoFault

LEMMA RejectType ==
  ASSUME rejected \in [Workers -> BOOLEAN], rejections \in Nat,
         NEW w \in Workers, Reject(w)
  PROVE  rejected' \in [Workers -> BOOLEAN] /\ rejections' \in Nat
<1>1. rejected' \in [Workers -> BOOLEAN]
  BY DEF Reject
<1>2. CASE rejected[w]
  BY <1>1, <1>2 DEF Reject
<1>3. CASE ~rejected[w]
  BY <1>1, <1>3 DEF Reject
<1> QED
  BY <1>2, <1>3

LEMMA EnvironmentType == TypeInv /\ Environment => TypeOK'
<1> SUFFICES ASSUME TypeInv, Environment PROVE LocalTypes' /\ SharedTypes'
  BY TypeParts DEF LocalTypes, SharedTypes, TypeOK
<1>0. LocalTypes /\ SharedTypes
  BY TypeParts DEF TypeInv
<1> USE <1>0 DEF SharedTypes, service, telegram, rows, world, wakeup, locals, history,
                 token
<1>1. CASE PostMessage
  <2>1. outbox' \in Seq(Message) /\ Len(outbox) \in Nat
    BY <1>1, PostedIsMessage, AppendPosted DEF TypeInv
  <2>2. trigger' \in [Workers -> BOOLEAN] /\ notified' \in [Workers -> SUBSET Nat]
    BY <1>1, <2>1 DEF PostMessage, Announce
  <2> QED
    BY <1>1, <2>1, <2>2 DEF PostMessage, LocalTypes
<1>2. CASE ToggleBlock \/ Limit
  BY <1>2, OutboundAssumption DEF ToggleBlock, Limit, LocalTypes
<1>3. CASE InboundUpdatesRow
  <2>1. PICK c \in Chats : RowInserted(c) \/ RowDeleted(c) \/ BlockCleared(c)
    BY <1>3 DEF InboundUpdatesRow
  <2>2. /\ row' \in [Chats -> Row \cup {NoRow}]
        /\ mapped' \in [Chats -> SUBSET Threads]
    <3>1. CASE RowInserted(c)
      BY <3>1 DEF RowInserted, Row
    <3>2. CASE RowDeleted(c)
      BY <3>2 DEF RowDeleted
    <3>3. CASE BlockCleared(c)
      BY <3>3, RowFlag DEF BlockCleared
    <3> QED
      BY <2>1, <3>1, <3>2, <3>3
  <2> QED
    BY <1>3, <2>2 DEF InboundUpdatesRow, LocalTypes
<1>4. ASSUME NEW w \in Workers, InboundRejected(w) \/ InboundSucceeds(w)
      PROVE  LocalTypes' /\ SharedTypes'
  <2>1. rejected' \in [Workers -> BOOLEAN] /\ rejections' \in Nat
    BY <1>4, RejectType DEF InboundRejected, InboundSucceeds
  <2> QED
    BY <1>4, <2>1 DEF InboundRejected, InboundSucceeds, LocalTypes
<1>5. CASE \E w \in Workers : Subscribe(w) \/ StreamEnds(w)
  BY <1>5, FaultType DEF Subscribe, StreamEnds, LocalTypes
<1>6. ASSUME NEW w \in Workers, Stop(w) PROVE LocalTypes' /\ SharedTypes'
  <2>1. LocalTypes'
    BY <1>6, OutboundAssumption DEF Stop, LocalTypes, DropMessage, PCs
  <2>2. faults' \in Nat
    BY <1>6, FaultType DEF Stop
  <2> QED
    BY <1>6, <2>1, <2>2 DEF Stop
<1> QED
  BY <1>1, <1>2, <1>3, <1>4, <1>5, <1>6 DEF Environment

LEMMA WorkerType ==
  ASSUME TypeInv, NEW w \in Workers, Worker(w)
  PROVE  TypeOK'
<1> SUFFICES LocalTypes' /\ SharedTypes'
  BY TypeParts DEF LocalTypes, SharedTypes, TypeOK
<1>0. LocalTypes /\ SharedTypes
  BY TypeParts DEF TypeInv
<1> USE <1>0, OutboundAssumption
        DEF SharedTypes, service, telegram, rows, world, wakeup, locals, history, token
<1>1. CASE Start(w) \/ Tick(w) \/ Wake(w)
  BY <1>1 DEF Start, Tick, Wake, Notify, Goto, LocalTypes, PCs
<1>2. CASE GetUnackedMessages(w)
  <2>1. faults' \in Nat
    BY <1>2, FaultType DEF GetUnackedMessages
  <2>2. LocalTypes'
    <3>1. CASE Return(w)
      BY <3>1, LeaveType
    <3>2. CASE ~Return(w)
      <4>1. Unacked \in SUBSET Nat
        BY DEF Unacked
      <4> QED
        BY <1>2, <3>2, <4>1 DEF GetUnackedMessages, LocalTypes, Goto, PCs
    <3> QED
      BY <3>1, <3>2
  <2> QED
    BY <1>2, <2>1, <2>2 DEF GetUnackedMessages
<1>3. CASE FinishRun(w)
  BY <1>3, LeaveType DEF FinishRun
<1>4. CASE TakeMessage(w) \/ PassOver(w)
  <2>1. CASE TakeMessage(w)
    <3>1. \A m \in Upcoming(w) : m \in Nat
      BY DEF Upcoming, LocalTypes
    <3> QED
      BY <2>1, <3>1 DEF TakeMessage, Goto, LocalTypes, PCs
  <2>2. CASE PassOver(w)
    BY <2>2 DEF PassOver, Goto, LocalTypes, PCs
  <2> QED
    BY <1>4, <2>1, <2>2
<1>5. CASE FindMapping(w)
  <2>1. faults' \in Nat
    BY <1>5, FaultType DEF FindMapping
  <2>2. current[w] \in Nat
    BY <1>5, CurrentPosted DEF FindMapping, Busy
  <2>3. gaveUp' \in SUBSET Nat
    <3>1. gaveUp' = gaveUp \/ gaveUp' = gaveUp \cup {current[w]}
      BY <1>5 DEF FindMapping
    <3> QED
      BY <2>2, <3>1
  <2>4. LocalTypes'
    <3>1. CASE Return(w)
      BY <3>1, LeaveType
    <3>2. CASE ~Return(w)
      <4>1. \A c \in MappedTo(w, Record(w).thread) : c \in Chats
        BY DEF MappedTo
      <4> QED
        BY <1>5, <3>2, <4>1 DEF FindMapping, Goto, LocalTypes, PCs
    <3> QED
      BY <3>1, <3>2
  <2> QED
    BY <1>5, <2>1, <2>3, <2>4 DEF FindMapping
<1>6. CASE FinishDelivery(w) \/ SendBlocked(w) \/ SendLimited(w)
  BY <1>6 DEF FinishDelivery, SendBlocked, SendLimited, Goto, LocalTypes, PCs, vars
<1>7. CASE SendPart(w)
  <2>1. sent' \in Seq(Part)
    BY <1>7, ReceivePart DEF SendPart
  <2>2. LocalTypes'
    BY <1>7 DEF SendPart, LocalTypes
  <2> QED
    BY <1>7, <2>1, <2>2 DEF SendPart
<1>8. CASE SendFails(w) \/ SendTimesOut(w)
  <2>1. faults' \in Nat
    BY <1>8, FaultType DEF SendFails, SendTimesOut
  <2>2. sent' \in Seq(Part)
    BY <1>8, ReceivePart DEF SendFails, SendTimesOut
  <2>3. LocalTypes'
    <3>1. CASE SendFails(w)
      <4>1. CASE attempts[w] < RetryMax
        <5>1. attempts[w] + 1 \in 0 .. RetryMax
          BY <4>1 DEF LocalTypes
        <5> QED
          BY <3>1, <4>1, <5>1 DEF SendFails, LocalTypes
      <4>2. CASE ~(attempts[w] < RetryMax)
        BY <3>1, <4>2 DEF SendFails, Goto, LocalTypes, PCs
      <4> QED
        BY <4>1, <4>2
    <3>2. CASE SendTimesOut(w)
      BY <3>2, LeaveType DEF SendTimesOut
    <3> QED
      BY <1>8, <3>1, <3>2
  <2> QED
    BY <1>8, <2>1, <2>2, <2>3 DEF SendFails, SendTimesOut
<1>9. CASE SendRefused(w) \/ SendUnauthorized(w)
  <2>1. faults' \in Nat
    BY <1>9, FaultType DEF SendRefused, SendUnauthorized
  <2>2. rejected' \in [Workers -> BOOLEAN] /\ rejections' \in Nat
    BY <1>9, RejectType DEF SendRefused, SendUnauthorized
  <2>3. LocalTypes'
    BY <1>9 DEF SendRefused, SendUnauthorized, Goto, LocalTypes, PCs
  <2> QED
    BY <1>9, <2>1, <2>2, <2>3 DEF SendRefused, SendUnauthorized
<1>10. CASE MarkChatBlocked(w)
  <2>1. faults' \in Nat
    BY <1>10, FaultType DEF MarkChatBlocked
  <2>2. dest[w] \in Chats
    BY <1>10 DEF MarkChatBlocked, TypeInv, Holds
  <2>3. row' \in [Chats -> Row \cup {NoRow}]
    BY <1>10, <2>2, RowFlag DEF MarkChatBlocked
  <2> QED
    BY <1>10, <2>1, <2>3 DEF MarkChatBlocked, Goto, LocalTypes, PCs
<1>11. CASE LogOutboundFailure(w)
  <2>1. current[w] \in Nat
    BY <1>11, CurrentPosted DEF LogOutboundFailure, Busy
  <2> QED
    BY <1>11, <2>1 DEF LogOutboundFailure, Goto, LocalTypes, PCs
<1>12. CASE AckMessage(w)
  <2>1. faults' \in Nat
    BY <1>12, FaultType DEF AckMessage
  <2>2. current[w] \in Nat
    BY <1>12, CurrentPosted DEF AckMessage, Busy
  <2> QED
    BY <1>12, <2>1, <2>2, LeaveType DEF AckMessage
<1> QED
  BY <1>1, <1>2, <1>3, <1>4, <1>5, <1>6, <1>7, <1>8, <1>9, <1>10, <1>11, <1>12
     DEF Worker, Deliver
-----------------------------------------------------------------------------
(* What a step does, in the terms the invariants need *)

\* The histories only grow.
LEMMA Grows ==
  ASSUME TypeInv, Next
  PROVE  /\ DOMAIN outbox \subseteq DOMAIN outbox'
         /\ \A m \in DOMAIN outbox : outbox'[m] = outbox[m]
         /\ gaveUp \subseteq gaveUp'
         /\ \A c \in Chats : mapped[c] \subseteq mapped'[c]
<1> USE DEF service, telegram, rows, world, wakeup, locals, history, token
<1>1. CASE PostMessage
  <2>1. PICK r \in Message : outbox' = Append(outbox, r)
    BY <1>1, PostedIsMessage DEF TypeInv
  <2>2. outbox \in Seq(Message)
    BY DEF TypeInv, TypeOK
  <2>3. /\ DOMAIN outbox \subseteq DOMAIN outbox'
        /\ \A m \in DOMAIN outbox : outbox'[m] = outbox[m]
    BY <2>1, <2>2
  <2>4. UNCHANGED <<gaveUp, mapped>>
    BY <1>1 DEF PostMessage
  <2> QED
    BY <2>3, <2>4
<1>2. CASE InboundUpdatesRow
  <2>1. PICK c \in Chats : RowInserted(c) \/ RowDeleted(c) \/ BlockCleared(c)
    BY <1>2 DEF InboundUpdatesRow
  <2>2. \/ UNCHANGED mapped
        \/ \E t : mapped' = [mapped EXCEPT ![c] = @ \cup {t}]
    BY <2>1 DEF RowInserted, RowDeleted, BlockCleared
  <2>3. mapped \in [Chats -> SUBSET Threads]
    BY DEF TypeInv, TypeOK
  <2>4. \A d \in Chats : mapped[d] \subseteq mapped'[d]
    <3>1. ASSUME NEW t, mapped' = [mapped EXCEPT ![c] = @ \cup {t}], NEW d \in Chats
          PROVE  mapped[d] \subseteq mapped'[d]
      BY <2>3, <3>1
    <3> QED
      BY <2>2, <3>1
  <2>5. UNCHANGED <<outbox, gaveUp>>
    BY <1>2 DEF InboundUpdatesRow
  <2> QED
    BY <2>4, <2>5
<1>3. CASE \/ ToggleBlock \/ Limit
           \/ \E w \in Workers : \/ Stop(w) \/ Subscribe(w) \/ StreamEnds(w)
                                 \/ InboundRejected(w) \/ InboundSucceeds(w)
  BY <1>3 DEF ToggleBlock, Limit, Stop, Subscribe, StreamEnds, InboundRejected,
              InboundSucceeds
<1>4. ASSUME NEW w \in Workers, Worker(w)
      PROVE  UNCHANGED <<outbox, mapped>> /\ gaveUp \subseteq gaveUp'
  BY <1>4 DEF Worker, Deliver, Start, Tick, Wake, GetUnackedMessages, FinishRun,
              TakeMessage, PassOver, FindMapping, FinishDelivery, SendPart, SendFails,
              SendTimesOut, SendRefused, SendUnauthorized, SendLimited, SendBlocked,
              MarkChatBlocked, LogOutboundFailure, AckMessage, vars
<1> QED
  BY <1>1, <1>2, <1>3, <1>4 DEF Next, Environment

\* Only a worker at a part makes a part arrive.
LEMMA Arrives ==
  ASSUME Next
  PROVE  \/ UNCHANGED sent
         \/ \E w \in Workers : Worker(w) /\ Sending(w) /\ Receive(w)
<1> USE DEF service, telegram, rows, world, wakeup, locals, history, token
<1>1. Environment => UNCHANGED sent
  BY DEF Environment, PostMessage, InboundUpdatesRow, ToggleBlock, Limit, Stop,
         Subscribe, StreamEnds, InboundRejected, InboundSucceeds
<1>2. ASSUME NEW w \in Workers, Worker(w)
      PROVE  UNCHANGED sent \/ (Sending(w) /\ Receive(w))
  BY <1>2 DEF Worker, Deliver, Start, Tick, Wake, GetUnackedMessages, FinishRun,
              TakeMessage, PassOver, FindMapping, FinishDelivery, SendPart, SendFails,
              SendTimesOut, SendRefused, SendUnauthorized, SendLimited, SendBlocked,
              MarkChatBlocked, LogOutboundFailure, AckMessage, vars
<1> QED
  BY <1>1, <1>2 DEF Next

\* The locals of w, and the point where it is, are left alone.
Same(w) ==
  /\ batch'[w] = batch[w]
  /\ current'[w] = current[w]
  /\ dest'[w] = dest[w]
  /\ part'[w] = part[w]
  /\ pc'[w] = pc[w]

\* w works on no message.
Rests(w) == batch'[w] = {} /\ pc'[w] \notin Busy

LEMMA OthersSame ==
  ASSUME TypeInv, NEW w \in Workers, Worker(w), NEW v \in Workers, v # w
  PROVE  Same(v)
<1> USE DEF service, telegram, rows, world, wakeup, locals, history, token, Same, Goto,
            TypeInv, TypeOK
<1>1. CASE Start(w) \/ Tick(w) \/ Wake(w) \/ TakeMessage(w) \/ PassOver(w)
           \/ FindMapping(w) \/ FinishRun(w) \/ GetUnackedMessages(w)
  BY <1>1 DEF Start, Tick, Wake, TakeMessage, PassOver, FindMapping, FinishRun,
              GetUnackedMessages, Return, DropMessage
<1>2. CASE Deliver(w)
  BY <1>2 DEF Deliver, FinishDelivery, SendPart, SendFails, SendTimesOut, SendRefused,
              SendUnauthorized, SendLimited, SendBlocked, Return, DropMessage, vars
<1>3. CASE MarkChatBlocked(w) \/ LogOutboundFailure(w) \/ AckMessage(w)
  BY <1>3 DEF MarkChatBlocked, LogOutboundFailure, AckMessage, NextMessage, DropMessage
<1> QED
  BY <1>1, <1>2, <1>3 DEF Worker

LEMMA EnvironmentSame ==
  ASSUME TypeInv, Environment, NEW v \in Workers
  PROVE  Same(v) \/ Rests(v)
<1> USE DEF service, telegram, rows, world, wakeup, locals, history, token, Same,
            TypeInv, TypeOK
<1>1. CASE PostMessage \/ ToggleBlock \/ Limit \/ InboundUpdatesRow
  BY <1>1 DEF PostMessage, ToggleBlock, Limit, InboundUpdatesRow
<1>2. ASSUME NEW w \in Workers,
             Subscribe(w) \/ StreamEnds(w) \/ InboundRejected(w) \/ InboundSucceeds(w)
      PROVE  Same(v)
  BY <1>2 DEF Subscribe, StreamEnds, InboundRejected, InboundSucceeds
<1>3. ASSUME NEW w \in Workers, Stop(w)
      PROVE  Same(v) \/ Rests(v)
  BY <1>3 DEF Stop, DropMessage, Rests, Busy
<1> QED
  BY <1>1, <1>2, <1>3 DEF Environment

\* The steps of a worker, by what they do to the message in hand.
LEMMA WorkerDoes ==
  ASSUME TypeInv, NEW w \in Workers, Worker(w)
  PROVE  \/ Same(w)
         \/ Rests(w)
         \/ batch'[w] = batch[w] /\ pc'[w] \notin Busy /\ pc[w] \notin Busy
         \/ batch'[w] = Unacked /\ pc'[w] = "next"
         \/ TakeMessage(w) \/ PassOver(w)
         \/ FindMapping(w) /\ pc'[w] \in Busy
         \/ FinishDelivery(w) \/ SendPart(w)
         \/ /\ pc[w] \in {"deliver", "mark"} /\ pc'[w] \in {"mark", "log"}
            /\ pc'[w] = "mark" => pc[w] = "deliver"
            /\ batch'[w] = batch[w] /\ dest'[w] = dest[w]
            /\ current'[w] = current[w]
         \/ LogOutboundFailure(w)
         \/ AckMessage(w)
<1> USE DEF service, telegram, rows, world, wakeup, locals, history, token, Same, Goto,
            TypeInv, TypeOK, Rests, Busy
<1>0. ASSUME Return(w) PROVE Rests(w)
  BY <1>0 DEF Return
<1>1. CASE Start(w) \/ Tick(w) \/ Wake(w)
  BY <1>1 DEF Start, Tick, Wake
<1>2. CASE FinishRun(w) \/ GetUnackedMessages(w)
  BY <1>0, <1>2 DEF FinishRun, GetUnackedMessages
<1>3. CASE \/ TakeMessage(w) \/ PassOver(w) \/ FinishDelivery(w) \/ SendPart(w)
           \/ LogOutboundFailure(w) \/ AckMessage(w)
  BY <1>3
<1>4. CASE FindMapping(w)
  BY <1>0, <1>4 DEF FindMapping
<1>5. CASE SendFails(w) \/ SendTimesOut(w) \/ SendRefused(w) \/ SendUnauthorized(w)
           \/ SendLimited(w) \/ SendBlocked(w)
  <2>1. CASE Return(w)
    BY <1>0, <2>1
  <2>2. CASE ~Return(w)
    BY <1>5, <2>2 DEF SendFails, SendTimesOut, SendRefused, SendUnauthorized,
                      SendLimited, SendBlocked, Sending, vars
  <2> QED
    BY <2>1, <2>2
<1>6. CASE MarkChatBlocked(w)
  BY <1>6 DEF MarkChatBlocked
<1> QED
  BY <1>1, <1>2, <1>3, <1>4, <1>5, <1>6 DEF Worker, Deliver

LEMMA HoldsStays ==
  ASSUME TypeInv, Next, NEW v \in Workers, Same(v) \/ Rests(v)
  PROVE  Holds(v)'
<1>1. DOMAIN outbox \subseteq DOMAIN outbox'
  BY Grows
<1> QED
  BY <1>1 DEF Same, Rests, TypeInv, Holds, Busy

LEMMA HoldsWorker ==
  ASSUME TypeInv, NEW w \in Workers, Worker(w)
  PROVE  Holds(w)'
<1>0. Next
  BY DEF Next
<1>1. DOMAIN outbox \subseteq DOMAIN outbox'
  BY <1>0, Grows
<1>2. Holds(w) /\ TypeOK
  BY DEF TypeInv
<1>3. CASE Same(w) \/ Rests(w)
  BY <1>0, <1>3, HoldsStays
<1>4. CASE \/ batch'[w] = batch[w] /\ pc'[w] \notin Busy /\ pc[w] \notin Busy
           \/ batch'[w] = Unacked /\ pc'[w] = "next"
  BY <1>1, <1>2, <1>4 DEF Holds, Busy, Unacked
<1>5. CASE PassOver(w) \/ (FindMapping(w) /\ pc'[w] \in Busy)
  <2>1. pc[w] \in Busy /\ batch'[w] = batch[w] /\ current'[w] = current[w]
    <3>1. CASE PassOver(w)
      BY <3>1 DEF PassOver, Busy, locals
    <3>2. CASE FindMapping(w) /\ pc'[w] \in Busy
      BY <1>2, <3>2 DEF FindMapping, Return, Goto, Busy, locals, TypeOK
    <3> QED
      BY <1>5, <3>1, <3>2
  <2>2. pc'[w] \in {"deliver", "mark"} => dest'[w] \in Chats
    <3>1. CASE PassOver(w)
      BY <1>2, <3>1 DEF PassOver, Goto, TypeOK
    <3>2. CASE FindMapping(w) /\ pc'[w] \in {"deliver", "mark"}
      <4>1. PICK c \in MappedTo(w, Record(w).thread) :
              dest' = [dest EXCEPT ![w] = c]
        BY <1>2, <3>2 DEF FindMapping, Return, Goto, TypeOK
      <4>2. c \in Chats
        BY OutboundAssumption DEF MappedTo
      <4> QED
        BY <1>2, <4>1, <4>2 DEF TypeOK
    <3> QED
      BY <1>5, <3>1, <3>2
  <2> QED
    BY <1>1, <1>2, <2>1, <2>2 DEF Holds
<1>6. CASE \/ FinishDelivery(w) \/ SendPart(w) \/ LogOutboundFailure(w)
           \/ /\ pc[w] \in {"deliver", "mark"} /\ pc'[w] \in {"mark", "log"}
              /\ batch'[w] = batch[w] /\ dest'[w] = dest[w]
              /\ current'[w] = current[w]
  <2>1. /\ pc[w] \in Busy /\ batch'[w] = batch[w] /\ dest'[w] = dest[w]
        /\ current'[w] = current[w]
    BY <1>6 DEF FinishDelivery, SendPart, LogOutboundFailure, Sending, Busy, locals
  <2>2. pc'[w] \in {"deliver", "mark"} => pc[w] \in {"deliver", "mark"}
    BY <1>2, <1>6 DEF FinishDelivery, SendPart, LogOutboundFailure, Sending, Goto, TypeOK
  <2> QED
    BY <1>1, <1>2, <2>1, <2>2 DEF Holds
<1>7. CASE AckMessage(w)
  BY <1>1, <1>2, <1>7 DEF AckMessage, NextMessage, Goto, Holds, Busy, TypeOK
<1>8. CASE TakeMessage(w)
  <2>1. current'[w] \in batch[w] /\ batch' = batch /\ pc'[w] = "find"
    BY <1>2, <1>8 DEF TakeMessage, Upcoming, Goto, TypeOK
  <2> QED
    BY <1>1, <1>2, <2>1 DEF Holds
<1> QED
  BY <1>3, <1>4, <1>5, <1>6, <1>7, <1>8, WorkerDoes

LEMMA StepType == TypeInv /\ Next => TypeInv'
<1> SUFFICES ASSUME TypeInv, Next PROVE TypeInv'
  OBVIOUS
<1>1. ASSUME NEW w \in Workers, Worker(w) PROVE TypeInv'
  <2>1. TypeOK'
    BY <1>1, WorkerType
  <2>2. ASSUME NEW v \in Workers PROVE Holds(v)'
    BY <1>1, HoldsWorker, HoldsStays, OthersSame
  <2> QED
    BY <2>1, <2>2 DEF TypeInv
<1>2. CASE Environment
  <2>1. TypeOK'
    BY <1>2, EnvironmentType
  <2>2. ASSUME NEW v \in Workers PROVE Holds(v)'
    BY <1>2, HoldsStays, EnvironmentSame
  <2> QED
    BY <2>1, <2>2 DEF TypeInv
<1> QED
  BY <1>1, <1>2 DEF Next

LEMMA StutterType == TypeInv /\ UNCHANGED vars => TypeInv'
  BY DEF TypeInv, TypeOK, Holds, vars, service, telegram, rows, world, wakeup, locals,
         history, token

LEMMA AlwaysTyped == Spec => []TypeInv
<1>1. TypeInv /\ [Next]_vars => TypeInv'
  BY StepType, StutterType
<1> QED
  BY InitType, <1>1, PTL DEF Spec

\* Every variable of the outbound model keeps its type: in particular nothing is
\* ever delivered of a message that was not posted, or to no chat at all.
THEOREM TypeCorrect == Spec => []TypeOK
<1>1. TypeInv => TypeOK
  BY DEF TypeInv
<1> QED
  BY <1>1, AlwaysTyped, PTL

-----------------------------------------------------------------------------
(* No wakeup is lost: a message that the stream announced is acknowledged  *)
(* or its worker is, or will be, awake.                                    *)

\* Nothing went wrong so far.
Calm == faults = 0 /\ rejections = 0

\* Where an announced message may still be when there is no token: in the list
\* of the run, or in the list about to be fetched.
Awake(w) ==
  /\ pc[w] \in {"down", "idle"} /\ ~trigger[w] => notified[w] \subseteq acked
  /\ pc[w] = "next" \/ pc[w] \in Busy =>
       trigger[w] \/ notified[w] \subseteq acked \cup batch[w]

WakeInv ==
  /\ TypeInv
  /\ \A w \in Workers : notified[w] \subseteq DOMAIN outbox
  /\ \A w \in Workers : rejected[w] => rejections > 0
  /\ Calm => \A w \in Workers : Awake(w)

LEMMA InitWake == Init => WakeInv
<1> SUFFICES ASSUME Init PROVE WakeInv
  OBVIOUS
<1>1. TypeInv
  BY InitType
<1> QED
  BY <1>1 DEF Init, WakeInv, Awake

LEMMA AnnouncedStep ==
  WakeInv /\ Next => \A w \in Workers : notified'[w] \subseteq DOMAIN outbox'
<1> SUFFICES ASSUME WakeInv, Next
             PROVE  \A w \in Workers : notified'[w] \subseteq DOMAIN outbox'
  OBVIOUS
<1>1. TypeInv /\ TypeOK /\ DOMAIN outbox \subseteq DOMAIN outbox'
      /\ \A w \in Workers : notified[w] \subseteq DOMAIN outbox
  BY Grows DEF WakeInv, TypeInv
<1>2. CASE PostMessage
  <2>1. PICK r \in Message : outbox' = Append(outbox, r)
    BY <1>1, <1>2, PostedIsMessage
  <2>2. Len(outbox) + 1 \in DOMAIN outbox'
    BY <1>1, <2>1, AppendPosted DEF TypeOK
  <2>3. \A w \in Workers : notified'[w] \subseteq notified[w] \cup {Len(outbox) + 1}
    BY <1>2 DEF PostMessage
  <2> QED
    BY <1>1, <2>2, <2>3
<1>3. CASE ~PostMessage
  <2>1. UNCHANGED notified
    BY <1>3 DEF Next, Environment, InboundUpdatesRow, ToggleBlock, Limit, Stop,
         Subscribe, StreamEnds, InboundRejected, InboundSucceeds, Worker, Deliver,
         Start, Tick, Wake, GetUnackedMessages, FinishRun, TakeMessage, PassOver, FindMapping,
         FinishDelivery, SendPart, SendFails, SendTimesOut, SendRefused,
         SendUnauthorized, SendLimited, SendBlocked, MarkChatBlocked,
         LogOutboundFailure, AckMessage, vars, wakeup
  <2> QED
    BY <1>1, <2>1
<1> QED
  BY <1>2, <1>3

LEMMA RejectedStep ==
  WakeInv /\ Next => \A w \in Workers : rejected'[w] => rejections' > 0
<1> SUFFICES ASSUME WakeInv, Next
             PROVE  \A w \in Workers : rejected'[w] => rejections' > 0
  OBVIOUS
<1>1. TypeOK /\ \A w \in Workers : rejected[w] => rejections > 0
  BY DEF WakeInv, TypeInv
<1>2. CASE UNCHANGED <<rejected, rejections>>
  BY <1>1, <1>2
<1>3. ASSUME NEW w \in Workers, Reject(w)
      PROVE  \A v \in Workers : rejected'[v] => rejections' > 0
  <2>1. rejections \in Nat /\ rejections' > 0
    BY <1>1, <1>3 DEF Reject, TypeOK
  <2> QED
    BY <2>1
<1>4. ASSUME NEW w \in Workers, rejected' = [rejected EXCEPT ![w] = FALSE],
             UNCHANGED rejections
      PROVE  \A v \in Workers : rejected'[v] => rejections' > 0
  BY <1>1, <1>4 DEF TypeOK
<1>5. \/ UNCHANGED <<rejected, rejections>>
      \/ \E w \in Workers : \/ Reject(w)
                            \/ /\ rejected' = [rejected EXCEPT ![w] = FALSE]
                               /\ UNCHANGED rejections
  <2>1. CASE Environment
    BY <2>1 DEF Environment, PostMessage, InboundUpdatesRow, ToggleBlock, Limit, Stop,
         Subscribe, StreamEnds, InboundRejected, InboundSucceeds, token
  <2>2. CASE \E w \in Workers : Worker(w)
    BY <2>2 DEF Worker, Deliver, Start, Tick, Wake, GetUnackedMessages, FinishRun,
         TakeMessage, PassOver, FindMapping, FinishDelivery, SendPart, SendFails, SendTimesOut,
         SendRefused, SendUnauthorized, SendLimited, SendBlocked, MarkChatBlocked,
         LogOutboundFailure, AckMessage, vars, token
  <2> QED
    BY <2>1, <2>2 DEF Next
<1> QED
  BY <1>2, <1>3, <1>4, <1>5

\* A step after which nothing went wrong is a step without a fault.
LEMMA CalmBefore ==
  ASSUME WakeInv, Next, Calm'
  PROVE  Calm /\ ~Fault
<1>1. TypeOK /\ faults \in Nat /\ rejections \in Nat
  BY DEF WakeInv, TypeInv, TypeOK
<1>2. faults' = faults \/ faults' = faults + 1
  BY DEF Next, Environment, PostMessage, InboundUpdatesRow, ToggleBlock, Limit, Stop,
       Subscribe, StreamEnds, InboundRejected, InboundSucceeds, Worker, Deliver, Start,
       Tick, Wake, GetUnackedMessages, FinishRun, TakeMessage, PassOver, FindMapping,
       FinishDelivery, SendPart, SendFails, SendTimesOut, SendRefused,
       SendUnauthorized, SendLimited, SendBlocked, MarkChatBlocked, LogOutboundFailure,
       AckMessage, vars, Fault, NoFault
<1>3. rejections' = rejections \/ rejections' = rejections + 1
  BY DEF Next, Environment, PostMessage, InboundUpdatesRow, ToggleBlock, Limit, Stop,
       Subscribe, StreamEnds, InboundRejected, InboundSucceeds, Worker, Deliver, Start,
       Tick, Wake, GetUnackedMessages, FinishRun, TakeMessage, PassOver, FindMapping,
       FinishDelivery, SendPart, SendFails, SendTimesOut, SendRefused,
       SendUnauthorized, SendLimited, SendBlocked, MarkChatBlocked, LogOutboundFailure,
       AckMessage, vars, token, Reject
<1> QED
  BY <1>1, <1>2, <1>3 DEF Calm, Fault

\* A worker whose point, list, token and announcements stay is as awake as it was.
LEMMA AwakeStays ==
  ASSUME NEW w \in Workers, Awake(w), acked \subseteq acked',
         pc'[w] = pc[w], batch'[w] = batch[w], trigger[w] => trigger'[w],
         trigger'[w] \/ notified'[w] = notified[w]
  PROVE  Awake(w)'
  BY DEF Awake

LEMMA EnvironmentAwake ==
  ASSUME WakeInv, Environment, Calm', Calm, ~Fault, NEW v \in Workers
  PROVE  Awake(v)'
<1> USE DEF service, telegram, rows, world, wakeup, locals, history, token
<1>1. TypeOK /\ Awake(v)
  BY DEF WakeInv, TypeInv
<1>2. CASE PostMessage
  <2>1. /\ acked' = acked /\ pc' = pc /\ batch' = batch
        /\ trigger'[v] = (trigger[v] \/ stream[v])
        /\ stream[v] \/ notified'[v] = notified[v]
    BY <1>2 DEF PostMessage, Announce
  <2> QED
    BY <1>1, <2>1, AwakeStays
<1>3. CASE ~PostMessage
  <2>1. /\ acked' = acked /\ pc' = pc /\ batch' = batch
        /\ trigger' = trigger /\ notified' = notified
    BY <1>3 DEF Environment, InboundUpdatesRow, ToggleBlock, Limit, Stop,
         Subscribe, StreamEnds, InboundRejected, InboundSucceeds
  <2> QED
    BY <1>1, <2>1, AwakeStays
<1> QED
  BY <1>2, <1>3

LEMMA WorkerAwake ==
  ASSUME WakeInv, NEW w \in Workers, Worker(w), Calm', Calm, ~Fault
  PROVE  Awake(w)'
<1> USE DEF service, telegram, rows, world, wakeup, locals, history, token, Goto, Busy
<1>1. TypeOK /\ Awake(w) /\ ~rejected[w] /\ notified[w] \subseteq DOMAIN outbox
      /\ Holds(w)
  <2>1. ~rejected[w]
    BY DEF WakeInv, Calm
  <2> QED
    BY <2>1 DEF WakeInv, TypeInv
<1>2. CASE Start(w) \/ Tick(w) \/ Wake(w)
  BY <1>1, <1>2 DEF Start, Tick, Notify, Wake, Awake, TypeOK
<1>3. CASE GetUnackedMessages(w)
  BY <1>1, <1>3 DEF GetUnackedMessages, Unacked, Awake, TypeOK
<1>4. CASE FinishRun(w)
  BY <1>1, <1>4 DEF FinishRun, Return, Awake, TypeOK
<1>5. CASE TakeMessage(w) \/ PassOver(w) \/ FindMapping(w)
  BY <1>1, <1>5 DEF TakeMessage, PassOver, FindMapping, Awake, TypeOK
<1>6. CASE Deliver(w)
  BY <1>1, <1>6 DEF Deliver, FinishDelivery, SendPart, SendFails, SendTimesOut,
       SendRefused, SendUnauthorized, SendLimited, SendBlocked, Sending, Awake, TypeOK,
       vars
<1>7. CASE MarkChatBlocked(w) \/ LogOutboundFailure(w)
  BY <1>1, <1>7 DEF MarkChatBlocked, LogOutboundFailure, Awake, TypeOK
<1>8. CASE AckMessage(w)
  BY <1>1, <1>8 DEF AckMessage, NextMessage, Awake, TypeOK
<1> QED
  BY <1>2, <1>3, <1>4, <1>5, <1>6, <1>7, <1>8 DEF Worker

LEMMA OthersAwake ==
  ASSUME WakeInv, NEW w \in Workers, Worker(w), Calm, NEW v \in Workers, v # w
  PROVE  Awake(v)'
<1> USE DEF service, telegram, rows, world, wakeup, locals, history, token
<1>1. TypeOK /\ Awake(v)
  BY DEF WakeInv, TypeInv
<1>2. pc'[v] = pc[v] /\ batch'[v] = batch[v]
  BY OthersSame DEF WakeInv, Same
<1>3. /\ acked \subseteq acked' /\ notified' = notified
      /\ \/ trigger' = trigger
         \/ \E b \in BOOLEAN : trigger' = [trigger EXCEPT ![w] = b]
  BY DEF Worker, Deliver, Start, Tick, Notify, Wake, GetUnackedMessages, FinishRun,
       TakeMessage, PassOver, FindMapping, FinishDelivery, SendPart, SendFails, SendTimesOut,
       SendRefused, SendUnauthorized, SendLimited, SendBlocked, MarkChatBlocked,
       LogOutboundFailure, AckMessage, vars
<1>4. trigger'[v] = trigger[v]
  BY <1>1, <1>3 DEF TypeOK
<1> QED
  BY <1>1, <1>2, <1>3, <1>4, AwakeStays

LEMMA StepWake == WakeInv /\ Next => WakeInv'
<1> SUFFICES ASSUME WakeInv, Next PROVE WakeInv'
  OBVIOUS
<1>1. TypeInv'
  BY StepType DEF WakeInv
<1>2. ASSUME Calm', NEW v \in Workers PROVE Awake(v)'
  <2>1. Calm /\ ~Fault
    BY <1>2, CalmBefore
  <2>2. CASE Environment
    BY <1>2, <2>1, <2>2, EnvironmentAwake
  <2>3. ASSUME NEW w \in Workers, Worker(w) PROVE Awake(v)'
    <3>1. CASE v = w
      BY <1>2, <2>1, <2>3, <3>1, WorkerAwake
    <3>2. CASE v # w
      BY <2>1, <2>3, <3>2, OthersAwake
    <3> QED
      BY <3>1, <3>2
  <2> QED
    BY <2>2, <2>3 DEF Next
<1> QED
  BY <1>1, <1>2, AnnouncedStep, RejectedStep DEF WakeInv

\* The trigger channel's one place is enough: without a fault or a rejected token
\* no worker ever sleeps over a message its stream announced.
THEOREM NoWakeupIsLost == Spec => []WakeupKept
<1>1. WakeInv /\ [Next]_vars => WakeInv'
  <2>1. WakeInv /\ UNCHANGED vars => WakeInv'
    <3> SUFFICES ASSUME WakeInv, UNCHANGED vars PROVE WakeInv'
      OBVIOUS
    <3>1. TypeInv'
      BY StutterType DEF WakeInv
    <3> QED
      BY <3>1 DEF WakeInv, Awake, Calm, vars, service, wakeup, locals, token
  <2> QED
    BY <2>1, StepWake
<1>2. WakeInv => WakeupKept
  BY DEF WakeInv, WakeupKept, Awake, Calm
<1> QED
  BY InitWake, <1>1, <1>2, PTL DEF Spec

-----------------------------------------------------------------------------
(* The loss that is not reported: SilentLossBounded.                       *)
(*                                                                         *)
(* A rejection of the token is spent once: by the worker that has a        *)
(* message in hand while the token is rejected.  Between two messages the  *)
(* loop looks at the token and stops.                                      *)

SilentInv ==
  /\ IsFiniteSet(silent) /\ IsFiniteSet(AtRisk)
  /\ Cardinality(silent) + Cardinality(AtRisk) <= rejections

LEMMA InitSilent == Init => SilentInv
<1> SUFFICES ASSUME Init PROVE SilentInv
  OBVIOUS
<1>1. silent = {} /\ AtRisk = {} /\ rejections = 0
  BY DEF Init, AtRisk
<1> QED
  BY <1>1, FS_EmptySet DEF SilentInv

\* One more element.
LEMMA AddOne ==
  ASSUME NEW S, NEW x, IsFiniteSet(S)
  PROVE  /\ IsFiniteSet(S \cup {x})
         /\ Cardinality(S \cup {x}) \in Nat
         /\ Cardinality(S \cup {x}) <= Cardinality(S) + 1
<1>1. Cardinality(S) \in Nat
  BY FS_CardinalityType
<1>2. /\ IsFiniteSet(S \cup {x})
      /\ Cardinality(S \cup {x}) = IF x \in S THEN Cardinality(S) ELSE Cardinality(S) + 1
  BY FS_AddElement, Zenon
<1> QED
  BY <1>1, <1>2

\* The token and silent stay as they are in the other steps of a worker.
LEMMA TokenKept ==
  ASSUME TypeInv, NEW w \in Workers, Worker(w), ~SendUnauthorized(w),
         ~LogOutboundFailure(w)
  PROVE  /\ UNCHANGED <<rejected, rejections, silent>>
         /\ pc'[w] \in Unreported /\ rejected[w] => pc[w] \in Unreported
<1> USE DEF service, telegram, rows, world, wakeup, locals, history, token, Unreported
<1>0. pc \in [Workers -> PCs]
  BY DEF TypeInv, TypeOK
<1>1. UNCHANGED <<rejected, rejections, silent>>
  BY DEF Worker, Deliver, Start, Tick, Wake, GetUnackedMessages, FinishRun, TakeMessage, PassOver,
         FindMapping, FinishDelivery, SendPart, SendFails, SendTimesOut, SendRefused,
         SendLimited, SendBlocked, MarkChatBlocked, AckMessage, vars
<1>2. CASE Start(w) \/ Tick(w) \/ Wake(w) \/ GetUnackedMessages(w) \/ FinishRun(w)
           \/ PassOver(w) \/ AckMessage(w)
  <2>1. pc'[w] \notin Unreported
    BY <1>0, <1>2
       DEF Start, Tick, Wake, GetUnackedMessages, FinishRun, PassOver, AckMessage,
           Return, NextMessage, Goto
  <2> QED
    BY <1>1, <2>1
<1>3. CASE TakeMessage(w)
  <2>1. ~rejected[w]
    BY <1>3 DEF TakeMessage
  <2> QED
    BY <1>1, <2>1
<1>4. CASE FindMapping(w) \/ Deliver(w) \/ MarkChatBlocked(w)
  <2>1. pc[w] \in {"find", "deliver", "mark"}
    BY <1>4
       DEF FindMapping, Deliver, FinishDelivery, SendPart, SendFails, SendTimesOut, SendRefused,
           SendUnauthorized, SendLimited, SendBlocked, Sending, MarkChatBlocked
  <2> QED
    BY <1>1, <2>1
<1> QED
  BY <1>2, <1>3, <1>4 DEF Worker

\* A step spends nothing, records a rejection, or spends one.
LEMMA AtRiskStep ==
  ASSUME TypeInv, Next
  PROVE  \/ /\ silent' = silent /\ rejections' = rejections
            /\ AtRisk' \subseteq AtRisk
         \/ \E w \in Workers :
              /\ silent' = silent /\ rejections' = rejections + 1
              /\ AtRisk' \subseteq AtRisk \cup {w}
         \/ \E w \in AtRisk, m \in Nat :
              /\ silent' = silent \cup {m} /\ rejections' = rejections
              /\ AtRisk' \subseteq AtRisk \ {w}
<1> USE DEF service, telegram, rows, world, wakeup, locals, history, token, Unreported
<1>0. pc \in [Workers -> PCs] /\ rejected \in [Workers -> BOOLEAN]
  BY DEF TypeInv, TypeOK
<1>1. ASSUME NEW w \in Workers, Reject(w), silent' = silent,
             \A v \in Workers : v # w => pc'[v] = pc[v],
             pc[w] \in Unreported \/ pc'[w] \notin Unreported \/ ~rejected[w]
      PROVE  \/ /\ silent' = silent /\ rejections' = rejections
                /\ AtRisk' \subseteq AtRisk
             \/ /\ silent' = silent /\ rejections' = rejections + 1
                /\ AtRisk' \subseteq AtRisk \cup {w}
  BY <1>0, <1>1 DEF Reject, AtRisk
<1>2. CASE Environment
  <2>1. CASE PostMessage \/ ToggleBlock \/ Limit \/ InboundUpdatesRow
    <3>1. UNCHANGED <<pc, rejected, rejections, silent>>
      BY <2>1 DEF PostMessage, ToggleBlock, Limit, InboundUpdatesRow
    <3> QED
      BY <3>1 DEF AtRisk
  <2>2. ASSUME NEW w \in Workers, Subscribe(w) \/ StreamEnds(w)
        PROVE  UNCHANGED <<pc, rejected, rejections, silent>>
    BY <2>2 DEF Subscribe, StreamEnds
  <2>3. ASSUME NEW w \in Workers, Stop(w) \/ InboundSucceeds(w)
        PROVE  /\ silent' = silent /\ rejections' = rejections
               /\ AtRisk' \subseteq AtRisk
    BY <1>0, <2>3 DEF Stop, InboundSucceeds, AtRisk
  <2>4. ASSUME NEW w \in Workers, InboundRejected(w)
        PROVE  Reject(w) /\ silent' = silent /\ pc' = pc /\ ~rejected[w]
    BY <2>4 DEF InboundRejected
  <2> QED
    BY <1>1, <1>2, <2>1, <2>2, <2>3, <2>4 DEF Environment, AtRisk
<1>3. ASSUME NEW w \in Workers, SendUnauthorized(w)
      PROVE  /\ Reject(w) /\ silent' = silent /\ pc[w] = "deliver"
             /\ \A v \in Workers : v # w => pc'[v] = pc[v]
  BY <1>0, <1>3 DEF SendUnauthorized, Sending, Goto
<1>4. ASSUME NEW w \in Workers, LogOutboundFailure(w)
      PROVE  \/ /\ silent' = silent /\ rejections' = rejections
                /\ AtRisk' \subseteq AtRisk
             \/ /\ w \in AtRisk
                /\ \E m \in Nat : silent' = silent \cup {m}
                /\ rejections' = rejections
                /\ AtRisk' \subseteq AtRisk \ {w}
  <2>1. /\ pc[w] = "log" /\ pc' = [pc EXCEPT ![w] = "ack"]
        /\ UNCHANGED <<rejected, rejections>>
        /\ \/ silent' = silent
           \/ rejected[w] /\ silent' = silent \cup {current[w]}
    BY <1>4 DEF LogOutboundFailure, Goto
  <2>2. current[w] \in Nat
    BY <2>1, CurrentPosted DEF TypeInv, Holds, Busy
  <2>3. AtRisk' \subseteq AtRisk \ {w}
    BY <1>0, <2>1 DEF AtRisk
  <2>4. rejected[w] => w \in AtRisk
    BY <2>1 DEF AtRisk
  <2> QED
    BY <2>1, <2>2, <2>3, <2>4
<1>5. ASSUME NEW w \in Workers, Worker(w), ~SendUnauthorized(w), ~LogOutboundFailure(w)
      PROVE  /\ silent' = silent /\ rejections' = rejections
             /\ AtRisk' \subseteq AtRisk
  <2>1. \A v \in Workers : v # w => pc'[v] = pc[v]
    BY <1>5, OthersSame DEF Same
  <2> QED
    BY <1>5, <2>1, TokenKept DEF AtRisk
<1>6. ASSUME NEW w \in Workers, SendUnauthorized(w)
      PROVE  \/ /\ silent' = silent /\ rejections' = rejections
                /\ AtRisk' \subseteq AtRisk
             \/ /\ silent' = silent /\ rejections' = rejections + 1
                /\ AtRisk' \subseteq AtRisk \cup {w}
  BY <1>1, <1>3, <1>6
<1> QED
  BY <1>2, <1>4, <1>5, <1>6 DEF Next

LEMMA StepSilent == TypeInv /\ SilentInv /\ Next => SilentInv'
<1> SUFFICES ASSUME TypeInv, SilentInv, Next PROVE SilentInv'
  OBVIOUS
<1>0. /\ IsFiniteSet(silent) /\ Cardinality(silent) \in Nat
      /\ IsFiniteSet(AtRisk) /\ Cardinality(AtRisk) \in Nat
      /\ Cardinality(silent) + Cardinality(AtRisk) <= rejections
      /\ rejections \in Nat
  BY FS_CardinalityType DEF SilentInv, TypeInv, TypeOK
<1>1. ASSUME NEW S, IsFiniteSet(S), AtRisk' \subseteq S
      PROVE  /\ IsFiniteSet(AtRisk')
             /\ Cardinality(AtRisk') \in Nat
             /\ Cardinality(AtRisk') <= Cardinality(S)
  BY <1>1, FS_Subset, FS_CardinalityType
<1>2. CASE silent' = silent /\ rejections' = rejections /\ AtRisk' \subseteq AtRisk
  <2>1. /\ IsFiniteSet(AtRisk') /\ Cardinality(AtRisk') \in Nat
        /\ Cardinality(AtRisk') <= Cardinality(AtRisk)
    BY <1>0, <1>1, <1>2
  <2> QED
    BY <1>0, <1>2, <2>1 DEF SilentInv
<1>3. ASSUME NEW w \in Workers, silent' = silent, rejections' = rejections + 1,
             AtRisk' \subseteq AtRisk \cup {w}
      PROVE  SilentInv'
  <2>1. /\ IsFiniteSet(AtRisk \cup {w}) /\ Cardinality(AtRisk \cup {w}) \in Nat
        /\ Cardinality(AtRisk \cup {w}) <= Cardinality(AtRisk) + 1
    BY <1>0, AddOne
  <2>2. /\ IsFiniteSet(AtRisk') /\ Cardinality(AtRisk') \in Nat
        /\ Cardinality(AtRisk') <= Cardinality(AtRisk \cup {w})
    BY <1>1, <1>3, <2>1
  <2> QED
    BY <1>0, <1>3, <2>1, <2>2 DEF SilentInv
<1>4. ASSUME NEW w \in AtRisk, NEW m \in Nat, silent' = silent \cup {m},
             rejections' = rejections, AtRisk' \subseteq AtRisk \ {w}
      PROVE  SilentInv'
  <2>1. /\ IsFiniteSet(AtRisk \ {w})
        /\ Cardinality(AtRisk \ {w}) = Cardinality(AtRisk) - 1
    BY <1>0, FS_RemoveElement
  <2>2. /\ IsFiniteSet(AtRisk') /\ Cardinality(AtRisk') \in Nat
        /\ Cardinality(AtRisk') <= Cardinality(AtRisk \ {w})
    BY <1>1, <1>4, <2>1
  <2>3. /\ IsFiniteSet(silent \cup {m})
        /\ Cardinality(silent \cup {m}) \in Nat
        /\ Cardinality(silent \cup {m}) <= Cardinality(silent) + 1
    BY <1>0, AddOne
  <2>4. Cardinality(silent') + Cardinality(AtRisk') <= rejections'
    BY <1>0, <1>4, <2>1, <2>2, <2>3
  <2> QED
    BY <1>4, <2>2, <2>3, <2>4 DEF SilentInv
<1> QED
  BY <1>2, <1>3, <1>4, AtRiskStep

\* A rejected token puts at most one message at risk of a failure that nobody is
\* told of: the messages so lost, and those in hand under a rejected token, are
\* never more than the rejections.
THEOREM SilentLossIsBounded == Spec => []SilentLossBounded
<1>1. TypeInv /\ SilentInv /\ [Next]_vars => SilentInv'
  <2>1. UNCHANGED vars /\ SilentInv => SilentInv'
    BY DEF vars, history, token, SilentInv, AtRisk
  <2> QED
    BY <2>1, StepSilent
<1>2. SilentInv => SilentLossBounded
  BY DEF SilentInv, SilentLossBounded
<1> QED
  BY InitSilent, <1>1, <1>2, AlwaysTyped, PTL DEF Spec

-----------------------------------------------------------------------------
(* Repetitions: RepeatsBounded.                                            *)
(*                                                                         *)
(* A part that has arrived, and each worker that may still send it without *)
(* meeting a fault first, is one of the workers or paid for by a fault.  A *)
(* worker may send what is in its list, and what it will find in the next  *)
(* one, until it is past the part and has acknowledged the message.        *)

Past(w, m, k) ==
  /\ m = current[w]
  /\ \/ pc[w] \in {"mark", "log", "ack"}
     \/ pc[w] = "deliver" /\ part[w] > k

MaySend(w, m, k) == IF m \in batch[w] THEN ~Past(w, m, k) ELSE m \notin acked

MaySenders(m, k) == {w \in Workers : MaySend(w, m, k)}
Arrivals(m, k) == {j \in DOMAIN sent : sent[j].message = m /\ sent[j].part = k}

RepeatInv ==
  \A m \in Nat, k \in Nat :
    Cardinality(Arrivals(m, k)) + Cardinality(MaySenders(m, k))
      <= Cardinality(Workers) + faults

\* What one arrival does to the counts.
LEMMA ArrivalCounts ==
  ASSUME TypeInv, NEW m \in Nat, NEW k \in Nat
  PROVE  /\ Cardinality(Arrivals(m, k)) \in Nat
         /\ sent' = sent => Arrivals(m, k)' = Arrivals(m, k)
         /\ \A w \in Workers :
              Sending(w) /\ Receive(w) =>
                Cardinality(Arrivals(m, k)') =
                  Cardinality(Arrivals(m, k))
                    + IF m = current[w] /\ k = part[w] THEN 1 ELSE 0
<1>1. Len(sent) \in Nat /\ DOMAIN sent = 1 .. Len(sent)
  BY DEF TypeInv, TypeOK
<1>2. IsFiniteSet(Arrivals(m, k))
  <2>1. IsFiniteSet(1 .. Len(sent))
    BY <1>1, FS_Interval
  <2>2. Arrivals(m, k) \in SUBSET (1 .. Len(sent))
    BY <1>1 DEF Arrivals
  <2> QED
    BY <2>1, <2>2, FS_Subset
<1>3. Cardinality(Arrivals(m, k)) \in Nat
  BY <1>2, FS_CardinalityType
<1>4. ASSUME sent' = sent PROVE Arrivals(m, k)' = Arrivals(m, k)
  BY <1>4 DEF Arrivals
<1>5. ASSUME NEW w \in Workers, Sending(w), Receive(w)
      PROVE  Cardinality(Arrivals(m, k)') =
               Cardinality(Arrivals(m, k))
                 + IF m = current[w] /\ k = part[w] THEN 1 ELSE 0
  <2>1. PICK n : n = Len(sent)
    OBVIOUS
  <2>r. PICK r : r = [message |-> current[w], part |-> part[w], chat |-> dest[w]]
    OBVIOUS
  <2>2. /\ n \in Nat
        /\ DOMAIN sent = 1 .. n
        /\ DOMAIN sent' = 1 .. n + 1
        /\ \A i \in 1 .. n : sent'[i] = sent[i]
        /\ sent'[n + 1].message = current[w]
        /\ sent'[n + 1].part = part[w]
    <3>1. /\ n \in Nat
          /\ DOMAIN sent = 1 .. n
          /\ DOMAIN sent' = 1 .. n + 1
          /\ \A i \in DOMAIN sent : sent'[i] = sent[i]
          /\ sent'[n + 1] = r
      BY <1>5, <2>1, <2>r, ReceivePart
    <3> QED
      BY <2>r, <3>1
  <2>3. CASE m = current[w] /\ k = part[w]
    <3>1. Arrivals(m, k)' = Arrivals(m, k) \cup {n + 1}
      BY <2>2, <2>3 DEF Arrivals
    <3>2. n + 1 \notin Arrivals(m, k)
      BY <2>2 DEF Arrivals
    <3>3. Cardinality(Arrivals(m, k) \cup {n + 1}) = Cardinality(Arrivals(m, k)) + 1
      BY <1>2, <3>2, FS_AddElement
    <3> QED
      BY <2>3, <3>1, <3>3
  <2>4. CASE ~(m = current[w] /\ k = part[w])
    <3>1. Arrivals(m, k)' = Arrivals(m, k)
      BY <2>2, <2>4 DEF Arrivals
    <3> QED
      BY <1>3, <2>4, <3>1
  <2> QED
    BY <2>3, <2>4
<1> QED
  BY <1>3, <1>4, <1>5

LEMMA AckedGrows ==
  ASSUME TypeInv, Next
  PROVE  acked \subseteq acked'
<1> USE DEF service, telegram, rows, world, wakeup, locals, history, token
<1>1. Environment => UNCHANGED acked
  BY DEF Environment, PostMessage, InboundUpdatesRow, ToggleBlock, Limit, Stop,
         Subscribe, StreamEnds, InboundRejected, InboundSucceeds
<1>2. ASSUME NEW w \in Workers, Worker(w)
      PROVE  acked \subseteq acked'
  BY <1>2 DEF Worker, Deliver, Start, Tick, Wake, GetUnackedMessages, FinishRun,
              TakeMessage, PassOver, FindMapping, FinishDelivery, SendPart, SendFails,
              SendTimesOut, SendRefused, SendUnauthorized, SendLimited, SendBlocked,
              MarkChatBlocked, LogOutboundFailure, AckMessage, vars
<1> QED
  BY <1>1, <1>2 DEF Next

\* Faults are counted one by one.
LEMMA FaultsCounted ==
  ASSUME TypeInv, Next
  PROVE  faults' = faults \/ faults' = faults + 1
<1> USE DEF service, telegram, rows, world, wakeup, locals, history, token, Fault, NoFault
<1>1. Environment => faults' = faults \/ faults' = faults + 1
  BY DEF Environment, PostMessage, InboundUpdatesRow, ToggleBlock, Limit, Stop,
         Subscribe, StreamEnds, InboundRejected, InboundSucceeds
<1>2. ASSUME NEW w \in Workers, Worker(w)
      PROVE  faults' = faults \/ faults' = faults + 1
  BY <1>2 DEF Worker, Deliver, Start, Tick, Wake, GetUnackedMessages, FinishRun,
              TakeMessage, PassOver, FindMapping, FinishDelivery, SendPart, SendFails,
              SendTimesOut, SendRefused, SendUnauthorized, SendLimited, SendBlocked,
              MarkChatBlocked, LogOutboundFailure, AckMessage, vars
<1> QED
  BY <1>1, <1>2 DEF Next

\* A worker that does not move gains nothing it may send.
LEMMA MayStays ==
  ASSUME TypeInv, Next, NEW v \in Workers, Same(v), NEW m, NEW k, MaySend(v, m, k)'
  PROVE  MaySend(v, m, k)
<1>1. acked \subseteq acked'
  BY AckedGrows
<1>2. batch'[v] = batch[v] /\ pc'[v] = pc[v] /\ part'[v] = part[v]
  BY DEF Same
<1>3. current[v]' = current[v]
  BY DEF Same
<1>4. Past(v, m, k)' <=> Past(v, m, k)
  BY <1>2, <1>3 DEF Past
<1> QED
  BY <1>1, <1>2, <1>4 DEF MaySend

\* A worker that moves without a fault gains nothing either, and is past a part
\* that it sends.
LEMMA MayWorker ==
  ASSUME TypeInv, NEW w \in Workers, Worker(w), faults' = faults,
         NEW m \in Nat, NEW k \in Nat, MaySend(w, m, k)'
  PROVE  /\ MaySend(w, m, k)
         /\ sent' # sent => ~(m = current[w] /\ k = part[w])
<1> USE DEF service, telegram, rows, world, wakeup, locals, history, token
<1>0. /\ TypeOK /\ Next /\ faults \in Nat /\ part[w] \in Nat /\ LocalTypes
      /\ batch[w] \in SUBSET Nat
  BY TypeParts DEF TypeInv, TypeOK, Next
<1>n. ~Fault
  BY <1>0 DEF Fault
<1>1. CASE Start(w) \/ Tick(w) \/ Wake(w) \/ FinishRun(w) \/ GetUnackedMessages(w)
  <2>1. /\ sent' = sent /\ acked' = acked /\ pc[w] \notin Busy /\ pc'[w] \notin Busy
        /\ batch'[w] \in {batch[w], {}, Unacked}
    BY <1>0, <1>1, <1>n
       DEF Start, Tick, Wake, FinishRun, GetUnackedMessages, Return, Goto, Busy,
           LocalTypes
  <2>2. ~Past(w, m, k)
    BY <2>1 DEF Past, Busy
  <2> QED
    BY <2>1, <2>2 DEF MaySend, Unacked
<1>2. CASE TakeMessage(w) \/ PassOver(w) \/ FindMapping(w)
  <2>1. /\ sent' = sent /\ acked' = acked /\ pc[w] \in {"next", "find"}
        /\ batch'[w] = batch[w]
    BY <1>0, <1>2, <1>n DEF TakeMessage, PassOver, FindMapping
  <2>2. ~Past(w, m, k)
    BY <2>1 DEF Past
  <2> QED
    BY <2>1, <2>2 DEF MaySend
<1>3. CASE SendPart(w)
  <2>1. /\ acked' = acked /\ pc[w] = "deliver" /\ pc'[w] = "deliver"
        /\ batch'[w] = batch[w] /\ part'[w] = part[w] + 1
        /\ current'[w] = current[w]
    BY <1>0, <1>3 DEF SendPart, Sending, LocalTypes
  <2>2. current[w]' = current[w] /\ current[w] \in batch[w]
    BY <2>1, CurrentPosted DEF Busy
  <2>3. ASSUME m = current[w] PROVE k > part[w]
    BY <1>0, <2>1, <2>2, <2>3 DEF MaySend, Past
  <2> QED
    BY <1>0, <2>1, <2>2, <2>3 DEF MaySend, Past
<1>4. CASE \/ FinishDelivery(w) \/ SendFails(w) \/ SendTimesOut(w) \/ SendRefused(w)
           \/ SendUnauthorized(w) \/ SendLimited(w) \/ SendBlocked(w)
           \/ MarkChatBlocked(w) \/ LogOutboundFailure(w)
  <2>1. /\ sent' = sent /\ acked' = acked /\ pc[w] \in Busy
        /\ batch'[w] = batch[w] /\ part'[w] = part[w] /\ current'[w] = current[w]
        /\ pc'[w] = pc[w] \/ pc'[w] \in {"mark", "log", "ack"}
    BY <1>0, <1>4, <1>n
       DEF FinishDelivery, SendFails, SendTimesOut, SendRefused, SendUnauthorized,
           SendLimited, SendBlocked, MarkChatBlocked, LogOutboundFailure, Sending, Goto,
           Busy, LocalTypes, vars
  <2>2. current[w]' = current[w]
    BY <2>1
  <2>3. Past(w, m, k) => Past(w, m, k)'
    BY <2>1, <2>2 DEF Past
  <2> QED
    BY <2>1, <2>3 DEF MaySend
<1>5. CASE AckMessage(w)
  <2>1. /\ sent' = sent /\ acked' = acked \cup {current[w]}
        /\ batch'[w] = batch[w] \ {current[w]}
    BY <1>0, <1>5, <1>n DEF AckMessage, NextMessage, LocalTypes
  <2>2. m # current[w]
    BY <2>1 DEF MaySend
  <2> QED
    BY <2>1, <2>2 DEF MaySend, Past
<1> QED
  BY <1>1, <1>2, <1>3, <1>4, <1>5 DEF Worker, Deliver

\* A worker that sends a part may send it.
LEMMA SenderMay ==
  ASSUME TypeInv, NEW w \in Workers, Sending(w)
  PROVE  w \in MaySenders(current[w], part[w])
<1>1. pc[w] = "deliver" /\ current[w] \in batch[w] /\ part[w] \in Nat
  BY CurrentPosted DEF Sending, TypeInv, TypeOK, Holds, Busy
<1> QED
  BY <1>1 DEF MaySenders, MaySend, Past

LEMMA StepRepeats ==
  ASSUME IsFiniteSet(Workers), TypeInv, RepeatInv, Next
  PROVE  RepeatInv'
<1> SUFFICES ASSUME NEW m \in Nat, NEW k \in Nat
             PROVE  Cardinality(Arrivals(m, k)') + Cardinality(MaySenders(m, k)')
                      <= Cardinality(Workers) + faults'
  BY DEF RepeatInv
<1>0. /\ faults \in Nat /\ Cardinality(Workers) \in Nat
      /\ Cardinality(Arrivals(m, k)) \in Nat
      /\ faults' = faults \/ faults' = faults + 1
  BY ArrivalCounts, FaultsCounted, FS_CardinalityType DEF TypeInv, TypeOK
<1>1. Cardinality(Arrivals(m, k)) + Cardinality(MaySenders(m, k))
        <= Cardinality(Workers) + faults
  BY DEF RepeatInv
<1>2. IsFiniteSet(MaySenders(m, k)) /\ Cardinality(MaySenders(m, k)) \in Nat
  <2>1. MaySenders(m, k) \in SUBSET Workers
    BY DEF MaySenders
  <2> QED
    BY <2>1, FS_Subset, FS_CardinalityType
<1>a. ASSUME NEW S, IsFiniteSet(S), MaySenders(m, k)' \subseteq S
      PROVE  /\ Cardinality(MaySenders(m, k)') \in Nat
             /\ Cardinality(MaySenders(m, k)') <= Cardinality(S)
  BY <1>a, FS_Subset, FS_CardinalityType
\* Nobody may send what he could not before.
<1>b. ASSUME sent' = sent, MaySenders(m, k)' \subseteq MaySenders(m, k)
      PROVE  Cardinality(Arrivals(m, k)') + Cardinality(MaySenders(m, k)')
               <= Cardinality(Workers) + faults'
  <2>1. Arrivals(m, k)' = Arrivals(m, k)
    BY <1>b, ArrivalCounts
  <2>2. /\ Cardinality(MaySenders(m, k)') \in Nat
        /\ Cardinality(MaySenders(m, k)') <= Cardinality(MaySenders(m, k))
    BY <1>2, <1>a, <1>b
  <2> QED
    BY <1>0, <1>1, <1>2, <2>1, <2>2
\* One worker may, and it met a fault.
<1>c. ASSUME sent' = sent, faults' = faults + 1, NEW w \in Workers,
             MaySenders(m, k)' \subseteq MaySenders(m, k) \cup {w}
      PROVE  Cardinality(Arrivals(m, k)') + Cardinality(MaySenders(m, k)')
               <= Cardinality(Workers) + faults'
  <2>1. Arrivals(m, k)' = Arrivals(m, k)
    BY <1>c, ArrivalCounts
  <2>2. /\ IsFiniteSet(MaySenders(m, k) \cup {w})
        /\ Cardinality(MaySenders(m, k) \cup {w}) \in Nat
        /\ Cardinality(MaySenders(m, k) \cup {w}) <= Cardinality(MaySenders(m, k)) + 1
    BY <1>2, AddOne
  <2>3. /\ Cardinality(MaySenders(m, k)') \in Nat
        /\ Cardinality(MaySenders(m, k)') <= Cardinality(MaySenders(m, k) \cup {w})
    BY <1>a, <1>c, <2>2
  <2> QED
    BY <1>0, <1>1, <1>2, <1>c, <2>1, <2>2, <2>3
<1>3. CASE Environment
  <2>1. sent' = sent
    BY <1>3 DEF Environment, PostMessage, InboundUpdatesRow, ToggleBlock, Limit, Stop,
                Subscribe, StreamEnds, InboundRejected, InboundSucceeds, world
  <2>2. CASE \A v \in Workers : Same(v)
    <3>1. MaySenders(m, k)' \subseteq MaySenders(m, k)
      BY <2>2, MayStays DEF MaySenders
    <3> QED
      BY <1>b, <2>1, <3>1
  <2>3. ASSUME NEW w \in Workers, Stop(w)
        PROVE  faults' = faults + 1 /\ \A v \in Workers \ {w} : Same(v)
    BY <2>3 DEF Stop, Fault, DropMessage, Same, TypeInv, TypeOK
  <2>4. ASSUME NEW w \in Workers, faults' = faults + 1,
               \A v \in Workers \ {w} : Same(v)
        PROVE  Cardinality(Arrivals(m, k)') + Cardinality(MaySenders(m, k)')
                 <= Cardinality(Workers) + faults'
    <3>1. MaySenders(m, k)' \subseteq MaySenders(m, k) \cup {w}
      BY <2>4, MayStays DEF MaySenders
    <3> QED
      BY <1>c, <2>1, <2>4, <3>1
  <2>5. (\A w \in Workers : ~Stop(w)) => \A v \in Workers : Same(v)
    BY <1>3 DEF Environment, PostMessage, InboundUpdatesRow, ToggleBlock, Limit,
                Subscribe, StreamEnds, InboundRejected, InboundSucceeds, world, locals, Same
  <2> QED
    BY <2>2, <2>3, <2>4, <2>5
<1>4. ASSUME NEW w \in Workers, Worker(w)
      PROVE  Cardinality(Arrivals(m, k)') + Cardinality(MaySenders(m, k)')
               <= Cardinality(Workers) + faults'
  <2>1. MaySenders(m, k)' \subseteq MaySenders(m, k) \cup {w}
    BY <1>4, OthersSame, MayStays DEF MaySenders
  <2>2. faults' = faults =>
          /\ MaySenders(m, k)' \subseteq MaySenders(m, k)
          /\ sent' # sent /\ m = current[w] /\ k = part[w]
               => w \notin MaySenders(m, k)'
    BY <1>4, <2>1, MayWorker DEF MaySenders
  <2>3. CASE sent' = sent
    BY <1>0, <1>b, <1>c, <2>1, <2>2, <2>3
  <2>4. CASE sent' # sent
    <3>1. Sending(w) /\ Receive(w)
      BY <1>4, <2>4 DEF Worker, Deliver, Start, Tick, Wake, GetUnackedMessages,
              FinishRun, TakeMessage, PassOver, FindMapping, FinishDelivery, SendPart, SendFails,
              SendTimesOut, SendRefused, SendUnauthorized, SendLimited, SendBlocked,
              MarkChatBlocked, LogOutboundFailure, AckMessage, vars, world
    <3>2. CASE m = current[w] /\ k = part[w]
      <4>1. Cardinality(Arrivals(m, k)') = Cardinality(Arrivals(m, k)) + 1
        BY <3>1, <3>2, ArrivalCounts
      <4>2. w \in MaySenders(m, k)
        BY <3>1, <3>2, SenderMay
      <4>3. CASE faults' = faults + 1
        <5>1. MaySenders(m, k)' \subseteq MaySenders(m, k)
          BY <2>1, <4>2
        <5>2. /\ Cardinality(MaySenders(m, k)') \in Nat
              /\ Cardinality(MaySenders(m, k)') <= Cardinality(MaySenders(m, k))
          BY <1>2, <1>a, <5>1
        <5> QED
          BY <1>0, <1>1, <1>2, <4>1, <4>3, <5>2
      <4>4. CASE faults' = faults
        <5>1. MaySenders(m, k)' \subseteq MaySenders(m, k) \ {w}
          BY <2>2, <2>4, <3>2, <4>4
        <5>2. /\ IsFiniteSet(MaySenders(m, k) \ {w})
              /\ Cardinality(MaySenders(m, k) \ {w}) = Cardinality(MaySenders(m, k)) - 1
          BY <1>2, <4>2, FS_RemoveElement
        <5>3. /\ Cardinality(MaySenders(m, k)') \in Nat
              /\ Cardinality(MaySenders(m, k)') <= Cardinality(MaySenders(m, k) \ {w})
          BY <1>a, <5>1, <5>2
        <5> QED
          BY <1>0, <1>1, <1>2, <4>1, <4>4, <5>2, <5>3
      <4> QED
        BY <1>0, <4>3, <4>4
    <3>3. CASE ~(m = current[w] /\ k = part[w])
      <4>1. Cardinality(Arrivals(m, k)') = Cardinality(Arrivals(m, k))
        <5>1. Cardinality(Arrivals(m, k)') =
                Cardinality(Arrivals(m, k)) + IF m = current[w] /\ k = part[w] THEN 1 ELSE 0
          BY <3>1, ArrivalCounts
        <5> QED
          BY <1>0, <3>3, <5>1
      <4>2. /\ IsFiniteSet(MaySenders(m, k) \cup {w})
            /\ Cardinality(MaySenders(m, k) \cup {w}) \in Nat
            /\ Cardinality(MaySenders(m, k) \cup {w}) <= Cardinality(MaySenders(m, k)) + 1
        BY <1>2, AddOne
      <4>3. /\ Cardinality(MaySenders(m, k)') \in Nat
            /\ Cardinality(MaySenders(m, k)') <= Cardinality(MaySenders(m, k) \cup {w})
        BY <1>a, <2>1, <4>2
      <4>4. faults' = faults =>
              Cardinality(MaySenders(m, k)') <= Cardinality(MaySenders(m, k))
        BY <1>2, <1>a, <2>2
      <4> QED
        BY <1>0, <1>1, <1>2, <4>1, <4>2, <4>3, <4>4
    <3> QED
      BY <3>2, <3>3
  <2> QED
    BY <2>3, <2>4
<1> QED
  BY <1>3, <1>4 DEF Next

\* A part arrives once from each worker, and once more for each fault at most.
\* Hypothesis: the workers are finitely many.
THEOREM RepeatsArePaidFor ==
  ASSUME IsFiniteSet(Workers)
  PROVE  Spec => []RepeatsBounded
<1>1. Init => RepeatInv
  <2> SUFFICES ASSUME Init, NEW m \in Nat, NEW k \in Nat
               PROVE  Cardinality(Arrivals(m, k)) + Cardinality(MaySenders(m, k))
                        <= Cardinality(Workers) + faults
    BY DEF RepeatInv
  <2>1. Arrivals(m, k) = {} /\ faults = 0
    BY DEF Init, Arrivals
  <2>2. MaySenders(m, k) \in SUBSET Workers
    BY DEF MaySenders
  <2>3. /\ Cardinality(MaySenders(m, k)) <= Cardinality(Workers)
        /\ Cardinality(MaySenders(m, k)) \in Nat /\ Cardinality(Workers) \in Nat
    BY <2>2, FS_Subset, FS_CardinalityType
  <2>4. Cardinality(Arrivals(m, k)) = 0
    BY <2>1, FS_EmptySet
  <2> QED
    BY <2>1, <2>3, <2>4
<1>2. TypeInv /\ RepeatInv /\ [Next]_vars => RepeatInv'
  <2>1. UNCHANGED vars /\ RepeatInv => RepeatInv'
    <3> SUFFICES ASSUME UNCHANGED vars, RepeatInv PROVE RepeatInv'
      OBVIOUS
    <3>1. UNCHANGED <<sent, acked, pc, batch, current, part, faults>>
      BY DEF vars, service, world, locals
    <3>2. \A w \in Workers : current[w]' = current[w]
      BY <3>1
    <3>3. ASSUME NEW m \in Nat, NEW k \in Nat
          PROVE  /\ Arrivals(m, k)' = Arrivals(m, k)
                 /\ MaySenders(m, k)' = MaySenders(m, k)
      BY <3>1, <3>2 DEF Arrivals, MaySenders, MaySend, Past
    <3> QED
      BY <3>1, <3>3 DEF RepeatInv
  <2> QED
    BY <2>1, StepRepeats
<1>3. TypeInv /\ RepeatInv => RepeatsBounded
  <2> SUFFICES ASSUME TypeInv, RepeatInv, NEW i \in DOMAIN sent
               PROVE  Cardinality(Arrivals(sent[i].message, sent[i].part))
                        <= Cardinality(Workers) + faults
    BY DEF RepeatsBounded, Arrivals
  <2>1. sent[i] \in Part
    BY DEF TypeInv, TypeOK
  <2>2. PICK m \in Nat, k \in Nat : m = sent[i].message /\ k = sent[i].part
    BY <2>1 DEF Part
  <2>3. Cardinality(Arrivals(m, k)) + Cardinality(MaySenders(m, k))
          <= Cardinality(Workers) + faults
    BY DEF RepeatInv
  <2>4. /\ Cardinality(Arrivals(m, k)) \in Nat /\ Cardinality(Workers) \in Nat
        /\ faults \in Nat
    BY ArrivalCounts, FS_CardinalityType DEF TypeInv, TypeOK
  <2>5. Cardinality(MaySenders(m, k)) \in Nat
    <3>1. MaySenders(m, k) \in SUBSET Workers
      BY DEF MaySenders
    <3> QED
      BY <3>1, FS_Subset, FS_CardinalityType
  <2> QED
    BY <2>2, <2>3, <2>4, <2>5
<1> QED
  BY <1>1, <1>2, <1>3, AlwaysTyped, PTL DEF Spec
=============================================================================
