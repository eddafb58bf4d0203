------------------------ MODULE OutboundOrderProofs ------------------------
(***************************************************************************)
(* The order of what Outbound delivers, what its acknowledgements mean,    *)
(* and whom its parts reach, for any workers that share or do not share an *)
(* installation.                                                           *)
(***************************************************************************)
EXTENDS OutboundProofs

-----------------------------------------------------------------------------
(* The inductive invariant *)

\* The points of the code at which parts of a message are sent or were.
Begun == {"deliver", "mark", "log", "ack"}

\* What a worker may rely on.  Messages that are missing before one of its list
\* are settled: they were acknowledged before the list was made, or the worker
\* acknowledged them itself.  If older messages are listed first, the one in
\* hand is the oldest that is left.  The chat it delivers to had a row for the
\* thread once, and the earlier parts are there.
Knows(w) ==
  /\ \A m \in batch[w] : \A n \in 1 .. m - 1 : n \notin batch[w] => Settled(n)
  /\ OldestFirst /\ pc[w] \in Busy => \A m \in batch[w] : current[w] <= m
  /\ pc[w] \notin Begun => part[w] = 1
  /\ pc[w] = "deliver" =>
       /\ Record(w).kind = "reply"
       /\ Record(w).thread \in mapped[dest[w]]
       /\ part[w] >= 1
       /\ \A k \in 1 .. part[w] - 1 : Got(current[w], k)
  /\ pc[w] = "ack" => Settled(current[w])

RowsMapped == \A c \in Chats : row[c] # NoRow => row[c].thread \in mapped[c]

\* Part i came after the earlier parts of its message and went to a chat of its
\* thread; if older messages are listed first, every earlier message of any
\* thread was settled before.
InOrder(i) ==
  /\ sent[i].message \in DOMAIN outbox
  /\ outbox[sent[i].message].thread \in mapped[sent[i].chat]
  /\ \A k \in 1 .. sent[i].part - 1 :
       \E j \in 1 .. i - 1 : sent[j].message = sent[i].message /\ sent[j].part = k
  /\ OldestFirst => \A n \in 1 .. sent[i].message - 1 : Settled(n)

OrderInv ==
  /\ TypeInv
  /\ acked \subseteq DOMAIN outbox
  /\ AckedAreSettled
  /\ RowsMapped
  /\ \A i \in DOMAIN sent : InOrder(i)
  /\ \A w \in Workers : Knows(w)

LEMMA InitOrder == Init => OrderInv
<1> SUFFICES ASSUME Init PROVE OrderInv
  OBVIOUS
<1>1. TypeInv
  BY InitType
<1>2. DOMAIN sent = {}
  BY DEF Init
<1> QED
  BY <1>1, <1>2 DEF Init, OrderInv, AckedAreSettled, RowsMapped, Knows, Busy, Begun

-----------------------------------------------------------------------------
(* What stays true *)

LEMMA SentGrows ==
  ASSUME TypeInv, Next
  PROVE  /\ DOMAIN sent \subseteq DOMAIN sent'
         /\ \A i \in DOMAIN sent : sent'[i] = sent[i]
<1>1. CASE UNCHANGED sent
  BY <1>1
<1>2. ASSUME NEW w \in Workers, Sending(w), Receive(w)
      PROVE  /\ DOMAIN sent \subseteq DOMAIN sent'
             /\ \A i \in DOMAIN sent : sent'[i] = sent[i]
  <2>1. /\ Len(sent) \in Nat
        /\ DOMAIN sent = 1 .. Len(sent)
        /\ DOMAIN sent' = 1 .. Len(sent) + 1
        /\ \A i \in DOMAIN sent : sent'[i] = sent[i]
    BY <1>2, ReceivePart
  <2> QED
    BY <2>1
<1> QED
  BY <1>1, <1>2, Arrives

LEMMA GotStays ==
  ASSUME TypeInv, Next, NEW m, NEW k, Got(m, k)
  PROVE  Got(m, k)'
  BY SentGrows DEF Got

LEMMA SettledStays ==
  ASSUME TypeInv, Next, NEW m \in DOMAIN outbox, Settled(m)
  PROVE  Settled(m)'
<1>1. outbox'[m] = outbox[m] /\ gaveUp \subseteq gaveUp'
  BY Grows
<1>2. Delivered(m) => Delivered(m)'
  BY <1>1, GotStays DEF Delivered
<1> QED
  BY <1>1, <1>2 DEF Settled

\* The messages before a posted one are posted.
LEMMA EarlierPosted ==
  ASSUME TypeInv, NEW m \in DOMAIN outbox, NEW n \in 1 .. m - 1
  PROVE  n \in DOMAIN outbox
  BY DEF TypeInv, TypeOK

LEMMA KnowsStays ==
  ASSUME TypeInv, Next, NEW v \in Workers, Knows(v), Same(v)
  PROVE  Knows(v)'
<1>1. /\ batch'[v] = batch[v] /\ dest'[v] = dest[v] /\ part'[v] = part[v]
      /\ pc'[v] = pc[v]
  BY DEF Same
<1>2. current[v]' = current[v]
  BY DEF Same
<1>3. /\ batch[v] \subseteq DOMAIN outbox
      /\ pc[v] \in Busy => current[v] \in DOMAIN outbox
      /\ pc[v] = "deliver" => dest[v] \in Chats
  BY CurrentPosted DEF TypeInv, Holds
<1>4. \A m \in batch'[v] : \A n \in 1 .. m - 1 : n \notin batch'[v] => Settled(n)'
  <2> SUFFICES ASSUME NEW m \in batch[v], NEW n \in 1 .. m - 1, n \notin batch[v]
               PROVE  Settled(n)'
    BY <1>1
  <2>1. Settled(n)
    BY DEF Knows
  <2> QED
    BY <1>3, <2>1, EarlierPosted, SettledStays
<1>5. pc'[v] = "deliver" =>
        /\ Record(v)'.kind = "reply"
        /\ Record(v)'.thread \in mapped'[dest'[v]]
        /\ part'[v] >= 1
        /\ \A k \in 1 .. part'[v] - 1 : Got(current[v], k)'
  <2> SUFFICES ASSUME pc[v] = "deliver"
               PROVE  /\ Record(v)'.kind = "reply"
                      /\ Record(v)'.thread \in mapped'[dest'[v]]
                      /\ part'[v] >= 1
                      /\ \A k \in 1 .. part'[v] - 1 : Got(current[v], k)'
    BY <1>1
  <2>1. Record(v)' = Record(v)
    BY <1>2, <1>3, Grows DEF Record, Busy
  <2>2. mapped[dest[v]] \subseteq mapped'[dest[v]]
    BY <1>3, Grows
  <2>3. PICK m : m = current[v]
    OBVIOUS
  <2>4. \A k \in 1 .. part[v] - 1 : Got(m, k)'
    BY <2>3, GotStays DEF Knows
  <2> QED
    BY <1>1, <1>2, <2>1, <2>2, <2>3, <2>4 DEF Knows, Got
<1>6. pc'[v] = "ack" => Settled(current[v])'
  <2> SUFFICES ASSUME pc[v] = "ack" PROVE Settled(current[v])'
    BY <1>1
  <2> DEFINE m == current[v]
  <2>1. Settled(m) /\ m \in DOMAIN outbox
    BY <1>3 DEF Knows, Busy
  <2> QED
    BY <1>2, <2>1, Grows, SentGrows DEF Settled, Delivered, Got
<1>7. OldestFirst /\ pc'[v] \in Busy => \A m \in batch'[v] : current'[v] <= m
  BY <1>1, <1>2 DEF Knows
<1> QED
  BY <1>1, <1>4, <1>5, <1>6, <1>7 DEF Knows

-----------------------------------------------------------------------------
(* The steps of a worker *)

\* The first part is the next one whenever no message is being delivered.
LEMMA FreshPart ==
  ASSUME TypeInv, NEW w \in Workers, Worker(w), pc'[w] \notin Begun
  PROVE  part'[w] = 1 \/ (pc[w] \notin Begun /\ part'[w] = part[w])
<1> USE DEF service, telegram, rows, world, wakeup, locals, history, token, Goto,
            TypeInv, TypeOK, Begun
<1>0. DropMessage(w) => part'[w] = 1
  BY DEF DropMessage
<1>1. CASE Start(w) \/ Tick(w) \/ Wake(w) \/ TakeMessage(w) \/ PassOver(w)
  BY <1>1 DEF Start, Tick, Wake, TakeMessage, PassOver
<1>2. CASE FinishRun(w) \/ GetUnackedMessages(w) \/ FindMapping(w)
  BY <1>0, <1>2 DEF FinishRun, GetUnackedMessages, FindMapping, Return
<1>3. CASE Deliver(w)
  BY <1>0, <1>3 DEF Deliver, FinishDelivery, SendPart, SendFails, SendTimesOut,
                    SendRefused, SendUnauthorized, SendLimited, SendBlocked, Return,
                    Sending, vars
<1>4. CASE MarkChatBlocked(w) \/ LogOutboundFailure(w) \/ AckMessage(w)
  BY <1>0, <1>4 DEF MarkChatBlocked, LogOutboundFailure, AckMessage, NextMessage
<1> QED
  BY <1>1, <1>2, <1>3, <1>4 DEF Worker

\* Missing messages stay settled, whatever of the list is left.
LEMMA ListStays ==
  ASSUME OrderInv, Next, NEW w \in Workers, NEW S, S \subseteq batch[w],
         \A n \in batch[w] \ S : Settled(n)
  PROVE  \A m \in S : \A n \in 1 .. m - 1 : n \notin S => Settled(n)'
<1>0. TypeInv /\ Knows(w) /\ batch[w] \subseteq DOMAIN outbox
  BY DEF OrderInv, TypeInv, Holds
<1> SUFFICES ASSUME NEW m \in S, NEW n \in 1 .. m - 1, n \notin S
             PROVE  Settled(n)'
  OBVIOUS
<1>1. Settled(n)
  BY <1>0 DEF Knows
<1>2. n \in DOMAIN outbox
  BY <1>0, EarlierPosted
<1> QED
  BY <1>0, <1>1, <1>2, SettledStays

LEMMA KnowsWorker ==
  ASSUME OrderInv, NEW w \in Workers, Worker(w)
  PROVE  Knows(w)'
<1>0. Next /\ TypeInv /\ Knows(w) /\ TypeOK
  BY DEF OrderInv, Next, TypeInv
<1>1. pc'[w] \notin Begun => part'[w] = 1
  BY <1>0, FreshPart DEF Knows
<1>2. batch'[w] = batch[w] =>
        \A m \in batch'[w] : \A n \in 1 .. m - 1 : n \notin batch'[w] => Settled(n)'
  BY <1>0, ListStays
<1>o. batch'[w] = batch[w] /\ current'[w] = current[w] /\ pc[w] \in Busy /\ OldestFirst =>
        \A m \in batch'[w] : current'[w] <= m
  BY <1>0 DEF Knows
<1>3. CASE Same(w)
  BY <1>0, <1>3, KnowsStays
<1>4. CASE Rests(w)
  BY <1>1, <1>4 DEF Rests, Knows, Busy, Begun
<1>5. CASE batch'[w] = batch[w] /\ pc'[w] \notin Busy /\ pc[w] \notin Busy
  BY <1>1, <1>2, <1>5 DEF Knows, Busy, Begun
<1>6. CASE batch'[w] = Unacked /\ pc'[w] = "next"
  <2> SUFFICES ASSUME NEW m \in Unacked, NEW n \in 1 .. m - 1, n \notin Unacked
               PROVE  Settled(n)'
    BY <1>1, <1>6 DEF Knows, Busy, Begun
  <2>1. n \in DOMAIN outbox
    BY <1>0, EarlierPosted DEF Unacked
  <2>2. Settled(n)
    BY <2>1 DEF Unacked, OrderInv, AckedAreSettled
  <2> QED
    BY <1>0, <2>1, <2>2, SettledStays
<1>7. CASE PassOver(w)
  <2>1. /\ batch'[w] = batch[w] /\ current'[w] = current[w] /\ pc'[w] = "ack"
        /\ pc[w] \in Busy
    BY <1>0, <1>7 DEF PassOver, Busy, Goto, locals, TypeOK
  <2>2. Settled(current[w])
    BY <1>7 DEF PassOver, Record, Settled
  <2>3. Settled(current[w])'
    BY <1>7, <2>1, <2>2 DEF PassOver, Settled, Delivered, Got, service, world,
                            locals, history
  <2> QED
    BY <1>2, <1>o, <2>1, <2>3 DEF Knows, Begun
<1>8. CASE FindMapping(w) /\ pc'[w] \in Busy
  <2>1. /\ batch'[w] = batch[w] /\ part'[w] = part[w] /\ pc[w] = "find"
        /\ current'[w] = current[w] /\ Record(w).kind = "reply"
        /\ outbox' = outbox /\ mapped' = mapped
        /\ pc'[w] \in {"ack", "deliver"}
    BY <1>0, <1>8 DEF FindMapping, Return, Goto, Busy, locals, service,
                      world, rows, TypeOK
  <2>2. current[w]' = current[w] /\ Record(w)' = Record(w)
    BY <2>1 DEF Record
  <2>o. pc[w] \in Busy
    BY <2>1 DEF Busy
  <2>3. CASE pc'[w] = "ack"
    <3>1. current[w] \in gaveUp'
      BY <1>0, <1>8, <2>3 DEF FindMapping, Return, Goto, TypeOK
    <3> QED
      BY <1>2, <1>o, <2>1, <2>2, <2>3, <2>o, <3>1 DEF Knows, Settled, Begun
  <2>4. CASE pc'[w] = "deliver"
    <3>1. PICK c \in MappedTo(w, Record(w).thread) : dest' = [dest EXCEPT ![w] = c]
      BY <1>0, <1>8, <2>4 DEF FindMapping, Return, Goto, TypeOK
    <3>2. c \in Chats /\ row[c] # NoRow /\ row[c].thread = Record(w).thread
      BY OutboundAssumption DEF MappedTo
    <3>3. Record(w).thread \in mapped[c] /\ dest'[w] = c
      BY <1>0, <3>1, <3>2 DEF OrderInv, RowsMapped, TypeOK
    <3>4. part'[w] = 1
      BY <1>0, <2>1 DEF Knows, Begun
    <3> QED
      BY <1>2, <1>o, <2>1, <2>2, <2>4, <2>o, <3>3, <3>4 DEF Knows, Begun
  <2> QED
    BY <2>1, <2>3, <2>4
<1>9. CASE FinishDelivery(w)
  <2>1. /\ batch'[w] = batch[w] /\ pc'[w] = "ack" /\ pc[w] = "deliver"
        /\ current'[w] = current[w]
        /\ outbox' = outbox /\ sent' = sent /\ gaveUp' = gaveUp
        /\ part[w] > Len(Record(w).parts)
    BY <1>0, <1>9 DEF FinishDelivery, Goto, locals, service, world, history, TypeOK
  <2>2. pc[w] \in Busy
    BY <2>1 DEF Busy
  <2>3. Record(w).parts \in Seq(PartKinds) /\ part[w] \in Nat
    BY <1>0, <2>2, CurrentPosted DEF Message, TypeOK
  <2>4. Delivered(current[w])
    BY <1>0, <2>1, <2>3 DEF Knows, Delivered, Record
  <2>5. Settled(current[w])'
    BY <2>1, <2>4 DEF Settled, Delivered, Got
  <2> QED
    BY <1>2, <1>o, <2>1, <2>2, <2>5 DEF Knows, Begun
<1>10. CASE SendPart(w)
  <2>1. /\ batch'[w] = batch[w] /\ pc'[w] = "deliver" /\ pc[w] = "deliver"
        /\ outbox' = outbox /\ mapped' = mapped /\ dest' = dest
        /\ part'[w] = part[w] + 1 /\ part[w] \in Nat /\ current' = current
    BY <1>0, <1>10 DEF SendPart, Sending, service, rows, TypeOK
  <2>2. PICK m : m = current[w]
    OBVIOUS
  <2>3. current[w]' = m /\ Record(w)' = Record(w)
    BY <2>1, <2>2 DEF Record
  <2>4. PICK p : p = part[w]
    OBVIOUS
  <2>5. Got(m, p)'
    <3>1. Len(sent) \in Nat /\ DOMAIN sent' = 1 .. Len(sent) + 1
          /\ sent'[Len(sent) + 1] =
               [message |-> current[w], part |-> part[w], chat |-> dest[w]]
      BY <1>0, <1>10, ReceivePart DEF SendPart
    <3> QED
      BY <2>2, <2>4, <3>1 DEF Got
  <2>6. \A k \in 1 .. p - 1 : Got(m, k)'
    BY <1>0, <2>1, <2>2, <2>4, GotStays DEF Knows
  <2>7. \A k \in 1 .. part'[w] - 1 : Got(m, k)'
    BY <2>1, <2>4, <2>5, <2>6
  <2>8. \A k \in 1 .. part'[w] - 1 : Got(current[w], k)'
    BY <2>3, <2>7 DEF Got
  <2> QED
    BY <1>0, <1>2, <1>o, <2>1, <2>3, <2>8 DEF Knows, Busy, Begun
<1>11. CASE /\ pc[w] \in {"deliver", "mark"} /\ pc'[w] \in {"mark", "log"}
            /\ batch'[w] = batch[w] /\ current'[w] = current[w]
  BY <1>2, <1>o, <1>11 DEF Knows, Busy, Begun
<1>12. CASE LogOutboundFailure(w)
  <2>1. /\ batch'[w] = batch[w] /\ pc'[w] = "ack" /\ current[w] \in gaveUp'
        /\ current'[w] = current[w] /\ pc[w] \in Busy
    BY <1>0, <1>12 DEF LogOutboundFailure, Busy, Goto, locals, TypeOK
  <2>2. Settled(current[w])'
    BY <2>1 DEF Settled
  <2> QED
    BY <1>2, <1>o, <2>1, <2>2 DEF Knows, Begun
<1>13. CASE AckMessage(w)
  <2>1. /\ batch'[w] = batch[w] \ {current[w]} /\ pc'[w] = "next" /\ pc[w] = "ack"
    BY <1>0, <1>13 DEF AckMessage, NextMessage, Goto, TypeOK
  <2>2. Settled(current[w])
    BY <1>0, <2>1 DEF Knows
  <2>3. \A m \in batch'[w] : \A n \in 1 .. m - 1 : n \notin batch'[w] => Settled(n)'
    <3>1. PICK S : S = batch[w] \ {current[w]}
      OBVIOUS
    <3> QED
      BY <1>0, <2>1, <2>2, <3>1, ListStays
  <2> QED
    BY <1>1, <2>1, <2>3 DEF Knows, Busy, Begun
<1>14. CASE TakeMessage(w)
  <2>1. /\ batch'[w] = batch[w] /\ pc'[w] = "find"
        /\ OldestFirst => \A m \in batch[w] : current'[w] <= m
    BY <1>0, <1>14 DEF TakeMessage, Upcoming, Goto, TypeOK
  <2> QED
    BY <1>1, <1>2, <2>1 DEF Knows, Begun
<1> QED
  BY <1>0, <1>3, <1>4, <1>5, <1>6, <1>7, <1>8, <1>9, <1>10, <1>11, <1>12, <1>13,
     <1>14, WorkerDoes

-----------------------------------------------------------------------------
(* The step *)

LEMMA KnowsStep == OrderInv /\ Next => \A v \in Workers : Knows(v)'
<1> SUFFICES ASSUME OrderInv, Next, NEW v \in Workers PROVE Knows(v)'
  OBVIOUS
<1>0. TypeInv /\ Knows(v)
  BY DEF OrderInv
<1>1. CASE Environment
  <2>1. CASE Same(v)
    BY <1>0, <2>1, KnowsStays
  <2>2. CASE ~Same(v)
    <3>1. PICK w \in Workers : Stop(w)
      BY <1>0, <1>1, <2>2 DEF Environment, Same, PostMessage, ToggleBlock, Limit,
           InboundUpdatesRow, Subscribe, StreamEnds, InboundRejected, InboundSucceeds,
           locals
    <3>2. Rests(v) /\ part'[v] = 1
      BY <1>0, <2>2, <3>1 DEF Stop, DropMessage, Rests, Same, Busy, TypeInv, TypeOK
    <3> QED
      BY <3>2 DEF Rests, Knows, Busy, Begun
  <2> QED
    BY <2>1, <2>2
<1>2. ASSUME NEW w \in Workers, Worker(w) PROVE Knows(v)'
  <2>1. CASE v = w
    BY <1>2, <2>1, KnowsWorker
  <2>2. CASE v # w
    BY <1>0, <1>2, <2>2, OthersSame, KnowsStays
  <2> QED
    BY <2>1, <2>2
<1> QED
  BY <1>1, <1>2 DEF Next

LEMMA RowsStep == OrderInv /\ Next => RowsMapped'
<1> SUFFICES ASSUME OrderInv, Next PROVE RowsMapped'
  OBVIOUS
<1> USE DEF service, telegram, rows, world, wakeup, locals, history, token
<1>0. TypeOK /\ RowsMapped
  BY DEF OrderInv, TypeInv
<1>1. CASE UNCHANGED <<row, mapped>>
  BY <1>0, <1>1 DEF RowsMapped
<1>2. ASSUME NEW c \in Chats, NEW b \in BOOLEAN, row[c] # NoRow,
             row' = [row EXCEPT ![c].blocked = b], UNCHANGED mapped
      PROVE  RowsMapped'
  <2>1. row[c] \in Row
    BY <1>0, <1>2 DEF TypeOK
  <2>2. row'[c].thread = row[c].thread
    BY <1>0, <1>2, <2>1 DEF TypeOK, Row
  <2>3. \A d \in Chats \ {c} : row'[d] = row[d]
    BY <1>0, <1>2 DEF TypeOK
  <2> QED
    BY <1>0, <1>2, <2>2, <2>3 DEF RowsMapped
<1>3. ASSUME NEW c \in Chats, RowInserted(c) PROVE RowsMapped'
  <2>1. PICK t \in Threads : /\ row' = [row EXCEPT ![c] = [thread |-> t, blocked |-> FALSE]]
                             /\ mapped' = [mapped EXCEPT ![c] = @ \cup {t}]
    BY <1>3 DEF RowInserted
  <2>2. row'[c].thread = t /\ t \in mapped'[c]
    BY <1>0, <2>1 DEF TypeOK
  <2>3. \A d \in Chats \ {c} : row'[d] = row[d] /\ mapped'[d] = mapped[d]
    BY <1>0, <2>1 DEF TypeOK
  <2> QED
    BY <1>0, <2>2, <2>3 DEF RowsMapped
<1>4. ASSUME NEW c \in Chats, RowDeleted(c) PROVE RowsMapped'
  BY <1>0, <1>4 DEF RowDeleted, RowsMapped, TypeOK
<1>5. ASSUME NEW c \in Chats, BlockCleared(c) PROVE RowsMapped'
  BY <1>2, <1>5 DEF BlockCleared
<1>6. CASE Environment
  <2>1. CASE InboundUpdatesRow
    BY <1>3, <1>4, <1>5, <2>1 DEF InboundUpdatesRow
  <2>2. CASE ~InboundUpdatesRow
    BY <1>1, <1>6, <2>2 DEF Environment, PostMessage, ToggleBlock, Limit, Stop,
         Subscribe, StreamEnds, InboundRejected, InboundSucceeds
  <2> QED
    BY <2>1, <2>2
<1>7. ASSUME NEW w \in Workers, MarkChatBlocked(w) PROVE RowsMapped'
  <2>1. dest[w] \in Chats /\ mapped' = mapped
    BY <1>7 DEF MarkChatBlocked, OrderInv, TypeInv, Holds
  <2>2. CASE UNCHANGED row
    BY <1>1, <2>1, <2>2
  <2>3. CASE row[dest[w]] # NoRow /\ row' = [row EXCEPT ![dest[w]].blocked = TRUE]
    BY <1>2, <2>1, <2>3
  <2> QED
    BY <1>7, <2>2, <2>3 DEF MarkChatBlocked
<1>8. ASSUME NEW w \in Workers, Worker(w), ~MarkChatBlocked(w)
      PROVE  UNCHANGED <<row, mapped>>
  BY <1>8 DEF Worker, Deliver, Start, Tick, Wake, GetUnackedMessages, FinishRun,
              TakeMessage, PassOver, FindMapping, FinishDelivery, SendPart, SendFails, SendTimesOut,
              SendRefused, SendUnauthorized, SendLimited, SendBlocked,
              LogOutboundFailure, AckMessage, vars
<1> QED
  BY <1>1, <1>6, <1>7, <1>8 DEF Next

\* Before the message in hand every message is settled, if older messages are
\* listed first.
LEMMA EarlierSettled ==
  ASSUME OrderInv, OldestFirst, NEW w \in Workers, pc[w] \in Busy,
         NEW n \in 1 .. current[w] - 1
  PROVE  Settled(n)
<1>1. batch[w] \in SUBSET Nat /\ Knows(w) /\ TypeInv
  BY DEF OrderInv, TypeInv, TypeOK
<1>2. current[w] \in batch[w] /\ current[w] \in Nat
      /\ \A m \in batch[w] : current[w] <= m
  BY <1>1, CurrentPosted DEF Knows
<1>3. n \notin batch[w]
  BY <1>2
<1> QED
  BY <1>1, <1>2, <1>3 DEF Knows

LEMMA PartsStep == OrderInv /\ Next => \A i \in DOMAIN sent' : InOrder(i)'
<1> SUFFICES ASSUME OrderInv, Next PROVE \A i \in DOMAIN sent' : InOrder(i)'
  OBVIOUS
<1>0. TypeInv /\ TypeOK
  BY DEF OrderInv, TypeInv
<1>1. ASSUME NEW i \in DOMAIN sent PROVE InOrder(i)'
  <2>1. InOrder(i) /\ sent'[i] = sent[i]
    BY <1>0, SentGrows DEF OrderInv
  <2>2. PICK r : r = sent[i]
    OBVIOUS
  <2>3. /\ r \in Part /\ sent'[i] = r
        /\ r.message \in DOMAIN outbox
        /\ outbox[r.message].thread \in mapped[r.chat]
        /\ \A k \in 1 .. r.part - 1 :
             \E j \in 1 .. i - 1 : sent[j].message = r.message /\ sent[j].part = k
        /\ OldestFirst => \A n \in 1 .. r.message - 1 : Settled(n)
    BY <1>0, <2>1, <2>2 DEF InOrder, TypeOK
  <2>4. r.message \in DOMAIN outbox' /\ outbox'[r.message].thread \in mapped'[r.chat]
    BY <1>0, <2>3, Grows DEF Part
  <2>5. \A j \in 1 .. i - 1 : sent'[j] = sent[j]
    BY <1>0, SentGrows DEF TypeOK
  <2>6. OldestFirst => \A n \in 1 .. r.message - 1 : Settled(n)'
    BY <1>0, <2>3, EarlierPosted, SettledStays
  <2> QED
    BY <2>3, <2>4, <2>5, <2>6 DEF InOrder
<1>2. ASSUME NEW w \in Workers, Worker(w), Sending(w), Receive(w),
             NEW i \in DOMAIN sent' \ DOMAIN sent
      PROVE  InOrder(i)'
  <2>1. /\ Len(sent) \in Nat
        /\ DOMAIN sent = 1 .. Len(sent)
        /\ DOMAIN sent' = 1 .. Len(sent) + 1
        /\ \A j \in DOMAIN sent : sent'[j] = sent[j]
        /\ sent'[Len(sent) + 1] =
             [message |-> current[w], part |-> part[w], chat |-> dest[w]]
    BY <1>0, <1>2, ReceivePart
  <2>2. PICK m, p, c : m = current[w] /\ p = part[w] /\ c = dest[w]
    OBVIOUS
  <2>3. /\ i = Len(sent) + 1
        /\ sent'[i] = [message |-> m, part |-> p, chat |-> c]
    BY <1>2, <2>1, <2>2
  <2>4. pc[w] = "deliver" /\ pc[w] \in Busy /\ c \in Chats /\ Knows(w)
    BY <1>0, <1>2, <2>2 DEF Sending, TypeInv, Holds, Busy, OrderInv
  <2>5. m \in DOMAIN outbox /\ m \in DOMAIN outbox' /\ outbox'[m] = outbox[m]
    BY <1>0, <2>2, <2>4, CurrentPosted, Grows
  <2>6. outbox'[m].thread \in mapped'[c]
    BY <1>0, <2>2, <2>4, <2>5, Grows DEF Knows, Record
  <2>7. \A k \in 1 .. p - 1 :
          \E j \in 1 .. i - 1 : sent'[j].message = m /\ sent'[j].part = k
    BY <2>1, <2>2, <2>3, <2>4 DEF Knows, Got
  <2>8. OldestFirst => \A n \in 1 .. m - 1 : Settled(n)'
    BY <1>0, <2>2, <2>4, <2>5, EarlierSettled, EarlierPosted, SettledStays
  <2> QED
    BY <2>3, <2>5, <2>6, <2>7, <2>8 DEF InOrder
<1> QED
  BY <1>1, <1>2, Arrives

LEMMA AckStep ==
  OrderInv /\ Next => acked' \subseteq DOMAIN outbox' /\ AckedAreSettled'
<1> SUFFICES ASSUME OrderInv, Next
             PROVE  \A m \in acked' : m \in DOMAIN outbox' /\ Settled(m)'
  BY DEF AckedAreSettled
<1>0. TypeInv
  BY DEF OrderInv
<1>1. ASSUME NEW m \in acked PROVE m \in DOMAIN outbox' /\ Settled(m)'
  BY <1>0, Grows, SettledStays DEF OrderInv, AckedAreSettled
<1>2. ASSUME NEW w \in Workers, AckMessage(w)
      PROVE  \A m \in acked' \ acked : m \in DOMAIN outbox' /\ Settled(m)'
  <2>1. pc[w] = "ack" /\ Knows(w) /\ pc[w] \in Busy
    BY <1>2 DEF AckMessage, OrderInv, TypeInv, Holds, Busy
  <2>2. PICK m : m = current[w]
    OBVIOUS
  <2>3. m \in DOMAIN outbox /\ Settled(m)
    BY <1>0, <2>1, <2>2, CurrentPosted DEF Knows
  <2>4. acked' \subseteq acked \cup {m}
    BY <1>2, <2>2 DEF AckMessage
  <2> QED
    BY <1>0, <2>3, <2>4, Grows, SettledStays
<1>3. ~(\E w \in Workers : AckMessage(w)) => UNCHANGED acked
  BY DEF Next, Environment, PostMessage, InboundUpdatesRow, ToggleBlock, Limit, Stop,
         Subscribe, StreamEnds, InboundRejected, InboundSucceeds, Worker, Deliver,
         Start, Tick, Wake, GetUnackedMessages, FinishRun, TakeMessage, PassOver, FindMapping,
         FinishDelivery, SendPart, SendFails, SendTimesOut, SendRefused,
         SendUnauthorized, SendLimited, SendBlocked, MarkChatBlocked,
         LogOutboundFailure, vars, service
<1> QED
  BY <1>1, <1>2, <1>3

LEMMA StepOrder == OrderInv /\ Next => OrderInv'
<1> SUFFICES ASSUME OrderInv, Next PROVE OrderInv'
  OBVIOUS
<1>1. TypeInv'
  BY StepType DEF OrderInv
<1> QED
  BY <1>1, AckStep, RowsStep, PartsStep, KnowsStep DEF OrderInv

LEMMA StutterOrder == OrderInv /\ UNCHANGED vars => OrderInv'
<1> SUFFICES ASSUME OrderInv, UNCHANGED vars PROVE OrderInv'
  OBVIOUS
<1>1. TypeInv'
  BY StutterType DEF OrderInv
<1> QED
  BY <1>1 DEF OrderInv, AckedAreSettled, RowsMapped, InOrder, Knows, Settled, Delivered,
          Got, Record, vars, service, telegram, rows, world, wakeup, locals,
          history, token

LEMMA AlwaysOrdered == Spec => []OrderInv
<1>1. OrderInv /\ [Next]_vars => OrderInv'
  BY StepOrder, StutterOrder
<1> QED
  BY InitOrder, <1>1, PTL DEF Spec

\* The platform is told to forget a reply only when all of it is with Telegram,
\* or when it was given up for a reason.
THEOREM AcknowledgedAreSettled == Spec => []AckedAreSettled
<1>1. OrderInv => AckedAreSettled
  BY DEF OrderInv
<1> QED
  BY <1>1, AlwaysOrdered, PTL

\* A part arrives after the earlier parts of its message, whatever the order of
\* the list, and even when two processes serve one installation.  If the Threads
\* service lists older messages first (OldestFirst), it also arrives after the
\* earlier messages of its thread are settled: a message that fails without being
\* given up ends the run before a later one is taken.
THEOREM PartsArriveInOrder == Spec => []DeliveredInOrder
<1>1. OrderInv => DeliveredInOrder
  BY DEF OrderInv, InOrder, DeliveredInOrder
<1> QED
  BY <1>1, AlwaysOrdered, PTL

\* No chat ever receives a part of a thread that was not its own.
THEOREM NoForeignPart == Spec => []PartsReachOwner
<1>1. OrderInv => PartsReachOwner
  BY DEF OrderInv, InOrder, PartsReachOwner
<1> QED
  BY <1>1, AlwaysOrdered, PTL

-----------------------------------------------------------------------------
(* Outbound implements Deliveries.                                         *)

-----------------------------------------------------------------------------
(* The abstract variables *)

\* The threads of a list of messages.
ThreadsOf(s) == [m \in DOMAIN s |-> s[m].thread]

Finished == {m \in DOMAIN outbox : Settled(m)}

LEMMA ThreadsOfSeq ==
  ASSUME NEW s \in Seq(Message)
  PROVE  /\ ThreadsOf(s) \in Seq(Nat)
         /\ Len(ThreadsOf(s)) = Len(s)
         /\ Len(s) \in Nat
         /\ DOMAIN s = 1 .. Len(s)
<1>1. Len(s) \in Nat /\ DOMAIN s = 1 .. Len(s) /\ s \in [1 .. Len(s) -> Message]
  BY LenProperties
<1>2. ThreadsOf(s) \in [1 .. Len(s) -> Nat]
  BY <1>1 DEF ThreadsOf, Message
<1>3. ThreadsOf(s) \in Seq(Nat)
  BY <1>1, <1>2, SeqDef
<1>4. DOMAIN ThreadsOf(s) = 1 .. Len(s) /\ DOMAIN ThreadsOf(s) = 1 .. Len(ThreadsOf(s))
      /\ Len(ThreadsOf(s)) \in Nat
  BY <1>2, <1>3, LenProperties
<1> QED
  BY <1>1, <1>3, <1>4

LEMMA ThreadsOfAppend ==
  ASSUME NEW s \in Seq(Message), NEW r \in Message
  PROVE  ThreadsOf(Append(s, r)) = Append(ThreadsOf(s), r.thread)
<1> DEFINE t == Append(s, r)
           a == ThreadsOf(t)
           b == Append(ThreadsOf(s), r.thread)
<1>1. t \in Seq(Message) /\ Len(t) = Len(s) + 1 /\ t[Len(s) + 1] = r
      /\ \A i \in 1 .. Len(s) : t[i] = s[i]
  BY AppendProperties
<1>2. r.thread \in Nat
  BY DEF Message
<1>3. a \in Seq(Nat) /\ Len(a) = Len(s) + 1 /\ Len(s) \in Nat
      /\ DOMAIN t = 1 .. Len(s) + 1 /\ DOMAIN s = 1 .. Len(s)
  BY <1>1, ThreadsOfSeq
<1>4. ThreadsOf(s) \in Seq(Nat) /\ Len(ThreadsOf(s)) = Len(s)
  BY ThreadsOfSeq
<1>5. b \in Seq(Nat) /\ Len(b) = Len(s) + 1 /\ b[Len(s) + 1] = r.thread
      /\ \A i \in 1 .. Len(s) : b[i] = ThreadsOf(s)[i]
  BY <1>2, <1>4, AppendProperties
<1>6. \A i \in 1 .. Len(s) + 1 : a[i] = t[i].thread
  BY <1>3 DEF ThreadsOf
<1>7. \A i \in 1 .. Len(s) : ThreadsOf(s)[i] = s[i].thread
  BY <1>3 DEF ThreadsOf
<1> HIDE DEF t, a, b
<1>8. \A i \in 1 .. Len(a) : a[i] = b[i]
  <2> SUFFICES ASSUME NEW i \in 1 .. Len(s) + 1 PROVE a[i] = b[i]
    BY <1>3
  <2>1. CASE i = Len(s) + 1
    BY <1>1, <1>5, <1>6, <2>1
  <2>2. CASE i # Len(s) + 1
    <3>1. i \in 1 .. Len(s)
      BY <1>3, <2>2
    <3> QED
      BY <1>1, <1>5, <1>6, <1>7, <3>1
  <2> QED
    BY <2>1, <2>2
<1>9. a = b
  BY <1>3, <1>5, <1>8, SeqEqual
<1> QED
  BY <1>9 DEF a, b, t

LEMMA InitPromise == Init => DeliveriesOf!Init
<1> SUFFICES ASSUME Init
             PROVE  ThreadsOf(outbox) = <<>> /\ Finished = {} /\ acked = {}
  BY DEF DeliveriesOf!Init, ThreadsOf, Finished
<1>1. outbox = <<>> /\ DOMAIN outbox = {}
  BY DEF Init
<1>2. <<>> \in Seq(Message) /\ Len(<<>>) = 0
  BY EmptySeq
<1>3. ThreadsOf(<<>>) \in Seq(Nat) /\ Len(ThreadsOf(<<>>)) = 0
  BY <1>2, ThreadsOfSeq
<1>4. ThreadsOf(<<>>) = <<>>
  BY <1>3, EmptySeq
<1> QED
  BY <1>1, <1>4 DEF Init, Finished

-----------------------------------------------------------------------------
(* The steps *)

\* What a step other than PostMessage settles or acknowledges.
LEMMA StepSettles ==
  ASSUME TypeInv, Next, ~PostMessage
  PROVE  /\ outbox' = outbox
         /\ \/ UNCHANGED <<sent, gaveUp, acked>>
            \/ \E w \in Workers :
                 /\ pc[w] \in Busy
                 /\ acked' = acked
                 /\ UNCHANGED sent \/ (Sending(w) /\ Receive(w))
                 /\ gaveUp' \in {gaveUp, gaveUp \cup {current[w]}}
            \/ \E w \in Workers :
                 /\ pc[w] = "ack"
                 /\ acked' \in {acked, acked \cup {current[w]}}
                 /\ UNCHANGED <<sent, gaveUp>>
<1> USE DEF service, telegram, rows, world, wakeup, locals, history, token
<1>1. CASE Environment
  BY <1>1 DEF Environment, InboundUpdatesRow, ToggleBlock, Limit, Stop, Subscribe,
       StreamEnds, InboundRejected, InboundSucceeds
<1>2. ASSUME NEW w \in Workers,
             \/ Start(w) \/ Tick(w) \/ Wake(w) \/ GetUnackedMessages(w) \/ FinishRun(w)
             \/ TakeMessage(w) \/ PassOver(w) \/ MarkChatBlocked(w)
             \/ FinishDelivery(w)
      PROVE  outbox' = outbox /\ UNCHANGED <<sent, gaveUp, acked>>
  BY <1>2 DEF Start, Tick, Wake, GetUnackedMessages, FinishRun, TakeMessage,
              PassOver, MarkChatBlocked, FinishDelivery
<1>3. ASSUME NEW w \in Workers, FindMapping(w) \/ LogOutboundFailure(w)
      PROVE  /\ outbox' = outbox /\ acked' = acked /\ sent' = sent /\ pc[w] \in Busy
             /\ gaveUp' \in {gaveUp, gaveUp \cup {current[w]}}
  BY <1>3 DEF FindMapping, LogOutboundFailure, Busy
<1>4. ASSUME NEW w \in Workers, Deliver(w), ~FinishDelivery(w)
      PROVE  /\ outbox' = outbox /\ acked' = acked /\ gaveUp' = gaveUp /\ pc[w] \in Busy
             /\ UNCHANGED sent \/ (Sending(w) /\ Receive(w))
  BY <1>4 DEF Deliver, SendPart, SendFails, SendTimesOut, SendRefused, SendUnauthorized,
              SendLimited, SendBlocked, Sending, Busy, vars
<1>5. ASSUME NEW w \in Workers, AckMessage(w)
      PROVE  /\ outbox' = outbox /\ pc[w] = "ack" /\ UNCHANGED <<sent, gaveUp>>
             /\ acked' \in {acked, acked \cup {current[w]}}
  BY <1>5 DEF AckMessage
<1>6. CASE \E w \in Workers : Worker(w)
  <2>1. PICK w \in Workers : Worker(w)
    BY <1>6
  <2>2. CASE AckMessage(w)
    BY <1>5, <2>2
  <2>3. CASE FindMapping(w) \/ LogOutboundFailure(w)
    BY <1>3, <2>3
  <2>4. CASE Deliver(w) /\ ~FinishDelivery(w)
    BY <1>4, <2>4
  <2> QED
    BY <1>2, <2>1, <2>2, <2>3, <2>4 DEF Worker, Deliver
<1> QED
  BY <1>1, <1>6 DEF Next

\* A message that no part reaches and that is not given up is settled or not as
\* it was.
LEMMA OthersSettled ==
  ASSUME TypeInv, NEW m \in DOMAIN outbox, outbox' = outbox,
         UNCHANGED sent \/ \E w \in Workers : Sending(w) /\ Receive(w) /\ m # current[w],
         m \in gaveUp' <=> m \in gaveUp
  PROVE  Settled(m)' <=> Settled(m)
<1>1. \A k : Got(m, k)' <=> Got(m, k)
  <2>1. CASE UNCHANGED sent
    BY <2>1 DEF Got
  <2>2. CASE \E w \in Workers : Sending(w) /\ Receive(w) /\ m # current[w]
    <3>1. PICK w \in Workers : Sending(w) /\ Receive(w) /\ m # current[w]
      BY <2>2
    <3>2. /\ Len(sent) \in Nat
          /\ DOMAIN sent = 1 .. Len(sent)
          /\ DOMAIN sent' = 1 .. Len(sent) + 1
          /\ \A i \in DOMAIN sent : sent'[i] = sent[i]
          /\ sent'[Len(sent) + 1] =
               [message |-> current[w], part |-> part[w], chat |-> dest[w]]
      BY <3>1, ReceivePart
    <3>3. \A i \in DOMAIN sent' : i \in DOMAIN sent \/ i = Len(sent) + 1
      BY <3>2
    <3>4. sent'[Len(sent) + 1].message # m /\ DOMAIN sent \subseteq DOMAIN sent'
      BY <3>1, <3>2
    <3> HIDE <3>1
    <3> QED
      BY <3>2, <3>3, <3>4 DEF Got
  <2> QED
    BY <2>1, <2>2
<1>2. Delivered(m)' <=> Delivered(m)
  BY <1>1 DEF Delivered
<1> QED
  BY <1>2 DEF Settled

\* Posting settles nothing that was posted before.
LEMMA PostPromise == OrderInv /\ PostMessage => DeliveriesOf!Next
<1> SUFFICES ASSUME OrderInv, PostMessage PROVE DeliveriesOf!Next
  OBVIOUS
<1>0. TypeInv /\ TypeOK /\ outbox \in Seq(Message)
  BY DEF OrderInv, TypeInv, TypeOK
<1>1. PICK r \in Message : outbox' = Append(outbox, r)
  BY <1>0, PostedIsMessage
<1>2. /\ DOMAIN outbox = 1 .. Len(outbox) /\ Len(outbox) \in Nat
      /\ DOMAIN outbox' = 1 .. Len(outbox) + 1
      /\ \A m \in DOMAIN outbox : outbox'[m] = outbox[m]
  BY <1>0, <1>1, AppendPosted
<1>3. ThreadsOf(outbox)' = Append(ThreadsOf(outbox), r.thread)
  BY <1>0, <1>1, ThreadsOfAppend
<1>4. Len(ThreadsOf(outbox)) = Len(outbox)
  BY <1>0, ThreadsOfSeq
<1>5. UNCHANGED <<sent, gaveUp, acked>>
  BY <1>0, <1>1 DEF PostMessage, service, world, history
<1>6. \A m \in DOMAIN outbox : Settled(m)' <=> Settled(m)
  BY <1>2, <1>5 DEF Settled, Delivered, Got
<1>7. Finished' \in {Finished, Finished \cup {Len(outbox) + 1}}
  BY <1>2, <1>6 DEF Finished
<1>8. PICK t \in Threads \cup {0} : r.thread = t
  <2>1. CASE \E c \in Chats, b \in Bodies : \E t \in mapped[c] :
               outbox' = Append(outbox, [kind |-> "reply", thread |-> t, parts |-> b])
    <3>1. PICK c \in Chats, b \in Bodies : \E t \in mapped[c] :
            outbox' = Append(outbox, [kind |-> "reply", thread |-> t, parts |-> b])
      BY <2>1
    <3>2. PICK t \in mapped[c] :
            outbox' = Append(outbox, [kind |-> "reply", thread |-> t, parts |-> b])
      BY <3>1
    <3>3. t \in Threads
      BY <1>0 DEF TypeOK
    <3>4. t \in Nat /\ b \in Seq(PartKinds)
      BY <3>3, OutboundAssumption
    <3>5. [kind |-> "reply", thread |-> t, parts |-> b] \in Message
      BY <3>4 DEF Message, MessageKinds
    <3>6. r = [kind |-> "reply", thread |-> t, parts |-> b]
      <4>1. PICK q \in Message : q = [kind |-> "reply", thread |-> t, parts |-> b]
        BY <3>5
      <4>2. Append(outbox, q) = Append(outbox, r)
        BY <1>1, <3>2, <4>1
      <4>3. q = r
        BY <1>0, <4>2, AppendInjective
      <4> QED
        BY <4>1, <4>3
    <3> QED
      BY <3>3, <3>6
  <2>2. CASE outbox' = Append(outbox, [kind |-> "other", thread |-> 0, parts |-> <<>>])
    <3>1. [kind |-> "other", thread |-> 0, parts |-> <<>>] \in Message
      BY EmptySeq DEF Message, MessageKinds
    <3>2. r = [kind |-> "other", thread |-> 0, parts |-> <<>>]
      <4>1. PICK q \in Message : q = [kind |-> "other", thread |-> 0, parts |-> <<>>]
        BY <3>1
      <4>2. Append(outbox, q) = Append(outbox, r)
        BY <1>1, <2>2, <4>1
      <4>3. q = r
        BY <1>0, <4>2, AppendInjective
      <4> QED
        BY <4>1, <4>3
    <3> QED
      BY <3>2
  <2> QED
    BY <2>1, <2>2 DEF PostMessage
<1>9. DeliveriesOf!Post
  BY <1>3, <1>4, <1>5, <1>7, <1>8 DEF DeliveriesOf!Post, ThreadsOf, Finished
<1> QED
  BY <1>9 DEF DeliveriesOf!Next

\* Any other step settles or acknowledges one message at most: the one in hand,
\* before which every message is settled if older ones are listed first.
LEMMA OtherPromise ==
  OrderInv /\ Next /\ ~PostMessage
    => DeliveriesOf!Next \/ UNCHANGED <<ThreadsOf(outbox), Finished, acked>>
<1> SUFFICES ASSUME OrderInv, Next, ~PostMessage
             PROVE  DeliveriesOf!Next \/ UNCHANGED <<ThreadsOf(outbox), Finished, acked>>
  OBVIOUS
<1>0. TypeInv /\ outbox \in Seq(Message)
  BY DEF OrderInv, TypeInv, TypeOK
<1>1. outbox' = outbox /\ UNCHANGED ThreadsOf(outbox)
  BY <1>0, StepSettles DEF ThreadsOf
<1>2. Len(ThreadsOf(outbox)) = Len(outbox) /\ DOMAIN outbox = 1 .. Len(outbox)
  BY <1>0, ThreadsOfSeq
<1>3. \A m \in DOMAIN outbox : ThreadsOf(outbox)[m] = outbox[m].thread
  BY DEF ThreadsOf
<1>4. CASE UNCHANGED <<sent, gaveUp, acked>>
  BY <1>1, <1>4 DEF Finished, Settled, Delivered, Got
<1>5. ASSUME NEW w \in Workers, pc[w] \in Busy, acked' = acked,
             UNCHANGED sent \/ (Sending(w) /\ Receive(w)),
             gaveUp' \in {gaveUp, gaveUp \cup {current[w]}}
      PROVE  DeliveriesOf!Next \/ UNCHANGED <<ThreadsOf(outbox), Finished, acked>>
  <2>1. PICK m : m = current[w]
    OBVIOUS
  <2>2. m \in DOMAIN outbox
    BY <1>0, <1>5, <2>1, CurrentPosted
  <2>3. \A n \in DOMAIN outbox \ {m} : Settled(n)' <=> Settled(n)
    BY <1>0, <1>1, <1>5, <2>1, OthersSettled
  <2>4. Settled(m) => Settled(m)'
    BY <1>0, <2>2, SettledStays
  <2>5. Finished' \in {Finished, Finished \cup {m}}
    BY <1>1, <2>2, <2>3, <2>4 DEF Finished
  <2>6. OldestFirst => \A n \in 1 .. m - 1 : n \in Finished
    BY <1>0, <1>5, <2>1, <2>2, EarlierSettled, EarlierPosted DEF Finished
  <2>7. CASE Finished' = Finished \cup {m}
    <3>1. DeliveriesOf!Settle(m)
      BY <1>1, <1>5, <2>6, <2>7 DEF DeliveriesOf!Settle, ThreadsOf, Finished
    <3> QED
      BY <1>2, <2>2, <3>1 DEF DeliveriesOf!Next, ThreadsOf
  <2> QED
    BY <1>1, <1>5, <2>5, <2>7
<1>6. ASSUME NEW w \in Workers, pc[w] = "ack", UNCHANGED <<sent, gaveUp>>,
             acked' \in {acked, acked \cup {current[w]}}
      PROVE  DeliveriesOf!Next \/ UNCHANGED <<ThreadsOf(outbox), Finished, acked>>
  <2>1. PICK m : m = current[w]
    OBVIOUS
  <2>2. m \in DOMAIN outbox /\ Settled(m)
    BY <1>0, <1>6, <2>1, CurrentPosted DEF TypeInv, Holds, Busy, OrderInv, Knows
  <2>3. Finished' = Finished
    BY <1>1, <1>6 DEF Finished, Settled, Delivered, Got
  <2>4. CASE acked' = acked \cup {m}
    <3>1. DeliveriesOf!Acknowledge(m)
      BY <1>1, <2>2, <2>3, <2>4 DEF DeliveriesOf!Acknowledge, ThreadsOf, Finished
    <3> QED
      BY <1>2, <2>2, <3>1 DEF DeliveriesOf!Next, ThreadsOf
  <2> QED
    BY <1>1, <1>6, <2>1, <2>3, <2>4
<1> QED
  BY <1>0, <1>4, <1>5, <1>6, StepSettles

\* The outbound side keeps the promise of Deliveries, whatever the workers, the
\* users and the failures do: a message is settled before it is acknowledged,
\* what is settled or acknowledged stays so, and under OldestFirst a thread's
\* messages are settled in their order.  For either value of OldestFirst.
THEOREM KeepsDeliveries == Spec => DeliveriesSpec
<1>1. OrderInv /\ [Next]_vars => [DeliveriesOf!Next]_DeliveriesOf!vars
  <2> SUFFICES ASSUME OrderInv, [Next]_vars
               PROVE  DeliveriesOf!Next \/ UNCHANGED DeliveriesOf!vars
    OBVIOUS
  <2>1. CASE UNCHANGED vars
    BY <2>1 DEF DeliveriesOf!vars, vars, service, world, history, Settled, Delivered, Got
  <2>2. CASE PostMessage
    BY <2>2, PostPromise
  <2>3. CASE Next /\ ~PostMessage
    BY <2>3, OtherPromise DEF DeliveriesOf!vars, ThreadsOf, Finished
  <2> QED
    BY <2>1, <2>2, <2>3
<1> QED
  BY InitPromise, <1>1, AlwaysOrdered, PTL DEF Spec, DeliveriesSpec, DeliveriesOf!Spec

-----------------------------------------------------------------------------
(* One installation: ReplyReachesChat.                                     *)
(*                                                                         *)
(* Without faults a reply is given up only for an excuse that lasts: its   *)
(* thread is no longer, and will never again be, the thread of a chat      *)
(* whose user lets the bot in, or a part of it is bad.                     *)

Disjoint == \A c \in Chats, d \in Chats : \A t \in mapped[c] : t \in mapped[d] => c = d

Addressed ==
  \A m \in DOMAIN outbox :
    outbox[m].kind = "reply" => \E c \in Chats : outbox[m].thread \in mapped[c]

OnlyBlockersBlock == \A c \in Chats : userBlocked[c] => c \in MayBlock

Excused(m) ==
  /\ m \in DOMAIN outbox
  /\ outbox[m].kind = "reply"
  /\ \A c \in Chats \ MayBlock :
       row[c] # NoRow /\ row[c].thread = outbox[m].thread
         => \E k \in DOMAIN outbox[m].parts : outbox[m].parts[k] = "bad"

Excuses(w) ==
  /\ pc[w] \in {"mark", "log"} => Excused(current[w])
  /\ pc[w] = "mark" => dest[w] \in MayBlock

Faultless ==
  /\ \A c \in Chats : row[c] # NoRow /\ row[c].blocked => c \in MayBlock
  /\ \A m \in gaveUp : Excused(m)
  /\ \A w \in Workers : Excuses(w)

ReachInv ==
  /\ Disjoint /\ Addressed /\ OnlyBlockersBlock
  /\ faults = 0 => Faultless

LEMMA InitReach == Init => ReachInv
  BY DEF Init, ReachInv, Disjoint, Addressed, OnlyBlockersBlock, Faultless, Excuses

\* A thread is only ever named by the row of one chat.
LEMMA DisjointStep == OrderInv /\ Disjoint /\ Next => Disjoint'
<1> SUFFICES ASSUME OrderInv, Disjoint, Next PROVE Disjoint'
  OBVIOUS
<1> USE DEF service, telegram, rows, world, wakeup, locals, history, token
<1>0. mapped \in [Chats -> SUBSET Threads]
  BY DEF OrderInv, TypeInv, TypeOK
<1>1. CASE UNCHANGED mapped
  BY <1>1 DEF Disjoint
<1>2. ASSUME NEW c \in Chats, RowInserted(c) PROVE Disjoint'
  <2>1. PICK t \in Threads \ UNION {mapped[d] : d \in Chats} :
          mapped' = [mapped EXCEPT ![c] = @ \cup {t}]
    BY <1>2 DEF RowInserted
  <2>2. \A d \in Chats : t \notin mapped[d]
    BY <2>1
  <2>3. \A d \in Chats : mapped'[d] = IF d = c THEN mapped[d] \cup {t} ELSE mapped[d]
    BY <1>0, <2>1
  <2> QED
    BY <2>2, <2>3 DEF Disjoint
<1>3. (\A c \in Chats : ~RowInserted(c)) => UNCHANGED mapped
  BY DEF Next, Environment, PostMessage, InboundUpdatesRow, RowDeleted, BlockCleared,
         ToggleBlock, Limit, Stop, Subscribe, StreamEnds, InboundRejected,
         InboundSucceeds, Worker, Deliver, Start, Tick, Wake, GetUnackedMessages,
         FinishRun, TakeMessage, PassOver, FindMapping, FinishDelivery, SendPart, SendFails,
         SendTimesOut, SendRefused, SendUnauthorized, SendLimited, SendBlocked,
         MarkChatBlocked, LogOutboundFailure, AckMessage, vars
<1> QED
  BY <1>1, <1>2, <1>3

LEMMA NewPosted ==
  ASSUME outbox \in Seq(Message), NEW r \in Message, outbox' = Append(outbox, r),
         NEW m \in DOMAIN outbox' \ DOMAIN outbox
  PROVE  outbox'[m] = r
<1>1. /\ Len(outbox) \in Nat
      /\ DOMAIN outbox = 1 .. Len(outbox)
      /\ DOMAIN outbox' = 1 .. Len(outbox) + 1
      /\ outbox'[Len(outbox) + 1] = r
  BY AppendProperties
<1>2. m = Len(outbox) + 1
  BY <1>1
<1> QED
  BY <1>1, <1>2

\* A reply is posted in a thread that a row has named.
LEMMA AddressedStep == TypeInv /\ Addressed /\ Next => Addressed'
<1> SUFFICES ASSUME TypeInv, Addressed, Next, NEW m \in DOMAIN outbox',
                    outbox'[m].kind = "reply"
             PROVE  \E c \in Chats : outbox'[m].thread \in mapped'[c]
  BY DEF Addressed
<1>1. CASE m \in DOMAIN outbox
  <2>1. outbox'[m] = outbox[m]
    BY <1>1, Grows
  <2>2. PICK c \in Chats : outbox[m].thread \in mapped[c]
    BY <1>1, <2>1 DEF Addressed
  <2> QED
    BY <2>1, <2>2, Grows
<1>2. CASE m \notin DOMAIN outbox
  <2>1. PostMessage
    BY <1>2
       DEF Next, Environment, InboundUpdatesRow, ToggleBlock, Limit, Stop, Subscribe,
           StreamEnds, InboundRejected, InboundSucceeds, Worker, Deliver, Start, Tick,
           Wake, GetUnackedMessages, FinishRun, TakeMessage, PassOver, FindMapping, FinishDelivery,
           SendPart, SendFails, SendTimesOut, SendRefused, SendUnauthorized, SendLimited,
           SendBlocked, MarkChatBlocked, LogOutboundFailure, AckMessage, vars, service
  <2>2. mapped' = mapped
    BY <2>1 DEF PostMessage, world, rows
  <2>3. CASE \E c \in Chats, b \in Bodies : \E t \in mapped[c] :
               outbox' = Append(outbox, [kind |-> "reply", thread |-> t, parts |-> b])
    <3>1. PICK c \in Chats, b \in Bodies : \E t \in mapped[c] :
            outbox' = Append(outbox, [kind |-> "reply", thread |-> t, parts |-> b])
      BY <2>3
    <3>2. PICK t \in mapped[c] :
            outbox' = Append(outbox, [kind |-> "reply", thread |-> t, parts |-> b])
      BY <3>1
    <3>3. PICK q : q = [kind |-> "reply", thread |-> t, parts |-> b]
      OBVIOUS
    <3>4. outbox \in Seq(Message) /\ t \in Nat /\ b \in Seq(PartKinds)
      BY OutboundAssumption DEF TypeInv, TypeOK
    <3>5. q \in Message /\ outbox' = Append(outbox, q)
      BY <3>2, <3>3, <3>4 DEF Message, MessageKinds
    <3>6. outbox'[m] = q
      BY <1>2, <3>4, <3>5, NewPosted
    <3> QED
      BY <2>2, <3>2, <3>3, <3>6
  <2>4. CASE outbox' = Append(outbox, [kind |-> "other", thread |-> 0, parts |-> <<>>])
    <3>1. PICK q : q = [kind |-> "other", thread |-> 0, parts |-> <<>>]
      OBVIOUS
    <3>2. outbox \in Seq(Message)
      BY DEF TypeInv, TypeOK
    <3>3. q \in Message /\ outbox' = Append(outbox, q)
      BY <2>4, <3>1 DEF Message, MessageKinds
    <3>4. outbox'[m] = q
      BY <1>2, <3>2, <3>3, NewPosted
    <3> QED
      BY <3>1, <3>4
  <2> QED
    BY <2>1, <2>3, <2>4 DEF PostMessage
<1> QED
  BY <1>1, <1>2

LEMMA BlockersStep == TypeInv /\ OnlyBlockersBlock /\ Next => OnlyBlockersBlock'
<1> SUFFICES ASSUME TypeInv, OnlyBlockersBlock, Next PROVE OnlyBlockersBlock'
  OBVIOUS
<1> USE DEF service, telegram, rows, world, wakeup, locals, history, token
<1>1. CASE ToggleBlock
  <2>1. PICK c \in MayBlock : userBlocked' = [userBlocked EXCEPT ![c] = ~@]
    BY <1>1 DEF ToggleBlock
  <2>2. userBlocked \in [Chats -> BOOLEAN]
    BY DEF TypeInv, TypeOK
  <2> QED
    BY <2>1, <2>2 DEF OnlyBlockersBlock
<1>2. CASE ~ToggleBlock
  <2>1. UNCHANGED userBlocked
    BY <1>2
       DEF Next, Environment, PostMessage, InboundUpdatesRow, Limit, Stop, Subscribe,
           StreamEnds, InboundRejected, InboundSucceeds, Worker, Deliver, Start, Tick,
           Wake, GetUnackedMessages, FinishRun, TakeMessage, PassOver, FindMapping, FinishDelivery,
           SendPart, SendFails, SendTimesOut, SendRefused, SendUnauthorized, SendLimited,
           SendBlocked, MarkChatBlocked, LogOutboundFailure, AckMessage, vars
  <2> QED
    BY <2>1 DEF OnlyBlockersBlock
<1> QED
  BY <1>1, <1>2

\* A row that is there after a step kept its thread, or is new and names a
\* thread no row named before; only MarkChatBlocked sets its flag.
LEMMA RowsChange ==
  ASSUME TypeInv, Next, NEW c \in Chats, row'[c] # NoRow
  PROVE  \/ /\ row[c] # NoRow /\ row'[c].thread = row[c].thread
            /\ row'[c].blocked =>
                 row[c].blocked \/ \E w \in Workers : pc[w] = "mark" /\ dest[w] = c
         \/ /\ \A d \in Chats : row'[c].thread \notin mapped[d]
            /\ ~row'[c].blocked
<1> USE DEF service, telegram, rows, world, wakeup, locals, history, token
<1>0. row \in [Chats -> Row \cup {NoRow}]
  BY DEF TypeInv, TypeOK
<1>1. CASE UNCHANGED row
  BY <1>1
<1>2. ASSUME NEW d \in Chats, NEW b \in BOOLEAN, row[d] # NoRow,
             row' = [row EXCEPT ![d].blocked = b],
             b => \E w \in Workers : pc[w] = "mark" /\ dest[w] = d
      PROVE  /\ row[c] # NoRow /\ row'[c].thread = row[c].thread
             /\ row'[c].blocked =>
                  row[c].blocked \/ \E w \in Workers : pc[w] = "mark" /\ dest[w] = c
  <2>1. CASE c = d
    <3>1. row[c] \in Row
      BY <1>0, <1>2, <2>1
    <3>2. row'[c].thread = row[c].thread /\ row'[c].blocked = b
      BY <1>0, <1>2, <2>1, <3>1 DEF Row
    <3> QED
      BY <1>2, <2>1, <3>2
  <2>2. CASE c # d
    BY <1>0, <1>2, <2>2
  <2> QED
    BY <2>1, <2>2
<1>3. CASE InboundUpdatesRow
  <2>1. PICK d \in Chats : RowInserted(d) \/ RowDeleted(d) \/ BlockCleared(d)
    BY <1>3 DEF InboundUpdatesRow
  <2>2. CASE RowInserted(d)
    <3>1. PICK t \in Threads \ UNION {mapped[e] : e \in Chats} :
            row' = [row EXCEPT ![d] = [thread |-> t, blocked |-> FALSE]]
      BY <2>2 DEF RowInserted
    <3>2. \A e \in Chats : t \notin mapped[e]
      BY <3>1
    <3>3. CASE c = d
      BY <1>0, <3>1, <3>2, <3>3
    <3>4. CASE c # d
      BY <1>0, <3>1, <3>4
    <3> QED
      BY <3>3, <3>4
  <2>3. CASE RowDeleted(d)
    BY <1>0, <2>3 DEF RowDeleted
  <2>4. CASE BlockCleared(d)
    BY <1>2, <2>4 DEF BlockCleared
  <2> QED
    BY <2>1, <2>2, <2>3, <2>4
<1>4. ASSUME NEW w \in Workers, MarkChatBlocked(w), row' # row
      PROVE  /\ row[c] # NoRow /\ row'[c].thread = row[c].thread
             /\ row'[c].blocked =>
                  row[c].blocked \/ \E v \in Workers : pc[v] = "mark" /\ dest[v] = c
  <2>1. pc[w] = "mark" /\ dest[w] \in Chats
    BY <1>4 DEF MarkChatBlocked, TypeInv, Holds
  <2>2. row[dest[w]] # NoRow /\ row' = [row EXCEPT ![dest[w]].blocked = TRUE]
    BY <1>4 DEF MarkChatBlocked
  <2>3. PICK d \in Chats : d = dest[w]
    BY <2>1
  <2> QED
    BY <1>2, <2>1, <2>2, <2>3
<1>5. (\A w \in Workers : ~MarkChatBlocked(w)) /\ ~InboundUpdatesRow => UNCHANGED row
  BY DEF Next, Environment, PostMessage, ToggleBlock, Limit, Stop, Subscribe, StreamEnds,
         InboundRejected, InboundSucceeds, Worker, Deliver, Start, Tick, Wake,
         GetUnackedMessages, FinishRun, TakeMessage, PassOver, FindMapping, FinishDelivery, SendPart,
         SendFails, SendTimesOut, SendRefused, SendUnauthorized, SendLimited, SendBlocked,
         LogOutboundFailure, AckMessage, vars
<1> QED
  BY <1>1, <1>3, <1>4, <1>5

\* An excuse lasts.
LEMMA ExcusedStays ==
  ASSUME TypeInv, Addressed, Next, NEW m, Excused(m)
  PROVE  Excused(m)'
<1>1. m \in DOMAIN outbox /\ m \in DOMAIN outbox' /\ outbox'[m] = outbox[m]
  BY Grows DEF Excused
<1>2. ASSUME NEW c \in Chats \ MayBlock, row'[c] # NoRow,
             row'[c].thread = outbox'[m].thread
      PROVE  \E k \in DOMAIN outbox'[m].parts : outbox'[m].parts[k] = "bad"
  <2>1. PICK d \in Chats : outbox[m].thread \in mapped[d]
    BY <1>1 DEF Addressed, Excused
  <2>2. row[c] # NoRow /\ row'[c].thread = row[c].thread
    BY <1>1, <1>2, <2>1, RowsChange
  <2> QED
    BY <1>1, <1>2, <2>2 DEF Excused
<1> QED
  BY <1>1, <1>2 DEF Excused

\* No row of a thread leads to a chat that does not block but was named by the
\* row of one that may.
LEMMA BlockersThread ==
  ASSUME OrderInv, Disjoint, NEW m \in DOMAIN outbox, outbox[m].kind = "reply",
         NEW c \in MayBlock, outbox[m].thread \in mapped[c]
  PROVE  Excused(m)
<1> SUFFICES ASSUME NEW d \in Chats \ MayBlock, row[d] # NoRow,
                    row[d].thread = outbox[m].thread
             PROVE  FALSE
  BY DEF Excused
<1>1. outbox[m].thread \in mapped[d]
  BY DEF OrderInv, RowsMapped
<1>2. c \in Chats
  BY OutboundAssumption
<1> QED
  BY <1>1, <1>2 DEF Disjoint

\* A message without a mapping, or whose chat is blocked, has an excuse.
LEMMA MappingExcused ==
  ASSUME OrderInv, ReachInv, faults = 0, NEW w \in Workers, Serves[w] = Chats,
         FindMapping(w), gaveUp' # gaveUp
  PROVE  gaveUp' = gaveUp \cup {current[w]} /\ Excused(current[w])
<1>0. PICK m : m = current[w]
  OBVIOUS
<1>1. m \in DOMAIN outbox /\ outbox[m].kind = "reply" /\ Record(w) = outbox[m]
  BY <1>0, CurrentPosted DEF FindMapping, Busy, Record, OrderInv
<1>2. CASE \E c \in MappedTo(w, Record(w).thread) :
             row[c].blocked /\ gaveUp' = gaveUp \cup {current[w]}
  <2>1. PICK c \in MappedTo(w, Record(w).thread) : row[c].blocked
    BY <1>2
  <2>2. c \in Chats /\ row[c] # NoRow /\ row[c].thread = outbox[m].thread
    BY <1>1 DEF MappedTo
  <2>3. c \in MayBlock
    BY <2>1, <2>2 DEF ReachInv, Faultless
  <2>4. outbox[m].thread \in mapped[c]
    BY <2>2 DEF OrderInv, RowsMapped
  <2>5. Excused(m)
    BY <1>1, <2>3, <2>4, BlockersThread DEF ReachInv
  <2> QED
    BY <1>0, <1>2, <2>5
<1>3. CASE /\ MappedTo(w, Record(w).thread) = {}
           /\ gaveUp' = gaveUp \cup {current[w]}
  <2>1. Excused(m)
    BY <1>1, <1>3 DEF MappedTo, Excused
  <2> QED
    BY <1>0, <1>3, <2>1
<1> QED
  BY <1>2, <1>3 DEF FindMapping

\* Without a fault only a bad part and a user who blocks stop a delivery.
LEMMA StopsExcused ==
  ASSUME OrderInv, ReachInv, faults = 0, faults' = 0, NEW w \in Workers, Worker(w),
         pc[w] = "deliver", pc'[w] \in {"mark", "log"}
  PROVE  /\ Excused(current[w])
         /\ pc'[w] = "mark" => dest[w] \in MayBlock
<1> USE DEF Fault, Goto
<1>0. PICK m : m = current[w]
  OBVIOUS
<1>1. /\ m \in DOMAIN outbox /\ outbox[m].kind = "reply" /\ Record(w) = outbox[m]
      /\ dest[w] \in Chats /\ outbox[m].thread \in mapped[dest[w]]
      /\ part[w] \in Nat /\ part[w] >= 1
  BY <1>0, CurrentPosted DEF OrderInv, Knows, Record, TypeInv, TypeOK, Holds, Busy
<1>2. pc \in [Workers -> PCs]
  BY DEF OrderInv, TypeInv, TypeOK
<1>3. SendRefused(w) \/ SendBlocked(w)
  BY <1>2 DEF Worker, Deliver, Start, Tick, Wake, GetUnackedMessages, FinishRun,
              TakeMessage, PassOver, FindMapping, FinishDelivery, SendPart, SendFails, SendTimesOut,
              Return, SendUnauthorized, SendLimited, MarkChatBlocked, LogOutboundFailure,
              AckMessage, vars
<1>4. CASE SendRefused(w)
  <2>1. part[w] <= Len(outbox[m].parts) /\ outbox[m].parts[part[w]] = "bad"
    BY <1>1, <1>4 DEF SendRefused, Sending, PartKind
  <2>2. outbox[m] \in Message
    BY <1>1 DEF OrderInv, TypeInv, TypeOK
  <2>3. outbox[m].parts \in Seq(PartKinds)
    BY <2>2 DEF Message
  <2>4. part[w] \in DOMAIN outbox[m].parts
    BY <1>1, <2>1, <2>3
  <2>5. Excused(m)
    BY <1>1, <2>1, <2>4 DEF Excused
  <2>6. pc'[w] = "log"
    BY <1>2, <1>4 DEF SendRefused
  <2> QED
    BY <1>0, <2>5, <2>6
<1>5. CASE SendBlocked(w)
  <2>1. dest[w] \in MayBlock
    BY <1>1, <1>5 DEF SendBlocked, ReachInv, OnlyBlockersBlock
  <2>2. Excused(m)
    BY <1>1, <2>1, BlockersThread DEF ReachInv
  <2> QED
    BY <1>0, <2>1, <2>2
<1> QED
  BY <1>3, <1>4, <1>5

LEMMA ExcusesStep ==
  ASSUME OrderInv, ReachInv, Next, faults = 0, faults' = 0, NEW v \in Workers
  PROVE  Excuses(v)'
<1>0. TypeInv /\ Addressed /\ Excuses(v)
  BY DEF OrderInv, ReachInv, Faultless
<1>1. CASE Same(v)
  <2>1. current[v]' = current[v] /\ pc'[v] = pc[v] /\ dest'[v] = dest[v]
    BY <1>1 DEF Same
  <2>2. PICK m : m = current[v]
    OBVIOUS
  <2>3. Excused(m) => Excused(m)'
    BY <1>0, ExcusedStays
  <2>4. pc'[v] \in {"mark", "log"} => Excused(current[v])'
    BY <1>0, <2>1, <2>2, <2>3 DEF Excuses, Excused
  <2> QED
    BY <1>0, <2>1, <2>4 DEF Excuses
<1>2. CASE pc'[v] \notin {"mark", "log"}
  BY <1>2 DEF Excuses
<1>3. CASE /\ Worker(v) /\ pc[v] \in {"deliver", "mark"} /\ pc'[v] \in {"mark", "log"}
           /\ pc'[v] = "mark" => pc[v] = "deliver"
           /\ batch'[v] = batch[v] /\ dest'[v] = dest[v]
           /\ current'[v] = current[v]
  <2>1. current[v]' = current[v]
    BY <1>3
  <2>2. PICK m : m = current[v]
    OBVIOUS
  <2>3. Excused(m) /\ (pc'[v] = "mark" => dest[v] \in MayBlock)
    BY <1>0, <1>3, <2>2, StopsExcused DEF Excuses
  <2>4. Excused(m)'
    BY <1>0, <2>3, ExcusedStays
  <2>5. Excused(current[v])'
    BY <2>1, <2>2, <2>4 DEF Excused
  <2> QED
    BY <1>3, <2>3, <2>5 DEF Excuses
<1>4. ASSUME Worker(v), ~Same(v), pc'[v] \in {"mark", "log"}
      PROVE  /\ pc[v] \in {"deliver", "mark"}
             /\ pc'[v] = "mark" => pc[v] = "deliver"
             /\ batch'[v] = batch[v] /\ dest'[v] = dest[v]
             /\ current'[v] = current[v]
  <2>1. pc \in [Workers -> PCs]
    BY <1>0 DEF TypeInv, TypeOK
  <2>2. TakeMessage(v) \/ PassOver(v) \/ FinishDelivery(v) \/ SendPart(v)
          \/ LogOutboundFailure(v) \/ AckMessage(v) => FALSE
    BY <1>4, <2>1 DEF TakeMessage, PassOver, FinishDelivery, SendPart, Sending, LogOutboundFailure,
                      AckMessage, NextMessage, Goto
  <2>3. FindMapping(v) => FALSE
    BY <1>4, <2>1 DEF FindMapping, Return, Goto
  <2> QED
    BY <1>0, <1>4, <2>2, <2>3, WorkerDoes DEF Rests, Busy
<1>5. CASE Worker(v)
  BY <1>1, <1>2, <1>3, <1>4, <1>5
<1>6. ASSUME NEW w \in Workers, Worker(w), w # v
      PROVE  Excuses(v)'
  BY <1>0, <1>1, <1>6, OthersSame
<1>7. CASE Environment
  BY <1>0, <1>1, <1>2, <1>7, EnvironmentSame DEF Rests, Busy
<1> QED
  BY <1>5, <1>6, <1>7 DEF Next

\* Every message that is given up has an excuse.
LEMMA GivenUpStep ==
  ASSUME OrderInv, ReachInv, Next, faults = 0, NEW m \in gaveUp',
         \A w \in Workers : Serves[w] = Chats
  PROVE  Excused(m)'
<1>0. TypeInv /\ Addressed /\ Faultless
  BY DEF OrderInv, ReachInv
<1>1. Excused(m)
  <2>1. CASE m \in gaveUp
    BY <1>0, <2>1 DEF Faultless
  <2>2. CASE m \notin gaveUp
    <3>1. \E w \in Workers : FindMapping(w) \/ LogOutboundFailure(w)
      BY <2>2
         DEF Next, Environment, PostMessage, InboundUpdatesRow, ToggleBlock, Limit, Stop,
             Subscribe, StreamEnds, InboundRejected, InboundSucceeds, Worker, Deliver,
             Start, Tick, Wake, GetUnackedMessages, FinishRun, TakeMessage, PassOver,
             FinishDelivery,
             SendPart, SendFails, SendTimesOut, SendRefused, SendUnauthorized,
             SendLimited, SendBlocked, MarkChatBlocked, AckMessage, vars, history
    <3>2. PICK w \in Workers : FindMapping(w) \/ LogOutboundFailure(w)
      BY <3>1
    <3>3. CASE FindMapping(w)
      <4>1. gaveUp' = gaveUp \cup {current[w]} /\ Excused(current[w])
        BY <2>2, <3>3, MappingExcused
      <4> QED
        BY <2>2, <4>1
    <3>4. CASE LogOutboundFailure(w)
      <4>1. gaveUp' = gaveUp \cup {current[w]} /\ pc[w] = "log"
        BY <3>4 DEF LogOutboundFailure
      <4>2. Excused(current[w])
        BY <1>0, <4>1 DEF Faultless, Excuses
      <4> QED
        BY <2>2, <4>1, <4>2
    <3> QED
      BY <3>2, <3>3, <3>4
  <2> QED
    BY <2>1, <2>2
<1> QED
  BY <1>0, <1>1, ExcusedStays

LEMMA FaultlessStep ==
  ASSUME OrderInv, ReachInv, Next, faults' = 0, \A w \in Workers : Serves[w] = Chats
  PROVE  Faultless'
<1>1. TypeInv /\ faults \in Nat
  BY DEF OrderInv, TypeInv, TypeOK
<1>2. faults = 0
  BY <1>1, FaultsCounted
<1>3. Faultless
  BY <1>2 DEF ReachInv
<1>4. ASSUME NEW c \in Chats, row'[c] # NoRow, row'[c].blocked
      PROVE  c \in MayBlock
  BY <1>1, <1>3, <1>4, RowsChange DEF Faultless, Excuses
<1>5. \A m \in gaveUp' : Excused(m)'
  BY <1>2, GivenUpStep
<1>6. \A w \in Workers : Excuses(w)'
  BY <1>2, ExcusesStep
<1> QED
  BY <1>4, <1>5, <1>6 DEF Faultless

LEMMA ReachStep ==
  ASSUME OrderInv, ReachInv, Next, \A w \in Workers : Serves[w] = Chats
  PROVE  ReachInv'
<1>1. Disjoint' /\ Addressed' /\ OnlyBlockersBlock'
  BY DisjointStep, AddressedStep, BlockersStep DEF OrderInv, ReachInv
<1>2. (faults = 0)' => Faultless'
  BY FaultlessStep
<1> QED
  BY <1>1, <1>2 DEF ReachInv

LEMMA ReachStutter == ReachInv /\ UNCHANGED vars => ReachInv'
<1> USE DEF service, telegram, rows, world, wakeup, locals, history, token, vars
<1> SUFFICES ASSUME ReachInv, UNCHANGED vars PROVE ReachInv'
  OBVIOUS
<1>1. Disjoint' /\ Addressed' /\ OnlyBlockersBlock'
  BY DEF ReachInv, Disjoint, Addressed, OnlyBlockersBlock
<1>2. \A m : Excused(m) => Excused(m)'
  BY DEF Excused
<1>3. \A w \in Workers : current[w]' = current[w]
  OBVIOUS
<1>4. \A w \in Workers : Excuses(w) => Excuses(w)'
  BY <1>3 DEF Excuses, Excused
<1>5. Faultless => Faultless'
  BY <1>2, <1>4 DEF Faultless
<1> QED
  BY <1>1, <1>5 DEF ReachInv

\* With the workers of one installation and no fault, a reply in the present
\* thread of a chat whose user does not block is acknowledged only when all of
\* it is delivered: what processOutbound acknowledges without sending it never
\* is such a reply, however the rows came and went meanwhile.
THEOREM RepliesReachTheChat ==
  ASSUME \A w \in Workers : Serves[w] = Chats
  PROVE  Spec => []ReplyReachesChat
<1>1. OrderInv /\ ReachInv /\ [Next]_vars => ReachInv'
  BY ReachStep, ReachStutter
<1>2. OrderInv /\ ReachInv => ReplyReachesChat
  <2> SUFFICES ASSUME OrderInv, ReachInv, faults = 0,
                      NEW c \in Chats \ MayBlock, NEW m \in acked,
                      outbox[m].kind = "reply",
                      row[c] # NoRow, row[c].thread = outbox[m].thread,
                      \A k \in DOMAIN outbox[m].parts : outbox[m].parts[k] # "bad"
               PROVE  Delivered(m)
    BY DEF ReplyReachesChat
  <2>1. Settled(m)
    BY DEF OrderInv, AckedAreSettled
  <2>2. m \notin gaveUp
    BY DEF ReachInv, Faultless, Excused
  <2> QED
    BY <2>1, <2>2 DEF Settled
<1> QED
  BY InitReach, AlwaysOrdered, <1>1, <1>2, PTL DEF Spec
=============================================================================
