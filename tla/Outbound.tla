------------------------------ MODULE Outbound ------------------------------
(***************************************************************************)
(* The outbound half of installation workers (internal/connector/          *)
(* outbound.go): the notification stream, the trigger channel, the 30 s    *)
(* ticker, and the delivery of the app's unacknowledged thread messages to *)
(* Telegram, part by part, with retries, refusals and acknowledgements.    *)
(*                                                                         *)
(* GetUnackedMessages and AckMessages name the app's identity and no       *)
(* installation, so every worker sees the messages of every installation.  *)
(* Serves[w] are the chats whose rows belong to w's installation: disjoint *)
(* for workers of different installations, equal for two processes that    *)
(* run a worker for the same one.                                          *)
(*                                                                         *)
(* The worker goes through the messages in the order in which the Threads  *)
(* service lists them.  It neither sorts them nor asks for an order, so    *)
(* any order is possible; OldestFirst is the assumption that the service   *)
(* lists older messages first.                                             *)
(*                                                                         *)
(* A part of a message is one call to Telegram.  The sleeps between        *)
(* attempts change nothing and are stuttering steps.                       *)
(*                                                                         *)
(* The inbound goroutines own the chats' rows: here they insert, delete    *)
(* and unblock rows at any time.  Module Connector puts Inbound in their   *)
(* place.                                                                  *)
(***************************************************************************)
EXTENDS Integers, Sequences, FiniteSets

CONSTANTS
  Workers,
  Chats,
  NoRow,        \* no chat_mappings row
  Threads,      \* the threads that rows may come to name
  Serves,       \* worker -> the chats of its installation
  MayBlock,     \* the chats whose users may block the bot
  MayLimit,     \* the chats for which Telegram may answer 429
  Listeners,    \* the workers whose notification stream may open
  Bodies,       \* the part lists of the messages that are posted
  OldestFirst,  \* whether the Threads service lists older messages first
  RetryMax,     \* outboundRetryMax (3 in the code)
  MaxMessages,  \* bound: messages posted to the app's threads
  MaxRejections,\* bound: rejections by the inbound goroutine
  MaxFaults     \* bound: failed calls, lost answers, 401s and crashes

\* "text": a body or the URL of an inline image.  "file": fetched from the
\* gateway first.  "bad": an inline image or attachment without a file id.
PartKinds == {"text", "file", "bad"}

\* "reply": from the agent, in a thread of a chat.  "other": sent by the app
\* itself, or its thread id does not parse.
MessageKinds == {"reply", "other"}

ASSUME OutboundAssumption ==
  /\ Serves \in [Workers -> SUBSET Chats]
  /\ Threads \subseteq Nat
  /\ MayBlock \subseteq Chats
  /\ MayLimit \subseteq Chats
  /\ Listeners \subseteq Workers
  /\ Bodies \subseteq Seq(PartKinds)
  /\ OldestFirst \in BOOLEAN
  /\ RetryMax \in Nat
  /\ MaxMessages \in Nat
  /\ MaxRejections \in Nat
  /\ MaxFaults \in Nat

VARIABLES
  \* Threads service
  outbox,       \* messages addressed to the app, in order
  acked,        \* those it has acknowledged
  \* Telegram
  userBlocked,  \* chat -> the user has blocked the bot
  limited,      \* chat -> a send is answered with 429
  sent,         \* history: [message, part, chat] of the parts that arrived
  \* PostgreSQL
  row,          \* chat_mappings: chat -> [thread, blocked] or NoRow
  mapped,       \* history: chat -> the threads its row has named
  \* each worker
  pc,
  trigger,      \* the trigger channel holds a token
  stream,       \* the notification stream is open
  batch,        \* messages still to process, as listed by GetUnackedMessages
  current,      \* the one in hand, or 0
  dest,         \* the chat of the mapping that was found, or NoRow
  part,         \* next part of the message in hand
  attempts,     \* failed attempts of this part
  unauthorized, \* the delivery ended with a 401
  rejected,     \* status.tokenRejected
  \* history
  gaveUp,       \* messages acknowledged without complete delivery
  silent,       \* those among them whose failure went unreported
  notified,     \* worker -> messages its stream announced
  rejections,   \* times tokenRejected went from FALSE to TRUE
  faults

service == <<outbox, acked>>
telegram == <<userBlocked, limited>>
rows    == <<row, mapped>>
world   == <<telegram, sent, rows>>
wakeup  == <<trigger, stream, notified>>
locals  == <<batch, current, dest, part, attempts, unauthorized>>
history == <<gaveUp, silent>>
token   == <<rejected, rejections>>
vars    == <<service, world, pc, wakeup, locals, history, token, faults>>

Message == [kind : MessageKinds, thread : Nat, parts : Seq(PartKinds)]
Row     == [thread : Threads, blocked : BOOLEAN]
Part    == [message : Nat, part : Nat, chat : Chats]
PCs     == {"down", "idle", "list", "next", "find", "deliver", "mark", "log", "ack"}

TypeOK ==
  /\ outbox \in Seq(Message)
  /\ acked \in SUBSET Nat
  /\ userBlocked \in [Chats -> BOOLEAN]
  /\ limited \in [Chats -> BOOLEAN]
  /\ sent \in Seq(Part)
  /\ row \in [Chats -> Row \cup {NoRow}]
  /\ mapped \in [Chats -> SUBSET Threads]
  /\ pc \in [Workers -> PCs]
  /\ trigger \in [Workers -> BOOLEAN]
  /\ stream \in [Workers -> BOOLEAN]
  /\ batch \in [Workers -> SUBSET Nat]
  /\ current \in [Workers -> Nat]
  /\ dest \in [Workers -> Chats \cup {NoRow}]
  /\ part \in [Workers -> Nat]
  /\ attempts \in [Workers -> 0 .. RetryMax]
  /\ unauthorized \in [Workers -> BOOLEAN]
  /\ rejected \in [Workers -> BOOLEAN]
  /\ gaveUp \in SUBSET Nat
  /\ silent \in SUBSET Nat
  /\ notified \in [Workers -> SUBSET Nat]
  /\ rejections \in Nat
  /\ faults \in Nat

Init ==
  /\ outbox = <<>>
  /\ acked = {}
  /\ userBlocked = [c \in Chats |-> FALSE]
  /\ limited = [c \in Chats |-> FALSE]
  /\ sent = <<>>
  /\ row = [c \in Chats |-> NoRow]
  /\ mapped = [c \in Chats |-> {}]
  /\ pc = [w \in Workers |-> "down"]
  /\ trigger = [w \in Workers |-> FALSE]
  /\ stream = [w \in Workers |-> FALSE]
  /\ batch = [w \in Workers |-> {}]
  /\ current = [w \in Workers |-> 0]
  /\ dest = [w \in Workers |-> NoRow]
  /\ part = [w \in Workers |-> 1]
  /\ attempts = [w \in Workers |-> 0]
  /\ unauthorized = [w \in Workers |-> FALSE]
  /\ rejected = [w \in Workers |-> FALSE]
  /\ gaveUp = {}
  /\ silent = {}
  /\ notified = [w \in Workers |-> {}]
  /\ rejections = 0
  /\ faults = 0

-----------------------------------------------------------------------------
(* Helpers *)

Goto(w, where) == pc' = [pc EXCEPT ![w] = where]

Fault == faults < MaxFaults /\ faults' = faults + 1
NoFault == UNCHANGED faults

\* The message worker w has in hand.
Record(w) == outbox[current[w]]

\* GetUnackedMessages: what is not acknowledged.
Unacked == DOMAIN outbox \ acked

\* Mutant of MappedTo: the query leaves out the thread.
MappedToAny(w, t) == {c \in Serves[w] : row[c] # NoRow}

\* GetChatMappingByThreadID: the chats of w's installation mapped to thread t.
MappedTo(w, t) == {c \in Serves[w] : row[c] # NoRow /\ row[c].thread = t}

\* The variables of one message go out of scope.
DropMessage(w) ==
  /\ current' = [current EXCEPT ![w] = 0]
  /\ dest' = [dest EXCEPT ![w] = NoRow]
  /\ part' = [part EXCEPT ![w] = 1]
  /\ attempts' = [attempts EXCEPT ![w] = 0]
  /\ unauthorized' = [unauthorized EXCEPT ![w] = FALSE]

\* Leave processOutbound.
Return(w) ==
  /\ Goto(w, "idle")
  /\ batch' = [batch EXCEPT ![w] = {}]
  /\ DropMessage(w)

\* Another message, or the end of the list.
NextMessage(w) ==
  /\ Goto(w, "next")
  /\ batch' = [batch EXCEPT ![w] = @ \ {current[w]}]
  /\ DropMessage(w)

\* SetTokenRejected(true)
Reject(w) ==
  /\ rejected' = [rejected EXCEPT ![w] = TRUE]
  /\ rejections' = IF rejected[w] THEN rejections ELSE rejections + 1

\* A part reached the chat.
Receive(w) ==
  sent' = Append(sent, [message |-> current[w], part |-> part[w], chat |-> dest[w]])

\* notify: a token is put into the channel unless it already holds one.
Notify(w) == trigger' = [trigger EXCEPT ![w] = TRUE]

\* Mutant of Announce: an unbuffered channel takes a token only while the loop
\* waits for one.
AnnounceUnbuffered ==
  trigger' = [w \in Workers |-> trigger[w] \/ (stream[w] /\ pc[w] = "idle")]

\* Every open stream receives an event and notifies.
Announce == trigger' = [w \in Workers |-> trigger[w] \/ stream[w]]

-----------------------------------------------------------------------------
(* The environment *)

\* A message enters one of the app's threads and open streams announce it.  An
\* agent speaks in a thread once it was spoken to, which is after a row named
\* the thread; a thread that was replaced stays usable.
PostMessage ==
  /\ Len(outbox) < MaxMessages
  /\ \/ \E c \in Chats, b \in Bodies : \E t \in mapped[c] :
          outbox' = Append(outbox, [kind |-> "reply", thread |-> t, parts |-> b])
     \/ outbox' = Append(outbox, [kind |-> "other", thread |-> 0, parts |-> <<>>])
  /\ Announce
  /\ notified' = [w \in Workers |->
                    IF stream[w] THEN notified[w] \cup {Len(outbox) + 1} ELSE notified[w]]
  /\ UNCHANGED <<acked, world, pc, stream, locals, history, token, faults>>

\* The user blocks or unblocks the bot.
ToggleBlock ==
  /\ \E c \in MayBlock : userBlocked' = [userBlocked EXCEPT ![c] = ~@]
  /\ UNCHANGED <<service, limited, sent, rows, pc, wakeup, locals, history, token,
                 faults>>

\* Telegram limits the messages to a chat, for a while.
Limit ==
  /\ \E c \in MayLimit : limited' = [limited EXCEPT ![c] = ~@]
  /\ UNCHANGED <<service, userBlocked, sent, rows, pc, wakeup, locals, history, token,
                 faults>>

\* An inbound goroutine stores a thread it has just made for the chat, removes
\* the row of a degraded thread, or clears blocked_at.  A thread that was
\* removed never comes back.
RowInserted(c) ==
  /\ row[c] = NoRow
  /\ \E t \in Threads \ UNION {mapped[d] : d \in Chats} :
       /\ row' = [row EXCEPT ![c] = [thread |-> t, blocked |-> FALSE]]
       /\ mapped' = [mapped EXCEPT ![c] = @ \cup {t}]

RowDeleted(c) ==
  /\ row[c] # NoRow
  /\ row' = [row EXCEPT ![c] = NoRow]
  /\ UNCHANGED mapped

BlockCleared(c) ==
  /\ row[c] # NoRow
  /\ row' = [row EXCEPT ![c].blocked = FALSE]
  /\ UNCHANGED mapped

InboundUpdatesRow ==
  /\ \E c \in Chats : RowInserted(c) \/ RowDeleted(c) \/ BlockCleared(c)
  /\ UNCHANGED <<service, telegram, sent, pc, wakeup, locals, history, token, faults>>

\* The inbound goroutine of the same worker got a 401.
InboundRejected(w) ==
  /\ pc[w] # "down"
  /\ ~rejected[w]
  /\ rejections < MaxRejections
  /\ Reject(w)
  /\ UNCHANGED <<service, world, pc, wakeup, locals, history, faults>>

\* A long poll that was under way is answered: handlePollSuccess.
InboundSucceeds(w) ==
  /\ rejected[w]
  /\ rejected' = [rejected EXCEPT ![w] = FALSE]
  /\ UNCHANGED <<service, world, pc, wakeup, locals, history, rejections, faults>>

-----------------------------------------------------------------------------
(* runOutbound and subscribeNotifications *)

Start(w) ==
  /\ pc[w] = "down"
  /\ Goto(w, "idle")
  /\ UNCHANGED <<service, world, wakeup, locals, history, token, faults>>

\* The worker's context is cancelled, or the process dies.
Stop(w) ==
  /\ pc[w] # "down"
  /\ Fault
  /\ pc' = [pc EXCEPT ![w] = "down"]
  /\ trigger' = [trigger EXCEPT ![w] = FALSE]
  /\ stream' = [stream EXCEPT ![w] = FALSE]
  /\ batch' = [batch EXCEPT ![w] = {}]
  /\ DropMessage(w)
  /\ rejected' = [rejected EXCEPT ![w] = FALSE]
  /\ UNCHANGED <<service, world, notified, history, rejections>>

\* Subscribe succeeds; while it fails, or backs off, nothing changes.
Subscribe(w) ==
  /\ w \in Listeners
  /\ pc[w] # "down"
  /\ ~stream[w]
  /\ stream' = [stream EXCEPT ![w] = TRUE]
  /\ UNCHANGED <<service, world, pc, trigger, notified, locals, history, token,
                 faults>>

\* The stream ends: what arrives until the next Subscribe is not announced.
StreamEnds(w) ==
  /\ stream[w]
  /\ Fault
  /\ stream' = [stream EXCEPT ![w] = FALSE]
  /\ UNCHANGED <<service, world, pc, trigger, notified, locals, history, token>>

\* Mutant of Tick: no ticker, only the notification stream.
TickNever(w) == FALSE /\ UNCHANGED vars

\* The ticker fires.  The loop takes it only between two runs.
Tick(w) ==
  /\ pc[w] = "idle"
  /\ ~trigger[w]
  /\ Notify(w)
  /\ UNCHANGED <<service, world, pc, stream, notified, locals, history, token,
                 faults>>

\* Take the token and enter processOutbound.
Wake(w) ==
  /\ pc[w] = "idle"
  /\ trigger[w]
  /\ trigger' = [trigger EXCEPT ![w] = FALSE]
  /\ Goto(w, IF rejected[w] THEN "idle" ELSE "list")
  /\ UNCHANGED <<service, world, stream, notified, locals, history, token, faults>>

-----------------------------------------------------------------------------
(* processOutbound *)

GetUnackedMessages(w) ==
  /\ pc[w] = "list"
  /\ \/ /\ NoFault
        /\ Goto(w, "next")
        /\ batch' = [batch EXCEPT ![w] = Unacked]
        /\ UNCHANGED <<current, dest, part, attempts, unauthorized>>
     \/ Fault /\ Return(w)
  /\ UNCHANGED <<service, world, wakeup, history, token>>

\* The end of the list, or the token was rejected meanwhile.
FinishRun(w) ==
  /\ pc[w] = "next"
  /\ batch[w] = {} \/ rejected[w]
  /\ Return(w)
  /\ UNCHANGED <<service, world, wakeup, history, token, faults>>

\* What may come next in the list.
Upcoming(w) ==
  {m \in batch[w] : OldestFirst => \A n \in batch[w] : m <= n}

\* Mutant of TakeMessage: the token is not looked at again for each message.
TakeMessageAnyToken(w) ==
  /\ pc[w] = "next"
  /\ \E m \in Upcoming(w) : current' = [current EXCEPT ![w] = m]
  /\ Goto(w, "find")
  /\ UNCHANGED <<service, world, wakeup, batch, dest, part, attempts, unauthorized,
                 history, token, faults>>

\* The loop goes on to the next message of the list.
TakeMessage(w) ==
  /\ pc[w] = "next"
  /\ ~rejected[w]
  /\ \E m \in Upcoming(w) : current' = [current EXCEPT ![w] = m]
  /\ Goto(w, "find")
  /\ UNCHANGED <<service, world, wakeup, batch, dest, part, attempts, unauthorized,
                 history, token, faults>>

\* A message of the app itself, or without a thread id, is acknowledged.
PassOver(w) ==
  /\ pc[w] = "find"
  /\ Record(w).kind # "reply"
  /\ Goto(w, "ack")
  /\ UNCHANGED <<service, world, wakeup, locals, history, token, faults>>

\* The chat's row, which a message of another installation or in a replaced
\* thread does not have: it is given up, and so is one to a blocked chat.
FindMapping(w) ==
  /\ pc[w] = "find"
  /\ Record(w).kind = "reply"
  /\ \/ /\ \E c \in MappedTo(w, Record(w).thread) :
             IF row[c].blocked
               THEN /\ Goto(w, "ack")
                    /\ gaveUp' = gaveUp \cup {current[w]}
                    /\ UNCHANGED dest
               ELSE /\ Goto(w, "deliver")
                    /\ dest' = [dest EXCEPT ![w] = c]
                    /\ UNCHANGED gaveUp
        /\ NoFault
        /\ UNCHANGED <<batch, current, part, attempts, unauthorized>>
     \/ /\ MappedTo(w, Record(w).thread) = {}
        /\ Goto(w, "ack")
        /\ gaveUp' = gaveUp \cup {current[w]}
        /\ NoFault
        /\ UNCHANGED locals
     \/ Fault /\ Return(w) /\ UNCHANGED gaveUp
  /\ UNCHANGED <<service, world, wakeup, silent, token>>

\* Mutant of FinishDelivery: off by one.
FinishEarly(w) ==
  /\ pc[w] = "deliver"
  /\ part[w] >= Len(Record(w).parts)
  /\ Goto(w, "ack")
  /\ UNCHANGED <<service, world, wakeup, locals, history, token, faults>>

\* All parts are with Telegram.
FinishDelivery(w) ==
  /\ pc[w] = "deliver"
  /\ part[w] > Len(Record(w).parts)
  /\ Goto(w, "ack")
  /\ UNCHANGED <<service, world, wakeup, locals, history, token, faults>>

\* There is a part to send.
Sending(w) == pc[w] = "deliver" /\ part[w] <= Len(Record(w).parts)
PartKind(w) == Record(w).parts[part[w]]

SendPart(w) ==
  /\ Sending(w)
  /\ PartKind(w) # "bad"
  /\ ~userBlocked[dest[w]] /\ ~limited[dest[w]]
  /\ Receive(w)
  /\ part' = [part EXCEPT ![w] = @ + 1]
  /\ attempts' = [attempts EXCEPT ![w] = 0]
  /\ UNCHANGED <<service, telegram, rows, pc, wakeup, batch, current, dest,
                 unauthorized, history, token, faults>>

\* Mutant of SendFails: one attempt too many.
SendFailsOneMore(w) ==
  /\ Sending(w)
  /\ PartKind(w) # "bad"
  /\ Fault
  /\ IF attempts[w] <= RetryMax
       THEN attempts' = [attempts EXCEPT ![w] = @ + 1] /\ UNCHANGED pc
       ELSE Goto(w, "log") /\ UNCHANGED attempts
  /\ UNCHANGED <<service, world, wakeup, batch, current, dest, part, unauthorized,
                 history, token>>

\* A 5xx answer or a network error, with or without effect: another attempt,
\* or the end of the delivery.
SendFails(w) ==
  /\ Sending(w)
  /\ PartKind(w) # "bad"
  /\ Fault
  /\ \/ UNCHANGED sent
     \/ ~userBlocked[dest[w]] /\ Receive(w)
  /\ IF attempts[w] < RetryMax
       THEN attempts' = [attempts EXCEPT ![w] = @ + 1] /\ UNCHANGED pc
       ELSE Goto(w, "log") /\ UNCHANGED attempts
  /\ UNCHANGED <<service, telegram, rows, wakeup, batch, current, dest, part,
                 unauthorized, history, token>>

\* Mutant of SendTimesOut: a deadline is acknowledged like other errors.
SendTimesOutAcked(w) ==
  /\ Sending(w)
  /\ attempts[w] = RetryMax
  /\ Fault
  /\ Goto(w, "ack")
  /\ UNCHANGED <<service, world, wakeup, locals, history, token>>

\* Mutant of SendTimesOut: the loop goes on to the next message.
SendTimesOutSkips(w) ==
  /\ Sending(w)
  /\ attempts[w] = RetryMax \/ PartKind(w) = "file"
  /\ Fault
  /\ NextMessage(w)
  /\ UNCHANGED <<service, world, wakeup, history, token>>

\* The last attempt runs into the HTTP client's time limit, or the file cannot
\* be fetched for one, and the error is a DeadlineExceeded: no acknowledgement,
\* and the rest of the list is dropped.
SendTimesOut(w) ==
  /\ Sending(w)
  /\ Fault
  /\ \/ PartKind(w) = "file" /\ attempts[w] = 0 /\ UNCHANGED sent
     \/ /\ PartKind(w) # "bad" /\ attempts[w] = RetryMax
        /\ \/ UNCHANGED sent
           \/ ~userBlocked[dest[w]] /\ Receive(w)
  /\ Return(w)
  /\ UNCHANGED <<service, telegram, rows, wakeup, history, token>>

\* A 4xx answer, a file that cannot be fetched, or no file id.
SendRefused(w) ==
  /\ Sending(w)
  /\ IF PartKind(w) = "bad" THEN NoFault ELSE Fault
  /\ Goto(w, "log")
  /\ UNCHANGED <<service, world, wakeup, locals, history, token>>

\* 401: handleTokenRejected.
SendUnauthorized(w) ==
  /\ Sending(w)
  /\ PartKind(w) # "bad"
  /\ Fault
  /\ Reject(w)
  /\ unauthorized' = [unauthorized EXCEPT ![w] = TRUE]
  /\ Goto(w, "log")
  /\ UNCHANGED <<service, world, wakeup, batch, current, dest, part, attempts, history>>

\* Mutant of SendLimited: a 429 is an attempt like any other.
SendLimitedCounted(w) ==
  /\ Sending(w)
  /\ PartKind(w) # "bad"
  /\ limited[dest[w]]
  /\ IF attempts[w] < RetryMax
       THEN attempts' = [attempts EXCEPT ![w] = @ + 1] /\ UNCHANGED pc
       ELSE Goto(w, "log") /\ UNCHANGED attempts
  /\ UNCHANGED <<service, world, wakeup, batch, current, dest, part, unauthorized,
                 history, token, faults>>

\* 429: after the time Telegram asks for the part is tried again, without end
\* and without counting the attempt.
SendLimited(w) ==
  /\ Sending(w)
  /\ PartKind(w) # "bad"
  /\ limited[dest[w]]
  /\ UNCHANGED vars

\* 403: the user has blocked the bot.
SendBlocked(w) ==
  /\ Sending(w)
  /\ PartKind(w) # "bad"
  /\ userBlocked[dest[w]]
  /\ Goto(w, "mark")
  /\ UNCHANGED <<service, world, wakeup, locals, history, token, faults>>

\* Mutant of MarkChatBlocked: a row that is gone is written again.
MarkBlockedUpsert(w) ==
  /\ pc[w] = "mark"
  /\ row' = [row EXCEPT ![dest[w]] = [thread |-> Record(w).thread, blocked |-> TRUE]]
  /\ Goto(w, "log")
  /\ UNCHANGED <<service, telegram, mapped, sent, wakeup, locals, history, token,
                 faults>>

\* UPDATE ... SET blocked_at = NOW() on whatever row the chat has by now; an
\* error is only logged.
MarkChatBlocked(w) ==
  /\ pc[w] = "mark"
  /\ \/ NoFault /\ row' = IF row[dest[w]] = NoRow THEN row
                          ELSE [row EXCEPT ![dest[w]].blocked = TRUE]
     \/ Fault /\ UNCHANGED row
  /\ Goto(w, "log")
  /\ UNCHANGED <<service, telegram, mapped, sent, wakeup, locals, history, token>>

\* The failure is reported (status, audit log) unless it is the 401 that
\* rejected the token.
LogOutboundFailure(w) ==
  /\ pc[w] = "log"
  /\ silent' = IF rejected[w] /\ unauthorized[w] THEN silent \cup {current[w]}
                                                ELSE silent
  /\ gaveUp' = gaveUp \cup {current[w]}
  /\ Goto(w, "ack")
  /\ UNCHANGED <<service, world, wakeup, locals, token, faults>>

\* Mutant of AckMessage: delivered messages are not acknowledged.
AckOnlyGivenUp(w) ==
  /\ pc[w] = "ack"
  /\ acked' = IF current[w] \in gaveUp THEN acked \cup {current[w]} ELSE acked
  /\ NextMessage(w)
  /\ UNCHANGED <<outbox, world, wakeup, history, token, faults>>

\* An acknowledgement that fails is only logged.
AckMessage(w) ==
  /\ pc[w] = "ack"
  /\ \/ acked' = acked \cup {current[w]} /\ NoFault
     \/ UNCHANGED acked /\ Fault
  /\ NextMessage(w)
  /\ UNCHANGED <<outbox, world, wakeup, history, token>>

-----------------------------------------------------------------------------
Deliver(w) ==
  \/ FinishDelivery(w) \/ SendPart(w) \/ SendFails(w) \/ SendTimesOut(w)
  \/ SendRefused(w) \/ SendUnauthorized(w) \/ SendLimited(w) \/ SendBlocked(w)

Worker(w) ==
  \/ Start(w) \/ Tick(w) \/ Wake(w)
  \/ GetUnackedMessages(w) \/ FinishRun(w)
  \/ TakeMessage(w) \/ PassOver(w) \/ FindMapping(w)
  \/ Deliver(w)
  \/ MarkChatBlocked(w) \/ LogOutboundFailure(w) \/ AckMessage(w)

Environment ==
  \/ PostMessage \/ ToggleBlock \/ Limit \/ InboundUpdatesRow
  \/ \E w \in Workers :
       \/ Stop(w) \/ Subscribe(w) \/ StreamEnds(w)
       \/ InboundRejected(w) \/ InboundSucceeds(w)

Next == (\E w \in Workers : Worker(w)) \/ Environment

Spec == Init /\ [][Next]_vars

LimitEnds(c) == Limit /\ limited[c] /\ ~limited'[c]

\* The goroutine keeps running, the ticker fires, a stopped worker is started
\* again, a limit ends (429 names the time to wait), and of the sends that
\* Telegram would accept from time to time one is accepted.  Nothing is assumed
\* of the notification stream.
FairSpec ==
  /\ Spec
  /\ \A w \in Workers : WF_vars(Worker(w)) /\ SF_vars(SendPart(w))
  /\ \A c \in MayLimit : WF_vars(LimitEnds(c))

-----------------------------------------------------------------------------
(* Properties *)

Got(m, k) == \E i \in DOMAIN sent : sent[i].message = m /\ sent[i].part = k

Delivered(m) == \A k \in DOMAIN outbox[m].parts : Got(m, k)

\* The connector owes message m nothing more.
Settled(m) == outbox[m].kind # "reply" \/ Delivered(m) \/ m \in gaveUp

\* An acknowledgement, which makes the platform forget the message, is never
\* sent for a reply that was neither delivered in full nor given up for a
\* reason, whatever crash, retry or lost acknowledgement came before.
AckedAreSettled == \A m \in acked : Settled(m)

\* A part arrives only after the earlier parts of its message.  If the Threads
\* service lists older messages first, it also arrives only after every earlier
\* message of its thread was settled: a message that fails without being given
\* up ends the run, and nothing of the list overtakes it.
DeliveredInOrder ==
  \A i \in DOMAIN sent :
    LET m == sent[i].message IN
    /\ \A k \in 1 .. sent[i].part - 1 :
         \E j \in 1 .. i - 1 : sent[j].message = m /\ sent[j].part = k
    /\ OldestFirst =>
         \A n \in 1 .. m - 1 : outbox[n].thread = outbox[m].thread => Settled(n)

\* A part only ever goes to a chat whose row named the message's thread, even if
\* the row was removed or replaced while the worker was delivering.
PartsReachOwner ==
  \A i \in DOMAIN sent : outbox[sent[i].message].thread \in mapped[sent[i].chat]

\* A part arrives at most once from each worker, and each repetition beyond that
\* is paid for by a fault: a lost answer, a failed acknowledgement, a timeout or a
\* crash.
RepeatsBounded ==
  \A i \in DOMAIN sent :
    Cardinality({j \in DOMAIN sent : /\ sent[j].message = sent[i].message
                                     /\ sent[j].part = sent[i].part})
      <= Cardinality(Workers) + faults

\* The points of the code from which a failure may still be reported.
Unreported == {"find", "deliver", "mark", "log"}

\* The workers with a message in hand while their token is rejected.
AtRisk == {w \in Workers : rejected[w] /\ pc[w] \in Unreported}

\* A rejection of the token puts at most one message at risk: the one in hand
\* when it comes.  The failure of a message that got a 401 is not reported and
\* the message is acknowledged all the same, but the loop stops there and keeps
\* the rest for a better token, so that what was lost and what may yet be lost
\* is never more than the rejections.
SilentLossBounded == Cardinality(silent) + Cardinality(AtRisk) <= rejections

\* A worker that sleeps with an announced message unacknowledged has met a
\* fault or a rejection: the token put into the trigger channel while a run was
\* under way is still there when the run ends.
WakeupKept ==
  \A w \in Workers :
    pc[w] = "idle" /\ ~trigger[w] /\ faults = 0 /\ rejections = 0
      => notified[w] \subseteq acked

\* Every message (there are MaxMessages at most) is acknowledged in the end
\* unless the token is rejected, even if the notification stream never opens
\* (the ticker is enough), a chat is limited again and again, or rows come and go.
EveryMessageAcked ==
  []<>(DOMAIN outbox \subseteq acked \/ \E w \in Workers : rejected[w])

\* Without faults, a reply in its chat's present thread, to a user who does not
\* block the bot, is acknowledged only when all of it is delivered
\* (test/e2e/outbound_test.go, TestOutboundText, waits for the sent message),
\* however long Telegram limits the chat.  Workers of two installations break
\* this: each acknowledges the other's messages for want of a row.
ReplyReachesChat ==
  faults = 0 =>
    \A c \in Chats \ MayBlock, m \in acked :
      /\ outbox[m].kind = "reply"
      /\ row[c] # NoRow /\ row[c].thread = outbox[m].thread
      /\ \A k \in DOMAIN outbox[m].parts : outbox[m].parts[k] # "bad"
      => Delivered(m)

\* What is delivered, given up and acknowledged implements Deliveries.
DeliveriesOf == INSTANCE Deliveries WITH
  Threads <- Threads \cup {0},
  posted <- [m \in DOMAIN outbox |-> outbox[m].thread],
  settled <- {m \in DOMAIN outbox : Settled(m)}

DeliveriesSpec == DeliveriesOf!Spec
=============================================================================
