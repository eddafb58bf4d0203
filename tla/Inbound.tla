------------------------------ MODULE Inbound ------------------------------
(***************************************************************************)
(* The inbound half of an installation worker (internal/connector/         *)
(* inbound.go): the long-poll loop, the handling of one Telegram update    *)
(* call by call, and the persisted update offset, for one installation.    *)
(*                                                                         *)
(* Procs are connector processes that each run a worker for the            *)
(* installation.  One is the steady state; two are what a rolling update   *)
(* of the Deployment, or a second replica, gives.  They share the          *)
(* database, the Threads service and Telegram's update queue.              *)
(*                                                                         *)
(* Every call that leaves the process is a step of its own, because        *)
(* another process, a crash or the environment can act between two calls.  *)
(* A failed call ends handleUpdate; an answer may also be lost after the   *)
(* call took effect (Fault).  A failed call that is merely tried again     *)
(* changes nothing and is a stuttering step.                               *)
(*                                                                         *)
(* Left to other modules: the status flags and reports, the audit log,     *)
(* who else sets tokenRejected and blocked_at.                             *)
(***************************************************************************)
EXTENDS Integers, Sequences, FiniteSets

CONSTANTS
  Procs,        \* connector processes with a worker for this installation
  Chats,        \* Telegram chats that write to the bot
  Kinds,        \* kinds of update that arrive, a subset of AllKinds
  NoRow,        \* no chat_mappings row
  Batch,        \* the "limit" of getUpdates (100 in the code)
  MaxUpdates,   \* bound: updates that arrive
  MaxFaults,    \* bound: failed calls, lost answers and crashes
  MaxDegraded   \* bound: threads that become degraded

\* "ignored": no message, no sender, or not a private chat.  "blank": only
\* white space.  "text": body ready to send.  "file": an attachment that is
\* downloaded and uploaded first.  "poison": an attachment whose download or
\* upload fails every time (getFile refuses large files, for one).
AllKinds == {"ignored", "blank", "text", "file", "poison"}

ASSUME InboundAssumption ==
  /\ Kinds \subseteq AllKinds
  /\ NoRow \notin [thread : Nat, blocked : BOOLEAN]
  /\ Batch \in Nat \ {0}
  /\ MaxUpdates \in Nat
  /\ MaxFaults \in Nat
  /\ MaxDegraded \in Nat

VARIABLES
  \* Telegram
  inbox,       \* updates in order of update_id, which is the index
  confirmed,   \* Telegram has discarded 1..confirmed
  \* Threads service.  A thread's "chat" is history: whom it was made for.
  threads,
  posts,       \* history: messages accepted by SendMessage, in order
  \* PostgreSQL
  mapping,     \* chat_mappings: chat -> [thread, blocked] or NoRow
  lastStored,  \* installation_state.last_update_id, 0 without a row
  \* each process
  pc,          \* the call the inbound goroutine is about to make
  last,        \* lastUpdateID
  cur, top,    \* the update being handled, the last one of the batch
  thread,      \* threadID
  rotating,    \* inside remapThreadMapping
  rejected,    \* status.tokenRejected
  \* history
  skipped,     \* updates given up on purpose
  faults

telegram == <<inbox, confirmed>>
service  == <<threads, posts>>
database == <<mapping, lastStored>>
locals   == <<last, cur, top, thread, rotating, rejected>>
vars     == <<telegram, service, database, pc, locals, skipped, faults>>

Update       == [chat : Chats, kind : Kinds]
ThreadRecord == [chat : Chats, agent : BOOLEAN, degraded : BOOLEAN]
PostRecord   == [thread : Nat, update : Nat]
Row          == [thread : Nat, blocked : BOOLEAN]

\* The points inside handleUpdate, and all points of the goroutine.
Handling == {"update", "clear", "create", "join", "insert", "build", "send",
             "delete", "resend"}
PCs == Handling \cup {"down", "load", "top", "polling", "parked", "persist"}

SharedTypes ==
  /\ inbox \in Seq(Update)
  /\ confirmed \in Nat
  /\ threads \in Seq(ThreadRecord)
  /\ posts \in Seq(PostRecord)
  /\ mapping \in [Chats -> Row \cup {NoRow}]
  /\ lastStored \in Nat
  /\ skipped \in SUBSET Nat
  /\ faults \in Nat

LocalTypes ==
  /\ pc \in [Procs -> PCs]
  /\ last \in [Procs -> Nat]
  /\ cur \in [Procs -> Nat]
  /\ top \in [Procs -> Nat]
  /\ thread \in [Procs -> Nat]
  /\ rotating \in [Procs -> BOOLEAN]
  /\ rejected \in [Procs -> BOOLEAN]

\* Every variable keeps its type: what is shared, and what each process holds.
TypeOK == SharedTypes /\ LocalTypes

Init ==
  /\ inbox = <<>>
  /\ confirmed = 0
  /\ threads = <<>>
  /\ posts = <<>>
  /\ mapping = [c \in Chats |-> NoRow]
  /\ lastStored = 0
  /\ pc = [p \in Procs |-> "down"]
  /\ last = [p \in Procs |-> 0]
  /\ cur = [p \in Procs |-> 0]
  /\ top = [p \in Procs |-> 0]
  /\ thread = [p \in Procs |-> 0]
  /\ rotating = [p \in Procs |-> FALSE]
  /\ rejected = [p \in Procs |-> FALSE]
  /\ skipped = {}
  /\ faults = 0

-----------------------------------------------------------------------------
(* Helpers *)

Larger(a, b) == IF a > b THEN a ELSE b
Smaller(a, b) == IF a < b THEN a ELSE b

Goto(p, where) == pc' = [pc EXCEPT ![p] = where]

Fault == faults < MaxFaults /\ faults' = faults + 1
NoFault == UNCHANGED faults

\* The chat of the update process p is handling.
ChatOf(p) == inbox[cur[p]].chat

\* The variables of one handleUpdate call and of one batch go out of scope.
DropUpdate(p) ==
  /\ thread' = [thread EXCEPT ![p] = 0]
  /\ rotating' = [rotating EXCEPT ![p] = FALSE]

DropBatch(p) ==
  /\ cur' = [cur EXCEPT ![p] = 0]
  /\ top' = [top EXCEPT ![p] = 0]
  /\ DropUpdate(p)

\* handleUpdate returned nil: the next update of the batch, or past the last.
Advance(p) ==
  /\ IF cur[p] = top[p]
       THEN Goto(p, "persist") /\ UNCHANGED cur
       ELSE Goto(p, "update") /\ cur' = [cur EXCEPT ![p] = @ + 1]
  /\ DropUpdate(p)
  /\ UNCHANGED <<last, top, rejected>>

\* Mutants of GiveUpBatch: the offset moves past the batch that failed; the
\* loop goes on with the next update of the batch.
GiveUpButPersist(p) ==
  /\ Goto(p, "persist")
  /\ DropUpdate(p)
  /\ UNCHANGED <<last, cur, top, rejected>>

GiveUpOneUpdate(p) == Advance(p)

\* handleUpdate returned an error: the rest of the batch is dropped, and after
\* inboundRetryDelay the loop polls again from the same offset.
GiveUpBatch(p) ==
  /\ Goto(p, "top")
  /\ DropBatch(p)
  /\ UNCHANGED <<last, rejected>>

Abandon(p) == Fault /\ GiveUpBatch(p)

-----------------------------------------------------------------------------
(* The environment *)

\* A user writes to the bot.
Arrive ==
  /\ Len(inbox) < MaxUpdates
  /\ \E c \in Chats, k \in Kinds :
       inbox' = Append(inbox, [chat |-> c, kind |-> k])
  /\ UNCHANGED <<confirmed, service, database, pc, locals, skipped, faults>>

\* The platform stops accepting messages in a thread.
Degrade ==
  /\ Cardinality({t \in DOMAIN threads : threads[t].degraded}) < MaxDegraded
  /\ \E t \in DOMAIN threads :
       threads' = [threads EXCEPT ![t].degraded = TRUE]
  /\ UNCHANGED <<telegram, posts, database, pc, locals, skipped, faults>>

\* The outbound goroutine marks a chat blocked after a 403.
MarkBlocked ==
  /\ \E c \in Chats :
       /\ mapping[c] # NoRow
       /\ mapping' = [mapping EXCEPT ![c].blocked = TRUE]
  /\ UNCHANGED <<telegram, service, lastStored, pc, locals, skipped, faults>>

\* The outbound goroutine of the same process got a 401.
OutboundRejected(p) ==
  /\ pc[p] \notin {"down", "load"}
  /\ rejected' = [rejected EXCEPT ![p] = TRUE]
  /\ UNCHANGED <<telegram, service, database, pc, last, cur, top, thread,
                 rotating, skipped, faults>>

-----------------------------------------------------------------------------
(* The poll loop *)

\* The manager, or a fresh process, starts a worker: run() has no state yet.
Start(p) ==
  /\ pc[p] = "down"
  /\ Goto(p, "load")
  /\ UNCHANGED <<telegram, service, database, locals, skipped, faults>>

\* The process dies, or the worker's context is cancelled.
Stop(p) ==
  /\ pc[p] # "down"
  /\ Fault
  /\ Goto(p, "down")
  /\ last' = [last EXCEPT ![p] = 0]
  /\ DropBatch(p)
  /\ rejected' = [rejected EXCEPT ![p] = FALSE]
  /\ UNCHANGED <<telegram, service, database, skipped>>

LoadInstallationState(p) ==
  /\ pc[p] = "load"
  /\ last' = [last EXCEPT ![p] = lastStored]
  /\ Goto(p, "top")
  /\ UNCHANGED <<telegram, service, database, cur, top, thread, rotating,
                 rejected, skipped, faults>>

\* The top of the loop: wait for the end once the token is rejected, else
\* issue the long poll.
BeginPoll(p) ==
  /\ pc[p] = "top"
  /\ Goto(p, IF rejected[p] THEN "parked" ELSE "polling")
  /\ UNCHANGED <<telegram, service, database, locals, skipped, faults>>

\* Mutants of Confirm: offsets last+2 and last.
ConfirmOneMore(p) == confirmed' = Larger(confirmed, Smaller(Len(inbox), last[p] + 1))
ConfirmOneLess(p) == confirmed' = last[p] - 1

\* getUpdates with offset last+1 makes Telegram discard everything below it,
\* whether or not the answer arrives.
Confirm(p) == confirmed' = Larger(confirmed, last[p])

\* The answer: the oldest Batch updates that are left; nothing is a timeout.
PollAnswered(p) ==
  /\ pc[p] = "polling"
  /\ Confirm(p)
  /\ rejected' = [rejected EXCEPT ![p] = FALSE]
  /\ IF confirmed' < Len(inbox)
       THEN /\ cur' = [cur EXCEPT ![p] = confirmed' + 1]
            /\ top' = [top EXCEPT ![p] = Smaller(Len(inbox), confirmed' + Batch)]
            /\ Goto(p, "update")
       ELSE /\ Goto(p, "top")
            /\ UNCHANGED <<cur, top>>
  /\ UNCHANGED <<inbox, service, database, last, thread, rotating, skipped,
                 faults>>

\* The request failed: the answer was lost, or Telegram said 401.
PollFailed(p) ==
  /\ pc[p] = "polling"
  /\ Fault
  /\ Goto(p, "top")
  /\ \/ Confirm(p) /\ UNCHANGED rejected
     \/ rejected' = [rejected EXCEPT ![p] = TRUE] /\ UNCHANGED confirmed
  /\ UNCHANGED <<inbox, service, database, last, cur, top, thread, rotating,
                 skipped>>

\* Mutants of PersistInstallationState: lastUpdateID stays behind the stored
\* offset; the number of updates is stored for their last id.
PersistWithoutAdvance(p) ==
  /\ pc[p] = "persist"
  /\ lastStored' = Larger(lastStored, top[p])
  /\ Goto(p, "top")
  /\ DropBatch(p)
  /\ UNCHANGED <<telegram, service, mapping, last, rejected, skipped, faults>>

PersistCount(p) ==
  /\ pc[p] = "persist"
  /\ lastStored' = top[p] - last[p]
  /\ last' = [last EXCEPT ![p] = top[p]]
  /\ Goto(p, "top")
  /\ DropBatch(p)
  /\ UNCHANGED <<telegram, service, mapping, rejected, skipped, faults>>

\* The whole batch is handled.  A write that fails is repeated; one whose
\* answer is lost is repeated too.
PersistInstallationState(p) ==
  /\ pc[p] = "persist"
  /\ \/ /\ top[p] > last[p]
        /\ lastStored' = top[p]
        /\ Fault
        /\ UNCHANGED <<pc, last, cur, top, thread, rotating>>
     \/ /\ IF top[p] > last[p]
             THEN lastStored' = top[p] /\ last' = [last EXCEPT ![p] = top[p]]
             ELSE UNCHANGED <<lastStored, last>>
        /\ NoFault
        /\ Goto(p, "top")
        /\ DropBatch(p)
  /\ UNCHANGED <<telegram, service, mapping, rejected, skipped>>

-----------------------------------------------------------------------------
(* handleUpdate *)

\* The early returns, and the chat's mapping.
HandleUpdate(p) ==
  /\ pc[p] = "update"
  /\ IF inbox[cur[p]].kind = "ignored"
       THEN /\ skipped' = skipped \cup {cur[p]}
            /\ Advance(p)
            /\ NoFault
       ELSE /\ UNCHANGED skipped
            /\ \/ Abandon(p)
               \/ LET row == mapping[ChatOf(p)] IN
                  /\ NoFault
                  /\ rotating' = [rotating EXCEPT ![p] = FALSE]
                  /\ IF row = NoRow
                       THEN Goto(p, "create") /\ UNCHANGED thread
                       ELSE /\ Goto(p, IF row.blocked THEN "clear" ELSE "build")
                            /\ thread' = [thread EXCEPT ![p] = row.thread]
                  /\ UNCHANGED <<last, cur, top, rejected>>
  /\ UNCHANGED <<telegram, service, database>>

\* UPDATE ... SET blocked_at = NULL, on whatever row the chat has by now.
ClearChatBlocked(p) ==
  /\ pc[p] = "clear"
  /\ \/ /\ mapping' = IF mapping[ChatOf(p)] = NoRow THEN mapping
                      ELSE [mapping EXCEPT ![ChatOf(p)].blocked = FALSE]
        /\ \/ NoFault /\ Goto(p, "build") /\ UNCHANGED locals
           \/ Abandon(p)
     \/ Abandon(p) /\ UNCHANGED mapping
  /\ UNCHANGED <<telegram, service, lastStored, skipped>>

\* Mutant of CreateThread: the row is stored before the agent joins.
CreateThreadUnjoined(p) ==
  /\ pc[p] = "create"
  /\ threads' = Append(threads, [chat |-> ChatOf(p), agent |-> FALSE,
                                 degraded |-> FALSE])
  /\ thread' = [thread EXCEPT ![p] = Len(threads) + 1]
  /\ Goto(p, "insert")
  /\ UNCHANGED <<telegram, posts, database, last, cur, top, rotating, rejected,
                 skipped, faults>>

\* createThreadMapping, first call.
CreateThread(p) ==
  /\ pc[p] = "create"
  /\ \/ /\ threads' = Append(threads, [chat |-> ChatOf(p), agent |-> FALSE,
                                       degraded |-> FALSE])
        /\ \/ /\ NoFault
              /\ thread' = [thread EXCEPT ![p] = Len(threads) + 1]
              /\ Goto(p, "join")
              /\ UNCHANGED <<last, cur, top, rotating, rejected>>
           \/ Abandon(p)
     \/ Abandon(p) /\ UNCHANGED threads
  /\ UNCHANGED <<telegram, posts, database, skipped>>

\* Mutants of AddParticipant: a replacement thread gets no agent, or no row.
AddParticipantOnlyFirst(p) ==
  /\ pc[p] = "join"
  /\ threads' = [threads EXCEPT ![thread[p]].agent = ~rotating[p]]
  /\ Goto(p, "insert")
  /\ UNCHANGED <<telegram, posts, database, locals, skipped, faults>>

AddParticipantUnstored(p) ==
  /\ pc[p] = "join"
  /\ threads' = [threads EXCEPT ![thread[p]].agent = TRUE]
  /\ Goto(p, IF rotating[p] THEN "resend" ELSE "insert")
  /\ UNCHANGED <<telegram, posts, database, locals, skipped, faults>>

\* createThreadMapping, second call: the agent joins the thread.
AddParticipant(p) ==
  /\ pc[p] = "join"
  /\ \/ /\ threads' = [threads EXCEPT ![thread[p]].agent = TRUE]
        /\ \/ NoFault /\ Goto(p, "insert") /\ UNCHANGED locals
           \/ Abandon(p)
     \/ Abandon(p) /\ UNCHANGED threads
  /\ UNCHANGED <<telegram, posts, database, skipped>>

\* createThreadMapping, third call: INSERT ... ON CONFLICT keeps the row that
\* is there and returns it.
CreateChatMapping(p) ==
  /\ pc[p] = "insert"
  /\ LET row == IF mapping[ChatOf(p)] = NoRow
                  THEN [thread |-> thread[p], blocked |-> FALSE]
                  ELSE mapping[ChatOf(p)]
     IN \/ /\ mapping' = [mapping EXCEPT ![ChatOf(p)] = row]
           /\ \/ /\ NoFault
                 /\ thread' = [thread EXCEPT ![p] = row.thread]
                 /\ Goto(p, IF rotating[p] THEN "resend" ELSE "build")
                 /\ UNCHANGED <<last, cur, top, rotating, rejected>>
              \/ Abandon(p)
        \/ Abandon(p) /\ UNCHANGED mapping
  /\ UNCHANGED <<telegram, service, lastStored, skipped>>

\* Mutant of BuildInboundMessage: a blank message is an error.
BuildRefusesBlank(p) ==
  /\ pc[p] = "build"
  /\ \/ inbox[cur[p]].kind = "text" /\ Goto(p, "send") /\ UNCHANGED locals
     \/ inbox[cur[p]].kind # "text" /\ GiveUpBatch(p)
  /\ UNCHANGED <<telegram, service, database, skipped, faults>>

\* buildInboundMessage, and the test for a message with nothing in it.
BuildInboundMessage(p) ==
  LET kind == inbox[cur[p]].kind IN
  /\ pc[p] = "build"
  /\ \/ /\ kind = "blank"
        /\ skipped' = skipped \cup {cur[p]}
        /\ Advance(p)
        /\ NoFault
     \/ /\ kind \in {"text", "file"}
        /\ Goto(p, "send")
        /\ NoFault
        /\ UNCHANGED <<locals, skipped>>
     \/ /\ kind = "file"
        /\ Abandon(p)
        /\ UNCHANGED skipped
     \/ /\ kind = "poison"
        /\ GiveUpBatch(p)
        /\ NoFault
        /\ UNCHANGED skipped
  /\ UNCHANGED <<telegram, service, database>>

\* A SendMessage the thread accepts, or that fails with or without effect.
Post(p) ==
  /\ \/ /\ posts' = Append(posts, [thread |-> thread[p], update |-> cur[p]])
        /\ \/ NoFault /\ Advance(p)
           \/ Abandon(p)
     \/ Abandon(p) /\ UNCHANGED posts
  /\ UNCHANGED skipped

\* Mutant of SendMessage: a degraded thread ends the update at once.
SendMessageNoRemap(p) ==
  /\ pc[p] = "send"
  /\ IF threads[thread[p]].degraded
       THEN /\ NoFault
            /\ Advance(p)
            /\ skipped' = skipped \cup {cur[p]}
            /\ UNCHANGED posts
       ELSE Post(p)
  /\ UNCHANGED <<telegram, threads, database>>

\* The first SendMessage; "thread is degraded" leads to remapThreadMapping.
SendMessage(p) ==
  /\ pc[p] = "send"
  /\ IF threads[thread[p]].degraded
       THEN /\ \/ NoFault /\ Goto(p, "delete") /\ UNCHANGED locals
               \/ Abandon(p)
            /\ UNCHANGED <<posts, skipped>>
       ELSE Post(p)
  /\ UNCHANGED <<telegram, threads, database>>

\* Mutant of DeleteChatMapping: the rows of all chats go.
DeleteAllMappings(p) ==
  /\ pc[p] = "delete"
  /\ mapping' = [c \in Chats |-> NoRow]
  /\ rotating' = [rotating EXCEPT ![p] = TRUE]
  /\ Goto(p, "create")
  /\ UNCHANGED <<telegram, service, lastStored, last, cur, top, thread, rejected,
                 skipped, faults>>

\* remapThreadMapping drops the chat's row and creates a new thread.
DeleteChatMapping(p) ==
  /\ pc[p] = "delete"
  /\ \/ /\ mapping' = [mapping EXCEPT ![ChatOf(p)] = NoRow]
        /\ \/ /\ NoFault
              /\ rotating' = [rotating EXCEPT ![p] = TRUE]
              /\ Goto(p, "create")
              /\ UNCHANGED <<last, cur, top, thread, rejected>>
           \/ Abandon(p)
     \/ Abandon(p) /\ UNCHANGED mapping
  /\ UNCHANGED <<telegram, service, lastStored, skipped>>

\* The second SendMessage: a thread that is degraded again ends the attempt
\* and the update is given up.
ResendMessage(p) ==
  /\ pc[p] = "resend"
  /\ IF threads[thread[p]].degraded
       THEN /\ \/ NoFault /\ Advance(p) /\ skipped' = skipped \cup {cur[p]}
               \/ Abandon(p) /\ UNCHANGED skipped
            /\ UNCHANGED posts
       ELSE Post(p)
  /\ UNCHANGED <<telegram, threads, database>>

-----------------------------------------------------------------------------
Worker(p) ==
  \/ Start(p) \/ LoadInstallationState(p)
  \/ BeginPoll(p) \/ PollAnswered(p) \/ PollFailed(p)
  \/ HandleUpdate(p) \/ ClearChatBlocked(p)
  \/ CreateThread(p) \/ AddParticipant(p) \/ CreateChatMapping(p)
  \/ BuildInboundMessage(p) \/ SendMessage(p)
  \/ DeleteChatMapping(p) \/ ResendMessage(p)
  \/ PersistInstallationState(p)

Environment ==
  \/ Arrive \/ Degrade \/ MarkBlocked
  \/ \E p \in Procs : OutboundRejected(p) \/ Stop(p)

Next == (\E p \in Procs : Worker(p)) \/ Environment

Spec == Init /\ [][Next]_vars

\* The goroutine keeps running and a stopped worker is started again: by the
\* reconciliation, or by Kubernetes when the process died.
FairSpec == Spec /\ \A p \in Procs : WF_vars(Worker(p))

-----------------------------------------------------------------------------
(* Properties *)

Posted(u) == \E i \in DOMAIN posts : posts[i].update = u

\* The update needs nothing more: it is in a thread, or given up on purpose.
Settled(u) == u \in skipped \/ Posted(u)

SettledUpTo(n) == \A u \in 1 .. n : Settled(u)

\* No crash, failed call or second process makes the connector lose a message:
\* what Telegram has discarded, and what a restarted worker would not ask for
\* again (last_update_id), has been posted to a thread or given up on purpose.
NoUpdateLost == SettledUpTo(confirmed) /\ SettledUpTo(lastStored)

\* Messages enter the threads in the order the users sent them: when an update
\* is posted (or given up) every earlier one has been, through all retries of
\* a batch and all restarts.  Only repetitions come out of order.
HandledInOrder ==
  /\ \A i \in DOMAIN posts : SettledUpTo(posts[i].update - 1)
  /\ \A u \in skipped : SettledUpTo(u - 1)

\* A message is only ever posted to a thread made for the chat it came from,
\* and the agent already takes part in that thread: createThreadMapping makes
\* a thread known (CreateChatMapping) only after AddParticipant.
PostsRouted ==
  \A i \in DOMAIN posts :
    /\ threads[posts[i].thread].chat = inbox[posts[i].update].chat
    /\ threads[posts[i].thread].agent

\* A row of chat_mappings leads from the chat to a thread of its own with the
\* agent in it, so no two chats ever share a thread, and an agent's answer
\* (looked up by thread) cannot reach another user.
MappingSound ==
  \A c \in Chats :
    mapping[c] # NoRow => /\ mapping[c].thread \in DOMAIN threads
                          /\ threads[mapping[c].thread].chat = c
                          /\ threads[mapping[c].thread].agent

\* A message with content is given up only after two different threads of its
\* chat were degraded: the mapped one and the one that replaced it.
SkippedForCause ==
  \A u \in skipped :
    inbox[u].kind \in {"ignored", "blank"} \/
      \E s, t \in DOMAIN threads :
        /\ s # t
        /\ threads[s].chat = inbox[u].chat /\ threads[s].degraded
        /\ threads[t].chat = inbox[u].chat /\ threads[t].degraded

\* With one process every repeated post is paid for by a fault: the batch is
\* handled again only after a failed call, a lost answer or a restart.  An
\* attachment that can never be fetched repeats its batch without any.
DuplicatesBounded ==
  \A u \in DOMAIN inbox :
    Cardinality({i \in DOMAIN posts : posts[i].update = u}) <= 1 + faults

\* With one process the stored offset never goes back, so a restart repeats at
\* most the batch that was in flight.
OffsetNeverRegresses == [][lastStored' >= lastStored]_lastStored

\* With one process a message is posted to the thread that chat_mappings names
\* at that moment, so the outbound side finds the way back for the answer.
AnswerFindsWayBack ==
  [][posts' # posts =>
       LET new == posts'[Len(posts')]
           row == mapping[inbox[new.update].chat]
       IN row # NoRow /\ row.thread = new.thread]_posts

\* Every update that arrives is settled in the end, unless Telegram rejected
\* the token and the worker waits to be replaced.
EveryUpdateSettled ==
  \A u \in 1 .. MaxUpdates :
    u \in DOMAIN inbox ~> Settled(u) \/ \E p \in Procs : pc[p] = "parked"

\* Every text message reaches a thread in the end (test/e2e/inbound_test.go,
\* TestInboundText, waits for it), unless its threads are degraded or the token
\* is rejected.  An attachment that can never be fetched, anywhere before it in
\* the queue, breaks this: the batch is handled again for ever.
TextReachesThread ==
  \A u \in 1 .. MaxUpdates :
    u \in DOMAIN inbox /\ inbox[u].kind = "text"
      ~> Settled(u) \/ \E p \in Procs : pc[p] = "parked"

\* The loop implements the at-least-once, in-order relay.
RelayOf == INSTANCE Relay WITH
  Payloads <- Update,
  sent <- inbox,
  posted <- {posts[i].update : i \in DOMAIN posts},
  skipped <- skipped,
  forgotten <- confirmed

RelaySpec == RelayOf!Spec
=============================================================================
