----------------------------- MODULE Connector ------------------------------
(***************************************************************************)
(* One installation with both loops of its worker: Inbound and Outbound    *)
(* composed.  The two goroutines of a process start and end together       *)
(* (worker.go, run) and share the status flag tokenRejected; through the   *)
(* database they share the chats' rows, and through the Threads service a  *)
(* message of the one is answered by a message to the other.               *)
(*                                                                         *)
(* What one module leaves to its environment is here a step of the other,  *)
(* so a run of this module is a run of each (InboundSpec, OutboundSpec).   *)
(* The notification stream and rate limits are left to Outbound: workers   *)
(* are woken by their tickers.                                             *)
(***************************************************************************)
EXTENDS Integers, Sequences, FiniteSets

CONSTANTS
  Procs, Chats, Kinds, NoRow, Batch,    \* as in Inbound
  MayBlock, Bodies, RetryMax,           \* as in Outbound
  MaxThreads,    \* bound: threads that are created
  MaxUpdates, MaxDegraded, MaxMessages,
  MaxFaults,     \* bound: faults that the inbound loops meet
  MaxOutFaults   \* bound: faults that the outbound loops meet

ASSUME ConnectorAssumption ==
  /\ Kinds \subseteq {"ignored", "blank", "text", "file", "poison"}
  /\ NoRow \notin [thread : Nat, blocked : BOOLEAN]
  /\ Batch \in Nat \ {0}
  /\ MayBlock \subseteq Chats
  /\ Bodies \subseteq Seq({"text", "file", "bad"})
  /\ RetryMax \in Nat
  /\ MaxThreads \in Nat
  /\ MaxUpdates \in Nat
  /\ MaxDegraded \in Nat
  /\ MaxMessages \in Nat
  /\ MaxFaults \in Nat
  /\ MaxOutFaults \in Nat

VARIABLES
  \* Inbound; mapping and rejected are Outbound's row and rejected
  inbox, confirmed, threads, posts, mapping, lastStored, pc, last, cur, top,
  thread, rotating, rejected, skipped, faults,
  \* Outbound
  outbox, acked, userBlocked, limited, sent, mapped, opc, trigger, stream, batch,
  current, dest, part, attempts, unauthorized, gaveUp, silent, notified, rejections,
  outFaults,
  \* history
  since,       \* chat -> the updates that had arrived when its user last blocked
  answers      \* messages that answer a user who can be reached

In == INSTANCE Inbound

Out == INSTANCE Outbound WITH
  Workers <- Procs,
  Threads <- 1 .. MaxThreads,
  Serves <- [p \in Procs |-> Chats],
  MayLimit <- {},
  Listeners <- {},
  OldestFirst <- FALSE,
  MaxRejections <- MaxFaults + MaxOutFaults,
  MaxFaults <- MaxOutFaults,
  row <- mapping,
  pc <- opc,
  faults <- outFaults

\* What only the one half can change.
inboundOnly  == <<inbox, confirmed, threads, posts, lastStored, pc, last, cur, top,
                  thread, rotating, skipped, faults>>
outboundOnly == <<outbox, acked, userBlocked, limited, sent, opc, trigger, stream,
                  batch, current, dest, part, attempts, unauthorized, gaveUp, silent,
                  notified, outFaults>>
answering    == <<since, answers>>
vars == <<inboundOnly, outboundOnly, mapping, rejected, mapped, rejections, answering>>

Init ==
  /\ In!Init
  /\ Out!Init
  /\ since = [c \in Chats |-> 0]
  /\ answers = {}

-----------------------------------------------------------------------------
(* The processes *)

\* Outbound's histories of an inbound step: the threads rows have named, and how
\* often a token was rejected.
Follows ==
  /\ mapped' = [c \in Chats |-> IF mapping'[c] = NoRow THEN mapped[c]
                                ELSE mapped[c] \cup {mapping'[c].thread}]
  /\ rejections' = rejections + Cardinality({p \in Procs : ~rejected[p] /\ rejected'[p]})
  /\ UNCHANGED outboundOnly

\* A step of the inbound goroutine, before which run has loaded the state.
InboundStep(p) ==
  /\ pc[p] # "load"
  /\ In!Worker(p)
  /\ Len(threads') <= MaxThreads
  /\ Follows
  /\ UNCHANGED answering

\* run: the state is loaded, the two goroutines start.
StartLoops(p) ==
  /\ In!LoadInstallationState(p)
  /\ Out!Start(p)
  /\ UNCHANGED answering

\* A step of the outbound goroutine.
OutboundStep(p) ==
  /\ opc[p] # "down"
  /\ Out!Worker(p)
  /\ UNCHANGED <<inboundOnly, answering>>

\* The worker's context is cancelled or the process dies: for both goroutines.
Stop(p) ==
  /\ In!Stop(p)
  /\ IF opc[p] = "down" THEN Follows ELSE Out!Stop(p)
  /\ UNCHANGED answering

-----------------------------------------------------------------------------
(* The users, the agents and the platform *)

\* A user who blocks the bot cannot write to it.
Arrive ==
  /\ In!Arrive
  /\ ~userBlocked[inbox'[Len(inbox')].chat]
  /\ UNCHANGED <<outboundOnly, mapped, rejections, answering>>

Degrade ==
  /\ In!Degrade
  /\ UNCHANGED <<outboundOnly, mapped, rejections, answering>>

\* The user of thread t has written in it since the last block.
Reachable(t) ==
  \E i \in DOMAIN posts :
    /\ posts[i].thread = t
    /\ LET c == inbox[posts[i].update].chat IN
       ~userBlocked[c] /\ posts[i].update > since[c]

\* The agent speaks in a thread in which it was spoken to.
PostMessage ==
  /\ Len(outbox) < MaxMessages
  /\ \/ \E i \in DOMAIN posts, b \in Bodies :
          LET t == posts[i].thread IN
          /\ outbox' = Append(outbox, [kind |-> "reply", thread |-> t, parts |-> b])
          /\ answers' = IF Reachable(t) THEN answers \cup {Len(outbox')} ELSE answers
     \/ /\ outbox' = Append(outbox, [kind |-> "other", thread |-> 0, parts |-> <<>>])
        /\ UNCHANGED answers
  /\ UNCHANGED <<inboundOnly, mapping, rejected, mapped, rejections, since, acked,
                 userBlocked, limited, sent, opc, trigger, stream, batch, current, dest,
                 part, attempts, unauthorized, gaveUp, silent, notified, outFaults>>

\* The user blocks or unblocks the bot.  What is on its way no longer counts as
\* an answer when the bot is blocked.
ToggleBlock ==
  /\ Out!ToggleBlock
  /\ since' = [c \in Chats |-> IF userBlocked'[c] # userBlocked[c] THEN Len(inbox)
                                                                   ELSE since[c]]
  /\ answers' = {m \in answers : LET c == threads[outbox[m].thread].chat IN
                                 ~userBlocked'[c]}
  /\ UNCHANGED inboundOnly

-----------------------------------------------------------------------------
Process(p) == InboundStep(p) \/ StartLoops(p) \/ OutboundStep(p) \/ Stop(p)

World == Arrive \/ Degrade \/ PostMessage \/ ToggleBlock

Next == (\E p \in Procs : Process(p)) \/ World

Spec == Init /\ [][Next]_vars

-----------------------------------------------------------------------------
(* Properties *)

\* The composition is a behaviour of each half, and what either assumes of the
\* other is what the other does.
InboundSpec == In!Spec
OutboundSpec == Out!Spec

\* What an agent says in a thread reaches only the user for whose messages the
\* thread was made, through all rotations of threads, even those of a second
\* process, and even if the row changes between the lookup and the call.
PartsReachAsker ==
  \A i \in DOMAIN sent :
    threads[outbox[sent[i].message].thread].chat = sent[i].chat

\* An answer is not owed to the user any more, or cannot be given.
Given(m) ==
  \/ Out!Delivered(m)
  \/ threads[outbox[m].thread].degraded
  \/ \E k \in DOMAIN outbox[m].parts : outbox[m].parts[k] = "bad"

\* With one process, an agent's answer in a thread the platform still accepts, to
\* a user who never blocks the bot, is acknowledged only when all of it was
\* delivered, unless an outbound call failed: the thread in which the agent was
\* spoken to keeps its row, whatever the inbound loop creates, stores, loses and
\* retries.
AnswersDelivered ==
  outFaults = 0 =>
    \A m \in acked \cap answers :
      threads[outbox[m].thread].chat \notin MayBlock => Given(m)

\* The same for a user who did block the bot, but has unblocked it and written
\* again before the answer (test/e2e/outbound_test.go, TestOutboundText, waits
\* for the answer in the chat).  MarkChatBlocked for a message sent before breaks
\* this: it may come after the inbound loop saw a row without blocked_at.
UnblockedGetAnswers ==
  outFaults = 0 => \A m \in acked \cap answers : Given(m)
=============================================================================
