----------------------------- MODULE Deliveries -----------------------------
(***************************************************************************)
(* What the outbound side of the connector promises of the messages posted *)
(* to the app's threads: every message is settled (delivered in full, or   *)
(* deliberately given up) before it is acknowledged, and, if the Threads   *)
(* service lists older messages first, the messages of one thread are      *)
(* settled in the order they were posted.                                  *)
(*                                                                         *)
(* Delivering a message again is a stuttering step: at least once.         *)
(***************************************************************************)
EXTENDS Naturals, Sequences

CONSTANTS Threads, OldestFirst

VARIABLES
  posted,      \* the threads of the messages, in the order of their posting
  settled,     \* the numbers of the messages delivered or given up
  acked        \* the numbers of those the platform may forget

vars == <<posted, settled, acked>>

Init ==
  /\ posted = <<>>
  /\ settled = {}
  /\ acked = {}

\* A message with nothing to deliver is settled at once.
Post ==
  /\ \E t \in Threads : posted' = Append(posted, t)
  /\ settled' \in {settled, settled \cup {Len(posted) + 1}}
  /\ UNCHANGED acked

Settle(m) ==
  /\ OldestFirst => \A n \in 1 .. m - 1 : posted[n] = posted[m] => n \in settled
  /\ settled' = settled \cup {m}
  /\ UNCHANGED <<posted, acked>>

Acknowledge(m) ==
  /\ m \in settled
  /\ acked' = acked \cup {m}
  /\ UNCHANGED <<posted, settled>>

Next == Post \/ \E m \in 1 .. Len(posted) : Settle(m) \/ Acknowledge(m)

Spec == Init /\ [][Next]_vars
=============================================================================
