------------------------------- MODULE Relay -------------------------------
(***************************************************************************)
(* What the inbound side of the connector promises, with nothing of how it *)
(* does it: users send messages to a bot, and every message is handled     *)
(* (posted to a thread, or deliberately skipped) at least once, in the     *)
(* order sent; Telegram's copy of a message is given up only when it and   *)
(* everything before it have been handled.                                 *)
(*                                                                         *)
(* Posting a message a second time is a stuttering step of this module:    *)
(* the promise is at-least-once, never exactly-once.                       *)
(***************************************************************************)
EXTENDS Naturals, Sequences

CONSTANT Payloads        \* what a user can send

VARIABLES
  sent,        \* the messages in the order Telegram numbered them
  posted,      \* the numbers of the messages posted to a thread
  skipped,     \* the numbers of the messages deliberately not posted
  forgotten    \* Telegram has given up its copies of 1..forgotten

vars == <<sent, posted, skipped, forgotten>>

Handled(u) == u \in posted \cup skipped

\* Every message up to number n has been handled.
HandledUpTo(n) == \A u \in 1 .. n : Handled(u)

Init ==
  /\ sent = <<>>
  /\ posted = {}
  /\ skipped = {}
  /\ forgotten = 0

Accept ==
  /\ \E m \in Payloads : sent' = Append(sent, m)
  /\ UNCHANGED <<posted, skipped, forgotten>>

Post(u) ==
  /\ HandledUpTo(u - 1)
  /\ posted' = posted \cup {u}
  /\ UNCHANGED <<sent, skipped, forgotten>>

Skip(u) ==
  /\ HandledUpTo(u - 1)
  /\ skipped' = skipped \cup {u}
  /\ UNCHANGED <<sent, posted, forgotten>>

Forget(n) ==
  /\ HandledUpTo(n)
  /\ forgotten' = n
  /\ UNCHANGED <<sent, posted, skipped>>

Next ==
  \/ Accept
  \/ \E u \in 1 .. Len(sent) : Post(u) \/ Skip(u)
  \/ \E n \in forgotten + 1 .. Len(sent) : Forget(n)

Spec == Init /\ [][Next]_vars
=============================================================================
