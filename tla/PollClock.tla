------------------------------ MODULE PollClock ------------------------------
(***************************************************************************)
(* The poll loop of one worker in time (internal/connector/inbound.go,     *)
(* runInbound with handlePollError and handlePollSuccess): the long poll,  *)
(* the deadline of the HTTP client, the pauses, the minute after which     *)
(* Telegram counts as unreachable, and the audit entries about that, which *)
(* appendAudit tries up to three times under an idempotency key.           *)
(*                                                                         *)
(* Time is explicit: Tick lets it pass until something is due.  A step of  *)
(* the loop takes no time, except a poll, a pause and the handling of      *)
(* updates, of which nothing is assumed.  A token that Telegram rejects is *)
(* left to Status, the offsets to Inbound.                                 *)
(***************************************************************************)
EXTENDS Integers, FiniteSets

CONSTANTS
  PollTimeouts,     \* values of TELEGRAM_POLL_TIMEOUT, 30 s if it is not set
  ClientTimeout,    \* of the Telegram client's http.Client (30 s)
  RetryDelay,       \* inboundRetryDelay and auditRetryDelay (1 s each)
  UnreachableAfter, \* telegramUnreachableTimeout (60 s)
  AuditRetryMax,    \* auditRetryMax (3)
  MaxTime,          \* bound: of the clock
  MaxOutages,       \* bound: outages of Telegram
  MaxMisses         \* bound: calls to the Apps service that fail

ASSUME PollClockAssumption ==
  /\ PollTimeouts \subseteq Nat \ {0}
  /\ {ClientTimeout, RetryDelay, UnreachableAfter, AuditRetryMax} \subseteq Nat \ {0}
  /\ {MaxTime, MaxOutages, MaxMisses} \subseteq Nat

VARIABLES
  now,
  pollTimeout,
  phase,        \* "polling", "handling" updates, "sleeping", "auditing"
  since,        \* when the phase, or the pause between two attempts, began
  lost,         \* Telegram was down during this poll
  received,     \* the poll brought updates
  failureAt,    \* telegramFailureAt, or Never
  unreachable,  \* telegramUnreachable
  degraded,     \* status.pollingDegraded
  entry,        \* what appendAudit is to write: its name and key
  attempts,     \* of appendAudit that have failed
  \* Telegram
  up,           \* it answers
  waiting,      \* it has updates for the bot
  \* Apps service
  log,          \* the entries it has taken; one with a known key is not taken
  \* history
  turnedAt,     \* when up last changed
  heardAt,      \* when a poll last succeeded and its updates were done with
  events,       \* entries that were to be written
  outages, misses

loop     == <<phase, since, lost, received>>
clock    == <<failureAt, unreachable, degraded>>
auditing == <<entry, attempts, events>>
telegram == <<up, waiting, turnedAt, outages>>
apps     == <<log, misses>>
vars == <<now, pollTimeout, loop, clock, auditing, telegram, apps, heardAt>>

Never == -1
Time  == 0 .. MaxTime
Entry == [name : {"telegram_unreachable", "telegram_recovered"}, key : Time]
NoEntry == [name |-> "none", key |-> Never]

TypeOK ==
  /\ now \in Time
  /\ pollTimeout \in PollTimeouts
  /\ phase \in {"polling", "handling", "sleeping", "auditing"}
  /\ {since, turnedAt, heardAt} \subseteq 0 .. now
  /\ {lost, received, unreachable, degraded, up, waiting} \subseteq BOOLEAN
  /\ failureAt \in {Never} \cup 0 .. now
  /\ entry \in Entry \cup {NoEntry}
  /\ attempts \in 0 .. AuditRetryMax - 1
  /\ log \subseteq Entry
  /\ events \in Nat
  /\ outages \in 0 .. MaxOutages
  /\ misses \in 0 .. MaxMisses

Init ==
  /\ now = 0
  /\ pollTimeout \in PollTimeouts
  /\ phase = "polling" /\ since = 0 /\ lost = FALSE /\ received = FALSE
  /\ failureAt = Never /\ unreachable = FALSE /\ degraded = FALSE
  /\ entry = NoEntry /\ attempts = 0 /\ events = 0
  /\ up = TRUE /\ waiting = FALSE /\ turnedAt = 0 /\ outages = 0
  /\ log = {} /\ misses = 0
  /\ heardAt = 0

-----------------------------------------------------------------------------
(* The loop *)

Enter(p) ==
  /\ phase' = p
  /\ since' = now
  /\ lost' = (p = "polling" /\ ~up)

\* The first call of appendAudit.
AppendAudit(name, key) ==
  /\ entry' = [name |-> name, key |-> key]
  /\ events' = events + 1
  /\ attempts' = 0
  /\ Enter("auditing")

\* Mutant of Proceed: telegramFailureAt stays as it is.
ProceedKeepsClock(updates) ==
  /\ UNCHANGED failureAt
  /\ unreachable' = FALSE
  /\ Enter(IF updates THEN "handling" ELSE "polling")

\* The rest of handlePollSuccess, and the loop with the updates it got.
Proceed(updates) ==
  /\ failureAt' = Never
  /\ unreachable' = FALSE
  /\ Enter(IF updates THEN "handling" ELSE "polling")

\* GetUpdates returns: at once with updates, after pollTimeout without.
PollAnswered ==
  /\ phase = "polling" /\ up
  /\ waiting \/ now >= since + pollTimeout
  /\ heardAt' = now
  /\ received' = waiting
  /\ waiting' = FALSE
  /\ degraded' = FALSE
  /\ IF unreachable
       THEN /\ AppendAudit("telegram_recovered", now)
            /\ UNCHANGED <<failureAt, unreachable>>
       ELSE Proceed(waiting) /\ UNCHANGED auditing
  /\ UNCHANGED <<now, pollTimeout, up, turnedAt, outages, apps>>

\* Mutant of Failing: each failure starts the minute anew.
FailingAnew ==
  /\ degraded' = TRUE
  /\ failureAt' = now

\* handlePollError: degraded, and the time of the first failure.
Failing ==
  /\ degraded' = TRUE
  /\ failureAt' = IF failureAt = Never THEN now ELSE failureAt

\* GetUpdates fails: Telegram is down, or the HTTP client gives up.
PollFails ==
  /\ phase = "polling"
  /\ lost \/ now >= since + ClientTimeout
  /\ Failing
  /\ IF ~unreachable /\ now - failureAt' >= UnreachableAfter
       THEN unreachable' = TRUE /\ AppendAudit("telegram_unreachable", failureAt')
       ELSE Enter("sleeping") /\ UNCHANGED <<unreachable, auditing>>
  /\ UNCHANGED <<now, pollTimeout, received, telegram, apps, heardAt>>

SleepEnds ==
  /\ phase = "sleeping"
  /\ now >= since + RetryDelay
  /\ Enter("polling")
  /\ UNCHANGED <<now, pollTimeout, received, clock, auditing, telegram, apps, heardAt>>

\* The updates are handled, or one of them fails.
HandlingEnds ==
  /\ phase = "handling"
  /\ Enter("polling") \/ Enter("sleeping")
  /\ received' = FALSE
  /\ heardAt' = now
  /\ UNCHANGED <<now, pollTimeout, clock, auditing, telegram, apps>>

-----------------------------------------------------------------------------
(* appendAudit *)

AppendDue == phase = "auditing" /\ (attempts = 0 \/ now >= since + RetryDelay)

\* The service takes an entry, unless it has one with this name and key.
Take == log' = log \cup {entry}

\* appendAudit returns; handlePollSuccess goes on, or handlePollError ends.
Audited ==
  /\ entry' = NoEntry
  /\ attempts' = 0
  /\ IF entry.name = "telegram_recovered"
       THEN Proceed(received)
       ELSE Enter("sleeping") /\ UNCHANGED <<failureAt, unreachable>>

AppendSucceeds ==
  /\ AppendDue
  /\ Take
  /\ Audited
  /\ UNCHANGED <<now, pollTimeout, received, degraded, events, telegram, misses, heardAt>>

\* Mutant of AppendFails: one attempt too many.
AppendFailsOneMore ==
  /\ AppendDue
  /\ misses < MaxMisses
  /\ misses' = misses + 1
  /\ UNCHANGED log \/ Take
  /\ IF attempts >= AuditRetryMax
       THEN Audited
       ELSE /\ attempts' = attempts + 1
            /\ since' = now
            /\ UNCHANGED <<entry, phase, lost, failureAt, unreachable>>
  /\ UNCHANGED <<now, pollTimeout, received, degraded, events, telegram, heardAt>>

\* The call fails, or its answer is lost.
AppendFails ==
  /\ AppendDue
  /\ misses < MaxMisses
  /\ misses' = misses + 1
  /\ UNCHANGED log \/ Take
  /\ IF attempts + 1 >= AuditRetryMax
       THEN Audited
       ELSE /\ attempts' = attempts + 1
            /\ since' = now
            /\ UNCHANGED <<entry, phase, lost, failureAt, unreachable>>
  /\ UNCHANGED <<now, pollTimeout, received, degraded, events, telegram, heardAt>>

-----------------------------------------------------------------------------
(* Telegram and time *)

TelegramFails ==
  /\ up /\ outages < MaxOutages
  /\ up' = FALSE
  /\ turnedAt' = now
  /\ outages' = outages + 1
  /\ lost' = (phase = "polling")
  /\ UNCHANGED <<now, pollTimeout, phase, since, received, clock, auditing, waiting, apps,
                 heardAt>>

TelegramReturns ==
  /\ ~up
  /\ up' = TRUE
  /\ turnedAt' = now
  /\ UNCHANGED <<now, pollTimeout, loop, clock, auditing, waiting, outages, apps, heardAt>>

UpdateArrives ==
  /\ ~waiting
  /\ waiting' = TRUE
  /\ UNCHANGED <<now, pollTimeout, loop, clock, auditing, up, turnedAt, outages, apps,
                 heardAt>>

\* What cannot wait any longer.
PollDue == phase = "polling" /\ (\/ now >= since + ClientTimeout
                                 \/ up /\ ~lost /\ now >= since + pollTimeout)
SleepDue == phase = "sleeping" /\ now >= since + RetryDelay

Tick ==
  /\ now < MaxTime
  /\ ~PollDue /\ ~SleepDue /\ ~AppendDue
  /\ now' = now + 1
  /\ UNCHANGED <<pollTimeout, loop, clock, auditing, telegram, apps, heardAt>>

Next ==
  \/ PollAnswered \/ PollFails \/ SleepEnds \/ HandlingEnds
  \/ AppendSucceeds \/ AppendFails
  \/ TelegramFails \/ TelegramReturns \/ UpdateArrives \/ Tick

Spec == Init /\ [][Next]_vars

-----------------------------------------------------------------------------
(* Properties *)

\* An idle poll ends before the HTTP client gives it up.  With the default of
\* TELEGRAM_POLL_TIMEOUT this is false: both timeouts are 30 s.
Patient == pollTimeout < ClientTimeout

\* Telegram is called unreachable only when no poll has succeeded for the whole
\* minute, and, if idle polls end in time, only when it was down during the last
\* of them: a new outage never inherits the clock of an earlier one.
OutageIsReal ==
  [][~unreachable /\ unreachable' =>
       /\ now - heardAt >= UnreachableAfter
       /\ Patient => ~up \/ now - turnedAt <= ClientTimeout]_vars

\* appendAudit takes at most this long.
AuditTime == (AuditRetryMax - 1) * RetryDelay

\* telegramUnreachable and the Degraded state follow Telegram with a bounded
\* delay.  When no poll succeeds, that is noticed after the minute, which begins
\* with the first failure and ends with a poll; only the handling of updates
\* delays it.  The end of an outage is noticed by the next poll, if idle polls end
\* in time, after the retries of the audit entries.
ReachabilityFollows ==
  /\ now - heardAt > UnreachableAfter + 2 * (ClientTimeout + RetryDelay) + AuditTime
       => unreachable \/ phase = "handling"
  /\ Patient /\ up /\ now - turnedAt > ClientTimeout + RetryDelay + pollTimeout + 2 * AuditTime
       => ~unreachable /\ ~degraded

\* An outage or its end is missing in the audit log only if the service failed
\* every attempt: no two of them share a key, which would make the service take
\* the second for a repetition.
OutagesLogged ==
  LET settled == events - (IF phase = "auditing" THEN 1 ELSE 0) IN
  settled - Cardinality(log) <= misses \div AuditRetryMax
=============================================================================
