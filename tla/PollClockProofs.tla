-------------------------- MODULE PollClockProofs ---------------------------
(***************************************************************************)
(* How late PollClock notices an outage and its end, and which audit       *)
(* entries it loses, for all values of the delays, timeouts and bounds.    *)
(*                                                                         *)
(* What is due bounds how long a phase lasts.  The sum of the phases       *)
(* between a point of time that is remembered (heardAt, failureAt,         *)
(* turnedAt) and now bounds how long ago that was.  For the audit log,     *)
(* AuditRetryMax failed calls are set against each entry that is missing,  *)
(* and no entry that comes has the key of one that is there.               *)
(***************************************************************************)
EXTENDS PollClock, FiniteSetTheorems, TLAPS

-----------------------------------------------------------------------------
(* The inductive invariant *)

Reporting  == phase = "auditing" /\ entry.name = "telegram_unreachable"
Recovering == phase = "auditing" /\ entry.name = "telegram_recovered"

\* What the phases of the loop have in common with the flags.
Phases ==
  /\ phase = "auditing" => entry \in Entry /\ unreachable
  /\ phase = "handling" => failureAt = Never /\ ~unreachable /\ ~degraded
  /\ Recovering => ~degraded
  /\ unreachable => failureAt # Never /\ failureAt < now
  /\ phase = "polling" /\ ~up => lost
  /\ phase = "polling" /\ lost /\ up => since <= turnedAt

\* The pauses between attempts, up to the last attempt but one, and since then.
Spent == IF attempts = 0 THEN 0 ELSE (attempts - 1) * RetryDelay
Pause == IF attempts = 0 THEN 0 ELSE RetryDelay

\* No phase lasts longer than its timer.
Timers ==
  /\ phase = "polling" => /\ now <= since + ClientTimeout
                          /\ ~lost => now <= since + pollTimeout
  /\ phase = "sleeping" => now <= since + RetryDelay
  /\ phase = "auditing" => now <= since + Pause

\* The clock of an outage starts after the last success, and soon.
Failure ==
  /\ Recovering => since <= heardAt + Spent /\ failureAt < heardAt
  /\ phase = "polling" /\ failureAt = Never => since <= heardAt + AuditTime + RetryDelay
  /\ phase = "sleeping" /\ failureAt = Never => since <= heardAt
  /\ failureAt # Never /\ ~Recovering =>
       /\ heardAt <= failureAt
       /\ failureAt <= heardAt + AuditTime + RetryDelay + ClientTimeout
  /\ failureAt # Never /\ ~unreachable =>
       /\ phase = "sleeping" => since < failureAt + UnreachableAfter
       /\ phase = "polling" => since < failureAt + UnreachableAfter + RetryDelay

\* How far the loop is at most from the end of an outage.
Return ==
  Patient /\ up =>
    /\ phase = "sleeping" /\ (unreachable \/ degraded)
         => since <= turnedAt + ClientTimeout + AuditTime
    /\ phase = "polling" /\ (unreachable \/ degraded) /\ ~lost
         => since <= turnedAt + ClientTimeout + AuditTime + RetryDelay
    /\ Reporting => since <= turnedAt + ClientTimeout + Spent
    /\ Recovering
         => since <= turnedAt + ClientTimeout + AuditTime + RetryDelay + pollTimeout + Spent

ClockInv == TypeOK /\ Phases /\ Timers /\ Failure /\ Return

\* Every entry the service has is older than the one that may come next.
Keys ==
  /\ \A e \in log :
       IF e.name = "telegram_unreachable"
         THEN e.key < heardAt \/ (unreachable /\ e.key = failureAt)
         ELSE e.key <= heardAt
  /\ Reporting => entry.key = failureAt
  /\ Recovering => entry.key = heardAt

\* Entries that are done with, and those the service has of them.
Ended == events - (IF phase = "auditing" THEN 1 ELSE 0)
Kept  == IF phase = "auditing" THEN log \ {entry} ELSE log
Tries == IF phase = "auditing" THEN attempts ELSE 0

\* An entry is only lost when all its attempts failed.
Paid == AuditRetryMax * (Ended - Cardinality(Kept)) + Tries <= misses

LogInv == IsFiniteSet(log) /\ Keys /\ Paid

-----------------------------------------------------------------------------
(* Arithmetic *)

LEMMA Constants ==
  /\ ClientTimeout \in Nat /\ ClientTimeout > 0
  /\ RetryDelay \in Nat /\ RetryDelay > 0
  /\ UnreachableAfter \in Nat /\ UnreachableAfter > 0
  /\ AuditRetryMax \in Nat /\ AuditRetryMax > 0
  /\ MaxTime \in Nat /\ MaxOutages \in Nat /\ MaxMisses \in Nat
  BY PollClockAssumption

LEMMA Products ==
  ASSUME NEW a \in Nat, NEW b \in Nat, NEW c \in Nat, a <= b
  PROVE  a * c \in Nat /\ a * c <= b * c
<1>1. (b - a) * c \in Nat
  OBVIOUS
<1>2. b * c = a * c + (b - a) * c
  OBVIOUS
<1> QED
  BY <1>1, <1>2

LEMMA Quotients ==
  ASSUME NEW n \in Nat \ {0}, NEW m \in Nat, NEW a \in Int, n * a <= m
  PROVE  a <= m \div n
<1> DEFINE q == m \div n
<1>1. q \in Int /\ m < n * (q + 1)
  OBVIOUS
<1>2. CASE a >= q + 1
  <2>1. n * (a - (q + 1)) >= 0
    BY <1>1, <1>2
  <2>2. n * a = n * (q + 1) + n * (a - (q + 1))
    BY <1>1
  <2> QED
    BY <1>1, <2>1, <2>2
<1> QED
  BY <1>1, <1>2

\* The retries of appendAudit fit into AuditTime.
LEMMA SpentFits ==
  ASSUME attempts \in 0 .. AuditRetryMax - 1
  PROVE  /\ Spent \in Nat /\ Pause \in Nat /\ AuditTime \in Nat
         /\ Spent + Pause <= AuditTime
         /\ attempts' = attempts + 1 => Spent' = Spent + Pause
         /\ attempts' = 0 => Spent' = 0
         /\ attempts' = attempts => Spent' = Spent
<1>0. /\ RetryDelay \in Nat /\ AuditRetryMax - 1 \in Nat /\ attempts \in Nat
      /\ attempts <= AuditRetryMax - 1
  BY Constants
<1>1. attempts * RetryDelay \in Nat /\ attempts * RetryDelay <= AuditTime
  BY <1>0, Products DEF AuditTime
<1>2. AuditTime \in Nat
  BY <1>0, Products DEF AuditTime
<1>3. CASE attempts = 0
  BY <1>0, <1>2, <1>3 DEF Spent, Pause
<1>4. CASE attempts # 0
  <2>1. attempts - 1 \in Nat
    BY <1>0, <1>4
  <2>2. (attempts - 1) * RetryDelay \in Nat
    BY <1>0, <2>1, Products
  <2>3. attempts * RetryDelay = (attempts - 1) * RetryDelay + RetryDelay
    BY <1>0
  <2> QED
    BY <1>0, <1>1, <1>2, <1>4, <2>2, <2>3 DEF Spent, Pause
<1> QED
  BY <1>3, <1>4

\* The types, spelled out.
LEMMA Facts ==
  ASSUME TypeOK
  PROVE  /\ now \in Nat /\ since \in Nat /\ turnedAt \in Nat /\ heardAt \in Nat
         /\ now <= MaxTime /\ since <= now /\ turnedAt <= now /\ heardAt <= now
         /\ failureAt \in Int /\ Never \in Int
         /\ failureAt # Never => failureAt \in Nat /\ failureAt <= now
         /\ pollTimeout \in Nat /\ pollTimeout > 0
         /\ attempts \in Nat /\ attempts \in 0 .. AuditRetryMax - 1
         /\ events \in Nat /\ misses \in Nat
  BY PollClockAssumption, Constants DEF TypeOK, Time, Never

-----------------------------------------------------------------------------
(* Types and phases *)

\* TypeOK with each variable on its own.
Typed ==
  /\ now \in 0 .. MaxTime /\ pollTimeout \in PollTimeouts
  /\ phase \in {"polling", "handling", "sleeping", "auditing"}
  /\ since \in 0 .. now /\ turnedAt \in 0 .. now /\ heardAt \in 0 .. now
  /\ lost \in BOOLEAN /\ received \in BOOLEAN /\ unreachable \in BOOLEAN
  /\ degraded \in BOOLEAN /\ up \in BOOLEAN /\ waiting \in BOOLEAN
  /\ failureAt \in {Never} \cup 0 .. now
  /\ entry \in Entry \cup {NoEntry}
  /\ attempts \in 0 .. AuditRetryMax - 1
  /\ log \subseteq Entry
  /\ events \in Nat /\ outages \in 0 .. MaxOutages /\ misses \in 0 .. MaxMisses

LEMMA TypeIsTyped == (TypeOK <=> Typed) /\ (Typed' => TypeOK')
<1>1. TypeOK <=> Typed
  BY DEF TypeOK, Typed, Time
<1>2. Typed' => TypeOK'
  BY DEF TypeOK, Typed, Time
<1> QED
  BY <1>1, <1>2

LEMMA InitClock == Init => ClockInv /\ LogInv
<1> SUFFICES ASSUME Init PROVE ClockInv /\ LogInv
  OBVIOUS
<1>1. TypeOK
  <2>1. 0 \in 0 .. 0 /\ 0 \in 0 .. MaxTime /\ 0 \in 0 .. MaxOutages /\ 0 \in 0 .. MaxMisses
        /\ 0 \in 0 .. AuditRetryMax - 1 /\ 0 \in Nat
    BY Constants
  <2>2. Typed
    BY <2>1 DEF Init, Typed
  <2> QED
    BY <2>2, TypeIsTyped
<1>2. Phases
  <2>1. /\ phase = "polling" /\ unreachable = FALSE /\ up = TRUE /\ lost = FALSE
        /\ ~Recovering
    BY DEF Init, Recovering
  <2> QED
    BY <2>1 DEF Phases
<1>a. Timers
  BY <1>1, Constants, Facts DEF Init, Timers
<1>3. AuditTime \in Nat
  BY <1>1, Facts, SpentFits
<1>4. Failure /\ Return
  BY <1>1, <1>3, Constants, Facts DEF Init, Failure, Return, Recovering, Reporting, Never
<1>5. IsFiniteSet(log) /\ Cardinality(log) = 0
  BY FS_EmptySet DEF Init
<1>6. Keys
  BY DEF Init, Keys, Reporting, Recovering
<1>7. Ended = 0 /\ Kept = log /\ Tries = 0 /\ misses = 0
  BY DEF Init, Ended, Kept, Tries
<1>8. Paid
  BY <1>5, <1>7, Constants DEF Paid
<1> QED
  BY <1>1, <1>2, <1>a, <1>4, <1>5, <1>6, <1>8 DEF ClockInv, LogInv

\* The point of time a phase begins, and whether Telegram is down then.
LEMMA EnterType ==
  ASSUME TypeOK, NEW p \in {"polling", "handling", "sleeping", "auditing"}, Enter(p),
         now' = now
  PROVE  /\ phase' = p
         /\ phase' \in {"polling", "handling", "sleeping", "auditing"}
         /\ since' = now /\ since' \in 0 .. now'
         /\ lost' \in BOOLEAN
         /\ lost' <=> p = "polling" /\ ~up
<1>1. phase' = p /\ since' = now
  BY DEF Enter
<1>2. lost' \in BOOLEAN
  BY DEF Enter
<1>3. since' \in 0 .. now'
  BY Facts DEF Enter
<1>4. lost' <=> p = "polling" /\ ~up
  BY DEF Enter
<1> QED
  BY <1>1, <1>2, <1>3, <1>4

LEMMA AuditedType ==
  ASSUME TypeOK, Audited, now' = now
  PROVE  /\ phase' \in {"polling", "handling", "sleeping"}
         /\ since' = now /\ since' \in 0 .. now'
         /\ lost' \in BOOLEAN
         /\ failureAt' \in {Never} \cup 0 .. now' /\ unreachable' \in BOOLEAN
         /\ entry' \in Entry \cup {NoEntry}
         /\ attempts' \in 0 .. AuditRetryMax - 1
<1>0. Typed /\ now \in Nat
  BY TypeIsTyped, Facts
<1>1. attempts' \in 0 .. AuditRetryMax - 1 /\ entry' \in Entry \cup {NoEntry}
  BY Constants DEF Audited
<1>2. CASE entry.name = "telegram_recovered"
  <2> PICK p \in {"polling", "handling", "sleeping", "auditing"} :
        p = IF received THEN "handling" ELSE "polling"
    OBVIOUS
  <2>1. Enter(p) /\ failureAt' = Never /\ unreachable' = FALSE /\ p \in {"polling", "handling"}
    BY <1>2 DEF Audited, Proceed
  <2> QED
    BY <1>1, <2>1, EnterType
<1>3. CASE entry.name # "telegram_recovered"
  <2>1. Enter("sleeping") /\ failureAt' = failureAt /\ unreachable' = unreachable
    BY <1>3 DEF Audited
  <2>2. phase' = "sleeping" /\ since' = now /\ since' \in 0 .. now' /\ lost' \in BOOLEAN
    BY <2>1, EnterType
  <2> QED
    BY <1>0, <1>1, <2>1, <2>2 DEF Typed
<1> QED
  BY <1>2, <1>3

LEMMA TypeStep == TypeOK /\ Phases /\ Next => TypeOK'
<1> SUFFICES ASSUME TypeOK, Phases, Next PROVE Typed'
  BY TypeIsTyped
<1> USE DEF loop, clock, auditing, telegram, apps
<1>0. /\ Typed /\ now \in Nat /\ now \in 0 .. now /\ now <= MaxTime /\ Never \in Int
      /\ events \in Nat /\ misses \in Nat /\ outages \in Nat /\ MaxMisses \in Nat
      /\ 0 \in 0 .. AuditRetryMax - 1 /\ MaxTime \in Nat /\ MaxOutages \in Nat
      /\ AuditRetryMax \in Nat
  BY TypeIsTyped, Facts, Constants DEF Typed
<1>1. CASE PollAnswered
  <2>1. [name |-> "telegram_recovered", key |-> now] \in Entry
    BY <1>0 DEF Entry, Time, Typed
  <2>2. /\ now' = now /\ heardAt' = now
        /\ received' = waiting /\ waiting' = FALSE /\ degraded' = FALSE
        /\ UNCHANGED <<pollTimeout, up, turnedAt, outages, apps>>
    BY <1>1 DEF PollAnswered
  <2>3. CASE unreachable
    <3>1. Enter("auditing") /\ attempts' = 0 /\ events' = events + 1
          /\ entry' = [name |-> "telegram_recovered", key |-> now]
          /\ failureAt' = failureAt /\ unreachable' = unreachable
      BY <1>1, <2>3 DEF PollAnswered, AppendAudit
    <3>2. phase' = "auditing" /\ since' \in 0 .. now' /\ lost' \in BOOLEAN
      BY <2>2, <3>1, EnterType
    <3>3. entry' \in Entry /\ attempts' \in 0 .. AuditRetryMax - 1 /\ events' \in Nat
      BY <1>0, <2>1, <3>1
    <3>4. UNCHANGED <<failureAt, unreachable>>
      BY <3>1
    <3> QED
      BY <1>0, <2>2, <3>2, <3>3, <3>4 DEF Typed
  <2>4. CASE ~unreachable
    <3> PICK p \in {"polling", "handling", "sleeping", "auditing"} :
          p = IF waiting THEN "handling" ELSE "polling"
      OBVIOUS
    <3>1. Enter(p) /\ failureAt' = Never /\ unreachable' = FALSE /\ UNCHANGED auditing
      BY <1>1, <2>4 DEF PollAnswered, Proceed
    <3>2. phase' \in {"polling", "handling", "sleeping", "auditing"}
          /\ since' \in 0 .. now' /\ lost' \in BOOLEAN
      BY <2>2, <3>1, EnterType
    <3>3. failureAt' \in {Never} \cup 0 .. now' /\ unreachable' \in BOOLEAN
      BY <3>1
    <3> QED
      BY <1>0, <2>2, <3>1, <3>2, <3>3 DEF Typed
  <2> QED
    BY <2>3, <2>4
<1>2. CASE PollFails
  <2>1. failureAt' \in 0 .. now /\ now' = now /\ degraded' = TRUE
    BY <1>0, <1>2 DEF PollFails, Failing, Typed
  <2>2. [name |-> "telegram_unreachable", key |-> failureAt'] \in Entry
    BY <1>0, <2>1 DEF Entry, Time
  <2>3. CASE ~unreachable /\ now - failureAt' >= UnreachableAfter
    <3>1. Enter("auditing") /\ attempts' = 0 /\ events' = events + 1
          /\ entry' = [name |-> "telegram_unreachable", key |-> failureAt']
          /\ unreachable' = TRUE
      BY <1>2, <2>3 DEF PollFails, AppendAudit
    <3>2. phase' = "auditing" /\ since' \in 0 .. now' /\ lost' \in BOOLEAN
      BY <2>1, <3>1, EnterType
    <3> QED
      BY <1>0, <1>2, <2>1, <2>2, <3>1, <3>2 DEF PollFails, Typed
  <2>4. CASE ~(~unreachable /\ now - failureAt' >= UnreachableAfter)
    <3>1. Enter("sleeping") /\ UNCHANGED <<unreachable, auditing>>
      BY <1>2, <2>4 DEF PollFails
    <3>2. phase' = "sleeping" /\ since' \in 0 .. now' /\ lost' \in BOOLEAN
      BY <2>1, <3>1, EnterType
    <3> QED
      BY <1>0, <1>2, <2>1, <3>1, <3>2 DEF PollFails, Typed
  <2> QED
    BY <2>3, <2>4
<1>3. CASE SleepEnds
  <2>1. Enter("polling") /\ now' = now
    BY <1>3 DEF SleepEnds
  <2>2. phase' = "polling" /\ since' \in 0 .. now' /\ lost' \in BOOLEAN
    BY <2>1, EnterType
  <2> QED
    BY <1>0, <1>3, <2>1, <2>2 DEF SleepEnds, Typed
<1>4. CASE HandlingEnds
  <2>1. PICK p \in {"polling", "handling", "sleeping", "auditing"} : Enter(p) /\ now' = now
    BY <1>4 DEF HandlingEnds
  <2>2. /\ phase' \in {"polling", "handling", "sleeping", "auditing"}
        /\ since' \in 0 .. now' /\ lost' \in BOOLEAN
    BY <2>1, EnterType
  <2> QED
    BY <1>0, <1>4, <2>1, <2>2 DEF HandlingEnds, Typed
<1>5. CASE AppendSucceeds
  <2>1. log' \subseteq Entry
    BY <1>0, <1>5 DEF AppendSucceeds, AppendDue, Take, Phases, Typed
  <2>2. Audited /\ now' = now
    BY <1>5 DEF AppendSucceeds
  <2> QED
    BY <1>0, <1>5, <2>1, <2>2, AuditedType DEF AppendSucceeds, Typed
<1>6. CASE AppendFails
  <2>1. log' \subseteq Entry
    BY <1>0, <1>6 DEF AppendFails, AppendDue, Take, Phases, Typed
  <2>2. misses' \in 0 .. MaxMisses /\ now' = now
    BY <1>0, <1>6 DEF AppendFails
  <2>3. CASE attempts + 1 >= AuditRetryMax
    <3>1. Audited
      BY <1>6, <2>3 DEF AppendFails
    <3> QED
      BY <1>0, <1>6, <2>1, <2>2, <3>1, AuditedType DEF AppendFails, Typed
  <2>4. CASE ~(attempts + 1 >= AuditRetryMax)
    <3>1. attempts' \in 0 .. AuditRetryMax - 1
      BY <1>0, <1>6, <2>4 DEF AppendFails, Typed
    <3> QED
      BY <1>0, <1>6, <2>1, <2>2, <2>4, <3>1 DEF AppendFails, Typed
  <2> QED
    BY <2>3, <2>4
<1>7. CASE TelegramFails
  <2>1. lost' \in BOOLEAN /\ outages' \in 0 .. MaxOutages
    BY <1>0, <1>7 DEF TelegramFails
  <2> QED
    BY <1>0, <1>7, <2>1 DEF TelegramFails, Typed
<1>8. CASE TelegramReturns
  BY <1>0, <1>8 DEF TelegramReturns, Typed
<1>9. CASE UpdateArrives
  BY <1>0, <1>9 DEF UpdateArrives, Typed
<1>10. CASE Tick
  BY <1>0, <1>10 DEF Tick, Typed
<1> QED
  BY <1>1, <1>2, <1>3, <1>4, <1>5, <1>6, <1>7, <1>8, <1>9, <1>10 DEF Next

-----------------------------------------------------------------------------
(* The clock, step by step *)

\* What every step needs of the state it starts in.
LEMMA State ==
  ASSUME ClockInv
  PROVE  /\ now \in Nat /\ since \in Nat /\ turnedAt \in Nat /\ heardAt \in Nat
         /\ since <= now /\ turnedAt <= now /\ heardAt <= now
         /\ failureAt \in Int /\ Never = -1
         /\ failureAt # Never => failureAt \in Nat /\ failureAt <= now
         /\ pollTimeout \in Nat /\ pollTimeout > 0
         /\ attempts \in Nat /\ attempts \in 0 .. AuditRetryMax - 1
         /\ ClientTimeout \in Nat /\ RetryDelay \in Nat /\ UnreachableAfter \in Nat
         /\ ClientTimeout > 0 /\ RetryDelay > 0 /\ UnreachableAfter > 0
         /\ Spent \in Nat /\ Pause \in Nat /\ AuditTime \in Nat
         /\ Spent + Pause <= AuditTime
  BY Facts, Constants, SpentFits DEF ClockInv, Never

\* An audit entry is about the outage or about its end.
LEMMA OneEntry ==
  ASSUME TypeOK, Phases, phase = "auditing"
  PROVE  Reporting \/ Recovering
  BY DEF Phases, Entry, Reporting, Recovering

\* An idle poll of a bot that is Patient fails only if Telegram was lost.
LEMMA LostPoll ==
  ASSUME ClockInv, PollFails, Patient, up
  PROVE  now <= turnedAt + ClientTimeout
<1>0. /\ now \in Nat /\ since \in Nat /\ turnedAt \in Nat /\ ClientTimeout \in Nat
      /\ pollTimeout \in Nat /\ pollTimeout < ClientTimeout
  BY State DEF Patient
<1>1. phase = "polling" /\ (lost \/ now >= since + ClientTimeout)
  BY DEF PollFails
<1>2. now <= since + ClientTimeout /\ (~lost => now <= since + pollTimeout)
  BY <1>1 DEF ClockInv, Timers
<1>3. lost
  BY <1>0, <1>1, <1>2
<1>4. since <= turnedAt
  BY <1>1, <1>3 DEF ClockInv, Phases
<1> QED
  BY <1>0, <1>2, <1>4

LEMMA AnsweredRecovers ==
  ASSUME ClockInv, PollAnswered, unreachable
  PROVE  (Phases /\ Timers /\ Failure /\ Return)'
<1>1. /\ phase = "polling" /\ phase' = "auditing" /\ now' = now /\ since' = now
      /\ entry' = [name |-> "telegram_recovered", key |-> now] /\ attempts' = 0
      /\ up /\ up' = up /\ turnedAt' = turnedAt /\ heardAt' = now /\ degraded' = FALSE
      /\ failureAt' = failureAt /\ unreachable' = unreachable /\ pollTimeout' = pollTimeout
  BY DEF PollAnswered, AppendAudit, Enter, apps
<1>2. entry' \in Entry
  BY <1>1, Facts DEF Entry, Time, ClockInv
<1>3. Recovering' /\ ~Reporting'
  BY <1>1 DEF Recovering, Reporting
<1>4. Spent' = 0 /\ Pause' = 0
  BY <1>1 DEF Spent, Pause
<1>5. failureAt # Never /\ failureAt < now
  BY DEF ClockInv, Phases
<1>6. Phases'
  BY <1>1, <1>2, <1>5 DEF Phases
<1>7. Timers'
  BY <1>1, <1>4, State DEF Timers
<1>8. Failure'
  BY <1>1, <1>3, <1>4, <1>5, State DEF Failure
<1>9. Return'
  <2> SUFFICES ASSUME Patient
               PROVE  now <= turnedAt + ClientTimeout + AuditTime + RetryDelay + pollTimeout
    BY <1>1, <1>3, <1>4, State DEF Return, Patient
  <2>1. CASE lost
    BY <1>1, <2>1, State DEF ClockInv, Phases, Timers
  <2>2. CASE ~lost
    BY <1>1, <2>2, State DEF ClockInv, Return, Timers
  <2> QED
    BY <2>1, <2>2
<1> QED
  BY <1>6, <1>7, <1>8, <1>9

LEMMA AnsweredProceeds ==
  ASSUME ClockInv, PollAnswered, ~unreachable
  PROVE  (Phases /\ Timers /\ Failure /\ Return)'
<1> PICK p \in {"polling", "handling"} : p = IF waiting THEN "handling" ELSE "polling"
  OBVIOUS
<1>1. /\ phase' = p /\ now' = now /\ since' = now
      /\ up /\ up' = up /\ turnedAt' = turnedAt /\ heardAt' = now /\ degraded' = FALSE
      /\ failureAt' = Never /\ unreachable' = FALSE /\ pollTimeout' = pollTimeout
  BY DEF PollAnswered, Proceed, Enter, apps
<1>2. ~Recovering' /\ ~Reporting'
  BY <1>1 DEF Recovering, Reporting
<1>3. lost' = FALSE
  BY <1>1 DEF PollAnswered, Proceed, Enter
<1>4. Phases'
  BY <1>1, <1>2, <1>3 DEF Phases
<1>5. Timers'
  BY <1>1, State DEF Timers
<1>6. Failure'
  BY <1>1, <1>2, State DEF Failure
<1>7. Return'
  BY <1>1, <1>2 DEF Return
<1> QED
  BY <1>4, <1>5, <1>6, <1>7

\* telegramFailureAt after a poll that failed.
LEMMA FailingClock ==
  ASSUME ClockInv, PollFails
  PROVE  /\ failureAt' \in Nat /\ failureAt' <= now /\ failureAt' # Never
         /\ heardAt <= failureAt'
         /\ failureAt' <= heardAt + AuditTime + RetryDelay + ClientTimeout
<1>1. phase = "polling" /\ ~Recovering
  BY DEF PollFails, Recovering
<1>2. CASE failureAt = Never
  <2>1. failureAt' = now
    BY <1>2 DEF PollFails, Failing
  <2>2. since <= heardAt + AuditTime + RetryDelay /\ now <= since + ClientTimeout
    BY <1>1, <1>2 DEF ClockInv, Failure, Timers
  <2> QED
    BY <2>1, <2>2, State
<1>3. CASE failureAt # Never
  <2>1. failureAt' = failureAt
    BY <1>3 DEF PollFails, Failing
  <2> QED
    BY <1>1, <1>3, <2>1, State DEF ClockInv, Failure
<1> QED
  BY <1>2, <1>3

LEMMA FailsReports ==
  ASSUME ClockInv, PollFails, ~unreachable, now - failureAt' >= UnreachableAfter
  PROVE  (Phases /\ Timers /\ Failure /\ Return)'
<1>1. /\ phase = "polling" /\ phase' = "auditing" /\ now' = now /\ since' = now
      /\ entry' = [name |-> "telegram_unreachable", key |-> failureAt'] /\ attempts' = 0
      /\ up' = up /\ turnedAt' = turnedAt /\ heardAt' = heardAt
      /\ unreachable' = TRUE /\ pollTimeout' = pollTimeout
  BY DEF PollFails, AppendAudit, Enter, telegram
<1>2. failureAt' \in Time
  BY FailingClock, State, Facts, Constants DEF Time, ClockInv
<1>3. entry' \in Entry
  BY <1>1, <1>2 DEF Entry
<1>4. ~Recovering' /\ Reporting'
  BY <1>1 DEF Recovering, Reporting
<1>5. Spent' = 0 /\ Pause' = 0
  BY <1>1 DEF Spent, Pause
<1>6. failureAt' < now
  BY FailingClock, State
<1>7. Phases'
  BY <1>1, <1>3, <1>4, <1>6, FailingClock DEF Phases
<1>8. Timers'
  BY <1>1, <1>5, State DEF Timers
<1>9. Failure'
  BY <1>1, <1>4, FailingClock DEF Failure
<1>10. Return'
  <2>1. Patient /\ up => now <= turnedAt + ClientTimeout
    BY LostPoll
  <2> QED
    BY <1>1, <1>4, <1>5, <2>1, State DEF Return, Patient
<1> QED
  BY <1>7, <1>8, <1>9, <1>10

LEMMA FailsSleeps ==
  ASSUME ClockInv, PollFails, ~(~unreachable /\ now - failureAt' >= UnreachableAfter)
  PROVE  (Phases /\ Timers /\ Failure /\ Return)'
<1>1. /\ phase = "polling" /\ phase' = "sleeping" /\ now' = now /\ since' = now
      /\ up' = up /\ turnedAt' = turnedAt /\ heardAt' = heardAt
      /\ unreachable' = unreachable /\ pollTimeout' = pollTimeout
  BY DEF PollFails, Enter, telegram, auditing
<1>2. ~Recovering' /\ ~Reporting'
  BY <1>1 DEF Recovering, Reporting
<1>3. unreachable => failureAt' < now
  <2>1. unreachable => failureAt # Never /\ failureAt < now
    BY DEF ClockInv, Phases
  <2> QED
    BY <2>1 DEF PollFails, Failing
<1>4. Phases'
  BY <1>1, <1>2, <1>3, FailingClock DEF Phases
<1>5. Timers'
  BY <1>1, State DEF Timers
<1>6. Failure'
  BY <1>1, <1>2, FailingClock, State DEF Failure
<1>7. Return'
  <2>1. Patient /\ up => now <= turnedAt + ClientTimeout
    BY LostPoll
  <2> QED
    BY <1>1, <1>2, <2>1, State DEF Return, Patient
<1> QED
  BY <1>4, <1>5, <1>6, <1>7

LEMMA SleepEndsClock ==
  ASSUME ClockInv, SleepEnds
  PROVE  (Phases /\ Timers /\ Failure /\ Return)'
<1>1. /\ phase = "sleeping" /\ phase' = "polling" /\ now' = now /\ since' = now
      /\ up' = up /\ turnedAt' = turnedAt /\ heardAt' = heardAt
      /\ UNCHANGED <<failureAt, unreachable, degraded, pollTimeout>>
  BY DEF SleepEnds, Enter, telegram, clock
<1>2. ~Recovering /\ ~Recovering' /\ ~Reporting'
  BY <1>1 DEF Recovering, Reporting
<1>3. lost' <=> ~up
  BY <1>1, EnterType DEF SleepEnds, ClockInv
<1>4. now <= since + RetryDelay
  BY <1>1 DEF ClockInv, Timers
<1>5. Phases'
  BY <1>1, <1>2, <1>3 DEF ClockInv, Phases
<1>6. Timers'
  BY <1>1, State DEF Timers
<1>7. Failure'
  BY <1>1, <1>2, <1>4, State DEF ClockInv, Failure
<1>8. Return'
  BY <1>1, <1>2, <1>3, <1>4, State DEF ClockInv, Return, Patient
<1> QED
  BY <1>5, <1>6, <1>7, <1>8

LEMMA HandlingEndsClock ==
  ASSUME ClockInv, HandlingEnds
  PROVE  (Phases /\ Timers /\ Failure /\ Return)'
<1>1. PICK p \in {"polling", "sleeping"} : Enter(p)
  BY DEF HandlingEnds
<1>2. /\ phase = "handling" /\ phase' = p /\ now' = now /\ since' = now
      /\ up' = up /\ turnedAt' = turnedAt /\ heardAt' = now
      /\ UNCHANGED <<failureAt, unreachable, degraded, pollTimeout>>
  BY <1>1 DEF HandlingEnds, Enter, telegram, clock
<1>3. failureAt = Never /\ ~unreachable /\ ~degraded
  BY <1>2 DEF ClockInv, Phases
<1>4. ~Recovering' /\ ~Reporting'
  BY <1>2 DEF Recovering, Reporting
<1>5. lost' <=> p = "polling" /\ ~up
  BY <1>1, <1>2, EnterType DEF ClockInv
<1>6. Phases'
  BY <1>2, <1>3, <1>4, <1>5 DEF Phases
<1>7. Timers'
  BY <1>2, State DEF Timers
<1>8. Failure'
  BY <1>2, <1>3, <1>4, State DEF Failure
<1>9. Return'
  BY <1>2, <1>3, <1>4 DEF Return
<1> QED
  BY <1>6, <1>7, <1>8, <1>9

\* appendAudit returns, with an entry the service took or did not take.
LEMMA AuditedClock ==
  ASSUME ClockInv, phase = "auditing", Audited,
         UNCHANGED <<now, pollTimeout, degraded, telegram, heardAt>>
  PROVE  (Phases /\ Timers /\ Failure /\ Return)'
<1>1. now' = now /\ up' = up /\ turnedAt' = turnedAt /\ heardAt' = heardAt
      /\ degraded' = degraded /\ pollTimeout' = pollTimeout
  BY DEF telegram
<1>2. unreachable /\ failureAt # Never /\ failureAt < now /\ now <= since + Pause
  BY DEF ClockInv, Phases, Timers
<1>3. CASE Recovering
  <2> PICK p \in {"polling", "handling"} : p = IF received THEN "handling" ELSE "polling"
    OBVIOUS
  <2>1. Enter(p) /\ failureAt' = Never /\ unreachable' = FALSE
    BY <1>3 DEF Audited, Proceed, Recovering
  <2>2. phase' = p /\ since' = now
    BY <2>1 DEF Enter
  <2>3. ~degraded /\ ~Recovering' /\ ~Reporting'
    BY <1>3, <2>2 DEF ClockInv, Phases, Recovering, Reporting
  <2>4. lost' <=> p = "polling" /\ ~up
    BY <1>1, <2>1, EnterType DEF ClockInv
  <2>5. now <= heardAt + AuditTime
    BY <1>2, <1>3, State DEF ClockInv, Failure
  <2>6. Phases'
    BY <1>1, <2>1, <2>2, <2>3, <2>4 DEF Phases
  <2>7. Timers'
    BY <1>1, <2>2, State DEF Timers
  <2>8. Failure'
    BY <1>1, <2>1, <2>2, <2>3, <2>5, State DEF Failure
  <2>9. Return'
    BY <1>1, <2>1, <2>2, <2>3 DEF Return
  <2> QED
    BY <2>6, <2>7, <2>8, <2>9
<1>4. CASE ~Recovering
  <2>1. Reporting
    BY <1>4, OneEntry DEF ClockInv
  <2>2. Enter("sleeping") /\ failureAt' = failureAt /\ unreachable' = unreachable
    BY <1>4 DEF Audited, Recovering
  <2>3. phase' = "sleeping" /\ since' = now
    BY <2>2 DEF Enter
  <2>4. ~Recovering' /\ ~Reporting'
    BY <2>3 DEF Recovering, Reporting
  <2>5. Phases'
    BY <1>1, <1>2, <2>2, <2>3, <2>4 DEF Phases
  <2>6. Timers'
    BY <1>1, <2>3, State DEF Timers
  <2>7. Failure'
    BY <1>1, <1>2, <1>4, <2>2, <2>3, <2>4, State DEF ClockInv, Failure
  <2>8. Return'
    BY <1>1, <1>2, <2>1, <2>3, <2>4, State DEF ClockInv, Return, Patient
  <2> QED
    BY <2>5, <2>6, <2>7, <2>8
<1> QED
  BY <1>3, <1>4

LEMMA AttemptFailsClock ==
  ASSUME ClockInv, AppendFails, ~(attempts + 1 >= AuditRetryMax)
  PROVE  (Phases /\ Timers /\ Failure /\ Return)'
<1>1. /\ phase = "auditing" /\ now' = now /\ since' = now /\ attempts' = attempts + 1
      /\ up' = up /\ turnedAt' = turnedAt
      /\ UNCHANGED <<phase, entry, failureAt, unreachable, degraded, heardAt, pollTimeout>>
  BY DEF AppendFails, AppendDue, telegram
<1>2. (Recovering' <=> Recovering) /\ (Reporting' <=> Reporting)
  BY <1>1 DEF Recovering, Reporting
<1>3. Spent' = Spent + Pause /\ Pause' \in Nat /\ now <= since + Pause
  <2>1. Spent' = Spent + Pause
    BY <1>1, SpentFits, State
  <2>2. Pause' \in Nat
    BY <1>1, State DEF Pause
  <2> QED
    BY <1>1, <2>1, <2>2 DEF ClockInv, Timers
<1>4. Phases'
  BY <1>1, <1>2 DEF ClockInv, Phases
<1>5. Timers'
  BY <1>1, <1>3, State DEF Timers
<1>6. Failure'
  BY <1>1, <1>2, <1>3, State DEF ClockInv, Failure
<1>7. Return'
  BY <1>1, <1>2, <1>3, State DEF ClockInv, Return, Patient
<1> QED
  BY <1>4, <1>5, <1>6, <1>7

\* The steps of Telegram and of time.
LEMMA EnvironmentClock ==
  ASSUME ClockInv, TelegramFails \/ TelegramReturns \/ UpdateArrives \/ Tick
  PROVE  (Phases /\ Timers /\ Failure /\ Return)'
<1>1. /\ UNCHANGED <<phase, since, entry, attempts, heardAt, pollTimeout>>
      /\ UNCHANGED <<failureAt, unreachable, degraded>>
  BY DEF TelegramFails, TelegramReturns, UpdateArrives, Tick, loop, clock, auditing
<1>2. (Recovering' <=> Recovering) /\ (Reporting' <=> Reporting)
      /\ Spent' = Spent /\ Pause' = Pause
  BY <1>1 DEF Recovering, Reporting, Spent, Pause
<1>3. Failure'
  BY <1>1, <1>2 DEF ClockInv, Failure
<1>4. CASE TelegramFails
  <2>1. now' = now /\ up' = FALSE
    BY <1>4 DEF TelegramFails
  <2>2. lost' <=> phase = "polling"
    BY <1>4 DEF TelegramFails
  <2>3. Phases'
    BY <1>1, <1>2, <2>1, <2>2 DEF ClockInv, Phases
  <2>4. Timers'
    BY <1>1, <1>2, <2>1, <2>2 DEF ClockInv, Timers
  <2>5. Return'
    BY <2>1 DEF Return
  <2> QED
    BY <1>3, <2>3, <2>4, <2>5
<1>5. CASE TelegramReturns
  <2>1. now' = now /\ ~up /\ up' = TRUE /\ turnedAt' = now /\ lost' = lost
    BY <1>5 DEF TelegramReturns, loop
  <2>2. Phases'
    BY <1>1, <1>2, <2>1, State DEF ClockInv, Phases
  <2>3. Timers'
    BY <1>1, <1>2, <2>1 DEF ClockInv, Timers
  <2>4. Return'
    BY <1>1, <1>2, <2>1, State DEF Return
  <2> QED
    BY <1>3, <2>2, <2>3, <2>4
<1>6. CASE UpdateArrives
  <2>1. now' = now /\ up' = up /\ turnedAt' = turnedAt /\ lost' = lost
    BY <1>6 DEF UpdateArrives, loop
  <2>2. Phases'
    BY <1>1, <1>2, <2>1 DEF ClockInv, Phases
  <2>3. Timers'
    BY <1>1, <1>2, <2>1 DEF ClockInv, Timers
  <2>4. Return'
    BY <1>1, <1>2, <2>1 DEF ClockInv, Return, Patient
  <2> QED
    BY <1>3, <2>2, <2>3, <2>4
<1>7. CASE Tick
  <2>1. now' = now + 1 /\ up' = up /\ turnedAt' = turnedAt /\ lost' = lost
    BY <1>7 DEF Tick, loop, telegram
  <2>2. Phases'
    BY <1>1, <1>2, <2>1, State DEF ClockInv, Phases
  <2>3. Timers'
    <3>1. CASE phase = "polling"
      <4>1. ~(now >= since + ClientTimeout) /\ ~(up /\ ~lost /\ now >= since + pollTimeout)
        BY <1>7, <3>1 DEF Tick, PollDue
      <4>2. ~lost => up
        BY <3>1 DEF ClockInv, Phases
      <4> QED
        BY <1>1, <2>1, <3>1, <4>1, <4>2, State DEF Timers
    <3>2. CASE phase = "sleeping"
      <4>1. ~(now >= since + RetryDelay)
        BY <1>7, <3>2 DEF Tick, SleepDue
      <4> QED
        BY <1>1, <2>1, <3>2, <4>1, State DEF Timers
    <3>3. CASE phase = "auditing"
      <4>1. attempts # 0 /\ ~(now >= since + RetryDelay)
        BY <1>7, <3>3 DEF Tick, AppendDue
      <4>2. Pause = RetryDelay
        BY <4>1 DEF Pause
      <4> QED
        BY <1>1, <1>2, <2>1, <3>3, <4>1, <4>2, State DEF Timers
    <3>4. CASE phase \notin {"polling", "sleeping", "auditing"}
      BY <1>1, <3>4 DEF Timers
    <3> QED
      BY <3>1, <3>2, <3>3, <3>4
  <2>4. Return'
    BY <1>1, <1>2, <2>1 DEF ClockInv, Return, Patient
  <2> QED
    BY <1>3, <2>2, <2>3, <2>4
<1> QED
  BY <1>4, <1>5, <1>6, <1>7

LEMMA ClockStep == ClockInv /\ [Next]_vars => ClockInv'
<1> SUFFICES ASSUME ClockInv, [Next]_vars PROVE ClockInv'
  OBVIOUS
<1>1. CASE Next
  <2>1. TypeOK'
    BY <1>1, TypeStep DEF ClockInv
  <2>2. CASE PollAnswered
    BY <2>1, <2>2, AnsweredRecovers, AnsweredProceeds DEF ClockInv
  <2>3. CASE PollFails
    BY <2>1, <2>3, FailsReports, FailsSleeps DEF ClockInv
  <2>4. CASE SleepEnds \/ HandlingEnds
    BY <2>1, <2>4, SleepEndsClock, HandlingEndsClock DEF ClockInv
  <2>5. CASE AppendSucceeds
    <3>1. /\ phase = "auditing" /\ Audited
          /\ UNCHANGED <<now, pollTimeout, degraded, telegram, heardAt>>
      BY <2>5 DEF AppendSucceeds, AppendDue
    <3> QED
      BY <2>1, <3>1, AuditedClock DEF ClockInv
  <2>6. CASE AppendFails
    <3>1. CASE attempts + 1 >= AuditRetryMax
      <4>1. /\ phase = "auditing" /\ Audited
            /\ UNCHANGED <<now, pollTimeout, degraded, telegram, heardAt>>
        BY <2>6, <3>1 DEF AppendFails, AppendDue
      <4> QED
        BY <2>1, <4>1, AuditedClock DEF ClockInv
    <3>2. CASE ~(attempts + 1 >= AuditRetryMax)
      BY <2>1, <2>6, <3>2, AttemptFailsClock DEF ClockInv
    <3> QED
      BY <3>1, <3>2
  <2>7. CASE TelegramFails \/ TelegramReturns \/ UpdateArrives \/ Tick
    BY <2>1, <2>7, EnvironmentClock DEF ClockInv
  <2> QED
    BY <1>1, <2>2, <2>3, <2>4, <2>5, <2>6, <2>7 DEF Next
<1>2. CASE UNCHANGED vars
  <2>1. UNCHANGED <<now, pollTimeout, phase, since, lost, received, failureAt, unreachable,
                    degraded, entry, attempts, up, waiting, log, turnedAt, heardAt, events,
                    outages, misses>>
    BY <1>2 DEF vars, loop, clock, auditing, telegram, apps
  <2>2. TypeOK' /\ Phases'
    BY <2>1 DEF ClockInv, TypeOK, Phases, Recovering
  <2>3. (Recovering' <=> Recovering) /\ (Reporting' <=> Reporting)
        /\ Spent' = Spent /\ Pause' = Pause
    BY <2>1 DEF Recovering, Reporting, Spent, Pause
  <2>4. Timers' /\ Failure' /\ Return'
    BY <2>1, <2>3 DEF ClockInv, Timers, Failure, Return, Patient
  <2> QED
    BY <2>2, <2>4 DEF ClockInv
<1> QED
  BY <1>1, <1>2

LEMMA ClockInvariant == Spec => []ClockInv
<1>1. Init => ClockInv
  BY InitClock
<1> QED
  BY <1>1, ClockStep, PTL DEF Spec

\* Every variable has its type: the remembered times are never ahead of the clock,
\* and an attempt of appendAudit is one of its AuditRetryMax.
THEOREM TypeCorrect == Spec => []TypeOK
<1>1. ClockInv => TypeOK
  BY DEF ClockInv
<1> QED
  BY <1>1, ClockInvariant, PTL

-----------------------------------------------------------------------------
(* What the clock means *)

\* telegramUnreachable and the Degraded state follow Telegram with the bounds of
\* ReachabilityFollows: handlePollError and handlePollSuccess are never later.
THEOREM OutageIsNoticed == Spec => []ReachabilityFollows
<1>1. ClockInv => ReachabilityFollows
  <2> SUFFICES ASSUME ClockInv PROVE ReachabilityFollows
    OBVIOUS
  <2>0. phase \in {"polling", "handling", "sleeping", "auditing"} /\ TypeOK /\ Phases
    BY DEF ClockInv, TypeOK
  <2>1. ASSUME ~unreachable, phase # "handling"
        PROVE  now - heardAt <= UnreachableAfter + 2 * (ClientTimeout + RetryDelay) + AuditTime
    <3>1. phase \in {"polling", "sleeping"} /\ ~Recovering
      BY <2>0, <2>1 DEF Phases, Recovering
    <3>2. CASE failureAt = Never
      BY <3>1, <3>2, State DEF ClockInv, Timers, Failure
    <3>3. CASE failureAt # Never
      <4>1. failureAt <= heardAt + AuditTime + RetryDelay + ClientTimeout
        BY <3>1, <3>3 DEF ClockInv, Failure
      <4>2. CASE phase = "polling"
        <5>1. /\ since < failureAt + UnreachableAfter + RetryDelay
              /\ now <= since + ClientTimeout
          BY <2>1, <3>3, <4>2 DEF ClockInv, Failure, Timers
        <5> QED
          BY <3>3, <4>1, <5>1, State
      <4>3. CASE phase = "sleeping"
        <5>1. since < failureAt + UnreachableAfter /\ now <= since + RetryDelay
          BY <2>1, <3>3, <4>3 DEF ClockInv, Failure, Timers
        <5> QED
          BY <3>3, <4>1, <5>1, State
      <4> QED
        BY <3>1, <4>2, <4>3
    <3> QED
      BY <3>2, <3>3
  <2>2. ASSUME Patient, up, unreachable \/ degraded
        PROVE  now - turnedAt <= ClientTimeout + RetryDelay + pollTimeout + 2 * AuditTime
    <3>1. CASE phase = "polling"
      <4>1. CASE lost
        <5>1. since <= turnedAt /\ now <= since + ClientTimeout
          BY <2>2, <3>1, <4>1 DEF ClockInv, Phases, Timers
        <5> QED
          BY <5>1, State
      <4>2. CASE ~lost
        <5>1. /\ since <= turnedAt + ClientTimeout + AuditTime + RetryDelay
              /\ now <= since + pollTimeout
          BY <2>2, <3>1, <4>2 DEF ClockInv, Return, Timers
        <5> QED
          BY <5>1, State
      <4> QED
        BY <4>1, <4>2
    <3>2. CASE phase = "sleeping"
      <4>1. since <= turnedAt + ClientTimeout + AuditTime /\ now <= since + RetryDelay
        BY <2>2, <3>2 DEF ClockInv, Return, Timers
      <4> QED
        BY <4>1, State
    <3>3. CASE phase = "auditing"
      <4>1. now <= since + Pause
        BY <3>3 DEF ClockInv, Timers
      <4>2. CASE Reporting
        <5>1. since <= turnedAt + ClientTimeout + Spent
          BY <2>2, <4>2 DEF ClockInv, Return
        <5> QED
          BY <4>1, <5>1, State
      <4>3. CASE Recovering
        <5>1. since <= turnedAt + ClientTimeout + AuditTime + RetryDelay + pollTimeout + Spent
          BY <2>2, <4>3 DEF ClockInv, Return
        <5> QED
          BY <4>1, <5>1, State
      <4> QED
        BY <2>0, <3>3, <4>2, <4>3, OneEntry
    <3>4. CASE phase = "handling"
      BY <2>0, <2>2, <3>4 DEF Phases
    <3> QED
      BY <2>0, <3>1, <3>2, <3>3, <3>4
  <2>3. /\ now - heardAt \in Int /\ now - turnedAt \in Int
        /\ UnreachableAfter + 2 * (ClientTimeout + RetryDelay) + AuditTime \in Int
        /\ ClientTimeout + RetryDelay + pollTimeout + 2 * AuditTime \in Int
    BY State
  <2> QED
    BY <2>1, <2>2, <2>3 DEF ReachabilityFollows
<1> QED
  BY <1>1, ClockInvariant, PTL

\* Only PollFails sets telegramUnreachable.
LEMMA OnlyFailures ==
  ASSUME ClockInv, [Next]_vars, ~unreachable, unreachable'
  PROVE  PollFails /\ now - failureAt' >= UnreachableAfter
<1>1. CASE PollFails
  BY <1>1 DEF PollFails
<1>2. CASE AppendSucceeds \/ AppendFails
  <2>1. phase = "auditing"
    BY <1>2 DEF AppendSucceeds, AppendFails, AppendDue
  <2> QED
    BY <2>1 DEF ClockInv, Phases
<1>3. CASE PollAnswered
  BY <1>3 DEF PollAnswered, Proceed
<1>4. CASE SleepEnds \/ HandlingEnds
  BY <1>4 DEF SleepEnds, HandlingEnds, clock
<1>5. CASE TelegramFails \/ TelegramReturns \/ UpdateArrives \/ Tick
  BY <1>5 DEF TelegramFails, TelegramReturns, UpdateArrives, Tick, clock
<1>6. CASE UNCHANGED vars
  BY <1>6 DEF vars, clock
<1> QED
  BY <1>1, <1>2, <1>3, <1>4, <1>5, <1>6 DEF Next

\* A step that calls Telegram unreachable has had no successful poll for the whole
\* minute, and Telegram was down during its last poll if idle polls end in time:
\* handlePollSuccess has taken the clock of every earlier outage back.
THEOREM OnlyRealOutages == Spec => OutageIsReal
<1>1. ASSUME ClockInv, [Next]_vars, ~unreachable, unreachable'
      PROVE  /\ now - heardAt >= UnreachableAfter
             /\ Patient => ~up \/ now - turnedAt <= ClientTimeout
  <2>1. PollFails /\ now - failureAt' >= UnreachableAfter
    BY <1>1, OnlyFailures
  <2>2. now - heardAt >= UnreachableAfter
    BY <1>1, <2>1, FailingClock, State
  <2>3. ASSUME Patient, up PROVE now - turnedAt <= ClientTimeout
    BY <1>1, <2>1, <2>3, LostPoll, State
  <2> QED
    BY <2>2, <2>3
<1> DEFINE Real == ~unreachable /\ unreachable' =>
                     /\ now - heardAt >= UnreachableAfter
                     /\ Patient => ~up \/ now - turnedAt <= ClientTimeout
<1>2. ClockInv /\ [Next]_vars => [Real]_vars
  BY <1>1
<1> HIDE DEF Real
<1>3. Spec => [][Real]_vars
  BY <1>2, ClockInvariant, PTL DEF Spec
<1> QED
  BY <1>3 DEF OutageIsReal, Real

-----------------------------------------------------------------------------
(* The audit log *)

\* The entries that count as kept are a finite set, without the one under way.
LEMMA KeptFacts ==
  ASSUME IsFiniteSet(log)
  PROVE  /\ IsFiniteSet(Kept) /\ Cardinality(Kept) \in Nat
         /\ phase = "auditing" => entry \notin Kept /\ Kept \cup {entry} = log \cup {entry}
         /\ Cardinality(Kept) <= Cardinality(log) /\ Cardinality(log) \in Nat
<1>1. Kept \subseteq log
  BY DEF Kept
<1>2. IsFiniteSet(Kept) /\ Cardinality(Kept) <= Cardinality(log)
  BY <1>1, FS_Subset
<1>3. Cardinality(Kept) \in Nat /\ Cardinality(log) \in Nat
  BY <1>2, FS_CardinalityType
<1> QED
  BY <1>2, <1>3 DEF Kept

LEMMA PaidFacts ==
  ASSUME ClockInv, LogInv
  PROVE  /\ Ended \in Int /\ Tries \in Nat /\ misses \in Nat /\ AuditRetryMax \in Nat
         /\ Cardinality(Kept) \in Nat
<1>1. events \in Nat /\ attempts \in Nat /\ misses \in Nat
  BY Facts DEF ClockInv
<1>2. Cardinality(Kept) \in Nat
  BY KeptFacts DEF LogInv
<1> QED
  BY <1>1, <1>2, Constants DEF Ended, Tries

\* No entry is done with: an attempt that fails is paid for by the service.
LEMMA NoneEnds ==
  ASSUME ClockInv, LogInv, Ended' = Ended, Kept' = Kept, misses' \in Nat, Tries' \in Nat,
         Tries' - Tries <= misses' - misses
  PROVE  Paid'
<1>1. PICK c \in Int : c = AuditRetryMax * (Ended - Cardinality(Kept))
  BY PaidFacts
<1>2. c + Tries <= misses
  BY <1>1 DEF LogInv, Paid
<1>3. Cardinality(Kept') = Cardinality(Kept)
  OBVIOUS
<1>4. AuditRetryMax * (Ended' - Cardinality(Kept')) = c
  BY <1>1, <1>3
<1>5. c + Tries' <= misses'
  BY <1>1, <1>2, PaidFacts
<1> QED
  BY <1>4, <1>5 DEF Paid

\* An entry is done with, and the service has it, or all attempts have failed.
LEMMA OneEnds ==
  ASSUME ClockInv, LogInv, phase = "auditing", Ended' = Ended + 1, Tries' = 0,
         IsFiniteSet(Kept), misses' \in Nat,
         \/ Kept' = Kept \cup {entry} /\ misses' >= misses
         \/ Kept' = Kept /\ misses' = misses + 1 /\ Tries + 1 >= AuditRetryMax
  PROVE  Paid'
<1>1. PICK d \in Int : d = Ended - Cardinality(Kept)
  BY PaidFacts
<1>2. AuditRetryMax * d + Tries <= misses
  BY <1>1 DEF LogInv, Paid
<1>3. AuditRetryMax * d \in Int /\ AuditRetryMax * (d + 1) = AuditRetryMax * d + AuditRetryMax
  BY <1>1, PaidFacts
<1>4. CASE Kept' = Kept \cup {entry} /\ misses' >= misses
  <2>1. Cardinality(Kept') = Cardinality(Kept) + 1
    BY <1>4, KeptFacts, FS_AddElement DEF LogInv
  <2>2. Ended' - Cardinality(Kept') = d
    BY <1>1, <2>1, PaidFacts
  <2>3. AuditRetryMax * d + Tries' <= misses'
    BY <1>2, <1>3, <1>4, PaidFacts
  <2> QED
    BY <2>2, <2>3 DEF Paid
<1>5. CASE Kept' = Kept /\ misses' = misses + 1 /\ Tries + 1 >= AuditRetryMax
  <2>1. Cardinality(Kept') = Cardinality(Kept)
    BY <1>5
  <2>2. Ended' - Cardinality(Kept') = d + 1
    BY <1>1, <2>1, PaidFacts
  <2>3. AuditRetryMax * (d + 1) + Tries' <= misses'
    BY <1>2, <1>3, <1>5, PaidFacts
  <2> QED
    BY <2>2, <2>3 DEF Paid
<1> QED
  BY <1>4, <1>5

LEMMA AnsweredLog ==
  ASSUME ClockInv, LogInv, PollAnswered
  PROVE  Keys' /\ Paid'
<1>1. /\ phase = "polling" /\ log' = log /\ misses' = misses /\ heardAt' = now
  BY DEF PollAnswered, apps
<1>2. Ended = events /\ Kept = log /\ Tries = 0 /\ ~Recovering
  BY <1>1, Facts DEF Ended, Kept, Tries, Recovering, ClockInv
<1>3. misses \in Nat /\ events \in Nat
  BY Facts DEF ClockInv
<1>4. \A e \in log : e.key \in Nat
  BY DEF ClockInv, TypeOK, Entry, Time
<1>5. unreachable => heardAt <= failureAt /\ failureAt < now /\ failureAt \in Nat
  BY <1>2, State DEF ClockInv, Phases, Failure
<1>6. \A e \in log : IF e.name = "telegram_unreachable" THEN e.key < now ELSE e.key <= heardAt
  BY <1>4, <1>5, State DEF LogInv, Keys
<1>7. \A e \in log : IF e.name = "telegram_unreachable" THEN e.key < now ELSE e.key <= now
  BY <1>4, <1>6, State
<1>8. CASE unreachable
  <2>1. /\ entry' = [name |-> "telegram_recovered", key |-> now] /\ phase' = "auditing"
        /\ events' = events + 1 /\ attempts' = 0
    BY <1>8 DEF PollAnswered, AppendAudit, Enter
  <2>2. ~Reporting' /\ entry'.key = now
    BY <2>1 DEF Reporting
  <2>3. Keys'
    BY <1>1, <1>7, <2>2 DEF Keys
  <2>4. heardAt < now
    BY <1>5, <1>8, State
  <2>5. entry' \notin log
    <3>1. entry'.name = "telegram_recovered" /\ entry'.key = now
      BY <2>1
    <3>2. ~(now <= heardAt)
      BY <2>4, State
    <3> QED
      BY <1>6, <3>1, <3>2
  <2>6. Kept' = Kept
    BY <1>1, <1>2, <2>1, <2>5 DEF Kept
  <2>7. Ended' = Ended /\ Tries' = 0
    BY <1>2, <1>3, <2>1 DEF Ended, Tries
  <2> QED
    BY <1>1, <1>2, <1>3, <2>3, <2>6, <2>7, NoneEnds
<1>9. CASE ~unreachable
  <2>1. /\ phase' \in {"polling", "handling"} /\ unreachable' = FALSE
        /\ UNCHANGED <<entry, events, attempts>>
    BY <1>9 DEF PollAnswered, Proceed, Enter, auditing
  <2>2. ~Reporting' /\ ~Recovering'
    BY <2>1 DEF Reporting, Recovering
  <2>3. Keys'
    BY <1>1, <1>7, <2>2 DEF Keys
  <2>4. Ended' = Ended /\ Kept' = Kept /\ Tries' = 0
    BY <1>1, <1>2, <1>3, <2>1 DEF Ended, Kept, Tries
  <2> QED
    BY <1>1, <1>2, <1>3, <2>3, <2>4, NoneEnds
<1> QED
  BY <1>8, <1>9

LEMMA FailsLog ==
  ASSUME ClockInv, LogInv, PollFails
  PROVE  Keys' /\ Paid'
<1>1. /\ phase = "polling" /\ log' = log /\ misses' = misses /\ heardAt' = heardAt
  BY DEF PollFails, apps
<1>2. Ended = events /\ Kept = log /\ Tries = 0 /\ ~Recovering
  BY <1>1, Facts DEF Ended, Kept, Tries, Recovering, ClockInv
<1>3. misses \in Nat /\ events \in Nat
  BY Facts DEF ClockInv
<1>4. CASE ~unreachable /\ now - failureAt' >= UnreachableAfter
  <2>1. /\ entry' = [name |-> "telegram_unreachable", key |-> failureAt'] /\ phase' = "auditing"
        /\ events' = events + 1 /\ attempts' = 0 /\ unreachable' = TRUE
    BY <1>4 DEF PollFails, AppendAudit, Enter
  <2>2. ~Recovering' /\ entry'.key = failureAt' /\ entry'.name = "telegram_unreachable"
    BY <2>1 DEF Recovering
  <2>3. \A e \in log : IF e.name = "telegram_unreachable" THEN e.key < heardAt
                                                         ELSE e.key <= heardAt
    BY <1>4 DEF LogInv, Keys
  <2>4. Keys'
    BY <1>1, <2>2, <2>3 DEF Keys
  <2>5. ~(failureAt' < heardAt)
    BY FailingClock, State
  <2>6. entry' \notin log
    BY <2>2, <2>3, <2>5
  <2>7. Kept' = Kept
    BY <1>1, <1>2, <2>1, <2>6 DEF Kept
  <2>8. Ended' = Ended /\ Tries' = 0
    BY <1>2, <1>3, <2>1 DEF Ended, Tries
  <2> QED
    BY <1>1, <1>2, <1>3, <2>4, <2>7, <2>8, NoneEnds
<1>5. CASE ~(~unreachable /\ now - failureAt' >= UnreachableAfter)
  <2>1. /\ phase' = "sleeping" /\ UNCHANGED <<unreachable, entry, events, attempts>>
    BY <1>5 DEF PollFails, Enter, auditing
  <2>2. unreachable => failureAt' = failureAt
    BY DEF ClockInv, Phases, PollFails, Failing
  <2>3. ~Reporting' /\ ~Recovering'
    BY <2>1 DEF Reporting, Recovering
  <2>4. Keys'
    BY <1>1, <2>1, <2>2, <2>3 DEF LogInv, Keys
  <2>5. Ended' = Ended /\ Kept' = Kept /\ Tries' = 0
    BY <1>1, <1>2, <1>3, <2>1 DEF Ended, Kept, Tries
  <2> QED
    BY <1>1, <1>2, <1>3, <2>4, <2>5, NoneEnds
<1> QED
  BY <1>4, <1>5

\* The entry under way fits to those the service has.
LEMMA TakeKeys ==
  ASSUME ClockInv, LogInv, phase = "auditing"
  PROVE  \A e \in log \cup {entry} :
           IF e.name = "telegram_unreachable"
             THEN e.key < heardAt \/ (unreachable /\ e.key = failureAt)
             ELSE e.key <= heardAt
<1>1. unreachable
  BY DEF ClockInv, Phases
<1>2. CASE Reporting
  BY <1>1, <1>2 DEF LogInv, Keys, Reporting
<1>3. CASE Recovering
  <2>1. entry.name # "telegram_unreachable" /\ entry.key <= heardAt
    BY <1>3, State DEF LogInv, Keys, Recovering
  <2> QED
    BY <2>1 DEF LogInv, Keys
<1> QED
  BY <1>2, <1>3, OneEntry DEF ClockInv

LEMMA AuditedLog ==
  ASSUME ClockInv, LogInv, phase = "auditing", Audited, UNCHANGED <<events, heardAt>>,
         misses' \in Nat,
         \/ log' = log \cup {entry} /\ misses' >= misses
         \/ log' = log /\ misses' = misses + 1 /\ attempts + 1 >= AuditRetryMax
  PROVE  Keys' /\ Paid'
<1>1. phase' \in {"polling", "handling", "sleeping"} /\ attempts' = 0
  BY DEF Audited, Proceed, Enter
<1>2. ~Reporting' /\ ~Recovering'
  BY <1>1 DEF Reporting, Recovering
<1>3. \A e \in log' : e \in log \cup {entry}
  OBVIOUS
<1>4. Keys'
  <2>1. CASE Recovering
    <3>1. unreachable' = FALSE
      BY <2>1 DEF Audited, Proceed, Recovering
    <3>2. failureAt < heardAt
      BY <2>1 DEF ClockInv, Failure
    <3>3. \A e \in log' : IF e.name = "telegram_unreachable" THEN e.key < heardAt
                                                            ELSE e.key <= heardAt
      BY <1>3, <3>2, TakeKeys
    <3> QED
      BY <1>2, <3>3 DEF Keys
  <2>2. CASE ~Recovering
    <3>1. failureAt' = failureAt /\ unreachable' = unreachable
      BY <2>2 DEF Audited, Recovering
    <3> QED
      BY <1>2, <1>3, <3>1, TakeKeys DEF Keys
  <2> QED
    BY <2>1, <2>2
<1>5. /\ Ended' = Ended + 1 /\ Tries' = 0 /\ Tries = attempts /\ Kept' = log'
      /\ Kept = log \ {entry}
  BY <1>1, Facts DEF Ended, Tries, Kept, ClockInv
<1>6. IsFiniteSet(Kept)
  BY KeptFacts DEF LogInv
<1>7. CASE entry \in log'
  <2>1. Kept' = Kept \cup {entry}
    BY <1>5, <1>7
  <2>2. misses' >= misses
    BY Facts DEF ClockInv
  <2> QED
    BY <1>4, <1>5, <1>6, <2>1, <2>2, OneEnds
<1>8. CASE entry \notin log'
  <2>1. log' = log /\ misses' = misses + 1 /\ attempts + 1 >= AuditRetryMax /\ Kept' = Kept
    BY <1>5, <1>8
  <2> QED
    BY <1>4, <1>5, <1>6, <2>1, OneEnds
<1> QED
  BY <1>7, <1>8

LEMMA AttemptFailsLog ==
  ASSUME ClockInv, LogInv, AppendFails, ~(attempts + 1 >= AuditRetryMax)
  PROVE  Keys' /\ Paid'
<1>1. /\ phase = "auditing" /\ misses' = misses + 1 /\ attempts' = attempts + 1
      /\ UNCHANGED <<phase, entry, failureAt, unreachable, events, heardAt>>
      /\ log' = log \/ log' = log \cup {entry}
  BY DEF AppendFails, AppendDue, Take
<1>2. Keys'
  <2>1. \A e \in log' : e \in log \cup {entry}
    BY <1>1
  <2>2. (Reporting' <=> Reporting) /\ (Recovering' <=> Recovering)
    BY <1>1 DEF Reporting, Recovering
  <2> QED
    BY <1>1, <2>1, <2>2, TakeKeys DEF LogInv, Keys
<1>3. misses \in Nat /\ attempts \in Nat
  BY Facts DEF ClockInv
<1>4. Ended' = Ended /\ Kept' = Kept /\ Tries = attempts /\ Tries' = attempts + 1
  BY <1>1 DEF Ended, Kept, Tries
<1> QED
  BY <1>1, <1>2, <1>3, <1>4, NoneEnds

LEMMA LogStep == ClockInv /\ LogInv /\ [Next]_vars => LogInv'
<1> SUFFICES ASSUME ClockInv, LogInv, [Next]_vars PROVE LogInv'
  OBVIOUS
<1>0. misses \in Nat
  BY Facts DEF ClockInv
<1>1. IsFiniteSet(log')
  <2>1. log' = log \/ log' = log \cup {entry}
    BY DEF Next, PollAnswered, PollFails, SleepEnds, HandlingEnds, AppendSucceeds, AppendFails,
           Take, TelegramFails, TelegramReturns, UpdateArrives, Tick, apps, vars
  <2> QED
    BY <2>1, FS_AddElement DEF LogInv
<1>2. CASE PollAnswered \/ PollFails
  BY <1>1, <1>2, AnsweredLog, FailsLog DEF LogInv
<1>3. CASE AppendSucceeds
  <2>1. /\ phase = "auditing" /\ Audited /\ UNCHANGED <<events, heardAt>>
        /\ log' = log \cup {entry} /\ misses' = misses
    BY <1>3 DEF AppendSucceeds, AppendDue, Take
  <2> QED
    BY <1>0, <1>1, <2>1, AuditedLog DEF LogInv
<1>4. CASE AppendFails /\ attempts + 1 >= AuditRetryMax
  <2>1. /\ phase = "auditing" /\ Audited /\ UNCHANGED <<events, heardAt>>
        /\ log' = log \/ log' = log \cup {entry}
        /\ misses' = misses + 1
    BY <1>4 DEF AppendFails, AppendDue, Take
  <2> QED
    BY <1>0, <1>1, <1>4, <2>1, AuditedLog DEF LogInv
<1>5. CASE AppendFails /\ ~(attempts + 1 >= AuditRetryMax)
  BY <1>1, <1>5, AttemptFailsLog DEF LogInv
<1>6. CASE HandlingEnds
  <2>1. /\ phase = "handling" /\ phase' \in {"polling", "sleeping"} /\ heardAt' = now
        /\ UNCHANGED <<failureAt, unreachable, entry, attempts, events, log, misses>>
    BY <1>6 DEF HandlingEnds, Enter, clock, auditing, apps
  <2>2. ~unreachable /\ ~Reporting' /\ ~Recovering'
    BY <2>1 DEF ClockInv, Phases, Reporting, Recovering
  <2>3. \A e \in log : e.key \in Nat
    BY DEF ClockInv, TypeOK, Entry, Time
  <2>4. Keys'
    BY <2>1, <2>2, <2>3, State DEF LogInv, Keys
  <2>5. Ended' = Ended /\ Kept' = Kept /\ Tries = 0 /\ Tries' = 0
    BY <2>1 DEF Ended, Kept, Tries
  <2> QED
    BY <1>0, <1>1, <2>1, <2>4, <2>5, NoneEnds DEF LogInv
<1>7. CASE SleepEnds \/ TelegramFails \/ TelegramReturns \/ UpdateArrives \/ Tick
              \/ UNCHANGED vars
  <2>1. /\ UNCHANGED <<failureAt, unreachable, entry, attempts, events, log, misses, heardAt>>
        /\ (phase' = "auditing" <=> phase = "auditing")
    BY <1>7 DEF SleepEnds, Enter, TelegramFails, TelegramReturns, UpdateArrives, Tick, loop,
                clock, auditing, apps, vars
  <2>2. (Reporting' <=> Reporting) /\ (Recovering' <=> Recovering)
    BY <2>1 DEF Reporting, Recovering
  <2>3. Keys'
    BY <2>1, <2>2 DEF LogInv, Keys
  <2>4. Ended' = Ended /\ Kept' = Kept /\ Tries' = Tries /\ Tries \in Nat
    BY <2>1, Facts DEF Ended, Kept, Tries, ClockInv
  <2> QED
    BY <1>0, <1>1, <2>1, <2>3, <2>4, NoneEnds DEF LogInv
<1> QED
  BY <1>2, <1>3, <1>4, <1>5, <1>6, <1>7 DEF Next

\* An outage or its end is missing in the audit log only if the Apps service failed
\* all the attempts of an appendAudit: no two entries have the same key.
THEOREM OutagesAreLogged == Spec => []OutagesLogged
<1>1. Init => ClockInv /\ LogInv
  BY InitClock
<1>2. ClockInv /\ LogInv /\ [Next]_vars => (ClockInv /\ LogInv)'
  BY ClockStep, LogStep
<1>3. ClockInv /\ LogInv => OutagesLogged
  <2> SUFFICES ASSUME ClockInv, LogInv PROVE OutagesLogged
    OBVIOUS
  <2>1. PICK a \in Int : a = Ended - Cardinality(Kept)
    BY PaidFacts
  <2>2. AuditRetryMax * a \in Int
    BY <2>1, PaidFacts
  <2>3. AuditRetryMax * a <= misses
    BY <2>1, <2>2, PaidFacts DEF LogInv, Paid
  <2>4. a <= misses \div AuditRetryMax
    BY <2>1, <2>3, PaidFacts, Constants, Quotients
  <2>5. Ended - Cardinality(log) <= a
    BY <2>1, PaidFacts, KeptFacts DEF LogInv
  <2>6. misses \div AuditRetryMax \in Int /\ Cardinality(log) \in Nat
    BY PaidFacts, Constants, KeptFacts DEF LogInv
  <2>7. Ended - Cardinality(log) <= misses \div AuditRetryMax
    BY <2>1, <2>4, <2>5, <2>6, PaidFacts
  <2> QED
    BY <2>7 DEF OutagesLogged, Ended
<1> QED
  BY <1>1, <1>2, <1>3, PTL DEF Spec
=============================================================================
