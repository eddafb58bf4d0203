------------------------------- MODULE Status -------------------------------
(***************************************************************************)
(* The status of one worker (internal/connector/status.go): four flags,    *)
(* the state derived from them, and the reports of that state to the Apps  *)
(* service.  Four goroutines use it at once: the poll loop, the outbound   *)
(* loop, the ticker of runStatusReporter, and the manager in reportStop.   *)
(* Each lock of installationStatus.mu is one step.  A report takes a       *)
(* snapshot and then makes a call, both under reportMu.                    *)
(*                                                                         *)
(* The module begins when run has made the status: before that reportStop  *)
(* finds none and reports nothing.                                         *)
(*                                                                         *)
(* Also here: the poll handlers of inbound.go, which own the flags         *)
(* tokenRejected and pollingDegraded and the audit entries about the token *)
(* and Telegram's reachability.  The audit trail holds what is handed to   *)
(* appendAudit.                                                            *)
(***************************************************************************)
EXTENDS Integers, Sequences, FiniteSets

CONSTANTS
  PollResults,      \* how getUpdates ends, some of AllPollResults
  DeliveryResults,  \* how a send ends, some of AllDeliveryResults
  MaxEvents,   \* bound: poll results and delivery results
  MaxFaults    \* bound: reports that fail

\* The point of the code where each result leads: updates, an error, a 401;
\* a part that is sent, a message that fails, a 401.
AllPollResults == {"polled", "error", "unauthorized"}
AllDeliveryResults == {"sent", "unsent", "unauthorized"}

ASSUME StatusAssumption ==
  /\ PollResults \subseteq AllPollResults
  /\ DeliveryResults \subseteq AllDeliveryResults
  /\ MaxEvents \in Nat
  /\ MaxFaults \in Nat

Loops == {"inbound", "outbound"}
Goroutines == Loops \cup {"ticker", "stopper"}
States == {"Healthy", "Degraded", "Misconfigured", "Stopped"}

VARIABLES
  stopped, tokenRejected, pollingDegraded, outboundDegraded,
  state,
  pc,
  report,        \* "none", "due" (Report was called), "sending"
  snapshot,      \* what a goroutine that is sending will report
  reportMu,      \* who holds it, or "free"
  wasRejected,   \* locals of handleTokenRejected
  stateChanged,  \* local of handlePollSuccess
  failing,       \* telegramFailureAt: "no", "recently", "long" (>= 60 s)
  unreachable,   \* telegramUnreachable
  ended,         \* the worker's context: "no", by the "parent", by "stop"
  \* Apps service
  shown,         \* the latest report applied, [state, version]
  wire,          \* cancelled calls that may still be applied
  audit,         \* entries, in order
  \* history
  version,       \* changes of state so far
  episodes,      \* times tokenRejected became TRUE
  events, faults

flags  == <<stopped, tokenRejected, pollingDegraded, outboundDegraded, state, version>>
poll   == <<failing, unreachable>>
apps   == <<shown, wire>>
locals == <<wasRejected, stateChanged>>
calls  == <<report, snapshot, reportMu>>
vars   == <<flags, pc, calls, locals, poll, ended, apps, audit, episodes, events, faults>>

cancelled == ended # "no"

Snapshot == [state : States, version : Nat]
PCs == {"run", "polling", "parked", "polled", "cleared", "error", "failed",
        "unauthorized", "rejecting", "rejected", "delivering", "sent", "unsent", "stopping", "done"}

TypeOK ==
  /\ stopped \in BOOLEAN /\ tokenRejected \in BOOLEAN
  /\ pollingDegraded \in BOOLEAN /\ outboundDegraded \in BOOLEAN
  /\ state \in States
  /\ pc \in [Goroutines -> PCs]
  /\ report \in [Goroutines -> {"none", "due", "sending"}]
  /\ snapshot \in [Goroutines -> Snapshot]
  /\ reportMu \in Goroutines \cup {"free"}
  /\ wasRejected \in [Loops -> BOOLEAN]
  /\ stateChanged \in BOOLEAN
  /\ failing \in {"no", "recently", "long"}
  /\ unreachable \in BOOLEAN
  /\ ended \in {"no", "parent", "stop"}
  /\ shown \in Snapshot
  /\ wire \in SUBSET Snapshot
  /\ audit \in Seq({"token_rejected", "unreachable", "recovered"})
  /\ version \in Nat /\ episodes \in Nat /\ events \in Nat /\ faults \in Nat

\* newInstallationStatus, and the first report that run makes.
Fresh == [state |-> "Healthy", version |-> 0]

Init ==
  /\ stopped = FALSE /\ tokenRejected = FALSE
  /\ pollingDegraded = FALSE /\ outboundDegraded = FALSE
  /\ state = "Healthy"
  /\ pc = [g \in Goroutines |-> "run"]
  /\ report = [g \in Goroutines |-> "none"]
  /\ snapshot = [g \in Goroutines |-> Fresh]
  /\ reportMu = "free"
  /\ wasRejected = [g \in Loops |-> FALSE]
  /\ stateChanged = FALSE
  /\ failing = "no" /\ unreachable = FALSE
  /\ ended = "no"
  /\ shown = Fresh /\ wire = {}
  /\ audit = <<>>
  /\ version = 0 /\ episodes = 0 /\ events = 0 /\ faults = 0

-----------------------------------------------------------------------------
(* The flags *)

Goto(g, where) == pc' = [pc EXCEPT ![g] = where]

\* Goroutine g is at a point of its code and not inside Report.
At(g, where) == pc[g] = where /\ report[g] = "none"

\* Mutant of Derived: the state has no default.
DerivedNoDefault(stop, reject, pollDeg, outDeg) ==
  IF stop THEN "Stopped"
  ELSE IF reject THEN "Misconfigured"
  ELSE IF pollDeg \/ outDeg THEN "Degraded"
  ELSE ""

\* updateStateLocked: the state that the flags give.
Derived(stop, reject, pollDeg, outDeg) ==
  IF stop THEN "Stopped"
  ELSE IF reject THEN "Misconfigured"
  ELSE IF pollDeg \/ outDeg THEN "Degraded"
  ELSE "Healthy"

\* What every setter does after it has assigned a flag.
UpdateState ==
  /\ state' = Derived(stopped', tokenRejected', pollingDegraded', outboundDegraded')
  /\ version' = IF state' = state THEN version ELSE version + 1

SetTokenRejected(value) ==
  /\ tokenRejected' = value
  /\ episodes' = IF value /\ ~tokenRejected THEN episodes + 1 ELSE episodes
  /\ UNCHANGED <<stopped, pollingDegraded, outboundDegraded>>
  /\ UpdateState

SetPollingDegraded(value) ==
  /\ pollingDegraded' = value
  /\ UNCHANGED <<stopped, tokenRejected, outboundDegraded, episodes>>
  /\ UpdateState

\* Mutant of SetOutboundDegraded: a part that is sent also clears tokenRejected.
SetOutboundHealthy(value) ==
  /\ outboundDegraded' = value
  /\ tokenRejected' = (tokenRejected /\ value)
  /\ UNCHANGED <<stopped, pollingDegraded, episodes>>
  /\ UpdateState

SetOutboundDegraded(value) ==
  /\ outboundDegraded' = value
  /\ UNCHANGED <<stopped, tokenRejected, pollingDegraded, episodes>>
  /\ UpdateState

SetStopped ==
  /\ stopped' = TRUE
  /\ UNCHANGED <<tokenRejected, pollingDegraded, outboundDegraded, episodes>>
  /\ UpdateState

\* Call Report if the setter said that the state changed.
CallReport(g) == report' = [report EXCEPT ![g] = "due"]
ReportIfChanged(g) ==
  report' = [report EXCEPT ![g] = IF state' # state THEN "due" ELSE "none"]

AppendAudit(event) == audit' = IF cancelled THEN audit ELSE Append(audit, event)

-----------------------------------------------------------------------------
(* Report *)

\* Mutant of TakeSnapshot: Report without reportMu.
TakeSnapshotUnlocked(g) ==
  /\ report[g] = "due"
  /\ reportMu' = g
  /\ snapshot' = [snapshot EXCEPT ![g] = [state |-> state, version |-> version]]
  /\ report' = [report EXCEPT ![g] = "sending"]
  /\ UNCHANGED <<flags, pc, locals, poll, ended, apps, audit, episodes, events, faults>>

\* Lock reportMu, count the chats, copy the state.
TakeSnapshot(g) ==
  /\ report[g] = "due"
  /\ reportMu = "free"
  /\ reportMu' = g
  /\ snapshot' = [snapshot EXCEPT ![g] = [state |-> state, version |-> version]]
  /\ report' = [report EXCEPT ![g] = "sending"]
  /\ UNCHANGED <<flags, pc, locals, poll, ended, apps, audit, episodes, events, faults>>

\* ReportInstallationStatus returns and the lock is released.  A call whose
\* context was cancelled may still arrive later.  The manager reports with a
\* context of its own.
SendReport(g) ==
  /\ report[g] = "sending"
  /\ report' = [report EXCEPT ![g] = "none"]
  /\ snapshot' = [snapshot EXCEPT ![g] = Fresh]
  /\ reportMu' = "free"
  /\ \/ /\ ~cancelled \/ g = "stopper"
        /\ \/ shown' = snapshot[g] /\ UNCHANGED faults
           \/ UNCHANGED shown /\ faults < MaxFaults /\ faults' = faults + 1
        /\ UNCHANGED wire
     \/ /\ cancelled /\ g # "stopper"
        /\ \/ wire' = wire \cup {snapshot[g]}
           \/ UNCHANGED wire
        /\ UNCHANGED <<shown, faults>>
  /\ UNCHANGED <<flags, pc, locals, poll, ended, audit, episodes, events>>

\* A late call is applied.
ApplyLate ==
  /\ \E s \in wire : shown' = s /\ wire' = wire \ {s}
  /\ UNCHANGED <<flags, pc, calls, locals, poll, ended, audit, episodes, events, faults>>

\* runStatusReporter
Tick ==
  /\ At("ticker", "run")
  /\ IF cancelled THEN Goto("ticker", "done") /\ UNCHANGED report
                  ELSE CallReport("ticker") /\ UNCHANGED pc
  /\ UNCHANGED <<flags, snapshot, reportMu, locals, poll, ended, apps, audit, episodes,
                 events, faults>>

-----------------------------------------------------------------------------
(* The poll loop *)

Happens == events < MaxEvents /\ events' = events + 1

\* The top of the loop.
BeginPoll ==
  /\ At("inbound", "run")
  /\ Goto("inbound", IF cancelled THEN "done"
                     ELSE IF tokenRejected THEN "parked" ELSE "polling")
  /\ UNCHANGED <<flags, calls, locals, poll, ended, apps, audit, episodes, events, faults>>

\* getUpdates returns; with an error, once the context is cancelled.
PollReturns ==
  /\ At("inbound", "polling")
  /\ \/ ~cancelled /\ Happens /\ \E result \in PollResults : Goto("inbound", result)
     \/ cancelled /\ Goto("inbound", "error") /\ UNCHANGED events
  /\ UNCHANGED <<flags, calls, locals, poll, ended, apps, audit, episodes, faults>>

\* The worker's context ends while the loop waits for that.
Unpark ==
  /\ At("inbound", "parked")
  /\ cancelled
  /\ Goto("inbound", "done")
  /\ UNCHANGED <<flags, calls, locals, poll, ended, apps, audit, episodes, events, faults>>

\* handlePollSuccess: SetTokenRejected(false)
ClearRejection ==
  /\ At("inbound", "polled")
  /\ SetTokenRejected(FALSE)
  /\ stateChanged' = (state' # state)
  /\ Goto("inbound", "cleared")
  /\ UNCHANGED <<calls, wasRejected, poll, ended, apps, audit, events, faults>>

\* Mutant of FinishPollSuccess: only the second setter's answer counts.
FinishPollSuccessLastOnly ==
  /\ At("inbound", "cleared")
  /\ SetPollingDegraded(FALSE)
  /\ IF unreachable THEN AppendAudit("recovered") ELSE UNCHANGED audit
  /\ failing' = "no"
  /\ unreachable' = FALSE
  /\ report' = [report EXCEPT !["inbound"] =
                  IF state' # state THEN "due" ELSE "none"]
  /\ stateChanged' = FALSE
  /\ Goto("inbound", "run")
  /\ UNCHANGED <<snapshot, reportMu, wasRejected, ended, apps, events, faults>>

\* handlePollSuccess: SetPollingDegraded(false), the recovery, the report.
FinishPollSuccess ==
  /\ At("inbound", "cleared")
  /\ SetPollingDegraded(FALSE)
  /\ IF unreachable THEN AppendAudit("recovered") ELSE UNCHANGED audit
  /\ failing' = "no"
  /\ unreachable' = FALSE
  /\ report' = [report EXCEPT !["inbound"] =
                  IF stateChanged \/ state' # state THEN "due" ELSE "none"]
  /\ stateChanged' = FALSE
  /\ Goto("inbound", "run")
  /\ UNCHANGED <<snapshot, reportMu, wasRejected, ended, apps, events, faults>>

\* handlePollError: SetPollingDegraded(true) and the report.
DegradePolling ==
  /\ At("inbound", "error")
  /\ SetPollingDegraded(TRUE)
  /\ ReportIfChanged("inbound")
  /\ Goto("inbound", "failed")
  /\ UNCHANGED <<snapshot, reportMu, locals, poll, ended, apps, audit, events, faults>>

\* Mutant of FinishPollError: every failure after a minute is an outage.
FinishPollErrorAgain ==
  /\ At("inbound", "failed")
  /\ failing' = IF failing = "no" THEN "recently" ELSE failing
  /\ IF failing = "long"
       THEN unreachable' = TRUE /\ AppendAudit("unreachable")
       ELSE UNCHANGED <<unreachable, audit>>
  /\ Goto("inbound", "run")
  /\ UNCHANGED <<flags, calls, locals, ended, apps, episodes, events, faults>>

\* handlePollError: since when, and whether for 60 s by now.
FinishPollError ==
  /\ At("inbound", "failed")
  /\ failing' = IF failing = "no" THEN "recently" ELSE failing
  /\ IF failing = "long" /\ ~unreachable
       THEN unreachable' = TRUE /\ AppendAudit("unreachable")
       ELSE UNCHANGED <<unreachable, audit>>
  /\ Goto("inbound", "run")
  /\ UNCHANGED <<flags, calls, locals, ended, apps, episodes, events, faults>>

MinutePasses ==
  /\ failing = "recently"
  /\ failing' = "long"
  /\ UNCHANGED <<flags, pc, calls, locals, unreachable, ended, apps, audit, episodes,
                 events, faults>>

-----------------------------------------------------------------------------
(* handleTokenRejected, from either loop *)

\* Mutant of ReadRejected: the flag is read after it was set.
ReadRejectedLate(g) ==
  /\ At(g, "unauthorized")
  /\ wasRejected' = [wasRejected EXCEPT ![g] = TRUE]
  /\ Goto(g, "rejecting")
  /\ UNCHANGED <<flags, calls, stateChanged, poll, ended, apps, audit, episodes, events,
                 faults>>

ReadRejected(g) ==
  /\ At(g, "unauthorized")
  /\ wasRejected' = [wasRejected EXCEPT ![g] = tokenRejected]
  /\ Goto(g, "rejecting")
  /\ UNCHANGED <<flags, calls, stateChanged, poll, ended, apps, audit, episodes, events,
                 faults>>

RejectToken(g) ==
  /\ At(g, "rejecting")
  /\ SetTokenRejected(TRUE)
  /\ ReportIfChanged(g)
  /\ Goto(g, "rejected")
  /\ UNCHANGED <<snapshot, reportMu, locals, poll, ended, apps, audit, events, faults>>

\* The audit entry; the outbound loop goes on to logOutboundFailure, which
\* does nothing while the token is rejected.
AuditRejection(g) ==
  /\ At(g, "rejected")
  /\ IF wasRejected[g] THEN UNCHANGED audit ELSE AppendAudit("token_rejected")
  /\ wasRejected' = [wasRejected EXCEPT ![g] = FALSE]
  /\ Goto(g, IF g = "outbound" /\ ~tokenRejected THEN "unsent" ELSE "run")
  /\ UNCHANGED <<flags, calls, stateChanged, poll, ended, apps, episodes, events, faults>>

-----------------------------------------------------------------------------
(* The outbound loop *)

\* The start of a message: nothing is sent while the token is rejected.
BeginDelivery ==
  /\ At("outbound", "run")
  /\ \/ cancelled /\ Goto("outbound", "done")
     \/ ~cancelled /\ ~tokenRejected /\ Goto("outbound", "delivering")
  /\ UNCHANGED <<flags, calls, locals, poll, ended, apps, audit, episodes, events, faults>>

\* A part is sent, the message fails, a 401, or the context is gone.
DeliveryReturns ==
  /\ At("outbound", "delivering")
  /\ \/ cancelled /\ Goto("outbound", "run") /\ UNCHANGED events
     \/ /\ ~cancelled /\ Happens
        /\ \E result \in DeliveryResults : Goto("outbound", result)
  /\ UNCHANGED <<flags, calls, locals, poll, ended, apps, audit, episodes, faults>>

\* sendWithRetry after a success, logOutboundFailure after a failure.
SetOutbound ==
  /\ At("outbound", "sent") \/ At("outbound", "unsent")
  /\ SetOutboundDegraded(pc["outbound"] = "unsent")
  /\ ReportIfChanged("outbound")
  /\ \/ Goto("outbound", "run")
     \/ pc["outbound"] = "sent" /\ Goto("outbound", "delivering")
  /\ UNCHANGED <<snapshot, reportMu, locals, poll, ended, apps, audit, events, faults>>

-----------------------------------------------------------------------------
(* The end *)

\* The process is told to stop: the parent context goes, before StopAll or in
\* the middle of a Sync that replaces the worker.
Interrupt ==
  /\ ~cancelled
  /\ ended' = "parent"
  /\ UNCHANGED <<flags, pc, calls, locals, poll, apps, audit, episodes, events, faults>>

\* reportStop(stopReasonShutdown): SetStopped and the last report.
ReportStop ==
  /\ At("stopper", "run")
  /\ SetStopped
  /\ CallReport("stopper")
  /\ Goto("stopper", "stopping")
  /\ UNCHANGED <<snapshot, reportMu, locals, poll, ended, apps, audit, events, faults>>

\* Mutant of Cancel: it does not wait for the last report.
CancelAtOnce ==
  /\ pc["stopper"] = "stopping"
  /\ ended' = IF cancelled THEN ended ELSE "stop"
  /\ Goto("stopper", "done")
  /\ UNCHANGED <<flags, calls, locals, poll, apps, audit, episodes, events, faults>>

\* w.cancel()
Cancel ==
  /\ At("stopper", "stopping")
  /\ ended' = IF cancelled THEN ended ELSE "stop"
  /\ Goto("stopper", "done")
  /\ UNCHANGED <<flags, calls, locals, poll, apps, audit, episodes, events, faults>>

-----------------------------------------------------------------------------
Inbound ==
  \/ BeginPoll \/ PollReturns \/ Unpark \/ ClearRejection \/ FinishPollSuccess
  \/ DegradePolling \/ FinishPollError

Outbound == BeginDelivery \/ DeliveryReturns \/ SetOutbound

Reporting(g) == TakeSnapshot(g) \/ SendReport(g)

Next ==
  \/ Inbound \/ Outbound \/ Tick
  \/ \E g \in Loops : ReadRejected(g) \/ RejectToken(g) \/ AuditRejection(g)
  \/ \E g \in Goroutines : Reporting(g)
  \/ Interrupt \/ ReportStop \/ Cancel
  \/ ApplyLate \/ MinutePasses

Spec == Init /\ [][Next]_vars

-----------------------------------------------------------------------------
(* Properties *)

\* While the worker runs, a report never replaces a newer one: two goroutines
\* that report at the same time cannot leave the older state on display.
NoStaleReport == [][~cancelled => shown'.version >= shown.version]_shown

\* No change of state goes unreported: when the state is not the one on
\* display, some goroutine is about to report it, or a report has failed, or
\* the context that reports need is gone.
ChangeIsReported ==
  \/ shown.version = version
  \/ stateChanged
  \/ \E g \in Goroutines :
       \/ report[g] = "due"
       \/ report[g] = "sending" /\ snapshot[g].version = version
  \/ faults > 0 \/ cancelled

\* The poll loop waits for its end only with a rejected token, and nothing
\* clears the flag behind its back: the worker cannot look healthy while it
\* has stopped polling.
ParkedMeansRejected ==
  pc["inbound"] = "parked" => tokenRejected /\ state \in {"Misconfigured", "Stopped"}

Count(event) == Cardinality({i \in DOMAIN audit : audit[i] = event})

InHandler(g) == pc[g] \in {"unauthorized", "rejecting", "rejected"}

\* Every time the token becomes rejected an audit entry says so, at the latest
\* when both loops are out of handleTokenRejected: the loop that finds the flag
\* set already is never the one that sets it again.  There may be two entries:
\* both loops can read the flag before either sets it.
RejectionAudited ==
  cancelled \/ (\E g \in Loops : InHandler(g)) \/ Count("token_rejected") >= episodes

\* The audit entries about Telegram's reachability.
OutageEntries == {i \in DOMAIN audit : audit[i] # "token_rejected"}

\* "telegram_unreachable" and "telegram_recovered" alternate, beginning with
\* the first, whatever entries about the token come between.
OutageEntriesPaired ==
  \A j \in OutageEntries :
    /\ (\A i \in OutageEntries : j <= i) => audit[j] = "unreachable"
    /\ \A i \in OutageEntries :
         i < j /\ (\A k \in OutageEntries : k <= i \/ j <= k) => audit[i] # audit[j]

\* A worker that Sync stopped to replace it, with the service still running,
\* leaves Stopped on display, whatever report of its loops was under way, unless
\* a report failed.  StopAll promises no such thing: its workers' context is
\* cancelled before it begins (service.go, Run), and a late report of a loop may
\* cover the Stopped of reportStop.
ReplacedShowsStopped == ended = "stop" /\ faults = 0 => shown.state = "Stopped"
=============================================================================
