----------------------------- MODULE Lifecycle -----------------------------
(***************************************************************************)
(* One installation in the life of a connector process: the reconciliation *)
(* loop of internal/connector/service.go, the start and the stop of the    *)
(* installation's worker (worker.go), and what the Apps service shows of   *)
(* it.  Installations share no state of the manager, so one is enough.     *)
(*                                                                         *)
(* The manager and the goroutines of each worker interleave at every call  *)
(* that leaves the process.  A worker's reports are reduced to "Running"   *)
(* and "Stopped": module Status has the rest.  Workers are numbered in the *)
(* order of their creation, through all processes.                         *)
(***************************************************************************)
EXTENDS Integers, Sequences, FiniteSets

CONSTANTS
  MaxEdits,     \* bound: changes of the installation
  MaxFaults     \* bound: failed calls, signals and crashes

ASSUME LifecycleAssumption == MaxEdits \in Nat /\ MaxFaults \in Nat

\* "valid": parseInstallation succeeds.  "invalid": bot_token or agent_id is
\* missing or malformed.  "malformed": listed, but with a malformed organization
\* id, which listInstallations only logs.  "absent": not installed.
Kinds == {"valid", "invalid", "malformed", "absent"}

VARIABLES
  \* Apps service
  config,     \* the installation, [kind, version]
  shown,      \* its status: "", "Running", "Stopped", "Misconfigured"
  \* the manager
  mgr,        \* where Service.Run is
  seen,       \* config as listInstallations returned it
  reason,     \* of the Stop that is under way
  current,    \* the worker in manager.workers, 0 if none
  interrupted,\* the process has got its signal: the parent context is done
  \* all workers so far: [version, pc, hasStatus, stopped, cancelled, call]
  workers,
  faults

manager == <<mgr, seen, reason, current>>
vars == <<config, shown, manager, interrupted, workers, faults>>

Config == [kind : Kinds, version : Nat]
Texts  == {"", "Running", "Stopped", "Misconfigured"}
\* stopReasonShutdown is "shutdown" in StopAll and "replaced" in Sync.
Reasons == {"none", "shutdown", "replaced", "removed", "misconfigured"}

\* call: the text of a ReportInstallationStatus under way, or "no".
WorkerRecord ==
  [version : Nat, pc : {"load", "announce", "run", "done"}, hasStatus : BOOLEAN,
   stopped : BOOLEAN, cancelled : BOOLEAN, call : {"no", "Running", "Stopped"}]

TypeOK ==
  /\ config \in Config /\ shown \in Texts
  /\ mgr \in {"down", "boot", "wait", "list", "invalid", "sync", "audit", "report",
              "cancel", "join", "start", "returned"}
  /\ seen \in Config
  /\ reason \in Reasons
  /\ current \in 0 .. Len(workers)
  /\ interrupted \in BOOLEAN
  /\ workers \in Seq(WorkerRecord)
  /\ faults \in Nat

Init ==
  /\ config = [kind |-> "absent", version |-> 0]
  /\ shown = ""
  /\ mgr = "down"
  /\ seen = [kind |-> "absent", version |-> 0]
  /\ reason = "none"
  /\ current = 0
  /\ interrupted = FALSE
  /\ workers = <<>>
  /\ faults = 0

-----------------------------------------------------------------------------
(* Helpers *)

Fault == faults < MaxFaults /\ faults' = faults + 1
NoFault == UNCHANGED faults

Ids == DOMAIN workers

\* The poll loop and the outbound loop of worker i may be running.
Live(i) == workers[i].pc # "done"

\* The parent context reaches every worker of the process.
Cancelled(i) == workers[i].cancelled \/ interrupted

Goto(where) == mgr' = where

\* ReportInstallationStatus by the manager: applied, or failed and logged.
Show(text) ==
  \/ shown' = text /\ NoFault
  \/ UNCHANGED shown /\ Fault

-----------------------------------------------------------------------------
(* The installation and the process *)

\* Someone installs, reconfigures or uninstalls the app.
Edit ==
  /\ config.version < MaxEdits
  /\ \E k \in Kinds :
       /\ k # "valid" => k # config.kind
       /\ config' = [kind |-> k, version |-> config.version + 1]
  /\ UNCHANGED <<shown, manager, interrupted, workers, faults>>

\* A process is started, at first and after each end (Kubernetes).
Boot ==
  /\ mgr = "down"
  /\ Goto("boot")
  /\ current' = 0
  /\ interrupted' = FALSE
  /\ UNCHANGED <<config, shown, seen, reason, workers, faults>>

\* SIGTERM
Interrupt ==
  /\ mgr # "down" /\ ~interrupted
  /\ Fault
  /\ interrupted' = TRUE
  /\ UNCHANGED <<config, shown, manager, workers>>

\* The process is gone: it crashes, the first listing failed, or main returns
\* after a signal, which it does without waiting for Service.Run.
Exit ==
  /\ mgr # "down"
  /\ IF interrupted THEN NoFault ELSE Fault
  /\ Goto("down")
  /\ reason' = "none"
  /\ current' = 0
  /\ workers' = [i \in Ids |-> [workers[i] EXCEPT !.pc = "done", !.cancelled = TRUE]]
  /\ UNCHANGED <<config, shown, seen, interrupted>>

-----------------------------------------------------------------------------
(* Service.Run and listInstallations *)

\* The ticker, or the end of the context: StopAll, and Run returns.
Reconcile ==
  /\ mgr = "wait"
  /\ \/ ~interrupted /\ Goto("list") /\ UNCHANGED reason
     \/ interrupted /\ current = 0 /\ Goto("returned") /\ UNCHANGED reason
     \/ interrupted /\ current # 0 /\ Goto("audit") /\ reason' = "shutdown"
  /\ UNCHANGED <<config, shown, seen, current, interrupted, workers, faults>>

\* Mutant of ListInstallations: a failed listing ends Run.
ListInstallationsOnce ==
  /\ mgr \in {"boot", "list"}
  /\ \/ /\ seen' = config
        /\ Goto(IF config.kind = "invalid" THEN "invalid" ELSE "sync")
        /\ NoFault
     \/ /\ mgr = "list" /\ Goto("returned") /\ UNCHANGED seen
        /\ IF interrupted THEN NoFault ELSE Fault
  /\ UNCHANGED <<config, shown, reason, current, interrupted, workers>>

\* A failed listing is logged and left for the next tick; the first one ends
\* the process (Exit).  A malformed installation is left out of both results, so
\* that Sync takes it for a removed one.
ListInstallations ==
  /\ mgr \in {"boot", "list"}
  /\ \/ /\ seen' = config
        /\ Goto(IF config.kind = "invalid" THEN "invalid" ELSE "sync")
        /\ NoFault
     \/ /\ mgr = "list" /\ Goto("wait") /\ UNCHANGED seen
        /\ IF interrupted THEN NoFault ELSE Fault
  /\ UNCHANGED <<config, shown, reason, current, interrupted, workers>>

\* Mutant of ReportConfigurationInvalid: only while there is a worker to stop.
ReportConfigurationOfWorker ==
  /\ mgr = "invalid"
  /\ \/ current # 0 /\ Show("Misconfigured")
     \/ (interrupted \/ current = 0) /\ UNCHANGED <<shown, faults>>
  /\ Goto("sync")
  /\ UNCHANGED <<config, seen, reason, current, interrupted, workers>>

\* Before Sync, and every time: the worker, if there is one, still runs.
ReportConfigurationInvalid ==
  /\ mgr = "invalid"
  /\ \/ Show("Misconfigured")
     \/ interrupted /\ UNCHANGED <<shown, faults>>
  /\ Goto("sync")
  /\ UNCHANGED <<config, seen, reason, current, interrupted, workers>>

\* Mutant of Sync: a worker is kept whatever its configuration.
SyncById ==
  /\ mgr = "sync"
  /\ IF current = 0
       THEN /\ Goto(IF seen.kind = "valid" THEN "start" ELSE "wait")
            /\ UNCHANGED reason
       ELSE IF seen.kind = "valid"
              THEN Goto("wait") /\ UNCHANGED reason
              ELSE /\ Goto("audit")
                   /\ reason' = CASE seen.kind = "valid" -> "replaced"
                                  [] seen.kind = "invalid" -> "misconfigured"
                                  [] OTHER -> "removed"
  /\ UNCHANGED <<config, shown, seen, current, interrupted, workers, faults>>

\* Sync: what becomes of the worker.
Sync ==
  /\ mgr = "sync"
  /\ IF current = 0
       THEN /\ Goto(IF seen.kind = "valid" THEN "start" ELSE "wait")
            /\ UNCHANGED reason
       ELSE IF seen.kind = "valid" /\ workers[current].version = seen.version
              THEN Goto("wait") /\ UNCHANGED reason
              ELSE /\ Goto("audit")
                   /\ reason' = CASE seen.kind = "valid" -> "replaced"
                                  [] seen.kind = "invalid" -> "misconfigured"
                                  [] OTHER -> "removed"
  /\ UNCHANGED <<config, shown, seen, current, interrupted, workers, faults>>

\* Mutant of StartWorker: the map gets an entry and no worker.
StartWorkerUnmade ==
  /\ mgr = "start"
  /\ UNCHANGED workers
  /\ current' = Len(workers) + 1
  /\ Goto("wait")
  /\ UNCHANGED <<config, shown, seen, reason, interrupted, faults>>

\* newInstallationWorker and Start
StartWorker ==
  /\ mgr = "start"
  /\ workers' = Append(workers, [version |-> seen.version, pc |-> "load",
                                 hasStatus |-> FALSE, stopped |-> FALSE,
                                 cancelled |-> FALSE, call |-> "no"])
  /\ current' = Len(workers) + 1
  /\ Goto("wait")
  /\ UNCHANGED <<config, shown, seen, reason, interrupted, faults>>

-----------------------------------------------------------------------------
(* Stop *)

\* reportStop up to its status report.  SetStopped comes with it.
AuditStop ==
  /\ mgr = "audit"
  /\ Goto("report")
  /\ workers' = IF reason \in {"shutdown", "replaced"} /\ workers[current].hasStatus
                  THEN [workers EXCEPT ![current].stopped = TRUE]
                  ELSE workers
  /\ UNCHANGED <<config, shown, seen, reason, current, interrupted, faults>>

\* The report: cleared, left alone, or Stopped.  Only the last one goes through
\* installationStatus.Report and its lock.
ReportStop ==
  /\ mgr = "report"
  /\ \/ reason = "removed" /\ Show("")
     \/ reason = "misconfigured" /\ UNCHANGED <<shown, faults>>
     \/ /\ reason \in {"shutdown", "replaced"}
        /\ IF workers[current].stopped
             THEN /\ workers[current].call = "no" \/ Cancelled(current)
                  /\ Show("Stopped")
             ELSE UNCHANGED <<shown, faults>>
  /\ Goto("cancel")
  /\ UNCHANGED <<config, seen, reason, current, interrupted, workers>>

CancelWorker ==
  /\ mgr = "cancel"
  /\ workers' = [workers EXCEPT ![current].cancelled = TRUE]
  /\ Goto("join")
  /\ UNCHANGED <<config, shown, seen, reason, current, interrupted, faults>>

\* Mutant of JoinWorker: <-w.done is not waited for.
JoinWorkerLater ==
  /\ mgr = "join"
  /\ current' = 0
  /\ reason' = "none"
  /\ Goto(CASE reason = "replaced" -> "start"
            [] reason = "shutdown" -> "returned"
            [] OTHER -> "wait")
  /\ UNCHANGED <<config, shown, seen, interrupted, workers, faults>>

\* <-w.done, and the worker leaves the map.  Sync replaces it if it must.
JoinWorker ==
  /\ mgr = "join"
  /\ ~Live(current)
  /\ current' = 0
  /\ reason' = "none"
  /\ Goto(CASE reason = "replaced" -> "start"
            [] reason = "shutdown" -> "returned"
            [] OTHER -> "wait")
  /\ UNCHANGED <<config, shown, seen, interrupted, workers, faults>>

-----------------------------------------------------------------------------
(* The worker *)

\* loadInstallationState, repeated until it succeeds or the context ends; then
\* the status exists.
Load(i) ==
  /\ workers[i].pc = "load"
  /\ workers' = IF Cancelled(i)
                  THEN [workers EXCEPT ![i].pc = "done"]
                  ELSE [workers EXCEPT ![i].pc = "announce", ![i].hasStatus = TRUE]
  /\ UNCHANGED <<config, shown, manager, interrupted, faults>>

\* Report: the snapshot is taken and the call begins.  run calls it once before
\* the loops; then the loops and the ticker do.
BeginReport(i) ==
  /\ workers[i].pc \in {"announce", "run"}
  /\ workers[i].call = "no"
  /\ ~Cancelled(i)
  /\ workers' = [workers EXCEPT
                   ![i].pc = "run",
                   ![i].call = IF workers[i].stopped THEN "Stopped" ELSE "Running"]
  /\ UNCHANGED <<config, shown, manager, interrupted, faults>>

\* The call is applied.  One whose context has ended may be applied later than
\* the client gave it up, or never.
EndReport(i) ==
  /\ workers[i].call # "no"
  /\ workers' = [workers EXCEPT ![i].call = "no"]
  /\ \/ shown' = workers[i].call /\ NoFault
     \/ UNCHANGED shown /\ IF Cancelled(i) THEN NoFault ELSE Fault
  /\ UNCHANGED <<config, manager, interrupted>>

\* Both loops have returned; the reporter is not waited for.
Finish(i) ==
  /\ workers[i].pc \in {"announce", "run"}
  /\ Cancelled(i)
  /\ workers' = [workers EXCEPT ![i].pc = "done"]
  /\ UNCHANGED <<config, shown, manager, interrupted, faults>>

-----------------------------------------------------------------------------
Manager ==
  \/ Reconcile \/ ListInstallations \/ ReportConfigurationInvalid \/ Sync
  \/ StartWorker \/ AuditStop \/ ReportStop \/ CancelWorker \/ JoinWorker

Worker(i) == Load(i) \/ BeginReport(i) \/ EndReport(i) \/ Finish(i)

Next ==
  \/ Edit \/ Boot \/ Interrupt \/ Exit \/ Manager
  \/ \E i \in Ids : Worker(i)

Spec == Init /\ [][Next]_vars

\* A process that ended is started again, and one that got its signal ends.
\* The manager and the goroutines keep running.
FairSpec ==
  /\ Spec
  /\ WF_vars(Boot) /\ WF_vars(interrupted /\ Exit) /\ SF_vars(ReportStop) /\ WF_vars(Manager)
  /\ \A i \in 1 .. 2 * MaxEdits + MaxFaults + 1 :
       /\ WF_vars(i \in Ids /\ (Load(i) \/ Finish(i)))
       /\ WF_vars(i \in Ids /\ BeginReport(i))
       /\ WF_vars(i \in Ids /\ EndReport(i))

-----------------------------------------------------------------------------
(* Properties *)

\* The only worker whose loops may run is the one in the manager's map.  So a
\* process never runs two for one installation (the second long poll would
\* take the first one's updates), and none escapes the next Sync or StopAll.
NoOrphanWorker == \A i \in Ids : Live(i) => i = current

\* Between two reconciliations the map is what the last listing asked for,
\* whatever listing failed since: a worker of that very configuration, or none.
SyncedWithListing ==
  mgr \in {"wait", "list"} =>
    IF seen.kind = "valid" THEN current # 0 /\ workers[current].version = seen.version
                           ELSE current = 0

\* While the configuration is what it is, and the process does not end.
Until(v) == config.version # v \/ interrupted

\* An edited configuration is in effect in the end: a valid one has a worker of
\* its own version, any other has none (test/e2e/reconciliation_test.go).
ConfigurationApplied ==
  \A v \in 0 .. MaxEdits :
    config.version = v ~>
      \/ Until(v)
      \/ config.kind = "valid" /\ current # 0 /\ workers[current].version = v
      \/ config.kind # "valid" /\ \A i \in Ids : ~Live(i)

\* What is shown catches up with the configuration: the worker's report, or
\* Misconfigured, even if a report under way overwrote it at first.
ConfigurationShown ==
  \A v \in 0 .. MaxEdits :
    config.version = v ~>
      \/ Until(v)
      \/ config.kind = "valid" /\ shown = "Running"
      \/ config.kind = "invalid" /\ shown = "Misconfigured"
      \/ config.kind \in {"malformed", "absent"}

\* Once a removed installation's worker has stopped, its status is clear
\* (worker_audit_test.go, TestReportStopClearsStatusOnRemoval), if no call
\* failed.  A report that was under way when the status was cleared, or that
\* began before the worker was cancelled, is shown for ever by an Apps service
\* that takes reports for a removed installation.  The one of the end-to-end
\* tests refuses them once the removal has reached it.
RemovedShowsNothing ==
  /\ mgr = "wait" /\ seen.kind = "absent" /\ config = seen
  /\ faults = 0 /\ \A i \in Ids : workers[i].call = "no"
  => shown \in {"", "Misconfigured"}
=============================================================================
