-------------------------- MODULE LifecycleProofs --------------------------
(***************************************************************************)
(* Proofs about Lifecycle: for any number of edits, faults and processes.  *)
(*                                                                         *)
(* Neither NoOrphanWorker nor SyncedWithListing is inductive: what Sync    *)
(* and Stop do next rests on what the manager has decided.  SyncInv adds   *)
(* that, by the place where Service.Run is: there is no worker when one is *)
(* about to be started, there is one while it is being stopped, and the    *)
(* reason of the stop agrees with the listing.                             *)
(***************************************************************************)
EXTENDS Lifecycle, SequenceTheorems, TLAPS

-----------------------------------------------------------------------------
(* The inductive invariant *)

\* Where reportStop and Stop are under way.
Stopping == {"audit", "report", "cancel", "join"}

\* There is no worker in these places.
NoWorkerYet == {"down", "boot", "start", "returned"}

\* A worker is started for a valid installation, one is stopped for a reason
\* that the listing gives (or because the process ends).
Decided ==
  /\ mgr \in NoWorkerYet => current = 0
  /\ mgr \in Stopping => current # 0
  /\ mgr = "start" => seen.kind = "valid"
  /\ mgr \in Stopping =>
       \/ reason = "shutdown"
       \/ reason = "replaced" /\ seen.kind = "valid"
       \/ reason \in {"removed", "misconfigured"} /\ seen.kind # "valid"

SyncInv == TypeOK /\ Decided /\ NoOrphanWorker /\ SyncedWithListing

\* The types of all variables but interrupted.
ValueTypes ==
  /\ config \in Config /\ shown \in Texts
  /\ mgr \in {"down", "boot", "wait", "list", "invalid", "sync", "audit", "report",
              "cancel", "join", "start", "returned"}
  /\ seen \in Config
  /\ reason \in Reasons
  /\ current \in 0 .. Len(workers)
  /\ workers \in Seq(WorkerRecord)
  /\ faults \in Nat

LEMMA TypeParts == TypeOK <=> ValueTypes /\ interrupted \in BOOLEAN
  BY DEF TypeOK, ValueTypes

LEMMA InitSync == Init => SyncInv
<1> SUFFICES ASSUME Init PROVE SyncInv
  OBVIOUS
<1>1. workers \in Seq(WorkerRecord) /\ Len(workers) = 0
  BY EmptySeq DEF Init
<1>2. Ids = {}
  BY <1>1 DEF Ids
<1>3. TypeOK
  <2>1. ValueTypes
    <3>1. config \in Config /\ seen \in Config
      BY DEF Init, Config, Kinds
    <3>2. shown \in Texts
      BY DEF Init, Texts
    <3>3. /\ mgr = "down" /\ reason = "none"
          /\ current = 0 /\ faults = 0
      BY DEF Init
    <3> QED
      BY <1>1, <3>1, <3>2, <3>3 DEF ValueTypes, Reasons
  <2>2. interrupted \in BOOLEAN
    BY DEF Init
  <2> QED
    BY <2>1, <2>2, TypeParts
<1>4. Decided /\ SyncedWithListing
  BY DEF Init, Decided, SyncedWithListing, NoWorkerYet, Stopping
<1>5. NoOrphanWorker
  BY <1>2 DEF NoOrphanWorker
<1> QED
  BY <1>3, <1>4, <1>5 DEF SyncInv

-----------------------------------------------------------------------------
(* Workers *)

\* Assigning to fields of a worker keeps the list, and everything of the others.
LEMMA ChangeWorker ==
  ASSUME TypeOK, NEW i \in Ids, NEW r \in WorkerRecord,
         workers' = [workers EXCEPT ![i] = r]
  PROVE  /\ workers' \in Seq(WorkerRecord)
         /\ Len(workers') = Len(workers)
         /\ Ids' = Ids
         /\ workers'[i] = r
         /\ \A j \in Ids \ {i} : workers'[j] = workers[j]
<1>1. workers \in Seq(WorkerRecord) /\ DOMAIN workers = 1 .. Len(workers)
  BY DEF TypeOK
<1>2. workers' \in Seq(WorkerRecord) /\ Len(workers') = Len(workers)
  BY <1>1, ExceptSeq DEF Ids
<1> QED
  BY <1>1, <1>2 DEF Ids

LEMMA WorkerTypes ==
  ASSUME TypeOK
  PROVE  /\ Ids = 1 .. Len(workers) /\ Len(workers) \in Nat
         /\ \A i \in Ids : workers[i] \in WorkerRecord
         /\ current \in Nat
         /\ current # 0 => current \in Ids
  BY DEF TypeOK, Ids

\* A worker whose loops have ended stays so, and no worker changes its version.
Same(i) ==
  /\ workers'[i].version = workers[i].version
  /\ workers'[i].pc = "done" \/ Live(i)

\* What a step may do to the workers: it changes one, it ends all, it adds one,
\* or it leaves them alone.
LEMMA WorkersStep ==
  ASSUME TypeOK, Decided, Next
  PROVE  /\ workers' \in Seq(WorkerRecord)
         /\ Ids \subseteq Ids'
         /\ \A i \in Ids : Same(i)
         /\ ~StartWorker => Ids' = Ids /\ Len(workers') = Len(workers)
<1> USE WorkerTypes
<1>1. CASE UNCHANGED workers
  <2>1. ~StartWorker
    <3>1. workers \in Seq(WorkerRecord)
      BY DEF TypeOK
    <3>2. ASSUME NEW r PROVE Len(Append(workers, r)) = Len(workers) + 1
      BY <3>1
    <3> QED
      BY <1>1, <3>2 DEF StartWorker
  <2> QED
    BY <1>1, <2>1 DEF TypeOK, Same, Live, Ids
<1>2. ASSUME NEW i \in Ids, NEW r \in WorkerRecord,
             workers' = [workers EXCEPT ![i] = r],
             r.version = workers[i].version,
             r.pc = "done" \/ Live(i)
      PROVE  /\ workers' \in Seq(WorkerRecord)
             /\ \A j \in Ids : Same(j)
             /\ Ids' = Ids /\ Len(workers') = Len(workers)
  BY <1>2, ChangeWorker DEF Same, Live
<1>3. CASE StartWorker
  <2> DEFINE r == [version |-> seen.version, pc |-> "load", hasStatus |-> FALSE,
                   stopped |-> FALSE, cancelled |-> FALSE, call |-> "no"]
  <2>1. r \in WorkerRecord /\ workers' = Append(workers, r) /\ workers \in Seq(WorkerRecord)
    BY <1>3 DEF StartWorker, TypeOK, Config, WorkerRecord
  <2> HIDE DEF r
  <2> QED
    BY <1>3, <2>1, AppendProperties DEF Same, Live, Ids
<1>4. CASE Exit
  <2>1. \A i \in Ids : [workers[i] EXCEPT !.pc = "done", !.cancelled = TRUE] \in WorkerRecord
    BY DEF WorkerRecord
  <2>2. workers' \in [1 .. Len(workers) -> WorkerRecord]
    BY <1>4, <2>1 DEF Exit
  <2>3. workers' \in Seq(WorkerRecord)
    BY <2>2, IsASeq
  <2>4. Len(workers') = Len(workers)
    BY <2>2, <2>3, LenProperties
  <2>5. \A i \in Ids : Same(i)
    BY <1>4, <2>1 DEF Exit, Same, WorkerRecord
  <2>6. ~StartWorker
    BY <1>4 DEF Exit, StartWorker, Goto
  <2> QED
    BY <2>2, <2>3, <2>4, <2>5, <2>6 DEF Ids
<1>5. CASE AuditStop \/ CancelWorker
  <2>1. current \in Ids /\ ~StartWorker
    BY <1>5 DEF AuditStop, CancelWorker, StartWorker, Decided, Stopping
  <2>2. /\ [workers[current] EXCEPT !.stopped = TRUE] \in WorkerRecord
        /\ [workers[current] EXCEPT !.cancelled = TRUE] \in WorkerRecord
    BY <2>1 DEF WorkerRecord
  <2>3. \/ UNCHANGED workers
        \/ workers' = [workers EXCEPT ![current] = [workers[current] EXCEPT !.stopped = TRUE]]
        \/ workers' = [workers EXCEPT ![current] = [workers[current] EXCEPT !.cancelled = TRUE]]
    BY <1>5 DEF AuditStop, CancelWorker
  <2>4. workers[current].pc = "done" \/ Live(current)
    BY DEF Live
  <2> QED
    BY <1>1, <1>2, <2>1, <2>2, <2>3, <2>4 DEF WorkerRecord
<1>6. ASSUME NEW i \in Ids, Worker(i)
      PROVE  /\ workers' \in Seq(WorkerRecord)
             /\ \A j \in Ids : Same(j)
             /\ Ids' = Ids /\ Len(workers') = Len(workers)
  <2>1. PICK r : /\ workers' = [workers EXCEPT ![i] = r]
                 /\ r \in WorkerRecord
                 /\ r.version = workers[i].version
                 /\ r.pc = "done" \/ Live(i)
    <3>1. workers[i] \in WorkerRecord
      OBVIOUS
    <3>2. CASE Load(i)
      <4>1. workers' = [workers EXCEPT ![i] =
                IF Cancelled(i) THEN [workers[i] EXCEPT !.pc = "done"]
                                ELSE [workers[i] EXCEPT !.pc = "announce", !.hasStatus = TRUE]]
        BY <3>2 DEF Load
      <4> QED
        BY <3>1, <3>2, <4>1 DEF Load, WorkerRecord, Live
    <3>3. CASE BeginReport(i)
      <4>1. workers' = [workers EXCEPT ![i] = [workers[i] EXCEPT !.pc = "run",
                !.call = IF workers[i].stopped THEN "Stopped" ELSE "Running"]]
        BY <3>3 DEF BeginReport
      <4> QED
        BY <3>1, <3>3, <4>1 DEF BeginReport, WorkerRecord, Live
    <3>4. CASE EndReport(i)
      <4> DEFINE r == [workers[i] EXCEPT !.call = "no"]
      <4>1. workers' = [workers EXCEPT ![i] = r]
        BY <3>4 DEF EndReport
      <4>2. r \in WorkerRecord /\ r.version = workers[i].version /\ r.pc = workers[i].pc
        BY <3>1 DEF WorkerRecord
      <4>3. r.pc = "done" \/ Live(i)
        BY <4>2 DEF Live
      <4> HIDE DEF r
      <4> QED
        BY <4>1, <4>2, <4>3
    <3>5. CASE Finish(i)
      <4>1. workers' = [workers EXCEPT ![i] = [workers[i] EXCEPT !.pc = "done"]]
        BY <3>5 DEF Finish
      <4> QED
        BY <3>1, <3>5, <4>1 DEF Finish, WorkerRecord, Live
    <3> QED
      BY <1>6, <3>2, <3>3, <3>4, <3>5 DEF Worker
  <2> QED
    BY <1>2, <2>1
<1>7. ASSUME NEW i \in Ids, Worker(i) PROVE ~StartWorker \/ UNCHANGED workers
  <2>1. CASE StartWorker
    <3>1. ASSUME NEW r PROVE Len(Append(workers, r)) = Len(workers) + 1
      BY DEF TypeOK
    <3> QED
      BY <1>6, <1>7, <2>1, <3>1 DEF StartWorker
  <2> QED
    BY <2>1
<1>8. \/ UNCHANGED workers \/ StartWorker \/ Exit \/ AuditStop \/ CancelWorker
      \/ \E i \in Ids : Worker(i)
  BY DEF Next, Manager, Edit, Boot, Interrupt, Reconcile, ListInstallations,
         ReportConfigurationInvalid, Sync, ReportStop, JoinWorker
<1> QED
  BY <1>1, <1>3, <1>4, <1>5, <1>6, <1>7, <1>8

-----------------------------------------------------------------------------
(* Types *)

LEMMA ReportTypes ==
  ASSUME ValueTypes, NEW text \in Texts, Show(text)
  PROVE  shown' \in Texts /\ faults' \in Nat
  BY DEF ValueTypes, Show, Fault, NoFault

LEMMA FaultTypes ==
  ASSUME ValueTypes, Fault \/ NoFault
  PROVE  faults' \in Nat
  BY DEF ValueTypes, Fault, NoFault

LEMMA InterruptedType == TypeOK /\ Next => interrupted' \in BOOLEAN
<1> SUFFICES ASSUME TypeOK, Next PROVE interrupted' \in BOOLEAN
  OBVIOUS
<1>1. CASE UNCHANGED interrupted
  BY <1>1 DEF TypeOK
<1>2. CASE Boot \/ Interrupt
  BY <1>2 DEF Boot, Interrupt
<1> QED
  BY <1>1, <1>2 DEF Next, Manager, Worker, Edit, Exit, Reconcile, ListInstallations,
     ReportConfigurationInvalid, Sync, StartWorker, AuditStop, ReportStop, CancelWorker,
     JoinWorker, Load, BeginReport, EndReport, Finish

LEMMA ValueTypesStep == TypeOK /\ Decided /\ Next => ValueTypes'
<1> SUFFICES ASSUME TypeOK, Decided, Next PROVE ValueTypes'
  OBVIOUS
<1> USE DEF Goto
<1>0. ValueTypes
  BY TypeParts
<1>1. workers' \in Seq(WorkerRecord) /\ Len(workers') \in Nat /\ Len(workers) \in Nat
  BY <1>0, WorkersStep, LenProperties DEF ValueTypes
<1>2. CASE Edit
  BY <1>0, <1>1, <1>2 DEF Edit, ValueTypes, Config, manager
<1>3. CASE Boot
  BY <1>0, <1>1, <1>3 DEF Boot, ValueTypes
<1>4. CASE Interrupt
  BY <1>0, <1>1, <1>4, FaultTypes DEF Interrupt, ValueTypes, manager
<1>5. CASE Exit
  <2>1. faults' \in Nat
    BY <1>0, <1>5, FaultTypes DEF Exit
  <2>2. UNCHANGED <<config, shown, seen>> /\ mgr' = "down" /\ reason' = "none" /\ current' = 0
    BY <1>5 DEF Exit
  <2> QED
    BY <1>0, <1>1, <2>1, <2>2 DEF ValueTypes, Reasons
<1>6. CASE Reconcile
  BY <1>0, <1>1, <1>6 DEF Reconcile, ValueTypes, Reasons
<1>7. CASE ListInstallations
  <2>1. faults' \in Nat
    BY <1>0, <1>7, FaultTypes DEF ListInstallations
  <2> QED
    BY <1>0, <1>1, <1>7, <2>1 DEF ListInstallations, ValueTypes
<1>8. CASE ReportConfigurationInvalid
  <2>1. shown' \in Texts /\ faults' \in Nat
    BY <1>0, <1>8, ReportTypes DEF ReportConfigurationInvalid, ValueTypes, Texts
  <2> QED
    BY <1>0, <1>1, <1>8, <2>1 DEF ReportConfigurationInvalid, ValueTypes
<1>9. CASE Sync
  BY <1>0, <1>1, <1>9 DEF Sync, ValueTypes, Reasons
<1>10. CASE StartWorker
  <2>1. Len(workers') = Len(workers) + 1
    BY <1>0, <1>10 DEF StartWorker, ValueTypes
  <2> QED
    BY <1>0, <1>1, <1>10, <2>1 DEF StartWorker, ValueTypes
<1>11. CASE AuditStop \/ CancelWorker \/ JoinWorker
  <2>1. ~StartWorker
    BY <1>11 DEF AuditStop, CancelWorker, JoinWorker, StartWorker
  <2>2. Len(workers') = Len(workers)
    BY <2>1, WorkersStep
  <2> QED
    BY <1>0, <1>1, <1>11, <2>2 DEF AuditStop, CancelWorker, JoinWorker, ValueTypes, Reasons
<1>12. CASE ReportStop
  <2>1. shown' \in Texts /\ faults' \in Nat
    BY <1>0, <1>12, ReportTypes DEF ReportStop, ValueTypes, Texts
  <2> QED
    BY <1>0, <1>1, <1>12, <2>1 DEF ReportStop, ValueTypes
<1>13. ASSUME NEW i \in Ids, Worker(i) PROVE ValueTypes'
  <2>1. UNCHANGED <<config, manager>>
    BY <1>13 DEF Worker, Load, BeginReport, EndReport, Finish
  <2>2. Len(workers') = Len(workers)
    BY <1>0, <1>13 DEF Worker, Load, BeginReport, EndReport, Finish, ValueTypes
  <2>3. CASE EndReport(i)
    <3>1. workers[i].call # "no" => workers[i].call \in Texts
      BY WorkerTypes DEF WorkerRecord, Texts
    <3>2. shown' \in Texts
      BY <1>0, <2>3, <3>1 DEF EndReport, ValueTypes
    <3>3. faults' \in Nat
      BY <1>0, <2>3, FaultTypes DEF EndReport
    <3> QED
      BY <1>0, <1>1, <2>1, <2>2, <3>2, <3>3 DEF ValueTypes, manager
  <2>4. CASE Load(i) \/ BeginReport(i) \/ Finish(i)
    <3>1. UNCHANGED <<shown, faults>>
      BY <2>4 DEF Load, BeginReport, Finish
    <3> QED
      BY <1>0, <1>1, <2>1, <2>2, <3>1 DEF ValueTypes, manager
  <2> QED
    BY <1>13, <2>3, <2>4 DEF Worker
<1> QED
  BY <1>2, <1>3, <1>4, <1>5, <1>6, <1>7, <1>8, <1>9, <1>10, <1>11, <1>12, <1>13
     DEF Next, Manager

LEMMA StepType == TypeOK /\ Decided /\ Next => TypeOK'
<1>1. TypeOK' <=> ValueTypes' /\ interrupted' \in BOOLEAN
  BY DEF TypeOK, ValueTypes
<1> QED
  BY <1>1, InterruptedType, ValueTypesStep

-----------------------------------------------------------------------------
(* The manager and its map *)

LEMMA DecidedStep == SyncInv /\ Next => Decided'
<1> SUFFICES ASSUME SyncInv, Next PROVE Decided'
  OBVIOUS
<1> USE DEF Goto, Decided, NoWorkerYet, Stopping
<1>1. CASE Edit \/ Boot \/ Interrupt \/ Exit
  BY <1>1 DEF SyncInv, Edit, Boot, Interrupt, Exit, manager
<1>2. CASE Reconcile \/ ListInstallations \/ ReportConfigurationInvalid
  BY <1>2 DEF SyncInv, Reconcile, ListInstallations, ReportConfigurationInvalid
<1>3. CASE Sync
  BY <1>3 DEF SyncInv, Sync
<1>4. CASE StartWorker
  BY <1>4 DEF SyncInv, StartWorker, TypeOK
<1>5. CASE AuditStop \/ ReportStop \/ CancelWorker \/ JoinWorker
  BY <1>5 DEF SyncInv, AuditStop, ReportStop, CancelWorker, JoinWorker
<1>6. ASSUME NEW i \in Ids, Worker(i) PROVE Decided'
  BY <1>6 DEF SyncInv, Worker, Load, BeginReport, EndReport, Finish, manager
<1> QED
  BY <1>1, <1>2, <1>3, <1>4, <1>5, <1>6 DEF Next, Manager

\* A worker leaves the map only when its loops have ended, and a worker is made
\* only when the map is empty.
LEMMA NoOrphanStep == SyncInv /\ Next => NoOrphanWorker'
<1> SUFFICES ASSUME SyncInv, Next, NEW i \in Ids', Live(i)' PROVE i = current'
  BY DEF NoOrphanWorker
<1>1. CASE StartWorker
  <2>1. \A j \in Ids : ~Live(j)
    BY <1>1, WorkerTypes DEF SyncInv, StartWorker, Decided, NoWorkerYet, NoOrphanWorker
  <2>2. i \notin Ids
    BY <2>1, WorkersStep DEF SyncInv, Same, Live
  <2>3. Len(workers') = Len(workers) + 1 /\ Ids' = 1 .. Len(workers')
        /\ Ids = 1 .. Len(workers) /\ Len(workers) \in Nat
    BY <1>1 DEF SyncInv, TypeOK, StartWorker, Ids
  <2> QED
    BY <1>1, <2>2, <2>3 DEF StartWorker
<1>2. CASE ~StartWorker
  <2>1. i \in Ids /\ Live(i)
    BY <1>2, WorkersStep DEF SyncInv, Same, Live
  <2>2. i = current
    BY <2>1 DEF SyncInv, NoOrphanWorker
  <2>3. ~Exit
    <3>1. Exit => workers'[i] = [workers[i] EXCEPT !.pc = "done", !.cancelled = TRUE]
      BY <2>1 DEF Exit
    <3>2. workers[i] \in WorkerRecord
      BY <2>1, WorkerTypes DEF SyncInv
    <3>3. [workers[i] EXCEPT !.pc = "done", !.cancelled = TRUE].pc = "done"
      BY <3>2 DEF WorkerRecord
    <3> QED
      BY <3>1, <3>3 DEF Live
  <2>4. ~Boot
    BY <2>1, <2>2, WorkerTypes DEF SyncInv, Boot, Decided, NoWorkerYet
  <2>5. ~JoinWorker
    BY <2>1, <2>2 DEF JoinWorker
  <2>6. current' = current
    BY <1>2, <2>3, <2>4, <2>5
       DEF Next, Manager, Worker, Edit, Interrupt, Reconcile, ListInstallations,
           ReportConfigurationInvalid, Sync, AuditStop, ReportStop, CancelWorker,
           Load, BeginReport, EndReport, Finish, manager
  <2> QED
    BY <2>2, <2>6
<1> QED
  BY <1>1, <1>2

\* Sync does what the listing asks for before it lets Run wait again.
LEMMA SyncedStep == SyncInv /\ Next => SyncedWithListing'
<1> SUFFICES ASSUME SyncInv, Next PROVE SyncedWithListing'
  OBVIOUS
<1> USE DEF Goto, SyncedWithListing
<1>0. current # 0 => current \in Ids /\ Same(current)
  BY WorkerTypes, WorkersStep DEF SyncInv
<1>1. CASE Edit \/ Boot \/ Interrupt \/ Exit
  BY <1>0, <1>1 DEF SyncInv, Edit, Boot, Interrupt, Exit, manager, Same
<1>2. CASE Reconcile \/ ListInstallations \/ ReportConfigurationInvalid
  BY <1>0, <1>2 DEF SyncInv, Reconcile, ListInstallations, ReportConfigurationInvalid, Same,
     Decided, NoWorkerYet
<1>3. CASE Sync
  BY <1>0, <1>3 DEF SyncInv, Sync
<1>4. CASE StartWorker
  <2>1. workers'[Len(workers) + 1].version = seen.version
    BY <1>4 DEF SyncInv, TypeOK, StartWorker
  <2>2. Len(workers) \in Nat /\ seen.kind = "valid"
    BY <1>4 DEF SyncInv, TypeOK, StartWorker, Decided
  <2> QED
    BY <1>4, <2>1, <2>2 DEF StartWorker
<1>5. CASE AuditStop \/ ReportStop \/ CancelWorker \/ JoinWorker
  BY <1>5 DEF SyncInv, AuditStop, ReportStop, CancelWorker, JoinWorker, Decided, Stopping
<1>6. ASSUME NEW i \in Ids, Worker(i) PROVE SyncedWithListing'
  BY <1>0, <1>6 DEF SyncInv, Worker, Load, BeginReport, EndReport, Finish, manager, Same
<1> QED
  BY <1>1, <1>2, <1>3, <1>4, <1>5, <1>6 DEF Next, Manager

-----------------------------------------------------------------------------
(* The theorems *)

LEMMA AlwaysSynced == Spec => []SyncInv
<1>1. SyncInv /\ Next => SyncInv'
  BY StepType, DecidedStep, NoOrphanStep, SyncedStep DEF SyncInv
<1>2. SyncInv /\ UNCHANGED vars => SyncInv'
  BY DEF SyncInv, vars, manager, TypeOK, Decided, NoOrphanWorker, SyncedWithListing, Ids, Live
<1> QED
  BY <1>1, <1>2, InitSync, PTL DEF Spec

\* Every variable of the lifecycle model keeps its type.
THEOREM TypeCorrect == Spec => []TypeOK
<1>1. SyncInv => TypeOK
  BY DEF SyncInv
<1> QED
  BY <1>1, AlwaysSynced, PTL

\* The loops of a worker run only while it is in the manager's map: whatever
\* listing, report or process fails, no installation is ever polled twice, and
\* no worker escapes the next Sync or StopAll.
THEOREM NoWorkerEscapes == Spec => []NoOrphanWorker
<1>1. SyncInv => NoOrphanWorker
  BY DEF SyncInv
<1> QED
  BY <1>1, AlwaysSynced, PTL

\* Between two reconciliations the map holds what the last listing asked for.
THEOREM MapFollowsListing == Spec => []SyncedWithListing
<1>1. SyncInv => SyncedWithListing
  BY DEF SyncInv
<1> QED
  BY <1>1, AlwaysSynced, PTL
=============================================================================
