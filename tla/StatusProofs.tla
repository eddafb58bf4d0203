---------------------------- MODULE StatusProofs ---------------------------
(***************************************************************************)
(* Proofs about Status: for any results of polls and sends, in any number, *)
(* and any number of reports that fail.                                    *)
(*                                                                         *)
(* StatusInv has a part for each property, and what it rests on: the state *)
(* follows the flags, reportMu is held by the one goroutine that sends, a  *)
(* sender's snapshot is neither newer than the state nor (while the worker *)
(* runs) older than the display, and which loop can have set the token     *)
(* flag that the other one finds set.                                      *)
(***************************************************************************)
EXTENDS Status, FiniteSetTheorems, SequenceTheorems, TLAPS

-----------------------------------------------------------------------------
(* The inductive invariant *)

StateDerived == state = Derived(stopped, tokenRejected, pollingDegraded, outboundDegraded)

\* The goroutine that makes a call holds reportMu, and no other one does.
Locked == \A g \in Goroutines : report[g] = "sending" <=> reportMu = g

\* What is sent is not newer than the state, and, until the context ends, not
\* older than what is on display; no call is left behind.
Fresher ==
  /\ \A g \in Goroutines : report[g] = "sending" => snapshot[g].version <= version
  /\ ~cancelled =>
       /\ wire = {}
       /\ shown.version <= version
       /\ \A g \in Goroutines :
            report[g] = "sending" => shown.version <= snapshot[g].version

\* handlePollSuccess remembers a change only between its two setters.
Remembered == stateChanged => pc["inbound"] = "cleared"

Parked == pc["inbound"] = "parked" => tokenRejected

\* While the outbound loop delivers, only the poll loop can have set the flag,
\* and then it polls no more.
RejectedByPoll ==
  tokenRejected /\ pc["outbound"] \in {"delivering", "sent", "unauthorized", "rejecting"}
    => pc["inbound"] \in {"rejected", "run", "parked", "done"}

\* A loop that found the flag set is not the one that will set it.
FoundStays == \A g \in Loops : pc[g] = "rejecting" /\ wasRejected[g] => tokenRejected

\* A loop that found the flag clear, has set it, and owes the audit entry.
Owes(g) == IF pc[g] = "rejected" /\ ~wasRejected[g] THEN 1 ELSE 0

RejectionsCounted ==
  ~cancelled => episodes <= Count("token_rejected") + Owes("inbound") + Owes("outbound")

\* The flag telegramUnreachable tells the last entry about reachability.
LastOutage ==
  ~cancelled =>
    /\ unreachable =>
         \E i \in OutageEntries : /\ audit[i] = "unreachable"
                                  /\ \A k \in OutageEntries : k <= i
    /\ ~unreachable =>
         \A i \in OutageEntries :
           (\A k \in OutageEntries : k <= i) => audit[i] = "recovered"

\* From the time reportStop's own report has its snapshot, every sender has the
\* Stopped state; when that report has been made, the display has it too.
StopReported ==
  /\ pc["stopper"] # "run" => stopped
  /\ ended = "stop" => pc["stopper"] = "done"
  /\ pc["stopper"] \in {"run", "done"} => report["stopper"] = "none"
  /\ pc["stopper"] # "run" /\ report["stopper"] # "due" =>
       \A g \in Goroutines : report[g] = "sending" => snapshot[g].state = "Stopped"
  /\ pc["stopper"] # "run" /\ report["stopper"] = "none" /\ faults = 0 /\ ended # "parent" =>
       /\ shown.state = "Stopped"
       /\ \A s \in wire : s.state = "Stopped"

StatusInv ==
  /\ TypeOK
  /\ StateDerived /\ Locked /\ Fresher /\ Remembered
  /\ ChangeIsReported
  /\ Parked /\ RejectedByPoll /\ FoundStays /\ RejectionsCounted
  /\ LastOutage /\ OutageEntriesPaired
  /\ StopReported

-----------------------------------------------------------------------------
(* Types *)

\* The types of all variables but the flags and the audit trail.
ValueTypes ==
  /\ state \in States
  /\ pc \in [Goroutines -> PCs]
  /\ report \in [Goroutines -> {"none", "due", "sending"}]
  /\ snapshot \in [Goroutines -> Snapshot]
  /\ reportMu \in Goroutines \cup {"free"}
  /\ failing \in {"no", "recently", "long"}
  /\ ended \in {"no", "parent", "stop"}
  /\ shown \in Snapshot
  /\ wire \in SUBSET Snapshot
  /\ audit \in Seq({"token_rejected", "unreachable", "recovered"})
  /\ version \in Nat /\ episodes \in Nat /\ events \in Nat /\ faults \in Nat

FlagTypes ==
  /\ stopped \in BOOLEAN /\ tokenRejected \in BOOLEAN
  /\ pollingDegraded \in BOOLEAN /\ outboundDegraded \in BOOLEAN
  /\ stateChanged \in BOOLEAN /\ unreachable \in BOOLEAN
  /\ wasRejected \in [Loops -> BOOLEAN]

LEMMA TypeParts == TypeOK <=> ValueTypes /\ FlagTypes
  BY DEF TypeOK, ValueTypes, FlagTypes

LEMMA FlagStep == FlagTypes /\ Next => FlagTypes'
<1> SUFFICES ASSUME FlagTypes, Next PROVE FlagTypes'
  OBVIOUS
<1> USE DEF FlagTypes, flags, calls, locals, poll, apps
<1>1. CASE BeginPoll \/ PollReturns \/ Unpark \/ BeginDelivery \/ DeliveryReturns
  BY <1>1 DEF BeginPoll, PollReturns, Unpark, BeginDelivery, DeliveryReturns
<1>2. CASE ClearRejection
  BY <1>2 DEF ClearRejection, SetTokenRejected
<1>3. CASE FinishPollSuccess
  BY <1>3 DEF FinishPollSuccess, SetPollingDegraded
<1>4. CASE DegradePolling
  BY <1>4 DEF DegradePolling, SetPollingDegraded
<1>5. CASE FinishPollError
  BY <1>5 DEF FinishPollError
<1>6. CASE SetOutbound
  BY <1>6 DEF SetOutbound, SetOutboundDegraded
<1>7. CASE Tick \/ Interrupt \/ Cancel \/ ApplyLate \/ MinutePasses
  BY <1>7 DEF Tick, Interrupt, Cancel, ApplyLate, MinutePasses
<1>8. ASSUME NEW g \in Loops, ReadRejected(g) PROVE FlagTypes'
  BY <1>8 DEF ReadRejected
<1>9. ASSUME NEW g \in Loops, RejectToken(g) PROVE FlagTypes'
  BY <1>9 DEF RejectToken, SetTokenRejected
<1>10. ASSUME NEW g \in Loops, AuditRejection(g) PROVE FlagTypes'
  BY <1>10 DEF AuditRejection
<1>11. ASSUME NEW g \in Goroutines, TakeSnapshot(g) \/ SendReport(g) PROVE FlagTypes'
  BY <1>11 DEF TakeSnapshot, SendReport
<1>12. CASE ReportStop
  BY <1>12 DEF ReportStop, SetStopped
<1> QED
  BY <1>1, <1>2, <1>3, <1>4, <1>5, <1>6, <1>7, <1>8, <1>9, <1>10, <1>11, <1>12
     DEF Next, Inbound, Outbound, Reporting

LEMMA ValueStep == TypeOK /\ Next => ValueTypes'
<1> SUFFICES ASSUME ValueTypes, Next PROVE ValueTypes'
  BY TypeParts
<1>0. \A event \in {"token_rejected", "unreachable", "recovered"} :
        AppendAudit(event) => audit' \in Seq({"token_rejected", "unreachable", "recovered"})
  BY DEF ValueTypes, AppendAudit
<1>a. UpdateState => state' \in States /\ version' \in Nat
  BY DEF ValueTypes, UpdateState, Derived, States
<1>b. ASSUME NEW g \in Goroutines, NEW p \in PCs, Goto(g, p) PROVE pc' \in [Goroutines -> PCs]
  BY <1>b DEF Goto, ValueTypes
<1>c. ASSUME NEW g \in Goroutines, CallReport(g) \/ ReportIfChanged(g)
      PROVE report' \in [Goroutines -> {"none", "due", "sending"}]
  BY <1>c DEF CallReport, ReportIfChanged, ValueTypes
<1>d. Loops \subseteq Goroutines /\ "ticker" \in Goroutines /\ "stopper" \in Goroutines
      /\ "inbound" \in Loops /\ "outbound" \in Loops
  BY DEF Loops, Goroutines
<1> HIDE DEF Goto
<1> USE <1>d DEF ValueTypes, flags, calls, locals, poll, apps
<1>1. CASE BeginPoll \/ Unpark \/ BeginDelivery
  BY <1>1, <1>b DEF BeginPoll, Unpark, BeginDelivery, PCs
<1>2. CASE PollReturns \/ DeliveryReturns
  BY <1>2, <1>b, StatusAssumption
     DEF PollReturns, DeliveryReturns, Happens, PCs, AllPollResults, AllDeliveryResults
<1>3. CASE ClearRejection
  BY <1>3, <1>a, <1>b DEF ClearRejection, SetTokenRejected, PCs
<1>4. CASE FinishPollSuccess
  BY <1>4, <1>a, <1>b, <1>0 DEF FinishPollSuccess, SetPollingDegraded, PCs
<1>5. CASE DegradePolling
  BY <1>5, <1>a, <1>b, <1>c DEF DegradePolling, SetPollingDegraded, PCs
<1>6. CASE FinishPollError
  BY <1>6, <1>0, <1>b DEF FinishPollError, PCs
<1>7. CASE SetOutbound
  BY <1>7, <1>a, <1>b, <1>c DEF SetOutbound, SetOutboundDegraded, PCs
<1>8. CASE Tick \/ Interrupt \/ Cancel \/ MinutePasses
  BY <1>8, <1>b, <1>c DEF Tick, Interrupt, Cancel, MinutePasses, PCs
<1>9. CASE ApplyLate
  BY <1>9 DEF ApplyLate
<1>10. ASSUME NEW g \in Loops, ReadRejected(g) PROVE ValueTypes'
  BY <1>10, <1>b DEF ReadRejected, PCs
<1>11. ASSUME NEW g \in Loops, RejectToken(g) PROVE ValueTypes'
  BY <1>11, <1>a, <1>b, <1>c DEF RejectToken, SetTokenRejected, PCs
<1>12. ASSUME NEW g \in Loops, AuditRejection(g) PROVE ValueTypes'
  BY <1>12, <1>0, <1>b DEF AuditRejection, PCs
<1>13. ASSUME NEW g \in Goroutines, TakeSnapshot(g) PROVE ValueTypes'
  BY <1>13 DEF TakeSnapshot, Snapshot
<1>14. ASSUME NEW g \in Goroutines, SendReport(g) PROVE ValueTypes'
  BY <1>14 DEF SendReport, Snapshot, Fresh, States
<1>15. CASE ReportStop
  BY <1>15, <1>a, <1>b, <1>c DEF ReportStop, SetStopped, PCs
<1> QED
  BY <1>1, <1>2, <1>3, <1>4, <1>5, <1>6, <1>7, <1>8, <1>9, <1>10, <1>11, <1>12, <1>13, <1>14, <1>15
     DEF Next, Inbound, Outbound, Reporting

-----------------------------------------------------------------------------
(* What a step may do to the flags and to the reports *)

\* A step leaves the flags alone, or derives the state from them again.
LEMMA StateStep == Next => UNCHANGED flags \/ UpdateState
<1> SUFFICES ASSUME Next PROVE UNCHANGED flags \/ UpdateState
  OBVIOUS
<1>1. CASE Inbound
  BY <1>1 DEF Inbound, BeginPoll, PollReturns, Unpark, ClearRejection, SetTokenRejected,
     FinishPollSuccess, DegradePolling, SetPollingDegraded, FinishPollError
<1>2. CASE Outbound
  BY <1>2 DEF Outbound, BeginDelivery, DeliveryReturns, SetOutbound, SetOutboundDegraded
<1>3. CASE \E g \in Loops : ReadRejected(g) \/ RejectToken(g) \/ AuditRejection(g)
  BY <1>3 DEF ReadRejected, RejectToken, SetTokenRejected, AuditRejection
<1>4. CASE Tick \/ Interrupt \/ Cancel \/ ApplyLate \/ MinutePasses
  BY <1>4 DEF Tick, Interrupt, Cancel, ApplyLate, MinutePasses
<1>5. CASE \E g \in Goroutines : Reporting(g)
  BY <1>5 DEF Reporting, TakeSnapshot, SendReport
<1>6. CASE ReportStop
  BY <1>6 DEF ReportStop, SetStopped
<1> QED
  BY <1>1, <1>2, <1>3, <1>4, <1>5, <1>6 DEF Next

\* The state changes exactly when the version grows.
LEMMA VersionStep ==
  ASSUME TypeOK, Next
  PROVE  /\ (state' = state /\ version' = version) \/ version' = version + 1
         /\ version \in Nat /\ version' \in Nat /\ version' >= version
  BY StateStep DEF TypeOK, UpdateState, flags

LEMMA DerivedStep == StateDerived /\ Next => StateDerived'
  BY StateStep DEF StateDerived, UpdateState, flags

\* No report begins or ends: at most, Report is called.
Quiet ==
  /\ UNCHANGED <<snapshot, reportMu, faults>>
  /\ \A g \in Goroutines :
       report'[g] = report[g] \/ (report[g] = "none" /\ report'[g] = "due")
  /\ UNCHANGED apps \/ ApplyLate

LEMMA CallsStep ==
  ASSUME TypeOK, Next
  PROVE  Quiet \/ \E g \in Goroutines : TakeSnapshot(g) \/ SendReport(g)
<1>1. report \in [Goroutines -> {"none", "due", "sending"}]
  BY DEF TypeOK
<1>2. "inbound" \in Goroutines /\ "outbound" \in Goroutines
      /\ "ticker" \in Goroutines /\ "stopper" \in Goroutines /\ Loops \subseteq Goroutines
  BY DEF Goroutines, Loops
<1> USE <1>1, <1>2 DEF Quiet, calls, At, CallReport, ReportIfChanged
<1>3. CASE BeginPoll \/ PollReturns \/ Unpark \/ FinishPollError \/ ClearRejection
  BY <1>3 DEF BeginPoll, PollReturns, Unpark, FinishPollError, ClearRejection
<1>4. CASE FinishPollSuccess \/ DegradePolling
  BY <1>4 DEF FinishPollSuccess, DegradePolling
<1>5. CASE Outbound
  BY <1>5 DEF Outbound, BeginDelivery, DeliveryReturns, SetOutbound
<1>6. CASE \E g \in Loops : ReadRejected(g) \/ RejectToken(g) \/ AuditRejection(g)
  BY <1>6 DEF ReadRejected, RejectToken, AuditRejection
<1>7. CASE Tick \/ Interrupt \/ ReportStop \/ Cancel \/ MinutePasses
  BY <1>7 DEF Tick, Interrupt, ReportStop, Cancel, MinutePasses
<1>8. CASE ApplyLate
  BY <1>8 DEF ApplyLate
<1> QED
  BY <1>3, <1>4, <1>5, <1>6, <1>7, <1>8 DEF Next, Inbound, Reporting

\* A context that has ended stays so, and the manager ends it last.
LEMMA EndStep ==
  ASSUME TypeOK, Next
  PROVE  /\ cancelled => cancelled' /\ ended' = ended
         /\ ended' = ended \/ Interrupt \/ Cancel
<1>1. CASE Inbound \/ Outbound \/ Tick
  BY <1>1 DEF Inbound, Outbound, BeginPoll, PollReturns, Unpark, ClearRejection,
     FinishPollSuccess, DegradePolling, FinishPollError, BeginDelivery, DeliveryReturns,
     SetOutbound, Tick, cancelled
<1>2. CASE \/ \E g \in Loops : ReadRejected(g) \/ RejectToken(g) \/ AuditRejection(g)
           \/ \E g \in Goroutines : Reporting(g)
           \/ ReportStop \/ ApplyLate \/ MinutePasses
  BY <1>2 DEF ReadRejected, RejectToken, AuditRejection, Reporting, TakeSnapshot, SendReport,
     ReportStop, ApplyLate, MinutePasses, cancelled
<1>3. CASE Interrupt \/ Cancel
  BY <1>3 DEF Interrupt, Cancel, cancelled
<1> QED
  BY <1>1, <1>2, <1>3 DEF Next

-----------------------------------------------------------------------------
(* Reports *)

LEMMA LockedStep == TypeOK /\ Locked /\ Next => Locked'
<1> SUFFICES ASSUME TypeOK, Locked, Next PROVE Locked'
  OBVIOUS
<1>1. /\ report \in [Goroutines -> {"none", "due", "sending"}]
      /\ \A g \in Goroutines : g # "free"
  BY DEF TypeOK, Goroutines, Loops
<1>2. CASE Quiet
  BY <1>1, <1>2 DEF Quiet, Locked
<1>3. ASSUME NEW g \in Goroutines, TakeSnapshot(g) PROVE Locked'
  BY <1>1, <1>3 DEF TakeSnapshot, Locked
<1>4. ASSUME NEW g \in Goroutines, SendReport(g) PROVE Locked'
  BY <1>1, <1>4 DEF SendReport, Locked
<1> QED
  BY <1>2, <1>3, <1>4, CallsStep

LEMMA FresherStep == TypeOK /\ Locked /\ Fresher /\ Next => Fresher'
<1> SUFFICES ASSUME TypeOK, Locked, Fresher, Next PROVE Fresher'
  OBVIOUS
<1>1. /\ report \in [Goroutines -> {"none", "due", "sending"}]
      /\ snapshot \in [Goroutines -> Snapshot]
      /\ shown.version \in Nat
      /\ \A g \in Goroutines : snapshot[g].version \in Nat
  BY DEF TypeOK, Snapshot
<1>2. /\ version \in Nat /\ version' \in Nat /\ version' >= version
      /\ ~cancelled' => ~cancelled
  BY VersionStep, EndStep
<1>3. CASE Quiet
  <2>1. ~cancelled' => UNCHANGED apps
    BY <1>2, <1>3 DEF Quiet, ApplyLate, Fresher
  <2> QED
    BY <1>1, <1>2, <1>3, <2>1 DEF Quiet, Fresher, apps
<1>4. ASSUME NEW g \in Goroutines, TakeSnapshot(g) PROVE Fresher'
  <2>1. /\ version' = version /\ UNCHANGED apps
        /\ report'[g] = "sending" /\ snapshot'[g].version = version
        /\ \A h \in Goroutines \ {g} : report'[h] = report[h] /\ snapshot'[h] = snapshot[h]
    BY <1>1, <1>4 DEF TakeSnapshot, flags
  <2> QED
    BY <1>1, <1>2, <2>1 DEF Fresher, apps
<1>5. ASSUME NEW g \in Goroutines, SendReport(g) PROVE Fresher'
  <2>1. \A h \in Goroutines : report'[h] # "sending"
    BY <1>1, <1>5 DEF SendReport, Locked
  <2>2. ~cancelled => wire' = wire /\ (shown' = shown \/ shown' = snapshot[g])
    BY <1>5 DEF SendReport
  <2>3. report[g] = "sending" /\ version' = version
    BY <1>5 DEF SendReport, flags
  <2> QED
    BY <1>1, <1>2, <2>1, <2>2, <2>3 DEF Fresher
<1> QED
  BY <1>3, <1>4, <1>5, CallsStep

\* A change of state, and one that handlePollSuccess remembers, leads to a report.
LEMMA OwedStep ==
  ASSUME TypeOK, Remembered, Next, state' # state \/ stateChanged
  PROVE  stateChanged' \/ \E g \in Goroutines : report'[g] = "due"
<1>1. report \in [Goroutines -> {"none", "due", "sending"}]
  BY DEF TypeOK
<1>2. "inbound" \in Goroutines /\ "outbound" \in Goroutines
      /\ "stopper" \in Goroutines /\ Loops \subseteq Goroutines
  BY DEF Goroutines, Loops
<1> USE <1>1, <1>2 DEF CallReport, ReportIfChanged, flags, locals
<1>3. CASE BeginPoll \/ PollReturns \/ Unpark \/ FinishPollError
  BY <1>3 DEF BeginPoll, PollReturns, Unpark, FinishPollError
<1>4. CASE ClearRejection
  BY <1>4 DEF ClearRejection, Remembered, At
<1>5. CASE FinishPollSuccess
  BY <1>5 DEF FinishPollSuccess
<1>6. CASE DegradePolling
  BY <1>6 DEF DegradePolling
<1>7. CASE Outbound
  BY <1>7 DEF Outbound, BeginDelivery, DeliveryReturns, SetOutbound
<1>8. ASSUME NEW g \in Loops, ReadRejected(g) \/ RejectToken(g) \/ AuditRejection(g)
      PROVE  stateChanged' \/ \E h \in Goroutines : report'[h] = "due"
  <2>1. CASE RejectToken(g)
    <3>1. ReportIfChanged(g) /\ stateChanged' = stateChanged
      BY <2>1 DEF RejectToken
    <3> QED
      BY <3>1
  <2>2. CASE ReadRejected(g) \/ AuditRejection(g)
    BY <2>2 DEF ReadRejected, AuditRejection
  <2> QED
    BY <1>8, <2>1, <2>2
<1>9. CASE Tick \/ Interrupt \/ Cancel \/ ApplyLate \/ MinutePasses
  BY <1>9 DEF Tick, Interrupt, Cancel, ApplyLate, MinutePasses
<1>10. CASE \E g \in Goroutines : Reporting(g)
  BY <1>10 DEF Reporting, TakeSnapshot, SendReport
<1>11. CASE ReportStop
  BY <1>11 DEF ReportStop
<1> QED
  BY <1>3, <1>4, <1>5, <1>6, <1>7, <1>8, <1>9, <1>10, <1>11 DEF Next, Inbound

LEMMA ReportedStep ==
  TypeOK /\ Locked /\ Fresher /\ Remembered /\ ChangeIsReported /\ Next => ChangeIsReported'
<1> SUFFICES ASSUME TypeOK, Locked, Fresher, Remembered, ChangeIsReported, Next
             PROVE  ChangeIsReported'
  OBVIOUS
<1>1. /\ report \in [Goroutines -> {"none", "due", "sending"}]
      /\ snapshot \in [Goroutines -> Snapshot]
      /\ shown.version \in Nat
      /\ faults \in Nat
      /\ \A g \in Goroutines : snapshot[g].version \in Nat
  BY DEF TypeOK, Snapshot
<1>2. CASE cancelled
  BY <1>2, EndStep DEF ChangeIsReported
<1>3. CASE state' # state \/ stateChanged
  BY <1>3, OwedStep DEF ChangeIsReported
<1>4. CASE ~cancelled /\ state' = state /\ ~stateChanged
  <2>1. version' = version \/ state' # state
    BY StateStep DEF UpdateState, flags
  <2>2. version' = version
    BY <1>4, <2>1
  <2>3. CASE Quiet
    <3>1. UNCHANGED apps
      BY <1>4, <2>3 DEF Quiet, ApplyLate, Fresher
    <3> QED
      BY <1>1, <1>4, <2>2, <2>3, <3>1 DEF Quiet, ChangeIsReported, apps
  <2>4. ASSUME NEW g \in Goroutines, TakeSnapshot(g) PROVE ChangeIsReported'
    BY <1>1, <2>2, <2>4 DEF TakeSnapshot, ChangeIsReported
  <2>5. ASSUME NEW g \in Goroutines, SendReport(g) PROVE ChangeIsReported'
    <3>1. shown' = snapshot[g] \/ faults' = faults + 1
      BY <1>4, <2>5 DEF SendReport
    <3>2. CASE faults' = faults + 1
      BY <1>1, <3>2 DEF ChangeIsReported
    <3>3. CASE shown' = snapshot[g]
      <4>1. /\ report[g] = "sending"
            /\ \A h \in Goroutines : report[h] = "sending" => h = g
            /\ \A h \in Goroutines : report[h] = "due" => report'[h] = "due"
            /\ faults' >= faults
        BY <1>1, <2>5 DEF SendReport, Locked
      <4>2. /\ version \in Nat
            /\ shown.version <= snapshot[g].version /\ snapshot[g].version <= version
        BY <1>4, <4>1, VersionStep DEF Fresher
      <4>3. CASE shown.version = version
        BY <1>1, <2>2, <3>3, <4>2, <4>3 DEF ChangeIsReported
      <4>4. CASE \E h \in Goroutines : report[h] = "due"
        BY <4>1, <4>4 DEF ChangeIsReported
      <4>5. CASE \E h \in Goroutines : report[h] = "sending" /\ snapshot[h].version = version
        BY <2>2, <3>3, <4>1, <4>5 DEF ChangeIsReported
      <4>6. CASE faults > 0
        <5>1. faults' \in Nat
          BY <1>1, <2>5 DEF SendReport
        <5> QED
          BY <1>1, <4>1, <4>6, <5>1 DEF ChangeIsReported
      <4> QED
        BY <1>4, <4>3, <4>4, <4>5, <4>6 DEF ChangeIsReported
    <3> QED
      BY <3>1, <3>2, <3>3
  <2> QED
    BY <2>3, <2>4, <2>5, CallsStep
<1> QED
  BY <1>2, <1>3, <1>4

-----------------------------------------------------------------------------
(* The loops and the rejected token *)

LoopParts == Remembered /\ Parked /\ RejectedByPoll /\ FoundStays

LEMMA LoopsStep == TypeOK /\ LoopParts /\ Next => LoopParts'
<1> SUFFICES ASSUME TypeOK, LoopParts, Next PROVE LoopParts'
  OBVIOUS
<1>1. /\ pc \in [Goroutines -> PCs]
      /\ wasRejected \in [Loops -> BOOLEAN]
      /\ tokenRejected \in BOOLEAN
  BY DEF TypeOK
<1>2. /\ "inbound" \in Goroutines /\ "outbound" \in Goroutines
      /\ "ticker" \in Goroutines /\ "stopper" \in Goroutines
      /\ Loops = {"inbound", "outbound"} /\ Loops \subseteq Goroutines
  BY DEF Goroutines, Loops
<1>3. Remembered /\ Parked /\ RejectedByPoll /\ FoundStays
  BY DEF LoopParts
<1> USE <1>1, <1>2, <1>3 DEF At, Goto, flags, locals
<1> USE DEF LoopParts, Remembered, Parked, RejectedByPoll, FoundStays
<1>4. CASE BeginPoll
  BY <1>4 DEF BeginPoll
<1>5. CASE PollReturns
  BY <1>5, StatusAssumption DEF PollReturns, AllPollResults
<1>6. CASE Unpark
  BY <1>6 DEF Unpark
<1>7. CASE ClearRejection
  BY <1>7 DEF ClearRejection, SetTokenRejected
<1>8. CASE FinishPollSuccess
  BY <1>8 DEF FinishPollSuccess, SetPollingDegraded
<1>9. CASE DegradePolling
  BY <1>9 DEF DegradePolling, SetPollingDegraded
<1>10. CASE FinishPollError
  BY <1>10 DEF FinishPollError
<1>11. CASE BeginDelivery
  BY <1>11 DEF BeginDelivery
<1>12. CASE DeliveryReturns
  BY <1>12, StatusAssumption DEF DeliveryReturns, AllDeliveryResults
<1>13. CASE SetOutbound
  BY <1>13 DEF SetOutbound, SetOutboundDegraded
<1>14. ASSUME NEW g \in Loops, ReadRejected(g) PROVE LoopParts'
  BY <1>14 DEF ReadRejected
<1>15. ASSUME NEW g \in Loops, RejectToken(g) PROVE LoopParts'
  BY <1>15 DEF RejectToken, SetTokenRejected
<1>16. ASSUME NEW g \in Loops, AuditRejection(g) PROVE LoopParts'
  BY <1>16 DEF AuditRejection
<1>17. CASE Tick
  BY <1>17 DEF Tick
<1>18. CASE ReportStop
  BY <1>18 DEF ReportStop, SetStopped
<1>19. CASE Cancel
  BY <1>19 DEF Cancel
<1>20. CASE Interrupt \/ ApplyLate \/ MinutePasses
  BY <1>20 DEF Interrupt, ApplyLate, MinutePasses
<1>21. ASSUME NEW g \in Goroutines, Reporting(g) PROVE LoopParts'
  BY <1>21 DEF Reporting, TakeSnapshot, SendReport
<1> QED
  BY <1>4, <1>5, <1>6, <1>7, <1>8, <1>9, <1>10, <1>11, <1>12, <1>13, <1>14, <1>15, <1>16,
     <1>17, <1>18, <1>19, <1>20, <1>21 DEF Next, Inbound, Outbound

-----------------------------------------------------------------------------
(* The audit trail *)

Entries == {"token_rejected", "unreachable", "recovered"}

LEMMA CountType ==
  ASSUME TypeOK, NEW f \in Entries
  PROVE  /\ IsFiniteSet({i \in DOMAIN audit : audit[i] = f})
         /\ Count(f) \in Nat
<1> DEFINE S == {i \in DOMAIN audit : audit[i] = f}
<1>1. DOMAIN audit = 1 .. Len(audit) /\ Len(audit) \in Nat
  BY DEF TypeOK
<1>2. S \subseteq DOMAIN audit
  OBVIOUS
<1>3. Count(f) = Cardinality(S)
  BY DEF Count
<1> HIDE DEF S
<1>4. IsFiniteSet(1 .. Len(audit))
  BY <1>1, FS_Interval
<1>5. IsFiniteSet(S)
  BY <1>1, <1>2, <1>4, FS_Subset
<1>6. Cardinality(S) \in Nat
  BY <1>5, FS_CardinalityType
<1> QED
  BY <1>3, <1>5, <1>6 DEF S

\* One more entry is one more of its kind, and the last about reachability.
LEMMA AppendCounts ==
  ASSUME TypeOK, NEW e \in Entries, audit' = Append(audit, e)
  PROVE  /\ \A f \in Entries : Count(f)' = Count(f) + (IF f = e THEN 1 ELSE 0)
         /\ Len(audit) + 1 \notin OutageEntries
         /\ \A i \in OutageEntries :
              i \in Nat /\ i < Len(audit) + 1 /\ audit'[i] = audit[i]
         /\ audit'[Len(audit) + 1] = e
         /\ OutageEntries' = IF e = "token_rejected" THEN OutageEntries
                             ELSE OutageEntries \cup {Len(audit) + 1}
<1> DEFINE n == Len(audit)
           At0(f) == {i \in DOMAIN audit : audit[i] = f}
           At1(f) == {i \in DOMAIN audit' : audit'[i] = f}
<1>1. /\ audit \in Seq(Entries) /\ audit' \in Seq(Entries)
      /\ n \in Nat /\ DOMAIN audit = 1 .. n /\ DOMAIN audit' = 1 .. n + 1
      /\ \A i \in 1 .. n : audit'[i] = audit[i]
      /\ audit'[n + 1] = e
  BY AppendProperties DEF TypeOK, Entries
<1>2. n + 1 \notin 1 .. n /\ 1 .. n + 1 = (1 .. n) \cup {n + 1}
  BY <1>1
<1> HIDE DEF n
<1>3. ASSUME NEW f \in Entries
      PROVE  Count(f)' = Count(f) + (IF f = e THEN 1 ELSE 0)
  <2>1. IsFiniteSet(At0(f)) /\ n + 1 \notin At0(f)
    BY <1>1, <1>2, CountType
  <2>2. Cardinality(At0(f)) \in Nat
    BY <2>1, FS_CardinalityType
  <2>3. At1(f) = IF f = e THEN At0(f) \cup {n + 1} ELSE At0(f)
    BY <1>1, <1>2
  <2>4. Cardinality(At0(f) \cup {n + 1}) = Cardinality(At0(f)) + 1
    <3> HIDE DEF At0
    <3> QED
      BY <2>1, FS_AddElement
  <2>5. Count(f) = Cardinality(At0(f)) /\ Count(f)' = Cardinality(At1(f))
    BY DEF Count
  <2> HIDE DEF At0, At1
  <2> QED
    BY <2>2, <2>3, <2>4, <2>5
<1>4. OutageEntries = {i \in 1 .. n : audit[i] # "token_rejected"}
  BY <1>1 DEF OutageEntries
<1>5. OutageEntries' = {i \in 1 .. n + 1 : audit'[i] # "token_rejected"}
  BY <1>1 DEF OutageEntries
<1>6. OutageEntries' = IF e = "token_rejected" THEN OutageEntries
                       ELSE OutageEntries \cup {n + 1}
  BY <1>1, <1>2, <1>4, <1>5
<1> QED
  BY <1>1, <1>2, <1>3, <1>4, <1>6 DEF n

\* What a step may do to the trail: nothing, or an entry while the worker runs.
LEMMA AuditStep ==
  ASSUME TypeOK, Next
  PROVE  \/ UNCHANGED audit
         \/ ~cancelled /\ \E e \in Entries : audit' = Append(audit, e)
<1>1. CASE Inbound
  BY <1>1 DEF Inbound, BeginPoll, PollReturns, Unpark, ClearRejection, FinishPollSuccess,
     DegradePolling, FinishPollError, AppendAudit, Entries
<1>2. CASE Outbound \/ Tick \/ Interrupt \/ ReportStop \/ Cancel \/ ApplyLate \/ MinutePasses
  BY <1>2 DEF Outbound, BeginDelivery, DeliveryReturns, SetOutbound, Tick, Interrupt, ReportStop,
     Cancel, ApplyLate, MinutePasses
<1>3. CASE \E g \in Loops : ReadRejected(g) \/ RejectToken(g) \/ AuditRejection(g)
  BY <1>3 DEF ReadRejected, RejectToken, AuditRejection, AppendAudit, Entries
<1>4. CASE \E g \in Goroutines : Reporting(g)
  BY <1>4 DEF Reporting, TakeSnapshot, SendReport
<1> QED
  BY <1>1, <1>2, <1>3, <1>4 DEF Next

\* A step outside handleTokenRejected owes nothing more, and adds no episode.
LEMMA OwesStep ==
  ASSUME TypeOK, Next, \A g \in Loops : ~RejectToken(g) /\ ~AuditRejection(g)
  PROVE  \A g \in Loops : Owes(g)' = Owes(g) /\ episodes' = episodes
<1>1. /\ pc \in [Goroutines -> PCs]
      /\ wasRejected \in [Loops -> BOOLEAN]
  BY DEF TypeOK
<1>2. /\ "inbound" \in Goroutines /\ "outbound" \in Goroutines
      /\ "ticker" \in Goroutines /\ "stopper" \in Goroutines
      /\ Loops = {"inbound", "outbound"} /\ Loops \subseteq Goroutines
  BY DEF Goroutines, Loops
<1> USE <1>1, <1>2 DEF At, Goto, locals, Owes
<1>3. CASE BeginPoll \/ Unpark \/ BeginDelivery
  BY <1>3 DEF BeginPoll, Unpark, BeginDelivery
<1>4. CASE PollReturns \/ DeliveryReturns
  BY <1>4, StatusAssumption
     DEF PollReturns, DeliveryReturns, AllPollResults, AllDeliveryResults
<1>5. CASE ClearRejection
  BY <1>5 DEF ClearRejection, SetTokenRejected
<1>6. CASE FinishPollSuccess \/ DegradePolling
  BY <1>6 DEF FinishPollSuccess, DegradePolling, SetPollingDegraded
<1>7. CASE FinishPollError
  BY <1>7 DEF FinishPollError
<1>8. CASE SetOutbound
  BY <1>8 DEF SetOutbound, SetOutboundDegraded
<1>9. ASSUME NEW g \in Loops, ReadRejected(g)
      PROVE  \A h \in Loops : Owes(h)' = Owes(h) /\ episodes' = episodes
  BY <1>9 DEF ReadRejected
<1>10. CASE Tick \/ ReportStop \/ Cancel
  BY <1>10 DEF Tick, ReportStop, SetStopped, Cancel
<1>11. CASE Interrupt \/ ApplyLate \/ MinutePasses
  BY <1>11 DEF Interrupt, ApplyLate, MinutePasses
<1>12. CASE \E g \in Goroutines : Reporting(g)
  BY <1>12 DEF Reporting, TakeSnapshot, SendReport
<1> QED
  BY <1>3, <1>4, <1>5, <1>6, <1>7, <1>8, <1>9, <1>10, <1>11, <1>12 DEF Next, Inbound, Outbound

LEMMA CountedStep ==
  TypeOK /\ FoundStays /\ RejectionsCounted /\ Next => RejectionsCounted'
<1> SUFFICES ASSUME TypeOK, FoundStays, RejectionsCounted, Next, ~cancelled'
             PROVE  episodes' <= Count("token_rejected")' + Owes("inbound")' + Owes("outbound")'
  BY DEF RejectionsCounted
<1>1. /\ ~cancelled
      /\ episodes <= Count("token_rejected") + Owes("inbound") + Owes("outbound")
  BY EndStep DEF RejectionsCounted
<1>2. /\ Count("token_rejected") \in Nat /\ episodes \in Nat
      /\ Owes("inbound") \in {0, 1} /\ Owes("outbound") \in {0, 1}
  BY CountType DEF Entries, Owes, TypeOK
<1>3. /\ pc \in [Goroutines -> PCs]
      /\ wasRejected \in [Loops -> BOOLEAN]
      /\ Loops = {"inbound", "outbound"} /\ Loops \subseteq Goroutines
  BY DEF TypeOK, Loops, Goroutines
<1>4. /\ Count("token_rejected")' >= Count("token_rejected")
      /\ Count("token_rejected")' \in Nat
  <2>1. CASE UNCHANGED audit
    BY <1>2, <2>1 DEF Count
  <2>2. ASSUME NEW e \in Entries, audit' = Append(audit, e)
        PROVE  /\ Count("token_rejected")' >= Count("token_rejected")
               /\ Count("token_rejected")' \in Nat
    <3>1. Count("token_rejected")'
            = Count("token_rejected") + (IF "token_rejected" = e THEN 1 ELSE 0)
      BY <2>2, AppendCounts DEF Entries
    <3> QED
      BY <1>2, <3>1
  <2> QED
    BY <2>1, <2>2, AuditStep
<1>5. ASSUME NEW g \in Loops, RejectToken(g)
      PROVE  episodes' <= Count("token_rejected")' + Owes("inbound")' + Owes("outbound")'
  <2>1. /\ pc[g] = "rejecting" /\ pc' = [pc EXCEPT ![g] = "rejected"]
        /\ wasRejected' = wasRejected
        /\ episodes' = IF ~tokenRejected THEN episodes + 1 ELSE episodes
    BY <1>5 DEF RejectToken, SetTokenRejected, At, Goto, locals
  <2>2. \A h \in Loops \ {g} : Owes(h)' = Owes(h)
    BY <1>3, <2>1 DEF Owes
  <2>3. Owes(g) = 0 /\ Owes(g)' \in {0, 1}
    BY <2>1 DEF Owes
  <2>4. CASE tokenRejected
    BY <1>1, <1>2, <1>3, <1>4, <2>1, <2>2, <2>3, <2>4
  <2>5. CASE ~tokenRejected
    <3>1. ~wasRejected[g]
      BY <2>1, <2>5 DEF FoundStays
    <3>2. Owes(g)' = 1
      BY <1>3, <2>1, <3>1 DEF Owes
    <3> QED
      BY <1>1, <1>2, <1>3, <1>4, <2>1, <2>2, <2>3, <3>2
  <2> QED
    BY <2>4, <2>5
<1>6. ASSUME NEW g \in Loops, AuditRejection(g)
      PROVE  episodes' <= Count("token_rejected")' + Owes("inbound")' + Owes("outbound")'
  <2>1. /\ pc[g] = "rejected" /\ episodes' = episodes
        /\ \E p \in {"unsent", "run"} : pc' = [pc EXCEPT ![g] = p]
        /\ wasRejected' = [wasRejected EXCEPT ![g] = FALSE]
    BY <1>6 DEF AuditRejection, At, Goto
  <2>2. \A h \in Loops \ {g} : Owes(h)' = Owes(h)
    BY <1>3, <2>1 DEF Owes
  <2>3. Owes(g)' = 0
    BY <1>3, <2>1 DEF Owes
  <2>4. CASE wasRejected[g]
    <3>1. Owes(g) = 0
      BY <2>4 DEF Owes
    <3> QED
      BY <1>1, <1>2, <1>3, <1>4, <2>1, <2>2, <2>3, <3>1
  <2>5. CASE ~wasRejected[g]
    <3>1. audit' = Append(audit, "token_rejected")
      BY <1>1, <1>6, <2>5 DEF AuditRejection, AppendAudit
    <3>2. Count("token_rejected")' = Count("token_rejected") + 1
      BY <3>1, AppendCounts DEF Entries
    <3> QED
      BY <1>1, <1>2, <1>3, <2>1, <2>2, <2>3, <3>2
  <2> QED
    BY <2>4, <2>5
<1>7. CASE \A g \in Loops : ~RejectToken(g) /\ ~AuditRejection(g)
  <2>1. /\ Owes("inbound")' = Owes("inbound") /\ Owes("outbound")' = Owes("outbound")
        /\ episodes' = episodes
    BY <1>3, <1>7, OwesStep
  <2> QED
    BY <1>1, <1>2, <1>4, <2>1
<1> QED
  BY <1>5, <1>6, <1>7

\* What a step may do to the flag telegramUnreachable.
LEMMA OutageStep ==
  ASSUME TypeOK, Next, ~cancelled
  PROVE  \/ unreachable' = unreachable /\ audit' = audit
         \/ unreachable' = unreachable /\ audit' = Append(audit, "token_rejected")
         \/ unreachable /\ ~unreachable' /\ audit' = Append(audit, "recovered")
         \/ ~unreachable /\ unreachable' /\ audit' = Append(audit, "unreachable")
<1> USE DEF poll, AppendAudit
<1>0. unreachable \in BOOLEAN
  BY DEF TypeOK
<1>1. CASE BeginPoll \/ PollReturns \/ Unpark \/ ClearRejection \/ DegradePolling
  BY <1>1 DEF BeginPoll, PollReturns, Unpark, ClearRejection, DegradePolling
<1>2. CASE FinishPollSuccess
  BY <1>0, <1>2 DEF FinishPollSuccess
<1>3. CASE FinishPollError
  BY <1>0, <1>3 DEF FinishPollError
<1>4. CASE Outbound \/ Tick \/ Interrupt \/ ReportStop \/ Cancel \/ ApplyLate \/ MinutePasses
  BY <1>4 DEF Outbound, BeginDelivery, DeliveryReturns, SetOutbound, Tick, Interrupt, ReportStop,
     Cancel, ApplyLate, MinutePasses
<1>5. ASSUME NEW g \in Loops, ReadRejected(g) \/ RejectToken(g)
      PROVE  unreachable' = unreachable /\ audit' = audit
  BY <1>5 DEF ReadRejected, RejectToken
<1>6. ASSUME NEW g \in Loops, AuditRejection(g)
      PROVE  /\ unreachable' = unreachable
             /\ audit' = audit \/ audit' = Append(audit, "token_rejected")
  BY <1>6 DEF AuditRejection
<1>7. CASE \E g \in Goroutines : Reporting(g)
  BY <1>7 DEF Reporting, TakeSnapshot, SendReport
<1> QED
  BY <1>1, <1>2, <1>3, <1>4, <1>5, <1>6, <1>7 DEF Next, Inbound

LEMMA LastOutageStep == TypeOK /\ LastOutage /\ Next => LastOutage'
<1> SUFFICES ASSUME TypeOK, LastOutage, Next, ~cancelled' PROVE LastOutage'
  BY DEF LastOutage
<1>1. ~cancelled
  BY EndStep
<1>2. CASE unreachable' = unreachable /\ audit' = audit
  BY <1>1, <1>2 DEF LastOutage, OutageEntries
<1>3. CASE unreachable' = unreachable /\ audit' = Append(audit, "token_rejected")
  <2>1. OutageEntries' = OutageEntries /\ \A i \in OutageEntries : audit'[i] = audit[i]
    BY <1>3, AppendCounts DEF Entries
  <2> QED
    BY <1>1, <1>3, <2>1 DEF LastOutage
<1>4. ASSUME NEW e \in {"recovered", "unreachable"}, audit' = Append(audit, e),
             unreachable' <=> e = "unreachable"
      PROVE  LastOutage'
  <2> DEFINE n == Len(audit) + 1
  <2>1. /\ OutageEntries' = OutageEntries \cup {n} /\ audit'[n] = e
        /\ \A i \in OutageEntries : i \in Nat /\ i < n
    BY <1>4, AppendCounts DEF Entries
  <2>2. n \in Nat
    BY DEF TypeOK
  <2> HIDE DEF n
  <2>3. \A k \in OutageEntries' : k <= n
    BY <2>1, <2>2
  <2>4. \A i \in OutageEntries' : (\A k \in OutageEntries' : k <= i) => i = n
    BY <2>1, <2>2
  <2> QED
    BY <1>4, <2>1, <2>3, <2>4 DEF LastOutage
<1>5. CASE ~unreachable' /\ audit' = Append(audit, "recovered")
  BY <1>4, <1>5
<1>6. CASE unreachable' /\ audit' = Append(audit, "unreachable")
  BY <1>4, <1>6
<1> QED
  BY <1>1, <1>2, <1>3, <1>5, <1>6, OutageStep

LEMMA PairedStep ==
  TypeOK /\ LastOutage /\ OutageEntriesPaired /\ Next => OutageEntriesPaired'
<1> SUFFICES ASSUME TypeOK, LastOutage, OutageEntriesPaired, Next PROVE OutageEntriesPaired'
  OBVIOUS
<1>1. CASE UNCHANGED audit
  BY <1>1 DEF OutageEntriesPaired, OutageEntries
<1>2. CASE ~cancelled /\ audit' = Append(audit, "token_rejected")
  <2>1. OutageEntries' = OutageEntries /\ \A i \in OutageEntries : audit'[i] = audit[i]
    BY <1>2, AppendCounts DEF Entries
  <2> QED
    BY <2>1 DEF OutageEntriesPaired
<1>3. ASSUME NEW e \in {"recovered", "unreachable"}, ~cancelled, audit' = Append(audit, e),
             \/ e = "recovered" /\ unreachable
             \/ e = "unreachable" /\ ~unreachable
      PROVE  OutageEntriesPaired'
  <2> DEFINE n == Len(audit) + 1
  <2>1. /\ OutageEntries' = OutageEntries \cup {n} /\ audit'[n] = e
        /\ \A i \in OutageEntries : i \in Nat /\ i < n /\ audit'[i] = audit[i]
    BY <1>3, AppendCounts DEF Entries
  <2>2. n \in Nat
    BY DEF TypeOK
  <2> HIDE DEF n
  <2>3. ASSUME NEW j \in OutageEntries
        PROVE  /\ (\A i \in OutageEntries' : j <= i) => audit'[j] = "unreachable"
               /\ \A i \in OutageEntries' :
                    i < j /\ (\A k \in OutageEntries' : k <= i \/ j <= k)
                      => audit'[i] # audit'[j]
    BY <2>1, <2>2, <2>3 DEF OutageEntriesPaired
  <2>4. (\A i \in OutageEntries' : n <= i) => audit'[n] = "unreachable"
    <3>1. SUFFICES ASSUME \A i \in OutageEntries' : n <= i PROVE e = "unreachable"
      BY <2>1
    <3>2. OutageEntries = {}
      BY <2>1, <2>2, <3>1
    <3> QED
      BY <1>3, <3>2 DEF LastOutage
  <2>5. ASSUME NEW i \in OutageEntries', i < n, \A k \in OutageEntries' : k <= i \/ n <= k
        PROVE  audit'[i] # audit'[n]
    <3>1. /\ i \in OutageEntries /\ audit'[i] = audit[i]
          /\ \A k \in OutageEntries : k <= i
      BY <2>1, <2>2, <2>5
    <3>2. CASE unreachable
      <4>1. PICK m \in OutageEntries :
              audit[m] = "unreachable" /\ \A k \in OutageEntries : k <= m
        BY <1>3, <3>2 DEF LastOutage
      <4>2. m = i
        BY <2>1, <3>1, <4>1
      <4> QED
        BY <1>3, <2>1, <3>1, <3>2, <4>1, <4>2
    <3>3. CASE ~unreachable
      BY <1>3, <2>1, <3>1, <3>3 DEF LastOutage
    <3> QED
      BY <3>2, <3>3
  <2> QED
    BY <2>1, <2>3, <2>4, <2>5 DEF OutageEntriesPaired
<1>4. CASE cancelled
  BY <1>1, <1>4, AuditStep
<1> QED
  BY <1>1, <1>2, <1>3, <1>4, OutageStep

-----------------------------------------------------------------------------
(* The end *)

\* What a step may do to the goroutine that stops the worker.
LEMMA StopperStep ==
  ASSUME TypeOK, Next
  PROVE  \/ ReportStop
         \/ Cancel
         \/ /\ pc'["stopper"] = pc["stopper"]
            /\ stopped' = stopped
            /\ report["stopper"] = "none" => report'["stopper"] = "none"
            /\ report["stopper"] = "due" => report'["stopper"] # "none"
            /\ ended' = ended \/ Interrupt
<1>1. /\ pc \in [Goroutines -> PCs]
      /\ report \in [Goroutines -> {"none", "due", "sending"}]
  BY DEF TypeOK
<1>2. /\ "inbound" \in Goroutines /\ "outbound" \in Goroutines
      /\ "ticker" \in Goroutines /\ "stopper" \in Goroutines
      /\ Loops = {"inbound", "outbound"} /\ Loops \subseteq Goroutines
  BY DEF Goroutines, Loops
<1> USE <1>1, <1>2 DEF Goto, flags, calls, CallReport, ReportIfChanged
<1>3. CASE BeginPoll \/ PollReturns \/ Unpark \/ FinishPollError \/ BeginDelivery
           \/ DeliveryReturns
  BY <1>3 DEF BeginPoll, PollReturns, Unpark, FinishPollError, BeginDelivery, DeliveryReturns
<1>4. CASE ClearRejection
  BY <1>4 DEF ClearRejection, SetTokenRejected
<1>5. CASE FinishPollSuccess \/ DegradePolling
  BY <1>5 DEF FinishPollSuccess, DegradePolling, SetPollingDegraded
<1>6. CASE SetOutbound
  BY <1>6 DEF SetOutbound, SetOutboundDegraded
<1>7. ASSUME NEW g \in Loops, ReadRejected(g) \/ AuditRejection(g)
      PROVE  /\ pc'["stopper"] = pc["stopper"] /\ stopped' = stopped
             /\ report' = report /\ ended' = ended
  BY <1>7 DEF ReadRejected, AuditRejection
<1>8. ASSUME NEW g \in Loops, RejectToken(g)
      PROVE  /\ pc'["stopper"] = pc["stopper"] /\ stopped' = stopped
             /\ report'["stopper"] = report["stopper"] /\ ended' = ended
  BY <1>8 DEF RejectToken, SetTokenRejected
<1>9. CASE Tick \/ Interrupt \/ ApplyLate \/ MinutePasses
  BY <1>9 DEF Tick, Interrupt, ApplyLate, MinutePasses
<1>10. ASSUME NEW g \in Goroutines, Reporting(g)
       PROVE  /\ pc'["stopper"] = pc["stopper"] /\ stopped' = stopped
              /\ report["stopper"] = "none" => report'["stopper"] = "none"
              /\ report["stopper"] = "due" => report'["stopper"] # "none"
              /\ ended' = ended
  BY <1>10 DEF Reporting, TakeSnapshot, SendReport
<1> QED
  BY <1>3, <1>4, <1>5, <1>6, <1>7, <1>8, <1>9, <1>10 DEF Next, Inbound, Outbound

LEMMA StopStep ==
  TypeOK /\ StateDerived /\ Locked /\ Fresher /\ StopReported /\ Next => StopReported'
<1> SUFFICES ASSUME TypeOK, StateDerived, Locked, Fresher, StopReported, Next
             PROVE  StopReported'
  OBVIOUS
<1>1. /\ pc \in [Goroutines -> PCs]
      /\ report \in [Goroutines -> {"none", "due", "sending"}]
      /\ snapshot \in [Goroutines -> Snapshot]
      /\ faults \in Nat
      /\ "stopper" \in Goroutines
      /\ ended \in {"no", "parent", "stop"}
  BY DEF TypeOK, Goroutines
<1>2. CASE ReportStop
  <2>1. /\ pc' = [pc EXCEPT !["stopper"] = "stopping"]
        /\ stopped'
        /\ pc["stopper"] = "run"
        /\ report' = [report EXCEPT !["stopper"] = "due"]
        /\ ended' = ended
    BY <1>2 DEF ReportStop, SetStopped, Goto, CallReport, At
  <2> QED
    BY <1>1, <2>1 DEF StopReported
<1>3. CASE Cancel
  <2>1. /\ pc' = [pc EXCEPT !["stopper"] = "done"]
        /\ pc["stopper"] = "stopping" /\ report["stopper"] = "none"
        /\ UNCHANGED <<report, snapshot, shown, wire, faults, stopped>>
        /\ ended' # "parent" => ended # "parent"
    BY <1>1, <1>3 DEF Cancel, Goto, At, calls, apps, flags, cancelled
  <2> QED
    BY <1>1, <2>1 DEF StopReported
<1>4. CASE /\ pc'["stopper"] = pc["stopper"]
           /\ stopped' = stopped
           /\ report["stopper"] = "none" => report'["stopper"] = "none"
           /\ report["stopper"] = "due" => report'["stopper"] # "none"
           /\ ended' = ended \/ Interrupt
  <2>1. /\ pc'["stopper"] # "run" => stopped'
        /\ pc'["stopper"] \in {"run", "done"} => report'["stopper"] = "none"
    BY <1>1, <1>4 DEF StopReported
  <2>2. /\ ended' = "stop" => pc'["stopper"] = "done"
        /\ ended' # "parent" => ended # "parent"
    BY <1>4 DEF StopReported, Interrupt, cancelled
  <2>3. ended = "no" => wire = {}
    BY DEF Fresher, cancelled
  <2>4. CASE Quiet
    <3>1. /\ UNCHANGED <<snapshot, faults>>
          /\ \A g \in Goroutines : report'[g] = "sending" => report[g] = "sending"
          /\ report'["stopper"] # "due" => report["stopper"] = report'["stopper"]
      BY <1>1, <2>4 DEF Quiet
    <3>2. /\ shown' = shown \/ shown' \in wire
          /\ wire' \subseteq wire
      BY <2>4 DEF Quiet, ApplyLate, apps
    <3>3. pc'["stopper"] # "run" /\ report'["stopper"] # "due" =>
            \A g \in Goroutines : report'[g] = "sending" => snapshot'[g].state = "Stopped"
      BY <1>4, <3>1 DEF StopReported
    <3>4. pc'["stopper"] # "run" /\ report'["stopper"] = "none" /\ faults' = 0
            /\ ended' # "parent" =>
            shown'.state = "Stopped" /\ \A s \in wire' : s.state = "Stopped"
      BY <1>4, <2>2, <3>1, <3>2 DEF StopReported
    <3> QED
      BY <2>1, <2>2, <3>3, <3>4 DEF StopReported
  <2>5. ASSUME NEW g \in Goroutines, TakeSnapshot(g) PROVE StopReported'
    <3>1. /\ report' = [report EXCEPT ![g] = "sending"]
          /\ snapshot'[g].state = state
          /\ \A h \in Goroutines : report[h] # "sending"
          /\ UNCHANGED <<shown, wire, faults>>
      BY <1>1, <2>5 DEF TakeSnapshot, Locked, Goroutines, Loops, apps
    <3>2. pc'["stopper"] # "run" => state = "Stopped"
      BY <1>4, <2>1 DEF StateDerived, Derived
    <3>3. report'["stopper"] = "none" => report["stopper"] = "none"
      BY <1>1, <3>1
    <3>4. pc'["stopper"] # "run" =>
            \A h \in Goroutines : report'[h] = "sending" => snapshot'[h].state = "Stopped"
      BY <1>1, <3>1, <3>2
    <3> QED
      BY <1>4, <2>1, <2>2, <3>1, <3>3, <3>4 DEF StopReported
  <2>6. ASSUME NEW g \in Goroutines, SendReport(g) PROVE StopReported'
    <3>1. /\ report[g] = "sending" /\ report' = [report EXCEPT ![g] = "none"]
          /\ \A h \in Goroutines : report'[h] # "sending"
          /\ faults' = 0 => faults = 0
      BY <1>1, <2>6 DEF SendReport, Locked
    <3>2. CASE pc["stopper"] # "run" /\ report'["stopper"] = "none" /\ faults' = 0
               /\ ended' # "parent"
      <4>1. report["stopper"] # "due"
        BY <1>4, <3>2
      <4>2. snapshot[g].state = "Stopped"
        BY <3>1, <3>2, <4>1 DEF StopReported
      <4>3. g # "stopper" => shown.state = "Stopped" /\ \A s \in wire : s.state = "Stopped"
        BY <1>1, <2>2, <3>1, <3>2 DEF StopReported
      <4>4. g = "stopper" => ended = "no"
        BY <1>1, <2>2, <3>1, <3>2 DEF StopReported
      <4>5. g = "stopper" => shown' = snapshot[g] /\ wire' = wire
        BY <1>1, <2>6, <3>2 DEF SendReport
      <4>6. g # "stopper" => /\ shown' \in {shown, snapshot[g]}
                             /\ wire' \subseteq wire \cup {snapshot[g]}
        BY <2>6 DEF SendReport
      <4>7. shown'.state = "Stopped" /\ \A s \in wire' : s.state = "Stopped"
        BY <2>3, <4>2, <4>3, <4>4, <4>5, <4>6
      <4> QED
        BY <2>1, <2>2, <3>1, <4>7 DEF StopReported
    <3>3. CASE ~(pc["stopper"] # "run" /\ report'["stopper"] = "none" /\ faults' = 0
                 /\ ended' # "parent")
      BY <1>4, <2>1, <2>2, <3>1, <3>3 DEF StopReported
    <3> QED
      BY <3>2, <3>3
  <2> QED
    BY <2>4, <2>5, <2>6, CallsStep
<1> QED
  BY <1>2, <1>3, <1>4, StopperStep

-----------------------------------------------------------------------------
(* The invariant holds *)

LEMMA InitStatus == Init => StatusInv
<1> SUFFICES ASSUME Init PROVE StatusInv
  OBVIOUS
<1>1. ValueTypes
  BY DEF Init, ValueTypes, States, PCs, Snapshot, Fresh
<1>2. FlagTypes
  BY DEF Init, FlagTypes
<1>3. DOMAIN audit = {} /\ Count("token_rejected") = 0 /\ OutageEntries = {}
  <2>1. DOMAIN audit = {}
    BY DEF Init
  <2> QED
    BY <2>1, FS_EmptySet DEF Count, OutageEntries
<1>4. /\ "inbound" \in Goroutines /\ "outbound" \in Goroutines /\ "stopper" \in Goroutines
      /\ Loops \subseteq Goroutines /\ \A g \in Goroutines : g # "free"
  BY DEF Goroutines, Loops
<1>5. StateDerived
  BY DEF Init, StateDerived, Derived
<1>6. Locked /\ Fresher /\ Remembered /\ ChangeIsReported
  BY <1>4 DEF Init, Locked, Fresher, Remembered, ChangeIsReported, Fresh
<1>7. Parked /\ RejectedByPoll /\ FoundStays
  BY <1>4 DEF Init, Parked, RejectedByPoll, FoundStays
<1>8. RejectionsCounted
  BY <1>3, <1>4 DEF Init, RejectionsCounted, Owes
<1>9. LastOutage /\ OutageEntriesPaired
  BY <1>3 DEF Init, LastOutage, OutageEntriesPaired
<1>10. StopReported
  BY <1>4 DEF Init, StopReported
<1> QED
  BY <1>1, <1>2, <1>5, <1>6, <1>7, <1>8, <1>9, <1>10, TypeParts DEF StatusInv

LEMMA StatusStutter == StatusInv /\ UNCHANGED vars => StatusInv'
<1> SUFFICES ASSUME StatusInv, UNCHANGED vars PROVE StatusInv'
  OBVIOUS
<1> USE DEF vars, flags, calls, locals, poll, apps
<1>1. TypeOK' /\ StateDerived' /\ Locked' /\ Remembered'
  BY DEF StatusInv, TypeOK, StateDerived, Locked, Remembered
<1>2. Fresher' /\ ChangeIsReported'
  BY DEF StatusInv, Fresher, ChangeIsReported, cancelled
<1>3. Parked' /\ RejectedByPoll' /\ FoundStays' /\ RejectionsCounted'
  BY DEF StatusInv, Parked, RejectedByPoll, FoundStays, RejectionsCounted, Owes, Count, cancelled
<1>4. LastOutage' /\ OutageEntriesPaired'
  BY DEF StatusInv, LastOutage, OutageEntriesPaired, OutageEntries, cancelled
<1>5. StopReported'
  BY DEF StatusInv, StopReported
<1> QED
  BY <1>1, <1>2, <1>3, <1>4, <1>5 DEF StatusInv

LEMMA StatusStep == StatusInv /\ [Next]_vars => StatusInv'
<1> SUFFICES ASSUME StatusInv, Next PROVE StatusInv'
  BY StatusStutter
<1>1. TypeOK /\ LoopParts
  BY DEF StatusInv, LoopParts
<1>2. TypeOK'
  <2>1. FlagTypes' /\ ValueTypes'
    BY <1>1, FlagStep, ValueStep, TypeParts
  <2>2. (ValueTypes /\ FlagTypes => TypeOK)'
    BY TypeParts, PTL
  <2> QED
    BY <2>1, <2>2
<1>3. LoopParts'
  BY <1>1, LoopsStep
<1> QED
  BY <1>2, <1>3, DerivedStep, LockedStep, FresherStep, ReportedStep, CountedStep, LastOutageStep,
     PairedStep, StopStep DEF StatusInv, LoopParts

LEMMA StatusHolds == Spec => []StatusInv
<1>1. Init => StatusInv
  BY InitStatus
<1>2. StatusInv /\ [Next]_vars => StatusInv'
  BY StatusStep
<1> QED
  BY <1>1, <1>2, PTL DEF Spec

-----------------------------------------------------------------------------
(* The theorems *)

\* The variables of a worker's status keep their types.
THEOREM TypeCorrect == Spec => []TypeOK
<1>1. StatusInv => TypeOK
  BY DEF StatusInv
<1> QED
  BY <1>1, StatusHolds, PTL

\* A state that is not on display is about to be reported, or a report of it
\* has failed, or the worker ends: no setter's answer is lost between the four
\* goroutines that call Report.
THEOREM EveryChangeReported == Spec => []ChangeIsReported
<1>1. StatusInv => ChangeIsReported
  BY DEF StatusInv
<1> QED
  BY <1>1, StatusHolds, PTL

\* The poll loop that waits has a rejected token, and the state says so.
THEOREM ParkedShowsRejection == Spec => []ParkedMeansRejected
<1>1. StatusInv => ParkedMeansRejected
  BY DEF StatusInv, StateDerived, Parked, ParkedMeansRejected, Derived
<1> QED
  BY <1>1, StatusHolds, PTL

\* Each time the token is rejected there is an audit entry, whichever loops
\* find the flag set or clear.
THEOREM EveryRejectionAudited == Spec => []RejectionAudited
<1>1. StatusInv => RejectionAudited
  <2>1. SUFFICES ASSUME StatusInv, ~cancelled, \A g \in Loops : ~InHandler(g)
                 PROVE  Count("token_rejected") >= episodes
    BY DEF RejectionAudited
  <2>2. Owes("inbound") = 0 /\ Owes("outbound") = 0
    BY <2>1 DEF Loops, InHandler, Owes
  <2>3. Count("token_rejected") \in Nat /\ episodes \in Nat
    BY <2>1, CountType DEF StatusInv, TypeOK, Entries
  <2> QED
    BY <2>1, <2>2, <2>3 DEF StatusInv, RejectionsCounted
<1> QED
  BY <1>1, StatusHolds, PTL

\* However often Telegram goes and comes back, the entries about it alternate.
THEOREM OutagesAlternate == Spec => []OutageEntriesPaired
<1>1. StatusInv => OutageEntriesPaired
  BY DEF StatusInv
<1> QED
  BY <1>1, StatusHolds, PTL

\* Stopped stays on display after Sync has stopped the worker to replace it: the
\* loops' reports that were under way at the time neither follow it nor arrive
\* late, for reportMu lets the last one begin only when they have returned and the
\* context they need is cancelled only when that one has returned.
THEOREM StoppedOfReplacedStays == Spec => []ReplacedShowsStopped
<1>1. StatusInv => ReplacedShowsStopped
  BY DEF StatusInv, StopReported, ReplacedShowsStopped
<1> QED
  BY <1>1, StatusHolds, PTL

\* A report that is applied while the worker runs is not older than the one
\* on display.
THEOREM ReportsInOrder == Spec => NoStaleReport
<1>1. StatusInv /\ [Next]_vars => [~cancelled => shown'.version >= shown.version]_shown
  <2>1. SUFFICES ASSUME StatusInv, Next, ~cancelled, shown' # shown
                 PROVE  shown'.version >= shown.version
    BY DEF vars, apps
  <2>2. TypeOK /\ Fresher
    BY <2>1 DEF StatusInv
  <2>3. ~Quiet
    BY <2>1, <2>2 DEF Quiet, apps, ApplyLate, Fresher
  <2>4. PICK g \in Goroutines : SendReport(g)
    BY <2>1, <2>2, <2>3, CallsStep DEF TakeSnapshot, apps
  <2>5. shown' = snapshot[g] /\ report[g] = "sending"
    BY <2>1, <2>4 DEF SendReport
  <2>6. shown.version \in Nat /\ snapshot[g].version \in Nat
    BY <2>2 DEF TypeOK, Snapshot
  <2> QED
    BY <2>1, <2>2, <2>5, <2>6 DEF Fresher
<1> QED
  BY <1>1, StatusHolds, PTL DEF Spec, NoStaleReport
=============================================================================
