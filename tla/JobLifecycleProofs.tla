------------------------- MODULE JobLifecycleProofs -------------------------
(***************************************************************************)
(* Proofs about JobLifecycle, for any set of jobs and any number of web    *)
(* requests in progress.                                                   *)
(*                                                                         *)
(* 1. JobInv is inductive by itself.  It gives type correctness, truthful  *)
(*    verdicts and the refinement of RunRow.                               *)
(* 2. StandInv is inductive relative to JobInv and gives that a worker's   *)
(*    verdict stands and a job is left alone until its body ends: what a   *)
(*    reconciler has read can only hurt a run if somebody other than its   *)
(*    worker took the run for closed, and only a failing ingest worker     *)
(*    that shared the channel with it does so.                             *)
(* 3. Geocode jobs.  A cancel flag that a job can still meet was written   *)
(*    after the job was created (FreshInv).  Everybody who takes a geocode *)
(*    run for closed agrees with its row, or saw RQ fail it while the row  *)
(*    was active (AgreeInv); so a closed row is written again only with    *)
(*    what it says.                                                        *)
(*                                                                         *)
(* There is one lemma for each disjunct of Next, and in it one step for    *)
(* each action and, where the action disturbs it, each conjunct.           *)
(***************************************************************************)
EXTENDS JobLifecycle, TLAPS

USE JobsAssumption
    DEF Jobs, Channels, Chan, Active, Terminal, Good, Stages, Starting, Working, BeforeEnd, Over,
        Goto, Step, SetLive, Ask, Done, Only, Idle, MarkRow, Save

\* The conjuncts of the invariant.
USE DEF JobInv, TypeOK, StageInv, NamesInv, VerdictIsTrue, RequestsTrue, QuietInv, Quiet

-----------------------------------------------------------------------------
\* Starting a job keeps the invariant.
LEMMA StartStep == ASSUME JobInv, NEW j \in Jobs, Start(j) PROVE JobInv'
<1>1. CASE StartInsert(j)
  BY <1>1 DEF StartInsert
<1>2. CASE StartClearCancel(j)
  BY ZenonT(60), <1>2 DEF StartClearCancel
<1>3. CASE StartAnnounce(j)
  BY <1>3 DEF StartAnnounce
<1>4. CASE StartEnqueue(j)
  BY <1>4 DEF StartEnqueue
<1> HIDE DEF JobInv
<1>5. QED  BY <1>1, <1>2, <1>3, <1>4 DEF Start

\* A worker's step keeps the invariant.
LEMMA WorkStep == ASSUME JobInv, NEW j \in Jobs, Work(j) PROVE JobInv'
<1>1. CASE Take(j)
  BY <1>1 DEF Take
<1>2. CASE WorkerMark(j)
  BY <1>2 DEF WorkerMark
<1>3. CASE WorkerAnnounce(j)
  BY <1>3 DEF WorkerAnnounce
<1>4. CASE BuildRequest(j)
  BY <1>4 DEF BuildRequest
<1>5. CASE ConnectFails(j)
  BY <1>5 DEF ConnectFails
<1>6. CASE IngestCompletes(j)
  BY <1>6 DEF IngestCompletes
<1>6a. CASE IngestReports(j)
  BY <1>6a DEF IngestReports
<1>7. CASE GeocodeReturns(j)
  BY <1>7 DEF GeocodeReturns
<1>8. CASE BodyFails(j)
  BY <1>8 DEF BodyFails
<1>9. CASE SaveResult(j)
  BY <1>9 DEF SaveResult
<1>10. CASE SaveResultFails(j)
  BY <1>10 DEF SaveResultFails
<1>11. CASE SaveFailure(j)
  BY <1>11 DEF SaveFailure
<1>12. CASE SaveFailureFails(j)
  BY <1>12 DEF SaveFailureFails
<1>13. CASE PublishGeocode(j)
  BY <1>13 DEF PublishGeocode
<1>14. CASE ReadLiveJob(j)
  BY <1>14 DEF ReadLiveJob
<1>15. CASE PublishFailure(j)
  BY ZenonT(60), <1>15 DEF PublishFailure
<1>16. CASE TaskEnds(j)
  BY <1>16 DEF TaskEnds
<1> HIDE DEF JobInv
<1>17. QED  BY <1>1, <1>2, <1>3, <1>4, <1>5, <1>6, <1>6a, <1>7, <1>8, <1>9, <1>10, <1>11, <1>12, <1>13, <1>14, <1>15, <1>16 DEF Work

\* Crashes, expiries and progress reports keep the invariant.
LEMMA EnvironmentStep == ASSUME JobInv, NEW j \in Jobs, Environment(j) PROVE JobInv'
<1>1. CASE StartAbandon(j)
  BY <1>1 DEF StartAbandon
<1>2. CASE Progress(j)
  BY <1>2 DEF Progress
<1>3. CASE Crash(j)
  BY <1>3 DEF Crash
<1>4. CASE Reap(j)
  BY <1>4 DEF Reap
<1>5. CASE ResultExpires(j)
  BY <1>5 DEF ResultExpires
<1> HIDE DEF JobInv
<1>6. QED  BY <1>1, <1>2, <1>3, <1>4, <1>5 DEF Environment

\* A web request that has read something keeps the invariant as it goes on.
LEMMA ContinueStep == ASSUME JobInv, NEW r \in Requests, Continue(r) PROVE JobInv'
<1>1. CASE Get(r)
  BY SMTT(20), <1>1 DEF Get
<1>2. CASE Finish(r)
  BY <1>2 DEF Finish
<1>3. CASE Mark(r)
  BY <1>3 DEF Mark
<1>4. CASE SanitizeRow(r)
  <2>1. CASE row[req[r].job] \in Terminal
    BY SMTT(30), <1>4, <2>1 DEF SanitizeRow
  <2>2. CASE row[req[r].job] \notin Terminal
    BY SMTT(30), <1>4, <2>2 DEF SanitizeRow
  <2>3. QED  BY <2>1, <2>2
<1>5. CASE SanitizeRq(r)
  BY <1>5 DEF SanitizeRq, RqLive
<1>6. CASE SanitizeWrite(r)
  BY <1>6 DEF SanitizeWrite
<1>7. CASE CancelWrite(r)
  BY <1>7 DEF CancelWrite
<1> HIDE DEF JobInv
<1>8. QED  BY <1>1, <1>2, <1>3, <1>4, <1>5, <1>6, <1>7 DEF Continue

\* A web request that begins only takes down what the invariant says is true.
LEMMA RequestStep == ASSUME JobInv, NEW r \in Requests, Request(r) PROVE JobInv'
<1>1. ASSUME NEW c \in Channels, ReconcileLive(r, c) PROVE JobInv'
  BY <1>1 DEF ReconcileLive
<1>2. ASSUME NEW c \in Channels, Sanitize(r, c) PROVE JobInv'
  BY <1>2 DEF Sanitize
<1>3. ASSUME NEW j \in Jobs, ReconcileRq(r, j) PROVE JobInv'
  <2>1. ASSUME NEW s \in RqVerdict(j), Ask(r, "get", j, s) PROVE JobInv'
    <3>1. s \in Terminal /\ (s \in {"completed", "cancelled"} => outcome[j] = s) /\ row[j] # "none"
      BY <1>3, <2>1 DEF ReconcileRq, RqVerdict
    <3>2. j \in GeocodeJobs /\ stage[j] = "saving" => s = "failed"
      BY <1>3, <2>1 DEF ReconcileRq, RqVerdict
    <3>3. QED  BY <1>3, <2>1, <3>1, <3>2 DEF ReconcileRq
  <2>2. CASE Ask(r, "mark", j, "idle")
    BY <1>3, <2>2 DEF ReconcileRq
  <2>3. QED  BY <1>3, <2>1, <2>2 DEF ReconcileRq
<1>4. CASE CancelCheck(r)
  BY <1>4 DEF CancelCheck
<1> HIDE DEF JobInv
<1>5. QED  BY <1>1, <1>2, <1>3, <1>4 DEF Request

-----------------------------------------------------------------------------
\* The invariant holds in the empty history.
LEMMA JobInvInit == Init => JobInv
<1> SUFFICES ASSUME Init PROVE JobInv
  OBVIOUS
<1>1. TypeOK
  BY DEF Init
<1>2. StageInv /\ VerdictIsTrue
  BY DEF Init
<1>3. NamesInv /\ RequestsTrue /\ QuietInv
  BY DEF Init
<1>4. QED  BY <1>1, <1>2, <1>3

\* Every step keeps it.
LEMMA JobInvStep == JobInv /\ [Next]_vars => JobInv'
<1> SUFFICES ASSUME JobInv, [Next]_vars PROVE JobInv'
  OBVIOUS
<1>1. CASE CancelExpires
  BY <1>1 DEF CancelExpires
<1>2. CASE UNCHANGED vars
  BY <1>2 DEF vars
<1> HIDE DEF JobInv
<1>3. ASSUME NEW j \in Jobs, Start(j) \/ Work(j) \/ Environment(j) PROVE JobInv'
  BY <1>3, StartStep, WorkStep, EnvironmentStep
<1>4. ASSUME NEW r \in Requests, Request(r) \/ Continue(r) PROVE JobInv'
  BY <1>4, RequestStep, ContinueStep
<1>5. QED  BY <1>1, <1>2, <1>3, <1>4 DEF Next

\* All reachable states satisfy the invariant.
LEMMA JobInvHolds == Spec => []JobInv
<1> HIDE DEF JobInv
<1>1. QED  BY JobInvInit, JobInvStep, PTL DEF Spec

\* Every variable of the job life cycle keeps its type: no Redis or RQ status
\* outside the vocabulary of job_runs.status ever reaches a row or live key.
THEOREM TypeCorrect == Spec => []TypeOK
<1>1. JobInv => TypeOK
  OBVIOUS
<1> HIDE DEF JobInv, TypeOK
<1>2. QED  BY <1>1, JobInvHolds, PTL

\* "completed" and "cancelled" are only ever said of a run, in its row or in a
\* live status that names it, when its body ended that way.
THEOREM VerdictsAreTrue == Spec => []VerdictIsTrue
<1>1. JobInv => VerdictIsTrue
  OBVIOUS
<1> HIDE DEF JobInv, VerdictIsTrue
<1>2. QED  BY <1>1, JobInvHolds, PTL

-----------------------------------------------------------------------------
(***************************************************************************)
(* The rows: one step of the life cycle is one step of RunRow, or none.    *)
(***************************************************************************)
USE DEF History!Active, History!Terminal

\* Steps that touch neither a row nor the way a body ended.
LEMMA QuietSteps == ASSUME NEW j \in Jobs,
                           \/ StartClearCancel(j) \/ StartAnnounce(j) \/ StartEnqueue(j)
                           \/ Take(j) \/ WorkerAnnounce(j) \/ BuildRequest(j) \/ ConnectFails(j)
                           \/ IngestReports(j) \/ SaveFailureFails(j) \/ PublishGeocode(j) \/ ReadLiveJob(j)
                           \/ PublishFailure(j) \/ TaskEnds(j) \/ Environment(j)
                    PROVE  UNCHANGED <<row, outcome>>
BY DEF StartClearCancel, StartAnnounce, StartEnqueue, Take, WorkerAnnounce, BuildRequest, ConnectFails,
       IngestReports, SaveFailureFails, PublishGeocode, ReadLiveJob, PublishFailure, TaskEnds,
       Environment, StartAbandon, Progress, Crash, Reap, ResultExpires

\* A step of a job's process is a step of the history, or none.
LEMMA HistoryWork ==
  ASSUME JobInv, NEW j \in Jobs, Start(j) \/ Work(j) \/ Environment(j)
  PROVE  History!Next \/ UNCHANGED <<row, outcome>>
<1>1. CASE StartInsert(j)
  <2>1. History!Create(j)
    BY <1>1 DEF StartInsert, History!Create
  <2>2. QED  BY <2>1 DEF History!Next
<1>2. CASE WorkerMark(j)
  <2>1. History!Begin(j) \/ UNCHANGED <<row, outcome>>
    BY ZenonT(60), <1>2 DEF WorkerMark, History!Begin
  <2>2. QED  BY <2>1 DEF History!Next
<1>3. CASE IngestCompletes(j)
  <2>1. History!BodyEnds(j, "completed")
    BY <1>3 DEF IngestCompletes, History!BodyEnds
  <2>2. QED  BY <2>1 DEF History!Next
<1>4. CASE GeocodeReturns(j)
  <2>1. History!BodyEnds(j, IF cancelKey THEN "cancelled" ELSE "completed")
    BY <1>4 DEF GeocodeReturns, History!BodyEnds
  <2>2. QED  BY <2>1 DEF History!Next
<1>5. CASE BodyFails(j)
  <2>1. History!BodyEnds(j, "failed")
    BY <1>5 DEF BodyFails, History!BodyEnds
  <2>2. QED  BY <2>1 DEF History!Next
<1>6. CASE SaveResult(j)
  <2>1. outcome[j] \in Terminal /\ History!Close(j, outcome[j])
    BY <1>6 DEF SaveResult, History!Close
  <2>2. QED  BY <2>1 DEF History!Next
\* The geocode task turns its result into a failure: QuietInv rules out that
\* somebody has closed the row with the result in the meantime.
<1>7. CASE SaveResultFails(j)
  <2>1. CASE j \in IngestJobs
    BY <1>7, <2>1 DEF SaveResultFails
  <2>2. CASE j \in GeocodeJobs
    <3>1. History!BodyEnds(j, "failed")
      BY <1>7, <2>2 DEF SaveResultFails, History!BodyEnds
    <3>2. QED  BY <3>1 DEF History!Next
  <2>3. QED  BY <2>1, <2>2
<1>8. CASE SaveFailure(j)
  <2>1. History!Close(j, "failed")
    BY <1>8 DEF SaveFailure, History!Close
  <2>2. QED  BY <2>1 DEF History!Next
<1> HIDE DEF JobInv
<1>9. QED  BY <1>1, <1>2, <1>3, <1>4, <1>5, <1>6, <1>7, <1>8, QuietSteps DEF Start, Work

\* So is a step of a request.
LEMMA HistoryRequest ==
  ASSUME JobInv, NEW r \in Requests, Request(r) \/ Continue(r)
  PROVE  History!Next \/ UNCHANGED <<row, outcome>>
<1>1. CASE Request(r)
  BY <1>1 DEF Request, ReconcileLive, Sanitize, ReconcileRq, CancelCheck
<1>2. CASE Get(r) \/ SanitizeRow(r) \/ SanitizeRq(r) \/ CancelWrite(r)
  BY <1>2 DEF Get, SanitizeRow, SanitizeRq, CancelWrite
<1>3. CASE Finish(r)
  <2>1. req[r].job \in Jobs /\ req[r].status \in Terminal /\ History!Close(req[r].job, req[r].status)
    BY <1>3 DEF Finish, History!Close
  <2>2. QED  BY <2>1 DEF History!Next
<1>4. CASE Mark(r)
  <2>1. req[r].job \in Jobs /\ (History!Begin(req[r].job) \/ UNCHANGED <<row, outcome>>)
    BY ZenonT(60), <1>4 DEF Mark, History!Begin
  <2>2. QED  BY <2>1 DEF History!Next
<1>5. CASE SanitizeWrite(r)
  <2>1. req[r].job \in Jobs /\ (History!Begin(req[r].job) \/ UNCHANGED <<row, outcome>>)
    BY <1>5 DEF SanitizeWrite, History!Begin
  <2>2. QED  BY <2>1 DEF History!Next
<1> HIDE DEF JobInv
<1>6. QED  BY <1>1, <1>2, <1>3, <1>4, <1>5 DEF Continue

\* And so is every step.
LEMMA HistoryStep == JobInv /\ [Next]_vars => [History!Next]_<<row, outcome>>
<1> SUFFICES ASSUME JobInv, [Next]_vars PROVE History!Next \/ UNCHANGED <<row, outcome>>
  OBVIOUS
<1> HIDE DEF JobInv
<1>1. CASE CancelExpires
  BY <1>1 DEF CancelExpires
<1>2. CASE UNCHANGED vars
  BY <1>2 DEF vars
<1>3. QED  BY <1>1, <1>2, HistoryWork, HistoryRequest DEF Next

\* The four writers of job_runs together implement the job history of RunRow.
THEOREM ImplementsHistory == Spec => HistorySafety
<1>1. Init => History!Init
  BY DEF Init, History!Init
<1> HIDE DEF JobInv
<1>2. QED  BY <1>1, JobInvHolds, HistoryStep, PTL DEF Spec, HistorySafety, History!Safety, History!vars

\* No step of a history reopens a closed run.
LEMMA HistoryKeepsClosed ==
  ASSUME [History!Next]_<<row, outcome>>, TypeOK, NEW j \in Jobs, row[j] \in Terminal
  PROVE  row'[j] \in Terminal
BY DEF History!Next, History!Create, History!Begin, History!BodyEnds, History!Close

\* A closed run is never shown as queued or running again: no worker, overview
\* or status endpoint marks it running from a read made before it was closed.
THEOREM RunsAreNeverReopened == Spec => NeverReopened
<1>1. JobInv /\ [Next]_vars => [\A j \in Jobs : row[j] \in Terminal => row'[j] \in Terminal]_vars
  <2>1. JobInv => TypeOK
    OBVIOUS
  <2> HIDE DEF JobInv, TypeOK
  <2>2. QED  BY <2>1, HistoryStep, HistoryKeepsClosed
<1> HIDE DEF JobInv
<1>2. QED  BY <1>1, JobInvHolds, PTL DEF Spec, NeverReopened

HIDE DEF JobInv, TypeOK, StageInv, NamesInv, VerdictIsTrue, RequestsTrue, QuietInv, Quiet

-----------------------------------------------------------------------------
(* A worker's verdict stands.                                              *)

\* Where three actions with a conditional stage may lead.
LEMMA ConditionalStages == ASSUME NEW j \in Jobs PROVE
  /\ StartAnnounce(j) => stage[j] \in Starting /\ Goto(j, "announced")
  /\ SaveFailureFails(j) => stage[j] = "failing" /\ ((Goto(j, "naming") /\ j \in IngestJobs) \/ Goto(j, "raising"))
  /\ PublishGeocode(j) => stage[j] = "publishing" /\ (Goto(j, "raising") \/ Goto(j, "returning"))
BY DEF StartAnnounce, SaveFailureFails, PublishGeocode

\* The conjuncts of the two invariants.
USE DEF JobInv, TypeOK, StageInv, NamesInv, VerdictIsTrue, RequestsTrue, QuietInv, Quiet

USE DEF StandInv, RqInv, SharedInv, UndecidedInv, FinishInv, VerdictStands, Says, Clean, InFlight

\* Starting a job disturbs no verdict.
LEMMA StartStands == ASSUME JobInv, StandInv, NEW j \in Jobs, Start(j) PROVE StandInv'
<1>1. CASE StartInsert(j)
  BY <1>1 DEF StartInsert
<1>2. CASE StartClearCancel(j)
  <2>1. UNCHANGED <<row, rq, live, named, outcome, req, saved, shared>>
    BY <1>2 DEF StartClearCancel
  <2>2. stage[j] = "inserted" /\ Goto(j, "cleared")
    BY <1>2 DEF StartClearCancel
  <2>3. RqInv'
    BY <2>1, <2>2
  <2>4. SharedInv'
    BY <2>1, <2>2
  <2>5. UndecidedInv'
    BY <2>1, <2>2
  <2>6. FinishInv'
    BY <2>1, <2>2
  <2>7. VerdictStands'
    BY <2>1, <2>2
  <2>8. QED  BY <2>3, <2>4, <2>5, <2>6, <2>7
<1>3. CASE StartAnnounce(j)
  <2>0. stage[j] \in Starting /\ Goto(j, "announced") /\ UNCHANGED rq
    BY <1>3, ConditionalStages DEF StartAnnounce
  <2>1. RqInv'
    BY <2>0
  <2>2. SharedInv'
    BY <1>3 DEF StartAnnounce
  <2>3. UndecidedInv'
    BY SMTT(30), <1>3 DEF StartAnnounce
  <2>4. FinishInv'
    BY <1>3 DEF StartAnnounce
  <2>5. VerdictStands'
    BY <1>3 DEF StartAnnounce
  <2>6. QED  BY <2>1, <2>2, <2>3, <2>4, <2>5
<1>4. CASE StartEnqueue(j)
  BY <1>4 DEF StartEnqueue
<1> HIDE DEF JobInv, StandInv
<1>5. QED  BY <1>1, <1>2, <1>3, <1>4 DEF Start

\* A worker's step disturbs no other worker's verdict.
LEMMA WorkStands == ASSUME JobInv, StandInv, NEW j \in Jobs, Work(j) PROVE StandInv'
<1>1. CASE Take(j)
  BY <1>1 DEF Take
<1>2. CASE WorkerMark(j)
  <2>1. RqInv'
    BY <1>2 DEF WorkerMark
  <2>2. SharedInv'
    BY <1>2 DEF WorkerMark
  <2>3. UndecidedInv'
    BY <1>2 DEF WorkerMark
  <2>4. FinishInv'
    BY <1>2 DEF WorkerMark
  <2>5. VerdictStands'
    BY <1>2 DEF WorkerMark
  <2>6. QED  BY <2>1, <2>2, <2>3, <2>4, <2>5
<1>3. CASE WorkerAnnounce(j)
  <2>1. RqInv'
    BY <1>3 DEF WorkerAnnounce
  <2>2. SharedInv'
    BY <1>3 DEF WorkerAnnounce
  <2>3. UndecidedInv'
    BY <1>3 DEF WorkerAnnounce
  <2>4. FinishInv'
    BY <1>3 DEF WorkerAnnounce
  <2>5. VerdictStands'
    BY <1>3 DEF WorkerAnnounce
  <2>6. QED  BY <2>1, <2>2, <2>3, <2>4, <2>5
<1>4. CASE BuildRequest(j)
  <2>1. RqInv'
    BY <1>4 DEF BuildRequest
  <2>2. SharedInv'
    BY <1>4 DEF BuildRequest
  <2>3. UndecidedInv'
    BY <1>4 DEF BuildRequest
  <2>4. FinishInv'
    BY <1>4 DEF BuildRequest
  <2>5. VerdictStands'
    BY <1>4 DEF BuildRequest
  <2>6. QED  BY <2>1, <2>2, <2>3, <2>4, <2>5
<1>5. CASE ConnectFails(j)
  <2>1. RqInv'
    BY <1>5 DEF ConnectFails
  <2>2. SharedInv'
    BY <1>5 DEF ConnectFails
  <2>3. UndecidedInv'
    BY <1>5 DEF ConnectFails
  <2>4. FinishInv'
    BY <1>5 DEF ConnectFails
  <2>5. VerdictStands'
    BY <1>5 DEF ConnectFails
  <2>6. QED  BY <2>1, <2>2, <2>3, <2>4, <2>5
<1>6. CASE IngestCompletes(j)
  <2>1. RqInv'
    BY <1>6 DEF IngestCompletes
  <2>2. SharedInv'
    BY <1>6 DEF IngestCompletes
  <2>3. UndecidedInv'
    BY <1>6 DEF IngestCompletes
  <2>4. FinishInv'
    BY <1>6 DEF IngestCompletes
  <2>5. VerdictStands'
    BY <1>6 DEF IngestCompletes
  <2>6. QED  BY <2>1, <2>2, <2>3, <2>4, <2>5
<1>6a. CASE IngestReports(j)
  <2>1. RqInv'
    BY <1>6a DEF IngestReports
  <2>2. SharedInv'
    BY <1>6a DEF IngestReports
  <2>3. UndecidedInv'
    BY <1>6a DEF IngestReports
  <2>4. FinishInv'
    BY <1>6a DEF IngestReports
  <2>5. VerdictStands'
    BY <1>6a DEF IngestReports
  <2>6. QED  BY <2>1, <2>2, <2>3, <2>4, <2>5
<1>7. CASE GeocodeReturns(j)
  <2>1. RqInv'
    BY <1>7 DEF GeocodeReturns
  <2>2. SharedInv'
    BY <1>7 DEF GeocodeReturns
  <2>3. UndecidedInv'
    BY <1>7 DEF GeocodeReturns
  <2>4. FinishInv'
    BY <1>7 DEF GeocodeReturns
  <2>5. VerdictStands'
    BY <1>7 DEF GeocodeReturns
  <2>6. QED  BY <2>1, <2>2, <2>3, <2>4, <2>5
<1>8. CASE BodyFails(j)
  BY <1>8 DEF BodyFails
<1>9. CASE SaveResult(j)
  <2>1. RqInv'
    BY <1>9 DEF SaveResult
  <2>2. SharedInv'
    BY <1>9 DEF SaveResult
  <2>3. UndecidedInv'
    BY <1>9 DEF SaveResult
  <2>4. FinishInv'
    BY <1>9 DEF SaveResult
  <2>5. VerdictStands'
    BY <1>9 DEF SaveResult
  <2>6. QED  BY <2>1, <2>2, <2>3, <2>4, <2>5
<1>10. CASE SaveResultFails(j)
  BY <1>10 DEF SaveResultFails
<1>11. CASE SaveFailure(j)
  BY <1>11 DEF SaveFailure
<1>12. CASE SaveFailureFails(j)
  <2>1. UNCHANGED <<row, rq, live, named, outcome, req, saved, shared>>
    BY <1>12 DEF SaveFailureFails
  <2>2. stage[j] = "failing" /\ ((Goto(j, "naming") /\ j \in IngestJobs) \/ Goto(j, "raising"))
    BY <1>12, ConditionalStages
  <2>3. QED  BY SMTT(20), <2>1, <2>2
<1>13. CASE PublishGeocode(j)
  <2>0. stage[j] = "publishing" /\ (Goto(j, "raising") \/ Goto(j, "returning"))
    BY <1>13, ConditionalStages
  <2>1. RqInv'
    BY <1>13, <2>0 DEF PublishGeocode
  <2>2. SharedInv'
    <3>1. UNCHANGED <<named, shared>> /\ j \in GeocodeJobs
      BY <1>13 DEF PublishGeocode
    <3>2. \A k \in Jobs : InFlight(k)' <=> InFlight(k)
      BY <2>0
    <3>3. \A c \in Channels : live'[c].job \in Jobs => Chan(live'[c].job) = c
      BY <1>13 DEF PublishGeocode
    <3>4. \A k \in Jobs : stage[k] \notin {"publishing", "raising", "returning"} => stage'[k] = stage[k]
      BY <2>0
    <3>5. QED  BY <2>0, <3>1, <3>2, <3>3, <3>4
  <2>3. UndecidedInv'
    BY <1>13 DEF PublishGeocode
  <2>4. FinishInv'
    BY <1>13 DEF PublishGeocode
  <2>5. VerdictStands'
    BY <1>13 DEF PublishGeocode
  <2>6. QED  BY <2>1, <2>2, <2>3, <2>4, <2>5
<1>14. CASE ReadLiveJob(j)
  BY <1>14 DEF ReadLiveJob
<1>15. CASE PublishFailure(j)
  BY <1>15 DEF PublishFailure
<1>16. CASE TaskEnds(j)
  BY <1>16 DEF TaskEnds
<1> HIDE DEF JobInv, StandInv
<1>17. QED  BY <1>1, <1>2, <1>3, <1>4, <1>5, <1>6, <1>6a, <1>7, <1>8, <1>9, <1>10, <1>11, <1>12, <1>13, <1>14, <1>15, <1>16 DEF Work

\* Crashes, expiries and progress reports disturb no verdict.
LEMMA EnvironmentStands == ASSUME JobInv, StandInv, NEW j \in Jobs, Environment(j) PROVE StandInv'
<1>1. CASE StartAbandon(j)
  BY <1>1 DEF StartAbandon
<1>2. CASE Progress(j)
  BY <1>2 DEF Progress
<1>3. CASE Crash(j)
  <2>1. RqInv'
    BY <1>3 DEF Crash
  <2>2. SharedInv'
    BY <1>3 DEF Crash
  <2>3. UndecidedInv'
    BY <1>3 DEF Crash
  <2>4. FinishInv'
    BY <1>3 DEF Crash
  <2>5. VerdictStands'
    BY <1>3 DEF Crash
  <2>6. QED  BY <2>1, <2>2, <2>3, <2>4, <2>5
<1>4. CASE Reap(j)
  <2>1. RqInv'
    BY <1>4 DEF Reap
  <2>2. SharedInv'
    BY <1>4 DEF Reap
  <2>3. UndecidedInv'
    BY <1>4 DEF Reap
  <2>4. FinishInv'
    BY <1>4 DEF Reap
  <2>5. VerdictStands'
    BY <1>4 DEF Reap
  <2>6. QED  BY <2>1, <2>2, <2>3, <2>4, <2>5
<1>5. CASE ResultExpires(j)
  BY <1>5 DEF ResultExpires
<1> HIDE DEF JobInv, StandInv
<1>6. QED  BY <1>1, <1>2, <1>3, <1>4, <1>5 DEF Environment

\* A web request that has read something still agrees with the worker.
LEMMA ContinueStands == ASSUME JobInv, StandInv, NEW r \in Requests, Continue(r) PROVE StandInv'
<1>1. CASE Get(r)
  <2>1. RqInv'
    BY <1>1 DEF Get
  <2>2. SharedInv'
    BY <1>1 DEF Get
  <2>3. UndecidedInv'
    <3>1. \A k \in Jobs, s \in Terminal : Says(k, s)' => Says(k, s)
      BY <1>1 DEF Get
    <3>2. UNCHANGED <<row, stage, outcome, shared>>
      BY <1>1 DEF Get
    <3>3. QED  BY SMTT(30), <3>1, <3>2
  <2>4. FinishInv'
    BY <1>1 DEF Get
  <2>5. VerdictStands'
    BY <1>1 DEF Get
  <2>6. QED  BY <2>1, <2>2, <2>3, <2>4, <2>5
<1>2. CASE Finish(r)
  BY <1>2 DEF Finish
<1>3. CASE Mark(r)
  BY <1>3 DEF Mark
<1>4. CASE SanitizeRow(r)
  BY SMTT(30), <1>4 DEF SanitizeRow
<1>5. CASE SanitizeRq(r)
  <2>1. RqInv'
    BY <1>5 DEF SanitizeRq, RqLive
  <2>2. SharedInv'
    BY <1>5 DEF SanitizeRq, RqLive
  <2>3. UndecidedInv'
    <3>1. RqLive(req[r].job) \notin Terminal
      BY DEF RqLive
    <3>2. \A k \in Jobs, s \in Terminal : Says(k, s)' => Says(k, s)
      BY <1>5, <3>1 DEF SanitizeRq
    <3>3. UNCHANGED <<row, stage, outcome, shared>>
      BY <1>5 DEF SanitizeRq
    <3>4. QED  BY SMTT(30), <3>2, <3>3
  <2>4. FinishInv'
    BY <1>5 DEF SanitizeRq, RqLive
  <2>5. VerdictStands'
    BY <1>5 DEF SanitizeRq, RqLive
  <2>6. QED  BY <2>1, <2>2, <2>3, <2>4, <2>5
<1>6. CASE SanitizeWrite(r)
  <2>1. RqInv'
    BY <1>6 DEF SanitizeWrite
  <2>2. SharedInv'
    BY <1>6 DEF SanitizeWrite
  <2>3. UndecidedInv'
    BY SMTT(20), <1>6 DEF SanitizeWrite
  <2>4. FinishInv'
    BY <1>6 DEF SanitizeWrite
  <2>5. VerdictStands'
    BY <1>6 DEF SanitizeWrite
  <2>6. QED  BY <2>1, <2>2, <2>3, <2>4, <2>5
<1>7. CASE CancelWrite(r)
  BY <1>7 DEF CancelWrite
<1> HIDE DEF JobInv, StandInv
<1>8. QED  BY <1>1, <1>2, <1>3, <1>4, <1>5, <1>6, <1>7 DEF Continue

\* A web request that begins agrees with the worker.
LEMMA RequestStands == ASSUME JobInv, StandInv, NEW r \in Requests, Request(r) PROVE StandInv'
<1>1. ASSUME NEW c \in Channels, ReconcileLive(r, c) PROVE StandInv'
  <2>1. RqInv' /\ SharedInv' /\ VerdictStands'
    BY <1>1 DEF ReconcileLive
  <2>2. UndecidedInv'
    BY SMTT(30), <1>1 DEF ReconcileLive
  <2>3. FinishInv'
    BY <1>1 DEF ReconcileLive
  <2>4. QED  BY <2>1, <2>2, <2>3
<1>2. ASSUME NEW c \in Channels, Sanitize(r, c) PROVE StandInv'
  <2>1. RqInv' /\ SharedInv' /\ VerdictStands'
    BY <1>2 DEF Sanitize
  <2>2. UndecidedInv'
    BY <1>2 DEF Sanitize
  <2>3. FinishInv'
    BY <1>2 DEF Sanitize
  <2>4. QED  BY <2>1, <2>2, <2>3
<1>3. ASSUME NEW j \in Jobs, ReconcileRq(r, j) PROVE StandInv'
  <2>1. ASSUME NEW s \in RqVerdict(j), Ask(r, "get", j, s) PROVE StandInv'
    <3>1. stage[j] \in Over
      <4>1. stage[j] # "new"
        BY <1>3 DEF ReconcileRq
      <4>2. rq[j] \in {"failed", "finished"} \/ (rq[j] = "missing" /\ stage[j] \notin Starting)
        BY <2>1 DEF RqVerdict, OlderThanStaleAfter
      <4>3. QED  BY <4>1, <4>2
    <3>2. RqInv' /\ SharedInv' /\ VerdictStands'
      BY <1>3, <2>1 DEF ReconcileRq
    <3>3. UndecidedInv'
      BY SMTT(30), <1>3, <2>1, <3>1 DEF ReconcileRq
    <3>4. FinishInv'
      BY <1>3, <2>1 DEF ReconcileRq
    <3>5. QED  BY <3>2, <3>3, <3>4
  <2>2. CASE Ask(r, "mark", j, "idle")
    BY <1>3, <2>2 DEF ReconcileRq
  <2>3. QED  BY <1>3, <2>1, <2>2 DEF ReconcileRq
<1>4. CASE CancelCheck(r)
  <2>1. RqInv' /\ SharedInv' /\ VerdictStands'
    BY <1>4 DEF CancelCheck
  <2>2. UndecidedInv'
    BY SMTT(30), <1>4 DEF CancelCheck
  <2>3. FinishInv'
    BY <1>4 DEF CancelCheck
  <2>4. QED  BY <2>1, <2>2, <2>3
<1> HIDE DEF JobInv, StandInv
<1>5. QED  BY <1>1, <1>2, <1>3, <1>4 DEF Request

-----------------------------------------------------------------------------
\* Both invariants hold when nothing was started yet.
LEMMA StandInvInit == Init => StandInv
<1> SUFFICES ASSUME Init PROVE StandInv
  OBVIOUS
<1>1. RqInv /\ VerdictStands
  BY DEF Init
<1>2. SharedInv
  BY DEF Init
<1>3. UndecidedInv /\ FinishInv
  BY DEF Init
<1>4. QED  BY <1>1, <1>2, <1>3

\* Every step keeps them.
LEMMA StandInvStep == JobInv /\ StandInv /\ [Next]_vars => StandInv'
<1> SUFFICES ASSUME JobInv, StandInv, [Next]_vars PROVE StandInv'
  OBVIOUS
<1>1. CASE UNCHANGED <<row, rq, live, stage, named, outcome, req, saved, shared>>
  BY <1>1
<1> HIDE DEF JobInv, StandInv
<1>2. CASE CancelExpires \/ UNCHANGED vars
  BY <1>1, <1>2 DEF CancelExpires, vars
<1>3. ASSUME NEW j \in Jobs, Start(j) \/ Work(j) \/ Environment(j) PROVE StandInv'
  BY <1>3, StartStands, WorkStands, EnvironmentStands
<1>4. ASSUME NEW r \in Requests, Request(r) \/ Continue(r) PROVE StandInv'
  BY <1>4, RequestStands, ContinueStands
<1>5. QED  BY <1>2, <1>3, <1>4 DEF Next

\* All reachable states satisfy both invariants.
LEMMA StandInvHolds == Spec => [](JobInv /\ StandInv)
<1> HIDE DEF JobInv, StandInv
<1>1. QED  BY StandInvInit, StandInvStep, JobInvHolds, PTL DEF Spec

\* What the worker wrote to its row stays there: no reconciler overwrites it
\* with something it concluded earlier, unless ingest jobs overlapped.
THEOREM WorkersVerdictStands == Spec => []VerdictStands
<1>1. StandInv => VerdictStands
  OBVIOUS
<1> HIDE DEF JobInv, StandInv, VerdictStands
<1>2. QED  BY <1>1, StandInvHolds, PTL

\* No reconciler closes the row of a job that is still being started, queued or
\* run, with the same exception.
THEOREM PendingJobsAreLeftAlone == Spec => []LeftAlone
<1>1. StandInv => LeftAlone
  BY DEF LeftAlone
<1> HIDE DEF JobInv, StandInv, LeftAlone
<1>2. QED  BY <1>1, StandInvHolds, PTL

HIDE DEF JobInv, TypeOK, StageInv, NamesInv, VerdictIsTrue, RequestsTrue, QuietInv, Quiet
HIDE DEF StandInv, RqInv, SharedInv, UndecidedInv, FinishInv, VerdictStands, Says, Clean, InFlight

-----------------------------------------------------------------------------
(* Geocode jobs.                                                           *)

\* Cancelled jobs were asked to stop, and so was every job that may still find
\* the flag.
FreshInv ==
  /\ \A j \in Jobs : outcome[j] = "cancelled" => j \in asked
  /\ \A j \in GeocodeJobs : cancelKey /\ stage[j] \in BeforeEnd \ {"new", "inserted"} => j \in asked

AgreeInv == \A j \in GeocodeJobs :
  /\ stage[j] \in {"publishing", "returning"} \/ rq[j] = "finished" => saved[j] = outcome[j]
  /\ \A s \in Terminal : Says(j, s) => row[j] = s \/ (row[j] \in Active /\ s = "failed")

-----------------------------------------------------------------------------
(* Cancelling.                                                             *)

\* No step makes an old flag meet a new job.
LEMMA FreshStep == JobInv /\ FreshInv /\ [Next]_vars => FreshInv'
<1> SUFFICES ASSUME JobInv, FreshInv, [Next]_vars PROVE FreshInv'
  OBVIOUS
<1> USE DEF JobInv, TypeOK, StageInv, FreshInv
<1>1. ASSUME NEW j \in Jobs, Start(j) PROVE FreshInv'
  <2>1. CASE StartInsert(j)  BY <2>1 DEF StartInsert
  <2>2. CASE StartClearCancel(j)  BY <2>2 DEF StartClearCancel
  <2>3. CASE StartAnnounce(j)  BY <2>3 DEF StartAnnounce
  <2>4. CASE StartEnqueue(j)  BY <2>4 DEF StartEnqueue
  <2> QED  BY <1>1, <2>1, <2>2, <2>3, <2>4 DEF Start
<1>2. ASSUME NEW j \in Jobs, Work(j) PROVE FreshInv'
  <2>1. CASE Take(j) \/ WorkerMark(j) \/ WorkerAnnounce(j) \/ BuildRequest(j) \/ ConnectFails(j)
    BY <2>1 DEF Take, WorkerMark, WorkerAnnounce, BuildRequest, ConnectFails
  <2>2. CASE IngestCompletes(j) \/ IngestReports(j)
    BY <2>2 DEF IngestCompletes, IngestReports
  <2>3. CASE GeocodeReturns(j)  BY <2>3 DEF GeocodeReturns
  <2>4. CASE BodyFails(j)  BY <2>4 DEF BodyFails
  <2>5. CASE SaveResult(j) \/ SaveResultFails(j)
    BY <2>5 DEF SaveResult, SaveResultFails
  <2>6. CASE SaveFailure(j) \/ SaveFailureFails(j)
    BY <2>6 DEF SaveFailure, SaveFailureFails
  <2>7. CASE PublishGeocode(j)  BY <2>7 DEF PublishGeocode
  <2>8. CASE ReadLiveJob(j) \/ PublishFailure(j) \/ TaskEnds(j)
    BY <2>8 DEF ReadLiveJob, PublishFailure, TaskEnds
  <2> QED  BY <1>2, <2>1, <2>2, <2>3, <2>4, <2>5, <2>6, <2>7, <2>8 DEF Work
<1>3. ASSUME NEW j \in Jobs, Environment(j) PROVE FreshInv'
  BY <1>3 DEF Environment, StartAbandon, Progress, Crash, Reap, ResultExpires
<1>4. ASSUME NEW r \in Requests, CancelWrite(r) PROVE FreshInv'
  BY <1>4 DEF CancelWrite
<1>5. ASSUME NEW r \in Requests, Request(r) \/ Continue(r), ~CancelWrite(r) PROVE FreshInv'
  <2>1. UNCHANGED <<stage, outcome, cancelKey, asked>>
    BY <1>5 DEF Request, Continue, ReconcileLive, Sanitize, ReconcileRq, CancelCheck, Get, Finish,
                Mark, SanitizeRow, SanitizeRq, SanitizeWrite
  <2> QED  BY <2>1
<1>6. CASE CancelExpires  BY <1>6 DEF CancelExpires
<1>7. CASE UNCHANGED vars  BY <1>7 DEF vars
<1> QED  BY <1>1, <1>2, <1>3, <1>4, <1>5, <1>6, <1>7 DEF Next

\* A run recorded as cancelled was there when some cancel flag was written: the
\* flag of an earlier run, which lives for an hour, stops no later one.
THEOREM CancelsAreFresh == Spec => []CancelIsFresh
<1>1. Init => FreshInv  BY DEF Init, FreshInv
<1>2. JobInv /\ FreshInv => CancelIsFresh
  BY DEF JobInv, VerdictIsTrue, FreshInv, CancelIsFresh
<1>3. QED  BY <1>1, <1>2, FreshStep, JobInvHolds, PTL DEF Spec

-----------------------------------------------------------------------------
(* Closed rows.                                                            *)

\* Steps that tell nobody anything and leave the rows alone.
LEMMA SilentAgrees ==
  ASSUME AgreeInv, UNCHANGED <<row, live, req>>,
         \A j \in GeocodeJobs : stage'[j] \in {"publishing", "returning"} \/ rq'[j] = "finished" =>
           saved'[j] = outcome'[j]
  PROVE  AgreeInv'
<1>1. \A j, s : Says(j, s)' <=> Says(j, s)  BY DEF Says
<1> QED  BY <1>1 DEF AgreeInv

\* Starting a job: nobody knows the new row.
LEMMA StartAgrees == ASSUME JobInv, AgreeInv, NEW j \in Jobs, Start(j) PROVE AgreeInv'
<1> USE DEF JobInv, TypeOK, AgreeInv
<1>1. CASE StartInsert(j)
  <2>1. UNCHANGED <<rq, live, outcome, req, saved>> /\ stage[j] = "new"  BY <1>1 DEF StartInsert
  <2>2. \A s \in Terminal : ~Says(j, s)
    BY <2>1 DEF Says, StageInv, NamesInv
  <2>3. \A k, s : Says(k, s)' <=> Says(k, s)  BY <2>1 DEF Says
  <2> QED  BY <1>1, <2>1, <2>2, <2>3 DEF StartInsert
<1>2. CASE StartClearCancel(j)  BY <1>2, SilentAgrees DEF StartClearCancel
<1>3. CASE StartAnnounce(j)
  <2>1. \A k \in Jobs, s \in Terminal : Says(k, s)' => Says(k, s)
    BY <1>3 DEF StartAnnounce, Says
  <2>2. UNCHANGED <<row, rq, outcome, saved>>  BY <1>3 DEF StartAnnounce
  <2>3. \A k \in Jobs : stage'[k] \in {"publishing", "returning"} => stage[k] \in {"publishing", "returning"}
    BY <1>3 DEF StartAnnounce
  <2> QED  BY <2>1, <2>2, <2>3
<1>4. CASE StartEnqueue(j)  BY <1>4, SilentAgrees DEF StartEnqueue
<1> QED  BY <1>1, <1>2, <1>3, <1>4 DEF Start

\* The worker: it publishes what it has saved, and saves before anybody else knows.
LEMMA WorkAgrees == ASSUME JobInv, StandInv, AgreeInv, NEW j \in Jobs, Work(j) PROVE AgreeInv'
<1> USE DEF JobInv, TypeOK, AgreeInv
<1>1. CASE Take(j)  BY <1>1, SilentAgrees DEF Take
<1>2. CASE WorkerMark(j)
  <2>1. \A k, s : Says(k, s)' <=> Says(k, s)  BY <1>2 DEF WorkerMark, Says
  <2> QED  BY <1>2, <2>1 DEF WorkerMark
<1>3. CASE WorkerAnnounce(j)
  <2>1. \A k \in Jobs, s \in Terminal : Says(k, s)' => Says(k, s)
    BY <1>3 DEF WorkerAnnounce, Says
  <2> QED  BY <1>3, <2>1 DEF WorkerAnnounce
<1>4. CASE BuildRequest(j)  BY <1>4, SilentAgrees DEF BuildRequest
<1>5. CASE ConnectFails(j)  BY <1>5, SilentAgrees DEF ConnectFails
<1>6. CASE IngestCompletes(j) \/ IngestReports(j)
  <2>1. j \in IngestJobs  BY <1>6 DEF IngestCompletes, IngestReports, StageInv
  <2>2. UNCHANGED <<row, rq, saved, req>> /\ SetLive("ingest", "completed", j)
    BY <1>6 DEF IngestCompletes, IngestReports
  <2>3. \A k \in GeocodeJobs, s \in Terminal : Says(k, s)' => Says(k, s)
    BY <2>1, <2>2 DEF Says
  <2>4. \A k \in GeocodeJobs : UNCHANGED <<stage[k], outcome[k]>>
    BY <1>6, <2>1 DEF IngestCompletes, IngestReports
  <2> QED  BY <2>2, <2>3, <2>4
<1>7. CASE GeocodeReturns(j)  BY <1>7, SilentAgrees DEF GeocodeReturns, StageInv
<1>8. CASE BodyFails(j)  BY <1>8, SilentAgrees DEF BodyFails, StageInv
<1>9. CASE SaveResult(j)
  <2>1. \A k, s : Says(k, s)' <=> Says(k, s)  BY <1>9 DEF SaveResult, Says
  <2>2. j \in GeocodeJobs => \A s \in Terminal : ~Says(j, s)
    BY <1>9 DEF SaveResult, StandInv, UndecidedInv, Clean
  <2> QED  BY <1>9, <2>1, <2>2 DEF SaveResult
<1>10. CASE SaveResultFails(j)  BY <1>10, SilentAgrees DEF SaveResultFails, StageInv
<1>11. CASE SaveFailure(j)
  <2>1. \A k, s : Says(k, s)' <=> Says(k, s)  BY <1>11 DEF SaveFailure, Says
  <2>2. j \in GeocodeJobs => \A s \in Terminal : ~Says(j, s)
    BY <1>11 DEF SaveFailure, StandInv, UndecidedInv, Clean
  <2>3. outcome[j] = "failed"  BY <1>11 DEF SaveFailure, StageInv
  <2> QED  BY <1>11, <2>1, <2>2, <2>3 DEF SaveFailure, StageInv
<1>12. CASE SaveFailureFails(j)  BY <1>12, SilentAgrees, ConditionalStages DEF SaveFailureFails
<1>13. CASE PublishGeocode(j)
  <2>1. row[j] = outcome[j]
    BY <1>13 DEF PublishGeocode, StageInv, StandInv, VerdictStands, Clean
  <2>2. \A k \in GeocodeJobs, s \in Terminal : Says(k, s)' => Says(k, s) \/ (k = j /\ s = outcome[j])
    BY <1>13 DEF PublishGeocode, Says
  <2>3. /\ UNCHANGED <<row, rq, outcome, saved>>
        /\ \A k \in Jobs : stage'[k] \in {"publishing", "returning"} => stage[k] \in {"publishing", "returning"}
    BY <1>13, ConditionalStages DEF PublishGeocode
  <2> QED  BY <2>1, <2>2, <2>3
<1>14. CASE ReadLiveJob(j)  BY <1>14, SilentAgrees DEF ReadLiveJob
<1>15. CASE PublishFailure(j)
  <2>1. named[j] \notin GeocodeJobs
    BY DEF StandInv, SharedInv
  <2>2. \A k \in GeocodeJobs, s \in Terminal : Says(k, s)' => Says(k, s)
    BY <1>15, <2>1 DEF PublishFailure, Says
  <2> QED  BY <1>15, <2>2 DEF PublishFailure
<1>16. CASE TaskEnds(j)  BY <1>16, SilentAgrees DEF TaskEnds
<1> HIDE DEF JobInv, TypeOK, AgreeInv
<1> QED  BY <1>1, <1>2, <1>3, <1>4, <1>5, <1>6, <1>7, <1>8, <1>9, <1>10, <1>11, <1>12, <1>13,
            <1>14, <1>15, <1>16 DEF Work

\* Crashes, expiries and progress reports tell nobody that a run is closed.
LEMMA EnvironmentAgrees == ASSUME JobInv, AgreeInv, NEW j \in Jobs, Environment(j) PROVE AgreeInv'
<1> USE DEF JobInv, TypeOK, AgreeInv
<1>1. CASE StartAbandon(j)  BY <1>1, SilentAgrees DEF StartAbandon
<1>2. CASE Progress(j)
  <2>1. \A k \in Jobs, s \in Terminal : Says(k, s)' => Says(k, s)
    BY <1>2 DEF Progress, Says
  <2> QED  BY <1>2, <2>1 DEF Progress
<1>3. CASE Crash(j)  BY <1>3, SilentAgrees DEF Crash
<1>4. CASE Reap(j)  BY <1>4, SilentAgrees DEF Reap
<1>5. CASE ResultExpires(j)  BY <1>5, SilentAgrees DEF ResultExpires
<1> QED  BY <1>1, <1>2, <1>3, <1>4, <1>5 DEF Environment

\* The later steps of a request: a row is closed only with what it was taken for.
LEMMA ContinueAgrees == ASSUME JobInv, StandInv, AgreeInv, NEW r \in Requests, Continue(r) PROVE AgreeInv'
<1> DEFINE job == req[r].job
           Learns == \A k \in Jobs, s \in Terminal : Says(k, s)' => Says(k, s)
<1> USE DEF JobInv, TypeOK, AgreeInv
<1>1. ASSUME Learns, UNCHANGED <<row, rq, stage, saved, outcome>> PROVE AgreeInv'
  BY <1>1
<1>2. CASE Get(r)
  <2>1. Learns  BY <1>2 DEF Get, Says
  <2> QED  BY <1>1, <1>2, <2>1 DEF Get
<1>3. CASE Finish(r)
  <2>1. job \in Jobs /\ req[r].status \in Terminal /\ Says(job, req[r].status)
    BY <1>3 DEF Finish, NamesInv, Says
  <2>2. Learns  BY <1>3 DEF Finish, Says
  <2>3. \A s \in Terminal, k \in GeocodeJobs : Says(k, s) => row'[k] = s \/ (row'[k] \in Active /\ s = "failed")
    BY <1>3, <2>1 DEF Finish
  <2> QED  BY <1>3, <2>2, <2>3 DEF Finish
<1>4. CASE Mark(r)
  <2>1. Learns  BY <1>4 DEF Mark, Says
  <2> QED  BY <1>4, <2>1 DEF Mark
<1>5. CASE SanitizeRow(r)
  <2>1. \A k \in Jobs, s \in Terminal : Says(k, s)' => Says(k, s) \/ s = row[k]
    BY <1>5 DEF SanitizeRow, Says
  <2> QED  BY <1>5, <2>1 DEF SanitizeRow
<1>6. CASE SanitizeRq(r)
  <2>1. Learns  BY <1>6 DEF SanitizeRq, Says, RqLive
  <2> QED  BY <1>1, <1>6, <2>1 DEF SanitizeRq
<1>7. CASE SanitizeWrite(r)
  <2>1. Learns  BY <1>7 DEF SanitizeWrite, Says
  <2>2. /\ UNCHANGED <<rq, stage, saved, outcome>>
        /\ MarkRow(job) \/ UNCHANGED row
    BY <1>7 DEF SanitizeWrite
  <2> QED  BY <2>1, <2>2
<1>8. CASE CancelWrite(r)
  <2>1. Learns  BY <1>8 DEF CancelWrite, Says
  <2> QED  BY <1>1, <1>8, <2>1 DEF CancelWrite
<1> QED  BY <1>2, <1>3, <1>4, <1>5, <1>6, <1>7, <1>8 DEF Continue

\* A new request learns what others said, or what RQ says of an active row:
\* there it can only be "failed", for a worker that ended well had saved it.
LEMMA RequestAgrees == ASSUME JobInv, StandInv, AgreeInv, NEW r \in Requests, Request(r) PROVE AgreeInv'
<1> USE DEF JobInv, TypeOK, AgreeInv
<1>0. UNCHANGED <<row, live, rq, stage, saved, outcome>>
  BY DEF Request, ReconcileLive, Sanitize, ReconcileRq, CancelCheck
<1>1. ASSUME NEW c \in Channels, ReconcileLive(r, c) PROVE AgreeInv'
  <2>1. \A k \in Jobs, s \in Terminal : Says(k, s)' => Says(k, s)
    BY <1>1 DEF ReconcileLive, Says
  <2> QED  BY <1>0, <2>1
<1>2. ASSUME NEW c \in Channels, Sanitize(r, c) PROVE AgreeInv'
  <2>1. \A k \in Jobs, s \in Terminal : Says(k, s)' => Says(k, s)
    BY <1>2 DEF Sanitize, Says
  <2> QED  BY <1>0, <2>1
<1>3. ASSUME NEW j \in Jobs, ReconcileRq(r, j) PROVE AgreeInv'
  <2>1. row[j] \in Active  BY <1>3 DEF ReconcileRq
  <2>2. ASSUME j \in GeocodeJobs, NEW s \in RqVerdict(j) PROVE s = "failed"
    <3>1. CASE rq[j] = "finished"
      <4>1. saved[j] \in Terminal  BY <2>2, <3>1 DEF StageInv
      <4>2. row[j] = saved[j]  BY <2>2, <4>1 DEF StandInv, VerdictStands, Clean
      <4> QED  BY <2>1, <4>1, <4>2
    <3>2. CASE rq[j] # "finished"  BY <2>2, <3>2 DEF RqVerdict
    <3> QED  BY <3>1, <3>2
  <2>3. \A k \in GeocodeJobs, s \in Terminal : Says(k, s)' => Says(k, s) \/ (k = j /\ s = "failed")
    BY <1>3, <2>2 DEF ReconcileRq, Says
  <2> QED  BY <1>0, <2>1, <2>3
<1>4. CASE CancelCheck(r)
  <2>1. \A k \in Jobs, s \in Terminal : Says(k, s)' => Says(k, s)
    BY <1>4 DEF CancelCheck, Says
  <2> QED  BY <1>0, <2>1
<1> QED  BY <1>1, <1>2, <1>3, <1>4 DEF Request

\* AgreeInv is inductive relative to JobInv and StandInv.
LEMMA AgreeStep == JobInv /\ StandInv /\ AgreeInv /\ [Next]_vars => AgreeInv'
<1> SUFFICES ASSUME JobInv, StandInv, AgreeInv, [Next]_vars PROVE AgreeInv'
  OBVIOUS
<1>1. CASE CancelExpires  BY <1>1, SilentAgrees DEF CancelExpires, AgreeInv
<1>2. CASE UNCHANGED vars  BY <1>2, SilentAgrees DEF vars, AgreeInv
<1> QED  BY <1>1, <1>2, StartAgrees, WorkAgrees, EnvironmentAgrees, RequestAgrees, ContinueAgrees DEF Next

\* A closed row of a geocode run is written again only with what it says.
LEMMA ClosedStep == JobInv /\ StandInv /\ AgreeInv /\ [Next]_vars =>
                      \A j \in GeocodeJobs : row[j] \in Terminal => row'[j] = row[j]
<1> SUFFICES ASSUME JobInv, StandInv, AgreeInv, [Next]_vars, NEW j \in GeocodeJobs, row[j] \in Terminal
             PROVE  row'[j] = row[j]
  OBVIOUS
<1> USE DEF JobInv, TypeOK
<1>1. ASSUME NEW k \in Jobs, Start(k) PROVE row'[j] = row[j]
  BY <1>1 DEF Start, StartInsert, StartClearCancel, StartAnnounce, StartEnqueue, StageInv
<1>2. ASSUME NEW k \in Jobs, Work(k) PROVE row'[j] = row[j]
  <2>1. CASE SaveResult(k)
    BY <2>1 DEF SaveResult, StandInv, UndecidedInv, Clean
  <2>2. CASE SaveFailure(k)
    BY <2>2 DEF SaveFailure, StandInv, UndecidedInv, Clean
  <2>3. CASE WorkerMark(k)  BY <2>3 DEF WorkerMark
  <2>4. CASE ~SaveResult(k) /\ ~SaveFailure(k) /\ ~WorkerMark(k)
    BY <1>2, <2>4 DEF Work, Take, WorkerAnnounce, BuildRequest, ConnectFails, IngestCompletes,
       IngestReports, GeocodeReturns, BodyFails, SaveResultFails, SaveFailureFails, PublishGeocode,
       ReadLiveJob, PublishFailure, TaskEnds
  <2> QED  BY <2>1, <2>2, <2>3, <2>4
<1>3. ASSUME NEW k \in Jobs, Environment(k) PROVE row'[j] = row[j]
  BY <1>3 DEF Environment, StartAbandon, Progress, Crash, Reap, ResultExpires
<1>4. ASSUME NEW r \in Requests, Request(r) PROVE row'[j] = row[j]
  BY <1>4 DEF Request, ReconcileLive, Sanitize, ReconcileRq, CancelCheck
<1>5. ASSUME NEW r \in Requests, Continue(r) PROVE row'[j] = row[j]
  <2>1. CASE Finish(r)
    <3>1. req[r].status \in Terminal /\ Says(req[r].job, req[r].status)
      BY <2>1 DEF Finish, NamesInv, Says
    <3> QED  BY <2>1, <3>1 DEF Finish, AgreeInv
  <2>2. CASE ~Finish(r)
    BY <1>5, <2>2 DEF Continue, Get, Mark, SanitizeRow, SanitizeRq, SanitizeWrite, CancelWrite
  <2> QED  BY <2>1, <2>2
<1>6. CASE CancelExpires  BY <1>6 DEF CancelExpires
<1>7. CASE UNCHANGED vars  BY <1>7 DEF vars
<1> QED  BY <1>1, <1>2, <1>3, <1>4, <1>5, <1>6, <1>7 DEF Next

\* A geocode run that was closed, by its worker or by a reconciler, is never
\* closed differently.
THEOREM GeocodeVerdictsAreFinal == Spec => GeocodeFinal
<1>1. Init => AgreeInv  BY DEF Init, AgreeInv, Says
<1>2. JobInv /\ StandInv /\ AgreeInv /\ [Next]_vars =>
        [\A j \in GeocodeJobs : row[j] \in Terminal => row'[j] = row[j]]_vars
  BY ClosedStep
<1>3. QED  BY <1>1, <1>2, AgreeStep, JobInvHolds, StandInvHolds, PTL DEF Spec, GeocodeFinal
=============================================================================
