---------------------------- MODULE JobLifecycle ----------------------------
(***************************************************************************)
(* The life of the background jobs of one make in the Redis deployment     *)
(* (USE_REDIS_JOBS=1).  Four parties write three stores, one read or write *)
(* per step, and nothing but the database's own row lock orders them:      *)
(*                                                                         *)
(*   - the web handler (or the ingest worker, for the automatic geocode)   *)
(*     that starts a job: job_runs row, live status key, RQ queue;         *)
(*   - the RQ worker that runs it: row, live status key, RQ job status;    *)
(*   - /api/admin/overview and the status endpoints, which reconcile the   *)
(*     row with the other two stores and sanitize the live status key;     *)
(*   - the cancel endpoint, which leaves a flag for the geocode worker.    *)
(*                                                                         *)
(* Progress counters, messages, logs and results are left out: of a live   *)
(* payload only the status and the job_run_id it names are kept.  Ingest   *)
(* and dealer_vehicle_refresh jobs share the live ingest key and one       *)
(* worker script, so both are members of IngestJobs.                       *)
(***************************************************************************)
EXTENDS Naturals, FiniteSets

CONSTANTS IngestJobs,   \* job_run_ids of ingest and dealer_vehicle_refresh runs
          GeocodeJobs,  \* job_run_ids of geocode runs
          Requests,     \* web requests that may be in progress at once
          NoJob         \* a live payload without a job_run_id

Jobs == IngestJobs \cup GeocodeJobs

ASSUME JobsAssumption ==
  /\ IngestJobs \cap GeocodeJobs = {}
  /\ NoJob \notin Jobs

VARIABLES
  row,        \* row[j]: job_runs.status, "none" before the INSERT
  rq,         \* rq[j]: status of the RQ job record, "missing" when there is none
  live,       \* live[c]: status and job_run_id of the live key of channel c
  cancelKey,  \* is the cancel-geocode key set?
  stage,      \* stage[j]: where the starter and then the worker of j are
  named,      \* named[j]: job_run_id a failing ingest worker read back from the live key
  outcome,    \* outcome[j]: progress.status with which the body of j ended
  req,        \* req[r]: what web request r has read and is about to do
  saved,      \* history: the verdict the worker of j wrote to its row
  shared,     \* history: jobs that were in flight together with one of their channel
  asked       \* history: geocode jobs created before some cancel flag was written

vars == <<row, rq, live, cancelKey, stage, named, outcome, req, saved, shared, asked>>

Chan(j)  == IF j \in IngestJobs THEN "ingest" ELSE "geocode"
Channels == {Chan(j) : j \in Jobs}

Active   == {"queued", "running"}
Terminal == {"completed", "failed", "cancelled"}

Starting == {"inserted", "cleared", "announced"}
Working  == {"taken", "marked", "building", "body", "reporting", "saving", "publishing",
             "returning", "failing", "naming", "blaming", "raising"}
BeforeEnd == {"new", "waiting", "taken", "marked", "building", "body"} \cup Starting
Over      == {"ended", "dead", "abandoned"}
Stages    == {"new", "waiting", "ended", "dead", "abandoned"} \cup Starting \cup Working

InFlight(j) == stage[j] \in Starting \cup Working \cup {"waiting"}

Idle == [at |-> "idle", job |-> NoJob, status |-> "idle"]

TypeOK ==
  /\ row \in [Jobs -> {"none"} \cup Active \cup Terminal]
  /\ rq \in [Jobs -> {"missing", "queued", "started", "finished", "failed"}]
  /\ live \in [Channels -> [status : {"idle"} \cup Active \cup Terminal, job : Jobs \cup {NoJob}]]
  /\ cancelKey \in BOOLEAN
  /\ stage \in [Jobs -> Stages]
  /\ named \in [Jobs -> Jobs \cup {NoJob}]
  /\ outcome \in [Jobs -> {"none"} \cup Terminal]
  /\ req \in [Requests -> [at : {"idle", "get", "finish", "mark", "row", "rq", "write", "cancel"},
                           job : Jobs \cup {NoJob},
                           status : {"idle"} \cup Active \cup Terminal]]
  /\ saved \in [Jobs -> {"none"} \cup Terminal]
  /\ shared \subseteq Jobs
  /\ asked \subseteq Jobs

Init ==
  /\ row       = [j \in Jobs |-> "none"]
  /\ rq        = [j \in Jobs |-> "missing"]
  /\ live      = [c \in Channels |-> [status |-> "idle", job |-> NoJob]]
  /\ cancelKey = FALSE
  /\ stage     = [j \in Jobs |-> "new"]
  /\ named     = [j \in Jobs |-> NoJob]
  /\ outcome   = [j \in Jobs |-> "none"]
  /\ req       = [r \in Requests |-> Idle]
  /\ saved     = [j \in Jobs |-> "none"]
  /\ shared    = {}
  /\ asked     = {}

Goto(j, s)       == stage' = [stage EXCEPT ![j] = s]
Step(j, from, s) == stage[j] = from /\ Goto(j, s)
SetLive(c, s, j) == live' = [live EXCEPT ![c] = [status |-> s, job |-> j]]

-----------------------------------------------------------------------------
(* Starting a job.                                                         *)

\* store.start(..., status="queued").  No start handler of the Redis path
\* asks whether a job of the channel is running already.
StartInsert(j) ==
  LET others == {k \in Jobs \ {j} : Chan(k) = Chan(j) /\ InFlight(k)}
  IN  /\ Step(j, "new", "inserted")
      /\ row' = [row EXCEPT ![j] = "queued"]
      /\ shared' = IF others = {} THEN shared ELSE shared \cup others \cup {j}
      /\ UNCHANGED <<rq, live, cancelKey, named, outcome, req, saved, asked>>

\* Mutant of StartClearCancel: the old flag is not deleted.
StartKeepCancel(j) ==
  /\ j \in GeocodeJobs
  /\ Step(j, "inserted", "cleared")
  /\ UNCHANGED <<row, rq, live, cancelKey, named, outcome, req, saved, shared, asked>>

\* start_geocode deletes the flag an earlier cancel left behind.
StartClearCancel(j) ==
  /\ j \in GeocodeJobs
  /\ Step(j, "inserted", "cleared")
  /\ cancelKey' = FALSE
  /\ UNCHANGED <<row, rq, live, named, outcome, req, saved, shared, asked>>

StartAnnounce(j) ==
  /\ Step(j, IF j \in IngestJobs THEN "inserted" ELSE "cleared", "announced")
  /\ SetLive(Chan(j), "queued", j)
  /\ UNCHANGED <<row, rq, cancelKey, named, outcome, req, saved, shared, asked>>

\* prepare_job_enqueue finds no record for the fresh job_run_id.
StartEnqueue(j) ==
  /\ Step(j, "announced", "waiting")
  /\ rq' = [rq EXCEPT ![j] = "queued"]
  /\ UNCHANGED <<row, live, cancelKey, named, outcome, req, saved, shared, asked>>

\* The starting process dies, or Redis refuses a command.
StartAbandon(j) ==
  /\ stage[j] \in Starting
  /\ Goto(j, "abandoned")
  /\ UNCHANGED <<row, rq, live, cancelKey, named, outcome, req, saved, shared, asked>>

-----------------------------------------------------------------------------
(* The worker: run_ingest_task, run_dealer_vehicle_refresh_task and        *)
(* run_geocode_task.  Writes to the row that raise are the "ok = FALSE"    *)
(* alternatives.                                                           *)

Take(j) ==
  /\ Step(j, "waiting", "taken")
  /\ rq' = [rq EXCEPT ![j] = "started"]
  /\ UNCHANGED <<row, live, cancelKey, named, outcome, req, saved, shared, asked>>

\* Mutant of MarkRow: the UPDATE without its status condition.
MarkRowAlways(j) == row' = [row EXCEPT ![j] = "running"]

\* UPDATE ... SET status = 'running' WHERE status = 'queued'.
MarkRow(j) == row' = [row EXCEPT ![j] = IF @ = "queued" THEN "running" ELSE @]

WorkerMark(j) ==
  /\ Step(j, "taken", "marked")
  /\ MarkRow(j)
  /\ UNCHANGED <<rq, live, cancelKey, named, outcome, req, saved, shared, asked>>

WorkerAnnounce(j) ==
  /\ Step(j, "marked", IF j \in IngestJobs THEN "building" ELSE "body")
  /\ SetLive(Chan(j), "running", j)
  /\ UNCHANGED <<row, rq, cancelKey, named, outcome, req, saved, shared, asked>>

\* build_ingest_request, called before the try block: an exception (no WAF
\* token, say) leaves the row and the live status as they are.
BuildRequest(j) ==
  /\ Step(j, "building", "body") \/ Step(j, "building", "raising")
  /\ UNCHANGED <<row, rq, live, cancelKey, named, outcome, req, saved, shared, asked>>

\* mark_running, and run_geocode_task before it, open a database connection.
ConnectFails(j) ==
  /\ Step(j, "taken", "raising")
  /\ UNCHANGED <<row, rq, live, cancelKey, named, outcome, req, saved, shared, asked>>

Progress(j) ==
  /\ stage[j] = "body"
  /\ SetLive(Chan(j), "running", j)
  /\ UNCHANGED <<row, rq, cancelKey, stage, named, outcome, req, saved, shared, asked>>

\* The last progress report of an ingest carries status "completed" ...
IngestCompletes(j) ==
  /\ j \in IngestJobs
  /\ Step(j, "body", "reporting")
  /\ outcome' = [outcome EXCEPT ![j] = "completed"]
  /\ SetLive("ingest", "completed", j)
  /\ UNCHANGED <<row, rq, cancelKey, named, req, saved, shared, asked>>

\* ... and the task publishes it once more before it writes the row.
IngestReports(j) ==
  /\ Step(j, "reporting", "saving")
  /\ SetLive("ingest", "completed", j)
  /\ UNCHANGED <<row, rq, cancelKey, named, outcome, req, saved, shared, asked>>

\* geocode_all_dealers has returned; service.geocode_should_cancel() decides
\* how the run is recorded.
GeocodeReturns(j) ==
  /\ j \in GeocodeJobs
  /\ Step(j, "body", "saving")
  /\ outcome' = [outcome EXCEPT ![j] = IF cancelKey THEN "cancelled" ELSE "completed"]
  /\ UNCHANGED <<row, rq, live, cancelKey, named, req, saved, shared, asked>>

BodyFails(j) ==
  /\ Step(j, "body", "failing")
  /\ outcome' = [outcome EXCEPT ![j] = "failed"]
  /\ UNCHANGED <<row, rq, live, cancelKey, named, req, saved, shared, asked>>

\* store.finish is an unconditional UPDATE of the row.
Save(j, s) ==
  /\ row'   = [row EXCEPT ![j] = s]
  /\ saved' = [saved EXCEPT ![j] = s]

SaveResult(j) ==
  /\ Save(j, outcome[j])
  /\ Step(j, "saving", IF j \in IngestJobs THEN "returning" ELSE "publishing")
  /\ UNCHANGED <<rq, live, cancelKey, named, outcome, req, shared, asked>>

\* An ingest task logs the exception and returns its progress all the same;
\* a geocode task goes to its failure handler.
SaveResultFails(j) ==
  /\ Step(j, "saving", IF j \in IngestJobs THEN "returning" ELSE "failing")
  /\ outcome' = IF j \in IngestJobs THEN outcome ELSE [outcome EXCEPT ![j] = "failed"]
  /\ UNCHANGED <<row, rq, live, cancelKey, named, req, saved, shared, asked>>

SaveFailure(j) ==
  /\ Step(j, "failing", IF j \in IngestJobs THEN "naming" ELSE "publishing")
  /\ Save(j, "failed")
  /\ UNCHANGED <<rq, live, cancelKey, named, outcome, req, shared, asked>>

SaveFailureFails(j) ==
  /\ Step(j, "failing", IF j \in IngestJobs THEN "naming" ELSE "raising")
  /\ UNCHANGED <<row, rq, live, cancelKey, named, outcome, req, saved, shared, asked>>

\* update_live_geocode: the payload carries the worker's own job_run_id.
PublishGeocode(j) ==
  /\ j \in GeocodeJobs
  /\ Step(j, "publishing", IF outcome[j] = "failed" THEN "raising" ELSE "returning")
  /\ SetLive("geocode", outcome[j], j)
  /\ UNCHANGED <<row, rq, cancelKey, named, outcome, req, saved, shared, asked>>

\* update_live_ingest(failed): the payload has no job_run_id, so the one of
\* the payload found under the key is filled in.
ReadLiveJob(j) ==
  /\ j \in IngestJobs
  /\ Step(j, "naming", "blaming")
  /\ named' = [named EXCEPT ![j] = live["ingest"].job]
  /\ UNCHANGED <<row, rq, live, cancelKey, outcome, req, saved, shared, asked>>

PublishFailure(j) ==
  /\ Step(j, "blaming", "raising")
  /\ SetLive("ingest", "failed", named[j])
  /\ named' = [named EXCEPT ![j] = NoJob]
  /\ UNCHANGED <<row, rq, cancelKey, outcome, req, saved, shared, asked>>

\* RQ records how the task function ended.
TaskEnds(j) ==
  /\ \/ Step(j, "returning", "ended") /\ rq' = [rq EXCEPT ![j] = "finished"]
     \/ Step(j, "raising", "ended")   /\ rq' = [rq EXCEPT ![j] = "failed"]
  /\ UNCHANGED <<row, live, cancelKey, named, outcome, req, saved, shared, asked>>

\* The work horse or its container is killed.
Crash(j) ==
  /\ stage[j] \in Working
  /\ Goto(j, "dead")
  /\ named' = [named EXCEPT ![j] = NoJob]
  /\ UNCHANGED <<row, rq, live, cancelKey, outcome, req, saved, shared, asked>>

\* RQ notices a dead work horse (or an expired heartbeat) and fails the job.
Reap(j) ==
  /\ stage[j] = "dead" /\ rq[j] = "started"
  /\ rq' = [rq EXCEPT ![j] = "failed"]
  /\ UNCHANGED <<row, live, cancelKey, stage, named, outcome, req, saved, shared, asked>>

\* A finished RQ job is dropped when its result TTL is over.
ResultExpires(j) ==
  /\ rq[j] = "finished"
  /\ rq' = [rq EXCEPT ![j] = "missing"]
  /\ UNCHANGED <<row, live, cancelKey, stage, named, outcome, req, saved, shared, asked>>

-----------------------------------------------------------------------------
(* Web requests.                                                           *)

Ask(r, at, j, s) == req' = [req EXCEPT ![r] = [at |-> at, job |-> j, status |-> s]]
Done(r)          == req' = [req EXCEPT ![r] = Idle]
Only(r)          == UNCHANGED <<rq, cancelKey, stage, named, outcome, saved, shared, asked>>

\* reconcile_live_job_run, as far as the read of the live key.
ReconcileLive(r, c) ==
  /\ req[r].at = "idle"
  /\ live[c].job # NoJob /\ live[c].status \in Terminal
  /\ Ask(r, "get", live[c].job, live[c].status)
  /\ UNCHANGED <<row, live>> /\ Only(r)

\* Mutant of OlderThanStaleAfter: the age of the run is not looked at.
AnyAge(j) == j \in Jobs

\* The starter inserts, announces and enqueues within stale_after_sec (300 s),
\* so a run without an RQ record that is that old is not being started.
OlderThanStaleAfter(j) == stage[j] \notin Starting

\* Mutant of RqVerdict: a failed RQ job is closed like a finished one.
RqVerdictOptimistic(j) ==
  CASE rq[j] = "missing" /\ OlderThanStaleAfter(j) -> {"failed"}
    [] rq[j] \in {"finished", "failed"}            -> {"completed"}
    [] OTHER                                       -> {}

\* Mutant of RqVerdict: vanished RQ jobs are left to somebody else.
RqVerdictSkipsMissing(j) ==
  CASE rq[j] = "failed"   -> {"failed"}
    [] rq[j] = "finished" -> {outcome[j]}
    [] OTHER              -> {}

\* What reconcile_rq_stale_runs wants for a run whose row is still active.
RqVerdict(j) ==
  CASE rq[j] = "missing" /\ OlderThanStaleAfter(j) -> {"failed"}
    [] rq[j] = "failed"                            -> {"failed"}
    [] rq[j] = "finished"                          -> {outcome[j]}
    [] OTHER                                       -> {}

ReconcileRq(r, j) ==
  /\ req[r].at = "idle"
  /\ row[j] \in Active
  /\ \/ \E s \in RqVerdict(j) : Ask(r, "get", j, s)
     \/ rq[j] = "started" /\ row[j] = "queued" /\ Ask(r, "mark", j, "idle")
  /\ UNCHANGED <<row, live>> /\ Only(r)

\* reconcile_if_stale reads the row in one transaction and ...
Get(r) ==
  /\ req[r].at = "get"
  /\ IF row[req[r].job] \in Active
     THEN Ask(r, "finish", req[r].job, req[r].status)
     ELSE Done(r)
  /\ UNCHANGED <<row, live>> /\ Only(r)

\* ... closes it in another one.
Finish(r) ==
  /\ req[r].at = "finish"
  /\ row' = [row EXCEPT ![req[r].job] = req[r].status]
  /\ Done(r)
  /\ UNCHANGED live /\ Only(r)

Mark(r) ==
  /\ req[r].at = "mark"
  /\ MarkRow(req[r].job)
  /\ Done(r)
  /\ UNCHANGED live /\ Only(r)

\* _sanitize_live_status of an active payload (which always names a job).
Sanitize(r, c) ==
  /\ req[r].at = "idle"
  /\ live[c].status \in Active
  /\ Ask(r, "row", live[c].job, live[c].status)
  /\ UNCHANGED <<row, live>> /\ Only(r)

\* Mutant of SanitizeRow: the live payload is written back as it was read.
SanitizeRowStale(r) ==
  /\ req[r].at = "row"
  /\ IF row[req[r].job] \in Terminal
     THEN Ask(r, "write", req[r].job, req[r].status)
     ELSE Ask(r, "rq", req[r].job, req[r].status)
  /\ UNCHANGED <<row, live>> /\ Only(r)

SanitizeRow(r) ==
  /\ req[r].at = "row"
  /\ IF row[req[r].job] \in Terminal
     THEN Ask(r, "write", req[r].job, row[req[r].job])
     ELSE Ask(r, "rq", req[r].job, req[r].status)
  /\ UNCHANGED <<row, live>> /\ Only(r)

RqLive(j) ==
  CASE rq[j] = "queued"  -> "queued"
    [] rq[j] = "started" -> "running"
    [] OTHER             -> "idle"

SanitizeRq(r) ==
  /\ req[r].at = "rq"
  /\ IF RqLive(req[r].job) = req[r].status
     THEN Done(r)
     ELSE Ask(r, "write", req[r].job, RqLive(req[r].job))
  /\ UNCHANGED <<row, live>> /\ Only(r)

\* For a started job a row that was still queued is marked running as well.
SanitizeWrite(r) ==
  LET j == req[r].job
      s == req[r].status
  IN  /\ req[r].at = "write"
      /\ SetLive(Chan(j), s, IF s = "idle" THEN NoJob ELSE j)
      /\ IF s = "running" THEN MarkRow(j) ELSE UNCHANGED row
      /\ Done(r)
      /\ Only(r)

\* cancel_geocode: the flag is set if a geocode job was live a moment ago.
CancelCheck(r) ==
  /\ req[r].at = "idle"
  /\ "geocode" \in Channels /\ live["geocode"].status \in Active
  /\ Ask(r, "cancel", NoJob, "idle")
  /\ UNCHANGED <<row, live>> /\ Only(r)

CancelWrite(r) ==
  /\ req[r].at = "cancel"
  /\ cancelKey' = TRUE
  /\ asked' = asked \cup {j \in GeocodeJobs : row[j] # "none"}
  /\ Done(r)
  /\ UNCHANGED <<row, rq, live, stage, named, outcome, saved, shared>>

\* The flag is written with a TTL of an hour.
CancelExpires ==
  /\ cancelKey
  /\ cancelKey' = FALSE
  /\ UNCHANGED <<row, rq, live, stage, named, outcome, req, saved, shared, asked>>

-----------------------------------------------------------------------------

Start(j) == StartInsert(j) \/ StartClearCancel(j) \/ StartAnnounce(j) \/ StartEnqueue(j)

Work(j) ==
  \/ Take(j) \/ WorkerMark(j) \/ WorkerAnnounce(j) \/ BuildRequest(j) \/ ConnectFails(j)
  \/ IngestCompletes(j) \/ IngestReports(j) \/ GeocodeReturns(j) \/ BodyFails(j)
  \/ SaveResult(j) \/ SaveResultFails(j) \/ SaveFailure(j) \/ SaveFailureFails(j)
  \/ PublishGeocode(j) \/ ReadLiveJob(j) \/ PublishFailure(j) \/ TaskEnds(j)

Environment(j) == StartAbandon(j) \/ Progress(j) \/ Crash(j) \/ Reap(j) \/ ResultExpires(j)

Continue(r) ==
  \/ Get(r) \/ Finish(r) \/ Mark(r)
  \/ SanitizeRow(r) \/ SanitizeRq(r) \/ SanitizeWrite(r) \/ CancelWrite(r)

Request(r) ==
  \/ \E c \in Channels : ReconcileLive(r, c) \/ Sanitize(r, c)
  \/ \E j \in Jobs : ReconcileRq(r, j)
  \/ CancelCheck(r)

Next ==
  \/ \E j \in Jobs : Start(j) \/ Work(j) \/ Environment(j)
  \/ \E r \in Requests : Request(r) \/ Continue(r)
  \/ CancelExpires

Spec == Init /\ [][Next]_vars

(***************************************************************************)
(* A request that was accepted runs to its end, a worker that is alive     *)
(* makes progress (job_timeout ends a body that does not), RQ notices dead *)
(* work horses, and an open admin page polls /api/admin/overview, which    *)
(* runs every reconciliation each time: none is passed over for ever.      *)
(***************************************************************************)
Fairness ==
  /\ \A j \in Jobs :
       /\ WF_vars(stage[j] # "new" /\ (Start(j) \/ StartAbandon(j)))
       /\ WF_vars(Work(j))
       /\ WF_vars(Reap(j))
       /\ SF_vars(\E r \in Requests : ReconcileRq(r, j))
  /\ \A c \in Channels : SF_vars(\E r \in Requests : Sanitize(r, c))
  /\ \A r \in Requests : WF_vars(Continue(r))

FairSpec == Spec /\ Fairness

-----------------------------------------------------------------------------
(* Properties.                                                             *)

\* Nothing says "completed" or "cancelled" of a job, neither its row nor a live
\* status that names it, unless the body of that job ended that way: failure
\* payloads that inherit a job_run_id (update_live_ingest) and verdicts rebuilt
\* from RQ records or live payloads never turn one run's end into another's.
VerdictIsTrue ==
  /\ \A j \in Jobs : row[j] \in {"completed", "cancelled"} => outcome[j] = row[j]
  /\ \A c \in Channels : live[c].status \in {"completed", "cancelled"} =>
       live[c].job \in Jobs /\ outcome[live[c].job] = live[c].status

\* A run that was closed is never shown as queued or running again, although
\* worker, overview and status endpoints mark runs as running from reads that
\* may be older than the worker's last write (mark_running).
NeverReopened == [][\A j \in Jobs : row[j] \in Terminal => row'[j] \in Terminal]_vars

\* Geocode workers always name themselves in live payloads; ingest workers can
\* only be named by others if they share the channel.
Clean(j) == j \in GeocodeJobs \/ j \notin shared

\* The verdict the worker stored stands, whatever reconcilers decide from what
\* they read before, unless another ingest job was in flight with it.
VerdictStands == \A j \in Jobs : Clean(j) /\ saved[j] # "none" => row[j] = saved[j]

\* Even a row that was closed without its worker is final for geocode runs.
GeocodeFinal ==
  [][\A j \in GeocodeJobs : row[j] \in Terminal => row'[j] = row[j]]_vars

\* A run recorded as cancelled was there when some cancel flag was written:
\* a flag left over from an earlier run does not stop it (start_geocode).
CancelIsFresh == \A j \in Jobs : row[j] = "cancelled" => j \in asked

\* Reconcilers leave a job alone that is being started, queued or run, with the
\* same exception: its row stays active.
LeftAlone == \A j \in Jobs : Clean(j) /\ stage[j] \in BeforeEnd => row[j] \notin Terminal

(***************************************************************************)
(* The inductive invariant behind the safety properties.                   *)
(***************************************************************************)
Good == {"completed", "cancelled"}
\* The starter's and the worker's stage agree with what they have written.
StageInv == \A j \in Jobs :
  /\ row[j] = "none" <=> stage[j] = "new"
  /\ stage[j] \in BeforeEnd => outcome[j] = "none"
  /\ stage[j] = "reporting" => j \in IngestJobs /\ outcome[j] = "completed"
  /\ stage[j] = "saving" => outcome[j] \in Good
  /\ stage[j] \in {"publishing", "returning"} => outcome[j] \in Terminal
  /\ stage[j] = "failing" => outcome[j] = "failed"
  /\ rq[j] = "finished" => stage[j] = "ended" /\ outcome[j] \in Terminal

\* Whoever is named, by a live key, a failing worker or a request, was created.
NamesInv ==
  /\ \A c \in Channels :
       /\ live[c].status \in Active => live[c].job \in Jobs
       /\ live[c].job \in Jobs => row[live[c].job] # "none"
  /\ \A j \in Jobs : named[j] \in Jobs => row[named[j]] # "none"
  /\ \A r \in Requests :
       /\ req[r].at \notin {"idle", "cancel"} => req[r].job \in Jobs /\ row[req[r].job] # "none"
       /\ req[r].at \in {"get", "finish"} => req[r].status \in Terminal
       /\ req[r].at \in {"row", "rq"} => req[r].status \in Active

\* Nobody says of a run that it ended well unless it did ...
RequestsTrue == \A r \in Requests :
  req[r].status \in Good => req[r].job \in Jobs /\ outcome[req[r].job] = req[r].status

\* ... and of a geocode run whose result may still fail to be saved nobody does.
Quiet(j) ==
  /\ row[j] \notin Good
  /\ \A c \in Channels : live[c].job = j => live[c].status \notin Good
  /\ \A r \in Requests : req[r].job = j => req[r].status \notin Good

QuietInv == \A j \in GeocodeJobs : stage[j] = "saving" => Quiet(j)

\* Type invariant and truth of verdicts, with what makes them inductive: no RQ
\* or live status outside the vocabulary of job_runs ever reaches a row or key.
JobInv == TypeOK /\ StageInv /\ NamesInv /\ VerdictIsTrue /\ RequestsTrue /\ QuietInv

\* The RQ record agrees with the stage.
RqInv == \A j \in Jobs :
  /\ rq[j] = "missing" => stage[j] \in {"new"} \cup Starting \cup Over
  /\ rq[j] = "queued"  => stage[j] = "waiting"
  /\ rq[j] = "started" => stage[j] \in Working \cup {"dead"}
  /\ rq[j] = "failed"  => stage[j] \in Over

\* Jobs that are in flight together are marked as sharing their channel, and a
\* failing worker names another unmarked job only after that one is over.
SharedInv ==
  /\ \A j, k \in Jobs : j # k /\ Chan(j) = Chan(k) /\ InFlight(j) /\ InFlight(k) => j \in shared
  /\ \A c \in Channels : live[c].job \in Jobs => Chan(live[c].job) = c
  /\ \A j \in Jobs :
       /\ stage[j] \in {"naming", "blaming"} => j \in IngestJobs
       /\ named[j] # NoJob =>
            /\ stage[j] = "blaming" /\ named[j] \in IngestJobs
            /\ named[j] \in shared \cup {j} \/ stage[named[j]] \in Over

\* Somebody takes run j for closed with verdict s.
Says(j, s) ==
  \/ \E c \in Channels : live[c].job = j /\ live[c].status = s
  \/ \E r \in Requests : req[r].at \in {"get", "finish", "write"} /\ req[r].job = j /\ req[r].status = s

\* Until the worker may save a verdict nobody takes the run for closed, and
\* while it saves one nobody has another verdict in mind.
UndecidedInv == \A j \in Jobs : Clean(j) =>
  /\ stage[j] \in BeforeEnd \cup {"failing"} =>
       row[j] \notin Terminal /\ \A s \in Terminal : ~Says(j, s)
  /\ stage[j] \in {"reporting", "saving"} => \A s \in Terminal :
       row[j] = s \/ Says(j, s) => j \in IngestJobs /\ s = outcome[j]

\* Requests that are about to close a run agree with its worker.
FinishInv ==
  /\ \A j \in Jobs :
       /\ stage[j] \in BeforeEnd \cup {"reporting", "saving", "failing"} => saved[j] = "none"
       /\ saved[j] # "none" => row[j] \in Terminal
  /\ \A r \in Requests :
       LET j == req[r].job
       IN  req[r].at = "finish" /\ Clean(j) /\ saved[j] # "none" => req[r].status = saved[j]

\* Workers' verdicts stand, with what makes that inductive: whatever a request
\* has read, it never takes a run for closed before its worker has closed it.
StandInv == RqInv /\ SharedInv /\ UndecidedInv /\ FinishInv /\ VerdictStands

History == INSTANCE RunRow WITH Jobs <- Jobs, row <- row, outcome <- outcome

\* The rows behave as the job history promises (module RunRow).
HistorySafety == History!Safety

\* Every run that was created gets closed, through lost starters, crashed
\* workers, swallowed database errors and expired RQ records.
RowsClose == History!Closes

\* When no job is started any more, the live keys stop claiming that one is
\* queued or running.
LiveSettles == \A c \in Channels : <>[](live[c].status \notin Active)
=============================================================================
