----------------------------- MODULE JobThreads -----------------------------
(***************************************************************************)
(* The life of the jobs of one make without Redis: IngestJobManager and    *)
(* GeocodeJobManager run each job in a daemon thread of the web process.   *)
(* A manager keeps one progress object and one thread under a lock; the    *)
(* job_runs row is written by the thread and by the overview, which        *)
(* closes the row that a finished progress object names.                   *)
(*                                                                         *)
(* Whatever happens under a manager's lock is one action: no other thread  *)
(* sees the states in between, and no code holds two of the locks.  Of a   *)
(* progress object only the status and the run id it is reported with are  *)
(* kept; _update never changes either, so it is no action.  In this mode   *)
(* _sanitize_live_status only reads.                                       *)
(***************************************************************************)
EXTENDS Naturals, FiniteSets

CONSTANTS IngestJobs,   \* runs of ingests and dealer refreshes
          GeocodeJobs,  \* runs of geocode jobs
          Requests,     \* overview requests in progress at once
          NoJob

Jobs == IngestJobs \cup GeocodeJobs

ASSUME ThreadsAssumption ==
  /\ IngestJobs \cap GeocodeJobs = {}
  /\ NoJob \notin Jobs

VARIABLES
  row,       \* row[j]: job_runs.status, "none" before the INSERT
  outcome,   \* outcome[j]: how the body ended, as far as the thread says
  stage,     \* stage[j]: where the thread of j is
  thread,    \* thread[c]: the job whose thread manager c has alive
  shown,     \* shown[c]: status and run id that manager c reports
  cancel,    \* the threading.Event of the geocode manager
  req,       \* req[r]: what an overview has read and is about to do
  saved,     \* history: the verdict the thread of j wrote to its row
  asked      \* history: geocode jobs that were alive when cancel() was called

vars == <<row, outcome, stage, thread, shown, cancel, req, saved, asked>>

Chan(j)  == IF j \in IngestJobs THEN "ingest" ELSE "geocode"
Channels == {"ingest", "geocode"}
Terminal == {"completed", "failed", "cancelled"}
AliveAt  == {"starting", "body", "raised", "saving", "failing", "ending"}

Nothing == [status |-> "idle", job |-> NoJob]
Idle    == [at |-> "idle", job |-> NoJob, status |-> "idle"]

TypeOK ==
  /\ row \in [Jobs -> {"none", "running"} \cup Terminal]
  /\ outcome \in [Jobs -> {"none"} \cup Terminal]
  /\ stage \in [Jobs -> {"new", "over"} \cup AliveAt]
  /\ thread \in [Channels -> Jobs \cup {NoJob}]
  /\ shown \in [Channels -> [status : {"idle", "running"} \cup Terminal, job : Jobs \cup {NoJob}]]
  /\ cancel \in BOOLEAN
  /\ req \in [Requests -> [at : {"idle", "get", "finish"}, job : Jobs \cup {NoJob},
                           status : {"idle"} \cup Terminal]]
  /\ saved \in [Jobs -> {"none"} \cup Terminal]
  /\ asked \subseteq GeocodeJobs

Init ==
  /\ row     = [j \in Jobs |-> "none"]
  /\ outcome = [j \in Jobs |-> "none"]
  /\ stage   = [j \in Jobs |-> "new"]
  /\ thread  = [c \in Channels |-> NoJob]
  /\ shown   = [c \in Channels |-> Nothing]
  /\ cancel  = FALSE
  /\ req     = [r \in Requests |-> Idle]
  /\ saved   = [j \in Jobs |-> "none"]
  /\ asked   = {}

Step(j, from, to) == stage[j] = from /\ stage' = [stage EXCEPT ![j] = to]
Show(c, s, j)     == shown' = [shown EXCEPT ![c] = [status |-> s, job |-> j]]
Save(j, s)        == row' = [row EXCEPT ![j] = s] /\ saved' = [saved EXCEPT ![j] = s]

-----------------------------------------------------------------------------
(* Starting and cancelling.                                                *)

\* Mutant of Start: the event of an earlier cancel is not cleared.
StartUncleared(j) ==
  /\ thread[Chan(j)] = NoJob
  /\ Step(j, "new", "starting")
  /\ row' = [row EXCEPT ![j] = "running"]
  /\ thread' = [thread EXCEPT ![Chan(j)] = j]
  /\ Show(Chan(j), "running", j)
  /\ UNCHANGED <<outcome, cancel, req, saved, asked>>

\* Mutant of Start: the progress object of the job before is kept.
StartUnreset(j) ==
  /\ thread[Chan(j)] = NoJob
  /\ Step(j, "new", "starting")
  /\ row' = [row EXCEPT ![j] = "running"]
  /\ thread' = [thread EXCEPT ![Chan(j)] = j]
  /\ Show(Chan(j), shown[Chan(j)].status, j)
  /\ cancel' = (cancel /\ j \in IngestJobs)
  /\ UNCHANGED <<outcome, req, saved, asked>>

Start(j) ==
  /\ thread[Chan(j)] = NoJob
  /\ Step(j, "new", "starting")
  /\ row' = [row EXCEPT ![j] = "running"]
  /\ thread' = [thread EXCEPT ![Chan(j)] = j]
  /\ Show(Chan(j), "running", j)
  /\ cancel' = (cancel /\ j \in IngestJobs)
  /\ UNCHANGED <<outcome, req, saved, asked>>

\* The INSERT raises.  The ingest manager has reset its progress by then but
\* still has the run id of the job before.
StartFails(c) ==
  /\ thread[c] = NoJob
  /\ IF c = "ingest"
     THEN Show(c, "running", shown[c].job) /\ UNCHANGED cancel
     ELSE cancel' = FALSE /\ UNCHANGED shown
  /\ UNCHANGED <<row, outcome, stage, thread, req, saved, asked>>

Cancel ==
  /\ thread["geocode"] # NoJob
  /\ cancel' = TRUE
  /\ asked' = asked \cup {thread["geocode"]}
  /\ UNCHANGED <<row, outcome, stage, thread, shown, req, saved>>

-----------------------------------------------------------------------------
(* The threads.                                                            *)

\* The request is built, the connection opened: both before the try block.
Prepare(j) ==
  /\ Step(j, "starting", "body") \/ Step(j, "starting", "ending")
  /\ UNCHANGED <<row, outcome, thread, shown, cancel, req, saved, asked>>

\* The progress object is shared with the body, so its last emit_progress shows
\* "completed" at once; the assignments under the lock come later.
IngestEnds(j, s) ==
  /\ j \in IngestJobs
  /\ Step(j, "body", "saving")
  /\ outcome' = [outcome EXCEPT ![j] = s]
  /\ Show("ingest", s, j)
  /\ UNCHANGED <<row, thread, cancel, req, saved, asked>>

\* Mutant of IngestSaves: a dealer refresh that failed saved as completed.
IngestSavesCompleted(j) ==
  /\ j \in IngestJobs
  /\ Step(j, "saving", "ending")
  /\ Save(j, "completed") \/ UNCHANGED <<row, saved>>
  /\ UNCHANGED <<outcome, thread, shown, cancel, req, asked>>

\* A row write that raises is logged.
IngestSaves(j) ==
  /\ j \in IngestJobs
  /\ Step(j, "saving", "ending")
  /\ Save(j, outcome[j]) \/ UNCHANGED <<row, saved>>
  /\ UNCHANGED <<outcome, thread, shown, cancel, req, asked>>

\* The geocode thread decides and writes its row under the lock; if the write
\* raises, the lock is released while the progress says completed or cancelled.
GeocodeReturns(j) ==
  LET s == IF cancel THEN "cancelled" ELSE "completed"
  IN  /\ j \in GeocodeJobs
      /\ \/ Step(j, "body", "ending") /\ Save(j, s)
         \/ Step(j, "body", "raised") /\ UNCHANGED <<row, saved>>
      /\ outcome' = [outcome EXCEPT ![j] = s]
      /\ Show("geocode", s, j)
      /\ UNCHANGED <<thread, cancel, req, asked>>

\* Mutant of GeocodeFails: the failure is saved, not reported.
GeocodeFailsUnseen(j) ==
  /\ j \in GeocodeJobs
  /\ Step(j, "body", "failing") \/ Step(j, "raised", "failing")
  /\ outcome' = [outcome EXCEPT ![j] = "failed"]
  /\ UNCHANGED <<row, thread, shown, cancel, req, saved, asked>>

GeocodeFails(j) ==
  /\ j \in GeocodeJobs
  /\ Step(j, "body", "failing") \/ Step(j, "raised", "failing")
  /\ outcome' = [outcome EXCEPT ![j] = "failed"]
  /\ Show("geocode", "failed", j)
  /\ UNCHANGED <<row, thread, cancel, req, saved, asked>>

GeocodeSavesFailure(j) ==
  /\ Step(j, "failing", "ending")
  /\ Save(j, "failed") \/ UNCHANGED <<row, saved>>
  /\ UNCHANGED <<outcome, thread, shown, cancel, req, asked>>

ThreadEnds(j) ==
  /\ Step(j, "ending", "over")
  /\ thread' = [thread EXCEPT ![Chan(j)] = NoJob]
  /\ UNCHANGED <<row, outcome, shown, cancel, req, saved, asked>>

\* The web process ends, and its daemon threads, managers and requests with it.
ServerDies ==
  /\ stage' = [j \in Jobs |-> IF stage[j] \in AliveAt THEN "over" ELSE stage[j]]
  /\ thread' = [c \in Channels |-> NoJob]
  /\ shown' = [c \in Channels |-> Nothing]
  /\ cancel' = FALSE
  /\ req' = [r \in Requests |-> Idle]
  /\ UNCHANGED <<row, outcome, saved, asked>>

-----------------------------------------------------------------------------
(* reconcile_live_job_run of an overview.                                  *)

ReconcileLive(r, c) ==
  /\ req[r].at = "idle"
  /\ shown[c].job # NoJob /\ shown[c].status \in Terminal
  /\ req' = [req EXCEPT ![r] = [at |-> "get", job |-> shown[c].job, status |-> shown[c].status]]
  /\ UNCHANGED <<row, outcome, stage, thread, shown, cancel, saved, asked>>

\* Mutant of Get: reconcile_if_stale takes every row for closed.
GetClosed(r) ==
  /\ req[r].at = "get"
  /\ req' = [req EXCEPT ![r] = Idle]
  /\ UNCHANGED <<row, outcome, stage, thread, shown, cancel, saved, asked>>

Get(r) ==
  /\ req[r].at = "get"
  /\ req' = [req EXCEPT ![r] = IF row[req[r].job] = "running" THEN [@ EXCEPT !.at = "finish"] ELSE Idle]
  /\ UNCHANGED <<row, outcome, stage, thread, shown, cancel, saved, asked>>

Finish(r) ==
  /\ req[r].at = "finish"
  /\ row' = [row EXCEPT ![req[r].job] = req[r].status]
  /\ req' = [req EXCEPT ![r] = Idle]
  /\ UNCHANGED <<outcome, stage, thread, shown, cancel, saved, asked>>

-----------------------------------------------------------------------------
Work(j) ==
  \/ Prepare(j) \/ (\E s \in {"completed", "failed"} : IngestEnds(j, s)) \/ IngestSaves(j)
  \/ GeocodeReturns(j) \/ GeocodeFails(j) \/ GeocodeSavesFailure(j) \/ ThreadEnds(j)

Next ==
  \/ \E j \in Jobs : Start(j) \/ Work(j)
  \/ \E c \in Channels : StartFails(c)
  \/ Cancel \/ ServerDies
  \/ \E r \in Requests : (\E c \in Channels : ReconcileLive(r, c)) \/ Get(r) \/ Finish(r)

Spec == Init /\ [][Next]_vars

\* Accepted requests are answered and the admin page polls the overview.
Fairness ==
  /\ \A c \in Channels : SF_vars(\E r \in Requests : ReconcileLive(r, c))
  /\ \A r \in Requests : WF_vars(Get(r) \/ Finish(r))

FairSpec == Spec /\ Fairness

-----------------------------------------------------------------------------
(* Properties.                                                             *)

\* A manager has one job at a time, and what it reports of a job as ended is
\* how that job ended, also after a start that failed half-way (start, status).
ThreadsInv ==
  /\ TypeOK
  /\ \A j \in Jobs : stage[j] \in AliveAt <=> thread[Chan(j)] = j
  /\ \A c \in Channels : thread[c] # NoJob => Chan(thread[c]) = c
  /\ \A c \in Channels : shown[c].status \in Terminal =>
       shown[c].job \in Jobs /\ Chan(shown[c].job) = c /\ outcome[shown[c].job] = shown[c].status
  /\ \A r \in Requests : req[r].at # "idle" => req[r].job \in Jobs /\ req[r].status \in Terminal

\* The row of an ingest says how it ended, whoever wrote it, and what its thread
\* wrote stays: overviews close it with what the thread is about to write.
IngestVerdictStands ==
  \A j \in IngestJobs :
    /\ row[j] \in Terminal => row[j] = outcome[j]
    /\ saved[j] # "none" => row[j] = saved[j]

\* Only a geocode job that was alive when somebody asked to cancel is recorded
\* as cancelled: an event set for an earlier job does not count.
CancelledWasAsked == \A j \in Jobs : row[j] = "cancelled" => j \in asked

\* Geocoding is reported as running without a thread that does it only when the
\* thread died before its try block, so that nothing ever said how it ended and
\* its row is open too.  Every other way a thread ends takes the report back,
\* which maybe_start_geocode_job takes for the job (geocode_is_running).
StuckIsUnprepared ==
  shown["geocode"].status = "running" /\ thread["geocode"] = NoJob =>
    outcome[shown["geocode"].job] = "none" /\ row[shown["geocode"].job] = "running"

\* A run that is reported as ended gets its row closed, even if its thread could
\* not write it, unless the manager moves on to another job or dies first.
ReportedRunsClose ==
  \A c \in Channels : \A j \in Jobs :
    shown[c].job = j /\ shown[c].status \in Terminal
      ~> row[j] \in Terminal \/ shown[c].job # j \/ shown[c].status \notin Terminal
=============================================================================
