------------------------------- MODULE RunRow -------------------------------
(***************************************************************************)
(* What the job history promises a reader of the job_runs table, whatever  *)
(* queue, worker or reconciler wrote it.  A run is created queued, may be  *)
(* marked running, and is closed with a terminal status; a closed run may  *)
(* be closed again with another verdict but is never reopened, and the     *)
(* verdicts "completed" and "cancelled" are only given to a run whose body *)
(* ended that way.  JobLifecycle is shown to implement this specification. *)
(***************************************************************************)
CONSTANT Jobs

VARIABLES row,      \* row[j]: status column of the run, "none" before the insert
          outcome   \* outcome[j]: how the body of the run ended, "none" before

Active   == {"queued", "running"}
Terminal == {"completed", "failed", "cancelled"}

Init ==
  /\ row     = [j \in Jobs |-> "none"]
  /\ outcome = [j \in Jobs |-> "none"]

Create(j) ==
  /\ row[j] = "none"
  /\ row' = [row EXCEPT ![j] = "queued"]
  /\ UNCHANGED outcome

Begin(j) ==
  /\ row[j] = "queued"
  /\ row' = [row EXCEPT ![j] = "running"]
  /\ UNCHANGED outcome

\* The body ends; a run that has not been reported as completed or cancelled
\* may still turn into a failure.
BodyEnds(j, s) ==
  /\ row[j] # "none"
  /\ outcome[j] = "none" \/ (s = "failed" /\ row[j] \notin {"completed", "cancelled"})
  /\ outcome' = [outcome EXCEPT ![j] = s]
  /\ UNCHANGED row

Close(j, s) ==
  /\ row[j] # "none"
  /\ s \in {"completed", "cancelled"} => outcome[j] = s
  /\ row' = [row EXCEPT ![j] = s]
  /\ UNCHANGED outcome

Next == \E j \in Jobs :
  \/ Create(j)
  \/ Begin(j)
  \/ \E s \in Terminal : BodyEnds(j, s) \/ Close(j, s)

vars == <<row, outcome>>

Safety == Init /\ [][Next]_vars

\* A run that was created does not stay open for ever.
Closes == \A j \in Jobs : row[j] \in Active ~> row[j] \in Terminal
=============================================================================
