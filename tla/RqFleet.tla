------------------------------- MODULE RqFleet -------------------------------
(***************************************************************************)
(* One RQ queue, its workers and repair_rq_fleet, which runs when a worker *)
(* container starts (run_worker.py) and on POST /api/admin/workers/repair. *)
(*                                                                         *)
(* An RQ worker moves a job id from the queue to the intermediate queue in *)
(* one command and takes it off there when it has prepared the execution;  *)
(* a worker that dies in between leaves the job behind.  The repair reads  *)
(* the whole intermediate queue and then, one command at a time, removes   *)
(* each id and pushes it to the front of the queue.  Everything outside    *)
(* repair_rq_fleet is RQ's, modelled from how the code uses it.  Worker    *)
(* registrations, which cleanup_stale_workers tidies, are left out.        *)
(***************************************************************************)
EXTENDS Naturals, Sequences, SequencesExt

CONSTANTS Jobs, Workers, Repairs,
          NoJob,
          MaxEntries \* bound: entries of both queues up to which a repair pushes

ASSUME FleetAssumption == NoJob \notin Jobs /\ MaxEntries \in Nat

VARIABLES
  queue,         \* rq:queue:<name>
  intermediate,  \* rq:queue:<name>:intermediate
  status,        \* status[j] of the job record, "missing" before there is one,
                 \* "expired" when there is none any more
  worker,        \* worker[w]: what the worker does and with which job
  repair,        \* repair[r]: ids a repair in progress still has to reclaim
  lost,          \* history: jobs in the hands of a repair that died
  doubled        \* history: jobs pushed while queued or held by a worker

vars == <<queue, intermediate, status, worker, repair, lost, doubled>>

Free == [at |-> "free", job |-> NoJob]
Off  == [at |-> "off", todo |-> <<>>]

TypeOK ==
  /\ queue \in Seq(Jobs) /\ intermediate \in Seq(Jobs)
  /\ status \in [Jobs -> {"missing", "queued", "started", "ended", "expired"}]
  /\ worker \in [Workers -> [at : {"free", "taken", "running"}, job : Jobs \cup {NoJob}]]
  /\ \A r \in Repairs : repair[r].at \in {"off", "remove", "push"} /\ repair[r].todo \in Seq(Jobs)
  /\ lost \subseteq Jobs /\ doubled \subseteq Jobs

Init ==
  /\ queue = <<>> /\ intermediate = <<>>
  /\ status = [j \in Jobs |-> "missing"]
  /\ worker = [w \in Workers |-> Free]
  /\ repair = [r \in Repairs |-> Off]
  /\ lost = {} /\ doubled = {}

-----------------------------------------------------------------------------
(* RQ.                                                                     *)

\* _enqueue: prepare_job_enqueue finds no record of a new job_run_id.
Enqueue(j) ==
  /\ status[j] = "missing"
  /\ status' = [status EXCEPT ![j] = "queued"]
  /\ queue' = Append(queue, j)
  /\ UNCHANGED <<intermediate, worker, repair, lost, doubled>>

\* An id without a record is passed over and left where it is.
Dequeue(w) ==
  /\ worker[w].at = "free" /\ queue # <<>>
  /\ worker' = IF status[Head(queue)] = "expired" THEN worker
               ELSE [worker EXCEPT ![w] = [at |-> "taken", job |-> Head(queue)]]
  /\ intermediate' = Append(intermediate, Head(queue))
  /\ queue' = Tail(queue)
  /\ UNCHANGED <<status, repair, lost, doubled>>

\* The status, the registries and the intermediate queue change in one pipeline.
PrepareExecution(w) ==
  /\ worker[w].at = "taken"
  /\ worker' = [worker EXCEPT ![w].at = "running"]
  /\ status' = [status EXCEPT ![worker[w].job] = "started"]
  /\ intermediate' = RemoveFirst(intermediate, worker[w].job)
  /\ UNCHANGED <<queue, repair, lost, doubled>>

JobEnds(w) ==
  /\ worker[w].at = "running"
  /\ status' = [status EXCEPT ![worker[w].job] = "ended"]
  /\ worker' = [worker EXCEPT ![w] = Free]
  /\ UNCHANGED <<queue, intermediate, repair, lost, doubled>>

WorkerDies(w) ==
  /\ worker[w].at # "free"
  /\ worker' = [worker EXCEPT ![w] = Free]
  /\ UNCHANGED <<queue, intermediate, status, repair, lost, doubled>>

\* RQ fails a started job whose worker is gone.
Reap(j) ==
  /\ status[j] = "started"
  /\ \A w \in Workers : worker[w] # [at |-> "running", job |-> j]
  /\ status' = [status EXCEPT ![j] = "ended"]
  /\ UNCHANGED <<queue, intermediate, worker, repair, lost, doubled>>

\* The record of an ended job is dropped after its result TTL, long after any
\* worker has come to hold it.
Expires(j) ==
  /\ status[j] = "ended" /\ \A w \in Workers : worker[w].job # j
  /\ status' = [status EXCEPT ![j] = "expired"]
  /\ UNCHANGED <<queue, intermediate, worker, repair, lost, doubled>>

-----------------------------------------------------------------------------
(* repair_rq_fleet for this queue.                                         *)

RepairReads(r) ==
  /\ repair[r].at = "off" /\ intermediate # <<>>
  /\ repair' = [repair EXCEPT ![r] = [at |-> "remove", todo |-> intermediate]]
  /\ UNCHANGED <<queue, intermediate, status, worker, lost, doubled>>

RepairRemoves(r) ==
  /\ repair[r].at = "remove"
  /\ intermediate' = RemoveFirst(intermediate, Head(repair[r].todo))
  /\ repair' = [repair EXCEPT ![r].at = "push"]
  /\ UNCHANGED <<queue, status, worker, lost, doubled>>

Advance(r) ==
  LET rest == Tail(repair[r].todo)
  IN  repair' = [repair EXCEPT ![r] = IF rest = <<>> THEN Off ELSE [at |-> "remove", todo |-> rest]]

Listed(j) == j \in ToSet(queue) \cup ToSet(intermediate)
Held(j)   == \E w \in Workers : worker[w].job = j

\* push_job_id(at_front=True) of an id whose record exists.
Push(j, entries) ==
  IF status[j] = "expired" THEN UNCHANGED <<queue, doubled>>
  ELSE /\ Len(queue) + Len(intermediate) < MaxEntries
       /\ queue' = entries \o queue
       /\ doubled' = IF Listed(j) \/ Held(j) THEN doubled \cup {j} ELSE doubled

\* Mutant of RepairPushes: a job that still counts as queued is not pushed again.
RepairPushesOthers(r) ==
  LET j == Head(repair[r].todo)
  IN  /\ repair[r].at = "push"
      /\ IF status[j] \in {"started", "ended"} THEN Push(j, <<j>>) ELSE UNCHANGED <<queue, doubled>>
      /\ Advance(r)
      /\ UNCHANGED <<intermediate, status, worker, lost>>

\* Mutant of RepairPushes: the id is pushed and enqueued again as well.
RepairPushesTwice(r) ==
  LET j == Head(repair[r].todo)
  IN  /\ repair[r].at = "push"
      /\ Push(j, <<j, j>>)
      /\ Advance(r)
      /\ UNCHANGED <<intermediate, status, worker, lost>>

\* The id is pushed to the front if the job record exists, whatever it says.
RepairPushes(r) ==
  LET j == Head(repair[r].todo)
  IN  /\ repair[r].at = "push"
      /\ Push(j, <<j>>)
      /\ Advance(r)
      /\ UNCHANGED <<intermediate, status, worker, lost>>

RepairDies(r) ==
  /\ repair[r].at # "off"
  /\ lost' = IF repair[r].at = "push" THEN lost \cup {Head(repair[r].todo)} ELSE lost
  /\ repair' = [repair EXCEPT ![r] = Off]
  /\ UNCHANGED <<queue, intermediate, status, worker, doubled>>

-----------------------------------------------------------------------------

Next ==
  \/ \E j \in Jobs : Enqueue(j) \/ Reap(j) \/ Expires(j)
  \/ \E w \in Workers : Dequeue(w) \/ PrepareExecution(w) \/ JobEnds(w) \/ WorkerDies(w)
  \/ \E r \in Repairs : RepairReads(r) \/ RepairRemoves(r) \/ RepairPushes(r) \/ RepairDies(r)

Spec == Init /\ [][Next]_vars

-----------------------------------------------------------------------------
(* Properties.                                                             *)

InHand(j) == \E r \in Repairs : repair[r].at = "push" /\ Head(repair[r].todo) = j

\* A job that counts as queued can still be found by a worker or by a repair,
\* through dying workers and repairs that work on the same ids at once.  Only a
\* repair that dies between its two commands loses one, and then its job_runs
\* row stays queued for ever, because its RQ status does.
NeverLost ==
  TypeOK /\ \A j \in Jobs \ lost : status[j] = "queued" => Listed(j) \/ InHand(j)

\* Two workers run a job at once only if a repair has pushed its id while it
\* was queued or in the hands of a worker: a repair reads ids that a live worker
\* has just taken, or that another repair is about to push.  Nothing else that
\* dies or is repaired gives a job to a second worker.
RunsOnceUnlessDoubled ==
  \A w1, w2 \in Workers :
    w1 # w2 /\ worker[w1].at = "running" /\ worker[w2].at = "running" /\ worker[w1].job = worker[w2].job
      => worker[w1].job \in doubled
=============================================================================
