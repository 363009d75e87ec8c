----------------------------- MODULE GeocodeBatch -----------------------------
(***************************************************************************)
(* geocode_all_dealers against the others who write dealer_geo_cache: the  *)
(* dealer sync of a Mazda ingest and the administrator.  Worker threads    *)
(* ask the geocoders; one thread takes their answers in the order they     *)
(* come, stores them and commits every CommitEvery answers.  With one      *)
(* worker the dealers are asked one after the other and every answer is    *)
(* committed.                                                              *)
(*                                                                         *)
(* The database is MySQL as in InventoryRuns: a row that a transaction has *)
(* written is locked until it ends; the victim of a deadlock loses all it  *)
(* has written, and its statement is tried again on its own; a wait that   *)
(* takes too long fails the statement.  What the geocoders do for one      *)
(* dealer is GeocodeSources' subject.                                      *)
(***************************************************************************)
EXTENDS Naturals, Sequences, FiniteSets

CONSTANTS Dealers,     \* naturals, the batch lists them in this order
          MaxWorkers, CommitEvery,
          GeoAnswers,  \* GeoAnswers[d]: what geocode_dealer_record may return or raise
          Before,      \* bound: kinds of the rows when the batch begins, by dealer
          Orders,      \* bound: the dealers of a sync, in the order of the site
          MaxSyncs,    \* bound: dealer syncs of ingests, begun while the batch runs
          MaxAdmin     \* bound: requests of the administrator, made while it runs

\* A row: "failed" without coordinates, "named" with a state's full name, "oem"
\* with a query_text that begins with oem:, "full" from a geocoder.
Kinds   == {"none", "failed", "named", "oem", "full"}
Writers == {"batch", "sync", "admin"}
RowType == [kind : Kinds, by : Writers \cup {"before"}]
Absent  == [kind |-> "none", by |-> "before"]

\* What geocode_dealer_record returns or raises; all its sources normalize the state.
Replies == {"full", "failed", "error"}

ASSUME BatchAssumption ==
  /\ Dealers \subseteq Nat /\ IsFiniteSet(Dealers)
  /\ MaxWorkers \in Nat \ {0} /\ CommitEvery \in Nat \ {0}
  /\ MaxSyncs \in Nat /\ MaxAdmin \in Nat
  /\ GeoAnswers \in [Dealers -> SUBSET Replies]
  /\ Before \subseteq [Dealers -> Kinds]
  /\ Orders \subseteq Seq(Dealers) \ {<<>>}

VARIABLES
  cache,     \* dealer_geo_cache, as committed
  tx,        \* tx[w][d]: row of d that w has written and not committed, or Absent
  pc,        \* next statement of the batch
  force,     \* the batch lists all dealers, not only those that need it
  workers,
  todo,      \* the dealers listed
  thread,    \* thread[d]: the task of dealer d
  answers,   \* tasks that are done and not yet taken, in the order they were done
  hand,      \* dealer and answer taken last
  tally,     \* completed, geocoded, failed
  cancel,    \* should_cancel()
  sync,      \* dealers an ingest has still to write, and whether it is in its transaction
  admin,     \* dealer the administrator has asked to geocode, or 0
  used,      \* syncs and requests of the administrator so far
  touched,   \* history: dealers whose row others have committed or deleted since the list
  good,      \* history: dealers counted as geocoded
  missed,    \* history: dealers whose answer was an error, was not stored, or was
             \* stored in a transaction that a deadlock rolled back
  late       \* history: answers taken or stored since the cancel request

batch == <<pc, force, workers, todo, thread, answers, hand, tally>>
past  == <<touched, good, missed, late>>
vars  == <<cache, tx, batch, cancel, sync, admin, used, past>>

Ended == {"done", "failed"}
Nothing == <<0, "error">>
Total == Cardinality(todo)

NoTx     == [d \in Dealers |-> Absent]
Locks(w) == {d \in Dealers : tx[w][d].kind # "none"}

TypeOK ==
  /\ cache \in [Dealers -> RowType]
  /\ tx \in [{"batch", "sync"} -> [Dealers -> RowType]] /\ Locks("batch") \cap Locks("sync") = {}
  /\ pc \in {"new", "check", "await", "store", "count"} \cup Ended
  /\ force \in BOOLEAN /\ workers \in 1 .. MaxWorkers /\ todo \subseteq Dealers
  /\ thread \in [Dealers -> {"off", "waiting", "running", "over"}]
  /\ Cardinality({d \in Dealers : thread[d] = "running"}) <= workers
  /\ answers \in Seq(Dealers \X Replies) /\ hand \in (Dealers \cup {0}) \X Replies
  /\ tally \in [completed : 0 .. Total, geocoded : Nat, failed : Nat]
  /\ (pc = "check" \/ pc = "done") => tally.geocoded + tally.failed = tally.completed
  /\ cancel \in BOOLEAN /\ admin \in Dealers \cup {0}
  /\ sync.rest \in Seq(Dealers) /\ sync.open \in BOOLEAN
  /\ used \in [syncs : 0 .. MaxSyncs, admin : 0 .. MaxAdmin]
  /\ {touched, good, missed} \subseteq SUBSET Dealers /\ late \in Nat

Init ==
  /\ cache \in {[d \in Dealers |-> [kind |-> b[d], by |-> "before"]] : b \in Before}
  /\ tx = [w \in {"batch", "sync"} |-> NoTx]
  /\ pc = "new" /\ force \in BOOLEAN /\ workers \in 1 .. MaxWorkers /\ todo = {}
  /\ thread = [d \in Dealers |-> "off"] /\ answers = <<>> /\ hand = Nothing
  /\ tally = [completed |-> 0, geocoded |-> 0, failed |-> 0]
  /\ cancel = FALSE /\ sync = [rest |-> <<>>, open |-> FALSE] /\ admin = 0
  /\ used = [syncs |-> 0, admin |-> 0]
  /\ touched = {} /\ good = {} /\ missed = {} /\ late = 0

\* The committed rows with those of a transaction over them.
Merged(rows) == [d \in Dealers |-> IF rows[d].kind = "none" THEN cache[d] ELSE rows[d]]
Commit(w)    == cache' = Merged(tx[w]) /\ tx' = [tx EXCEPT ![w] = NoTx]
Rollback(w)  == tx' = [tx EXCEPT ![w] = NoTx]
Write(w, d, k) == tx' = [tx EXCEPT ![w][d] = [kind |-> k, by |-> w]]

-----------------------------------------------------------------------------
(* The batch.                                                              *)

\* Mutant of NeedsGeocode: every row but a failed one is asked again.
NeedsFresh(d, rows) == rows[d].kind # "failed"

\* _dealer_needs_geocode_sql.
NeedsGeocode(d, rows) == rows[d].kind # "full"

\* normalize_cached_states, then the list.
List ==
  /\ pc = "new" /\ pc' = "check"
  /\ {d \in Dealers : cache[d].kind = "named"} \cap Locks("sync") = {}
  /\ cache' = [d \in Dealers |-> IF cache[d].kind = "named" THEN [cache[d] EXCEPT !.kind = "full"] ELSE cache[d]]
  /\ todo' = {d \in Dealers : force \/ NeedsGeocode(d, cache')}
  /\ thread' = [d \in Dealers |-> IF d \in todo' THEN "waiting" ELSE "off"]
  /\ touched' = {}
  /\ UNCHANGED <<tx, force, workers, answers, hand, tally, cancel, sync, admin, used, good, missed, late>>

Elsewhere == UNCHANGED <<sync, admin, used, touched>>
Constant  == UNCHANGED <<force, workers, todo>>

\* A worker thread starts on the next dealer: the semaphore is fair.  A lone
\* worker is the batch's own thread, which asks after its check.
Ask(d) ==
  /\ thread[d] = "waiting" /\ \A e \in todo : e < d => thread[e] # "waiting"
  /\ Cardinality({e \in todo : thread[e] = "running"}) < workers
  /\ pc \notin Ended /\ (workers = 1 => pc = "await" /\ answers = <<>>)
  /\ thread' = [thread EXCEPT ![d] = "running"]
  /\ UNCHANGED <<cache, tx, pc, force, workers, todo, answers, hand, tally, cancel, sync, admin, used, past>>

\* Mutant of Answered: an error does not give the semaphore back.
AnsweredHeld(d, a) ==
  /\ thread[d] = "running" /\ d \notin missed /\ \A i \in DOMAIN answers : answers[i][1] # d
  /\ thread' = IF a = "error" THEN thread ELSE [thread EXCEPT ![d] = "over"]
  /\ answers' = Append(answers, <<d, a>>)
  /\ UNCHANGED <<cache, tx, pc, force, workers, todo, hand, tally, cancel, sync, admin, used, past>>

\* _geocode_dealer_row catches every exception.
Answered(d, a) ==
  /\ thread[d] = "running"
  /\ thread' = [thread EXCEPT ![d] = "over"]
  /\ answers' = Append(answers, <<d, a>>)
  /\ UNCHANGED <<cache, tx, pc, force, workers, todo, hand, tally, cancel, sync, admin, used, past>>

\* The tasks that are not done are cancelled; a running thread goes on unheard.
DropAll ==
  /\ thread' = [d \in Dealers |-> IF thread[d] = "off" THEN "off" ELSE "over"]
  /\ answers' = <<>>

\* Mutant of Finish: the last answers are left to the commits of the loop.
FinishUncommitted == Rollback("batch") /\ UNCHANGED cache

\* The commit after the loop.
Finish == Commit("batch")

\* Mutant of Check: the batch is not asked to stop.
CheckNoCancel ==
  /\ pc = "check"
  /\ IF tally.completed = Total THEN pc' = "done" /\ Finish /\ DropAll
                                ELSE pc' = "await" /\ UNCHANGED <<cache, tx, thread, answers>>
  /\ Constant /\ Elsewhere /\ UNCHANGED <<hand, tally, cancel, good, missed, late>>

\* The head of the loop, before the next answer is there.
Check ==
  /\ pc = "check"
  /\ IF cancel \/ tally.completed = Total
     THEN pc' = "done" /\ Finish /\ DropAll
     ELSE pc' = "await" /\ UNCHANGED <<cache, tx, thread, answers>>
  /\ Constant /\ Elsewhere /\ UNCHANGED <<hand, tally, cancel, good, missed, late>>

Take ==
  LET failing == Head(answers)[2] = "error"
  IN  /\ pc = "await" /\ answers # <<>>
      /\ hand' = Head(answers) /\ answers' = Tail(answers)
      /\ tally' = [tally EXCEPT !.completed = @ + 1, !.failed = IF failing THEN @ + 1 ELSE @]
      /\ pc' = IF failing THEN "count" ELSE "store"
      /\ missed' = IF failing THEN missed \cup {Head(answers)[1]} ELSE missed
      /\ late' = IF cancel THEN late + 1 ELSE late
      /\ Constant /\ Elsewhere /\ UNCHANGED <<cache, tx, thread, cancel, good>>

\* _store_dealer_geo.
Store ==
  LET d == hand[1]
      k == hand[2]
  IN  /\ pc = "store" /\ pc' = "count" /\ d \notin Locks("sync")
      /\ Write("batch", d, k)
      /\ tally' = [tally EXCEPT !.geocoded = IF k = "full" THEN @ + 1 ELSE @,
                                !.failed = IF k = "full" THEN @ ELSE @ + 1]
      /\ good' = IF k = "full" THEN good \cup {d} ELSE good
      /\ touched' = touched \ {d}
      /\ Constant /\ UNCHANGED <<cache, thread, answers, hand, cancel, sync, admin, used, missed, late>>

\* Lock wait timeout, or the last attempt of execute_with_retry: logged.
StoreFails ==
  /\ pc = "store" /\ pc' = "count" /\ hand[1] \in Locks("sync")
  /\ tally' = [tally EXCEPT !.failed = @ + 1]
  /\ missed' = missed \cup {hand[1]}
  /\ Constant /\ Elsewhere /\ UNCHANGED <<cache, tx, thread, answers, hand, cancel, good, late>>

CommitDue == workers = 1 \/ tally.completed % CommitEvery = 0 \/ tally.completed = Total

Count ==
  /\ pc = "count" /\ pc' = "check" /\ hand' = Nothing
  /\ IF CommitDue THEN Commit("batch") ELSE UNCHANGED <<cache, tx>>
  /\ Constant /\ Elsewhere /\ UNCHANGED <<thread, answers, tally, cancel, good, missed, late>>

\* The progress callback, should_cancel or a commit raises, or the worker is
\* killed: the connection is closed and its transaction is lost.
BatchFails ==
  /\ pc \notin Ended /\ pc' = "failed"
  /\ Rollback("batch") /\ DropAll /\ hand' = Nothing
  /\ Constant /\ Elsewhere /\ UNCHANGED <<cache, tally, cancel, good, missed, late>>

-----------------------------------------------------------------------------
(* The others.                                                             *)

Cancel ==
  /\ ~cancel /\ pc \notin Ended /\ cancel' = TRUE
  /\ late' = IF pc = "store" THEN 1 ELSE 0
  /\ UNCHANGED <<cache, tx, batch, sync, admin, used, touched, good, missed>>

Others == UNCHANGED <<batch, cancel, good, late>>

\* persist_mazda_dealers: the dealers the site has named, in its order.
SyncBegins(ds) ==
  /\ sync.rest = <<>> /\ ~sync.open /\ used.syncs < MaxSyncs /\ pc \notin Ended
  /\ used' = [used EXCEPT !.syncs = @ + 1]
  /\ sync' = [rest |-> ds, open |-> TRUE]
  /\ Others /\ UNCHANGED <<cache, tx, admin, touched, missed>>

\* store_dealer_geo_coordinates writes over whatever is there.
SyncStores ==
  /\ sync.rest # <<>> /\ Head(sync.rest) \notin Locks("batch")
  /\ Write("sync", Head(sync.rest), "oem")
  /\ sync' = [sync EXCEPT !.rest = Tail(@)]
  /\ Others /\ UNCHANGED <<cache, admin, used, touched, missed>>

SyncCommits ==
  /\ sync.open /\ sync.rest = <<>>
  /\ Commit("sync") /\ touched' = touched \cup Locks("sync")
  /\ sync' = [rest |-> <<>>, open |-> FALSE]
  /\ Others /\ UNCHANGED <<admin, used, missed>>

\* Lock wait timeout or any other exception: the ingest fails.
SyncFails ==
  /\ sync.open /\ Rollback("sync")
  /\ sync' = [rest |-> <<>>, open |-> FALSE]
  /\ Others /\ UNCHANGED <<cache, admin, used, touched, missed>>

\* Each waits for a row of the other: one of them is rolled back, and goes on
\* with the statement that it was at.
Deadlock ==
  /\ pc = "store" /\ hand[1] \in Locks("sync")
  /\ sync.rest # <<>> /\ Head(sync.rest) \in Locks("batch")
  /\ \/ Rollback("batch") /\ missed' = missed \cup Locks("batch")
     \/ Rollback("sync") /\ UNCHANGED missed
  /\ Others /\ UNCHANGED <<cache, sync, admin, used, touched>>

\* regeocode_dealer_by_cd reads the dealer and asks the geocoders.
AdminAsks(d) ==
  /\ admin = 0 /\ used.admin < MaxAdmin /\ pc \notin Ended /\ admin' = d
  /\ used' = [used EXCEPT !.admin = @ + 1]
  /\ Others /\ UNCHANGED <<cache, tx, sync, touched, missed>>

\* It stores what it was answered and commits, or the request fails.
AdminStores ==
  /\ admin # 0 /\ admin' = 0
  /\ \/ /\ admin \notin Locks("batch") \cup Locks("sync")
        /\ \E k \in {"full", "failed"} : cache' = [cache EXCEPT ![admin] = [kind |-> k, by |-> "admin"]]
        /\ touched' = touched \cup {admin}
     \/ UNCHANGED <<cache, touched>>
  /\ Others /\ UNCHANGED <<tx, sync, used, missed>>

\* reset_oem_provisional_geo reads every row for its DELETE, and so waits for
\* every transaction that has written one.
ResetOem ==
  LET gone == {d \in Dealers : cache[d].kind = "oem"}
  IN  /\ used.admin < MaxAdmin /\ pc \notin Ended /\ Locks("batch") \cup Locks("sync") = {}
      /\ used' = [used EXCEPT !.admin = @ + 1]
      /\ cache' = [d \in Dealers |-> IF d \in gone THEN Absent ELSE cache[d]]
      /\ touched' = touched \cup gone
      /\ Others /\ UNCHANGED <<tx, sync, admin, missed>>

-----------------------------------------------------------------------------
Batch == \/ List \/ Check \/ Take \/ Store \/ Count
         \/ \E d \in Dealers : Ask(d) \/ \E a \in GeoAnswers[d] : Answered(d, a)

\* A sync that has begun goes on, or fails.
Sync == SyncStores \/ SyncCommits \/ SyncFails \/ Deadlock

Next ==
  \/ Batch \/ Sync
  \/ StoreFails \/ BatchFails \/ Cancel
  \/ \E ds \in Orders : SyncBegins(ds)
  \/ \E d \in Dealers : AdminAsks(d)
  \/ AdminStores \/ ResetOem

Spec == Init /\ [][Next]_vars

\* Worker threads, the thread that takes their answers and a sync go on; the
\* database ends every wait, by the other's commit, a deadlock's victim or the
\* lock wait timeout.
FairSpec == Spec /\ WF_vars(Batch) /\ WF_vars(Sync)
-----------------------------------------------------------------------------
(* Properties.                                                             *)

\* After the request to cancel at most one more answer is stored, however many
\* worker threads have theirs ready: the one the batch was waiting for.
CancelIsPrompt == late <= 1

\* Once the batch has returned, every dealer that it counts as geocoded has
\* committed coordinates of this batch, unless someone else has written the
\* row since, or the transaction was rolled back by a deadlock; then the
\* statement was tried again but the answers stored before it were not.
CountedIsKept ==
  pc = "done" => \A d \in good \ (touched \cup missed) : cache[d] = [kind |-> "full", by |-> "batch"]

\* A worker that dies takes fewer than CommitEvery stored answers with it,
\* and one more if it dies between storing and committing; a lone worker's
\* batch at most the one in hand.
LittleIsLost ==
  LET kept == IF workers = 1 THEN 1 ELSE CommitEvery
  IN  Cardinality(Locks("batch")) <= IF pc \in {"check", "await", "store"} THEN kept - 1 ELSE kept

\* A batch that was not forced replaces a complete row only if somebody wrote
\* that row after the batch had listed the dealers: the list is not read again.
CompleteRowsStay ==
  [][\A d \in Dealers :
       cache[d].kind = "full" /\ cache'[d] # cache[d] /\ cache'[d].by = "batch" =>
         force \/ cache[d].by \in Writers]_vars

\* After a batch that ran to its end nobody is left out: each listed dealer has
\* this batch's row, a row written by others since the list, or is counted as
\* failed or was lost to a deadlock.
NobodyIsLeftOut ==
  pc = "done" /\ ~cancel =>
    \A d \in Dealers : \/ cache[d].by # "before" \/ d \in touched \cup missed
                       \/ ~force /\ cache[d].kind = "full"

\* What is asked is kept, reported as failed, or lost for a reason.
AnswersAreKept == TypeOK /\ CountedIsKept /\ LittleIsLost /\ NobodyIsLeftOut

\* The batch ends: no answer and no lock keeps it.
BatchEnds == <>(pc \in Ended)
=============================================================================
