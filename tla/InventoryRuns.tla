---------------------------- MODULE InventoryRuns ----------------------------
(***************************************************************************)
(* The inventory database of the Mazda make while several ingests write to *)
(* it: full ingests (run_mazda_ingest) and dealer ZIP refreshes            *)
(* (run_mazda_dealer_vehicle_refresh), which may overlap because no start  *)
(* handler excludes it.  Every ingest has a run row and one connection; it *)
(* saves pages of vehicles, each in one transaction, and at its end        *)
(* rebuilds series_latest_runs, the pointers from which all inventory      *)
(* pages are served: the fullest run of each series.  A dealer refresh     *)
(* covers only part of a series and first copies what the fullest earlier  *)
(* run has and it has not.                                                 *)
(*                                                                         *)
(* The database is MySQL with its default isolation, modelled by what the  *)
(* code relies on.  A statement sees the committed rows and those of its   *)
(* own transaction, and waits while rows it touches belong to another; the *)
(* rows an INSERT ... SELECT has read are locked until its commit; the     *)
(* victim of a deadlock loses its whole transaction, not one statement.    *)
(* Prices, options, media and all columns but the series are left out.     *)
(***************************************************************************)
EXTENDS Naturals, FiniteSets

CONSTANTS MaxRun,      \* bound: how many ingests are ever started
          PartialRuns, \* those of them that are dealer ZIP refreshes
          Vins, Series,
          NoSeries     \* vin without a row in vehicles

Runs  == 1 .. MaxRun
NoRun == 0

ASSUME RunsAssumption ==
  /\ MaxRun \in Nat
  /\ PartialRuns \subseteq Runs
  /\ NoSeries \notin Series
  /\ IsFiniteSet(Vins)

VARIABLES
  seriesOf,  \* vehicles: series_code of each vin
  snap,      \* vehicle_runs: the vins of each run
  latest,    \* series_latest_runs: run of each series
  pc,        \* pc[r]: statement the ingest of run r executes next
  failing,   \* failing[r]: an exception was raised, _repair_latest_runs_after_failure runs
  tx,        \* tx[r]: what the open transaction of its connection has written
  prior,     \* prior[r]: for each series the run still to be copied from
  carried,   \* history: vins copied since r last chose the runs to copy from
  orphaned   \* history: an ingest died after the last rebuild of the pointers

vars == <<seriesOf, snap, latest, pc, failing, tx, prior, carried, orphaned>>

Ended == {"done", "failed", "killed"}
Alive(r) == pc[r] \notin {"new"} \cup Ended

NoTx == [rows |-> {}, moved |-> [v \in Vins |-> NoSeries],
         pointers |-> "kept", latest |-> [s \in Series |-> NoRun]]

TypeOK ==
  /\ seriesOf \in [Vins -> Series \cup {NoSeries}]
  /\ snap \in [Runs -> SUBSET Vins]
  /\ latest \in [Series -> Runs \cup {NoRun}]
  /\ pc \in [Runs -> {"new", "page", "resolve", "copy", "delete", "insert", "commit"} \cup Ended]
  /\ failing \in [Runs -> BOOLEAN]
  /\ tx \in [Runs -> [rows : SUBSET Vins, moved : [Vins -> Series \cup {NoSeries}],
                      pointers : {"kept", "deleted", "inserted"},
                      latest : [Series -> Runs \cup {NoRun}]]]
  /\ prior \in [Runs -> [Series -> Runs \cup {NoRun}]]
  /\ carried \in [Runs -> SUBSET Vins]
  /\ orphaned \in BOOLEAN

Init ==
  /\ seriesOf = [v \in Vins |-> NoSeries]
  /\ snap     = [r \in Runs |-> {}]
  /\ latest   = [s \in Series |-> NoRun]
  /\ pc       = [r \in Runs |-> "new"]
  /\ failing  = [r \in Runs |-> FALSE]
  /\ tx       = [r \in Runs |-> NoTx]
  /\ prior    = [r \in Runs |-> [s \in Series |-> NoRun]]
  /\ carried  = [r \in Runs |-> {}]
  /\ orphaned = FALSE

-----------------------------------------------------------------------------
(* What a transaction sees, and the fullest run of a series.               *)

Moved(so, m) == [v \in Vins |-> IF m[v] # NoSeries THEN m[v] ELSE so[v]]

SeenSeries(r) == Moved(seriesOf, tx[r].moved)
SeenRuns(r)   == [snap EXCEPT ![r] = @ \cup tx[r].rows]

Count(s, q, runs, so) == Cardinality({v \in runs[q] : so[v] = s})

\* Mutant of Fullest: the most recent run instead of the fullest.
Newest(s, among, runs, so) ==
  LET found == {q \in among : Count(s, q, runs, so) > 0}
  IN  IF found = {} THEN NoRun ELSE CHOOSE q \in found : \A p \in found : p <= q

\* ROW_NUMBER() OVER (PARTITION BY series ORDER BY COUNT(*) DESC, run_id DESC) = 1.
Fullest(s, among, runs, so) ==
  LET found      == {q \in among : Count(s, q, runs, so) > 0}
      Before(p, q) == Count(s, p, runs, so) > Count(s, q, runs, so)
                      \/ (Count(s, p, runs, so) = Count(s, q, runs, so) /\ p > q)
  IN  IF found = {} THEN NoRun
      ELSE CHOOSE q \in found : \A p \in found \ {q} : Before(q, p)

-----------------------------------------------------------------------------
(* Locks that other transactions hold.                                     *)

Others(r) == {q \in Runs \ {r} : Alive(q)}

PointersFree(r) == \A q \in Others(r) : tx[q].pointers = "kept"
RowsFree(r)     == \A q \in Others(r) : tx[q].rows = {}
\* Nobody who has read all snapshots to rebuild the pointers still holds them.
NotScanned(r)   == \A q \in Others(r) : tx[q].pointers # "inserted"

Goto(r, at)    == pc' = [pc EXCEPT ![r] = at]
At(r, from)    == pc[r] = from
Bookkeeping    == <<failing, prior, carried, orphaned>>

\* The transaction of r is gone, committed or rolled back.
Forget(r) == tx' = [tx EXCEPT ![r] = NoTx]

-----------------------------------------------------------------------------
(* Ingesting pages.                                                        *)

\* create_run commits at once; its AUTO_INCREMENT ids grow.
CreateRun(r) ==
  /\ At(r, "new") /\ \A q \in Runs : q < r => pc[q] # "new"
  /\ Goto(r, "page")
  /\ UNCHANGED <<seriesOf, snap, latest, tx>> /\ UNCHANGED Bookkeeping

\* The vehicles of a page that are new to this ingest, with the series that
\* resolve_mazda_series_code gives them now.
Pages(r) == {p \in SUBSET (Vins \ snap[r]) : p # {}}

\* Rows of a page that others have locked: vins they write, or any row once
\* they have scanned the snapshots.
PageFree(r, p) == NotScanned(r) /\ \A q \in Others(r) : tx[q].rows \cap p = {}

\* _persist_page_batch: its statements are not retried one by one, so that a
\* deadlock raises and run_transaction_with_retry repeats the whole page.
PersistPage(r) ==
  /\ At(r, "page")
  /\ \E p \in Pages(r) : \E to \in [p -> Series] :
       /\ PageFree(r, p)
       /\ snap' = [snap EXCEPT ![r] = @ \cup p]
       /\ seriesOf' = [v \in Vins |-> IF v \in p THEN to[v] ELSE seriesOf[v]]
  /\ UNCHANGED <<latest, pc, tx>> /\ UNCHANGED Bookkeeping

\* Mutant of PageFails: nobody rebuilds the pointers after a failure.
PageFailsForGood(r) ==
  /\ At(r, "page")
  /\ Goto(r, "failed")
  /\ UNCHANGED <<seriesOf, snap, latest, tx>> /\ UNCHANGED Bookkeeping

\* The site fails, or a statement in the middle of a page does.  The handler
\* calls conn.rollback(), which MySQLDbConnection has not got; the exception
\* is dropped and the part of the page that was written stays in the transaction.
PageFails(r) ==
  /\ At(r, "page")
  /\ \E p \in Pages(r) \cup {{}} : \E to \in [p -> Series] :
       /\ PageFree(r, p)
       /\ tx' = [tx EXCEPT ![r].rows = p,
                           ![r].moved = [v \in Vins |-> IF v \in p THEN to[v] ELSE NoSeries]]
  /\ failing' = [failing EXCEPT ![r] = TRUE]
  /\ Goto(r, "delete")
  /\ UNCHANGED <<seriesOf, snap, latest, prior, carried, orphaned>>

PagesDone(r) ==
  /\ At(r, "page")
  /\ Goto(r, IF r \in PartialRuns THEN "resolve" ELSE "delete")
  /\ UNCHANGED <<seriesOf, snap, latest, tx>> /\ UNCHANGED Bookkeeping

-----------------------------------------------------------------------------
(* finalize_ingest_runs, and the rebuild it shares with the repair.        *)

\* resolve_best_run_ids_by_series(exclude_run_id = r).
Resolve(r) ==
  /\ At(r, "resolve")
  /\ prior' = [prior EXCEPT ![r] =
       [s \in Series |-> Fullest(s, Runs \ {r}, snap, seriesOf)]]
  /\ carried' = [carried EXCEPT ![r] = {}]
  /\ Goto(r, "copy")
  /\ UNCHANGED <<seriesOf, snap, latest, failing, tx, orphaned>>

\* _copy_series_run_snapshot for one series: the vins that r lacks.
CopySeries(r, s) ==
  LET from    == prior[r][s]
      missing == {v \in snap[from] : seriesOf[v] = s} \ (snap[r] \cup tx[r].rows)
  IN  /\ At(r, "copy") /\ from # NoRun
      /\ \A q \in Others(r) : tx[q].moved = NoTx.moved /\ (q = from => tx[q].rows = {})
      /\ NotScanned(r)
      /\ tx' = [tx EXCEPT ![r].rows = @ \cup missing]
      /\ carried' = [carried EXCEPT ![r] = @ \cup missing]
      /\ prior' = [prior EXCEPT ![r][s] = NoRun]
      /\ UNCHANGED <<seriesOf, snap, latest, pc, failing, orphaned>>

CopyDone(r) ==
  /\ At(r, "copy") /\ \A s \in Series : prior[r][s] = NoRun
  /\ Goto(r, "delete")
  /\ UNCHANGED <<seriesOf, snap, latest, tx>> /\ UNCHANGED Bookkeeping

\* Mutant of DeletePointers: without force=True pointers that exist are kept.
KeepPointers(r) ==
  /\ At(r, "delete") /\ PointersFree(r)
  /\ IF \E s \in Series : latest[s] # NoRun
     THEN /\ tx' = [tx EXCEPT ![r].pointers = "inserted", ![r].latest = latest]
          /\ Goto(r, "commit")
     ELSE /\ tx' = [tx EXCEPT ![r].pointers = "deleted"]
          /\ Goto(r, "insert")
  /\ UNCHANGED <<seriesOf, snap, latest>> /\ UNCHANGED Bookkeeping

\* DELETE FROM series_latest_runs.
DeletePointers(r) ==
  /\ At(r, "delete") /\ PointersFree(r)
  /\ tx' = [tx EXCEPT ![r].pointers = "deleted"]
  /\ Goto(r, "insert")
  /\ UNCHANGED <<seriesOf, snap, latest>> /\ UNCHANGED Bookkeeping

NewPointers(r) == [s \in Series |-> Fullest(s, Runs, SeenRuns(r), SeenSeries(r))]

\* Pointers that are there although r deleted them: it lost the DELETE.
StillThere(r) == {s \in Series : tx[r].pointers = "kept" /\ latest[s] # NoRun}

\* INSERT INTO series_latest_runs SELECT ...
InsertPointers(r) ==
  LET new == NewPointers(r)
  IN  /\ At(r, "insert") /\ PointersFree(r) /\ RowsFree(r)
      /\ \A s \in StillThere(r) : new[s] = NoRun
      /\ tx' = [tx EXCEPT ![r].pointers = "inserted",
                          ![r].latest = [s \in Series |-> IF s \in StillThere(r) THEN latest[s] ELSE new[s]]]
      /\ Goto(r, "commit")
      /\ UNCHANGED <<seriesOf, snap, latest>> /\ UNCHANGED Bookkeeping

\* COMMIT.
Commit(r) ==
  /\ At(r, "commit")
  /\ snap' = SeenRuns(r)
  /\ seriesOf' = SeenSeries(r)
  /\ latest' = tx[r].latest
  /\ Forget(r)
  /\ orphaned' = FALSE
  /\ Goto(r, IF failing[r] THEN "failed" ELSE "done")
  /\ UNCHANGED <<failing, prior, carried>>

-----------------------------------------------------------------------------
(* Failures.                                                               *)

Finalizing(r) == pc[r] \in {"resolve", "copy", "delete", "insert"}

\* A deadlock needs another transaction, of an ingest here.
Contended(r) == Others(r) # {}

\* The server rolls the transaction back and execute_with_retry repeats only
\* the statement that was hit.
DeadlockStatement(r) ==
  /\ Finalizing(r) /\ pc[r] # "resolve" /\ Contended(r)
  /\ tx[r] # NoTx
  /\ Forget(r)
  /\ UNCHANGED <<seriesOf, snap, latest, pc>> /\ UNCHANGED Bookkeeping

\* Its attempts are used up: run_transaction_with_retry starts the unit again.
DeadlockUnit(r) ==
  /\ Finalizing(r) /\ Contended(r) /\ ~failing[r]
  /\ Forget(r)
  /\ Goto(r, IF r \in PartialRuns THEN "resolve" ELSE "delete")
  /\ UNCHANGED <<seriesOf, snap, latest, failing, prior, carried, orphaned>>

\* Any other error of a statement, a duplicate key in InsertPointers above
\* all, or the last attempt of the unit (deadlocked, so nothing is left of tx).
\* What the transaction has written so far is not rolled back.
StatementFails(r) ==
  /\ Finalizing(r) /\ ~failing[r]
  /\ Forget(r) \/ UNCHANGED tx
  /\ failing' = [failing EXCEPT ![r] = TRUE]
  /\ Goto(r, "delete")
  /\ UNCHANGED <<seriesOf, snap, latest, prior, carried, orphaned>>

\* A repair that raises is only logged; close() rolls back.
RepairFails(r) ==
  /\ Finalizing(r) /\ failing[r]
  /\ Forget(r)
  /\ orphaned' = TRUE
  /\ Goto(r, "failed")
  /\ UNCHANGED <<seriesOf, snap, latest, failing, prior, carried>>

\* The worker is killed; MySQL rolls back what is open.
Kill(r) ==
  /\ Alive(r)
  /\ Forget(r)
  /\ orphaned' = TRUE
  /\ Goto(r, "killed")
  /\ UNCHANGED <<seriesOf, snap, latest, failing, prior, carried>>

-----------------------------------------------------------------------------
Ingest(r) == CreateRun(r) \/ PersistPage(r) \/ PageFails(r) \/ PagesDone(r)

Finalize(r) ==
  \/ Resolve(r) \/ (\E s \in Series : CopySeries(r, s)) \/ CopyDone(r)
  \/ DeletePointers(r) \/ InsertPointers(r) \/ Commit(r)

Failure(r) ==
  \/ DeadlockStatement(r) \/ DeadlockUnit(r) \/ StatementFails(r) \/ RepairFails(r) \/ Kill(r)

Next == \E r \in Runs : Ingest(r) \/ Finalize(r) \/ Failure(r)

Spec == Init /\ [][Next]_vars

-----------------------------------------------------------------------------
(* Properties.                                                             *)

FullestNow(s) == Fullest(s, Runs, snap, seriesOf)

\* Two ingests never rebuild the pointers at the same time, and the pointers
\* that one of them is about to commit are still the fullest runs then.  (A
\* series that has lost all its vehicles may keep a pointer; nothing is shown.)
RebuildsAreSerial ==
  \A r \in Runs :
    /\ tx[r].pointers # "kept" => Alive(r) /\ PointersFree(r)
    /\ pc[r] = "commit" => \A s \in Series : NewPointers(r)[s] \in {NoRun, tx[r].latest[s]}

RunsInv == TypeOK /\ RebuildsAreSerial

\* Once no ingest is active the pointers are right, however they overlapped and
\* whichever of them failed half-way: each one rebuilds them after its last page
\* (_commit_finalize_ingest_runs, _repair_latest_runs_after_failure).  Only
\* killed ingests and failed repairs leave them behind, until the next rebuild.
Settled ==
  (\A r \in Runs : ~Alive(r)) /\ ~orphaned => \A s \in Series : FullestNow(s) \in {NoRun, latest[s]}

\* Inventory pages never lose vehicles of a series, unless one of them has
\* moved to another series: a partial run never replaces a fuller snapshot
\* (PARTIAL_RUN_SOURCES), and nobody sees the pointers deleted.
Shown(s) == IF latest[s] = NoRun THEN {} ELSE {v \in snap[latest[s]] : seriesOf[v] = s}

NeverShrinks ==
  [][\A s \in Series :
       (\A v \in Shown(s) : seriesOf'[v] = s) => Cardinality(Shown(s)') >= Cardinality(Shown(s))]_vars

\* run_transaction_with_retry is documented to retry the whole unit on
\* deadlocks, so a refresh that ended well has everything it carried forward.
\* It has not: the statements inside retry themselves in a transaction that
\* has lost the copies.
CarriedForward ==
  \A r \in PartialRuns : pc[r] = "done" => carried[r] \subseteq snap[r]
=============================================================================
