----------------------------- MODULE ToyotaIngest -----------------------------
(***************************************************************************)
(* The ingests of the Toyota make (run_live_ingest with stream_to_db): the *)
(* pages of a model are fetched one by one from a site that changes in the *)
(* meantime, each is written in a transaction of its own, then vehicles of *)
(* the model that were not seen become inactive and series_latest_runs is  *)
(* rebuilt, in one more transaction.  A run is the ingest of one model; a  *)
(* live ingest does several one after the other, and live ingests overlap. *)
(*                                                                         *)
(* The database is MySQL as in InventoryRuns: statements wait for rows     *)
(* others have written or, in INSERT ... SELECT, read; a deadlock's victim *)
(* loses its whole transaction; conn.rollback() does not exist.  A client  *)
(* request with its retries is one step that succeeds or fails.            *)
(***************************************************************************)
EXTENDS Naturals, Sequences, FiniteSets, SequencesExt

CONSTANTS MaxRun,      \* bound: how many model ingests are ever started
          MaxChanges,  \* bound: how often the site changes
          PageSize,
          Vins, Models,
          NoModel      \* a vin without a row in vehicles, a run not started

Runs  == 1 .. MaxRun
NoRun == 0

ASSUME ToyotaAssumption ==
  /\ MaxRun \in Nat /\ MaxChanges \in Nat
  /\ PageSize \in Nat \ {0}
  /\ NoModel \notin Models
  /\ IsFiniteSet(Vins)

VARIABLES
  site,      \* site[m]: what the inventory search lists for model m, in order
  changes,   \* how often it has changed
  seriesOf,  \* vehicles: series_code of each vin
  active,    \* vehicles: the vins with is_active = 1
  snap,      \* vehicle_runs: the vins of each run
  latest,    \* series_latest_runs: run of each model
  pc,        \* pc[r]: what run r does next
  of,        \* of[r]: the model of run r
  page,      \* page[r]: number and vehicles of the page in hand, number of pages
  partial,   \* partial[r]: FetchResult.partial
  failing,   \* failing[r]: an exception was raised, the pointers are repaired
  tx,        \* tx[r]: what the open transaction of its connection has written
  clean      \* history: clean[r]: no site change, deadlock or run of the same
             \* model since r, and whoever was active then, have started

db   == <<seriesOf, active, snap, latest>>
vars == <<site, changes, db, pc, of, page, partial, failing, tx, clean>>

Ended    == {"done", "failed", "killed"}
Alive(r) == pc[r] \notin {"new"} \cup Ended
Others(r) == {q \in Runs \ {r} : Alive(q)}

NoPage == [no |-> 1, total |-> 1, vins |-> {}]
NoTx   == [rows |-> {}, off |-> {}, marked |-> FALSE,
           pointers |-> "kept", latest |-> [m \in Models |-> NoRun]]

Listed(m) == Range(site[m])

\* Each vehicle is listed at most once, for one model.
Sites ==
  {s \in [Models -> BoundedSeq(Vins, Cardinality(Vins))] :
     /\ \A m \in Models : IsInjective(s[m])
     /\ \A m, n \in Models : m # n => Range(s[m]) \cap Range(s[n]) = {}}

\* The values the tables, the cursors of a fetch and a transaction may take; a
\* fetch has at least one page, also of an empty listing.
TypeOK ==
  /\ site \in Sites /\ changes \in 0 .. MaxChanges
  /\ seriesOf \in [Vins -> Models \cup {NoModel}]
  /\ active \subseteq Vins
  /\ snap \in [Runs -> SUBSET Vins]
  /\ latest \in [Models -> Runs \cup {NoRun}]
  /\ pc \in [Runs -> {"new", "fetch", "write", "mark", "delete", "insert", "commit"} \cup Ended]
  /\ of \in [Runs -> Models \cup {NoModel}]
  /\ page \in [Runs -> [no : Nat \ {0}, total : Nat \ {0}, vins : SUBSET Vins]]
  /\ partial \in [Runs -> BOOLEAN] /\ failing \in [Runs -> BOOLEAN] /\ clean \in [Runs -> BOOLEAN]
  /\ tx \in [Runs -> [rows : SUBSET Vins, off : SUBSET Vins, marked : BOOLEAN,
                      pointers : {"kept", "deleted", "inserted"},
                      latest : [Models -> Runs \cup {NoRun}]]]

Init ==
  /\ site \in Sites /\ changes = 0
  /\ seriesOf = [v \in Vins |-> NoModel] /\ active = {}
  /\ snap = [r \in Runs |-> {}] /\ latest = [m \in Models |-> NoRun]
  /\ pc = [r \in Runs |-> "new"] /\ of = [r \in Runs |-> NoModel]
  /\ page = [r \in Runs |-> NoPage]
  /\ partial = [r \in Runs |-> FALSE] /\ failing = [r \in Runs |-> FALSE]
  /\ tx = [r \in Runs |-> NoTx]
  /\ clean = [r \in Runs |-> FALSE]

Goto(r, at) == pc' = [pc EXCEPT ![r] = at]
Forget(r)   == tx' = [tx EXCEPT ![r] = NoTx]
Soil(r)     == clean' = [clean EXCEPT ![r] = FALSE]
SiteStays   == UNCHANGED <<site, changes>>

-----------------------------------------------------------------------------
(* The site.                                                               *)

Changes ==
  /\ changes < MaxChanges /\ changes' = changes + 1
  /\ clean' = [r \in Runs |-> FALSE]
  /\ UNCHANGED <<db, pc, of, page, partial, failing, tx>>

Sell(m, i) ==
  /\ site' = [site EXCEPT ![m] = RemoveAt(@, i)]
  /\ Changes

\* A vehicle that is nowhere listed appears at the front or at the end.
List(m, v) ==
  /\ \A n \in Models : v \notin Listed(n)
  /\ \E s \in {<<v>> \o site[m], Append(site[m], v)} : site' = [site EXCEPT ![m] = s]
  /\ Changes

-----------------------------------------------------------------------------
(* Fetching and writing the pages.                                         *)

\* create_run commits at once; its AUTO_INCREMENT ids grow.
CreateRun(r, m) ==
  LET rivals == {q \in Others(r) : of[q] = m}
  IN  /\ pc[r] = "new" /\ \A q \in Runs : q < r => pc[q] # "new"
      /\ Goto(r, "fetch")
      /\ of' = [of EXCEPT ![r] = m]
      /\ clean' = [q \in Runs |->
           IF q = r THEN rivals = {} /\ \A p \in Others(r) : clean[p] ELSE clean[q] /\ q \notin rivals]
      /\ SiteStays /\ UNCHANGED <<db, page, partial, failing, tx>>

\* Mutant of PageCount: the last page is counted only when it is full.
FullPages(m) == IF Len(site[m]) < PageSize THEN 1 ELSE Len(site[m]) \div PageSize

\* Mutant of PageCount: no page for an empty listing.
PagesNeeded(m) == (Len(site[m]) + PageSize - 1) \div PageSize

\* totalPages of the first page, 1 for an empty listing.  The site is taken to
\* state it: an answer without it, or keyed by VIN, counts as one page.
PageCount(m) == IF site[m] = <<>> THEN 1 ELSE (Len(site[m]) + PageSize - 1) \div PageSize

Fetch(r) ==
  LET m     == of[r]
      no    == page[r].no
      last  == no * PageSize
  IN  /\ pc[r] = "fetch"
      /\ page' = [page EXCEPT
           ![r].vins = Range(SubSeq(site[m], last - PageSize + 1, IF last > Len(site[m]) THEN Len(site[m]) ELSE last)),
           ![r].total = IF no = 1 THEN PageCount(m) ELSE @]
      /\ Goto(r, "write")
      /\ SiteStays /\ UNCHANGED <<db, of, partial, failing, tx, clean>>

\* An exception of the request or of the callback that writes the page: on the
\* first page it ends the live ingest, later it only makes the fetch partial.
GiveUp(r) ==
  /\ IF page[r].no = 1 THEN failing' = [failing EXCEPT ![r] = TRUE] /\ UNCHANGED partial
                       ELSE partial' = [partial EXCEPT ![r] = TRUE] /\ UNCHANGED failing
  /\ Goto(r, "delete")

FetchFails(r) ==
  /\ pc[r] = "fetch"
  /\ GiveUp(r)
  /\ SiteStays /\ UNCHANGED <<db, of, page, tx, clean>>

\* Rows of a page that others have locked: vehicles they have written, the
\* series they have marked, everything once they have read it for the pointers.
PageFree(r) ==
  \A q \in Others(r) :
    /\ tx[q].pointers # "inserted"
    /\ tx[q].rows \cap page[r].vins = {}
    /\ tx[q].marked => of[q] # of[r] /\ \A v \in page[r].vins : seriesOf[v] # of[q]

\* process_vehicle for each vehicle of the page, then commit.  The progress
\* callback comes after the commit and may raise too.
WritePage(r) ==
  LET p == page[r]
  IN  /\ pc[r] = "write" /\ PageFree(r)
      /\ snap' = [snap EXCEPT ![r] = @ \cup p.vins]
      /\ seriesOf' = [v \in Vins |-> IF v \in p.vins THEN of[r] ELSE seriesOf[v]]
      /\ active' = active \cup p.vins
      /\ \/ /\ Goto(r, IF p.no < p.total THEN "fetch" ELSE "mark")
            /\ page' = [page EXCEPT ![r].no = @ + 1, ![r].vins = {}]
            /\ UNCHANGED <<partial, failing>>
         \/ GiveUp(r) /\ UNCHANGED page
      /\ SiteStays /\ UNCHANGED <<latest, of, tx, clean>>

\* A statement in the middle of the page fails.  Nothing is rolled back, unless
\* it failed because of a deadlock, for which another run is needed.
WritePageFails(r) ==
  /\ pc[r] = "write"
  /\ \/ PageFree(r) /\ \E done \in SUBSET page[r].vins : tx' = [tx EXCEPT ![r].rows = done]
     \/ Others(r) # {} /\ UNCHANGED tx
  /\ GiveUp(r)
  /\ SiteStays /\ UNCHANGED <<db, of, page, clean>>

-----------------------------------------------------------------------------
(* The end of a run, and the repair after an exception.                    *)

SeenSeries(r) == [v \in Vins |-> IF v \in tx[r].rows THEN of[r] ELSE seriesOf[v]]
SeenRuns(r)   == [snap EXCEPT ![r] = @ \cup tx[r].rows]

\* Mutant of NotSeen: vehicles that other models have taken over are hidden, too.
NotSeenAnywhere(r) == {v \in Vins : seriesOf[v] # NoModel} \ snap[r]

\* mark_inactive_not_seen: vehicles of the model without a row of this run.
NotSeen(r) == {v \in Vins : seriesOf[v] = of[r]} \ snap[r]

Mark(r) ==
  /\ pc[r] = "mark"
  /\ \A q \in Others(r) :
       /\ tx[q].pointers # "inserted"
       /\ of[q] = of[r] => tx[q].rows = {} /\ ~tx[q].marked
       /\ \A v \in tx[q].rows : seriesOf[v] # of[r]
  /\ tx' = [tx EXCEPT ![r].off = NotSeen(r), ![r].marked = TRUE]
  /\ Goto(r, "delete")
  /\ SiteStays /\ UNCHANGED <<db, of, page, partial, failing, clean>>

PointersFree(r) == \A q \in Others(r) : tx[q].pointers = "kept"

\* DELETE FROM series_latest_runs.
DeletePointers(r) ==
  /\ pc[r] = "delete" /\ PointersFree(r)
  /\ tx' = [tx EXCEPT ![r].pointers = "deleted"]
  /\ Goto(r, "insert")
  /\ SiteStays /\ UNCHANGED <<db, of, page, partial, failing, clean>>

\* Mutant of Fullest: of equally full runs the older one.
FullestOlder(m, runs, so) ==
  LET Size(q) == Cardinality({v \in runs[q] : so[v] = m})
      found   == {q \in Runs : Size(q) > 0}
  IN  IF found = {} THEN NoRun
      ELSE CHOOSE q \in found : \A p \in found : Size(p) < Size(q) \/ (Size(p) = Size(q) /\ p >= q)

\* ROW_NUMBER() OVER (PARTITION BY series ORDER BY COUNT(*) DESC, run_id DESC) = 1.
Fullest(m, runs, so) ==
  LET Size(q) == Cardinality({v \in runs[q] : so[v] = m})
      found   == {q \in Runs : Size(q) > 0}
  IN  IF found = {} THEN NoRun
      ELSE CHOOSE q \in found : \A p \in found : Size(p) < Size(q) \/ (Size(p) = Size(q) /\ p <= q)

\* INSERT ... SELECT; a duplicate key if the DELETE was lost with a deadlock.
InsertPointers(r) ==
  LET new   == [m \in Models |-> Fullest(m, SeenRuns(r), SeenSeries(r))]
      there == {m \in Models : tx[r].pointers = "kept" /\ latest[m] # NoRun}
  IN  /\ pc[r] = "insert" /\ PointersFree(r)
      /\ \A q \in Others(r) : tx[q].rows = {} /\ tx[q].off = {}
      /\ \A m \in there : new[m] = NoRun
      /\ tx' = [tx EXCEPT ![r].pointers = "inserted",
                          ![r].latest = [m \in Models |-> IF m \in there THEN latest[m] ELSE new[m]]]
      /\ Goto(r, "commit")
      /\ SiteStays /\ UNCHANGED <<db, of, page, partial, failing, clean>>

Commit(r) ==
  /\ pc[r] = "commit"
  /\ snap' = SeenRuns(r)
  /\ seriesOf' = SeenSeries(r)
  /\ active' = (active \cup tx[r].rows) \ tx[r].off
  /\ latest' = tx[r].latest
  /\ Forget(r)
  /\ Goto(r, IF failing[r] THEN "failed" ELSE "done")
  /\ SiteStays /\ UNCHANGED <<of, page, partial, failing, clean>>

\* The DELETE or the INSERT meets a deadlock: execute_with_retry repeats it in
\* a transaction that has lost what came before.
DeadlockStatement(r) ==
  /\ pc[r] \in {"delete", "insert"} /\ Others(r) # {}
  /\ Forget(r) /\ Soil(r)
  /\ SiteStays /\ UNCHANGED <<db, pc, of, page, partial, failing>>

\* Any other error: run_live_ingest repairs the pointers and commits, with
\* them whatever the transaction still holds.
StatementFails(r) ==
  /\ pc[r] \in {"mark", "delete", "insert"} /\ ~failing[r]
  /\ UNCHANGED tx \/ (Others(r) # {} /\ Forget(r))
  /\ failing' = [failing EXCEPT ![r] = TRUE]
  /\ Goto(r, "delete")
  /\ Soil(r)
  /\ SiteStays /\ UNCHANGED <<db, of, page, partial>>

\* The repair fails, or the worker is killed: the connection is closed.
Dies(r) ==
  /\ \/ pc[r] \in {"delete", "insert"} /\ failing[r] /\ Goto(r, "failed")
     \/ Alive(r) /\ Goto(r, "killed")
  /\ Forget(r)
  /\ SiteStays /\ UNCHANGED <<db, of, page, partial, failing, clean>>

-----------------------------------------------------------------------------
Next ==
  \/ \E m \in Models : (\E i \in DOMAIN site[m] : Sell(m, i)) \/ (\E v \in Vins : List(m, v))
  \/ \E r \in Runs :
       \/ \E m \in Models : CreateRun(r, m)
       \/ Fetch(r) \/ FetchFails(r) \/ WritePage(r) \/ WritePageFails(r)
       \/ Mark(r) \/ DeletePointers(r) \/ InsertPointers(r) \/ Commit(r)
       \/ DeadlockStatement(r) \/ StatementFails(r) \/ Dies(r)

Spec == Init /\ [][Next]_vars

-----------------------------------------------------------------------------
(* Properties.                                                             *)

Ends(r) == pc[r] = "commit" /\ pc'[r] = "done" /\ ~partial[r]

\* A complete run leaves exactly the listed vehicles of its model active, what-
\* ever runs of other models do meanwhile, as long as the site stands still.
CompleteIsExact ==
  [][\A r \in Runs : Ends(r) /\ clean[r] =>
       {v \in active' : seriesOf'[v] = of[r]} = Listed(of[r])]_vars

\* A vehicle is hidden only by a run that has read every page of its model
\* and not found it; a partial fetch hides nothing.
HiddenAfterFullRead ==
  [][\A v \in active \ active' : \E r \in Runs :
       /\ pc[r] = "commit" /\ page[r].no > page[r].total /\ ~partial[r]
       /\ seriesOf[v] = of[r] /\ v \notin snap[r]]_vars

\* The pointers name the fullest run of a series, not its latest.  So a complete
\* run is the one that is shown, unless an earlier one still has more vehicles
\* of the model; in particular it never loses against an equally full, older run.
ShownUnlessFuller ==
  [][\A r \in Runs : Ends(r) /\ clean[r] /\ Listed(of[r]) # {} =>
       LET q == latest'[of[r]]
       IN  q # r => q # NoRun /\ Cardinality({v \in snap'[q] : seriesOf'[v] = of[r]}) > Cardinality(Listed(of[r]))]_vars
=============================================================================
