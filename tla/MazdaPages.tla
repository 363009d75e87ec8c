------------------------------ MODULE MazdaPages ------------------------------
(***************************************************************************)
(* How a Mazda ingest reads its pages: run_mazda_ingest asks for each      *)
(* carline over all its dealers at once, and                               *)
(* run_mazda_dealer_vehicle_refresh asks for each carline ZIP by ZIP, over *)
(* the dealers near the ZIP ("refresh").  A full ingest is the walk over a *)
(* single place, whose dealers are those around its ZIP ("radius") or all  *)
(* that discovery has found ("nationwide").  The two functions share the   *)
(* page loop, and the loop ends on estimates.                              *)
(*                                                                         *)
(* The site lists rows; a row is a dealer and a VIN, or NoVin for a row    *)
(* without one, which parse_vehicles drops.  Two dealers may list one VIN. *)
(* The site changes between requests.  What a written page does to the     *)
(* database is the subject of InventoryRuns.                               *)
(***************************************************************************)
EXTENDS Naturals, Sequences, FiniteSets, FiniteSetsExt, SequencesExt

CONSTANTS Dealers,     \* dealer ids: naturals, the site sorts by them
          Vins,        \* naturals above 0, in the order of their prices
          Carlines,    \* sequence of carlines_to_fetch
          Places,      \* sequence of what list_dealer_refresh_zips returns
          Near,        \* Near[z]: dealers within the radius of ZIP z
          CatalogCount,\* CatalogCount[c]: vehicles the catalog row announces, or 0
          PageSize,
          MaxPages,    \* the safety cap, 500 in the code
          RowsOf,      \* bound: RowsOf[c]: rows that carline c may ever list
          MaxRows,     \* bound: how many of them at once
          MaxChanges   \* bound: how often the site changes

NoVin    == 0
Rows     == Dealers \X (Vins \cup {NoVin})
CarlineSet == Range(Carlines)
PlaceSet   == Range(Places)

ASSUME PagesAssumption ==
  /\ Dealers \subseteq Nat /\ Vins \subseteq Nat \ {0} /\ IsFiniteSet(Dealers) /\ IsFiniteSet(Vins)
  /\ PageSize \in Nat \ {0} /\ MaxPages \in Nat \ {0}
  /\ Carlines \in Seq(CarlineSet) \ {<<>>} /\ Places \in Seq(PlaceSet) \ {<<>>}
  /\ Near \in [PlaceSet -> SUBSET Dealers]
  /\ CatalogCount \in [CarlineSet -> Nat]
  /\ RowsOf \in [CarlineSet -> SUBSET Rows] /\ MaxRows \in Nat /\ MaxChanges \in Nat

VARIABLES
  mode,      \* which of the two functions runs, and over which dealers
  site,      \* site[c]: the rows listed for carline c
  changes,   \* how often the site has changed
  pc,        \* next statement
  place,     \* index of the ZIP (of the one place, in a full ingest)
  carline,   \* index of the carline
  dealers,   \* dealer ids of this place
  cursor,    \* page number, estimates of the first answer, vehicles saved
  hand,      \* rows of the page that parse_vehicles has kept
  seen,      \* seen_vins
  persisted, \* vehicles_persisted
  counts,    \* ZIPs processed, ZIPs with inventory, vehicles before this ZIP
  completed, \* progress.completed_models
  percent,   \* the percentage last shown, rounded down
  stored,    \* history: VINs whose rows the database has
  walk       \* history: the rows at the first search of the walk in progress, how
             \* many it announced, the VINs seen before it, and whether the site
             \* stands still since

reading == <<carline, dealers, cursor, hand>>
report  == <<persisted, counts, completed, percent>>
vars    == <<mode, site, changes, pc, place, reading, seen, report, stored, walk>>

Running == {"session", "lookup", "search", "write", "next"}
Here    == Carlines[carline]
LastPlace == IF mode = "refresh" THEN Len(Places) ELSE 1

\* The site sorts by dealer and price.
Ahead(r, s) == r[1] < s[1] \/ (r[1] = s[1] /\ r[2] < s[2])

\* The rows of these dealers, as a search answers them: the first has none ahead
\* of it, the second one, and so on.
Listing(c, ds) ==
  LET rows == {r \in site[c] : r[1] \in ds}
  IN  [i \in 1 .. Cardinality(rows) |-> CHOOSE r \in rows : Cardinality({s \in rows : Ahead(s, r)}) = i - 1]

\* The rows on page no of a listing.
PageOf(list, no) == {list[i] : i \in {i \in DOMAIN list : (no - 1) * PageSize < i /\ i <= no * PageSize}}

VinsOf(rows) == {r[2] : r \in rows} \ {NoVin}

NoWalk == [rows |-> <<>>, announced |-> 0, before |-> {}, still |-> FALSE]

AtLeast2(p) == IF p < 2 THEN 2 ELSE p
AtMost99(p) == IF p > 99 THEN 99 ELSE p

\* Mutant of Percent: the carlines of the place alone are counted.
PercentHere(zip, car, page, pages) ==
  AtLeast2((100 * ((car - 1) * pages + IF page > pages THEN pages ELSE page)) \div (Len(Carlines) * pages))

\* 100 * (whole steps done + the part of the current one) / steps, rounded down;
\* a step is a carline at a place.
Percent(zip, car, page, pages) ==
  LET step  == (zip - 1) * Len(Carlines) + (car - 1)
      steps == LastPlace * Len(Carlines)
  IN  AtLeast2((100 * (step * pages + IF page > pages THEN pages ELSE page)) \div (steps * pages))

TypeOK ==
  /\ mode \in {"nationwide", "radius", "refresh"}
  /\ site \in [CarlineSet -> SUBSET Rows] /\ changes \in 0 .. MaxChanges
  /\ pc \in Running \cup {"completed", "failed"}
  /\ place \in 1 .. Len(Places) /\ carline \in 1 .. Len(Carlines)
  /\ dealers \subseteq Dealers
  /\ cursor \in [no : 1 .. MaxPages, total : Nat, pages : Nat \ {0}, saved : Nat]
  /\ hand \subseteq Rows /\ Cardinality(hand) <= PageSize
  /\ seen \subseteq Vins /\ stored \subseteq Vins
  /\ persisted \in Nat /\ percent \in 0 .. 100
  /\ counts \in [zips : 0 .. Len(Places), hit : 0 .. Len(Places), before : Nat]
  /\ completed \subseteq CarlineSet
  /\ walk \in [rows : Seq(Rows), announced : Nat, before : SUBSET Vins, still : BOOLEAN]

Listings(c) == {s \in SUBSET RowsOf[c] : Cardinality(s) <= MaxRows}

FirstPage == [no |-> 1, total |-> 0, pages |-> 1, saved |-> 0]

Init ==
  /\ mode \in {"nationwide", "radius", "refresh"}
  /\ site \in {f \in [CarlineSet -> UNION {Listings(c) : c \in CarlineSet}] :
               \A c \in CarlineSet : f[c] \in Listings(c)}
  /\ changes = 0
  /\ pc = "session" /\ place = 1 /\ carline = 1 /\ dealers = {}
  /\ cursor = FirstPage /\ hand = {}
  /\ seen = {} /\ persisted = 0 /\ percent = 1
  /\ counts = [zips |-> 0, hit |-> 0, before |-> 0]
  /\ completed = {} /\ stored = {} /\ walk = NoWalk

SiteStays == UNCHANGED <<mode, site, changes>>

-----------------------------------------------------------------------------
(* The site: a row is taken off or added, and nobody is told.              *)

SiteChanges(c, r) ==
  /\ pc \in Running /\ changes < MaxChanges
  /\ changes' = changes + 1
  /\ r \notin site[c] => Cardinality(site[c]) < MaxRows
  /\ site' = [site EXCEPT ![c] = IF r \in @ THEN @ \ {r} ELSE @ \cup {r}]
  /\ walk' = [walk EXCEPT !.still = FALSE]
  /\ UNCHANGED <<mode, pc, place, reading, seen, report, stored>>

-----------------------------------------------------------------------------
(* The start, and how a run fails.                                         *)

\* The last message of a run that fails: a worker shows a progress of its own
\* that starts at 0, the thread of the other mode the last one.
Fail == pc' = "failed" /\ percent' \in {percent, 0}

\* The session and the work list; then a full ingest looks for its dealers.  The
\* nationwide discovery shows its messages in a new progress that starts at 0.
Session ==
  /\ pc = "session" /\ pc' = "lookup"
  /\ percent' = IF mode = "nationwide" THEN 0 ELSE percent
  /\ SiteStays /\ UNCHANGED <<place, reading, seen, persisted, counts, completed, stored, walk>>

SessionFails ==
  /\ pc = "session" /\ Fail
  /\ SiteStays /\ UNCHANGED <<place, reading, seen, persisted, counts, completed, stored, walk>>

-----------------------------------------------------------------------------
(* One place.                                                              *)

\* A full ingest finds what dealers it can (seeds that fail are skipped); a
\* refresh gets the dealers near the ZIP.  The run's own progress is shown again.
Lookup(ds) ==
  /\ pc = "lookup"
  /\ ds \in IF mode = "refresh" THEN {Near[Places[place]]} \ {{}} ELSE (SUBSET Dealers) \ {{}}
  /\ dealers' = ds
  /\ counts' = [counts EXCEPT !.zips = @ + 1, !.before = persisted]
  /\ carline' = 1 /\ cursor' = FirstPage
  /\ percent' = Percent(place, 1, 0, 1)
  /\ pc' = "search"
  /\ SiteStays /\ UNCHANGED <<place, hand, seen, persisted, completed, stored, walk>>

\* The pointers are finalized, which may fail; then comes the last message.
Finalize ==
  /\ \/ pc' = "completed" /\ percent' = 100
     \/ Fail
  /\ UNCHANGED place

\* No dealers, or an exception: it ends a full ingest, a refresh goes on.
LookupFails ==
  /\ pc = "lookup"
  /\ IF mode # "refresh" THEN Fail /\ UNCHANGED place
     ELSE IF place < LastPlace THEN pc' = pc /\ place' = place + 1 /\ percent' = Percent(place, 1, 0, 1)
     ELSE Finalize
  /\ SiteStays /\ UNCHANGED <<reading, seen, persisted, counts, completed, stored, walk>>

-----------------------------------------------------------------------------
(* The page loop of one carline.                                           *)

\* Mutant of EstimatedTotal: the catalog row goes first.
CatalogFirst(c, n) == IF CatalogCount[c] > 0 THEN CatalogCount[c] ELSE n

\* _estimate_carline_total: TotalVehicles of the first answer, 0 if it is missing
\* or no number; then the catalog row is the fallback.
EstimatedTotal(c, n) == IF n > 0 THEN n ELSE CatalogCount[c]

\* ceil(max(total, 1) / page_size), at least 1.
EstimatedPages(total) == ((IF total = 0 THEN 1 ELSE total) + PageSize - 1) \div PageSize

\* _pagination_should_stop, with the rows parsed and the new ones among them.
ShouldStop(kept, new, cur) ==
  \/ kept = 0 \/ new = 0 \/ kept < PageSize
  \/ cur.total > 0 /\ cur.saved >= cur.total
  \/ cur.no >= cur.pages \/ cur.no >= MaxPages

\* search_inventory and parse_vehicles; the first answer makes the estimates.
\* A page without a vehicle ends the walk before anything is written.
Search ==
  LET list == Listing(Here, dealers)
      got  == {r \in PageOf(list, cursor.no) : r[2] # NoVin}
  IN  /\ pc = "search"
      /\ IF cursor.no > 1 THEN UNCHANGED <<cursor, walk>>
         ELSE \E n \in {0, Len(list)} :
                   LET total == EstimatedTotal(Here, n)
                   IN  /\ cursor' = [cursor EXCEPT !.total = total, !.pages = EstimatedPages(total)]
                       /\ walk' = [rows |-> list, announced |-> n, before |-> seen, still |-> TRUE]
      /\ hand' = got
      /\ pc' = IF got = {} THEN "next" ELSE "write"
      /\ SiteStays /\ UNCHANGED <<place, carline, dealers, seen, report, stored>>

\* An HTTP error, or one while the dealers are stored, ends the ingest.
SearchFails ==
  /\ pc = "search" /\ Fail
  /\ SiteStays /\ UNCHANGED <<place, reading, seen, persisted, counts, completed, stored, walk>>

\* The rows of a page whose VIN no earlier page has had; a VIN that two dealers
\* on the page list is twice among them.
Unseen(rows) == {r \in rows : r[2] \notin seen}

\* _persist_page_batch in a transaction, then the counters and the decision.
WritePage ==
  LET new == Unseen(hand)
      cur == [cursor EXCEPT !.saved = @ + Cardinality(new)]
      end == ShouldStop(Cardinality(hand), Cardinality(new), cur)
  IN  /\ pc = "write"
      /\ stored' = stored \cup VinsOf(new)
      /\ seen' = seen \cup VinsOf(new)
      /\ persisted' = persisted + Cardinality(new)
      /\ percent' = AtMost99(Percent(place, carline, cursor.no, cursor.pages))
      /\ cursor' = IF end THEN cur ELSE [cur EXCEPT !.no = @ + 1]
      /\ hand' = {}
      /\ pc' = IF end THEN "next" ELSE "search"
      /\ SiteStays /\ UNCHANGED <<place, carline, dealers, counts, completed, walk>>

\* The transaction fails for good: what it wrote may stay (InventoryRuns).
WriteFails ==
  /\ pc = "write" /\ Fail
  /\ SiteStays /\ UNCHANGED <<place, reading, seen, persisted, counts, completed, stored, walk>>

-----------------------------------------------------------------------------
(* The end of a carline, of a place and of the ingest.                     *)

Done == IF mode # "refresh" \/ cursor.saved > 0 THEN completed \cup {Here} ELSE completed

NextCarline ==
  /\ pc = "next" /\ carline < Len(Carlines)
  /\ completed' = Done
  /\ carline' = carline + 1 /\ cursor' = FirstPage /\ pc' = "search"
  /\ percent' = IF mode = "refresh" THEN AtMost99(Percent(place, carline + 1, 0, 1))
                                    ELSE Percent(place, carline + 1, 0, 1)
  /\ SiteStays /\ UNCHANGED <<place, dealers, hand, seen, persisted, counts, stored, walk>>

\* Mutant of PlaceEnds: the counter of the ZIP is kept over ZIPs.
PlaceEndsSince ==
  /\ pc = "next" /\ carline = Len(Carlines)
  /\ completed' = Done
  /\ counts' = IF persisted > 0 THEN [counts EXCEPT !.hit = @ + 1] ELSE counts
  /\ IF place < LastPlace THEN pc' = "lookup" /\ place' = place + 1 /\ UNCHANGED percent
     ELSE Finalize
  /\ SiteStays /\ UNCHANGED <<reading, seen, persisted, stored, walk>>

PlaceEnds ==
  /\ pc = "next" /\ carline = Len(Carlines)
  /\ completed' = Done
  /\ counts' = IF persisted > counts.before THEN [counts EXCEPT !.hit = @ + 1] ELSE counts
  /\ IF place < LastPlace THEN pc' = "lookup" /\ place' = place + 1 /\ UNCHANGED percent
     ELSE Finalize
  /\ SiteStays /\ UNCHANGED <<reading, seen, persisted, stored, walk>>

-----------------------------------------------------------------------------
Work == \/ Session \/ SessionFails
        \/ \E ds \in SUBSET Dealers : Lookup(ds)
        \/ LookupFails \/ Search \/ SearchFails \/ WritePage \/ WriteFails
        \/ NextCarline \/ PlaceEnds

Next == Work \/ \E c \in CarlineSet : \E r \in RowsOf[c] : SiteChanges(c, r)

Spec == Init /\ [][Next]_vars
-----------------------------------------------------------------------------
(* Properties.                                                             *)

WalkEnds == pc \in {"search", "write"} /\ pc' = "next"

PageNos(list) == 1 .. ((Len(list) + PageSize - 1) \div PageSize)

\* Every page but the last has a vehicle that was not seen before the walk and
\* is not on its earlier pages.
EveryPageNew(w) ==
  \A p \in PageNos(w.rows) : p + 1 \in PageNos(w.rows) =>
    ~(VinsOf(PageOf(w.rows, p)) \subseteq w.before \cup UNION {VinsOf(PageOf(w.rows, q)) : q \in 1 .. p - 1})

Readable(w) ==
  /\ w.announced = Len(w.rows) \/ CatalogCount[Here] >= Len(w.rows)
  /\ w.still /\ \A i \in DOMAIN w.rows : w.rows[i][2] # NoVin
  /\ EveryPageNew(w) /\ Cardinality(PageNos(w.rows)) <= MaxPages

\* The walk over a carline at a place stores every vehicle that is listed there,
\* if the site stands still meanwhile, the API or else the catalog announces enough, no row lacks
\* its VIN and no page but the last shows only vehicles seen before.  Each of
\* these is needed: the loop of run_mazda_ingest and of the refresh ends on a short page, on a
\* page without news and on its estimates.  At overlapping ZIPs the refresh
\* misses dealers that the site sorts behind a page of known vehicles.
WalkReadsAll ==
  [][WalkEnds /\ Readable(walk') => VinsOf(Range(walk'.rows)) \subseteq stored']_vars

\* A walk never asks for more pages than its first answer announced, however the
\* listing grows and repeats itself meanwhile (page_no >= total_pages).
AsAnnounced ==
  pc \in {"search", "write"} => cursor.no <= cursor.pages \/ cursor.no = 1

\* What the last message says is true: vehicles skipped as seen were stored by
\* this run, at least as many were saved as stored, and a refresh names ZIPs
\* with inventory and carlines exactly if it has stored something.
ReportAddsUp ==
  /\ seen = stored /\ Cardinality(stored) <= persisted
  /\ counts.hit <= counts.zips
  /\ pc = "completed" /\ mode = "refresh" =>
       (completed # {} <=> stored # {}) /\ (counts.hit > 0 <=> stored # {})
  /\ pc = "completed" /\ counts.hit = counts.zips => persisted >= counts.zips
  /\ pc = "completed" /\ mode # "refresh" => completed = CarlineSet

\* The walk keeps to what it was announced, and what is reported of it is true.
PagesInv == TypeOK /\ AsAnnounced /\ ReportAddsUp

\* From the dealer look-up to the end of the run, the progress that the admin page
\* shows never goes back, over pages, carlines and skipped ZIPs.  Before, it does:
\* the nationwide discovery takes the 1 that was shown back to 0.  A worker takes
\* it back to 0 once more when the run fails.
PercentNeverFalls == [][pc # "session" /\ pc' # "failed" => percent' >= percent]_vars
=============================================================================
