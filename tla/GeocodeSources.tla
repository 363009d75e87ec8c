---------------------------- MODULE GeocodeSources ----------------------------
(***************************************************************************)
(* How the threads of one process share the geocoding services.  A thread  *)
(* works on a dealer (geocode_dealer_record) or on a ZIP                   *)
(* (geocode_postal_code): it goes through the sources, from the best to    *)
(* the last, with one query after the other.  Nominatim and Google Maps    *)
(* are asked under a lock that also spaces the requests; a lock keeps      *)
(* browsers from running side by side, and a search on Google Maps needs   *)
(* both of its locks.  Time is counted in units.                           *)
(***************************************************************************)
EXTENDS Naturals, FiniteSets

CONSTANTS DealerThreads, ZipThreads,
          AddressQueries, Candidates, GoogleMost, ZipQueries,  \* queries of the stages, 5, 10, 4 and 5 in the code
          Interval      \* Interval[r]: time between two requests of a service

Threads  == DealerThreads \cup ZipThreads
Services == {"nominatim", "google"}
Mutexes  == {"browser"} \cup Services
Nobody   == "nobody"

ASSUME SourcesAssumption ==
  /\ IsFiniteSet(Threads) /\ Nobody \notin Threads
  /\ DealerThreads \cap ZipThreads = {}
  /\ {AddressQueries, Candidates, GoogleMost, ZipQueries} \subseteq Nat \ {0}
  /\ Interval \in [Services -> Nat]

\* Where a stage goes on with what it looked for, and where without.
Found ==
  [website |-> "address", browser |-> "address", address |-> "done",
   hint |-> "toyota", toyota |-> "toyotaAddress", toyotaAddress |-> "done",
   photon |-> "done", nominatim |-> "done", google |-> "reverse", reverse |-> "done",
   zip |-> "done", zipQuery |-> "done", zipPhoton |-> "done"]

NotFound ==
  [website |-> "hint", browser |-> "hint", address |-> "hint",
   hint |-> "photon", toyota |-> "photon", toyotaAddress |-> "photon",
   photon |-> "nominatim", nominatim |-> "google", google |-> "done", reverse |-> "done",
   zip |-> "zipQuery", zipQuery |-> "zipPhoton", zipPhoton |-> "done"]

Stages == DOMAIN Found

\* The stages that work under a lock; the browser's is taken before the one of
\* Google Maps.
StagesUnder ==
  [browser |-> {"browser", "google"}, google |-> {"google"},
   nominatim |-> {"address", "toyotaAddress", "nominatim", "reverse", "zipQuery"}]

Needs(s) == {l \in Mutexes : s \in StagesUnder[l]}

Queries ==
  [website |-> 1, browser |-> 1, address |-> AddressQueries,
   hint |-> 1, toyota |-> 1, toyotaAddress |-> AddressQueries,
   photon |-> 1, nominatim |-> Candidates, google |-> GoogleMost, reverse |-> GoogleMost,
   zip |-> 1, zipQuery |-> ZipQueries, zipPhoton |-> 1]

VARIABLES
  stage,   \* stage[t]
  query,   \* query[t]: number of the query of the stage
  asking,  \* asking[t]: the request is under way
  holder,  \* holder[l]: the thread that has the lock
  since,   \* since[r]: time since _..._last_request_at, at most Interval[r]
  known,   \* the ZIP is in _zip_coords_cache
  quiet    \* history: quiet[r]: time without a request before the one under way,
           \* or up to now, at most Interval[r]

sourcesVars == <<stage, query, asking, holder, since, known, quiet>>

SourcesTypeOK ==
  /\ stage \in [Threads -> Stages \cup {"done"}]
  /\ query \in [Threads -> Nat \ {0}] /\ asking \in [Threads -> BOOLEAN]
  /\ \A t \in Threads : stage[t] # "done" => query[t] <= Queries[stage[t]]
  /\ holder \in [Mutexes -> Threads \cup {Nobody}]
  /\ since \in [Services -> Nat] /\ quiet \in [Services -> Nat]
  /\ known \in BOOLEAN

SourcesInit ==
  /\ stage = [t \in Threads |-> IF t \in ZipThreads THEN "zip" ELSE "website"]
  /\ query = [t \in Threads |-> 1] /\ asking = [t \in Threads |-> FALSE]
  /\ holder = [l \in Mutexes |-> Nobody]
  /\ since = Interval /\ quiet = Interval
  /\ known = FALSE

Holds(t) == {l \in Mutexes : holder[l] = t}

\* The locks a thread has still to take for its stage, and the one it takes next.
Lacks(t) == IF stage[t] = "done" THEN {} ELSE Needs(stage[t]) \ Holds(t)
Wants(t) == {l \in Lacks(t) : l = "google" => "browser" \notin Lacks(t)}

-----------------------------------------------------------------------------
Older(age) == [r \in Services |-> IF age[r] < Interval[r] THEN age[r] + 1 ELSE age[r]]

\* The services that a request is using.
Busy == {r \in Services : \E t \in Threads : asking[t] /\ holder[r] = t}

Tick ==
  /\ since' = Older(since)
  /\ quiet' = [r \in Services |-> IF r \in Busy THEN quiet[r] ELSE Older(quiet)[r]]
  /\ since # since' \/ quiet # quiet'
  /\ UNCHANGED <<stage, query, asking, holder, known>>

Acquire(t, l) ==
  /\ ~asking[t] /\ l \in Wants(t) /\ holder[l] = Nobody
  /\ holder' = [holder EXCEPT ![l] = t]
  /\ UNCHANGED <<stage, query, asking, since, known, quiet>>

\* The sleep of the slot is over.
Spaced(t) == \A r \in Holds(t) \cap Services : since[r] >= Interval[r]

\* A ZIP that is in the cache is not asked for.
Request(t) ==
  /\ stage[t] # "done" /\ ~asking[t] /\ Lacks(t) = {} /\ Spaced(t)
  /\ IF stage[t] = "zip" /\ known
     THEN stage' = [stage EXCEPT ![t] = "done"] /\ UNCHANGED asking
     ELSE asking' = [asking EXCEPT ![t] = TRUE] /\ UNCHANGED stage
  /\ UNCHANGED <<query, holder, since, known, quiet>>

Goto(t, s, q) == stage' = [stage EXCEPT ![t] = s] /\ query' = [query EXCEPT ![t] = q]

\* Mutant of Release: the time is that of the first request.
ReleaseUnstamped(t) ==
  /\ holder' = [l \in Mutexes |-> IF holder[l] = t THEN Nobody ELSE holder[l]]
  /\ UNCHANGED since
  /\ quiet' = [r \in Services |-> IF holder[r] = t THEN 0 ELSE quiet[r]]

\* The with statements end, however the request did; all locks are given back
\* before the next stage, so the reverse lookup of a place found on Google Maps
\* waits for Nominatim without them.
Release(t) ==
  /\ holder' = [l \in Mutexes |-> IF holder[l] = t THEN Nobody ELSE holder[l]]
  /\ since' = [r \in Services |-> IF holder[r] = t THEN 0 ELSE since[r]]
  /\ quiet' = [r \in Services |-> IF holder[r] = t THEN 0 ELSE quiet[r]]

Remember(t) == known' = (known \/ t \in ZipThreads)

\* A usable answer: the name matches, the coordinates lie in the country.
Finds(t) ==
  /\ stage[t] # "done" /\ asking[t] /\ asking' = [asking EXCEPT ![t] = FALSE]
  /\ Release(t)
  /\ Goto(t, Found[stage[t]], IF stage[t] = "google" THEN query[t] ELSE 1)
  /\ IF Found[stage[t]] = "done" THEN Remember(t) ELSE UNCHANGED known

\* Mutant of FindsNot: a failed request leaves the slot without giving it back.
FindsNotHolding(t) ==
  /\ stage[t] # "done" /\ asking[t] /\ asking' = [asking EXCEPT ![t] = FALSE]
  /\ UNCHANGED <<holder, since, quiet, known>>
  /\ IF query[t] < Queries[stage[t]]
     THEN Goto(t, IF stage[t] = "reverse" THEN "google" ELSE stage[t], query[t] + 1)
     ELSE Goto(t, NotFound[stage[t]], 1)

\* Nothing, the wrong place, or an exception that the request catches: the next
\* query of the stage or the next stage.
FindsNot(t) ==
  /\ stage[t] # "done" /\ asking[t] /\ asking' = [asking EXCEPT ![t] = FALSE]
  /\ Release(t) /\ UNCHANGED known
  /\ IF query[t] < Queries[stage[t]]
     THEN Goto(t, IF stage[t] = "reverse" THEN "google" ELSE stage[t], query[t] + 1)
     ELSE Goto(t, NotFound[stage[t]], 1)

\* The website cannot be read without a browser.
Blocked(t) ==
  /\ stage[t] = "website" /\ asking[t] /\ asking' = [asking EXCEPT ![t] = FALSE]
  /\ Goto(t, "browser", 1) /\ UNCHANGED <<holder, since, known, quiet>>

\* An answer that cannot be read ends the work on the dealer; nothing is asked
\* under a lock when that happens.
Breaks(t) ==
  /\ stage[t] \in {"website", "hint", "toyota", "photon", "zipPhoton"}
  /\ asking[t] /\ asking' = [asking EXCEPT ![t] = FALSE]
  /\ Goto(t, "done", 1) /\ UNCHANGED <<holder, since, known, quiet>>

Step(t) == (\E l \in Mutexes : Acquire(t, l)) \/ Request(t) \/ Finds(t) \/ FindsNot(t) \/ Blocked(t) \/ Breaks(t)

SourcesNext == Tick \/ \E t \in Threads : Step(t)

SourcesSpec == SourcesInit /\ [][SourcesNext]_sourcesVars

\* The threads run, every request has a timeout, and time passes.
FairSourcesSpec == SourcesSpec /\ WF_sourcesVars(Tick) /\ \A t \in Threads : WF_sourcesVars(Step(t))
-----------------------------------------------------------------------------
(* Properties.                                                             *)

Asking(l) == {t \in Threads : asking[t] /\ stage[t] # "done" /\ l \in Needs(stage[t])}

\* A request to Nominatim or Google Maps begins only when the last one of any
\* thread has been over for the interval, and two are never under way together.
RequestsSpaced ==
  \A r \in Services : \A t \in Threads :
    asking[t] /\ holder[r] = t => quiet[r] >= Interval[r] /\ Asking(r) = {t}

\* At most one browser runs, for a dealer's website or for Google Maps.
OneBrowser == Cardinality({t \in Threads : asking[t] /\ stage[t] \in {"browser", "google"}}) <= 1

\* A thread that waits for a lock has no other one, but for the browser's while
\* it waits for Google Maps; no thread keeps another from going on in a circle.
WaitsFreely ==
  \A t \in Threads : \A l \in Wants(t) :
    Holds(t) \subseteq IF l = "google" THEN {"browser"} ELSE {}

\* Who asks has the locks of its stage, who has locks has them for its stage, the
\* browser's before that of Google Maps; and no slot ends its sleep too early,
\* because since never runs ahead of quiet.
SlotsInv ==
  /\ \A t \in Threads :
       /\ asking[t] => stage[t] # "done" /\ Needs(stage[t]) \subseteq Holds(t)
       /\ Holds(t) # {} => stage[t] # "done" /\ Holds(t) \subseteq Needs(stage[t])
       /\ "google" \in Holds(t) => "browser" \in Holds(t)
  /\ \A r \in Services :
       /\ since[r] <= quiet[r] /\ since[r] <= Interval[r]
       /\ holder[r] # Nobody /\ asking[holder[r]] => quiet[r] >= Interval[r]

\* The locks do what they are for, and no more.
RequestsTakeTurns == SourcesTypeOK /\ SlotsInv /\ RequestsSpaced /\ OneBrowser /\ WaitsFreely

\* Every thread comes to the end of its sources.
EveryThreadEnds == <>(\A t \in Threads : stage[t] = "done")
=============================================================================
