---------------------------- MODULE GeocodeProofs -----------------------------
(***************************************************************************)
(* Proofs about the two modules of dealer geocoding.                       *)
(*                                                                         *)
(* GeocodeSources, for any sets of threads, numbers of queries and         *)
(* intervals: SourcesTypeOK and SlotsInv together are inductive.           *)
(*                                                                         *)
(* GeocodeBatch, for any finite set of dealers, any numbers of workers,    *)
(* syncs and requests, and any answers of the geocoders.                   *)
(***************************************************************************)
EXTENDS GeocodeBatch, GeocodeSources, FiniteSetTheorems, SequenceTheorems, TLAPS

Slots == SourcesTypeOK /\ SlotsInv

-----------------------------------------------------------------------------
(* Stages.                                                                 *)

\* The stages go on at stages, or end.
LEMMA StagesGoOn ==
  \A s \in Stages : Found[s] \in Stages \cup {"done"} /\ NotFound[s] \in Stages \cup {"done"}
<1> QED  BY DEF Stages, Found, NotFound

\* A stage has at least one query, and the reverse lookup as many as Google Maps.
LEMMA StagesAsk ==
  /\ \A s \in Stages : Queries[s] \in Nat \ {0}
  /\ Queries["reverse"] = Queries["google"]
<1> QED  BY SourcesAssumption DEF Queries, Stages, Found

\* No stage needs a lock that is none; only Google Maps needs two.
LEMMA StagesNeed ==
  \A s \in Stages :
    /\ Needs(s) \subseteq Mutexes
    /\ Needs(s) \cap Services # {} /\ s # "google" => Needs(s) = {"nominatim"}
    /\ "google" \in Needs(s) <=> s = "google"
    /\ "browser" \in Needs(s) <=> s \in {"browser", "google"}
    /\ s \in {"website", "hint", "toyota", "photon", "zipPhoton"} => Needs(s) = {}
<1> QED  BY DEF Stages, Found, Needs, StagesUnder, Mutexes, Services

-----------------------------------------------------------------------------
(* The slots.                                                              *)

\* At first nobody holds a lock and both services have rested.
LEMMA SlotsInit == SourcesInit => Slots
<1> SUFFICES ASSUME SourcesInit PROVE Slots  OBVIOUS
<1> USE SourcesAssumption DEF SourcesInit
<1>1. {"zip", "website"} \subseteq Stages  BY DEF Stages, Found
<1>2. SourcesTypeOK
  <2>1. stage \in [Threads -> Stages \cup {"done"}]  BY <1>1
  <2>2. \A t \in Threads : stage[t] # "done" => query[t] <= Queries[stage[t]]
    BY <1>1, StagesAsk
  <2>3. query \in [Threads -> Nat \ {0}]  OBVIOUS
  <2>4. asking \in [Threads -> BOOLEAN] /\ known \in BOOLEAN  OBVIOUS
  <2>5. holder \in [Mutexes -> Threads \cup {Nobody}]  OBVIOUS
  <2>6. since \in [Services -> Nat] /\ quiet \in [Services -> Nat]  OBVIOUS
  <2> QED  BY <2>1, <2>2, <2>3, <2>4, <2>5, <2>6 DEF SourcesTypeOK
<1>3. \A t \in Threads : Holds(t) = {} /\ ~asking[t]  BY DEF Holds
<1>4. SlotsInv  BY <1>3 DEF SlotsInv, Services, Mutexes
<1> QED  BY <1>2, <1>4 DEF Slots

\* Time makes no difference to the locks.
LEMMA TickKeeps == Slots /\ Tick => Slots'
<1> SUFFICES ASSUME Slots, Tick PROVE Slots'  OBVIOUS
<1> USE SourcesAssumption DEF Slots, Tick
<1>1. \A r \in Services :
        /\ since'[r] \in Nat /\ quiet'[r] \in Nat
        /\ since'[r] <= Interval[r] /\ since'[r] <= quiet'[r] /\ quiet'[r] >= quiet[r]
  <2> TAKE r \in Services
  <2>1. /\ since[r] \in Nat /\ quiet[r] \in Nat /\ Interval[r] \in Nat
        /\ since[r] <= quiet[r] /\ since[r] <= Interval[r]  BY DEF SourcesTypeOK, SlotsInv
  <2>2. r \in Busy => quiet[r] >= Interval[r]
    BY DEF Busy, SlotsInv
  <2>3. since'[r] = IF since[r] < Interval[r] THEN since[r] + 1 ELSE since[r]
    BY DEF Older
  <2>4. quiet'[r] = IF r \in Busy THEN quiet[r]
                    ELSE IF quiet[r] < Interval[r] THEN quiet[r] + 1 ELSE quiet[r]
    BY DEF Older
  <2> QED  BY <2>1, <2>2, <2>3, <2>4
<1>2. since' \in [Services -> Nat] /\ quiet' \in [Services -> Nat]
  BY <1>1 DEF Older
<1>3. SourcesTypeOK'  BY <1>2 DEF SourcesTypeOK
<1>4. SlotsInv'  BY <1>1 DEF SlotsInv, Holds, SourcesTypeOK
<1> QED  BY <1>3, <1>4

\* A free lock is taken in the order of Wants.
LEMMA TakeKeeps == ASSUME NEW t \in Threads, NEW l \in Mutexes, Slots, Acquire(t, l) PROVE Slots'
<1> USE SourcesAssumption DEF Slots, Acquire
<1>1. l \in Needs(stage[t]) /\ stage[t] # "done" /\ (l = "google" => holder["browser"] = t)
  BY DEF Wants, Lacks, Holds, SourcesTypeOK, Needs, StagesUnder, Mutexes
<1>2. SourcesTypeOK'  BY DEF SourcesTypeOK
<1>3. \A u \in Threads :
        /\ u # t => Holds(u)' = Holds(u)
        /\ u = t => Holds(u)' = Holds(u) \cup {l}
  BY DEF Holds, SourcesTypeOK
<1>4. \A u \in Threads :
        /\ asking'[u] => stage'[u] # "done" /\ Needs(stage[u])' \subseteq Holds(u)'
        /\ Holds(u)' # {} => stage'[u] # "done" /\ Holds(u)' \subseteq Needs(stage[u])'
        /\ "google" \in Holds(u)' => "browser" \in Holds(u)'
  <2> TAKE u \in Threads
  <2>1. stage' = stage /\ asking' = asking /\ Needs(stage[u])' = Needs(stage[u])
    BY DEF Needs
  <2>2. CASE u # t  BY <1>3, <2>1, <2>2 DEF SlotsInv
  <2>3. CASE u = t
    <3>1. "browser" \in Holds(t)' \/ l # "google"  BY <1>1, <1>3, <2>3 DEF Holds, Mutexes
    <3>2. ~asking'[u] /\ Holds(u)' = Holds(u) \cup {l}  BY <1>3, <2>1, <2>3
    <3> QED  BY <1>1, <2>1, <2>3, <3>1, <3>2 DEF SlotsInv
  <2> QED  BY <2>2, <2>3
<1>5. SlotsInv'  BY <1>4 DEF SlotsInv, SourcesTypeOK, Mutexes, Services
<1> QED  BY <1>2, <1>5

\* A thread asks with all its locks, after the interval.
LEMMA AskKeeps == ASSUME NEW t \in Threads, Slots, Request(t) PROVE Slots'
<1> USE SourcesAssumption DEF Slots, Request
<1>1. SourcesTypeOK'  BY DEF SourcesTypeOK
<1>2. CASE stage[t] = "zip" /\ known
  <2>1. Needs("zip") = {}  BY DEF Needs, StagesUnder, Mutexes, Services
  <2>2. Holds(t) = {} /\ ~asking[t]  BY <1>2, <2>1 DEF SlotsInv
  <2>3. \A u \in Threads : Holds(u)' = Holds(u)  BY DEF Holds
  <2>4. \A u \in Threads \ {t} : stage'[u] = stage[u] /\ Needs(stage[u])' = Needs(stage[u])
    BY <1>2 DEF SourcesTypeOK, Needs
  <2> QED  BY <1>1, <1>2, <2>2, <2>3, <2>4 DEF SlotsInv
<1>3. CASE ~(stage[t] = "zip" /\ known)
  <2>1. Needs(stage[t]) \subseteq Holds(t)  BY DEF Lacks
  <2>2. \A r \in Services : holder[r] = t => quiet[r] >= Interval[r]
    BY DEF Spaced, Holds, SlotsInv, SourcesTypeOK, Services, Mutexes
  <2>3. \A u \in Threads : Holds(u)' = Holds(u) /\ Needs(stage[u])' = Needs(stage[u])
    BY <1>3 DEF Holds, Needs
  <2> QED  BY <1>1, <1>3, <2>1, <2>2, <2>3 DEF SlotsInv, SourcesTypeOK, Mutexes, Services
<1> QED  BY <1>2, <1>3

-----------------------------------------------------------------------------
(* The end of a request.                                                   *)

\* Going on keeps the types of stage and query.
LEMMA GotoTypes ==
  ASSUME SourcesTypeOK, NEW t \in Threads, NEW s \in Stages \cup {"done"}, NEW q \in Nat \ {0},
         s # "done" => q <= Queries[s], Goto(t, s, q)
  PROVE  /\ stage' \in [Threads -> Stages \cup {"done"}] /\ query' \in [Threads -> Nat \ {0}]
         /\ \A u \in Threads : stage'[u] # "done" => query'[u] <= Queries[stage'[u]]
<1> QED  BY DEF SourcesTypeOK, Goto

\* A thread that gives its locks back has none for its next stage, and the
\* others keep theirs.
LEMMA ReleaseKeeps ==
  ASSUME Slots, NEW t \in Threads, Release(t),
         asking' = [asking EXCEPT ![t] = FALSE],
         \A u \in Threads \ {t} : stage'[u] = stage[u]
  PROVE  /\ holder' \in [Mutexes -> Threads \cup {Nobody}]
         /\ since' \in [Services -> Nat] /\ quiet' \in [Services -> Nat]
         /\ SlotsInv'
<1> USE SourcesAssumption DEF Slots, Release
<1>1. holder' \in [Mutexes -> Threads \cup {Nobody}]  BY DEF SourcesTypeOK
<1>2. since' \in [Services -> Nat] /\ quiet' \in [Services -> Nat]  BY DEF SourcesTypeOK
<1>3. Holds(t)' = {} /\ ~asking'[t]  BY DEF Holds, SourcesTypeOK
<1>4. \A u \in Threads \ {t} :
        Holds(u)' = Holds(u) /\ asking'[u] = asking[u] /\ Needs(stage[u])' = Needs(stage[u])
  BY DEF Holds, SourcesTypeOK, Needs
<1>5. \A r \in Services :
        /\ since'[r] <= quiet'[r] /\ since'[r] <= Interval[r]
        /\ holder'[r] # Nobody /\ asking'[holder'[r]] => quiet'[r] >= Interval[r]
  BY DEF SourcesTypeOK, SlotsInv, Mutexes, Services
<1>6. SlotsInv'  BY <1>3, <1>4, <1>5 DEF SlotsInv
<1> QED  BY <1>1, <1>2, <1>6

\* Found, or on to the reverse lookup with the same number of queries.
LEMMA FindsKeeps == ASSUME NEW t \in Threads, Slots, Finds(t) PROVE Slots'
<1> USE SourcesAssumption DEF Slots
<1> DEFINE next == Found[stage[t]]
           q    == IF stage[t] = "google" THEN query[t] ELSE 1
<1>1. stage[t] \in Stages /\ query[t] \in Nat \ {0} /\ query[t] <= Queries[stage[t]]
  BY DEF Finds, SourcesTypeOK
<1>2. next \in Stages \cup {"done"}  BY <1>1, StagesGoOn
<1>3. stage[t] = "google" => next = "reverse"  BY DEF Found
<1>4. q \in Nat \ {0} /\ (next # "done" => q <= Queries[next])
  BY <1>1, <1>2, <1>3, StagesAsk
<1>5. Goto(t, next, q)  BY DEF Finds
<1>6. /\ stage' \in [Threads -> Stages \cup {"done"}] /\ query' \in [Threads -> Nat \ {0}]
      /\ \A u \in Threads : stage'[u] # "done" => query'[u] <= Queries[stage'[u]]
  <2> HIDE DEF next, q
  <2> QED  BY <1>2, <1>4, <1>5, GotoTypes
<1>7. /\ Release(t) /\ asking' = [asking EXCEPT ![t] = FALSE]
      /\ \A u \in Threads \ {t} : stage'[u] = stage[u]
  BY DEF Finds, Goto, SourcesTypeOK
<1>8. asking' \in [Threads -> BOOLEAN]  BY <1>7 DEF SourcesTypeOK
<1>9. known' \in BOOLEAN  BY DEF Finds, Remember, SourcesTypeOK
<1> QED  BY <1>6, <1>7, <1>8, <1>9, ReleaseKeeps DEF SourcesTypeOK

\* The next query of a stage, or the next stage.
LEMMA FindsNotKeeps == ASSUME NEW t \in Threads, Slots, FindsNot(t) PROVE Slots'
<1> USE SourcesAssumption DEF Slots
<1>1. stage[t] \in Stages /\ query[t] \in Nat \ {0} /\ query[t] <= Queries[stage[t]]
  BY DEF FindsNot, SourcesTypeOK
<1>2. NotFound[stage[t]] \in Stages \cup {"done"}  BY <1>1, StagesGoOn
<1>3. {"google", "reverse"} \subseteq Stages  BY DEF Stages, Found
<1>4. /\ stage' \in [Threads -> Stages \cup {"done"}] /\ query' \in [Threads -> Nat \ {0}]
      /\ \A u \in Threads : stage'[u] # "done" => query'[u] <= Queries[stage'[u]]
  <2>1. CASE query[t] < Queries[stage[t]]
    <3> DEFINE s == IF stage[t] = "reverse" THEN "google" ELSE stage[t]
    <3>1. s \in Stages /\ query[t] + 1 \in Nat \ {0} /\ query[t] + 1 <= Queries[s]
      BY <1>1, <1>3, <2>1, StagesAsk
    <3>2. Goto(t, s, query[t] + 1)  BY <2>1 DEF FindsNot
    <3> HIDE DEF s
    <3> QED  BY <3>1, <3>2, GotoTypes
  <2>2. CASE ~(query[t] < Queries[stage[t]])
    <3>1. Goto(t, NotFound[stage[t]], 1)  BY <2>2 DEF FindsNot
    <3>2. NotFound[stage[t]] # "done" => 1 <= Queries[NotFound[stage[t]]]
      BY <1>2, StagesAsk
    <3> QED  BY <1>2, <3>1, <3>2, GotoTypes
  <2> QED  BY <2>1, <2>2
<1>5. /\ Release(t) /\ asking' = [asking EXCEPT ![t] = FALSE]
      /\ \A u \in Threads \ {t} : stage'[u] = stage[u]
  BY DEF FindsNot, Goto, SourcesTypeOK
<1>6. asking' \in [Threads -> BOOLEAN] /\ known' \in BOOLEAN  BY <1>5 DEF FindsNot, SourcesTypeOK
<1> QED  BY <1>4, <1>5, <1>6, ReleaseKeeps DEF SourcesTypeOK

\* A stage without locks is left.
LEMMA LeaveKeeps ==
  ASSUME Slots, NEW t \in Threads, NEW s \in Stages \cup {"done"},
         stage[t] \in Stages, Needs(stage[t]) = {}, Goto(t, s, 1),
         asking' = [asking EXCEPT ![t] = FALSE], UNCHANGED <<holder, since, known, quiet>>
  PROVE  Slots'
<1> USE SourcesAssumption DEF Slots
<1>1. s # "done" => 1 <= Queries[s]  BY StagesAsk
<1>2. SourcesTypeOK'
  <2>1. /\ stage' \in [Threads -> Stages \cup {"done"}] /\ query' \in [Threads -> Nat \ {0}]
        /\ \A u \in Threads : stage'[u] # "done" => query'[u] <= Queries[stage'[u]]
    BY <1>1, GotoTypes
  <2>2. asking' \in [Threads -> BOOLEAN]  BY DEF SourcesTypeOK
  <2> QED  BY <2>1, <2>2 DEF SourcesTypeOK
<1>3. Holds(t) = {} /\ ~asking'[t]  BY DEF SlotsInv, SourcesTypeOK
<1>4. \A u \in Threads : Holds(u)' = Holds(u)  BY DEF Holds
<1>5. \A u \in Threads \ {t} :
        asking'[u] = asking[u] /\ stage'[u] = stage[u] /\ Needs(stage[u])' = Needs(stage[u])
  BY DEF Goto, SourcesTypeOK, Needs
<1>6. \A r \in Services : holder[r] # Nobody /\ asking'[holder[r]] => quiet[r] >= Interval[r]
  BY DEF SlotsInv, SourcesTypeOK, Mutexes, Services
<1>7. SlotsInv'  BY <1>3, <1>4, <1>5, <1>6 DEF SlotsInv
<1> QED  BY <1>2, <1>7

\* The website without a browser needs no lock.
LEMMA BlockedKeeps == ASSUME NEW t \in Threads, Slots, Blocked(t) PROVE Slots'
<1>1. stage[t] = "website" /\ "website" \in Stages /\ "browser" \in Stages
  BY DEF Blocked, Stages, Found
<1> QED  BY <1>1, StagesNeed, LeaveKeeps DEF Blocked

\* A stage that breaks has no lock.
LEMMA BreaksKeeps == ASSUME NEW t \in Threads, Slots, Breaks(t) PROVE Slots'
<1>1. stage[t] \in Stages /\ Needs(stage[t]) = {}
  BY StagesNeed DEF Breaks, Stages, Found
<1> QED  BY <1>1, LeaveKeeps DEF Breaks

-----------------------------------------------------------------------------
(* The invariants.                                                         *)

\* Slots is inductive.
LEMMA SlotsKept == Slots /\ [SourcesNext]_sourcesVars => Slots'
<1> SUFFICES ASSUME Slots, [SourcesNext]_sourcesVars PROVE Slots'  OBVIOUS
<1>1. CASE Tick  BY <1>1, TickKeeps
<1>2. ASSUME NEW t \in Threads, Step(t) PROVE Slots'
  <2>1. ASSUME NEW l \in Mutexes, Acquire(t, l) PROVE Slots'  BY <2>1, TakeKeeps
  <2>2. CASE Request(t)  BY <2>2, AskKeeps
  <2>3. CASE Finds(t)  BY <2>3, FindsKeeps
  <2>4. CASE FindsNot(t)  BY <2>4, FindsNotKeeps
  <2>5. CASE Blocked(t)  BY <2>5, BlockedKeeps
  <2>6. CASE Breaks(t)  BY <2>6, BreaksKeeps
  <2> QED  BY <1>2, <2>1, <2>2, <2>3, <2>4, <2>5, <2>6 DEF Step
<1>3. CASE UNCHANGED sourcesVars
  <2>1. SourcesTypeOK'  BY <1>3 DEF Slots, SourcesTypeOK, sourcesVars
  <2>2. SlotsInv'  BY <1>3 DEF Slots, SlotsInv, Holds, Needs, sourcesVars
  <2> QED  BY <2>1, <2>2 DEF Slots
<1> QED  BY <1>1, <1>2, <1>3 DEF SourcesNext

\* In every state of the slots each request has waited for its interval and is alone
\* with its service, one browser runs, and nobody waits in a circle.
LEMMA SlotsSuffice == Slots => RequestsTakeTurns
<1> SUFFICES ASSUME Slots PROVE RequestsTakeTurns  OBVIOUS
<1> USE SourcesAssumption DEF Slots
<1>1. RequestsSpaced
  <2> SUFFICES ASSUME NEW r \in Services, NEW t \in Threads, asking[t], holder[r] = t
               PROVE  quiet[r] >= Interval[r] /\ Asking(r) = {t}
    BY DEF RequestsSpaced
  <2>1. quiet[r] >= Interval[r]  BY DEF SlotsInv
  <2>2. r \in Mutexes  BY DEF Mutexes
  <2>3. t \in Asking(r)  BY <2>2 DEF Asking, SlotsInv, Holds
  <2>4. \A u \in Asking(r) : u = t  BY DEF Asking, SlotsInv, Holds
  <2> QED  BY <2>1, <2>3, <2>4
<1>2. OneBrowser
  <2> DEFINE browsing == {t \in Threads : asking[t] /\ stage[t] \in {"browser", "google"}}
  <2>1. \A t \in browsing : holder["browser"] = t
    BY StagesNeed DEF SlotsInv, SourcesTypeOK, Holds
  <2>2. browsing \subseteq {holder["browser"]}  BY <2>1
  <2>3. Cardinality(browsing) <= 1
    <3> HIDE DEF browsing
    <3>1. IsFiniteSet({holder["browser"]}) /\ Cardinality({holder["browser"]}) = 1
      BY FS_Singleton
    <3> QED  BY <2>2, <3>1, FS_Subset
  <2> QED  BY <2>3 DEF OneBrowser
<1>3. WaitsFreely
  <2> SUFFICES ASSUME NEW t \in Threads, NEW l \in Wants(t)
               PROVE  Holds(t) \subseteq IF l = "google" THEN {"browser"} ELSE {}
    BY DEF WaitsFreely
  <2>1. stage[t] \in Stages /\ l \in Needs(stage[t]) /\ l \notin Holds(t)
    BY DEF Wants, Lacks, SourcesTypeOK
  <2>2. Holds(t) \subseteq Needs(stage[t])  BY DEF SlotsInv
  <2>3. CASE stage[t] = "google"
    <3>1. Needs("google") = {"browser", "google"}  BY DEF Needs, StagesUnder, Mutexes, Services
    <3> QED  BY <2>1, <2>2, <2>3, <3>1 DEF SlotsInv
  <2>4. CASE stage[t] # "google"
    <3>1. Needs(stage[t]) = {l}
      BY <2>1, <2>4 DEF Needs, StagesUnder, Mutexes, Services
    <3> QED  BY <2>1, <2>2, <3>1
  <2> QED  BY <2>3, <2>4
<1> QED  BY <1>1, <1>2, <1>3 DEF RequestsTakeTurns

\* Requests to Nominatim and Google Maps are spaced and one at a time, one browser
\* runs and no thread waits for another in a circle, however many threads of a
\* process look up dealers and ZIPs.
THEOREM TurnsAreTaken == SourcesSpec => []RequestsTakeTurns
<1>1. SourcesInit => Slots  BY SlotsInit
<1>2. Slots /\ [SourcesNext]_sourcesVars => Slots'  BY SlotsKept
<1>3. Slots => RequestsTakeTurns  BY SlotsSuffice
<1> QED  BY <1>1, <1>2, <1>3, PTL DEF SourcesSpec

-----------------------------------------------------------------------------
(* The batch.                                                              *)

\* The answers since the last commit, as a remainder.
LEMMA Remainder ==
  ASSUME NEW k \in Nat \ {0}
  PROVE  /\ 0 % k = 0
         /\ \A c \in Nat : c % k \in 0 .. k - 1
         /\ \A c \in Nat \ {0} : c % k # 0 => ((c - 1) % k) + 1 = c % k
<1>1. \A c \in Nat : c % k \in 0 .. k - 1
  OBVIOUS
<1>2. ASSUME NEW c \in Nat \ {0}, c % k # 0 PROVE ((c - 1) % k) + 1 = c % k
  <2>1. c = k * (c \div k) + (c % k) /\ c \div k \in Int /\ c % k \in 0 .. k - 1
    OBVIOUS
  <2>2. PICK q \in Int, r \in 0 .. k - 1 : c = k * q + r /\ r = c % k
    BY <2>1, Zenon
  <2>3. c - 1 = k * q + (r - 1) /\ r - 1 \in 0 .. k - 1
    BY <1>2, <2>2
  <2>4. (c - 1) % k = r - 1
    BY <2>3
  <2>5. QED  BY <2>2, <2>4
<1>3. QED  BY <1>1, <1>2

USE BatchAssumption DEF Ended

-----------------------------------------------------------------------------
(* The values of the variables.                                            *)

Pending == {"batch", "sync"}
Tables  == [Dealers -> RowType]
Counters == [completed : Nat, geocoded : Nat, failed : Nat]
Syncs    == [rest : Seq(Dealers), open : BOOLEAN]
Bounds   == [syncs : 0 .. MaxSyncs, admin : 0 .. MaxAdmin]

Shapes ==
  /\ cache \in Tables /\ tx \in [Pending -> Tables]
  /\ pc \in {"new", "check", "await", "store", "count"} \cup Ended
  /\ force \in BOOLEAN /\ workers \in 1 .. MaxWorkers /\ todo \subseteq Dealers
  /\ thread \in [Dealers -> {"off", "waiting", "running", "over"}]
  /\ answers \in Seq(Dealers \X Replies) /\ hand \in (Dealers \cup {0}) \X Replies
  /\ pc = "store" => hand[1] \in Dealers /\ hand[2] \in {"full", "failed"}
  /\ tally \in Counters
  /\ cancel \in BOOLEAN /\ admin \in Dealers \cup {0}
  /\ sync \in Syncs /\ used \in Bounds
  /\ touched \subseteq Dealers /\ good \subseteq Dealers /\ missed \subseteq Dealers /\ late \in Nat

\* A transaction without rows.
LEMMA NoRows == NoTx \in Tables /\ \A d \in Dealers : NoTx[d].kind = "none"
BY DEF NoTx, Tables, RowType, Absent, Kinds, Writers

\* A row that a transaction writes.
LEMMA Written ==
  ASSUME tx \in [Pending -> Tables], NEW w \in Pending, NEW d \in Dealers, NEW k \in Kinds \ {"none"}, Write(w, d, k)
  PROVE  /\ tx' \in [Pending -> Tables]
         /\ tx'[w][d] = [kind |-> k, by |-> w] /\ \A e \in Dealers \ {d} : tx'[w][e] = tx[w][e]
         /\ \A x \in Pending \ {w} : tx'[x] = tx[x] /\ Locks(x)' = Locks(x)
         /\ Locks(w)' = Locks(w) \cup {d}
<1> DEFINE row == [kind |-> k, by |-> w]
           t   == [tx[w] EXCEPT ![d] = row]
<1>1. row \in RowType /\ row.kind = k
  BY DEF RowType, Writers, Pending
<1> HIDE DEF row
<1>2. tx[w] \in Tables
  OBVIOUS
<1>3. t \in Tables /\ t[d] = row /\ \A e \in Dealers \ {d} : t[e] = tx[w][e]
  BY <1>1, <1>2 DEF Tables
<1>4. tx' = [tx EXCEPT ![w] = t]
  BY <1>2 DEF Write, row
<1> HIDE DEF t
<1>5. tx' \in [Pending -> Tables] /\ tx'[w] = t /\ \A x \in Pending \ {w} : tx'[x] = tx[x]
  BY <1>3, <1>4
<1>6. Locks(w)' = Locks(w) \cup {d}
  <2>1. \A e \in Dealers : e \in Locks(w)' <=> e \in Locks(w) \/ e = d
    BY <1>1, <1>3, <1>5 DEF Locks
  <2>2. Locks(w)' \subseteq Dealers /\ Locks(w) \subseteq Dealers
    BY DEF Locks
  <2>3. QED  BY <2>1, <2>2
<1>7. \A x \in Pending \ {w} : Locks(x)' = Locks(x)
  BY <1>5 DEF Locks
<1>8. QED  BY <1>3, <1>5, <1>6, <1>7 DEF row

\* A transaction that ends.
LEMMA Emptied ==
  ASSUME tx \in [Pending -> Tables], NEW w \in Pending, Rollback(w)
  PROVE  /\ tx' \in [Pending -> Tables] /\ Locks(w)' = {}
         /\ \A d \in Dealers : tx'[w][d].kind = "none"
         /\ \A x \in Pending \ {w} : tx'[x] = tx[x] /\ Locks(x)' = Locks(x)
<1>1. tx' \in [Pending -> Tables] /\ tx'[w] = NoTx /\ \A x \in Pending \ {w} : tx'[x] = tx[x]
  BY NoRows DEF Rollback
<1>2. QED  BY <1>1, NoRows DEF Locks

\* What it wrote, if it commits.
LEMMA Committed ==
  ASSUME cache \in Tables, tx \in [Pending -> Tables], NEW w \in Pending, Commit(w)
  PROVE  /\ Rollback(w) /\ cache' \in Tables
         /\ \A d \in Dealers : cache'[d] = IF d \in Locks(w) THEN tx[w][d] ELSE cache[d]
<1>1. cache' = [d \in Dealers |-> IF tx[w][d].kind = "none" THEN cache[d] ELSE tx[w][d]]
  BY DEF Commit, Merged
<1>2. QED  BY <1>1 DEF Commit, Rollback, Tables, Locks

\* What an answer that is taken, stored or not stored adds to them.
LEMMA TakeCounts ==
  ASSUME Shapes, Take
  PROVE  /\ tally' \in Counters /\ tally'.completed = tally.completed + 1 /\ tally'.geocoded = tally.geocoded
         /\ tally'.failed = IF Head(answers)[2] = "error" THEN tally.failed + 1 ELSE tally.failed
<1> DEFINE n == tally.completed + 1
           k == IF Head(answers)[2] = "error" THEN tally.failed + 1 ELSE tally.failed
<1>1. tally \in Counters /\ n \in Nat /\ k \in Nat
  BY DEF Shapes, Counters
<1>2. tally' = [tally EXCEPT !.completed = @ + 1, !.failed = IF Head(answers)[2] = "error" THEN @ + 1 ELSE @]
  BY Zenon DEF Take
<1>3. tally' = [tally EXCEPT !.completed = n, !.failed = k]
  BY <1>2, Zenon
<1> HIDE DEF n, k
<1>4. tally' \in Counters /\ tally'.completed = n /\ tally'.geocoded = tally.geocoded /\ tally'.failed = k
  BY <1>1, <1>3 DEF Counters
<1>5. QED  BY <1>4 DEF n, k

\* What an answer that is stored adds.
LEMMA StoreCounts ==
  ASSUME Shapes, Store
  PROVE  /\ tally' \in Counters /\ tally'.completed = tally.completed
         /\ tally'.geocoded = IF hand[2] = "full" THEN tally.geocoded + 1 ELSE tally.geocoded
         /\ tally'.failed = IF hand[2] = "full" THEN tally.failed ELSE tally.failed + 1
<1> DEFINE n == IF hand[2] = "full" THEN tally.geocoded + 1 ELSE tally.geocoded
           k == IF hand[2] = "full" THEN tally.failed ELSE tally.failed + 1
<1>1. tally \in Counters /\ n \in Nat /\ k \in Nat
  BY DEF Shapes, Counters
<1>2. tally' = [tally EXCEPT !.geocoded = IF hand[2] = "full" THEN @ + 1 ELSE @,
                             !.failed = IF hand[2] = "full" THEN @ ELSE @ + 1]
  BY Zenon DEF Store
<1>3. tally' = [tally EXCEPT !.geocoded = n, !.failed = k]
  BY <1>2, Zenon
<1> HIDE DEF n, k
<1>4. tally' \in Counters /\ tally'.completed = tally.completed /\ tally'.geocoded = n /\ tally'.failed = k
  BY <1>1, <1>3 DEF Counters
<1>5. QED  BY <1>4 DEF n, k

\* An answer that is not stored is counted as failed.
LEMMA StoreFailsCounts ==
  ASSUME Shapes, StoreFails
  PROVE  /\ tally' \in Counters /\ tally'.completed = tally.completed /\ tally'.geocoded = tally.geocoded
         /\ tally'.failed = tally.failed + 1
<1> DEFINE k == tally.failed + 1
<1>1. tally \in Counters /\ k \in Nat
  BY DEF Shapes, Counters
<1>2. tally' = [tally EXCEPT !.failed = k]
  BY DEF StoreFails
<1> HIDE DEF k
<1>3. QED  BY <1>1, <1>2 DEF Counters, k

\* Requests and syncs are counted up to their bounds.
LEMMA Used ==
  ASSUME NEW u \in Bounds
  PROVE  /\ u.syncs < MaxSyncs => [u EXCEPT !.syncs = @ + 1] \in Bounds
         /\ u.admin < MaxAdmin => [u EXCEPT !.admin = @ + 1] \in Bounds
<1>1. ASSUME NEW n \in 0 .. MaxSyncs PROVE [u EXCEPT !.syncs = n] \in Bounds
  BY DEF Bounds
<1>2. ASSUME NEW n \in 0 .. MaxAdmin PROVE [u EXCEPT !.admin = n] \in Bounds
  BY DEF Bounds
<1>3. u.syncs < MaxSyncs => u.syncs + 1 \in 0 .. MaxSyncs
  BY DEF Bounds
<1>4. u.admin < MaxAdmin => u.admin + 1 \in 0 .. MaxAdmin
  BY DEF Bounds
<1>5. QED  BY <1>1, <1>2, <1>3, <1>4, Zenon

\* The rest of a sync.
LEMMA Rest ==
  ASSUME NEW s \in Syncs, NEW t \in Seq(Dealers)
  PROVE  [s EXCEPT !.rest = t] \in Syncs /\ [s EXCEPT !.rest = t].open = s.open
BY DEF Syncs

\* At first the rows are what the parameters say and nobody has begun.
LEMMA ShapesInit == Init => Shapes
<1> SUFFICES ASSUME Init PROVE Shapes
  OBVIOUS
<1>1. cache \in Tables
  <2>1. PICK b \in Before : cache = [d \in Dealers |-> [kind |-> b[d], by |-> "before"]]
    BY DEF Init
  <2>2. b \in [Dealers -> Kinds]
    BY <2>1
  <2>3. QED  BY <2>1, <2>2 DEF Tables, RowType
<1>2. tx \in [Pending -> Tables]
  BY NoRows DEF Init, Pending
<1>3. tally \in Counters /\ sync \in Syncs /\ used \in Bounds
  <2>1. <<>> \in Seq(Dealers)
    OBVIOUS
  <2>2. QED  BY <2>1 DEF Init, Counters, Syncs, Bounds
<1>4. hand \in (Dealers \cup {0}) \X Replies /\ answers \in Seq(Dealers \X Replies)
  BY DEF Init, Nothing, Replies
<1>5. QED  BY <1>1, <1>2, <1>3, <1>4 DEF Init, Shapes

\* Every step keeps the variables in shape.
LEMMA ShapesStep == Shapes /\ [Next]_vars => Shapes'
<1> SUFFICES ASSUME Shapes, [Next]_vars PROVE Shapes'
  OBVIOUS
<1> USE DEF Shapes
<1>1. CASE UNCHANGED vars
  BY <1>1 DEF vars, batch, past
<1>2. CASE List
  <2>1. cache' \in Tables
    <3>1. ASSUME NEW d \in Dealers PROVE [cache[d] EXCEPT !.kind = "full"] \in RowType
      <4>1. cache[d] \in RowType
        BY DEF Tables
      <4>2. QED  BY <4>1 DEF RowType, Kinds
    <3>2. QED  BY <1>2, <3>1 DEF List, Tables
  <2>2. QED  BY <1>2, <2>1 DEF List
<1>3. ASSUME NEW d \in Dealers, Ask(d) PROVE Shapes'
  BY <1>3 DEF Ask, past
<1>4. ASSUME NEW d \in Dealers, NEW a \in GeoAnswers[d], Answered(d, a) PROVE Shapes'
  <2>1. <<d, a>> \in Dealers \X Replies
    OBVIOUS
  <2>2. QED  BY <1>4, <2>1 DEF Answered, past
<1>5. CASE Check
  <2>1. CASE cancel \/ tally.completed = Total
    <3>1. Commit("batch") /\ pc' = "done" /\ DropAll
      BY <1>5, <2>1 DEF Check, Finish
    <3>2. cache' \in Tables /\ tx' \in [Pending -> Tables]
      BY <3>1, Emptied, Committed DEF Pending
    <3>3. thread' \in [Dealers -> {"off", "waiting", "running", "over"}] /\ answers' = <<>>
      BY <3>1 DEF DropAll
    <3>4. QED  BY <1>5, <3>1, <3>2, <3>3 DEF Check, Constant, Elsewhere
  <2>2. CASE ~(cancel \/ tally.completed = Total)
    BY <1>5, <2>2 DEF Check, Constant, Elsewhere
  <2>3. QED  BY <2>1, <2>2
<1>6. CASE Take
  <2>1. Head(answers) \in Dealers \X Replies /\ Tail(answers) \in Seq(Dealers \X Replies)
    BY <1>6, HeadTailProperties DEF Take
  <2>2. Head(answers)[1] \in Dealers /\ Head(answers)[2] \in Replies
    BY <2>1
  <2>3. /\ UNCHANGED <<cache, tx, force, workers, todo, thread, cancel, sync, admin, used, touched, good>>
        /\ hand' = Head(answers) /\ answers' = Tail(answers) /\ missed' \subseteq missed \cup {Head(answers)[1]}
        /\ pc' \in {"count", "store"} /\ (pc' = "store" => Head(answers)[2] # "error")
    BY <1>6 DEF Take, Constant, Elsewhere
  <2>4. late' \in Nat /\ tally' \in Counters
    BY <1>6, TakeCounts DEF Take
  <2>5. QED  BY <2>1, <2>2, <2>3, <2>4 DEF Replies
<1>7. CASE Store
  <2>1. hand[1] \in Dealers /\ hand[2] \in Kinds \ {"none"}
    BY <1>7 DEF Store, Kinds
  <2>2. tx' \in [Pending -> Tables]
    BY <1>7, <2>1, Written DEF Store, Pending
  <2>3. QED  BY <1>7, <2>1, <2>2, StoreCounts DEF Store, Constant
<1>8. CASE StoreFails
  BY <1>8, StoreFailsCounts DEF StoreFails, Constant, Elsewhere
<1>9. CASE Count
  BY <1>9, Emptied, Committed DEF Count, Constant, Elsewhere, Pending, Nothing, Replies
<1>10. CASE BatchFails
  BY <1>10, Emptied DEF BatchFails, DropAll, Constant, Elsewhere, Pending, Nothing, Replies
<1>11. CASE Cancel
  BY <1>11 DEF Cancel, batch
<1>12. ASSUME NEW ds \in Orders, SyncBegins(ds) PROVE Shapes'
  <2>1. ds \in Seq(Dealers)
    OBVIOUS
  <2>2. used' \in Bounds
    BY <1>12, Used DEF SyncBegins
  <2>3. sync' \in Syncs
    BY <1>12, <2>1 DEF SyncBegins, Syncs
  <2>4. QED  BY <1>12, <2>2, <2>3 DEF SyncBegins, Others, batch
<1>13. CASE SyncStores
  <2>1. Head(sync.rest) \in Dealers /\ Tail(sync.rest) \in Seq(Dealers)
    BY <1>13, HeadTailProperties DEF SyncStores, Syncs
  <2>2. tx' \in [Pending -> Tables]
    BY <1>13, <2>1, Written DEF SyncStores, Pending, Kinds
  <2>3. sync' \in Syncs
    BY <1>13, <2>1, Rest DEF SyncStores
  <2>4. QED  BY <1>13, <2>2, <2>3 DEF SyncStores, Others, batch
<1>14. CASE SyncCommits
  <2>1. sync' \in Syncs
    BY <1>14 DEF SyncCommits, Syncs
  <2>2. QED  BY <1>14, <2>1, Emptied, Committed DEF SyncCommits, Others, batch, Pending, Locks
<1>15. CASE SyncFails
  <2>1. sync' \in Syncs
    BY <1>15 DEF SyncFails, Syncs
  <2>2. QED  BY <1>15, <2>1, Emptied DEF SyncFails, Others, batch, Pending
<1>16. CASE Deadlock
  BY <1>16, Emptied DEF Deadlock, Others, batch, Pending, Locks
<1>17. ASSUME NEW d \in Dealers, AdminAsks(d) PROVE Shapes'
  <2>1. used' \in Bounds
    BY <1>17, Used DEF AdminAsks
  <2>2. QED  BY <1>17, <2>1 DEF AdminAsks, Others, batch
<1>18. CASE AdminStores
  <2>1. \A k \in {"full", "failed"} : [kind |-> k, by |-> "admin"] \in RowType
    BY DEF RowType, Kinds, Writers
  <2>2. cache' \in Tables
    BY <1>18, <2>1 DEF AdminStores, Tables
  <2>3. touched' \subseteq Dealers
    BY <1>18 DEF AdminStores
  <2>4. QED  BY <1>18, <2>2, <2>3 DEF AdminStores, Others, batch
<1>19. CASE ResetOem
  <2>1. used' \in Bounds
    BY <1>19, Used DEF ResetOem
  <2>2. cache' \in Tables
    BY <1>19 DEF ResetOem, Tables, RowType, Kinds, Writers, Absent
  <2>3. touched' \subseteq Dealers
    BY <1>19 DEF ResetOem
  <2>4. QED  BY <1>19, <2>1, <2>2, <2>3 DEF ResetOem, Others, batch
<1>20. QED  BY <1>1, <1>2, <1>3, <1>4, <1>5, <1>6, <1>7, <1>8, <1>9, <1>10, <1>11, <1>12, <1>13, <1>14, <1>15,
               <1>16, <1>17, <1>18, <1>19 DEF Next, Batch, Sync

-----------------------------------------------------------------------------
(* The steps of the ingests and of the administrator.                      *)

Outside ==
  \/ \E ds \in Orders : SyncBegins(ds)
  \/ SyncStores \/ SyncCommits \/ SyncFails \/ Deadlock
  \/ \E d \in Dealers : AdminAsks(d)
  \/ AdminStores \/ ResetOem

\* None of them moves the batch.
LEMMA OutsideLeaves == Outside => UNCHANGED <<batch, cancel, good, late>>
BY DEF Outside, SyncBegins, SyncStores, SyncCommits, SyncFails, Deadlock, AdminAsks, AdminStores, ResetOem, Others

-----------------------------------------------------------------------------
(* The answers that are counted after the request to cancel: none while    *)
(* the batch waits for the next, for it has asked whether to stop.         *)

LateInv == (pc = "await" \/ ~cancel => late = 0) /\ late <= 1

\* The batch asks before it waits, so that one answer at most is late.
LEMMA LateStep == Shapes /\ LateInv /\ [Next]_vars => LateInv'
<1> SUFFICES ASSUME Shapes, LateInv, [Next]_vars PROVE LateInv'
  OBVIOUS
<1> USE DEF LateInv
<1>0. late \in Nat /\ cancel \in BOOLEAN
  BY DEF Shapes
<1>1. CASE UNCHANGED vars
  BY <1>1 DEF vars, batch, past
<1>2. CASE List
  BY <1>2 DEF List
<1>3. ASSUME NEW d \in Dealers, Ask(d) PROVE LateInv'
  BY <1>3 DEF Ask, past
<1>4. ASSUME NEW d \in Dealers, NEW a \in GeoAnswers[d], Answered(d, a) PROVE LateInv'
  BY <1>4 DEF Answered, past
<1>5. CASE Check
  BY <1>5 DEF Check
<1>6. CASE Take
  <2>1. late' = IF cancel THEN late + 1 ELSE late
    BY <1>6 DEF Take
  <2>2. pc = "await" /\ pc' # "await" /\ cancel' = cancel
    BY <1>6 DEF Take
  <2>3. QED  BY <1>0, <2>1, <2>2
<1>7. CASE Store
  BY <1>7 DEF Store
<1>8. CASE StoreFails
  BY <1>8 DEF StoreFails
<1>9. CASE Count
  BY <1>9 DEF Count
<1>10. CASE BatchFails
  BY <1>10 DEF BatchFails
<1>11. CASE Cancel
  BY <1>11 DEF Cancel, batch
<1>12. ASSUME Outside PROVE LateInv'
  BY <1>12, OutsideLeaves DEF batch
<1>13. QED  BY <1>1, <1>2, <1>3, <1>4, <1>5, <1>6, <1>7, <1>8, <1>9, <1>10, <1>11, <1>12 DEF Next, Batch, Sync, Outside

-----------------------------------------------------------------------------
(* Rows and locks.                                                         *)

Working == {"check", "await", "store", "count"}

\* A row that a transaction holds is of its writer; two transactions hold
\* different rows, and the batch holds none before its list and after its end.
LocksInv ==
  /\ \A w \in Pending, d \in Dealers : tx[w][d].kind # "none" => tx[w][d].by = w
  /\ Locks("batch") \cap Locks("sync") = {}
  /\ pc \notin Working => Locks("batch") = {}

\* What a row is after an end of the batch's transaction.
LEMMA BatchCommits ==
  ASSUME Shapes, LocksInv, Commit("batch")
  PROVE  /\ Locks("batch")' = {} /\ Locks("sync")' = Locks("sync")
         /\ \A d \in Dealers : tx'["batch"][d].kind = "none" /\ tx'["sync"][d] = tx["sync"][d]
         /\ \A d \in Locks("batch") : cache'[d] = tx["batch"][d] /\ cache'[d].by = "batch"
         /\ \A d \in Dealers \ Locks("batch") : cache'[d] = cache[d]
<1>1. Rollback("batch") /\ \A d \in Dealers : cache'[d] = IF d \in Locks("batch") THEN tx["batch"][d] ELSE cache[d]
  BY Committed DEF Shapes, Pending
<1>2. /\ tx'["sync"] = tx["sync"] /\ Locks("sync")' = Locks("sync") /\ Locks("batch")' = {}
      /\ \A d \in Dealers : tx'["batch"][d].kind = "none"
  BY <1>1, Emptied DEF Shapes, Pending
<1>3. QED  BY <1>1, <1>2 DEF LocksInv, Locks, Pending

\* What the steps of the others do to the rows: they may take the batch's
\* transaction from it, all of it, and every row they change is touched.
LEMMA OutsideRows ==
  ASSUME Shapes, LocksInv, Outside
  PROVE  /\ \/ tx'["batch"] = tx["batch"] /\ Locks("batch")' = Locks("batch")
            \/ pc = "store" /\ Locks("batch")' = {} /\ Locks("batch") \subseteq missed'
         /\ touched \subseteq touched' /\ missed \subseteq missed'
         /\ \A d \in Dealers : \/ cache'[d] = cache[d]
                               \/ d \in touched' /\ (cache'[d].by \in {"sync", "admin"} \/ cache'[d] = Absent)
<1> USE DEF Shapes, Pending
<1>1. ASSUME NEW ds \in Orders, SyncBegins(ds)
      PROVE  cache' = cache /\ tx' = tx /\ touched' = touched /\ missed' = missed
  BY <1>1 DEF SyncBegins
<1>2. ASSUME NEW d \in Dealers, AdminAsks(d)
      PROVE  cache' = cache /\ tx' = tx /\ touched' = touched /\ missed' = missed
  BY <1>2 DEF AdminAsks
<1>3. ASSUME SyncStores
      PROVE  /\ cache' = cache /\ touched' = touched /\ missed' = missed
             /\ tx'["batch"] = tx["batch"] /\ Locks("batch")' = Locks("batch")
  <2>1. Head(sync.rest) \in Dealers
    BY <1>3, HeadTailProperties DEF SyncStores, Syncs
  <2>2. QED  BY <1>3, <2>1, Written DEF SyncStores, Kinds
<1>4. ASSUME SyncCommits
      PROVE  /\ tx'["batch"] = tx["batch"] /\ Locks("batch")' = Locks("batch") /\ missed' = missed /\ touched \subseteq touched'
             /\ \A d \in Dealers : cache'[d] = cache[d] \/ (d \in touched' /\ cache'[d].by = "sync")
  <2>1. /\ Rollback("sync") /\ touched' = touched \cup Locks("sync") /\ missed' = missed
        /\ \A d \in Dealers : cache'[d] = IF d \in Locks("sync") THEN tx["sync"][d] ELSE cache[d]
    BY <1>4, Committed DEF SyncCommits
  <2>2. tx'["batch"] = tx["batch"] /\ Locks("batch")' = Locks("batch")
    BY <2>1, Emptied
  <2>3. \A d \in Locks("sync") : d \in Dealers /\ tx["sync"][d].by = "sync"
    BY DEF LocksInv, Locks
  <2>4. QED  BY <2>1, <2>2, <2>3
<1>5. ASSUME SyncFails
      PROVE  /\ cache' = cache /\ touched' = touched /\ missed' = missed
             /\ tx'["batch"] = tx["batch"] /\ Locks("batch")' = Locks("batch")
  BY <1>5, Emptied DEF SyncFails
<1>6. ASSUME Deadlock
      PROVE  /\ cache' = cache /\ touched' = touched /\ missed \subseteq missed'
             /\ \/ tx'["batch"] = tx["batch"] /\ Locks("batch")' = Locks("batch")
                \/ pc = "store" /\ Locks("batch")' = {} /\ Locks("batch") \subseteq missed'
  <2>1. CASE Rollback("batch") /\ missed' = missed \cup Locks("batch")
    BY <1>6, <2>1, Emptied DEF Deadlock
  <2>2. CASE Rollback("sync") /\ UNCHANGED missed
    BY <1>6, <2>2, Emptied DEF Deadlock
  <2>3. QED  BY <1>6, <2>1, <2>2 DEF Deadlock
<1>7. ASSUME AdminStores
      PROVE  /\ tx' = tx /\ touched \subseteq touched' /\ missed' = missed
             /\ \A d \in Dealers : cache'[d] = cache[d] \/ (d \in touched' /\ cache'[d].by = "admin")
  <2>1. CASE cache' = cache /\ touched' = touched
    BY <1>7, <2>1 DEF AdminStores
  <2>2. CASE (\E k \in {"full", "failed"} : cache' = [cache EXCEPT ![admin] = [kind |-> k, by |-> "admin"]])
             /\ touched' = touched \cup {admin}
    <3>1. PICK k \in {"full", "failed"} : cache' = [cache EXCEPT ![admin] = [kind |-> k, by |-> "admin"]]
      BY <2>2
    <3>2. QED  BY <1>7, <2>2, <3>1 DEF AdminStores, Tables
  <2>3. QED  BY <1>7, <2>1, <2>2 DEF AdminStores
<1>8. ASSUME ResetOem
      PROVE  /\ tx' = tx /\ touched \subseteq touched' /\ missed' = missed
             /\ \A d \in Dealers : cache'[d] = cache[d] \/ (d \in touched' /\ cache'[d] = Absent)
  BY <1>8 DEF ResetOem
<1>9. CASE tx' = tx
  <2>1. Locks("batch")' = Locks("batch")
    BY <1>9 DEF Locks
  <2>2. QED  BY <1>1, <1>2, <1>3, <1>4, <1>5, <1>6, <1>7, <1>8, <1>9, <2>1 DEF Outside
<1>10. CASE tx' # tx
  BY <1>1, <1>2, <1>3, <1>4, <1>5, <1>6, <1>7, <1>8, <1>10 DEF Outside
<1>11. QED  BY <1>9, <1>10

\* A transaction writes rows that the other does not hold.
LEMMA WriteKeepsLocks ==
  ASSUME Shapes, LocksInv, NEW w \in Pending, NEW d \in Dealers, NEW k \in Kinds \ {"none"}, Write(w, d, k),
         \A x \in Pending \ {w} : d \notin Locks(x), w = "batch" => pc' \in Working, w = "sync" => pc' = pc
  PROVE  LocksInv'
<1> USE DEF Shapes
<1>1. /\ tx'[w][d] = [kind |-> k, by |-> w] /\ \A e \in Dealers \ {d} : tx'[w][e] = tx[w][e]
      /\ \A x \in Pending \ {w} : tx'[x] = tx[x] /\ Locks(x)' = Locks(x)
      /\ Locks(w)' = Locks(w) \cup {d}
  BY Written
<1>2. \A x \in Pending, e \in Dealers : tx'[x][e].kind # "none" => tx'[x][e].by = x
  <2> SUFFICES ASSUME NEW x \in Pending, NEW e \in Dealers PROVE tx'[x][e].kind # "none" => tx'[x][e].by = x
    OBVIOUS
  <2>1. CASE x = w /\ e = d
    BY <1>1, <2>1
  <2>2. CASE ~(x = w /\ e = d)
    BY <1>1, <2>2 DEF LocksInv
  <2>3. QED  BY <2>1, <2>2
<1>3. Locks("batch")' \cap Locks("sync")' = {} /\ (pc' \notin Working => Locks("batch")' = {})
  <2>1. CASE w = "batch"
    BY <1>1, <2>1 DEF LocksInv, Pending
  <2>2. CASE w = "sync"
    BY <1>1, <2>2 DEF LocksInv, Pending
  <2>3. QED  BY <2>1, <2>2 DEF Pending
<1>4. QED  BY <1>2, <1>3 DEF LocksInv

\* A transaction that ends leaves the rows of the other.
LEMMA EndKeepsLocks ==
  ASSUME Shapes, LocksInv, NEW w \in Pending, Rollback(w), w = "sync" => pc' = pc
  PROVE  LocksInv'
<1> USE DEF Shapes
<1>1. /\ Locks(w)' = {} /\ \A d \in Dealers : tx'[w][d].kind = "none"
      /\ \A x \in Pending \ {w} : tx'[x] = tx[x] /\ Locks(x)' = Locks(x)
  BY Emptied
<1>2. \A x \in Pending, e \in Dealers : tx'[x][e].kind # "none" => tx'[x][e].by = x
  BY <1>1 DEF LocksInv
<1>3. Locks("batch")' \cap Locks("sync")' = {} /\ (pc' \notin Working => Locks("batch")' = {})
  <2>1. CASE w = "batch"
    BY <1>1, <2>1 DEF LocksInv, Pending
  <2>2. CASE w = "sync"
    BY <1>1, <2>2 DEF LocksInv, Pending
  <2>3. QED  BY <2>1, <2>2 DEF Pending
<1>4. QED  BY <1>2, <1>3 DEF LocksInv

\* Nor does a step that is not one of the database's disturb them.
LEMMA SameLocks ==
  ASSUME LocksInv, tx' = tx, pc' = pc \/ pc' \in Working \/ pc \notin Working
  PROVE  LocksInv'
<1>1. Locks("batch")' = Locks("batch") /\ Locks("sync")' = Locks("sync")
  BY DEF Locks
<1>2. QED  BY <1>1 DEF LocksInv

\* Nobody holds a row at first.
LEMMA LocksInit == Init => LocksInv
BY NoRows DEF Init, LocksInv, Locks, Pending

\* Every step keeps the two transactions apart.
LEMMA LocksStep == Shapes /\ LocksInv /\ [Next]_vars => LocksInv'
<1> SUFFICES ASSUME Shapes, LocksInv, [Next]_vars PROVE LocksInv'
  OBVIOUS
<1> USE DEF Pending
<1>1. CASE UNCHANGED vars
  BY <1>1, SameLocks DEF vars, batch
<1>2. CASE List
  BY <1>2, SameLocks DEF List, Working
<1>3. ASSUME NEW d \in Dealers, Ask(d) PROVE LocksInv'
  BY <1>3, SameLocks DEF Ask
<1>4. ASSUME NEW d \in Dealers, NEW a \in GeoAnswers[d], Answered(d, a) PROVE LocksInv'
  BY <1>4, SameLocks DEF Answered
<1>5. CASE Check
  <2>1. CASE Commit("batch")
    BY <2>1, EndKeepsLocks DEF Commit, Rollback
  <2>2. CASE ~Commit("batch")
    BY <1>5, <2>2, SameLocks DEF Check, Finish, Working
  <2>3. QED  BY <2>1, <2>2
<1>6. CASE Take
  BY <1>6, SameLocks DEF Take, Working
<1>7. CASE Store
  <2>1. hand[1] \in Dealers /\ hand[2] \in Kinds \ {"none"}
    BY <1>7 DEF Store, Shapes, Kinds
  <2>2. Write("batch", hand[1], hand[2]) /\ pc' \in Working /\ hand[1] \notin Locks("sync")
    BY <1>7 DEF Store, Working
  <2>3. QED  BY <2>1, <2>2, WriteKeepsLocks
<1>8. CASE StoreFails
  BY <1>8, SameLocks DEF StoreFails, Working
<1>9. CASE Count
  <2>1. CASE Commit("batch")
    BY <2>1, EndKeepsLocks DEF Commit, Rollback
  <2>2. CASE ~Commit("batch")
    BY <1>9, <2>2, SameLocks DEF Count, Working
  <2>3. QED  BY <2>1, <2>2
<1>10. CASE BatchFails
  BY <1>10, EndKeepsLocks DEF BatchFails
<1>11. CASE Cancel
  BY <1>11, SameLocks DEF Cancel, batch
<1>12. ASSUME NEW ds \in Orders, SyncBegins(ds) PROVE LocksInv'
  BY <1>12, SameLocks DEF SyncBegins, Others, batch
<1>13. CASE SyncStores
  <2>1. Head(sync.rest) \in Dealers
    BY <1>13, HeadTailProperties DEF SyncStores, Shapes, Syncs
  <2>2. Write("sync", Head(sync.rest), "oem") /\ pc' = pc /\ Head(sync.rest) \notin Locks("batch")
    BY <1>13 DEF SyncStores, Others, batch
  <2>3. QED  BY <2>1, <2>2, WriteKeepsLocks DEF Kinds
<1>14. CASE SyncCommits
  BY <1>14, EndKeepsLocks DEF SyncCommits, Commit, Rollback, Others, batch
<1>15. CASE SyncFails
  BY <1>15, EndKeepsLocks DEF SyncFails, Others, batch
<1>16. CASE Deadlock
  BY <1>16, EndKeepsLocks DEF Deadlock, Others, batch
<1>17. ASSUME NEW d \in Dealers, AdminAsks(d) PROVE LocksInv'
  BY <1>17, SameLocks DEF AdminAsks, Others, batch
<1>18. CASE AdminStores
  BY <1>18, SameLocks DEF AdminStores, Others, batch
<1>19. CASE ResetOem
  BY <1>19, SameLocks DEF ResetOem, Others, batch
<1>20. QED  BY <1>1, <1>2, <1>3, <1>4, <1>5, <1>6, <1>7, <1>8, <1>9, <1>10, <1>11, <1>12, <1>13, <1>14, <1>15,
               <1>16, <1>17, <1>18, <1>19 DEF Next, Batch, Sync

-----------------------------------------------------------------------------
(* Threads and the answers that wait to be taken.                          *)

Queued  == {answers[i][1] : i \in DOMAIN answers}
Taken   == {d \in todo : thread[d] = "over"} \ Queued
Running == {d \in Dealers : thread[d] = "running"}

\* A thread is of a dealer listed; each dealer's answer waits once, and only
\* when its thread is over.
ThreadsInv ==
  /\ \A d \in Dealers : thread[d] # "off" => d \in todo
  /\ \A d \in Queued : d \in todo /\ thread[d] = "over"
  /\ \A i, j \in DOMAIN answers : answers[i][1] = answers[j][1] => i = j
  /\ pc = "new" => todo = {} /\ answers = <<>>
  /\ Cardinality(Running) <= workers

\* An answer that comes in is the last.
LEMMA AnswerComes ==
  ASSUME Shapes, ThreadsInv, NEW d \in Dealers, NEW a \in GeoAnswers[d], Answered(d, a)
  PROVE  /\ Queued' = Queued \cup {d} /\ d \notin Queued /\ Taken' = Taken
         /\ \A i, j \in DOMAIN answers' : answers'[i][1] = answers'[j][1] => i = j
<1> USE DEF Shapes
<1>1. /\ <<d, a>> \in Dealers \X Replies /\ answers' = Append(answers, <<d, a>>)
      /\ thread' = [thread EXCEPT ![d] = "over"] /\ thread[d] = "running" /\ todo' = todo
  BY DEF Answered
<1>2. /\ Len(answers') = Len(answers) + 1 /\ answers'[Len(answers) + 1] = <<d, a>>
      /\ \A i \in 1 .. Len(answers) : answers'[i] = answers[i]
      /\ DOMAIN answers = 1 .. Len(answers) /\ DOMAIN answers' = 1 .. Len(answers) + 1 /\ Len(answers) \in Nat
  BY <1>1, AppendProperties
<1>3. d \notin Queued
  BY <1>1 DEF ThreadsInv
<1>4. \A e : e \in Queued' <=> e \in Queued \/ e = d
  <2>1. ASSUME NEW i \in DOMAIN answers' PROVE answers'[i][1] \in Queued \cup {d}
    <3>1. CASE i \in 1 .. Len(answers)
      BY <1>2, <3>1 DEF Queued
    <3>2. CASE i = Len(answers) + 1
      BY <1>2, <3>2
    <3>3. QED  BY <1>2, <3>1, <3>2
  <2>2. ASSUME NEW i \in DOMAIN answers PROVE answers[i][1] \in Queued'
    <3>1. i \in DOMAIN answers' /\ answers'[i] = answers[i]
      BY <1>2
    <3>2. QED  BY <3>1 DEF Queued
  <2>3. d \in Queued'
    <3>1. Len(answers) + 1 \in DOMAIN answers' /\ answers'[Len(answers) + 1][1] = d
      BY <1>2
    <3>2. QED  BY <3>1 DEF Queued
  <2>4. QED  BY <2>1, <2>2, <2>3 DEF Queued
<1>5. Taken' = Taken
  <2>1. \A e \in todo : thread'[e] = "over" <=> thread[e] = "over" \/ e = d
    BY <1>1
  <2>2. \A e : e \in Taken' <=> e \in todo /\ thread'[e] = "over" /\ e \notin Queued'
    BY <1>1 DEF Taken
  <2>3. \A e : e \in Taken <=> e \in todo /\ thread[e] = "over" /\ e \notin Queued
    BY DEF Taken
  <2>4. \A e : e \in Taken' <=> e \in Taken
    BY <1>1, <1>3, <1>4, <2>1, <2>2, <2>3
  <2>5. QED  BY <2>4 DEF Taken
<1>6. ASSUME NEW i \in DOMAIN answers', NEW j \in DOMAIN answers', answers'[i][1] = answers'[j][1] PROVE i = j
  <2>1. \A n \in 1 .. Len(answers) : answers[n][1] # d
    BY <1>2, <1>3 DEF Queued
  <2>2. CASE i \in 1 .. Len(answers) /\ j \in 1 .. Len(answers)
    BY <1>2, <1>6, <2>2 DEF ThreadsInv
  <2>3. CASE ~(i \in 1 .. Len(answers) /\ j \in 1 .. Len(answers))
    BY <1>2, <1>6, <2>1, <2>3
  <2>4. QED  BY <2>2, <2>3
<1>7. QED  BY <1>3, <1>4, <1>5, <1>6 DEF Queued

\* An answer that is taken was the first.
LEMMA AnswerIsTaken ==
  ASSUME Shapes, ThreadsInv, Take
  PROVE  /\ Head(answers) \in Dealers \X Replies /\ Head(answers)[1] \in todo \ Taken
         /\ Queued' = Queued \ {Head(answers)[1]} /\ Taken' = Taken \cup {Head(answers)[1]}
         /\ \A i, j \in DOMAIN answers' : answers'[i][1] = answers'[j][1] => i = j
<1> USE DEF Shapes
<1> DEFINE h == Head(answers)[1]
<1>1. /\ answers # <<>> /\ answers' = Tail(answers) /\ thread' = thread /\ todo' = todo
  BY DEF Take, Constant
<1>2. /\ Head(answers) \in Dealers \X Replies /\ answers[1] = Head(answers)
      /\ Len(answers) \in Nat \ {0} /\ DOMAIN answers = 1 .. Len(answers) /\ DOMAIN answers' = 1 .. Len(answers) - 1
      /\ \A i \in 1 .. Len(answers) - 1 : answers'[i] = answers[i + 1]
  BY <1>1, HeadTailProperties
<1>3. h \in Queued
  BY <1>2 DEF Queued
<1>4. h \in todo /\ thread[h] = "over"
  BY <1>3 DEF ThreadsInv
<1>5. \A e : e \in Queued' <=> e \in Queued /\ e # h
  <2>1. ASSUME NEW i \in DOMAIN answers' PROVE answers'[i][1] \in Queued /\ answers'[i][1] # h
    <3>1. i + 1 \in DOMAIN answers /\ answers'[i] = answers[i + 1] /\ i + 1 # 1 /\ 1 \in DOMAIN answers
      BY <1>2
    <3>2. answers[i + 1][1] # answers[1][1]
      BY <3>1 DEF ThreadsInv
    <3>3. QED  BY <1>2, <3>1, <3>2 DEF Queued
  <2>2. ASSUME NEW i \in DOMAIN answers, answers[i][1] # h PROVE answers[i][1] \in Queued'
    <3>1. i # 1
      BY <1>2, <2>2
    <3>2. i - 1 \in DOMAIN answers' /\ answers'[i - 1] = answers[i]
      BY <1>2, <3>1
    <3>3. QED  BY <3>2 DEF Queued
  <2>3. QED  BY SMTT(20), <2>1, <2>2 DEF Queued
<1>6. Taken' = Taken \cup {h} /\ h \notin Taken
  <2>1. \A e : e \in Taken' <=> e \in todo /\ thread[e] = "over" /\ e \notin Queued'
    BY <1>1 DEF Taken
  <2>2. \A e : e \in Taken <=> e \in todo /\ thread[e] = "over" /\ e \notin Queued
    BY DEF Taken
  <2>3. h \notin Taken /\ \A e : e \in Taken' <=> e \in Taken \cup {h}
    BY <1>3, <1>4, <1>5, <2>1, <2>2
  <2>4. QED  BY <2>3
<1>7. ASSUME NEW i \in DOMAIN answers', NEW j \in DOMAIN answers', answers'[i][1] = answers'[j][1] PROVE i = j
  <2>1. /\ i + 1 \in DOMAIN answers /\ j + 1 \in DOMAIN answers /\ answers[i + 1][1] = answers[j + 1][1]
        /\ i \in Nat /\ j \in Nat
    BY <1>2, <1>7
  <2>2. i + 1 = j + 1
    BY <2>1 DEF ThreadsInv
  <2>3. QED  BY <2>1, <2>2
<1>8. QED
  <2>1. Queued' = Queued \ {h}
    BY <1>5 DEF Queued
  <2>2. QED  BY <1>2, <1>4, <1>6, <1>7, <2>1

\* The dealers asked at a time.
LEMMA RunningIsFinite ==
  /\ IsFiniteSet(Running) /\ IsFiniteSet(todo \cap Dealers) /\ Running \subseteq Dealers
BY FS_Subset, Zenon DEF Running

\* Fewer threads may run.
LEMMA FewerRun ==
  ASSUME Shapes, ThreadsInv, Running' \subseteq Running, workers' = workers
  PROVE  Cardinality(Running') <= workers'
<1>1. IsFiniteSet(Running) /\ Running' \in SUBSET Running
  BY RunningIsFinite
<1>2. Cardinality(Running') <= Cardinality(Running) /\ IsFiniteSet(Running')
  BY <1>1, FS_Subset
<1>3. Cardinality(Running') \in Nat /\ Cardinality(Running) \in Nat
  BY <1>1, <1>2, FS_CardinalityType
<1>4. QED  BY <1>2, <1>3 DEF ThreadsInv, Shapes

\* Threads and answers that are dropped leave the invariant.
LEMMA Dropped ==
  ASSUME Shapes, ThreadsInv, DropAll, todo' = todo, workers' = workers, pc' \in Ended
  PROVE  ThreadsInv'
<1> USE DEF Shapes
<1>1. answers' = <<>> /\ \A d \in Dealers : thread'[d] = IF thread[d] = "off" THEN "off" ELSE "over"
  BY DEF DropAll
<1>2. Queued' = {} /\ \A i, j \in DOMAIN answers' : answers'[i][1] = answers'[j][1] => i = j
  BY <1>1 DEF Queued
<1>3. Running' \subseteq Running
  BY <1>1 DEF Running
<1>4. Cardinality(Running') <= workers'
  BY <1>3, FewerRun
<1>5. QED  BY <1>1, <1>2, <1>4 DEF ThreadsInv

\* A step that leaves threads and answers does so too.
LEMMA SameThreads ==
  ASSUME ThreadsInv, UNCHANGED <<thread, answers, todo, workers>>, pc' = "new" => pc = "new"
  PROVE  ThreadsInv'
<1>1. Queued' = Queued /\ Running' = Running
  BY DEF Queued, Running
<1>2. QED  BY <1>1 DEF ThreadsInv

\* No thread runs at first.
LEMMA ThreadsInit == Init => ThreadsInv
<1> SUFFICES ASSUME Init PROVE ThreadsInv
  OBVIOUS
<1>1. Queued = {} /\ Running = {} /\ answers = <<>>
  BY DEF Init, Queued, Running
<1>2. Cardinality(Running) = 0 /\ workers \in Nat
  BY <1>1, FS_EmptySet DEF Init
<1>3. QED  BY <1>1, <1>2 DEF Init, ThreadsInv

\* No step runs more threads than there are workers or loses an answer.
LEMMA ThreadsStep == Shapes /\ ThreadsInv /\ [Next]_vars => ThreadsInv'
<1> SUFFICES ASSUME Shapes, ThreadsInv, [Next]_vars PROVE ThreadsInv'
  OBVIOUS
<1> USE DEF Shapes
<1>1. CASE UNCHANGED vars
  BY <1>1, SameThreads DEF vars, batch
<1>2. CASE List
  <2>1. /\ answers' = <<>> /\ todo = {} /\ pc' = "check" /\ workers' = workers
        /\ thread' = [d \in Dealers |-> IF d \in todo' THEN "waiting" ELSE "off"]
    BY <1>2 DEF List, ThreadsInv
  <2>2. Queued' = {} /\ Running' = {} /\ \A i, j \in DOMAIN answers' : answers'[i][1] = answers'[j][1] => i = j
    BY <2>1 DEF Queued, Running
  <2>3. Cardinality(Running') <= workers'
    BY <2>1, <2>2, FS_EmptySet
  <2>4. QED  BY <2>1, <2>2, <2>3 DEF ThreadsInv
<1>3. ASSUME NEW d \in Dealers, Ask(d) PROVE ThreadsInv'
  <2>1. /\ thread' = [thread EXCEPT ![d] = "running"] /\ thread[d] = "waiting"
        /\ UNCHANGED <<pc, answers, todo, workers>> /\ Cardinality({e \in todo : thread[e] = "running"}) < workers
    BY <1>3 DEF Ask
  <2>2. Cardinality(Running) < workers
    <3>1. {e \in todo : thread[e] = "running"} = Running
      BY DEF Running, ThreadsInv
    <3>2. QED  BY <2>1, <3>1
  <2>3. Running' = Running \cup {d} /\ d \notin Running
    BY <2>1 DEF Running
  <2>4. Cardinality(Running') = Cardinality(Running) + 1 /\ Cardinality(Running) \in Nat
    BY <2>3, RunningIsFinite, FS_AddElement, FS_CardinalityType
  <2>5. Cardinality(Running') <= workers'
    <3>1. workers \in Nat
      OBVIOUS
    <3>2. QED  BY <2>1, <2>2, <2>4, <3>1
  <2>6. Queued' = Queued
    BY <2>1 DEF Queued
  <2>7. QED  BY <2>1, <2>5, <2>6 DEF ThreadsInv
<1>4. ASSUME NEW d \in Dealers, NEW a \in GeoAnswers[d], Answered(d, a) PROVE ThreadsInv'
  <2>1. thread' = [thread EXCEPT ![d] = "over"] /\ thread[d] = "running" /\ UNCHANGED <<pc, todo, workers>>
    BY <1>4 DEF Answered
  <2>2. Cardinality(Running') <= workers'
    <3>1. Running' \subseteq Running
      BY <2>1 DEF Running
    <3>2. QED  BY <2>1, <3>1, FewerRun
  <2>3. /\ Queued' = Queued \cup {d}
        /\ \A i, j \in DOMAIN answers' : answers'[i][1] = answers'[j][1] => i = j
    BY <1>4, AnswerComes
  <2>4. d \in todo
    BY <2>1 DEF ThreadsInv
  <2>5. pc # "new"
    BY <2>4 DEF ThreadsInv
  <2>6. QED  BY <2>1, <2>2, <2>3, <2>4, <2>5 DEF ThreadsInv
<1>5. CASE Check
  <2>1. CASE cancel \/ tally.completed = Total
    BY <1>5, <2>1, Dropped DEF Check, Constant
  <2>2. CASE ~(cancel \/ tally.completed = Total)
    BY <1>5, <2>2, SameThreads DEF Check, Constant
  <2>3. QED  BY <2>1, <2>2
<1>6. CASE Take
  <2>1. UNCHANGED <<thread, todo, workers>> /\ pc' # "new"
    BY <1>6 DEF Take, Constant
  <2>2. /\ Queued' \subseteq Queued
        /\ \A i, j \in DOMAIN answers' : answers'[i][1] = answers'[j][1] => i = j
    BY <1>6, AnswerIsTaken
  <2>3. Running' = Running
    BY <2>1 DEF Running
  <2>4. QED  BY <2>1, <2>2, <2>3 DEF ThreadsInv
<1>7. CASE Store
  BY <1>7, SameThreads DEF Store, Constant
<1>8. CASE StoreFails
  BY <1>8, SameThreads DEF StoreFails, Constant
<1>9. CASE Count
  BY <1>9, SameThreads DEF Count, Constant
<1>10. CASE BatchFails
  BY <1>10, Dropped DEF BatchFails, Constant
<1>11. CASE Cancel
  BY <1>11, SameThreads DEF Cancel, batch
<1>12. CASE Outside
  BY <1>12, OutsideLeaves, SameThreads DEF batch
<1>13. QED  BY <1>1, <1>2, <1>3, <1>4, <1>5, <1>6, <1>7, <1>8, <1>9, <1>10, <1>11, <1>12 DEF Next, Batch, Sync, Outside

-----------------------------------------------------------------------------
(* What the batch has taken.                                               *)

\* It has counted each dealer whose answer it took; rows it holds and dealers
\* it counts as geocoded are of these, and the one in hand is not stored yet.
TakenInv ==
  /\ tally.completed <= Total
  /\ pc = "new" => good = {} /\ tally.completed = 0
  /\ pc \in Working => tally.completed = Cardinality(Taken) /\ Locks("batch") \subseteq Taken /\ good \subseteq Taken
  /\ pc = "store" => hand[1] \in Taken \ (Locks("batch") \cup good)

\* Dealers taken are dealers listed.
LEMMA TakenIsListed ==
  ASSUME Shapes
  PROVE  /\ IsFiniteSet(todo) /\ IsFiniteSet(Taken) /\ Taken \subseteq todo
         /\ Total \in Nat /\ Cardinality(Taken) \in Nat /\ Cardinality(Taken) <= Total
         /\ Cardinality(Taken) = Total => Taken = todo
<1>1. IsFiniteSet(todo) /\ Taken \in SUBSET todo
  BY FS_Subset DEF Shapes, Taken
<1>2. /\ IsFiniteSet(Taken) /\ Cardinality(Taken) <= Cardinality(todo)
      /\ Cardinality(todo) = Cardinality(Taken) => todo = Taken
  BY <1>1, FS_Subset
<1>3. Cardinality(todo) \in Nat /\ Cardinality(Taken) \in Nat
  BY <1>1, <1>2, FS_CardinalityType
<1>4. QED  BY <1>1, <1>2, <1>3 DEF Total

\* A step that takes nothing, and holds no more.
LEMMA SameTaken ==
  ASSUME TakenInv, UNCHANGED <<tally, todo, good>>, pc' \in Working => pc \in Working /\ Taken' = Taken,
         pc' = "new" => pc = "new", pc' = "store" => pc = "store" /\ hand' = hand,
         Locks("batch")' \subseteq Locks("batch")
  PROVE  TakenInv'
<1>1. Total' = Total
  BY DEF Total
<1>2. pc' = "store" => Taken' = Taken
  BY DEF Working
<1>3. QED  BY <1>1, <1>2 DEF TakenInv

\* Nothing is taken at first.
LEMMA TakenInit == Init => TakenInv
<1> SUFFICES ASSUME Init PROVE TakenInv
  OBVIOUS
<1>1. tally.completed = 0 /\ Total = 0
  BY FS_EmptySet DEF Init, Total
<1>2. QED  BY <1>1 DEF Init, TakenInv, Working

\* The counter of the batch is the number of dealers taken, at every step.
LEMMA TakenStep ==
  Shapes /\ LocksInv /\ ThreadsInv /\ TakenInv /\ [Next]_vars => TakenInv'
<1> SUFFICES ASSUME Shapes, LocksInv, ThreadsInv, TakenInv, [Next]_vars PROVE TakenInv'
  OBVIOUS
<1> USE DEF Shapes
<1>0. UNCHANGED <<thread, answers, todo>> => Taken' = Taken
  BY DEF Taken, Queued
<1>a. tx' = tx => Locks("batch")' = Locks("batch")
  BY DEF Locks
<1>1. CASE UNCHANGED vars
  <2>1. UNCHANGED <<tally, todo, good, thread, answers, pc, hand, tx>>
    BY <1>1 DEF vars, batch, past
  <2>2. QED  BY <2>1, <1>0, <1>a, SameTaken
<1>2. CASE List
  <2>1. /\ Locks("batch") = {} /\ good' = {} /\ tally' = tally /\ tally.completed = 0 /\ pc' = "check" /\ tx' = tx
        /\ thread' = [d \in Dealers |-> IF d \in todo' THEN "waiting" ELSE "off"]
    BY <1>2 DEF List, LocksInv, TakenInv, Working
  <2>2. todo' \subseteq Dealers
    BY <1>2 DEF List
  <2>3. Taken' = {}
    BY <2>1, <2>2 DEF Taken
  <2>4. IsFiniteSet(todo')
    BY <2>2, FS_Subset
  <2>5. Cardinality(Taken') = 0 /\ Cardinality(todo') \in Nat
    BY <2>3, <2>4, FS_EmptySet, FS_CardinalityType
  <2>6. tally'.completed <= Total'
    BY <2>1, <2>5 DEF Total
  <2>7. QED  BY <1>a, <2>1, <2>3, <2>5, <2>6 DEF TakenInv, Working
<1>3. ASSUME NEW d \in Dealers, Ask(d) PROVE TakenInv'
  <2>1. /\ UNCHANGED <<tally, todo, good, answers, pc, hand, tx>>
        /\ thread' = [thread EXCEPT ![d] = "running"] /\ thread[d] = "waiting"
    BY <1>3 DEF Ask, past
  <2>2. Taken' = Taken
    BY <2>1 DEF Taken, Queued
  <2>3. QED  BY <2>1, <2>2, <1>a, SameTaken
<1>4. ASSUME NEW d \in Dealers, NEW a \in GeoAnswers[d], Answered(d, a) PROVE TakenInv'
  <2>1. UNCHANGED <<tally, todo, good, pc, hand, tx>>
    BY <1>4 DEF Answered, past
  <2>2. Taken' = Taken
    BY <1>4, AnswerComes
  <2>3. QED  BY <2>1, <2>2, <1>a, SameTaken
<1>5. CASE Check
  <2>1. UNCHANGED <<tally, todo, good, hand>> /\ pc \in Working /\ pc' \notin {"new", "store"}
    BY <1>5 DEF Check, Constant, Working
  <2>2. CASE cancel \/ tally.completed = Total
    <3>1. Locks("batch")' = {} /\ pc' \notin Working
      BY <1>5, <2>2, BatchCommits DEF Check, Finish, Working
    <3>2. QED  BY <2>1, <3>1, SameTaken
  <2>3. CASE ~(cancel \/ tally.completed = Total)
    <3>1. UNCHANGED <<thread, answers, tx>>
      BY <1>5, <2>3 DEF Check
    <3>2. QED  BY <2>1, <3>1, <1>0, <1>a, SameTaken
  <2>4. QED  BY <2>2, <2>3
<1>6. CASE Take
  <2>1. /\ pc \in Working /\ pc' \in {"store", "count"} /\ pc' \in Working
        /\ UNCHANGED <<todo, good, tx>> /\ hand' = Head(answers)
    BY <1>6 DEF Take, Constant, Working
  <2>2. Head(answers)[1] \in todo \ Taken /\ Taken' = Taken \cup {Head(answers)[1]}
    BY <1>6, AnswerIsTaken
  <2>3. Cardinality(Taken') = Cardinality(Taken) + 1
    BY <2>2, TakenIsListed, FS_AddElement
  <2>4. Cardinality(Taken') <= Total' /\ Total' = Total
    <3>1. Taken' \in SUBSET todo /\ IsFiniteSet(todo)
      BY <2>2, TakenIsListed
    <3>2. Cardinality(Taken') <= Cardinality(todo)
      BY <3>1, FS_Subset
    <3>3. QED  BY <2>1, <3>2 DEF Total
  <2>5. tally'.completed = Cardinality(Taken')
    BY <1>6, <2>1, <2>3, TakeCounts DEF TakenInv
  <2>6. QED  BY <1>a, <2>1, <2>2, <2>4, <2>5 DEF TakenInv
<1>7. CASE Store
  <2>1. /\ pc = "store" /\ pc' = "count" /\ UNCHANGED <<todo, thread, answers>>
        /\ good' \subseteq good \cup {hand[1]} /\ hand[1] \in Taken
    BY <1>7 DEF Store, Constant, TakenInv
  <2>2. hand[1] \in Dealers /\ hand[2] \in Kinds \ {"none"} /\ Write("batch", hand[1], hand[2])
    BY <1>7 DEF Store, Kinds
  <2>3. Locks("batch")' = Locks("batch") \cup {hand[1]}
    BY <2>2, Written DEF Pending
  <2>4. tally'.completed = tally.completed
    BY <1>7, StoreCounts
  <2>5. Total' = Total
    BY <2>1 DEF Total
  <2>6. QED  BY <1>0, <2>1, <2>3, <2>4, <2>5 DEF TakenInv, Working
<1>8. CASE StoreFails
  <2>1. /\ pc = "store" /\ pc' = "count" /\ UNCHANGED <<todo, thread, answers, good, tx>>
    BY <1>8 DEF StoreFails, Constant
  <2>2. tally'.completed = tally.completed
    BY <1>8, StoreFailsCounts
  <2>3. Total' = Total
    BY <2>1 DEF Total
  <2>4. QED  BY <1>0, <1>a, <2>1, <2>2, <2>3 DEF TakenInv, Working
<1>9. CASE Count
  <2>1. pc \in Working /\ pc' = "check" /\ UNCHANGED <<tally, todo, thread, answers, good>>
    BY <1>9 DEF Count, Constant, Working
  <2>2. Locks("batch")' \subseteq Locks("batch")
    BY <1>9, <1>a, BatchCommits DEF Count
  <2>3. QED  BY <1>0, <2>1, <2>2, SameTaken
<1>10. CASE BatchFails
  <2>1. pc' = "failed" /\ UNCHANGED <<tally, todo, good>> /\ Locks("batch")' = {}
    BY <1>10, Emptied DEF BatchFails, Constant, Pending
  <2>2. QED  BY <2>1, SameTaken DEF Working
<1>11. CASE Cancel
  <2>1. UNCHANGED <<tally, todo, good, thread, answers, pc, hand, tx>>
    BY <1>11 DEF Cancel, batch
  <2>2. QED  BY <2>1, <1>0, <1>a, SameTaken
<1>12. CASE Outside
  <2>1. UNCHANGED <<tally, todo, good, thread, answers, pc, hand>>
    BY <1>12, OutsideLeaves DEF batch
  <2>2. Locks("batch")' \subseteq Locks("batch")
    BY <1>12, OutsideRows
  <2>3. QED  BY <2>1, <2>2, <1>0, SameTaken
<1>13. QED  BY <1>1, <1>2, <1>3, <1>4, <1>5, <1>6, <1>7, <1>8, <1>9, <1>10, <1>11, <1>12 DEF Next, Batch, Sync, Outside

-----------------------------------------------------------------------------
(* What the batch counts, and the answers it has stored and not committed. *)

Kept == IF workers = 1 THEN 1 ELSE CommitEvery

\* Every answer taken is counted once as geocoded or failed, the one in hand
\* excepted.
TallyInv ==
  /\ pc = "new" => tally.geocoded = 0 /\ tally.failed = 0
  /\ pc \in {"check", "await", "count", "done"} => tally.geocoded + tally.failed = tally.completed
  /\ pc = "store" => tally.geocoded + tally.failed + 1 = tally.completed
  /\ pc = "count" => tally.completed > 0

\* Between two commits the rows held are no more than the answers taken.
LossInv ==
  /\ pc \in {"check", "await"} => Cardinality(Locks("batch")) <= tally.completed % Kept
  /\ pc = "store" => Cardinality(Locks("batch")) <= (tally.completed - 1) % Kept
  /\ pc = "count" => Cardinality(Locks("batch")) <= ((tally.completed - 1) % Kept) + 1

\* The counters begin at zero.
LEMMA TallyInit == Init => TallyInv /\ LossInv
BY DEF Init, TallyInv, LossInv

\* Each step that counts an answer counts it once.
LEMMA TallyStep == Shapes /\ TakenInv /\ TallyInv /\ [Next]_vars => TallyInv'
<1> SUFFICES ASSUME Shapes, TakenInv, TallyInv, [Next]_vars PROVE TallyInv'
  OBVIOUS
<1>0. tally.completed \in Nat /\ tally.geocoded \in Nat /\ tally.failed \in Nat
  BY DEF Shapes, Counters
<1>1. CASE UNCHANGED <<pc, tally>>
  BY <1>1 DEF TallyInv
<1>2. CASE List
  BY <1>2 DEF List, TallyInv, TakenInv
<1>3. CASE Check
  BY <1>3 DEF Check, TallyInv
<1>4. CASE Take
  <2>1. pc = "await" /\ pc' = (IF Head(answers)[2] = "error" THEN "count" ELSE "store")
    BY <1>4 DEF Take
  <2>2. QED  BY <1>0, <1>4, <2>1, TakeCounts DEF TallyInv
<1>5. CASE Store
  <2>1. pc = "store" /\ pc' = "count"
    BY <1>5 DEF Store
  <2>2. QED  BY <1>0, <1>5, <2>1, StoreCounts DEF TallyInv
<1>6. CASE StoreFails
  <2>1. pc = "store" /\ pc' = "count"
    BY <1>6 DEF StoreFails
  <2>2. QED  BY <1>0, <1>6, <2>1, StoreFailsCounts DEF TallyInv
<1>7. CASE Count
  BY <1>7 DEF Count, TallyInv
<1>8. CASE BatchFails
  BY <1>8 DEF BatchFails, TallyInv
<1>9. CASE Outside
  BY <1>1, <1>9, OutsideLeaves DEF batch
<1>10. CASE Cancel
  BY <1>1, <1>10 DEF Cancel, batch
<1>11. ASSUME NEW d \in Dealers, Ask(d) PROVE TallyInv'
  BY <1>1, <1>11 DEF Ask
<1>12. ASSUME NEW d \in Dealers, NEW a \in GeoAnswers[d], Answered(d, a) PROVE TallyInv'
  BY <1>1, <1>12 DEF Answered
<1>13. CASE UNCHANGED vars
  BY <1>1, <1>13 DEF vars, batch
<1>14. QED  BY <1>2, <1>3, <1>4, <1>5, <1>6, <1>7, <1>8, <1>9, <1>10, <1>11, <1>12, <1>13
            DEF Next, Batch, Sync, Outside

\* A step that holds no more.
LEMMA SameLoss ==
  ASSUME Shapes, LossInv, UNCHANGED <<tally, workers>>, Locks("batch")' \subseteq Locks("batch"),
         pc' = pc \/ pc' \notin {"check", "await", "store", "count"} \/ (pc = "check" /\ pc' = "await")
  PROVE  LossInv'
<1>1. Locks("batch") \subseteq Dealers
  BY DEF Locks
<1>2. IsFiniteSet(Locks("batch"))
  BY <1>1, FS_Subset
<1>3. Locks("batch")' \in SUBSET Locks("batch")
  OBVIOUS
<1>4. IsFiniteSet(Locks("batch")') /\ Cardinality(Locks("batch")') <= Cardinality(Locks("batch"))
  BY <1>2, <1>3, FS_Subset
<1>5. Cardinality(Locks("batch")) \in Nat /\ Cardinality(Locks("batch")') \in Nat
  BY <1>2, <1>4, FS_CardinalityType
<1>6. tally.completed \in Nat /\ Kept \in Nat \ {0} /\ Kept' = Kept
  BY DEF Shapes, Counters, Kept
<1>7. tally.completed % Kept \in Int /\ (tally.completed - 1) % Kept \in Int
  BY <1>6
<1>8. QED  BY <1>4, <1>5, <1>6, <1>7 DEF LossInv

\* A commit is due before the rows held outnumber the remainder.
LEMMA LossStep ==
  Shapes /\ LocksInv /\ TakenInv /\ TallyInv /\ LossInv /\ [Next]_vars => LossInv'
<1> SUFFICES ASSUME Shapes, LocksInv, TakenInv, TallyInv, LossInv, [Next]_vars PROVE LossInv'
  OBVIOUS
<1> DEFINE c == tally.completed
           m == Cardinality(Locks("batch"))
<1>0. c \in Nat /\ Kept \in Nat \ {0} /\ tally.geocoded \in Nat /\ tally.failed \in Nat
  BY DEF Shapes, Counters, Kept
<1>r. /\ 0 % Kept = 0 /\ \A n \in Nat : n % Kept \in 0 .. Kept - 1
      /\ \A n \in Nat \ {0} : n % Kept # 0 => ((n - 1) % Kept) + 1 = n % Kept
  BY <1>0, Remainder, Zenon
<1>n. \A n \in Nat : n % Kept \in Nat
  BY <1>0, <1>r
<1>a. IsFiniteSet(Locks("batch")) /\ m \in Nat
  <2>1. Locks("batch") \subseteq Dealers
    BY DEF Locks
  <2>2. QED  BY <2>1, FS_Subset, FS_CardinalityType
<1>b. tx' = tx => Locks("batch")' = Locks("batch")
  BY DEF Locks
<1>1. CASE UNCHANGED <<pc, tally, workers, tx>>
  BY <1>1, <1>b, SameLoss
<1>2. CASE List
  <2>1. Locks("batch")' = {} /\ pc' = "check" /\ tally'.completed = 0 /\ workers' = workers
    BY <1>2, <1>b DEF List, LocksInv, TakenInv, Working
  <2>2. Cardinality(Locks("batch")') = 0 /\ Kept' = Kept
    BY <2>1, FS_EmptySet DEF Kept
  <2>3. QED  BY <1>0, <1>r, <2>1, <2>2 DEF LossInv
<1>3. CASE Check
  <2>1. UNCHANGED <<tally, workers>> /\ pc = "check"
    BY <1>3 DEF Check, Constant
  <2>2. CASE cancel \/ c = Total
    <3>1. Locks("batch")' = {} /\ pc' = "done"
      BY <1>3, <2>2, BatchCommits DEF Check, Finish
    <3>2. QED  BY <2>1, <3>1, SameLoss
  <2>3. CASE ~(cancel \/ c = Total)
    <3>1. tx' = tx /\ pc' = "await"
      BY <1>3, <2>3 DEF Check
    <3>2. QED  BY <1>b, <2>1, <3>1, SameLoss
  <2>4. QED  BY <2>2, <2>3
<1>4. CASE Take
  <2>1. pc = "await" /\ pc' \in {"count", "store"} /\ UNCHANGED <<workers, tx>>
    BY <1>4 DEF Take, Constant
  <2>2. Locks("batch")' = Locks("batch") /\ Kept' = Kept /\ tally'.completed - 1 = c
    BY <1>0, <1>4, <1>b, <2>1, TakeCounts DEF Kept
  <2>3. m <= c % Kept
    BY <2>1 DEF LossInv
  <2>4. m <= (c % Kept) + 1
    BY <1>0, <1>a, <1>n, <2>3
  <2>5. QED  BY <2>1, <2>2, <2>3, <2>4 DEF LossInv
<1>5. CASE Store
  <2>1. pc = "store" /\ pc' = "count" /\ workers' = workers /\ Write("batch", hand[1], hand[2])
    BY <1>5 DEF Store, Constant
  <2>2. hand[1] \in Dealers /\ hand[2] \in Kinds \ {"none"}
    BY <2>1 DEF Shapes, Kinds
  <2>3. Locks("batch")' = Locks("batch") \cup {hand[1]} /\ Kept' = Kept
    BY <2>1, <2>2, Written DEF Shapes, Pending, Kept
  <2>4. Cardinality(Locks("batch")') <= m + 1
    <3>1. Cardinality(Locks("batch") \cup {hand[1]}) \in {m, m + 1}
      BY <1>a, FS_AddElement
    <3>2. Cardinality(Locks("batch")') \in {m, m + 1}
      BY <2>3, <3>1, Zenon
    <3>3. \A x : x \in {m, m + 1} => x <= m + 1
      BY <1>a
    <3>4. QED  BY <3>2, <3>3, Zenon
  <2>5. tally'.completed = c
    BY <1>5, StoreCounts
  <2>6. m <= (c - 1) % Kept
    BY <2>1 DEF LossInv
  <2>7. c - 1 \in Nat
    BY <1>0, <2>1 DEF TallyInv
  <2>8. (c - 1) % Kept \in Nat
    BY <1>n, <2>7, Zenon
  <2>9. Cardinality(Locks("batch")') \in Nat
    BY <1>a, <2>3, FS_AddElement, FS_CardinalityType
  <2>10. Cardinality(Locks("batch")') <= ((c - 1) % Kept) + 1
    BY <1>a, <2>4, <2>6, <2>8, <2>9
  <2>11. QED  BY <2>1, <2>3, <2>5, <2>10 DEF LossInv
<1>6. CASE StoreFails
  <2>1. pc = "store" /\ pc' = "count" /\ UNCHANGED <<workers, tx>>
    BY <1>6 DEF StoreFails, Constant
  <2>2. Locks("batch")' = Locks("batch") /\ Kept' = Kept /\ tally'.completed = c
    BY <1>6, <1>b, <2>1, StoreFailsCounts DEF Kept
  <2>3. m <= (c - 1) % Kept /\ c - 1 \in Nat
    BY <1>0, <2>1 DEF LossInv, TallyInv
  <2>4. (c - 1) % Kept \in Nat
    BY <1>n, <2>3, Zenon
  <2>5. m <= ((c - 1) % Kept) + 1
    BY <1>a, <2>3, <2>4
  <2>6. QED  BY <2>1, <2>2, <2>5 DEF LossInv
<1>7. CASE Count
  <2>1. pc = "count" /\ pc' = "check" /\ UNCHANGED <<workers, tally>>
    BY <1>7 DEF Count, Constant
  <2>2. Kept' = Kept /\ m <= ((c - 1) % Kept) + 1 /\ c \in Nat \ {0}
    BY <1>0, <2>1 DEF Kept, LossInv, TallyInv
  <2>3. CASE CommitDue
    <3>1. Locks("batch")' = {}
      BY <1>7, <2>3, BatchCommits DEF Count
    <3>2. Cardinality(Locks("batch")') <= c % Kept
      <4>1. Cardinality(Locks("batch")') = 0
        BY <3>1, FS_EmptySet
      <4>2. c % Kept \in Nat
        BY <1>0, <1>n
      <4>3. QED  BY <4>1, <4>2
    <3>3. QED  BY <2>1, <2>2, <3>2 DEF LossInv
  <2>4. CASE ~CommitDue
    <3>1. Locks("batch")' = Locks("batch")
      BY <1>7, <1>b, <2>4 DEF Count
    <3>2. c % Kept # 0
      BY <2>4 DEF CommitDue, Kept
    <3>3. m <= c % Kept
      BY <1>r, <2>2, <3>2
    <3>4. QED  BY <2>1, <2>2, <3>1, <3>3 DEF LossInv
  <2>5. QED  BY <2>3, <2>4
<1>8. CASE BatchFails
  BY <1>8 DEF BatchFails, LossInv
<1>9. CASE Outside
  <2>1. UNCHANGED <<pc, tally, workers>>
    BY <1>9, OutsideLeaves DEF batch
  <2>2. Locks("batch")' \subseteq Locks("batch")
    BY <1>9, OutsideRows
  <2>3. QED  BY <2>1, <2>2, SameLoss
<1>10. CASE Cancel
  BY <1>1, <1>10 DEF Cancel, batch
<1>11. ASSUME NEW d \in Dealers, Ask(d) PROVE LossInv'
  BY <1>1, <1>11 DEF Ask
<1>12. ASSUME NEW d \in Dealers, NEW a \in GeoAnswers[d], Answered(d, a) PROVE LossInv'
  BY <1>1, <1>12 DEF Answered
<1>13. CASE UNCHANGED vars
  BY <1>1, <1>13 DEF vars, batch
<1>14. QED  BY <1>2, <1>3, <1>4, <1>5, <1>6, <1>7, <1>8, <1>9, <1>10, <1>11, <1>12, <1>13
            DEF Next, Batch, Sync, Outside

-----------------------------------------------------------------------------
(* Rows since the list.                                                    *)

\* A dealer listed without force has no complete row that was there before the
\* batch; one not listed has one, or others have written its row.  A dealer
\* taken has a row in the batch's transaction or one that is not from before,
\* if nobody has touched it and the batch did not miss it.
ListedInv ==
  pc \in Working =>
    /\ \A d \in todo : ~force /\ cache[d].kind = "full" => cache[d].by # "before"
    /\ \A d \in Dealers \ todo : d \in touched \/ (~force /\ cache[d].kind = "full")
    /\ \A d \in Taken \ (touched \cup missed) :
         (pc = "store" /\ d = hand[1]) \/ d \in Locks("batch") \/ cache[d].by # "before"

\* A dealer counted as geocoded has the batch's row, pending or committed.
Stored  == [kind |-> "full", by |-> "batch"]
GoodInv ==
  pc \in Working \cup {"done"} =>
    \A d \in good \ (touched \cup missed) :
      tx["batch"][d] = Stored \/ (d \notin Locks("batch") /\ cache[d] = Stored)

\* A step that moves no row.
LEMMA QuietListed ==
  ASSUME ListedInv, UNCHANGED <<cache, tx, touched, missed, todo, force>>, Taken' = Taken,
         pc' \in Working => pc \in Working, pc = "store" => pc' = "store" /\ hand' = hand
  PROVE  ListedInv'
<1>1. Locks("batch")' = Locks("batch")
  BY DEF Locks
<1>2. QED  BY <1>1 DEF ListedInv

\* Before the list there is nothing to say of the rows.
LEMMA ListedInit == Init => ListedInv /\ GoodInv
BY DEF Init, ListedInv, GoodInv, Working

\* Each step keeps what the list found, or the row is touched or missed.
LEMMA ListedStep ==
  Shapes /\ LocksInv /\ ThreadsInv /\ TakenInv /\ ListedInv /\ [Next]_vars => ListedInv'
<1> SUFFICES ASSUME Shapes, LocksInv, ThreadsInv, TakenInv, ListedInv, [Next]_vars PROVE ListedInv'
  OBVIOUS
<1> USE DEF Shapes
<1>0. UNCHANGED <<thread, answers, todo>> => Taken' = Taken
  BY DEF Taken, Queued
<1>a. tx' = tx => Locks("batch")' = Locks("batch")
  BY DEF Locks
<1>b. Taken \subseteq todo
  BY DEF Taken
<1>1. CASE UNCHANGED vars
  BY <1>0, <1>1, QuietListed DEF vars, batch, past
<1>2. CASE List
  <2>1. /\ thread' = [d \in Dealers |-> IF d \in todo' THEN "waiting" ELSE "off"]
        /\ todo' = {d \in Dealers : force \/ NeedsGeocode(d, cache')} /\ force' = force
    BY <1>2 DEF List
  <2>2. Taken' = {}
    BY <2>1 DEF Taken
  <2>3. \A d \in Dealers : d \in todo' <=> force' \/ cache'[d].kind # "full"
    BY <2>1 DEF NeedsGeocode
  <2>4. todo' \subseteq Dealers
    BY <2>1
  <2>5. QED  BY <2>2, <2>3, <2>4 DEF ListedInv
<1>3. ASSUME NEW d \in Dealers, Ask(d) PROVE ListedInv'
  <2>1. /\ thread' = [thread EXCEPT ![d] = "running"] /\ thread[d] = "waiting"
        /\ UNCHANGED <<cache, tx, touched, missed, todo, force, pc, hand, answers>>
    BY <1>3 DEF Ask, past
  <2>2. Taken' = Taken
    BY <2>1 DEF Taken, Queued
  <2>3. QED  BY <2>1, <2>2, QuietListed
<1>4. ASSUME NEW d \in Dealers, NEW a \in GeoAnswers[d], Answered(d, a) PROVE ListedInv'
  <2>1. UNCHANGED <<cache, tx, touched, missed, todo, force, pc, hand>>
    BY <1>4 DEF Answered, past
  <2>2. QED  BY <1>4, <2>1, AnswerComes, QuietListed
<1>5. CASE Check
  <2>1. CASE pc' \notin Working
    BY <2>1 DEF ListedInv
  <2>2. CASE pc' \in Working
    <3>1. /\ UNCHANGED <<cache, tx, thread, answers, touched, missed, todo, force>> /\ pc = "check"
      BY <1>5, <2>2 DEF Check, Working, Constant, Elsewhere
    <3>2. QED  BY <3>1, <1>0, QuietListed DEF Working
  <2>3. QED  BY <2>1, <2>2
<1>6. CASE Take
  <2>1. /\ pc = "await" /\ UNCHANGED <<cache, tx, touched, todo, force>>
        /\ \/ pc' = "store" /\ hand' = Head(answers) /\ missed' = missed
           \/ pc' = "count" /\ missed' = missed \cup {Head(answers)[1]}
    BY <1>6 DEF Take, Constant, Elsewhere
  <2>2. Taken' = Taken \cup {Head(answers)[1]}
    BY <1>6, AnswerIsTaken
  <2>3. Locks("batch")' = Locks("batch")
    BY <1>a, <2>1
  <2>4. \A d \in Taken' \ (touched' \cup missed') :
          (pc' = "store" /\ d = hand'[1]) \/ d \in Locks("batch")' \/ cache'[d].by # "before"
    BY <2>1, <2>2, <2>3 DEF ListedInv, Working
  <2>5. QED  BY <2>1, <2>4 DEF ListedInv, Working
<1>7. CASE Store
  <2>1. /\ pc = "store" /\ pc' = "count" /\ UNCHANGED <<cache, missed, todo, force, thread, answers>>
        /\ touched' = touched \ {hand[1]} /\ Write("batch", hand[1], hand[2])
    BY <1>7 DEF Store, Constant
  <2>2. hand[1] \in Dealers /\ hand[2] \in Kinds \ {"none"} /\ hand[1] \in todo
    BY <1>b, <2>1 DEF Kinds, TakenInv
  <2>3. Locks("batch")' = Locks("batch") \cup {hand[1]}
    BY <2>1, <2>2, Written DEF Pending
  <2>4. Taken' = Taken
    BY <1>0, <2>1
  <2>5. \A d \in Taken' \ (touched' \cup missed') : d \in Locks("batch")' \/ cache'[d].by # "before"
    BY <2>1, <2>3, <2>4 DEF ListedInv, Working
  <2>6. \A d \in Dealers \ todo' : d \in touched' \/ (~force' /\ cache'[d].kind = "full")
    BY <2>1, <2>2 DEF ListedInv, Working
  <2>7. QED  BY <2>1, <2>5, <2>6 DEF ListedInv, Working
<1>8. CASE StoreFails
  <2>1. /\ pc = "store" /\ pc' = "count" /\ UNCHANGED <<cache, tx, touched, todo, force, thread, answers>>
        /\ missed' = missed \cup {hand[1]}
    BY <1>8 DEF StoreFails, Constant, Elsewhere
  <2>2. Taken' = Taken /\ Locks("batch")' = Locks("batch")
    BY <1>0, <1>a, <2>1
  <2>3. \A d \in Taken' \ (touched' \cup missed') : d \in Locks("batch")' \/ cache'[d].by # "before"
    BY <2>1, <2>2 DEF ListedInv, Working
  <2>4. QED  BY <2>1, <2>3 DEF ListedInv, Working
<1>9. CASE Count
  <2>1. /\ pc = "count" /\ pc' = "check" /\ UNCHANGED <<missed, touched, todo, force, thread, answers>>
    BY <1>9 DEF Count, Constant, Elsewhere
  <2>2. Taken' = Taken
    BY <1>0, <2>1
  <2>3. CASE CommitDue
    <3>1. /\ Locks("batch")' = {}
          /\ \A d \in Locks("batch") : cache'[d].by = "batch"
          /\ \A d \in Dealers \ Locks("batch") : cache'[d] = cache[d]
      BY <1>9, <2>3, BatchCommits DEF Count
    <3>2. Locks("batch") \subseteq Taken
      BY <2>1 DEF TakenInv, Working
    <3>3. \A d \in todo : ~force /\ cache'[d].kind = "full" => cache'[d].by # "before"
      BY <2>1, <3>1 DEF ListedInv, Working
    <3>4. \A d \in Dealers \ todo : d \in touched \/ (~force /\ cache'[d].kind = "full")
      BY <1>b, <2>1, <3>1, <3>2 DEF ListedInv, Working
    <3>5. \A d \in Taken \ (touched \cup missed) : cache'[d].by # "before"
      BY <1>b, <2>1, <3>1 DEF ListedInv, Working
    <3>6. QED  BY <2>1, <2>2, <3>3, <3>4, <3>5 DEF ListedInv
  <2>4. CASE ~CommitDue
    <3>1. UNCHANGED <<cache, tx>>
      BY <1>9, <2>4 DEF Count
    <3>2. QED  BY <2>1, <2>2, <3>1, QuietListed DEF Working
  <2>5. QED  BY <2>3, <2>4
<1>10. CASE BatchFails
  BY <1>10 DEF BatchFails, ListedInv, Working
<1>11. CASE Cancel
  BY <1>0, <1>11, QuietListed DEF Cancel, batch
<1>12. CASE Outside
  <2>1. UNCHANGED <<pc, hand, todo, force, thread, answers>> /\ Taken' = Taken
    BY <1>0, <1>12, OutsideLeaves DEF batch
  <2>2. /\ touched \subseteq touched' /\ missed \subseteq missed'
        /\ \A d \in Locks("batch") : d \in Locks("batch")' \cup missed'
        /\ \A d \in Dealers : \/ cache'[d] = cache[d]
                              \/ d \in touched' /\ (cache'[d].by \in {"sync", "admin"} \/ cache'[d] = Absent)
    BY <1>12, OutsideRows
  <2>3. ASSUME pc \in Working, NEW d \in todo, ~force, cache'[d].kind = "full" PROVE cache'[d].by # "before"
    <3>1. d \in Dealers /\ (cache[d].kind = "full" => cache[d].by # "before")
      BY <2>3 DEF ListedInv
    <3>2. CASE cache'[d] = cache[d]
      BY <2>3, <3>1, <3>2
    <3>3. CASE cache'[d] = Absent
      BY <2>3, <3>3 DEF Absent
    <3>4. QED  BY <2>2, <3>1, <3>2, <3>3
  <2>4. QED  BY <1>b, <2>1, <2>2, <2>3 DEF ListedInv
<1>13. QED  BY <1>1, <1>2, <1>3, <1>4, <1>5, <1>6, <1>7, <1>8, <1>9, <1>10, <1>11, <1>12 DEF Next, Batch, Sync, Outside

\* A step that moves no row and counts no dealer.
LEMMA QuietGood ==
  ASSUME GoodInv, UNCHANGED <<cache, tx, touched, good>>, missed \subseteq missed',
         pc' \in Working \cup {"done"} => pc \in Working \cup {"done"}
  PROVE  GoodInv'
<1>1. Locks("batch")' = Locks("batch")
  BY DEF Locks
<1>2. QED  BY <1>1 DEF GoodInv, Stored

\* The commit moves the batch's rows.
LEMMA CommitGood ==
  ASSUME Shapes, LocksInv, GoodInv, Commit("batch"), UNCHANGED <<touched, missed, good>>, pc \in Working
  PROVE  GoodInv'
<1>1. /\ Locks("batch")' = {}
      /\ \A d \in Locks("batch") : cache'[d] = tx["batch"][d]
      /\ \A d \in Dealers \ Locks("batch") : cache'[d] = cache[d]
  BY BatchCommits
<1>2. ASSUME NEW d \in good \ (touched \cup missed) PROVE cache'[d] = Stored
  <2>1. d \in Dealers
    BY DEF Shapes
  <2>2. CASE tx["batch"][d] = Stored
    <3>1. d \in Locks("batch")
      BY <2>1, <2>2 DEF Locks, Stored
    <3>2. QED  BY <1>1, <2>2, <3>1
  <2>3. CASE tx["batch"][d] # Stored
    BY <1>1, <2>1, <2>3 DEF GoodInv
  <2>4. QED  BY <2>2, <2>3
<1>3. QED  BY <1>1, <1>2 DEF GoodInv, Stored

\* No step loses a row counted as geocoded, unless it is touched or missed.
LEMMA GoodStep ==
  Shapes /\ LocksInv /\ TakenInv /\ GoodInv /\ [Next]_vars => GoodInv'
<1> SUFFICES ASSUME Shapes, LocksInv, TakenInv, GoodInv, [Next]_vars PROVE GoodInv'
  OBVIOUS
<1>1. CASE UNCHANGED vars
  BY <1>1, QuietGood DEF vars, batch, past
<1>2. CASE List
  BY <1>2 DEF List, GoodInv, TakenInv
<1>3. ASSUME NEW d \in Dealers, Ask(d) PROVE GoodInv'
  BY <1>3, QuietGood DEF Ask, past
<1>4. ASSUME NEW d \in Dealers, NEW a \in GeoAnswers[d], Answered(d, a) PROVE GoodInv'
  BY <1>4, QuietGood DEF Answered, past
<1>5. CASE Check
  <2>1. UNCHANGED <<touched, missed, good>> /\ pc \in Working
    BY <1>5 DEF Check, Elsewhere, Working
  <2>2. CASE Commit("batch")
    BY <2>1, <2>2, CommitGood
  <2>3. CASE ~Commit("batch")
    BY <1>5, <2>1, <2>3, QuietGood DEF Check, Finish
  <2>4. QED  BY <2>2, <2>3
<1>6. CASE Take
  <2>1. UNCHANGED <<cache, tx, touched, good>> /\ missed \subseteq missed' /\ pc \in Working
    BY <1>6 DEF Take, Elsewhere, Working
  <2>2. QED  BY <2>1, QuietGood
<1>7. CASE Store
  <2>1. /\ pc = "store" /\ UNCHANGED <<cache, missed>> /\ Write("batch", hand[1], hand[2])
        /\ touched' = touched \ {hand[1]} /\ good' = IF hand[2] = "full" THEN good \cup {hand[1]} ELSE good
    BY <1>7 DEF Store
  <2>2. hand[1] \in Dealers /\ hand[2] \in Kinds \ {"none"} /\ hand[1] \notin good
    BY <2>1 DEF Kinds, TakenInv, Shapes
  <2>3. /\ tx'["batch"][hand[1]] = [kind |-> hand[2], by |-> "batch"]
        /\ \A e \in Dealers \ {hand[1]} : tx'["batch"][e] = tx["batch"][e]
        /\ Locks("batch")' = Locks("batch") \cup {hand[1]}
    BY <2>1, <2>2, Written DEF Pending, Shapes
  <2>4. ASSUME NEW d \in good' \ (touched' \cup missed'), d # hand[1]
        PROVE  tx'["batch"][d] = Stored \/ (d \notin Locks("batch")' /\ cache'[d] = Stored)
    <3>1. d \in good \ (touched \cup missed) /\ d \in Dealers
      BY <2>1, <2>4 DEF Shapes
    <3>2. QED  BY <2>1, <2>3, <2>4, <3>1 DEF GoodInv, Working
  <2>5. hand[1] \in good' => tx'["batch"][hand[1]] = Stored
    BY <2>1, <2>2, <2>3 DEF Stored
  <2>6. QED  BY <2>4, <2>5 DEF GoodInv, Stored
<1>8. CASE StoreFails
  <2>1. UNCHANGED <<cache, tx, touched, good>> /\ missed \subseteq missed' /\ pc \in Working
    BY <1>8 DEF StoreFails, Elsewhere, Working
  <2>2. QED  BY <2>1, QuietGood
<1>9. CASE Count
  <2>1. UNCHANGED <<touched, missed, good>> /\ pc \in Working
    BY <1>9 DEF Count, Elsewhere, Working
  <2>2. CASE Commit("batch")
    BY <2>1, <2>2, CommitGood
  <2>3. CASE ~Commit("batch")
    BY <1>9, <2>1, <2>3, QuietGood DEF Count
  <2>4. QED  BY <2>2, <2>3
<1>10. CASE BatchFails
  BY <1>10 DEF BatchFails, GoodInv, Working
<1>11. CASE Cancel
  BY <1>11, QuietGood DEF Cancel, batch
<1>12. CASE Outside
  <2>1. UNCHANGED <<pc, good>>
    BY <1>12, OutsideLeaves DEF batch
  <2>2. /\ \/ tx'["batch"] = tx["batch"] /\ Locks("batch")' = Locks("batch")
           \/ Locks("batch")' = {} /\ Locks("batch") \subseteq missed'
        /\ touched \subseteq touched' /\ missed \subseteq missed'
        /\ \A d \in Dealers : cache'[d] = cache[d] \/ d \in touched'
    BY <1>12, OutsideRows
  <2>3. ASSUME pc \in Working \cup {"done"}, NEW d \in good \ (touched' \cup missed')
        PROVE  tx'["batch"][d] = Stored \/ (d \notin Locks("batch")' /\ cache'[d] = Stored)
    <3>1. d \in Dealers /\ d \in good \ (touched \cup missed) /\ cache'[d] = cache[d]
      BY <2>2, <2>3 DEF Shapes
    <3>2. tx["batch"][d] = Stored => d \in Locks("batch")
      BY <3>1 DEF Stored, Locks
    <3>3. QED  BY <2>2, <2>3, <3>1, <3>2 DEF GoodInv
  <2>4. QED  BY <2>1, <2>3 DEF GoodInv, Stored
<1>13. QED  BY <1>1, <1>2, <1>3, <1>4, <1>5, <1>6, <1>7, <1>8, <1>9, <1>10, <1>11, <1>12 DEF Next, Batch, Sync, Outside

\* Nobody is left out when the batch ends, and what others do later does not
\* change that.
LEMMA LeftStep ==
  Shapes /\ LocksInv /\ TakenInv /\ ListedInv /\ NobodyIsLeftOut /\ [Next]_vars => NobodyIsLeftOut'
<1> SUFFICES ASSUME Shapes, LocksInv, TakenInv, ListedInv, NobodyIsLeftOut, [Next]_vars PROVE NobodyIsLeftOut'
  OBVIOUS
<1>1. CASE UNCHANGED <<pc, cancel, cache, touched, missed, force>>
  BY <1>1 DEF NobodyIsLeftOut
<1>2. CASE pc' # "done"
  BY <1>2 DEF NobodyIsLeftOut
<1>3. CASE Check /\ pc' = "done"
  <2> SUFFICES ASSUME ~cancel, NEW d \in Dealers
               PROVE  \/ cache'[d].by # "before" \/ d \in touched \cup missed
                      \/ ~force /\ cache'[d].kind = "full"
    BY <1>3 DEF Check, Constant, Elsewhere, NobodyIsLeftOut
  <2>1. pc = "check" /\ tally.completed = Total /\ Commit("batch")
    BY <1>3 DEF Check, Finish
  <2>2. Taken = todo /\ Locks("batch") \subseteq Taken
    BY <2>1, TakenIsListed DEF TakenInv, Working
  <2>3. /\ \A e \in Locks("batch") : cache'[e].by = "batch"
        /\ \A e \in Dealers \ Locks("batch") : cache'[e] = cache[e]
    BY <2>1, BatchCommits
  <2>4. CASE d \in todo
    BY <2>1, <2>2, <2>3, <2>4 DEF ListedInv, Working
  <2>5. CASE d \notin todo
    BY <2>1, <2>2, <2>3, <2>5 DEF ListedInv, Working
  <2>6. QED  BY <2>4, <2>5
<1>4. CASE Outside
  <2>1. UNCHANGED <<pc, force, cancel>>
    BY <1>4, OutsideLeaves DEF batch
  <2>2. /\ touched \subseteq touched' /\ missed \subseteq missed'
        /\ \A d \in Dealers : cache'[d] = cache[d] \/ d \in touched'
    BY <1>4, OutsideRows
  <2>3. QED  BY <2>1, <2>2 DEF NobodyIsLeftOut
<1>5. ASSUME NEW d \in Dealers, Ask(d) PROVE NobodyIsLeftOut'
  BY <1>1, <1>5 DEF Ask, past
<1>6. ASSUME NEW d \in Dealers, NEW a \in GeoAnswers[d], Answered(d, a) PROVE NobodyIsLeftOut'
  BY <1>1, <1>6 DEF Answered, past
<1>7. CASE List \/ Take \/ Store \/ StoreFails \/ Count \/ BatchFails \/ Cancel
  BY <1>2, <1>7 DEF List, Take, Store, StoreFails, Count, BatchFails, Cancel, batch
<1>8. CASE UNCHANGED vars
  BY <1>1, <1>8 DEF vars, batch, past
<1>9. QED  BY <1>2, <1>3, <1>4, <1>5, <1>6, <1>7, <1>8 DEF Next, Batch, Sync, Outside

-----------------------------------------------------------------------------
(* The theorems.                                                           *)

BatchInv ==
  /\ Shapes /\ LocksInv /\ ThreadsInv /\ TakenInv /\ TallyInv /\ LossInv
  /\ ListedInv /\ GoodInv /\ NobodyIsLeftOut

\* The invariant of the batch and of those who write its rows.
LEMMA BatchInvariant == Spec => []BatchInv
<1>1. Init => BatchInv
  BY ShapesInit, LocksInit, ThreadsInit, TakenInit, TallyInit, ListedInit DEF BatchInv, NobodyIsLeftOut, Init
<1>2. BatchInv /\ [Next]_vars => BatchInv'
  BY ShapesStep, LocksStep, ThreadsStep, TakenStep, TallyStep, LossStep, ListedStep, GoodStep, LeftStep DEF BatchInv
<1>3. QED  BY <1>1, <1>2, PTL DEF Spec

\* What the batch has counted and what is in its tables are of their types.
LEMMA BatchTypes == BatchInv => TypeOK
<1> SUFFICES ASSUME BatchInv PROVE TypeOK
  OBVIOUS
<1> USE DEF BatchInv
<1>1. tally \in [completed : 0 .. Total, geocoded : Nat, failed : Nat]
  <2>1. tally \in Counters /\ Total \in Nat /\ tally.completed <= Total
    BY TakenIsListed DEF Shapes, TakenInv
  <2>2. QED  BY <2>1 DEF Counters
<1>2. (pc = "check" \/ pc = "done") => tally.geocoded + tally.failed = tally.completed
  BY DEF TallyInv
<1>3. Locks("batch") \cap Locks("sync") = {} /\ Cardinality({d \in Dealers : thread[d] = "running"}) <= workers
  BY DEF LocksInv, ThreadsInv, Running
<1>4. QED  BY SMTT(20), <1>1, <1>2, <1>3 DEF Shapes, Tables, Pending, Syncs, Bounds, TypeOK

\* Between commits fewer answers than CommitEvery are stored, and one more
\* before the next is counted.
LEMMA FewAreHeld == BatchInv => LittleIsLost
<1> SUFFICES ASSUME BatchInv PROVE LittleIsLost
  OBVIOUS
<1> USE DEF BatchInv
<1> DEFINE m == Cardinality(Locks("batch"))
           c == tally.completed
<1>1. Kept \in Nat \ {0} /\ c \in Nat
  BY DEF Shapes, Counters, Kept
<1>2. Locks("batch") \subseteq Dealers
  BY DEF Locks
<1>3. m \in Nat
  BY <1>2, FS_Subset, FS_CardinalityType
<1>4. \A n \in Nat : n % Kept \in 0 .. Kept - 1
  BY <1>1, Remainder, Zenon
<1>5. pc \in {"check", "await"} => m <= Kept - 1
  <2>1. c % Kept \in 0 .. Kept - 1
    BY <1>1, <1>4, Zenon
  <2>2. QED  BY <1>1, <1>3, <2>1 DEF LossInv
<1>6. pc \in {"store", "count"} => (c - 1) % Kept \in 0 .. Kept - 1
  <2>1. pc \in {"store", "count"} => c - 1 \in Nat
    BY <1>1 DEF TallyInv, Shapes, Counters
  <2>2. QED  BY <1>4, <2>1, Zenon
<1>7. pc = "store" => m <= Kept - 1
  BY <1>1, <1>3, <1>6 DEF LossInv
<1>8. pc = "count" => m <= Kept
  BY <1>1, <1>3, <1>6 DEF LossInv
<1>9. pc \notin Working => m = 0
  BY FS_EmptySet DEF LocksInv
<1>10. m <= IF pc \in {"check", "await", "store"} THEN Kept - 1 ELSE Kept
  BY <1>1, <1>3, <1>5, <1>7, <1>8, <1>9 DEF Working
<1>11. QED  BY <1>10, Zenon DEF LittleIsLost, Kept

\* After the request to cancel the batch stores or counts one more answer at
\* most, the one it was waiting for.
THEOREM CancelStopsTheBatch == Spec => []CancelIsPrompt
<1>1. Init => LateInv
  BY DEF Init, LateInv
<1>2. Shapes /\ LateInv /\ [Next]_vars => LateInv'
  BY LateStep
<1>3. LateInv => CancelIsPrompt
  BY DEF LateInv, CancelIsPrompt
<1>4. QED  BY <1>1, <1>2, <1>3, ShapesInit, ShapesStep, PTL DEF Spec

\* Every answer that the batch counts as geocoded is in the table when it has
\* returned, unless others wrote the row or a deadlock took it; a batch that
\* ran to its end left no dealer out; and what a death of the worker may take
\* is bounded by CommitEvery.
THEOREM CountedAnswersAreKept == Spec => []AnswersAreKept
<1>1. BatchInv => CountedIsKept
  <2> SUFFICES ASSUME BatchInv, pc = "done", NEW d \in good \ (touched \cup missed)
               PROVE  cache[d] = Stored
    BY DEF CountedIsKept, Stored
  <2>1. d \in Dealers /\ d \notin Locks("batch")
    BY DEF BatchInv, Shapes, LocksInv, Working
  <2>2. tx["batch"][d] # Stored
    BY <2>1 DEF Locks, Stored
  <2>3. QED  BY <2>2 DEF BatchInv, GoodInv
<1>2. BatchInv => AnswersAreKept
  BY <1>1, BatchTypes, FewAreHeld DEF AnswersAreKept, BatchInv
<1>3. QED  BY <1>2, BatchInvariant, PTL

\* A batch that was not forced writes over a complete row only if somebody
\* wrote that row after the list.
THEOREM CompleteRowsAreLeft == Spec => CompleteRowsStay
<1> DEFINE Stays == \A d \in Dealers :
             cache[d].kind = "full" /\ cache'[d] # cache[d] /\ cache'[d].by = "batch" => force \/ cache[d].by \in Writers
<1>1. ASSUME BatchInv, [Next]_vars, NEW d \in Dealers,
             cache[d].kind = "full", cache'[d] # cache[d], cache'[d].by = "batch"
      PROVE  force \/ cache[d].by \in Writers
  <2> USE DEF BatchInv
  <2>1. cache[d] \in RowType
    BY <1>1 DEF Shapes, Tables
  <2>2. CASE Commit("batch") /\ pc \in Working
    <3>1. d \in Locks("batch")
      BY <1>1, <2>2, BatchCommits
    <3>2. d \in todo
      BY <1>1, <2>2, <3>1, TakenIsListed DEF TakenInv
    <3>3. force \/ cache[d].by # "before"
      BY <1>1, <2>2, <3>2 DEF ListedInv
    <3>4. QED  BY <2>1, <3>3 DEF RowType
  <2>3. CASE Outside
    <3>1. cache'[d].by \in {"sync", "admin"} \/ cache'[d] = Absent
      BY <1>1, <2>3, OutsideRows
    <3>2. QED  BY <1>1, <3>1 DEF Absent
  <2>4. CASE List
    BY <1>1, <2>4 DEF List
  <2>5. CASE cache' = cache
    BY <1>1, <2>5
  <2>6. CASE Check
    BY <2>2, <2>5, <2>6 DEF Check, Finish, Working
  <2>7. CASE Count
    BY <2>2, <2>5, <2>7 DEF Count, Working
  <2>8. CASE Take \/ Store \/ StoreFails \/ BatchFails \/ Cancel \/ UNCHANGED vars
    BY <2>5, <2>8 DEF Take, Store, StoreFails, BatchFails, Cancel, vars
  <2>9. ASSUME NEW e \in Dealers, Ask(e) \/ \E a \in GeoAnswers[e] : Answered(e, a)
        PROVE  cache' = cache
    BY <2>9 DEF Ask, Answered
  <2>10. QED  BY <1>1, <2>3, <2>4, <2>5, <2>6, <2>7, <2>8, <2>9 DEF Next, Batch, Sync, Outside
<1>2. BatchInv /\ [Next]_vars => [Stays]_vars
  BY <1>1
<1>3. QED  BY <1>2, BatchInvariant, PTL DEF Spec, CompleteRowsStay
===============================================================================
