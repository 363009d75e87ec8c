-------------------------- MODULE JobThreadsProofs --------------------------
(***************************************************************************)
(* Proofs about JobThreads, for any set of jobs and of overviews.          *)
(*                                                                         *)
(* ThreadsInv is inductive by itself.  VerdictInv and CancelInv are        *)
(* inductive relative to it: the first needs that a progress object never  *)
(* reports more than the thread has said, the second that only one geocode *)
(* job is alive when the event is set.  StuckInv is inductive relative to  *)
(* both ThreadsInv and VerdictInv.                                         *)
(***************************************************************************)
EXTENDS JobThreads, TLAPS

USE ThreadsAssumption
    DEF Jobs, Channels, Chan, Terminal, AliveAt, Idle, Nothing, Step, Show, Save

-----------------------------------------------------------------------------
(* The strengthenings that are inductive relative to ThreadsInv.           *)

\* What else holds between the place of a thread and what it has said and saved.
PlacesInv ==
  /\ \A j \in Jobs : stage[j] \in {"new", "starting", "body"} => outcome[j] = "none" /\ saved[j] = "none"
  /\ \A j \in Jobs : stage[j] \in {"raised", "failing"} => j \in GeocodeJobs
  /\ \A j \in IngestJobs : stage[j] = "saving" => outcome[j] # "none" /\ saved[j] = "none"

\* An overview that carries the verdict of an ingest carries the true one.
CarriesTrueVerdicts ==
  \A r \in Requests :
    req[r].at # "idle" /\ req[r].job \in IngestJobs => req[r].status = outcome[req[r].job]

\* What the threads say, carry and save of ingests is one verdict.
VerdictInv ==
  /\ PlacesInv
  /\ CarriesTrueVerdicts
  /\ \A j \in IngestJobs :
       /\ row[j] \in Terminal => row[j] = outcome[j]
       /\ saved[j] # "none" => row[j] = saved[j]

\* A verdict "cancelled" traces back to a cancel() of that very job, wherever
\* it is: in the event, in the progress object, with an overview or in the row.
CancelInv ==
  /\ \A j \in GeocodeJobs : cancel /\ stage[j] \in AliveAt => j \in asked
  /\ \A j \in Jobs : outcome[j] = "cancelled" => j \in asked
  /\ \A c \in Channels : shown[c].status = "cancelled" => shown[c].job \in asked
  /\ \A r \in Requests : req[r].at # "idle" /\ req[r].status = "cancelled" => req[r].job \in asked
  /\ CancelledWasAsked

\* A geocode job reported as running has not said how it ended, and nobody who
\* would close its row knows better.
StuckInv ==
  /\ shown["geocode"].status = "running" =>
       /\ shown["geocode"].job \in GeocodeJobs
       /\ outcome[shown["geocode"].job] = "none" /\ row[shown["geocode"].job] = "running"
  /\ \A j \in Jobs : stage[j] \in {"raised", "failing"} => outcome[j] # "none"
  /\ \A r \in Requests : req[r].at # "idle" => outcome[req[r].job] # "none"

-----------------------------------------------------------------------------
\* The managers report one job at a time and report it truly, at the start.
LEMMA ThreadsInit == Init => ThreadsInv
<1>1. ASSUME Init PROVE TypeOK
  <2>1. shown \in [Channels -> [status : {"idle", "running"} \cup Terminal, job : Jobs \cup {NoJob}]]
    BY <1>1 DEF Init
  <2>2. req \in [Requests -> [at : {"idle", "get", "finish"}, job : Jobs \cup {NoJob}, status : {"idle"} \cup Terminal]]
    BY <1>1 DEF Init
  <2>3. QED  BY <1>1, <2>1, <2>2 DEF Init, TypeOK
<1>2. Init => ThreadsInv!2 /\ ThreadsInv!3 /\ ThreadsInv!4 /\ ThreadsInv!5
  BY DEF Init
<1>3. QED  BY <1>1, <1>2 DEF ThreadsInv

\* Every step of a thread keeps ThreadsInv.
LEMMA ThreadsWork == ASSUME ThreadsInv, NEW j \in Jobs, Work(j) PROVE ThreadsInv'
<1> USE DEF ThreadsInv, TypeOK
<1>1. CASE Prepare(j)
  BY <1>1 DEF Prepare
<1>2. ASSUME NEW s \in {"completed", "failed"}, IngestEnds(j, s) PROVE ThreadsInv'
  BY <1>2 DEF IngestEnds
<1>3. CASE IngestSaves(j)
  BY <1>3 DEF IngestSaves
<1>4. CASE GeocodeReturns(j)
  BY <1>4 DEF GeocodeReturns
<1>5. CASE GeocodeFails(j)
  BY <1>5 DEF GeocodeFails
<1>6. CASE GeocodeSavesFailure(j)
  BY <1>6 DEF GeocodeSavesFailure
<1>7. CASE ThreadEnds(j)
  BY <1>7 DEF ThreadEnds
<1> HIDE DEF ThreadsInv
<1>8. QED  BY <1>1, <1>2, <1>3, <1>4, <1>5, <1>6, <1>7 DEF Work

\* Every step keeps ThreadsInv.
LEMMA ThreadsStep == ASSUME ThreadsInv, [Next]_vars PROVE ThreadsInv'
<1>1. ASSUME NEW j \in Jobs, Start(j) PROVE ThreadsInv'
  BY <1>1 DEF ThreadsInv, TypeOK, Start
<1>2. ASSUME NEW j \in Jobs, Work(j) PROVE ThreadsInv'
  BY <1>2, ThreadsWork
<1>3. ASSUME NEW c \in Channels, StartFails(c) PROVE ThreadsInv'
  <2>1. CASE c = "ingest"
    BY <1>3, <2>1 DEF ThreadsInv, TypeOK, StartFails
  <2>2. CASE c = "geocode"
    <3>1. cancel' \in BOOLEAN /\ UNCHANGED <<row, outcome, stage, thread, shown, req, saved, asked>>
      BY <1>3, <2>2 DEF StartFails
    <3>2. QED  BY <3>1 DEF ThreadsInv, TypeOK
  <2>3. QED  BY <2>1, <2>2
<1>4. CASE Cancel
  <2>1. thread["geocode"] \in GeocodeJobs
    BY <1>4 DEF ThreadsInv, TypeOK, Cancel
  <2>2. QED  BY <1>4, <2>1 DEF ThreadsInv, TypeOK, Cancel
<1>5. CASE ServerDies
  <2>1. TypeOK'
    BY <1>5 DEF ThreadsInv, TypeOK, ServerDies
  <2>2. \A j \in Jobs : stage'[j] \notin AliveAt
    BY SMTT(20), <1>5 DEF ThreadsInv, TypeOK, ServerDies
  <2>3. QED  BY <1>5, <2>1, <2>2 DEF ThreadsInv, ServerDies
<1>6. ASSUME NEW r \in Requests, NEW c \in Channels, ReconcileLive(r, c) PROVE ThreadsInv'
  BY <1>6 DEF ThreadsInv, TypeOK, ReconcileLive
<1>7. ASSUME NEW r \in Requests, Get(r) \/ Finish(r) PROVE ThreadsInv'
  <2>1. CASE Get(r)
    BY <2>1 DEF ThreadsInv, TypeOK, Get
  <2>2. CASE Finish(r)
    BY <2>2 DEF ThreadsInv, TypeOK, Finish
  <2>3. QED  BY <1>7, <2>1, <2>2
<1>8. CASE UNCHANGED vars
  BY <1>8 DEF ThreadsInv, TypeOK, vars
<1>9. QED  BY <1>1, <1>2, <1>3, <1>4, <1>5, <1>6, <1>7, <1>8 DEF Next

\* A manager has at most one job, and it reports of a job as ended what the
\* job's thread said (IngestJobManager and GeocodeJobManager: start, status).
THEOREM ManagersReportTruly == Spec => []ThreadsInv
  BY ThreadsInit, ThreadsStep, PTL DEF Spec

-----------------------------------------------------------------------------
\* Every step of a thread keeps VerdictInv.
LEMMA VerdictWork == ASSUME ThreadsInv, VerdictInv, NEW j \in Jobs, Work(j) PROVE VerdictInv'
<1> USE DEF ThreadsInv, TypeOK, VerdictInv, PlacesInv, CarriesTrueVerdicts
<1>1. CASE Prepare(j)
  BY <1>1 DEF Prepare
<1>2. ASSUME NEW s \in {"completed", "failed"}, IngestEnds(j, s) PROVE VerdictInv'
  BY <1>2 DEF IngestEnds
<1>3. CASE IngestSaves(j)
  BY <1>3 DEF IngestSaves
<1>4. CASE GeocodeReturns(j)
  BY <1>4 DEF GeocodeReturns
<1>5. CASE GeocodeFails(j)
  BY <1>5 DEF GeocodeFails
<1>6. CASE GeocodeSavesFailure(j)
  BY <1>6 DEF GeocodeSavesFailure
<1>7. CASE ThreadEnds(j)
  BY <1>7 DEF ThreadEnds
<1> HIDE DEF VerdictInv
<1>8. QED  BY <1>1, <1>2, <1>3, <1>4, <1>5, <1>6, <1>7 DEF Work

\* Every step keeps VerdictInv.
LEMMA VerdictStep == ASSUME ThreadsInv, VerdictInv, [Next]_vars PROVE VerdictInv'
<1> USE DEF ThreadsInv, TypeOK, VerdictInv, PlacesInv, CarriesTrueVerdicts
<1>1. ASSUME NEW j \in Jobs, Start(j) PROVE VerdictInv'
  BY <1>1 DEF Start
<1>2. ASSUME NEW c \in Channels, StartFails(c) PROVE VerdictInv'
  BY <1>2 DEF StartFails
<1>3. CASE Cancel
  BY <1>3 DEF Cancel
<1>4. CASE ServerDies
  BY <1>4 DEF ServerDies
<1>5. ASSUME NEW r \in Requests, NEW c \in Channels, ReconcileLive(r, c) PROVE VerdictInv'
  BY <1>5 DEF ReconcileLive
<1>6. ASSUME NEW r \in Requests, Get(r) PROVE VerdictInv'
  BY <1>6 DEF Get
<1>7. ASSUME NEW r \in Requests, Finish(r) PROVE VerdictInv'
  BY <1>7 DEF Finish
<1>8. CASE UNCHANGED vars
  BY <1>8 DEF vars
<1> HIDE DEF VerdictInv, ThreadsInv
<1>9. QED  BY <1>1, <1>2, <1>3, <1>4, <1>5, <1>6, <1>7, <1>8, VerdictWork DEF Next

\* The row of an ingest says how the ingest ended, and an overview that closes
\* it never contradicts what the thread saves (ingest_thread.py, runs.py).
THEOREM IngestVerdictsStand == Spec => []IngestVerdictStands
<1>1. Init => VerdictInv
  BY DEF Init, VerdictInv, PlacesInv, CarriesTrueVerdicts
<1>2. VerdictInv => IngestVerdictStands
  BY DEF VerdictInv, IngestVerdictStands
<1>3. QED  BY <1>1, <1>2, ManagersReportTruly, VerdictStep, PTL DEF Spec

-----------------------------------------------------------------------------
\* Every step of a thread keeps CancelInv.
LEMMA CancelWork == ASSUME ThreadsInv, CancelInv, NEW j \in Jobs, Work(j) PROVE CancelInv'
<1> USE DEF ThreadsInv, TypeOK, CancelInv, CancelledWasAsked
<1>1. CASE Prepare(j)
  BY <1>1 DEF Prepare
<1>2. ASSUME NEW s \in {"completed", "failed"}, IngestEnds(j, s) PROVE CancelInv'
  BY <1>2 DEF IngestEnds
<1>3. CASE IngestSaves(j)
  BY <1>3 DEF IngestSaves
<1>4. CASE GeocodeReturns(j)
  BY <1>4 DEF GeocodeReturns
<1>5. CASE GeocodeFails(j)
  BY <1>5 DEF GeocodeFails
<1>6. CASE GeocodeSavesFailure(j)
  BY <1>6 DEF GeocodeSavesFailure
<1>7. CASE ThreadEnds(j)
  BY <1>7 DEF ThreadEnds
<1> HIDE DEF CancelInv
<1>8. QED  BY <1>1, <1>2, <1>3, <1>4, <1>5, <1>6, <1>7 DEF Work

\* Every step keeps CancelInv.
LEMMA CancelStep == ASSUME ThreadsInv, CancelInv, [Next]_vars PROVE CancelInv'
<1> USE DEF ThreadsInv, TypeOK, CancelInv, CancelledWasAsked
<1>1. ASSUME NEW j \in Jobs, Start(j) PROVE CancelInv'
  <2>1. CASE j \in GeocodeJobs
    <3>1. ~cancel'
      BY <1>1, <2>1 DEF Start
    <3>2. QED  BY <1>1, <2>1, <3>1 DEF Start
  <2>2. CASE j \in IngestJobs
    <3>1. cancel' = cancel
      BY <1>1, <2>2 DEF Start
    <3>2. \A k \in GeocodeJobs : stage'[k] = stage[k]
      BY <1>1, <2>2 DEF Start
    <3>3. QED  BY <1>1, <2>2, <3>1, <3>2 DEF Start
  <2>3. QED  BY <2>1, <2>2
<1>2. ASSUME NEW c \in Channels, StartFails(c) PROVE CancelInv'
  BY <1>2 DEF StartFails
<1>3. CASE Cancel
  BY <1>3 DEF Cancel
<1>4. CASE ServerDies
  BY <1>4 DEF ServerDies
<1>5. ASSUME NEW r \in Requests, NEW c \in Channels, ReconcileLive(r, c) PROVE CancelInv'
  BY <1>5 DEF ReconcileLive
<1>6. ASSUME NEW r \in Requests, Get(r) PROVE CancelInv'
  BY <1>6 DEF Get
<1>7. ASSUME NEW r \in Requests, Finish(r) PROVE CancelInv'
  BY <1>7 DEF Finish
<1>8. CASE UNCHANGED vars
  BY <1>8 DEF vars
<1> HIDE DEF CancelInv, ThreadsInv
<1>9. QED  BY <1>1, <1>2, <1>3, <1>4, <1>5, <1>6, <1>7, <1>8, CancelWork DEF Next

\* A row never says cancelled of a job that was not alive when somebody asked:
\* start clears the event of an earlier cancel (GeocodeJobManager.cancel, start).
THEOREM CancelsWereAsked == Spec => []CancelledWasAsked
<1>1. Init => CancelInv
  BY DEF Init, CancelInv, CancelledWasAsked
<1>2. CancelInv => CancelledWasAsked
  BY DEF CancelInv
<1>3. QED  BY <1>1, <1>2, ManagersReportTruly, CancelStep, PTL DEF Spec

-----------------------------------------------------------------------------
\* Every step of a thread keeps StuckInv: who ends a geocode job reports it.
LEMMA StuckWork == ASSUME ThreadsInv, StuckInv, NEW j \in Jobs, Work(j) PROVE StuckInv'
<1> USE DEF ThreadsInv, TypeOK, StuckInv
<1>1. CASE Prepare(j)
  BY <1>1 DEF Prepare
<1>2. ASSUME NEW s \in {"completed", "failed"}, IngestEnds(j, s) PROVE StuckInv'
  BY <1>2 DEF IngestEnds
<1>3. CASE IngestSaves(j)
  BY <1>3 DEF IngestSaves
<1>4. CASE GeocodeReturns(j)
  BY <1>4 DEF GeocodeReturns
<1>5. CASE GeocodeFails(j)
  BY <1>5 DEF GeocodeFails
<1>6. CASE GeocodeSavesFailure(j)
  BY <1>6 DEF GeocodeSavesFailure
<1>7. CASE ThreadEnds(j)
  BY <1>7 DEF ThreadEnds
<1> HIDE DEF StuckInv
<1>8. QED  BY <1>1, <1>2, <1>3, <1>4, <1>5, <1>6, <1>7 DEF Work

\* Every step keeps StuckInv.
LEMMA StuckStep == ASSUME ThreadsInv, PlacesInv, StuckInv, [Next]_vars PROVE StuckInv'
<1> USE DEF ThreadsInv, TypeOK, StuckInv
<1>1. ASSUME NEW j \in Jobs, Start(j) PROVE StuckInv'
  BY <1>1 DEF Start, PlacesInv
<1>2. ASSUME NEW c \in Channels, StartFails(c) PROVE StuckInv'
  BY <1>2 DEF StartFails
<1>3. CASE Cancel
  BY <1>3 DEF Cancel
<1>4. CASE ServerDies
  BY <1>4 DEF ServerDies
<1>5. ASSUME NEW r \in Requests, NEW c \in Channels, ReconcileLive(r, c) PROVE StuckInv'
  BY <1>5 DEF ReconcileLive
<1>6. ASSUME NEW r \in Requests, Get(r) PROVE StuckInv'
  BY <1>6 DEF Get
<1>7. ASSUME NEW r \in Requests, Finish(r) PROVE StuckInv'
  BY <1>7 DEF Finish
<1>8. CASE UNCHANGED vars
  BY <1>8 DEF vars
<1> HIDE DEF StuckInv, ThreadsInv
<1>9. QED  BY <1>1, <1>2, <1>3, <1>4, <1>5, <1>6, <1>7, <1>8, StuckWork DEF Next

\* Geocoding that is reported as running without a thread died before its try
\* block: nothing has said how it ended and its row is open (geocode_is_running).
THEOREM StuckWasUnprepared == Spec => []StuckIsUnprepared
<1>1. Init => VerdictInv /\ StuckInv
  BY DEF Init, VerdictInv, PlacesInv, CarriesTrueVerdicts, StuckInv
<1>2. VerdictInv => PlacesInv
  BY DEF VerdictInv
<1>3. StuckInv => StuckIsUnprepared
  BY DEF StuckInv, StuckIsUnprepared
<1>4. QED  BY <1>1, <1>2, <1>3, ManagersReportTruly, VerdictStep, StuckStep, PTL DEF Spec
=============================================================================
