------------------------- MODULE InventoryRunsProofs -------------------------
(***************************************************************************)
(* Proofs about InventoryRuns, for any number of ingests, any of them      *)
(* dealer refreshes, any finite set of vins and any set of series.         *)
(*                                                                         *)
(* The locks of the statements give one strengthening, SerialInv: at most  *)
(* one transaction has touched the pointers, and while it holds what it    *)
(* has read to rebuild them nobody saves a page.  Settled and NeverShrinks *)
(* follow from it and from FullestIsFullest, that the query really finds a *)
(* run that no other exceeds.                                              *)
(***************************************************************************)
EXTENDS InventoryRuns, FiniteSetTheorems, TLAPS

USE RunsAssumption DEF Runs, NoRun

-----------------------------------------------------------------------------
(* Sets of natural numbers.                                                *)

\* Natural numbers are well-founded.
LEMMA LeastNatural ==
  ASSUME NEW T \in SUBSET Nat, T # {}
  PROVE  \E m \in T : \A n \in T : m <= n
<1> DEFINE R == {ss \in Nat \X Nat : ss[1] < ss[2]}
<1>1. PICK m \in T : \A n \in T : <<n, m>> \notin R
  <2>1. IsWellFoundedOn(R, Nat)
    BY NatLessThanWellFounded, Zenon DEF OpToRel
  <2> HIDE DEF R
  <2>2. QED  BY <2>1, WFMin
<1>2. ASSUME NEW n \in T PROVE m <= n
  <2>1. n \in Nat /\ m \in Nat
    OBVIOUS
  <2>2. <<n, m>> \in Nat \X Nat /\ <<n, m>>[1] = n /\ <<n, m>>[2] = m
    BY <2>1
  <2>3. ~(n < m)
    BY <1>1, <2>2
  <2>4. QED  BY <2>1, <2>3
<1> HIDE DEF R
<1>3. QED  BY <1>2

\* A bounded set of natural numbers has a maximum.
LEMMA GreatestNatural ==
  ASSUME NEW T \in SUBSET Nat, T # {}, NEW b \in Nat, \A n \in T : n <= b
  PROVE  \E m \in T : \A n \in T : n <= m
<1> DEFINE D == {d \in Nat : b - d \in T}
<1>1. PICK d \in D : \A e \in D : d <= e
  <2>1. PICK t \in T : TRUE
    OBVIOUS
  <2>2. D \in SUBSET Nat /\ b - t \in D
    BY <2>1
  <2> HIDE DEF D
  <2>3. QED  BY <2>2, LeastNatural
<1>2. b - d \in T /\ d \in Nat
  OBVIOUS
<1>3. ASSUME NEW n \in T PROVE n <= b - d
  <2>1. n \in Nat /\ b - n \in Nat /\ b - (b - n) = n
    OBVIOUS
  <2>2. d <= b - n
    BY <1>1, <2>1
  <2>3. QED  BY <1>2, <2>1, <2>2
<1>4. QED  BY <1>2, <1>3

-----------------------------------------------------------------------------
(* The fullest run of a series.                                            *)

\* A run has no more vehicles of a series than there are vehicles.
LEMMA CountType ==
  ASSUME NEW runs \in [Runs -> SUBSET Vins], NEW q \in Runs, NEW s, NEW so
  PROVE  Count(s, q, runs, so) \in Nat /\ Count(s, q, runs, so) <= Cardinality(Vins)
<1>1. {v \in runs[q] : so[v] = s} \subseteq Vins
  OBVIOUS
<1>2. QED  BY <1>1, FS_Subset, FS_CardinalityType DEF Count

\* The query for the latest runs finds a run with vehicles of the series if
\* there is one, and none of those it compares has more.
LEMMA FullestIsFullest ==
  ASSUME NEW runs \in [Runs -> SUBSET Vins], NEW so, NEW s, NEW among \in SUBSET Runs,
         NEW p \in among, Count(s, p, runs, so) > 0
  PROVE  /\ Fullest(s, among, runs, so) \in among
         /\ Count(s, p, runs, so) <= Count(s, Fullest(s, among, runs, so), runs, so)
<1> DEFINE C(q)    == Count(s, q, runs, so)
           found   == {q \in among : C(q) > 0}
           Before(x, y) == C(x) > C(y) \/ (C(x) = C(y) /\ x > y)
<1>1. \A q \in found : C(q) \in Nat /\ C(q) <= Cardinality(Vins)
  BY CountType
<1>2. p \in found /\ found \subseteq Runs
  OBVIOUS
<1>3. Cardinality(Vins) \in Nat
  BY FS_CardinalityType
<1>4. Fullest(s, among, runs, so) = CHOOSE q \in found : \A x \in found \ {q} : Before(q, x)
  BY <1>2, Zenon DEF Fullest
<1> HIDE DEF C, found
<1>5. PICK c \in {C(q) : q \in found} : \A n \in {C(q) : q \in found} : n <= c
  <2>1. {C(q) : q \in found} \in SUBSET Nat /\ {C(q) : q \in found} # {}
    BY <1>1, <1>2
  <2>2. \A n \in {C(q) : q \in found} : n <= Cardinality(Vins)
    BY <1>1
  <2>3. QED  BY <1>3, <2>1, <2>2, GreatestNatural
<1>6. PICK q \in {x \in found : C(x) = c} : \A x \in {y \in found : C(y) = c} : x <= q
  <2>1. {x \in found : C(x) = c} \in SUBSET Nat /\ {x \in found : C(x) = c} # {}
    BY <1>2, <1>5
  <2>2. \A x \in {y \in found : C(y) = c} : x <= MaxRun
    BY <1>2
  <2>3. QED  BY <2>1, <2>2, GreatestNatural
<1>7. ASSUME NEW x \in found \ {q} PROVE Before(q, x)
  <2>1. C(q) = c /\ C(x) <= c /\ C(x) \in Nat /\ C(q) \in Nat
    BY <1>1, <1>5, <1>6
  <2>2. C(x) = c => x <= q
    BY <1>6
  <2>3. QED  BY <1>2, <1>6, <2>1, <2>2
<1> DEFINE f == CHOOSE y \in found : \A x \in found \ {y} : Before(y, x)
<1>8. f \in found /\ \A x \in found \ {f} : Before(f, x)
  BY <1>6, <1>7
<1> HIDE DEF f
<1>9. C(p) <= C(f)
  BY <1>1, <1>2, <1>8
<1>10. QED  BY <1>4, <1>8, <1>9 DEF C, found, f

\* It finds no run of a series that none has.
LEMMA FullestType ==
  ASSUME NEW runs \in [Runs -> SUBSET Vins], NEW so, NEW s, NEW among \in SUBSET Runs
  PROVE  Fullest(s, among, runs, so) \in among \cup {NoRun}
<1>1. CASE \E p \in among : Count(s, p, runs, so) > 0
  BY <1>1, FullestIsFullest
<1>2. CASE ~\E p \in among : Count(s, p, runs, so) > 0
  <2>1. {q \in among : Count(s, q, runs, so) > 0} = {}
    BY <1>2
  <2>2. QED  BY <2>1, Zenon DEF Fullest
<1>3. QED  BY <1>1, <1>2

-----------------------------------------------------------------------------
(* The strengthening.                                                      *)

\* Between its transactions an ingest holds nothing, and who is about to
\* commit new pointers has inserted them.
TransactionsInv ==
  \A r \in Runs :
    /\ ~Alive(r) \/ pc[r] \in {"page", "resolve"} => tx[r] = NoTx
    /\ pc[r] = "commit" <=> tx[r].pointers = "inserted"

SerialInv == RunsInv /\ TransactionsInv

\* In the empty database the pointers are right.
LEMMA SerialInit == Init => SerialInv /\ Settled
<1> SUFFICES ASSUME Init PROVE SerialInv /\ Settled
  OBVIOUS
<1> USE DEF Init
<1>1. TypeOK
  <2>1. NoTx \in [rows : SUBSET Vins, moved : [Vins -> Series \cup {NoSeries}],
                  pointers : {"kept", "deleted", "inserted"}, latest : [Series -> Runs \cup {NoRun}]]
    BY DEF NoTx
  <2>2. QED  BY <2>1 DEF TypeOK
<1>2. TransactionsInv /\ RebuildsAreSerial
  BY DEF TransactionsInv, RebuildsAreSerial, Alive, Ended, NoTx
<1>3. ASSUME NEW s \in Series PROVE FullestNow(s) = NoRun
  <2>1. \A q \in Runs : ~(Count(s, q, snap, seriesOf) > 0)
    <3>1. \A q \in Runs : {v \in snap[q] : seriesOf[v] = s} = {}
      OBVIOUS
    <3>2. QED  BY <3>1, FS_EmptySet DEF Count
  <2>2. {q \in Runs : Count(s, q, snap, seriesOf) > 0} = {}
    BY <2>1
  <2>3. QED  BY <2>2, Zenon DEF FullestNow, Fullest
<1>4. QED  BY <1>1, <1>2, <1>3 DEF SerialInv, RunsInv, Settled

-----------------------------------------------------------------------------
(* Every step keeps it.                                                    *)

\* What a transaction would rebuild depends on committed rows and its own.
LEMMA SameSight ==
  ASSUME NEW q, snap' = snap, seriesOf' = seriesOf, tx'[q] = tx[q]
  PROVE  NewPointers(q)' = NewPointers(q)
BY DEF NewPointers, SeenRuns, SeenSeries, Moved

\* Steps that commit nothing: they may touch the pointers when nobody else has.
LEMMA PrivateStep ==
  ASSUME SerialInv, TypeOK', NEW r \in Runs, snap' = snap, seriesOf' = seriesOf,
         \A q \in Runs \ {r} : pc'[q] = pc[q] /\ tx'[q] = tx[q],
         pc'[r] # "commit", tx'[r].pointers # "inserted",
         tx'[r].pointers # "kept" => Alive(r)' /\ Alive(r) /\ PointersFree(r),
         ~Alive(r)' \/ pc'[r] \in {"page", "resolve"} => tx'[r] = NoTx
  PROVE  SerialInv'
<1> USE DEF SerialInv, RunsInv
<1>1. TransactionsInv'
  BY DEF TransactionsInv, Alive
<1>2. ASSUME NEW q \in Runs, tx'[q].pointers # "kept" PROVE Alive(q)' /\ PointersFree(q)'
  BY <1>2 DEF RebuildsAreSerial, PointersFree, Others, Alive
<1>3. ASSUME NEW q \in Runs, pc'[q] = "commit", NEW s \in Series
      PROVE  NewPointers(q)'[s] \in {NoRun, tx'[q].latest[s]}
  BY <1>3, SameSight DEF RebuildsAreSerial
<1>4. QED  BY <1>1, <1>2, <1>3 DEF RebuildsAreSerial

\* A page is saved only while nobody holds what it read to rebuild the pointers.
LEMMA PageStep == ASSUME SerialInv, NEW r \in Runs, PersistPage(r) PROVE SerialInv'
<1> USE DEF SerialInv, RunsInv, PersistPage, At, Bookkeeping
<1>1. TypeOK'
  BY DEF TypeOK, Pages
<1>2. TransactionsInv'
  BY DEF TransactionsInv, Alive
<1>3. \A q \in Runs : pc[q] # "commit"
  BY DEF TransactionsInv, PageFree, NotScanned, Others, Alive, Ended
<1>4. RebuildsAreSerial'
  BY <1>3 DEF RebuildsAreSerial, PointersFree, Others, Alive
<1>5. QED  BY <1>1, <1>2, <1>4

\* The pointers inserted are the fullest runs as the transaction sees them.
LEMMA InsertStep == ASSUME SerialInv, NEW r \in Runs, InsertPointers(r) PROVE SerialInv'
<1> USE DEF SerialInv, RunsInv, At, Goto, Bookkeeping
<1> DEFINE L == [s \in Series |-> IF s \in StillThere(r) THEN latest[s] ELSE NewPointers(r)[s]]
<1>1. /\ pc[r] = "insert" /\ pc' = [pc EXCEPT ![r] = "commit"]
      /\ tx' = [tx EXCEPT ![r].pointers = "inserted", ![r].latest = L]
      /\ UNCHANGED <<seriesOf, snap, latest, failing, prior, carried, orphaned>>
      /\ \A s \in StillThere(r) : NewPointers(r)[s] = NoRun
      /\ PointersFree(r)
  BY DEF InsertPointers
<1>2. L \in [Series -> Runs \cup {NoRun}]
  <2>1. SeenRuns(r) \in [Runs -> SUBSET Vins]
    BY DEF SeenRuns, TypeOK
  <2>2. NewPointers(r) \in [Series -> Runs \cup {NoRun}]
    BY <2>1, FullestType DEF NewPointers
  <2>3. QED  BY <2>2 DEF TypeOK
<1> HIDE DEF L
<1>3. /\ tx'[r] = [tx[r] EXCEPT !.pointers = "inserted", !.latest = L]
      /\ \A q \in Runs \ {r} : tx'[q] = tx[q] /\ pc'[q] = pc[q]
      /\ pc'[r] = "commit"
  BY <1>1 DEF TypeOK
<1>4. /\ tx'[r].rows = tx[r].rows /\ tx'[r].moved = tx[r].moved
      /\ tx'[r].pointers = "inserted" /\ tx'[r].latest = L
  BY <1>3 DEF TypeOK
<1>5. TypeOK'
  <2>1. tx'[r] \in [rows : SUBSET Vins, moved : [Vins -> Series \cup {NoSeries}],
                    pointers : {"kept", "deleted", "inserted"}, latest : [Series -> Runs \cup {NoRun}]]
    BY <1>2, <1>3 DEF TypeOK
  <2>2. QED  BY <1>1, <1>3, <2>1 DEF TypeOK
<1>6. TransactionsInv'
  <2>1. ASSUME NEW q \in Runs \ {r}
        PROVE  /\ ~Alive(q)' \/ pc'[q] \in {"page", "resolve"} => tx'[q] = NoTx
               /\ pc'[q] = "commit" <=> tx'[q].pointers = "inserted"
    BY <1>3 DEF TransactionsInv, Alive, Ended
  <2>2. Alive(r)' /\ pc'[r] = "commit" /\ tx'[r].pointers = "inserted"
    BY <1>3, <1>4 DEF Alive, Ended
  <2>3. QED  BY <2>1, <2>2 DEF TransactionsInv
<1>7. ASSUME NEW q \in Runs, tx'[q].pointers # "kept" PROVE Alive(q)' /\ PointersFree(q)'
  <2>1. Alive(r) /\ \A x \in Runs : Alive(x)' <=> Alive(x)
    BY <1>1, <1>3 DEF Alive, Ended, TypeOK
  <2>2. CASE q = r
    BY <1>1, <1>3, <2>1, <2>2 DEF PointersFree, Others
  <2>3. CASE q # r
    <3>1. tx[q].pointers # "kept" /\ Alive(q)
      BY <1>3, <1>7, <2>3 DEF RebuildsAreSerial
    <3>2. QED  BY <1>1, <2>3, <3>1 DEF PointersFree, Others
  <2>4. QED  BY <2>2, <2>3
<1>8. ASSUME NEW q \in Runs, pc'[q] = "commit", NEW s \in Series
      PROVE  NewPointers(q)'[s] \in {NoRun, tx'[q].latest[s]}
  <2>1. CASE q # r
    BY <1>1, <1>3, <1>8, <2>1, SameSight DEF RebuildsAreSerial
  <2>2. CASE q = r
    <3>1. NewPointers(r)' = NewPointers(r)
      <4>1. SeenRuns(r)' = SeenRuns(r) /\ SeenSeries(r)' = SeenSeries(r)
        <5>1. snap' = snap /\ seriesOf' = seriesOf
          BY <1>1
        <5>2. QED  BY <1>4, <5>1 DEF SeenRuns, SeenSeries, Moved
      <4>2. QED  BY <4>1 DEF NewPointers
    <3>2. QED  BY <1>1, <1>4, <2>2, <3>1 DEF L
  <2>3. QED  BY <2>1, <2>2
<1>9. QED  BY <1>5, <1>6, <1>7, <1>8 DEF RebuildsAreSerial

\* Nobody else is about to commit when pages and pointers become visible.
LEMMA CommitStep == ASSUME SerialInv, NEW r \in Runs, Commit(r) PROVE SerialInv'
<1> USE DEF SerialInv, RunsInv, Commit, At, Goto, Forget
<1>1. TypeOK'
  <2>1. NoTx \in [rows : SUBSET Vins, moved : [Vins -> Series \cup {NoSeries}],
                  pointers : {"kept", "deleted", "inserted"}, latest : [Series -> Runs \cup {NoRun}]]
    BY DEF NoTx
  <2>2. SeenRuns(r) \in [Runs -> SUBSET Vins] /\ SeenSeries(r) \in [Vins -> Series \cup {NoSeries}]
    BY DEF TypeOK, SeenRuns, SeenSeries, Moved
  <2>3. tx[r].latest \in [Series -> Runs \cup {NoRun}]
    BY DEF TypeOK
  <2>4. QED  BY <2>1, <2>2, <2>3 DEF TypeOK, Ended
<1>2. TransactionsInv'
  BY DEF TransactionsInv, Alive, Ended, NoTx, TypeOK
<1>3. \A q \in Runs : pc[q] = "commit" => q = r
  BY DEF RebuildsAreSerial, TransactionsInv, PointersFree, Others, Alive, Ended
<1>4. RebuildsAreSerial'
  <2>1. \A q \in Runs : pc'[q] # "commit"
    BY <1>3 DEF TypeOK
  <2>2. \A q \in Runs \ {r} : tx'[q] = tx[q] /\ pc'[q] = pc[q]
    BY DEF TypeOK
  <2>3. tx'[r].pointers = "kept"
    BY DEF NoTx, TypeOK
  <2>4. QED  BY <2>1, <2>2, <2>3 DEF RebuildsAreSerial, PointersFree, Others, Alive
<1>5. QED  BY <1>1, <1>2, <1>4

\* All other steps are private.
LEMMA SerialStep == ASSUME SerialInv, [Next]_vars PROVE SerialInv'
<1>1. CASE UNCHANGED vars
  <2>1. TypeOK' /\ TransactionsInv'
    BY <1>1 DEF vars, SerialInv, RunsInv, TypeOK, TransactionsInv, Alive
  <2>2. \A q \in Runs : NewPointers(q)' = NewPointers(q)
    BY <1>1, SameSight DEF vars
  <2>3. RebuildsAreSerial'
    BY <1>1, <2>2 DEF vars, SerialInv, RunsInv, RebuildsAreSerial, PointersFree, Others, Alive
  <2>4. QED  BY <2>1, <2>3 DEF SerialInv, RunsInv
<1>2. ASSUME NEW r \in Runs, Ingest(r) \/ Finalize(r) \/ Failure(r) PROVE SerialInv'
  <2> DEFINE Tx == [rows : SUBSET Vins, moved : [Vins -> Series \cup {NoSeries}],
                    pointers : {"kept", "deleted", "inserted"}, latest : [Series -> Runs \cup {NoRun}]]
  <2>0. NoTx \in Tx /\ NoTx.pointers = "kept" /\ tx[r] \in Tx /\ TypeOK
    BY DEF NoTx, SerialInv, RunsInv, TypeOK
  <2>a. tx = [tx EXCEPT ![r] = tx[r]] /\ tx \in [Runs -> Tx]
    BY DEF SerialInv, RunsInv, TypeOK
  <2>1. Alive(r) <=> pc[r] \in {"page", "resolve", "copy", "delete", "insert", "commit"}
    BY <2>0 DEF TypeOK, Alive, Ended
  <2>2. /\ ~Alive(r) \/ pc[r] \in {"page", "resolve"} => tx[r] = NoTx
        /\ pc[r] = "commit" <=> tx[r].pointers = "inserted"
        /\ tx[r].pointers # "kept" => PointersFree(r)
    BY DEF SerialInv, RunsInv, TransactionsInv, RebuildsAreSerial
  \* What remains to be shown of a step that commits nothing.
  <2>3. ASSUME NEW t \in Tx, NEW at \in {"page", "resolve", "copy", "delete", "insert"} \cup Ended,
               tx' = [tx EXCEPT ![r] = t], pc' = [pc EXCEPT ![r] = at],
               UNCHANGED <<seriesOf, snap, latest>>,
               failing' \in [Runs -> BOOLEAN], prior' \in [Runs -> [Series -> Runs \cup {NoRun}]],
               carried' \in [Runs -> SUBSET Vins], orphaned' \in BOOLEAN,
               t.pointers # "inserted",
               t.pointers # "kept" => Alive(r) /\ PointersFree(r),
               at \in {"page", "resolve"} \cup Ended => t = NoTx
        PROVE  SerialInv'
    <3>1. TypeOK'
      BY <2>0, <2>3 DEF TypeOK
    <3>2. /\ tx'[r] = t /\ pc'[r] = at
          /\ \A q \in Runs \ {r} : pc'[q] = pc[q] /\ tx'[q] = tx[q]
      BY <2>0, <2>3 DEF TypeOK
    <3>3. Alive(r)' <=> at \notin Ended
      BY <3>2 DEF Alive, Ended
    <3> HIDE DEF Tx
    <3>4. QED  BY <2>0, <2>3, <3>1, <3>2, <3>3, PrivateStep DEF Ended
  <2> USE DEF At, Goto, Bookkeeping, Forget
  <2> HIDE DEF Tx
  <2>4. CASE Ingest(r)
    <3>1. CASE CreateRun(r)
      BY <2>0, <2>1, <2>2, <2>3, <3>1 DEF CreateRun, TypeOK
    <3>2. CASE PageFails(r)
      <4>0. PICK p \in Pages(r) \cup {{}} : \E to \in [p -> Series] :
              tx' = [tx EXCEPT ![r].rows = p,
                               ![r].moved = [v \in Vins |-> IF v \in p THEN to[v] ELSE NoSeries]]
        BY <3>2, Zenon DEF PageFails
      <4>1. PICK to \in [p -> Series] :
              tx' = [tx EXCEPT ![r].rows = p,
                               ![r].moved = [v \in Vins |-> IF v \in p THEN to[v] ELSE NoSeries]]
        BY <4>0
      <4> DEFINE m == [v \in Vins |-> IF v \in p THEN to[v] ELSE NoSeries]
      <4>2. p \in SUBSET Vins /\ m \in [Vins -> Series \cup {NoSeries}]
        BY DEF Pages
      <4> HIDE DEF m
      <4> DEFINE t == [tx[r] EXCEPT !.rows = p, !.moved = m]
      <4>3. t \in Tx /\ t.pointers = tx[r].pointers
        BY <2>0, <4>2 DEF Tx
      <4>4. tx' = [tx EXCEPT ![r] = t]
        BY <4>1 DEF m
      <4> HIDE DEF t
      <4>5. QED  BY <2>0, <2>1, <2>2, <2>3, <3>2, <4>3, <4>4 DEF PageFails, TypeOK, Ended
    <3>3. CASE PagesDone(r)
      BY <2>0, <2>1, <2>2, <2>3, <3>3 DEF PagesDone, TypeOK
    <3>4. QED  BY <2>4, <3>1, <3>2, <3>3, PageStep DEF Ingest
  <2>5. CASE Finalize(r)
    <3>1. CASE Resolve(r)
      <4>1. [s \in Series |-> Fullest(s, Runs \ {r}, snap, seriesOf)] \in [Series -> Runs \cup {NoRun}]
        BY <2>0, FullestType DEF TypeOK
      <4>2. prior' \in [Runs -> [Series -> Runs \cup {NoRun}]]
        BY <2>0, <3>1, <4>1 DEF Resolve, TypeOK
      <4>3. tx' = [tx EXCEPT ![r] = tx[r]] /\ tx[r] = NoTx
        BY <2>a, <2>2, <3>1 DEF Resolve
      <4>4. /\ pc[r] = "resolve" /\ pc' = [pc EXCEPT ![r] = "copy"]
            /\ UNCHANGED <<seriesOf, snap, latest, failing, orphaned>>
            /\ carried' = [carried EXCEPT ![r] = {}]
        BY <3>1 DEF Resolve
      <4>5. QED  BY <2>0, <2>1, <2>2, <2>3, <4>2, <4>3, <4>4 DEF TypeOK, Ended
    <3>2. ASSUME NEW s \in Series, CopySeries(r, s) PROVE SerialInv'
      <4> DEFINE missing == {v \in snap[prior[r][s]] : seriesOf[v] = s} \ (snap[r] \cup tx[r].rows)
                 t       == [tx[r] EXCEPT !.rows = @ \cup missing]
      <4>1. /\ pc[r] = "copy" /\ prior[r][s] # NoRun
            /\ tx' = [tx EXCEPT ![r].rows = @ \cup missing]
            /\ carried' = [carried EXCEPT ![r] = @ \cup missing]
            /\ prior' = [prior EXCEPT ![r][s] = NoRun]
            /\ UNCHANGED <<seriesOf, snap, latest, pc, failing, orphaned>>
        BY <3>2 DEF CopySeries
      <4>2. missing \in SUBSET Vins
        BY <2>0, <4>1 DEF TypeOK
      <4> HIDE DEF missing
      <4>3. t \in Tx /\ t.pointers = tx[r].pointers
        BY <2>0, <4>2 DEF Tx
      <4>4. tx' = [tx EXCEPT ![r] = t]
        BY <4>1
      <4> HIDE DEF t
      <4>5. prior' \in [Runs -> [Series -> Runs \cup {NoRun}]] /\ carried' \in [Runs -> SUBSET Vins]
        BY <2>0, <4>1, <4>2 DEF TypeOK
      <4>6. pc' = [pc EXCEPT ![r] = "copy"]
        BY <2>0, <4>1 DEF TypeOK
      <4>7. QED  BY <2>0, <2>1, <2>2, <2>3, <4>1, <4>3, <4>4, <4>5, <4>6 DEF TypeOK, Ended
    <3>3. CASE CopyDone(r)
      BY <2>0, <2>a, <2>1, <2>2, <2>3, <3>3 DEF CopyDone, TypeOK, Ended
    <3>4. CASE DeletePointers(r)
      <4> DEFINE t == [tx[r] EXCEPT !.pointers = "deleted"]
      <4>1. t \in Tx /\ t.pointers = "deleted"
        BY <2>0 DEF Tx
      <4>2. tx' = [tx EXCEPT ![r] = t]
        BY <3>4 DEF DeletePointers
      <4> HIDE DEF t
      <4>3. QED  BY <2>0, <2>1, <2>2, <2>3, <3>4, <4>1, <4>2 DEF DeletePointers, TypeOK, Ended
    <3>5. QED  BY <2>5, <3>1, <3>2, <3>3, <3>4, InsertStep, CommitStep DEF Finalize
  <2>6. CASE Failure(r)
    <3>1. CASE DeadlockStatement(r)
      <4>1. pc[r] \in {"copy", "delete", "insert"} /\ pc' = [pc EXCEPT ![r] = pc[r]]
        BY <2>0, <3>1 DEF DeadlockStatement, Finalizing, TypeOK
      <4>2. QED  BY <2>0, <2>1, <2>2, <2>3, <3>1, <4>1 DEF DeadlockStatement, TypeOK, Ended
    <3>2. CASE DeadlockUnit(r)
      BY <2>0, <2>1, <2>2, <2>3, <3>2 DEF DeadlockUnit, Finalizing, TypeOK
    <3>3. CASE StatementFails(r)
      <4>1. PICK t \in {NoTx, tx[r]} : tx' = [tx EXCEPT ![r] = t]
        BY <2>a, <3>3 DEF StatementFails
      <4>2. QED  BY <2>0, <2>1, <2>2, <2>3, <3>3, <4>1 DEF StatementFails, Finalizing, TypeOK, Ended
    <3>4. CASE RepairFails(r)
      BY <2>0, <2>1, <2>2, <2>3, <3>4 DEF RepairFails, Finalizing, TypeOK, Ended
    <3>5. CASE Kill(r)
      BY <2>0, <2>1, <2>2, <2>3, <3>5 DEF Kill, TypeOK, Ended
    <3>6. QED  BY <2>6, <3>1, <3>2, <3>3, <3>4, <3>5 DEF Failure
  <2>7. QED  BY <1>2, <2>4, <2>5, <2>6
<1>3. QED  BY <1>1, <1>2 DEF Next

-----------------------------------------------------------------------------
(* The theorems.                                                           *)

\* Two ingests never rebuild the pointers at the same time, and the pointers
\* one is about to commit are still the fullest runs: the locks of the DELETE
\* and of the INSERT ... SELECT in _rebuild_series_latest_runs suffice.
THEOREM SerialRebuilds == Spec => []RunsInv
<1>1. Spec => []SerialInv
  BY SerialInit, SerialStep, PTL DEF Spec
<1>2. SerialInv => RunsInv
  BY DEF SerialInv
<1>3. QED  BY <1>1, <1>2, PTL

\* A step that leaves no ingest behind that is yet to rebuild the pointers
\* has rebuilt them itself.
LEMMA SettledStep == ASSUME SerialInv, Settled, [Next]_vars PROVE Settled'
<1>1. CASE UNCHANGED vars
  BY <1>1 DEF vars, Settled, FullestNow, Alive
<1>2. ASSUME NEW r \in Runs, Ingest(r) \/ Finalize(r) \/ Failure(r) PROVE Settled'
  <2> USE DEF At, Goto, Settled, SerialInv, RunsInv
  <2>1. CASE Commit(r)
    <3>1. pc[r] = "commit" /\ snap' = SeenRuns(r) /\ seriesOf' = SeenSeries(r) /\ latest' = tx[r].latest
      BY <2>1 DEF Commit
    <3>2. \A s \in Series : FullestNow(s)' = NewPointers(r)[s]
      BY <3>1 DEF FullestNow, NewPointers
    <3>3. QED  BY <3>1, <3>2 DEF RebuildsAreSerial
  <2>2. CASE RepairFails(r) \/ Kill(r)
    BY <2>2 DEF RepairFails, Kill
  <2>3. CASE CreateRun(r) \/ PersistPage(r) \/ PageFails(r) \/ PagesDone(r)
    BY <2>3 DEF CreateRun, PersistPage, PageFails, PagesDone, Alive, Ended, TypeOK
  <2>4. CASE Resolve(r) \/ (\E s \in Series : CopySeries(r, s)) \/ CopyDone(r)
    BY <2>4 DEF Resolve, CopySeries, CopyDone, Alive, Ended, TypeOK
  <2>5. CASE DeletePointers(r) \/ InsertPointers(r)
    BY <2>5 DEF DeletePointers, InsertPointers, Alive, Ended, TypeOK
  <2>6. CASE DeadlockStatement(r) \/ DeadlockUnit(r) \/ StatementFails(r)
    BY <2>6 DEF DeadlockStatement, DeadlockUnit, StatementFails, Finalizing, Alive, Ended, TypeOK
  <2> HIDE DEF Settled
  <2>7. QED  BY <1>2, <2>1, <2>2, <2>3, <2>4, <2>5, <2>6 DEF Ingest, Finalize, Failure
<1>3. QED  BY <1>1, <1>2 DEF Next

\* When no ingest is active the pointers are right, whatever ran before and
\* however it overlapped or failed, unless an ingest died after the last
\* rebuild: who saved pages rebuilds the pointers after them.
THEOREM SettledPointers == Spec => []Settled
<1>1. Spec => [](SerialInv /\ Settled)
  BY SerialInit, SerialStep, SettledStep, PTL DEF Spec
<1>2. QED  BY <1>1, PTL

\* A step that leaves the vehicles shown in their series shows no fewer.
LEMMA NoStepShrinks ==
  ASSUME SerialInv, [Next]_vars, NEW s \in Series, \A v \in Shown(s) : seriesOf'[v] = s
  PROVE  Cardinality(Shown(s)') >= Cardinality(Shown(s))
<1> USE DEF SerialInv, RunsInv
<1>1. Shown(s) \subseteq Vins /\ Shown(s)' \subseteq Vins
  <2>1. TypeOK'
    BY SerialStep
  <2>2. QED  BY <2>1 DEF Shown, TypeOK
<1>2. /\ IsFiniteSet(Shown(s)) /\ Cardinality(Shown(s)) \in Nat
      /\ IsFiniteSet(Shown(s)') /\ Cardinality(Shown(s)') \in Nat
  BY <1>1, FS_Subset, FS_CardinalityType
<1>3. CASE Shown(s) \subseteq Shown(s)'
  BY <1>2, <1>3, FS_Subset
<1>4. ASSUME NEW r \in Runs, PersistPage(r) PROVE Shown(s) \subseteq Shown(s)'
  <2>1. latest' = latest /\ \A q \in Runs : snap[q] \subseteq snap'[q]
    BY <1>4 DEF PersistPage, TypeOK
  <2>2. latest[s] \in Runs \cup {NoRun}
    BY DEF TypeOK
  <2>3. QED  BY <2>1, <2>2 DEF Shown
<1>5. ASSUME NEW r \in Runs, Commit(r), Shown(s) # {} PROVE Cardinality(Shown(s)') >= Cardinality(Shown(s))
  <2> DEFINE q == latest[s]
             f == NewPointers(r)[s]
             C(x) == Count(s, x, SeenRuns(r), SeenSeries(r))
  <2>1. /\ pc[r] = "commit" /\ snap' = SeenRuns(r) /\ seriesOf' = SeenSeries(r) /\ latest' = tx[r].latest
    BY <1>5 DEF Commit, At
  <2>2. SeenRuns(r) \in [Runs -> SUBSET Vins] /\ \A x \in Runs : snap[x] \subseteq SeenRuns(r)[x]
    BY DEF SeenRuns, TypeOK
  <2>3. q \in Runs /\ Shown(s) = {v \in snap[q] : seriesOf[v] = s}
    BY <1>5 DEF Shown, TypeOK
  <2>4. Shown(s) \subseteq {v \in SeenRuns(r)[q] : SeenSeries(r)[v] = s}
    BY <2>1, <2>2, <2>3
  <2>5. \A x \in Runs : IsFiniteSet({v \in SeenRuns(r)[x] : SeenSeries(r)[v] = s})
    <3>1. \A x \in Runs : {v \in SeenRuns(r)[x] : SeenSeries(r)[v] = s} \subseteq Vins
      BY <2>2
    <3>2. QED  BY <3>1, FS_Subset
  <2>6. C(q) >= Cardinality(Shown(s)) /\ C(q) \in Nat
    BY <2>3, <2>4, <2>5, FS_Subset, FS_CardinalityType DEF Count
  <2>7. Cardinality(Shown(s)) > 0
    BY <1>2, <1>5, FS_EmptySet
  <2>8. f \in Runs /\ C(q) <= C(f) /\ C(f) \in Nat
    <3>1. C(q) > 0
      BY <1>2, <2>6, <2>7
    <3> HIDE DEF q
    <3>2. QED  BY <2>2, <2>3, <3>1, FullestIsFullest, CountType DEF NewPointers
  <2>9. latest'[s] = f
    BY <2>1, <2>8 DEF RebuildsAreSerial
  <2>10. Shown(s)' = {v \in SeenRuns(r)[f] : SeenSeries(r)[v] = s}
    BY <2>1, <2>8, <2>9 DEF Shown
  <2>11. Cardinality(Shown(s)') = C(f)
    BY <2>10 DEF Count
  <2> HIDE DEF f, C
  <2>12. QED  BY <1>2, <2>6, <2>8, <2>11
<1>6. CASE UNCHANGED <<seriesOf, snap, latest>>
  BY <1>3, <1>6 DEF Shown
<1>7. CASE Shown(s) = {}
  BY <1>3, <1>7
<1>8. QED
  BY <1>3, <1>4, <1>5, <1>6, <1>7
  DEF Next, vars, Ingest, Finalize, Failure, CreateRun, PageFails, PagesDone, Resolve, CopySeries, CopyDone,
      DeletePointers, InsertPointers, DeadlockStatement, DeadlockUnit, StatementFails, RepairFails, Kill

\* The inventory pages of a series never lose vehicles that are still of that
\* series: no reader sees the pointers deleted, and a new pointer never names
\* a run with fewer of them.
THEOREM InventoryNeverShrinks == Spec => NeverShrinks
<1>1. SerialInv /\ [Next]_vars =>
        [\A s \in Series :
           (\A v \in Shown(s) : seriesOf'[v] = s) => Cardinality(Shown(s)') >= Cardinality(Shown(s))]_vars
  BY NoStepShrinks
<1>2. QED  BY <1>1, SerialInit, SerialStep, PTL DEF Spec, NeverShrinks

=============================================================================
