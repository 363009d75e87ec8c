---------------------------- MODULE MazdaPagesProofs ----------------------------
(***************************************************************************)
(* Proofs about MazdaPages, for every number of dealers, VINs, carlines,   *)
(* ZIPs, page sizes and rows: the walk reads all that is listed if nothing *)
(* disturbs it, keeps to its announcement, and reports what is true.       *)
(*                                                                         *)
(* The listing is defined by rank: the row with k rows ahead of it is row  *)
(* k + 1.  Ranks are a bijection (Ranks), so every row is listed once      *)
(* (ListingHasAll), a page with rows behind it is full (PageFull), and the *)
(* pages up to a page that is not cover the listing (PagesCover).  What    *)
(* remains is that no stopping condition holds at a full page (StopsAtEnd) *)
(* and that the seen VINs are those of the pages read (WalkInv).           *)
(***************************************************************************)
EXTENDS MazdaPages, FiniteSetTheorems, FunctionTheorems, SequenceTheorems, TLAPS

-----------------------------------------------------------------------------
(* Arithmetic.                                                             *)

\* Products grow with their factors.
LEMMA Times ==
  ASSUME NEW d \in Nat, NEW x \in Nat, NEW y \in Nat, x <= y
  PROVE  d * x \in Nat /\ d * y \in Nat /\ d * x <= d * y
<1>1. PICK k \in Nat : y = x + k
  <2>1. y - x \in Nat /\ y = x + (y - x)
    OBVIOUS
  <2>2. QED  BY <2>1
<1>2. d * y = d * x + d * k /\ d * k \in Nat /\ d * x \in Nat
  BY <1>1
<1>3. QED  BY <1>2

\* What rounding down means.
LEMMA Floor ==
  ASSUME NEW a \in Nat, NEW d \in Nat \ {0}
  PROVE  /\ a \div d \in Nat /\ d * (a \div d) <= a /\ a < d * ((a \div d) + 1)
         /\ \A q \in Nat : a < d * (q + 1) => a \div d <= q
         /\ \A q \in Nat : d * q <= a => q <= a \div d
<1>1. a \div d \in Nat /\ a = d * (a \div d) + (a % d) /\ a % d \in 0 .. d - 1
  OBVIOUS
<1>2. PICK p \in Nat, r \in 0 .. d - 1 : a \div d = p /\ a = d * p + r
  BY <1>1, Zenon
<1>3. d * p \in Nat /\ d * (p + 1) = d * p + d
  OBVIOUS
<1>4. ASSUME NEW q \in Nat, a < d * (q + 1) PROVE p <= q
  <2>1. SUFFICES ASSUME q + 1 <= p PROVE FALSE
    OBVIOUS
  <2>2. d * (q + 1) <= d * p /\ d * (q + 1) \in Nat
    BY <2>1, Times
  <2>3. QED  BY <1>2, <1>3, <1>4, <2>2
<1>5. ASSUME NEW q \in Nat, d * q <= a PROVE q <= p
  <2>1. SUFFICES ASSUME p + 1 <= q PROVE FALSE
    OBVIOUS
  <2>2. d * (p + 1) <= d * q /\ d * q \in Nat
    BY <2>1, Times
  <2>3. QED  BY <1>2, <1>3, <1>5, <2>2
<1>6. QED  BY <1>2, <1>3, <1>4, <1>5

\* Quotients grow with the dividend.
LEMMA FloorGrows ==
  ASSUME NEW a \in Nat, NEW b \in Nat, NEW d \in Nat \ {0}, a <= b
  PROVE  a \div d <= b \div d
<1>1. d * (a \div d) <= a /\ a \div d \in Nat
  BY Floor
<1>2. PICK q \in Nat : q = a \div d
  BY <1>1
<1>3. d * q \in Nat
  OBVIOUS
<1>4. d * q <= b
  BY <1>1, <1>2, <1>3
<1>5. QED  BY <1>2, <1>4, Floor

\* A common factor does not matter.
LEMMA FloorCancels ==
  ASSUME NEW a \in Nat, NEW d \in Nat \ {0}, NEW n \in Nat \ {0}
  PROVE  (a * n) \div (d * n) = a \div d
<1>1. PICK q \in Nat : q = a \div d /\ d * q <= a /\ a < d * (q + 1)
  BY Floor
<1>2. a * n \in Nat /\ d * n \in Nat \ {0} /\ d * q \in Nat /\ d * (q + 1) \in Nat
  OBVIOUS
<1>3. (d * n) * q <= a * n
  <2>1. n * (d * q) <= n * a
    BY <1>1, <1>2, Times
  <2>2. n * (d * q) = (d * n) * q /\ n * a = a * n
    OBVIOUS
  <2>3. QED  BY <2>1, <2>2
<1>4. a * n < (d * n) * (q + 1)
  <2>1. n * (a + 1) <= n * (d * (q + 1))
    <3>1. a + 1 <= d * (q + 1)
      BY <1>1, <1>2
    <3>2. QED  BY <1>2, <3>1, Times
  <2>2. n * (d * (q + 1)) = (d * n) * (q + 1) /\ n * (a + 1) = a * n + n
    OBVIOUS
  <2>3. QED  BY <1>2, <2>1, <2>2
<1>5. (a * n) \div (d * n) <= q /\ q <= (a * n) \div (d * n) /\ (a * n) \div (d * n) \in Nat
  BY <1>2, <1>3, <1>4, Floor
<1>6. QED  BY <1>1, <1>5

-----------------------------------------------------------------------------
(* The listing: rows in the order of the site.                             *)

\* The rows that the site puts before r.
Before(R, r) == {s \in R : Ahead(s, r)}

\* The site's order is total.
LEMMA SiteOrder ==
  ASSUME NEW r \in Rows, NEW s \in Rows, NEW t \in Rows
  PROVE  /\ ~Ahead(r, r) /\ (Ahead(r, s) /\ Ahead(s, t) => Ahead(r, t))
         /\ r # s => Ahead(r, s) \/ Ahead(s, r)
<1>0. Dealers \subseteq Nat /\ Vins \cup {NoVin} \subseteq Nat
  BY PagesAssumption DEF NoVin
<1>1. \A x \in Rows : x = <<x[1], x[2]>> /\ x[1] \in Nat /\ x[2] \in Nat
  <2>1. \A x \in Rows : x = <<x[1], x[2]>> /\ x[1] \in Dealers /\ x[2] \in Vins \cup {NoVin}
    BY DEF Rows
  <2>2. QED  BY <1>0, <2>1
<1>2. QED  BY <1>1 DEF Ahead

\* Sets of rows are finite.
LEMMA RowsFinite ==
  ASSUME NEW R \in SUBSET Rows
  PROVE  IsFiniteSet(R) /\ Cardinality(R) \in Nat
<1>1. IsFiniteSet(Vins \cup {NoVin})
  BY PagesAssumption, FS_AddElement
<1>2. IsFiniteSet(Rows)
  BY <1>1, PagesAssumption, FS_Product, Zenon DEF Rows
<1>3. QED  BY <1>2, FS_Subset, FS_CardinalityType

\* A row ahead of another has fewer rows before it.
LEMMA BeforeGrows ==
  ASSUME NEW R \in SUBSET Rows, NEW r \in R, NEW s \in R, Ahead(r, s)
  PROVE  Cardinality(Before(R, r)) < Cardinality(Before(R, s))
<1>1. Before(R, r) \in SUBSET Before(R, s) /\ r \in Before(R, s) /\ r \notin Before(R, r)
  BY SiteOrder DEF Before
<1>2. Before(R, s) \in SUBSET Rows /\ Before(R, r) \in SUBSET Rows
  BY DEF Before
<1>3. /\ Cardinality(Before(R, r)) <= Cardinality(Before(R, s))
      /\ Cardinality(Before(R, s)) = Cardinality(Before(R, r)) => Before(R, s) = Before(R, r)
  BY <1>1, <1>2, RowsFinite, FS_Subset, Zenon
<1>4. Cardinality(Before(R, s)) \in Nat /\ Cardinality(Before(R, r)) \in Nat
  BY <1>2, RowsFinite
<1>5. QED  BY <1>1, <1>3, <1>4

\* Every place in the order is some row's, and no two rows have the same.
LEMMA Ranks ==
  ASSUME NEW R \in SUBSET Rows
  PROVE  /\ \A r \in R : Cardinality(Before(R, r)) \in 0 .. Cardinality(R) - 1
         /\ \A r, s \in R : Cardinality(Before(R, r)) = Cardinality(Before(R, s)) => r = s
         /\ \A k \in 0 .. Cardinality(R) - 1 : \E r \in R : Cardinality(Before(R, r)) = k
<1> DEFINE n == Cardinality(R)
           rank == [r \in R |-> Cardinality(Before(R, r))]
<1>1. n \in Nat /\ IsFiniteSet(R)
  BY RowsFinite
<1>2. ASSUME NEW r \in R PROVE Cardinality(Before(R, r)) \in 0 .. n - 1
  <2>1. Before(R, r) \in SUBSET R /\ Before(R, r) # R /\ Before(R, r) \in SUBSET Rows
    BY SiteOrder DEF Before
  <2>2. Cardinality(Before(R, r)) <= n /\ (n = Cardinality(Before(R, r)) => R = Before(R, r))
    BY <1>1, <2>1, FS_Subset, Zenon
  <2>3. Cardinality(Before(R, r)) \in Nat
    BY <2>1, RowsFinite
  <2>4. QED  BY <1>1, <2>1, <2>2, <2>3
<1>3. ASSUME NEW r \in R, NEW s \in R, Cardinality(Before(R, r)) = Cardinality(Before(R, s)) PROVE r = s
  <2>1. Cardinality(Before(R, r)) \in Nat /\ Cardinality(Before(R, s)) \in Nat
    BY <1>1, <1>2
  <2>2. ~Ahead(r, s)
    BY <1>3, <2>1, BeforeGrows
  <2>3. ~Ahead(s, r)
    BY <1>3, <2>1, BeforeGrows
  <2>4. QED  BY <2>2, <2>3, SiteOrder
<1>4. rank \in Injection(R, 0 .. n - 1)
  <2>1. rank \in [R -> 0 .. n - 1]
    BY <1>2
  <2>2. \A a, b \in R : rank[a] = rank[b] => a = b
    BY <1>3
  <2> HIDE DEF rank
  <2>3. QED  BY <2>1, <2>2, Fun_IsInj, Zenon
<1>5. IsFiniteSet(0 .. n - 1) /\ Cardinality(0 .. n - 1) = n
  <2>1. 0 \in Int /\ n - 1 \in Int
    BY <1>1
  <2>2. IsFiniteSet(0 .. n - 1) /\ Cardinality(0 .. n - 1) = IF 0 > n - 1 THEN 0 ELSE n - 1 - 0 + 1
    BY <2>1, FS_Interval, Zenon
  <2>3. QED  BY <1>1, <2>2
<1>6. rank \in Surjection(R, 0 .. n - 1)
  <2> HIDE DEF rank
  <2>1. QED  BY <1>4, <1>5, FS_Injection, Zenon
<1>7. \A k \in 0 .. n - 1 : \E r \in R : rank[r] = k
  <2> HIDE DEF rank
  <2>1. QED  BY <1>6 DEF Surjection
<1>8. QED  BY <1>2, <1>3, <1>7

\* A search answers every row of its dealers once.
LEMMA ListingHasAll ==
  ASSUME NEW c, NEW ds, site[c] \in SUBSET Rows
  PROVE  /\ Listing(c, ds) \in Seq(Rows)
         /\ Range(Listing(c, ds)) = {r \in site[c] : r[1] \in ds}
         /\ Len(Listing(c, ds)) = Cardinality({r \in site[c] : r[1] \in ds})
         /\ \A i, j \in DOMAIN Listing(c, ds) : Listing(c, ds)[i] = Listing(c, ds)[j] => i = j
<1> DEFINE R == {r \in site[c] : r[1] \in ds}
           L == [i \in 1 .. Cardinality(R) |-> CHOOSE r \in R : Cardinality(Before(R, r)) = i - 1]
<1>1. R \in SUBSET Rows /\ Cardinality(R) \in Nat
  BY RowsFinite
<1>2. Listing(c, ds) = L
  BY DEF Listing, Before
<1> HIDE DEF R
<1>3. ASSUME NEW i \in 1 .. Cardinality(R) PROVE L[i] \in R /\ Cardinality(Before(R, L[i])) = i - 1
  <2>1. i - 1 \in 0 .. Cardinality(R) - 1
    BY <1>1
  <2>2. \E r \in R : Cardinality(Before(R, r)) = i - 1
    BY <1>1, <2>1, Ranks
  <2>3. QED  BY <2>2
<1>4. DOMAIN L = 1 .. Cardinality(R)
  OBVIOUS
<1> HIDE DEF L
<1>5. L \in Seq(R) /\ Len(L) = Cardinality(R)
  <2>1. L \in [1 .. Cardinality(R) -> R]
    <3>1. L = [i \in 1 .. Cardinality(R) |-> L[i]]
      BY DEF L
    <3>2. QED  BY <1>3, <3>1
  <2>2. QED  BY <1>1, <2>1
<1>6. R \subseteq Range(L)
  <2>1. SUFFICES ASSUME NEW r \in R PROVE r \in Range(L)
    OBVIOUS
  <2>2. PICK k \in 0 .. Cardinality(R) - 1 : k = Cardinality(Before(R, r))
    BY <1>1, Ranks
  <2>3. k + 1 \in 1 .. Cardinality(R) /\ k + 1 - 1 = k
    BY <1>1
  <2>4. L[k + 1] \in R /\ Cardinality(Before(R, L[k + 1])) = k
    BY <1>3, <2>3
  <2>5. L[k + 1] = r
    BY <1>1, <2>2, <2>4, Ranks
  <2>6. QED  BY <1>4, <2>3, <2>5 DEF Range
<1>7. Range(L) \subseteq R
  BY <1>3, <1>4 DEF Range
<1>8. ASSUME NEW i \in DOMAIN L, NEW j \in DOMAIN L, L[i] = L[j] PROVE i = j
  <2>1. i - 1 = j - 1
    BY <1>3, <1>4, <1>8
  <2>2. QED  BY <1>4, <2>1
<1>9. L \in Seq(Rows)
  BY <1>1, <1>5
<1>10. Listing(c, ds) \in Seq(Rows) /\ Range(Listing(c, ds)) = R /\ Len(Listing(c, ds)) = Cardinality(R)
  BY <1>2, <1>5, <1>6, <1>7, <1>9
<1>11. QED  BY <1>2, <1>8, <1>10 DEF R

\* So many numbers follow b.
LEMMA Stretch ==
  ASSUME NEW b \in Nat, NEW n \in Nat
  PROVE  IsFiniteSet(b + 1 .. b + n) /\ Cardinality(b + 1 .. b + n) = n
<1>1. PICK x \in Int : x = b + 1
  OBVIOUS
<1>2. PICK y \in Int : y = b + n
  OBVIOUS
<1>3. IsFiniteSet(x .. y) /\ Cardinality(x .. y) = IF x > y THEN 0 ELSE y - x + 1
  BY FS_Interval
<1>4. QED  BY <1>1, <1>2, <1>3

\* A page holds PageSize rows at most.
LEMMA PageBound ==
  ASSUME NEW list \in Seq(Rows), NEW no \in Nat \ {0}
  PROVE  /\ PageOf(list, no) \subseteq Rows /\ IsFiniteSet(PageOf(list, no))
         /\ Cardinality(PageOf(list, no)) \in Nat /\ Cardinality(PageOf(list, no)) <= PageSize
<1>1. PICK b \in Nat : b = (no - 1) * PageSize /\ no * PageSize = b + PageSize
  <2>1. PICK m \in Nat : no = m + 1
    <3>1. no - 1 \in Nat /\ no = (no - 1) + 1
      OBVIOUS
    <3>2. QED  BY <3>1
  <2>2. m * PageSize \in Nat /\ (m + 1) * PageSize = m * PageSize + PageSize /\ no - 1 = m
    BY <2>1, PagesAssumption
  <2>3. QED  BY <2>1, <2>2
<1> DEFINE I == {i \in DOMAIN list : b < i /\ i <= b + PageSize}
           f == [i \in I |-> list[i]]
<1>2. PageOf(list, no) = {list[i] : i \in I} /\ PageSize \in Nat
  BY <1>1, PagesAssumption DEF PageOf
<1>3. IsFiniteSet(b + 1 .. b + PageSize) /\ Cardinality(b + 1 .. b + PageSize) = PageSize
  BY <1>2, Stretch
<1>4. I \in SUBSET (b + 1 .. b + PageSize)
  BY <1>2
<1>5. IsFiniteSet(I) /\ Cardinality(I) <= PageSize /\ Cardinality(I) \in Nat
  <2> HIDE DEF I
  <2>1. IsFiniteSet(I) /\ Cardinality(I) <= Cardinality(b + 1 .. b + PageSize)
    BY <1>3, <1>4, FS_Subset, Zenon
  <2>2. Cardinality(I) \in Nat /\ Cardinality(b + 1 .. b + PageSize) \in Nat
    BY <1>3, <2>1, FS_CardinalityType, Zenon
  <2>3. QED  BY <1>2, <1>3, <2>1, <2>2
<1>6. f \in Surjection(I, PageOf(list, no))
  <2>1. f \in [I -> PageOf(list, no)] /\ \A r \in PageOf(list, no) : \E i \in I : f[i] = r
    BY <1>2
  <2> HIDE DEF f, I
  <2>2. QED  BY <2>1, Fun_IsSurj, Zenon
<1>7. IsFiniteSet(PageOf(list, no)) /\ Cardinality(PageOf(list, no)) <= Cardinality(I)
  <2> HIDE DEF f, I
  <2>1. QED  BY <1>5, <1>6, FS_Surjection, Zenon
<1>8. PageOf(list, no) \subseteq Rows
  <2>1. \A i \in DOMAIN list : list[i] \in Rows
    OBVIOUS
  <2>2. QED  BY <1>2, <2>1
<1>9. Cardinality(PageOf(list, no)) \in Nat
  BY <1>7, FS_CardinalityType
<1> HIDE DEF f, I
<1>10. QED  BY <1>2, <1>5, <1>7, <1>8, <1>9

\* A page with a next one is full, if no row is listed twice.
LEMMA PageFull ==
  ASSUME NEW list \in Seq(Rows), NEW no \in Nat \ {0}, no * PageSize <= Len(list),
         \A i, j \in DOMAIN list : list[i] = list[j] => i = j
  PROVE  Cardinality(PageOf(list, no)) = PageSize
<1>1. PICK b \in Nat : b = (no - 1) * PageSize /\ no * PageSize = b + PageSize
  <2>1. PICK m \in Nat : no = m + 1
    <3>1. no - 1 \in Nat /\ no = (no - 1) + 1
      OBVIOUS
    <3>2. QED  BY <3>1
  <2>2. m * PageSize \in Nat /\ (m + 1) * PageSize = m * PageSize + PageSize /\ no - 1 = m
    BY <2>1, PagesAssumption
  <2>3. QED  BY <2>1, <2>2
<1> DEFINE I == b + 1 .. b + PageSize
           f == [i \in I |-> list[i]]
<1>2. PageSize \in Nat \ {0} /\ I \subseteq DOMAIN list
  <2>1. b + PageSize <= Len(list) /\ PageSize \in Nat \ {0}
    BY <1>1, PagesAssumption
  <2>2. QED  BY <2>1
<1>3. PageOf(list, no) = {list[i] : i \in I}
  BY <1>1, <1>2 DEF PageOf
<1>4. IsFiniteSet(I) /\ Cardinality(I) = PageSize
  BY <1>2, Stretch
<1>5. f \in Surjection(I, PageOf(list, no)) /\ f \in Injection(I, PageOf(list, no))
  <2>1. f \in [I -> PageOf(list, no)] /\ \A r \in PageOf(list, no) : \E i \in I : f[i] = r
    BY <1>3
  <2>2. \A i, j \in I : f[i] = f[j] => i = j
    BY <1>2
  <2> HIDE DEF f, I
  <2>3. f \in Surjection(I, PageOf(list, no))
    BY <2>1, Fun_IsSurj, Zenon
  <2>4. QED  BY <2>1, <2>2, <2>3, Fun_IsInj, Zenon
<1>6. Cardinality(PageOf(list, no)) = Cardinality(I)
  <2> HIDE DEF f, I
  <2>1. QED  BY <1>4, <1>5, FS_Surjection, Zenon
<1> HIDE DEF f, I
<1>7. QED  BY <1>4, <1>6

\* The pages up to no hold every row, if there are no more.
LEMMA PagesCover ==
  ASSUME NEW list \in Seq(Rows), NEW no \in Nat, Len(list) <= no * PageSize
  PROVE  Range(list) \subseteq UNION {PageOf(list, q) : q \in 1 .. no}
<1>1. SUFFICES ASSUME NEW i \in DOMAIN list PROVE \E q \in 1 .. no : list[i] \in PageOf(list, q)
  BY DEF Range
<1>2. PageSize \in Nat \ {0} /\ i \in Nat /\ i - 1 \in Nat /\ i <= Len(list) /\ Len(list) \in Nat
  BY PagesAssumption
<1>3. PICK p \in Nat : p = (i - 1) \div PageSize
  BY <1>2
<1>4. PageSize * p <= i - 1 /\ i - 1 < PageSize * (p + 1)
  BY <1>2, <1>3, Floor
<1>5. p + 1 <= no
  <2>1. SUFFICES ASSUME no <= p PROVE FALSE
    OBVIOUS
  <2>2. PageSize * no <= PageSize * p /\ PageSize * no \in Nat /\ PageSize * p \in Nat
    BY <1>2, <2>1, Times
  <2>3. PageSize * no = no * PageSize
    BY <1>2
  <2>4. QED  BY <1>2, <1>4, <2>2, <2>3
<1>6. list[i] \in PageOf(list, p + 1)
  <2>1. PageSize * p = (p + 1 - 1) * PageSize /\ PageSize * (p + 1) = (p + 1) * PageSize
    BY <1>2
  <2>2. PageSize * p \in Nat /\ PageSize * (p + 1) \in Nat
    BY <1>2
  <2>3. (p + 1 - 1) * PageSize < i /\ i <= (p + 1) * PageSize
    BY <1>2, <1>4, <2>1, <2>2
  <2>4. QED  BY <2>3 DEF PageOf
<1>7. QED  BY <1>5, <1>6

\* A page with nothing on it is behind the last row.
LEMMA PageEmpty ==
  ASSUME NEW list \in Seq(Rows), NEW no \in Nat \ {0}, PageOf(list, no) = {}
  PROVE  Len(list) <= (no - 1) * PageSize
<1>1. PICK m \in Nat : no = m + 1 /\ no - 1 = m
  <2>1. no - 1 \in Nat /\ no = (no - 1) + 1
    OBVIOUS
  <2>2. QED  BY <2>1
<1>2. PICK b \in Nat : b = (no - 1) * PageSize /\ no * PageSize = b + PageSize
  BY <1>1, PagesAssumption
<1>3. SUFFICES ASSUME b < Len(list) PROVE FALSE
  BY <1>2
<1>4. b + 1 \in DOMAIN list /\ b < b + 1 /\ b + 1 <= b + PageSize
  BY <1>3, PagesAssumption
<1>5. list[b + 1] \in PageOf(list, no)
  BY <1>2, <1>4 DEF PageOf
<1>6. QED  BY <1>5

\* PageNos are the pages it takes.
LEMMA PagesTaken ==
  ASSUME NEW n \in Nat, NEW no \in Nat
  PROVE  /\ (n + PageSize - 1) \div PageSize \in Nat
         /\ (n + PageSize - 1) \div PageSize <= no <=> n <= no * PageSize
<1>1. PageSize \in Nat \ {0} /\ n + PageSize - 1 \in Nat
  BY PagesAssumption
<1>2. PICK q \in Nat : q = (n + PageSize - 1) \div PageSize
  BY <1>1
<1>3. PageSize * q <= n + PageSize - 1 /\ n + PageSize - 1 < PageSize * (q + 1)
  BY <1>1, <1>2, Floor
<1>4. PageSize * (no + 1) = no * PageSize + PageSize /\ no * PageSize \in Nat /\ PageSize * (q + 1) \in Nat
  BY <1>1
<1>5. ASSUME q <= no PROVE n <= no * PageSize
  <2>1. PageSize * (q + 1) <= PageSize * (no + 1)
    BY <1>1, <1>5, Times
  <2>2. QED  BY <1>1, <1>3, <1>4, <2>1
<1>6. ASSUME n <= no * PageSize PROVE q <= no
  <2>1. n + PageSize - 1 < PageSize * (no + 1)
    BY <1>1, <1>4, <1>6
  <2>2. QED  BY <1>1, <1>2, <2>1, Floor
<1>7. QED  BY <1>2, <1>5, <1>6

-----------------------------------------------------------------------------
(* What holds between two requests.                                        *)

InPlace == {"search", "write", "next"}

\* The ZIP counters follow the walk, and a ZIP is hit after its vehicles.
CountsInv ==
  /\ place <= LastPlace /\ counts.zips <= (IF pc \in {"session", "lookup"} THEN place - 1 ELSE place)
  /\ counts.hit <= (IF pc \in InPlace THEN counts.zips - 1 ELSE counts.zips)
  /\ counts.hit <= persisted /\ counts.before <= persisted
  /\ pc \in InPlace => counts.hit <= counts.before

\* What was stored is what was seen, and leaves its trace in every counter.
StoredInv ==
  /\ seen = stored /\ Cardinality(stored) <= persisted /\ \A r \in hand : r[2] # NoVin
  /\ persisted > 0 \/ cursor.saved > 0 \/ counts.hit > 0 \/ (mode = "refresh" /\ completed # {}) => stored # {}
  /\ stored # {} /\ pc # "failed" =>
        /\ counts.hit > 0 \/ (pc \in InPlace /\ persisted > counts.before)
        /\ completed # {} \/ (pc \in InPlace /\ cursor.saved > 0)
  /\ mode # "refresh" /\ pc \in InPlace => \A i \in 1 .. carline - 1 : Carlines[i] \in completed
  /\ mode # "refresh" /\ pc = "completed" => completed = CarlineSet

\* The percentage when k steps are done, and the steps before this place.
After(k) == AtLeast2((100 * k) \div (LastPlace * Len(Carlines)))
Begun == (place - 1) * Len(Carlines)

\* The percentage is never ahead of the work.
PercentInv ==
  /\ pc # "completed" => percent <= 99
  /\ pc \in {"session", "lookup"} => percent <= After(Begun)
  /\ pc \in {"search", "write"} => percent <= AtMost99(Percent(place, carline, cursor.no - 1, cursor.pages))
  /\ pc = "next" => percent <= AtMost99(After(Begun + carline))

\* The estimates are those of the first answer, and while the site stands still
\* the VINs of the pages read are the seen ones.
WalkInv ==
  /\ pc \in {"search", "write"} => cursor.saved <= (cursor.no - 1) * PageSize
  /\ pc = "write" \/ (pc = "search" /\ cursor.no > 1) =>
       /\ walk.announced \in {0, Len(walk.rows)}
       /\ cursor.total = EstimatedTotal(Here, walk.announced) /\ cursor.pages = EstimatedPages(cursor.total)
       /\ walk.still =>
            /\ walk.rows = Listing(Here, dealers)
            /\ seen = walk.before \cup UNION {VinsOf(PageOf(walk.rows, q)) : q \in 1 .. cursor.no - 1}
            /\ pc = "write" => hand = {r \in PageOf(walk.rows, cursor.no) : r[2] # NoVin}

PagesIInv == TypeOK /\ AsAnnounced /\ CountsInv /\ StoredInv /\ PercentInv /\ WalkInv

\* The carline at hand is one of the carlines, and there are steps to do.
LEMMA Bounds ==
  ASSUME TypeOK
  PROVE  /\ Here \in CarlineSet /\ CatalogCount[Here] \in Nat
         /\ Len(Carlines) \in Nat \ {0} /\ Len(Places) \in Nat \ {0} /\ LastPlace \in 1 .. Len(Places)
         /\ LastPlace \in Nat \ {0} /\ LastPlace * Len(Carlines) \in Nat \ {0}
         /\ PageSize \in Nat \ {0} /\ MaxPages \in Nat \ {0}
<1>1. Len(Carlines) \in Nat \ {0} /\ DOMAIN Carlines = 1 .. Len(Carlines)
  BY PagesAssumption, EmptySeq
<1>2. Len(Places) \in Nat \ {0}
  BY PagesAssumption, EmptySeq
<1>3. Here \in CarlineSet
  BY <1>1 DEF TypeOK, Here, CarlineSet, Range
<1>4. CatalogCount[Here] \in Nat
  BY <1>3, PagesAssumption
<1>5. LastPlace \in 1 .. Len(Places) /\ LastPlace \in Nat \ {0}
  BY <1>2 DEF LastPlace
<1>6. LastPlace * Len(Carlines) \in Nat \ {0}
  BY <1>1, <1>5
<1>7. QED  BY <1>1, <1>2, <1>3, <1>4, <1>5, <1>6, PagesAssumption

\* The percentage grows with the steps done, and stays below 100 before the last.
LEMMA AfterSteps ==
  ASSUME TypeOK, NEW k \in Nat
  PROVE  /\ After(k) \in Nat /\ After(k) >= 2
         /\ \A j \in Nat : j <= k => After(j) <= After(k)
         /\ k < LastPlace * Len(Carlines) => After(k) <= 99
<1>1. PICK steps \in Nat \ {0} : steps = LastPlace * Len(Carlines)
  BY Bounds
<1>2. 100 * k \in Nat /\ (100 * k) \div steps \in Nat
  BY Floor
<1>3. ASSUME NEW j \in Nat, j <= k PROVE After(j) <= After(k)
  <2>1. 100 * j \in Nat /\ 100 * j <= 100 * k /\ (100 * j) \div steps \in Nat
    BY <1>3
  <2>2. (100 * j) \div steps <= (100 * k) \div steps
    BY <1>2, <2>1, FloorGrows
  <2>3. PICK x \in Nat, y \in Nat : x = (100 * j) \div steps /\ y = (100 * k) \div steps
    BY <1>2, <2>1
  <2>4. QED  BY <1>1, <2>2, <2>3 DEF After, AtLeast2
<1>4. ASSUME k < steps PROVE After(k) <= 99
  <2>1. 100 * k < steps * (99 + 1)
    BY <1>4
  <2>2. (100 * k) \div steps <= 99
    BY <1>2, <2>1, Floor
  <2>3. QED  BY <1>1, <1>2, <2>2 DEF After, AtLeast2
<1>5. PICK x \in Nat : x = (100 * k) \div steps
  BY <1>2
<1>6. After(k) \in Nat /\ After(k) >= 2
  BY <1>1, <1>5 DEF After, AtLeast2
<1>7. QED  BY <1>1, <1>3, <1>4, <1>6

\* The percentage on the pages of a carline: between that of the steps before
\* and that of one more, and never less on a later page.
LEMMA PercentSteps ==
  ASSUME TypeOK, NEW zip \in Nat \ {0}, NEW car \in Nat \ {0}, NEW page \in Nat, NEW pages \in Nat \ {0},
         NEW k \in Nat, k = (zip - 1) * Len(Carlines) + (car - 1)
  PROVE  /\ Percent(zip, car, 0, pages) = After(k)
         /\ Percent(zip, car, page, pages) \in Nat
         /\ Percent(zip, car, page, pages) <= After(k + 1)
         /\ Percent(zip, car, page, pages) <= Percent(zip, car, page + 1, pages)
<1>1. PICK steps \in Nat \ {0} : steps = LastPlace * Len(Carlines)
  BY Bounds
<1> DEFINE Part(p) == IF p > pages THEN pages ELSE p
           Of(p) == (100 * (k * pages + Part(p))) \div (steps * pages)
<1>2. \A p \in Nat : Percent(zip, car, p, pages) = AtLeast2(Of(p))
  BY <1>1 DEF Percent
<1>3. PICK n \in Nat : n = k * pages
  OBVIOUS
<1>4. steps * pages \in Nat \ {0}
  OBVIOUS
<1>5. ASSUME NEW p \in Nat PROVE /\ 100 * (n + Part(p)) \in Nat /\ Of(p) \in Nat
                                 /\ Of(p) <= (100 * (n + pages)) \div (steps * pages)
                                 /\ Of(p) <= Of(p + 1)
  <2>1. /\ 100 * (n + Part(p)) \in Nat /\ 100 * (n + Part(p + 1)) \in Nat /\ 100 * (n + pages) \in Nat
        /\ 100 * (n + Part(p)) <= 100 * (n + pages) /\ 100 * (n + Part(p)) <= 100 * (n + Part(p + 1))
    OBVIOUS
  <2> HIDE DEF Part
  <2>2. (100 * (n + Part(p))) \div (steps * pages) \in Nat
    BY <1>4, <2>1, Floor
  <2>3. (100 * (n + Part(p))) \div (steps * pages) <= (100 * (n + pages)) \div (steps * pages)
    BY <1>4, <2>1, FloorGrows
  <2>4. (100 * (n + Part(p))) \div (steps * pages) <= (100 * (n + Part(p + 1))) \div (steps * pages)
    BY <1>4, <2>1, FloorGrows
  <2>5. QED  BY <1>3, <2>1, <2>2, <2>3, <2>4
<1>6. Of(0) = (100 * k) \div steps
  <2>1. 100 * (k * pages + Part(0)) = (100 * k) * pages
    BY <1>3
  <2>2. QED  BY <2>1, FloorCancels
<1>7. (100 * (n + pages)) \div (steps * pages) = (100 * (k + 1)) \div steps
  <2>1. 100 * (n + pages) = (100 * (k + 1)) * pages
    BY <1>3
  <2>2. 100 * (k + 1) \in Nat
    OBVIOUS
  <2>3. ((100 * (k + 1)) * pages) \div (steps * pages) = (100 * (k + 1)) \div steps
    BY <2>2, FloorCancels
  <2>4. QED  BY <2>1, <2>3, Zenon
<1>8. PICK x \in Nat, y \in Nat : x = Of(page) /\ y = Of(page + 1) /\ x <= y
  BY <1>5
<1>9. (100 * (k + 1)) \div steps \in Nat /\ x <= (100 * (k + 1)) \div steps
  <2>1. 100 * (k + 1) \in Nat
    OBVIOUS
  <2>2. (100 * (k + 1)) \div steps \in Nat
    BY <2>1, Floor
  <2>3. x <= (100 * (n + pages)) \div (steps * pages)
    BY <1>5, <1>8
  <2>4. QED  BY <1>7, <2>2, <2>3
<1>10. PICK z \in Nat : z = (100 * (k + 1)) \div steps /\ x <= z
  BY <1>9
<1> HIDE DEF Of
<1>11. Percent(zip, car, page, pages) = AtLeast2(x) /\ Percent(zip, car, page + 1, pages) = AtLeast2(y)
  BY <1>2, <1>8
<1>12. After(k + 1) = AtLeast2(z) /\ After(k) = AtLeast2(Of(0))
  BY <1>1, <1>6, <1>10 DEF After
<1>13. AtLeast2(x) \in Nat /\ AtLeast2(x) <= AtLeast2(y) /\ AtLeast2(x) <= AtLeast2(z)
  BY <1>8, <1>10 DEF AtLeast2
<1>14. QED  BY <1>2, <1>11, <1>12, <1>13

-----------------------------------------------------------------------------
(* Types.                                                                  *)

\* The initial state.
LEMMA TypeInit == Init => TypeOK
<1> SUFFICES ASSUME Init PROVE TypeOK
  OBVIOUS
<1>1. Len(Carlines) \in Nat \ {0} /\ Len(Places) \in Nat \ {0} /\ PageSize \in Nat \ {0} /\ MaxPages \in Nat \ {0}
  BY PagesAssumption, EmptySeq
<1>2. site \in [CarlineSet -> SUBSET Rows]
  <2>1. \A c \in CarlineSet : Listings(c) \subseteq SUBSET Rows
    BY PagesAssumption DEF Listings
  <2>2. site \in [CarlineSet -> UNION {Listings(c) : c \in CarlineSet}]
    BY DEF Init
  <2>3. QED  BY <2>1, <2>2
<1>3. cursor \in [no : 1 .. MaxPages, total : Nat, pages : Nat \ {0}, saved : Nat]
  BY <1>1 DEF Init, FirstPage
<1>4. hand \subseteq Rows /\ Cardinality(hand) <= PageSize
  BY <1>1, FS_EmptySet DEF Init
<1>5. walk \in [rows : Seq(Rows), announced : Nat, before : SUBSET Vins, still : BOOLEAN]
  BY DEF Init, NoWalk
<1>6. changes \in 0 .. MaxChanges /\ place \in 1 .. Len(Places) /\ carline \in 1 .. Len(Carlines)
  BY <1>1, PagesAssumption DEF Init
<1>7. counts \in [zips : 0 .. Len(Places), hit : 0 .. Len(Places), before : Nat]
  BY <1>1 DEF Init
<1>8. QED  BY <1>2, <1>3, <1>4, <1>5, <1>6, <1>7 DEF Init, TypeOK, Running

\* The steps before the carline at hand.
LEMMA StepsSoFar ==
  ASSUME TypeOK, place <= LastPlace
  PROVE  /\ Begun \in Nat /\ Begun + Len(Carlines) <= LastPlace * Len(Carlines)
         /\ Begun = (place - 1) * Len(Carlines) + (1 - 1)
         /\ Begun + carline - 1 \in Nat /\ Begun + carline \in Nat
         /\ Begun + carline - 1 = (place - 1) * Len(Carlines) + (carline - 1)
         /\ Begun + carline = (place - 1) * Len(Carlines) + (carline + 1 - 1)
         /\ Begun < LastPlace * Len(Carlines) /\ Begun + carline - 1 < LastPlace * Len(Carlines)
         /\ place * Len(Carlines) = Begun + Len(Carlines)
<1>1. PICK n \in Nat \ {0}, z \in Nat : n = Len(Carlines) /\ place = z + 1 /\ z = place - 1
  <2>1. place - 1 \in Nat /\ place = place - 1 + 1
    BY DEF TypeOK
  <2>2. QED  BY <2>1, Bounds
<1>2. Begun = z * n /\ z * n \in Nat /\ (z + 1) * n = z * n + n
  BY <1>1 DEF Begun
<1>3. (z + 1) * n <= LastPlace * n /\ LastPlace * n \in Nat
  <2>1. z + 1 \in Nat /\ LastPlace \in Nat /\ z + 1 <= LastPlace
    BY <1>1, Bounds
  <2>2. n * (z + 1) <= n * LastPlace
    BY <2>1, Times
  <2>3. n * (z + 1) = (z + 1) * n /\ n * LastPlace = LastPlace * n
    BY <2>1
  <2>4. QED  BY <2>1, <2>2, <2>3
<1>4. carline \in 1 .. n
  BY <1>1 DEF TypeOK
<1>5. PICK m \in Nat : m = z * n
  BY <1>2
<1>6. PICK s \in Nat : s = LastPlace * n /\ m + n <= s
  BY <1>2, <1>3, <1>5
<1>7. Begun = m /\ Len(Carlines) = n /\ LastPlace * Len(Carlines) = s /\ (place - 1) * Len(Carlines) = m
      /\ place * Len(Carlines) = m + n
  BY <1>1, <1>2, <1>5, <1>6
<1>8. QED  BY <1>4, <1>6, <1>7

\* What a page lookup and the end of a page do to the percentage.
LEMMA Percentages ==
  ASSUME TypeOK, place <= LastPlace
  PROVE  /\ Percent(place, 1, 0, 1) = After(Begun) /\ After(Begun) \in 2 .. 99
         /\ \A p \in Nat \ {0} : Percent(place, carline, 0, p) = After(Begun + carline - 1)
         /\ After(Begun + carline - 1) \in 2 .. 99
         /\ Percent(place, carline + 1, 0, 1) = After(Begun + carline)
         /\ After(Begun + carline) \in Nat /\ After(Begun + carline) >= 2
         /\ After(Begun + carline - 1) <= After(Begun + carline)
         /\ carline < Len(Carlines) => After(Begun + carline) <= 99
         /\ Percent(place, carline, cursor.no, cursor.pages) \in Nat
         /\ Percent(place, carline, cursor.no, cursor.pages) >= 2
         /\ Percent(place, carline, cursor.no - 1, cursor.pages) \in Nat
         /\ Percent(place, carline, cursor.no - 1, cursor.pages) <= Percent(place, carline, cursor.no, cursor.pages)
         /\ Percent(place, carline, cursor.no, cursor.pages) <= After(Begun + carline)
         /\ Percent(place, carline, cursor.no - 1, cursor.pages) <= After(Begun + carline)
<1>1. /\ place \in Nat \ {0} /\ carline \in Nat \ {0} /\ carline + 1 \in Nat \ {0}
      /\ cursor.no \in Nat /\ cursor.no - 1 \in Nat /\ cursor.no - 1 + 1 = cursor.no /\ cursor.pages \in Nat \ {0}
  <2>1. Len(Carlines) \in Nat /\ Len(Places) \in Nat /\ MaxPages \in Nat
    BY Bounds
  <2>2. /\ place \in 1 .. Len(Places) /\ carline \in 1 .. Len(Carlines)
        /\ cursor.no \in 1 .. MaxPages /\ cursor.pages \in Nat \ {0}
    BY DEF TypeOK
  <2>3. QED  BY <2>1, <2>2
<1>2. Percent(place, 1, 0, 1) = After(Begun)
  BY <1>1, StepsSoFar, PercentSteps
<1>3. \A p \in Nat \ {0} : Percent(place, carline, 0, p) = After(Begun + carline - 1)
  BY <1>1, StepsSoFar, PercentSteps
<1>4. Percent(place, carline + 1, 0, 1) = After(Begun + carline)
  BY <1>1, StepsSoFar, PercentSteps
<1>5. After(Begun) \in 2 .. 99 /\ After(Begun + carline - 1) \in 2 .. 99
  <2>1. \A k \in Nat : k < LastPlace * Len(Carlines) => After(k) \in 2 .. 99
    <3>1. SUFFICES ASSUME NEW k \in Nat, k < LastPlace * Len(Carlines) PROVE After(k) \in 2 .. 99
      OBVIOUS
    <3>2. After(k) \in Nat /\ After(k) >= 2 /\ After(k) <= 99
      BY <3>1, AfterSteps, Zenon
    <3>3. QED  BY <3>2
  <2>2. /\ Begun \in Nat /\ Begun + carline - 1 \in Nat
        /\ Begun < LastPlace * Len(Carlines) /\ Begun + carline - 1 < LastPlace * Len(Carlines)
    BY StepsSoFar, Zenon
  <2>3. QED  BY <2>1, <2>2, Zenon
<1>6. After(Begun + carline) \in Nat /\ After(Begun + carline) >= 2 /\ After(Begun + carline - 1) <= After(Begun + carline)
  <2>1. Begun + carline - 1 <= Begun + carline
    <3>1. Begun \in Nat
      BY StepsSoFar
    <3>2. QED  BY <1>1, <3>1
  <2>2. QED  BY <2>1, StepsSoFar, AfterSteps
<1>7. carline < Len(Carlines) => After(Begun + carline) <= 99
  <2>1. carline < Len(Carlines) => Begun + carline < LastPlace * Len(Carlines)
    <3>1. Begun \in Nat /\ Len(Carlines) \in Nat /\ LastPlace * Len(Carlines) \in Nat
      BY StepsSoFar, Bounds
    <3>2. Begun + Len(Carlines) <= LastPlace * Len(Carlines)
      BY StepsSoFar
    <3>3. PICK b \in Nat, n \in Nat, s \in Nat : b = Begun /\ n = Len(Carlines) /\ s = LastPlace * Len(Carlines)
      BY <3>1
    <3>4. QED  BY <1>1, <3>2, <3>3
  <2>2. QED  BY <2>1, StepsSoFar, AfterSteps
<1>8. PICK k \in Nat : k = Begun + carline - 1 /\ k = (place - 1) * Len(Carlines) + (carline - 1) /\ k + 1 = Begun + carline
  BY <1>1, StepsSoFar
<1>9. /\ Percent(place, carline, cursor.no, cursor.pages) \in Nat
      /\ Percent(place, carline, cursor.no, cursor.pages) <= After(k + 1)
  BY <1>1, <1>8, PercentSteps
<1>10. /\ Percent(place, carline, cursor.no - 1, cursor.pages) \in Nat
       /\ Percent(place, carline, cursor.no - 1, cursor.pages) <= After(k + 1)
       /\ Percent(place, carline, cursor.no - 1, cursor.pages) <= Percent(place, carline, cursor.no - 1 + 1, cursor.pages)
  BY <1>1, <1>8, PercentSteps, Zenon
<1>11. Percent(place, carline, cursor.no, cursor.pages) >= 2
  <2>1. Percent(place, carline, cursor.no, cursor.pages) \in Nat
    BY <1>9
  <2>2. QED  BY <2>1 DEF Percent, AtLeast2
<1>12. QED  BY <1>1, <1>2, <1>3, <1>4, <1>5, <1>6, <1>7, <1>8, <1>9, <1>10, <1>11

\* What is estimated from a first answer of n vehicles.
LEMMA Estimates ==
  ASSUME TypeOK, NEW n \in Nat
  PROVE  /\ EstimatedTotal(Here, n) \in Nat /\ EstimatedPages(EstimatedTotal(Here, n)) \in Nat \ {0}
         /\ n > 0 => EstimatedTotal(Here, n) = n
         /\ n = 0 => EstimatedTotal(Here, n) = CatalogCount[Here]
<1>1. PICK t \in Nat : t = EstimatedTotal(Here, n)
  BY Bounds DEF EstimatedTotal
<1>2. PICK m \in Nat \ {0} : m = IF t = 0 THEN 1 ELSE t
  OBVIOUS
<1>3. m + PageSize - 1 \in Nat /\ PageSize \in Nat \ {0} /\ PageSize * 1 <= m + PageSize - 1
  BY PagesAssumption
<1>4. (m + PageSize - 1) \div PageSize \in Nat /\ 1 <= (m + PageSize - 1) \div PageSize
  BY <1>3, Floor
<1>5. EstimatedPages(t) = (m + PageSize - 1) \div PageSize
  BY <1>2 DEF EstimatedPages
<1>6. EstimatedPages(t) \in Nat \ {0}
  BY <1>4, <1>5
<1>7. (n > 0 => t = n) /\ (n = 0 => t = CatalogCount[Here])
  BY <1>1 DEF EstimatedTotal
<1>8. QED  BY <1>1, <1>6, <1>7

\* What a search brings.
LEMMA Answer ==
  ASSUME TypeOK
  PROVE  /\ Listing(Here, dealers) \in Seq(Rows)
         /\ Len(Listing(Here, dealers)) \in Nat
         /\ \A i, j \in DOMAIN Listing(Here, dealers) :
              Listing(Here, dealers)[i] = Listing(Here, dealers)[j] => i = j
         /\ \A got : got = {r \in PageOf(Listing(Here, dealers), cursor.no) : r[2] # NoVin} =>
              got \subseteq Rows /\ Cardinality(got) <= PageSize
<1>1. site[Here] \in SUBSET Rows
  BY Bounds DEF TypeOK
<1>2. /\ Listing(Here, dealers) \in Seq(Rows)
      /\ \A i, j \in DOMAIN Listing(Here, dealers) :
           Listing(Here, dealers)[i] = Listing(Here, dealers)[j] => i = j
  BY <1>1, ListingHasAll
<1>3. Len(Listing(Here, dealers)) \in Nat
  BY <1>2
<1>4. cursor.no \in Nat \ {0}
  <2>1. MaxPages \in Nat /\ cursor.no \in 1 .. MaxPages
    BY Bounds DEF TypeOK
  <2>2. QED  BY <2>1
<1>5. ASSUME NEW got, got = {r \in PageOf(Listing(Here, dealers), cursor.no) : r[2] # NoVin}
      PROVE  got \subseteq Rows /\ Cardinality(got) <= PageSize
  <2>1. PICK P : P = PageOf(Listing(Here, dealers), cursor.no)
    OBVIOUS
  <2>2. P \subseteq Rows /\ IsFiniteSet(P) /\ Cardinality(P) \in Nat /\ Cardinality(P) <= PageSize
    BY <1>2, <1>4, <2>1, PageBound
  <2>3. got \in SUBSET P
    BY <1>5, <2>1
  <2>4. Cardinality(got) <= Cardinality(P) /\ IsFiniteSet(got)
    BY <2>2, <2>3, FS_Subset
  <2>5. Cardinality(got) \in Nat /\ PageSize \in Nat
    BY <2>4, FS_CardinalityType, PagesAssumption
  <2>6. QED  BY <2>2, <2>3, <2>4, <2>5
<1>6. QED  BY <1>2, <1>3, <1>5

\* What a page brings to the database: fewer VINs than rows, and none only if
\* no row was unseen.
LEMMA News ==
  ASSUME TypeOK
  PROVE  /\ Unseen(hand) \subseteq hand /\ Cardinality(Unseen(hand)) \in Nat
         /\ Cardinality(Unseen(hand)) <= Cardinality(hand) /\ Cardinality(hand) \in Nat
         /\ Cardinality(Unseen(hand)) <= PageSize
         /\ Cardinality(Unseen(hand)) = 0 <=> Unseen(hand) = {}
         /\ VinsOf(Unseen(hand)) \subseteq Vins
         /\ Cardinality(stored \cup VinsOf(Unseen(hand))) <= Cardinality(stored) + Cardinality(Unseen(hand))
         /\ Cardinality(stored) \in Nat /\ Cardinality(stored \cup VinsOf(Unseen(hand))) \in Nat
<1> DEFINE new == Unseen(hand)
           V == {r[2] : r \in new}
<1>1. hand \in SUBSET Rows /\ new \in SUBSET hand /\ new \in SUBSET Rows
  BY DEF TypeOK, Unseen
<1>2. IsFiniteSet(hand) /\ Cardinality(hand) \in Nat /\ IsFiniteSet(new) /\ Cardinality(new) \in Nat
  BY <1>1, RowsFinite
<1>3. Cardinality(new) <= Cardinality(hand)
  <2> HIDE DEF new
  <2>1. QED  BY <1>1, <1>2, FS_Subset
<1>4. Cardinality(hand) <= PageSize /\ PageSize \in Nat
  BY PagesAssumption DEF TypeOK
<1>5. Cardinality(new) = 0 <=> new = {}
  BY <1>2, FS_EmptySet
<1>6. VinsOf(new) \subseteq Vins /\ VinsOf(new) \in SUBSET V
  <2>1. \A r \in Rows : r[2] \in Vins \cup {NoVin}
    BY DEF Rows
  <2>2. QED  BY <1>1, <2>1 DEF VinsOf
<1>7. IsFiniteSet(V) /\ Cardinality(V) <= Cardinality(new)
  <2> DEFINE f == [r \in new |-> r[2]]
  <2>1. f \in [new -> V] /\ \A v \in V : \E r \in new : f[r] = v
    OBVIOUS
  <2> HIDE DEF f, V, new
  <2>2. f \in Surjection(new, V)
    BY <2>1, Fun_IsSurj, Zenon
  <2>3. QED  BY <1>2, <2>2, FS_Surjection, Zenon
<1>8. IsFiniteSet(VinsOf(new)) /\ Cardinality(VinsOf(new)) <= Cardinality(V)
  <2> HIDE DEF V, new
  <2>1. QED  BY <1>6, <1>7, FS_Subset, Zenon
<1>9. IsFiniteSet(stored) /\ Cardinality(stored) \in Nat
  BY PagesAssumption, FS_Subset, FS_CardinalityType DEF TypeOK
<1>10. /\ IsFiniteSet(stored \cup VinsOf(new))
       /\ Cardinality(stored \cup VinsOf(new)) = Cardinality(stored) + Cardinality(VinsOf(new)) - Cardinality(stored \cap VinsOf(new))
  BY <1>8, <1>9, FS_Union
<1>11. /\ Cardinality(stored \cap VinsOf(new)) \in Nat /\ Cardinality(stored \cup VinsOf(new)) \in Nat
       /\ Cardinality(VinsOf(new)) \in Nat /\ Cardinality(V) \in Nat
  <2>1. IsFiniteSet(stored \cap VinsOf(new))
    BY <1>9, FS_Intersection
  <2> HIDE DEF V, new
  <2>2. QED  BY <1>7, <1>8, <1>10, <2>1, FS_CardinalityType
<1> HIDE DEF V
<1>12. Cardinality(stored \cup VinsOf(new)) <= Cardinality(stored) + Cardinality(new)
  BY <1>2, <1>7, <1>8, <1>9, <1>10, <1>11
<1>13. Cardinality(new) <= PageSize
  BY <1>2, <1>3, <1>4
<1>14. QED  BY <1>1, <1>2, <1>3, <1>5, <1>6, <1>9, <1>11, <1>12, <1>13

\* Every step keeps the types.
LEMMA TypeStep == TypeOK /\ CountsInv /\ PercentInv /\ [Next]_vars => TypeOK'
<1> SUFFICES ASSUME TypeOK, CountsInv, PercentInv, [Next]_vars PROVE TypeOK'
  OBVIOUS
<1>0. place <= LastPlace /\ percent \in 0 .. 100 /\ place \in 1 .. Len(Places) /\ carline \in 1 .. Len(Carlines)
  BY DEF CountsInv, TypeOK
<1>1. ASSUME NEW c \in CarlineSet, NEW r \in RowsOf[c], SiteChanges(c, r) PROVE TypeOK'
  <2>1. r \in Rows
    BY PagesAssumption
  <2>2. site' \in [CarlineSet -> SUBSET Rows]
    BY <1>1, <2>1 DEF SiteChanges, TypeOK
  <2>3. walk' \in [rows : Seq(Rows), announced : Nat, before : SUBSET Vins, still : BOOLEAN]
    BY <1>1 DEF SiteChanges, TypeOK
  <2>4. changes' \in 0 .. MaxChanges
    <3>1. MaxChanges \in Nat
      BY PagesAssumption
    <3>2. changes' = changes + 1 /\ changes < MaxChanges /\ changes \in 0 .. MaxChanges
      BY <1>1 DEF SiteChanges, TypeOK
    <3>3. QED  BY <3>1, <3>2
  <2>5. QED  BY <1>1, <2>2, <2>3, <2>4 DEF SiteChanges, TypeOK, reading, report
<1>2. ASSUME NEW ds \in SUBSET Dealers, Lookup(ds) PROVE TypeOK'
  <2>1. percent' \in 0 .. 100
    <3>1. percent' = After(Begun) /\ After(Begun) \in 2 .. 99
      BY <1>0, <1>2, Percentages DEF Lookup
    <3>2. QED  BY <3>1
  <2>2. cursor' \in [no : 1 .. MaxPages, total : Nat, pages : Nat \ {0}, saved : Nat] /\ carline' \in 1 .. Len(Carlines)
    BY <1>2, Bounds DEF Lookup, FirstPage
  <2>3. counts' \in [zips : 0 .. Len(Places), hit : 0 .. Len(Places), before : Nat]
    <3>1. counts.zips + 1 \in 0 .. Len(Places)
      <4>1. Len(Places) \in Nat /\ counts.zips \in 0 .. Len(Places)
        BY Bounds DEF TypeOK
      <4>2. counts.zips <= place - 1
        BY <1>2 DEF CountsInv, Lookup
      <4>3. QED  BY <1>0, <4>1, <4>2
    <3>2. QED  BY <1>2, <3>1 DEF Lookup, TypeOK
  <2>4. QED  BY <1>2, <2>1, <2>2, <2>3 DEF Lookup, SiteStays, TypeOK, Running
<1>3. ASSUME LookupFails PROVE TypeOK'
  <2>1. percent' \in 0 .. 100 /\ place' \in 1 .. Len(Places) /\ pc' \in Running \cup {"completed", "failed"}
    <3>1. After(Begun) \in 2 .. 99 /\ Percent(place, 1, 0, 1) = After(Begun) /\ LastPlace \in 1 .. Len(Places)
      BY <1>0, Percentages, Bounds
    <3>2. CASE pc' = pc /\ place < LastPlace /\ place' = place + 1 /\ percent' = Percent(place, 1, 0, 1)
      <4>1. place + 1 \in 1 .. Len(Places)
        BY <1>0, <3>1, <3>2, Bounds
      <4>2. QED  BY <3>1, <3>2, <4>1 DEF TypeOK
    <3>3. CASE percent' \in {percent, 0, 100} /\ place' = place /\ pc' \in {"completed", "failed"}
      <4>1. percent' \in 0 .. 100
        <5>1. percent \in 0 .. 100
          BY <1>0
        <5>2. QED  BY <3>3, <5>1
      <4>2. place' \in 1 .. Len(Places)
        BY <1>0, <3>3
      <4>3. QED  BY <3>3, <4>1, <4>2
    <3>4. QED  BY <1>3, <3>2, <3>3 DEF LookupFails, Finalize, Fail
  <2>2. QED  BY <1>3, <2>1 DEF LookupFails, SiteStays, TypeOK, reading
<1>4. ASSUME Search PROVE TypeOK'
  <2>1. hand' \subseteq Rows /\ Cardinality(hand') <= PageSize
    BY <1>4, Answer DEF Search
  <2>2. /\ cursor' \in [no : 1 .. MaxPages, total : Nat, pages : Nat \ {0}, saved : Nat]
        /\ walk' \in [rows : Seq(Rows), announced : Nat, before : SUBSET Vins, still : BOOLEAN]
    <3>1. CASE UNCHANGED <<cursor, walk>>
      BY <3>1 DEF TypeOK
    <3>2. ASSUME NEW n \in {0, Len(Listing(Here, dealers))},
                 cursor' = [cursor EXCEPT !.total = EstimatedTotal(Here, n), !.pages = EstimatedPages(EstimatedTotal(Here, n))],
                 walk' = [rows |-> Listing(Here, dealers), announced |-> n, before |-> seen, still |-> TRUE]
          PROVE  /\ cursor' \in [no : 1 .. MaxPages, total : Nat, pages : Nat \ {0}, saved : Nat]
                 /\ walk' \in [rows : Seq(Rows), announced : Nat, before : SUBSET Vins, still : BOOLEAN]
      <4>1. n \in Nat
        BY Answer
      <4>2. EstimatedTotal(Here, n) \in Nat /\ EstimatedPages(EstimatedTotal(Here, n)) \in Nat \ {0}
        BY <4>1, Estimates
      <4>3. cursor' \in [no : 1 .. MaxPages, total : Nat, pages : Nat \ {0}, saved : Nat]
        BY <3>2, <4>2 DEF TypeOK
      <4>4. walk' \in [rows : Seq(Rows), announced : Nat, before : SUBSET Vins, still : BOOLEAN]
        BY <3>2, <4>1, Answer DEF TypeOK
      <4>5. QED  BY <4>3, <4>4
    <3>3. QED  BY <1>4, <3>1, <3>2 DEF Search
  <2>3. QED  BY <1>4, <2>1, <2>2 DEF Search, SiteStays, TypeOK, Running, report
<1>5. ASSUME Session \/ SessionFails \/ SearchFails \/ WriteFails PROVE TypeOK'
  <2>1. percent' \in {percent, 0} /\ pc' \in Running \cup {"completed", "failed"}
    BY <1>5 DEF Session, SessionFails, SearchFails, WriteFails, Fail, Running
  <2>2. /\ UNCHANGED <<mode, site, changes, place, carline, dealers, cursor, hand, seen, persisted, counts, completed>>
        /\ UNCHANGED <<stored, walk>>
    BY <1>5 DEF Session, SessionFails, SearchFails, WriteFails, SiteStays, reading
  <2>3. percent' \in 0 .. 100
    BY <1>0, <2>1
  <2>4. QED  BY <2>1, <2>2, <2>3 DEF TypeOK
<1>6. ASSUME WritePage PROVE TypeOK'
  <2> DEFINE new == Unseen(hand)
             cur == [cursor EXCEPT !.saved = @ + Cardinality(new)]
  <2>1. Cardinality(new) \in Nat /\ VinsOf(new) \subseteq Vins
    BY News
  <2>2. cur \in [no : 1 .. MaxPages, total : Nat, pages : Nat \ {0}, saved : Nat] /\ cur.no = cursor.no
    <3>1. cursor \in [no : 1 .. MaxPages, total : Nat, pages : Nat \ {0}, saved : Nat]
      BY DEF TypeOK
    <3>2. cursor.saved + Cardinality(new) \in Nat
      BY <2>1, <3>1
    <3> HIDE DEF new
    <3>3. QED  BY <3>1, <3>2
  <2>3. cursor' \in [no : 1 .. MaxPages, total : Nat, pages : Nat \ {0}, saved : Nat]
    <3> HIDE DEF new, cur
    <3>1. CASE cursor' = cur
      BY <2>2, <3>1
    <3>2. CASE cursor' = [cur EXCEPT !.no = @ + 1] /\ ~(cur.no >= MaxPages)
      <4>1. cur.no + 1 \in 1 .. MaxPages
        BY <2>2, <3>2, Bounds
      <4>2. QED  BY <2>2, <3>2, <4>1
    <3>3. QED  BY <1>6, <3>1, <3>2 DEF WritePage, ShouldStop, new, cur
  <2>4. percent' \in 0 .. 100
    <3>1. PICK p \in Nat : p = Percent(place, carline, cursor.no, cursor.pages) /\ p >= 2
      BY <1>0, Percentages
    <3>2. percent' = AtMost99(p)
      BY <1>6, <3>1 DEF WritePage
    <3>3. QED  BY <3>1, <3>2 DEF AtMost99
  <2>5. hand' \subseteq Rows /\ Cardinality(hand') <= PageSize
    BY <1>6, FS_EmptySet, Bounds DEF WritePage
  <2>6. persisted' \in Nat /\ stored' \subseteq Vins /\ seen' \subseteq Vins
    BY SMTT(30), <1>6, <2>1 DEF WritePage, TypeOK
  <2>7. QED  BY <1>6, <2>3, <2>4, <2>5, <2>6 DEF WritePage, SiteStays, TypeOK, Running
<1>7. ASSUME NextCarline PROVE TypeOK'
  <2>1. percent' \in 0 .. 100
    <3>1. PICK p \in Nat : p = Percent(place, carline + 1, 0, 1) /\ 2 <= p /\ p <= 99
      BY <1>0, <1>7, Percentages DEF NextCarline
    <3>2. percent' = p \/ percent' = AtMost99(p)
      BY <1>7, <3>1 DEF NextCarline
    <3>3. QED  BY <3>1, <3>2 DEF AtMost99
  <2>2. cursor' \in [no : 1 .. MaxPages, total : Nat, pages : Nat \ {0}, saved : Nat] /\ carline' \in 1 .. Len(Carlines)
    BY <1>0, <1>7, Bounds DEF NextCarline, FirstPage
  <2>3. completed' \subseteq CarlineSet
    BY <1>7, Bounds DEF NextCarline, Done, TypeOK
  <2>4. QED  BY <1>7, <2>1, <2>2, <2>3 DEF NextCarline, SiteStays, TypeOK, Running
<1>8. ASSUME PlaceEnds PROVE TypeOK'
  <2>1. percent' \in 0 .. 100 /\ place' \in 1 .. Len(Places) /\ pc' \in Running \cup {"completed", "failed"}
    <3>1. CASE pc' = "lookup" /\ place < LastPlace /\ place' = place + 1 /\ percent' = percent
      <4>1. place + 1 \in 1 .. Len(Places)
        BY <1>0, <3>1, Bounds
      <4>2. QED  BY <1>0, <3>1, <4>1 DEF Running
    <3>2. CASE percent' \in {percent, 0, 100} /\ place' = place /\ pc' \in {"completed", "failed"}
      <4>1. percent' \in 0 .. 100
        <5>1. percent \in 0 .. 100
          BY <1>0
        <5>2. QED  BY <3>2, <5>1
      <4>2. place' \in 1 .. Len(Places)
        BY <1>0, <3>2
      <4>3. QED  BY <3>2, <4>1, <4>2
    <3>3. QED  BY <1>8, <3>1, <3>2 DEF PlaceEnds, Finalize, Fail
  <2>2. counts' \in [zips : 0 .. Len(Places), hit : 0 .. Len(Places), before : Nat]
    <3>1. CASE counts' = counts
      BY <3>1 DEF TypeOK
    <3>2. CASE counts' = [counts EXCEPT !.hit = @ + 1]
      <4>1. counts.hit + 1 \in 0 .. Len(Places)
        <5>1. Len(Places) \in Nat /\ counts.zips \in 0 .. Len(Places) /\ counts.hit \in 0 .. Len(Places)
          BY Bounds DEF TypeOK
        <5>2. counts.hit <= counts.zips - 1
          BY <1>8 DEF PlaceEnds, CountsInv, InPlace
        <5>3. QED  BY <5>1, <5>2
      <4>2. QED  BY <3>2, <4>1 DEF TypeOK
    <3>3. QED  BY <1>8, <3>1, <3>2 DEF PlaceEnds
  <2>3. completed' \subseteq CarlineSet
    BY <1>8, Bounds DEF PlaceEnds, Done, TypeOK
  <2>4. QED  BY <1>8, <2>1, <2>2, <2>3 DEF PlaceEnds, SiteStays, TypeOK, reading
<1>9. CASE UNCHANGED vars
  BY <1>9 DEF vars, reading, report, TypeOK
<1>10. QED  BY <1>1, <1>2, <1>3, <1>4, <1>5, <1>6, <1>7, <1>8, <1>9 DEF Next, Work

-----------------------------------------------------------------------------
(* The estimates and the counters.                                         *)

\* The counters at hand are numbers.
LEMMA Numbers ==
  ASSUME TypeOK
  PROVE  /\ place \in Nat \ {0} /\ carline \in Nat \ {0} /\ persisted \in Nat
         /\ counts.zips \in Nat /\ counts.hit \in Nat /\ counts.before \in Nat
         /\ cursor.no \in Nat \ {0} /\ cursor.total \in Nat /\ cursor.pages \in Nat \ {0} /\ cursor.saved \in Nat
         /\ LastPlace \in Nat \ {0} /\ carline <= Len(Carlines) /\ Len(Carlines) \in Nat
         /\ cursor.no <= MaxPages /\ MaxPages \in Nat
<1>1. Len(Carlines) \in Nat /\ Len(Places) \in Nat /\ MaxPages \in Nat /\ LastPlace \in Nat \ {0}
  BY Bounds
<1>2. /\ place \in 1 .. Len(Places) /\ carline \in 1 .. Len(Carlines)
      /\ cursor \in [no : 1 .. MaxPages, total : Nat, pages : Nat \ {0}, saved : Nat]
      /\ counts \in [zips : 0 .. Len(Places), hit : 0 .. Len(Places), before : Nat] /\ persisted \in Nat
  BY DEF TypeOK
<1>3. QED  BY <1>1, <1>2

\* A page after the first is asked for only if it was announced.
LEMMA AnnouncedStep == TypeOK /\ AsAnnounced /\ [Next]_vars => AsAnnounced'
<1> SUFFICES ASSUME TypeOK, AsAnnounced, [Next]_vars PROVE AsAnnounced'
  OBVIOUS
<1>1. ASSUME NEW c \in CarlineSet, NEW r \in RowsOf[c], SiteChanges(c, r) PROVE AsAnnounced'
  BY <1>1 DEF SiteChanges, AsAnnounced, reading
<1>2. ASSUME NEW ds \in SUBSET Dealers, Lookup(ds) PROVE AsAnnounced'
  BY <1>2 DEF Lookup, AsAnnounced, FirstPage
<1>3. ASSUME LookupFails PROVE AsAnnounced'
  BY <1>3 DEF LookupFails, Finalize, Fail, AsAnnounced, reading
<1>4. ASSUME Search PROVE AsAnnounced'
  <2>1. CASE UNCHANGED <<cursor, walk>>
    BY <1>4, <2>1 DEF Search, AsAnnounced
  <2>2. CASE ~(cursor.no > 1)
    <3>1. cursor.no = 1
      BY <2>2, Numbers
    <3>2. cursor'.no = 1
      BY <1>4, <3>1 DEF Search, TypeOK
    <3>3. QED  BY <3>2 DEF AsAnnounced
  <2>3. QED  BY <1>4, <2>1, <2>2 DEF Search
<1>5. ASSUME Session \/ SessionFails \/ SearchFails \/ WriteFails \/ NextCarline \/ PlaceEnds PROVE AsAnnounced'
  BY <1>5 DEF Session, SessionFails, SearchFails, WriteFails, Fail, NextCarline, PlaceEnds, Finalize, AsAnnounced, reading,
              FirstPage
<1>6. ASSUME WritePage PROVE AsAnnounced'
  <2> DEFINE cur == [cursor EXCEPT !.saved = @ + Cardinality(Unseen(hand))]
  <2>1. cur.no = cursor.no /\ cur.pages = cursor.pages /\ cur \in [no : 1 .. MaxPages, total : Nat, pages : Nat \ {0}, saved : Nat]
    <3>1. PICK m \in Nat : m = Cardinality(Unseen(hand))
      BY News
    <3>2. cursor \in [no : 1 .. MaxPages, total : Nat, pages : Nat \ {0}, saved : Nat] /\ cursor.saved + m \in Nat
      BY DEF TypeOK
    <3>3. QED  BY <3>1, <3>2
  <2>2. CASE pc' = "next"
    BY <2>2 DEF AsAnnounced
  <2> HIDE DEF cur
  <2>3. CASE cursor' = [cur EXCEPT !.no = @ + 1] /\ ~(cur.no >= cur.pages)
    <3>1. cursor'.no = cursor.no + 1 /\ cursor'.pages = cursor.pages /\ ~(cursor.no >= cursor.pages)
      BY <2>1, <2>3
    <3>2. QED  BY <3>1, Numbers DEF AsAnnounced
  <2>4. QED  BY <1>6, <2>2, <2>3 DEF WritePage, ShouldStop, cur
<1>7. CASE UNCHANGED vars
  BY <1>7 DEF vars, reading, AsAnnounced
<1>8. QED  BY <1>1, <1>2, <1>3, <1>4, <1>5, <1>6, <1>7 DEF Next, Work

\* The ZIPs processed and hit.
LEMMA CountsStep == TypeOK /\ CountsInv /\ [Next]_vars => CountsInv'
<1> SUFFICES ASSUME TypeOK, CountsInv, [Next]_vars PROVE CountsInv'
  OBVIOUS
<1>0. mode' = mode /\ LastPlace' = LastPlace
  BY DEF Next, Work, SiteChanges, Session, SessionFails, Lookup, LookupFails, Search, SearchFails, WritePage, WriteFails, NextCarline, PlaceEnds,
         SiteStays, vars, LastPlace
<1>1. CASE /\ UNCHANGED <<place, counts, persisted>>
           /\ \/ pc' = pc \/ (pc \in InPlace /\ pc' \in InPlace \cup {"failed"})
              \/ pc = "session" /\ pc' \in {"lookup", "failed"}
  BY <1>0, <1>1, Numbers DEF CountsInv, InPlace
<1>2. ASSUME NEW ds \in SUBSET Dealers, Lookup(ds) PROVE CountsInv'
  <2>1. counts'.zips = counts.zips + 1 /\ counts'.hit = counts.hit /\ counts'.before = persisted
    BY <1>2 DEF Lookup, TypeOK
  <2>2. QED  BY <1>0, <1>2, <2>1, Numbers DEF Lookup, CountsInv, InPlace
<1>3. ASSUME LookupFails PROVE CountsInv'
  BY <1>0, <1>3, Numbers DEF LookupFails, Finalize, Fail, CountsInv, InPlace
<1>4. ASSUME WritePage PROVE CountsInv'
  <2>1. persisted' = persisted + Cardinality(Unseen(hand)) /\ Cardinality(Unseen(hand)) \in Nat
    BY <1>4, News DEF WritePage
  <2>2. counts' = counts /\ place' = place /\ pc = "write" /\ pc' \in {"search", "next"}
    BY <1>4 DEF WritePage
  <2>3. QED  BY SMTT(30), <1>0, <2>1, <2>2, Numbers DEF CountsInv, InPlace
<1>5. ASSUME PlaceEnds PROVE CountsInv'
  <2>1. /\ counts'.zips = counts.zips /\ counts'.before = counts.before
        /\ counts'.hit = IF persisted > counts.before THEN counts.hit + 1 ELSE counts.hit
    BY <1>5 DEF PlaceEnds, TypeOK
  <2>2. /\ pc = "next" /\ persisted' = persisted
        /\ (pc' = "lookup" /\ place < LastPlace /\ place' = place + 1) \/ (pc' \in {"completed", "failed"} /\ place' = place)
    BY <1>5 DEF PlaceEnds, Finalize, Fail
  <2>3. /\ place <= LastPlace /\ counts.zips <= place /\ counts.hit <= counts.zips - 1
        /\ counts.hit <= counts.before /\ counts.before <= persisted
    BY <2>2 DEF CountsInv, InPlace
  <2>4. place' <= LastPlace' /\ counts'.zips <= (IF pc' \in {"session", "lookup"} THEN place' - 1 ELSE place')
    BY <1>0, <2>1, <2>2, <2>3, Numbers
  <2>5. counts'.hit <= counts'.zips /\ counts'.hit <= persisted' /\ counts'.before <= persisted'
    BY SMTT(30), <2>1, <2>2, <2>3, Numbers
  <2>6. QED  BY <2>2, <2>4, <2>5 DEF CountsInv, InPlace
<1>6. ASSUME NEW c \in CarlineSet, NEW r \in RowsOf[c], SiteChanges(c, r) PROVE CountsInv'
  BY <1>1, <1>6 DEF SiteChanges, report
<1>7. ASSUME Session \/ SessionFails \/ Search \/ SearchFails \/ WriteFails \/ NextCarline PROVE CountsInv'
  BY <1>1, <1>7 DEF Session, SessionFails, Search, SearchFails, WriteFails, Fail, NextCarline, report, InPlace
<1>8. CASE UNCHANGED vars
  BY <1>1, <1>8 DEF vars, report
<1>9. QED  BY <1>2, <1>3, <1>4, <1>5, <1>6, <1>7, <1>8 DEF Next, Work

\* What was stored, and its traces.
LEMMA StoredStep == TypeOK /\ CountsInv /\ StoredInv /\ [Next]_vars => StoredInv'
<1> SUFFICES ASSUME TypeOK, CountsInv, StoredInv, [Next]_vars PROVE StoredInv'
  OBVIOUS
<1>0. mode' = mode
  BY DEF Next, Work, SiteChanges, Session, SessionFails, Lookup, LookupFails, Search, SearchFails, WritePage, WriteFails, NextCarline, PlaceEnds,
         SiteStays, vars
<1>1. CASE /\ UNCHANGED <<seen, stored, persisted, counts, completed, carline>> /\ cursor'.saved = cursor.saved
           /\ \A r \in hand' : r[2] # NoVin
           /\ pc' = pc \/ pc' = "failed" \/ (pc \in InPlace /\ pc' \in InPlace) \/ (pc = "session" /\ pc' = "lookup")
  BY <1>0, <1>1 DEF StoredInv, InPlace
<1>2. ASSUME NEW ds \in SUBSET Dealers, Lookup(ds) PROVE StoredInv'
  <2>1. counts'.hit = counts.hit /\ cursor'.saved = 0
    BY <1>2 DEF Lookup, TypeOK, FirstPage
  <2>2. QED  BY <1>0, <1>2, <2>1 DEF Lookup, StoredInv, InPlace
<1>3. ASSUME LookupFails PROVE StoredInv'
  BY <1>0, <1>3 DEF LookupFails, Finalize, Fail, StoredInv, InPlace, reading
<1>4. ASSUME Search PROVE StoredInv'
  <2>1. cursor'.saved = cursor.saved
    BY <1>4 DEF Search, TypeOK
  <2>2. QED  BY <1>1, <1>4, <2>1 DEF Search, report, InPlace
<1>5. ASSUME WritePage PROVE StoredInv'
  <2> DEFINE new == Unseen(hand)
  <2>1. /\ seen' = seen \cup VinsOf(new) /\ stored' = stored \cup VinsOf(new) /\ persisted' = persisted + Cardinality(new)
        /\ UNCHANGED <<counts, completed, carline>> /\ hand' = {} /\ pc = "write" /\ pc' \in {"search", "next"}
    BY <1>5 DEF WritePage
  <2>2. cursor'.saved = cursor.saved + Cardinality(new)
    BY <1>5 DEF WritePage, TypeOK
  <2>3. /\ Cardinality(new) \in Nat /\ (Cardinality(new) = 0 <=> new = {})
        /\ Cardinality(stored \cup VinsOf(new)) <= Cardinality(stored) + Cardinality(new)
        /\ Cardinality(stored) \in Nat /\ Cardinality(stored \cup VinsOf(new)) \in Nat
    BY News
  <2>4. new # {} => VinsOf(new) # {}
    BY DEF Unseen, VinsOf, StoredInv
  <2>5. new = {} => VinsOf(new) = {}
    BY DEF VinsOf
  <2> HIDE DEF new
  <2>6. CASE new = {}
    <3>1. seen' = seen /\ stored' = stored /\ persisted' = persisted /\ cursor'.saved = cursor.saved
      BY <2>1, <2>2, <2>3, <2>5, <2>6, Numbers
    <3>2. QED  BY <1>1, <2>1, <3>1 DEF InPlace
  <2>7. CASE new # {}
    <3>1. persisted' > persisted /\ cursor'.saved > 0 /\ stored' # {} /\ persisted' > counts'.before
      <4>1. counts.before <= persisted
        BY DEF CountsInv
      <4>2. Cardinality(new) \in Nat \ {0}
        BY <2>3, <2>7
      <4>3. VinsOf(new) # {}
        BY <2>4, <2>7
      <4>4. QED  BY SMTT(30), <2>1, <2>2, <4>1, <4>2, <4>3, Numbers
    <3>2. Cardinality(stored') <= persisted'
      BY <2>1, <2>3, Numbers DEF StoredInv
    <3>3. seen' = stored' /\ \A r \in hand' : r[2] # NoVin
      BY <2>1 DEF StoredInv
    <3>4. QED  BY <1>0, <2>1, <3>1, <3>2, <3>3 DEF StoredInv, InPlace
  <2>8. QED  BY <2>6, <2>7
<1>6. ASSUME NextCarline PROVE StoredInv'
  <2>1. cursor'.saved = 0 /\ carline' = carline + 1 /\ completed' = Done /\ pc = "next" /\ pc' = "search"
    BY <1>6 DEF NextCarline, FirstPage
  <2>2. mode # "refresh" => \A i \in 1 .. carline' - 1 : Carlines[i] \in completed'
    <3>1. SUFFICES ASSUME mode # "refresh", NEW i \in 1 .. carline PROVE Carlines[i] \in completed'
      BY <2>1, Numbers
    <3>2. CASE i = carline
      BY <2>1, <3>1, <3>2 DEF Done, Here
    <3>3. CASE i \in 1 .. carline - 1
      BY <2>1, <3>1, <3>3 DEF Done, StoredInv, InPlace
    <3>4. QED  BY <3>2, <3>3, Numbers
  <2>3. UNCHANGED <<seen, stored, persisted, counts, hand>>
    BY <1>6 DEF NextCarline
  <2>4. completed \subseteq completed' /\ (cursor.saved > 0 => completed' # {})
        /\ (mode = "refresh" /\ completed' # {} => completed # {} \/ cursor.saved > 0)
    BY <2>1 DEF Done
  <2>5. QED  BY <1>0, <2>1, <2>2, <2>3, <2>4 DEF StoredInv, InPlace
<1>7. ASSUME PlaceEnds PROVE StoredInv'
  <2>1. /\ counts'.hit = IF persisted > counts.before THEN counts.hit + 1 ELSE counts.hit
        /\ completed' = Done /\ pc = "next" /\ pc' \in {"lookup", "completed", "failed"} /\ carline = Len(Carlines)
    BY <1>7 DEF PlaceEnds, TypeOK, Finalize, Fail
  <2>2. UNCHANGED <<seen, stored, persisted, cursor, hand>>
    BY <1>7 DEF PlaceEnds, reading
  <2>3. completed \subseteq completed' /\ (cursor.saved > 0 => completed' # {})
        /\ (mode = "refresh" /\ completed' # {} => completed # {} \/ cursor.saved > 0)
    BY <2>1 DEF Done
  <2>4. counts'.hit > 0 <=> counts.hit > 0 \/ persisted > counts.before
    BY <2>1, Numbers
  <2>5. persisted > counts.before => persisted > 0
    BY Numbers
  <2>6. mode # "refresh" => completed' = CarlineSet
    <3>1. SUFFICES ASSUME mode # "refresh" PROVE completed' = CarlineSet
      OBVIOUS
    <3>2. \A i \in 1 .. Len(Carlines) : Carlines[i] \in completed'
      <4>1. SUFFICES ASSUME NEW i \in 1 .. carline PROVE Carlines[i] \in completed'
        BY <2>1
      <4>2. CASE i = carline
        BY <2>1, <3>1, <4>2 DEF Done, Here
      <4>3. CASE i \in 1 .. carline - 1
        BY <2>1, <3>1, <4>3 DEF Done, StoredInv, InPlace
      <4>4. QED  BY <4>2, <4>3, Numbers
    <3>3. DOMAIN Carlines = 1 .. Len(Carlines)
      BY PagesAssumption
    <3>4. completed' \subseteq CarlineSet
      BY <2>1, Bounds DEF Done, TypeOK
    <3>5. QED  BY <3>2, <3>3, <3>4 DEF CarlineSet, Range
  <2>7. QED  BY <1>0, <2>1, <2>2, <2>3, <2>4, <2>5, <2>6 DEF StoredInv, InPlace
<1>8. ASSUME NEW c \in CarlineSet, NEW r \in RowsOf[c], SiteChanges(c, r) PROVE StoredInv'
  BY <1>1, <1>8 DEF SiteChanges, report, reading, StoredInv
<1>9. ASSUME Session \/ SessionFails \/ SearchFails \/ WriteFails PROVE StoredInv'
  BY <1>1, <1>9 DEF Session, SessionFails, SearchFails, WriteFails, Fail, reading, StoredInv
<1>10. CASE UNCHANGED vars
  BY <1>1, <1>10 DEF vars, report, reading, StoredInv
<1>11. QED  BY <1>2, <1>3, <1>4, <1>5, <1>6, <1>7, <1>8, <1>9, <1>10 DEF Next, Work

-----------------------------------------------------------------------------
(* The percentage.                                                         *)

\* The next place begins where this one ends.
LEMMA NextPlace ==
  ASSUME TypeOK, place < LastPlace
  PROVE  /\ place * Len(Carlines) \in Nat /\ After(Begun) <= After(place * Len(Carlines))
         /\ carline = Len(Carlines) => After(place * Len(Carlines)) = After(Begun + carline)
<1>1. place <= LastPlace
  BY Numbers
<1>2. Begun \in Nat /\ place * Len(Carlines) = Begun + Len(Carlines)
  BY <1>1, StepsSoFar
<1>3. PICK m \in Nat : m = place * Len(Carlines) /\ m = Begun + Len(Carlines) /\ Begun <= m
  BY <1>2, Numbers
<1>4. After(Begun) <= After(m)
  BY <1>2, <1>3, AfterSteps
<1>5. QED  BY <1>3, <1>4

\* The percentage keeps behind the work, and never falls from the look-up on.
LEMMA PercentStep ==
  TypeOK /\ CountsInv /\ PercentInv /\ [Next]_vars =>
    PercentInv' /\ (pc # "session" /\ pc' # "failed" => percent' >= percent)
<1> SUFFICES ASSUME TypeOK, CountsInv, PercentInv, [Next]_vars
             PROVE  PercentInv' /\ (pc # "session" /\ pc' # "failed" => percent' >= percent)
  OBVIOUS
<1>0. mode' = mode
  BY DEF Next, Work, SiteChanges, Session, SessionFails, Lookup, LookupFails, Search, SearchFails, WritePage, WriteFails, NextCarline, PlaceEnds,
         SiteStays, vars
<1>a. /\ \A k : After(k)' = After(k)
      /\ \A z, c, p, n : Percent(z, c, p, n)' = Percent(z, c, p, n)
  BY <1>0 DEF After, Percent, LastPlace
<1>b. place <= LastPlace /\ percent \in Nat /\ percent <= 100 /\ (pc # "completed" => percent <= 99)
  BY DEF CountsInv, PercentInv, TypeOK
<1>c. Percent(place, 1, 0, 1) = After(Begun) /\ After(Begun) \in 2 .. 99
  BY <1>b, Percentages
<1>1. CASE UNCHANGED <<pc, place, carline, cursor, percent>>
  BY <1>1, <1>a, <1>b DEF PercentInv, Begun
<1>2. CASE pc' = "failed" /\ percent' \in {percent, 0} /\ pc # "completed"
  BY <1>2, <1>b DEF PercentInv
<1>3. CASE pc' = "completed" /\ percent' = 100
  BY <1>3, <1>b DEF PercentInv
<1>4. ASSUME NEW ds \in SUBSET Dealers, Lookup(ds) PROVE PercentInv' /\ percent' >= percent
  <2>1. percent' = After(Begun) /\ percent <= After(Begun)
    BY <1>4, <1>c DEF Lookup, PercentInv
  <2>2. /\ pc' = "search" /\ cursor' = FirstPage /\ carline' = 1 /\ place' = place
    BY <1>4 DEF Lookup
  <2>3. Percent(place', carline', cursor'.no - 1, cursor'.pages) = After(Begun)
    BY <1>c, <2>2 DEF FirstPage
  <2>4. Percent(place, carline, cursor.no - 1, cursor.pages)' = After(Begun)
    BY <1>a, <2>3
  <2>5. percent' <= 99 /\ percent' <= AtMost99(After(Begun))
    BY <1>c, <2>1 DEF AtMost99
  <2>6. PercentInv'
    BY <2>2, <2>4, <2>5 DEF PercentInv
  <2>7. QED  BY <1>b, <1>c, <2>1, <2>6
<1>5. ASSUME LookupFails PROVE PercentInv' /\ (pc' # "failed" => percent' >= percent)
  <2>1. CASE pc = "lookup" /\ place < LastPlace /\ pc' = pc /\ place' = place + 1 /\ percent' = Percent(place, 1, 0, 1)
    <3>1. percent' = After(Begun) /\ percent <= After(Begun) /\ percent' <= 99
      BY <1>c, <2>1 DEF PercentInv
    <3>2. After(Begun)' = After(place * Len(Carlines))
      <4>1. Begun' = place * Len(Carlines)
        <5>1. place' - 1 = place
          BY <2>1, Numbers
        <5>2. QED  BY <5>1 DEF Begun
      <4>2. QED  BY <1>0, <4>1 DEF After, LastPlace
    <3>3. After(Begun) <= After(place * Len(Carlines))
      BY <2>1, NextPlace
    <3>4. PercentInv'
      BY <2>1, <3>1, <3>2, <3>3 DEF PercentInv
    <3>5. QED  BY <1>b, <1>c, <3>1, <3>4
  <2>2. QED  BY <1>2, <1>3, <1>5, <2>1 DEF LookupFails, Finalize, Fail
<1>6. ASSUME Search PROVE PercentInv' /\ percent' >= percent
  <2>1. pc = "search" /\ pc' \in {"write", "next"} /\ UNCHANGED <<place, carline, percent>>
    BY <1>6 DEF Search, report
  <2>2. PICK x \in Nat, y \in Nat : /\ x = Percent(place, carline, cursor.no - 1, cursor.pages)
                                    /\ y = After(Begun + carline) /\ x <= y /\ percent <= AtMost99(x)
    BY <1>b, <2>1, Percentages DEF PercentInv
  <2>3. percent' <= AtMost99(After(Begun + carline)) /\ percent' <= 99
    BY <1>b, <2>1, <2>2 DEF AtMost99
  <2>4. CASE pc' = "next"
    <3>1. After(Begun + carline)' = After(Begun + carline)
      BY <1>0, <2>1 DEF After, Begun, LastPlace
    <3>2. QED  BY <1>b, <2>1, <2>3, <2>4, <3>1 DEF PercentInv, AtMost99
  <2>5. CASE pc' = "write" /\ cursor' = cursor
    <3>1. PercentInv'
      BY <1>a, <1>b, <2>1, <2>5 DEF PercentInv, Begun
    <3>2. QED  BY <1>b, <2>1, <3>1
  <2>6. CASE pc' = "write" /\ ~(cursor.no > 1)
    <3>1. cursor.no = 1 /\ cursor'.no = 1 /\ cursor'.pages \in Nat \ {0}
      <4>1. cursor.no = 1
        BY <2>6, Numbers
      <4>2. cursor'.no = 1
        BY <1>6, <4>1 DEF Search, TypeOK
      <4>3. cursor'.pages \in Nat \ {0}
        BY TypeStep DEF TypeOK
      <4>4. QED  BY <4>1, <4>2, <4>3
    <3>2. \A p \in Nat \ {0} : Percent(place, carline, 0, p) = After(Begun + carline - 1)
      BY <1>b, Percentages
    <3>3. Percent(place, carline, cursor'.no - 1, cursor'.pages) = Percent(place, carline, cursor.no - 1, cursor.pages)
      BY <3>1, <3>2, Numbers
    <3>4. Percent(place, carline, cursor.no - 1, cursor.pages)' = Percent(place, carline, cursor'.no - 1, cursor'.pages)
      BY <1>a, <2>1
    <3>5. PercentInv'
      BY <2>1, <2>2, <2>3, <2>6, <3>3, <3>4 DEF PercentInv
    <3>6. QED  BY <1>b, <2>1, <3>5
  <2>7. QED  BY <1>6, <2>1, <2>4, <2>5, <2>6 DEF Search
<1>7. ASSUME WritePage PROVE PercentInv' /\ percent' >= percent
  <2>1. /\ pc = "write" /\ pc' \in {"search", "next"} /\ UNCHANGED <<place, carline>>
        /\ percent' = AtMost99(Percent(place, carline, cursor.no, cursor.pages))
    BY <1>7 DEF WritePage
  <2>2. PICK x \in Nat, y \in Nat, z \in Nat :
               /\ x = Percent(place, carline, cursor.no - 1, cursor.pages)
               /\ y = Percent(place, carline, cursor.no, cursor.pages)
               /\ z = After(Begun + carline) /\ x <= y /\ y <= z
    BY <1>b, Percentages
  <2>3. percent' = AtMost99(y) /\ percent <= AtMost99(x)
    BY <2>1, <2>2 DEF PercentInv
  <2>4. percent' <= 99 /\ percent' >= percent /\ percent' <= AtMost99(z)
    BY <1>b, <2>2, <2>3 DEF AtMost99
  <2>5. CASE pc' = "next"
    <3>1. After(Begun + carline)' = After(Begun + carline)
      BY <1>0, <2>1 DEF After, Begun, LastPlace
    <3>2. QED  BY <2>2, <2>4, <2>5, <3>1 DEF PercentInv
  <2>6. CASE pc' = "search"
    <3>1. cursor'.no - 1 = cursor.no /\ cursor'.pages = cursor.pages
      <4>1. PICK m \in Nat : m = Cardinality(Unseen(hand))
        BY News
      <4>2. cursor' = [[cursor EXCEPT !.saved = @ + m] EXCEPT !.no = @ + 1]
        BY <1>7, <2>6, <4>1 DEF WritePage
      <4>3. cursor \in [no : 1 .. MaxPages, total : Nat, pages : Nat \ {0}, saved : Nat]
        BY DEF TypeOK
      <4>4. cursor'.no = cursor.no + 1 /\ cursor'.pages = cursor.pages
        BY <4>2, <4>3
      <4>5. QED  BY <4>4, Numbers
    <3>2. Percent(place, carline, cursor.no - 1, cursor.pages)' = y
      <4>1. Percent(place, carline, cursor.no - 1, cursor.pages)' = Percent(place', carline', cursor'.no - 1, cursor'.pages)
        BY <1>a
      <4>2. QED  BY <2>1, <2>2, <3>1, <4>1
    <3>3. PercentInv'
      <4>1. AtMost99(y) \in Nat
        BY <2>2 DEF AtMost99
      <4>2. percent' <= AtMost99(y)
        BY <2>3, <4>1
      <4>3. QED  BY <2>1, <2>4, <2>6, <3>2, <4>2 DEF PercentInv
    <3>4. QED  BY <2>4, <3>3
  <2>7. QED  BY <2>1, <2>5, <2>6
<1>8. ASSUME NextCarline PROVE PercentInv' /\ percent' >= percent
  <2>1. /\ pc = "next" /\ pc' = "search" /\ place' = place /\ carline' = carline + 1 /\ cursor' = FirstPage
        /\ carline < Len(Carlines)
        /\ percent' \in {Percent(place, carline + 1, 0, 1), AtMost99(Percent(place, carline + 1, 0, 1))}
    BY <1>8 DEF NextCarline
  <2>2. PICK z \in Nat : z = After(Begun + carline) /\ z <= 99 /\ z = Percent(place, carline + 1, 0, 1)
    BY <1>b, <2>1, Percentages
  <2>3. percent' = z /\ percent <= z /\ AtMost99(z) = z
    BY <2>1, <2>2 DEF PercentInv, AtMost99
  <2>4. Percent(place, carline, cursor.no - 1, cursor.pages)' = z
    <3>1. Percent(place, carline, cursor.no - 1, cursor.pages)' = Percent(place', carline', cursor'.no - 1, cursor'.pages)
      BY <1>a
    <3>2. cursor'.no - 1 = 0 /\ cursor'.pages = 1
      BY <2>1 DEF FirstPage
    <3>3. QED  BY <2>1, <2>2, <3>1, <3>2
  <2>5. PercentInv'
    BY <2>1, <2>2, <2>3, <2>4 DEF PercentInv
  <2>6. QED  BY <1>b, <2>2, <2>3, <2>5
<1>9. ASSUME PlaceEnds PROVE PercentInv' /\ (pc' # "failed" => percent' >= percent)
  <2>1. CASE pc' = "lookup" /\ place < LastPlace /\ place' = place + 1 /\ percent' = percent
    <3>1. pc = "next" /\ carline = Len(Carlines)
      BY <1>9 DEF PlaceEnds
    <3>2. PICK z \in Nat : z = After(Begun + carline)
      BY <1>b, Percentages
    <3>3. percent <= z
      BY <1>b, <3>1, <3>2 DEF PercentInv, AtMost99
    <3>4. After(Begun)' = z
      <4>1. Begun' = place * Len(Carlines)
        <5>1. place' - 1 = place
          BY <2>1, Numbers
        <5>2. QED  BY <5>1 DEF Begun
      <4>2. After(Begun)' = After(place * Len(Carlines))
        BY <1>0, <4>1 DEF After, LastPlace
      <4>3. QED  BY <2>1, <3>1, <3>2, <4>2, NextPlace
    <3>5. PercentInv'
      BY <1>b, <2>1, <3>1, <3>3, <3>4 DEF PercentInv
    <3>6. QED  BY <1>b, <2>1, <3>5
  <2>2. QED  BY <1>2, <1>3, <1>9, <2>1 DEF PlaceEnds, Finalize, Fail
<1>10. ASSUME NEW c \in CarlineSet, NEW r \in RowsOf[c], SiteChanges(c, r)
       PROVE  PercentInv' /\ (pc # "session" /\ pc' # "failed" => percent' >= percent)
  BY <1>1, <1>10 DEF SiteChanges, reading, report
<1>11. ASSUME SessionFails \/ SearchFails \/ WriteFails PROVE PercentInv' /\ pc' = "failed"
  BY <1>2, <1>11 DEF SessionFails, SearchFails, WriteFails, Fail
<1>14. ASSUME Session PROVE PercentInv' /\ pc = "session"
  <2>1. pc = "session" /\ pc' = "lookup" /\ place' = place /\ percent' \in {percent, 0}
    BY <1>14 DEF Session
  <2>2. After(Begun)' = After(Begun)
    BY <1>0, <2>1 DEF After, Begun, LastPlace
  <2>3. percent' <= After(Begun) /\ percent' <= 99
    BY <1>b, <1>c, <2>1 DEF PercentInv
  <2>4. QED  BY <2>1, <2>2, <2>3 DEF PercentInv
<1>12. CASE UNCHANGED vars
  BY <1>1, <1>12 DEF vars, reading, report
<1>13. QED  BY <1>4, <1>5, <1>6, <1>7, <1>8, <1>9, <1>10, <1>11, <1>12, <1>14 DEF Next, Work

-----------------------------------------------------------------------------
(* The walk.                                                               *)

\* A page that has been written is among the pages read.
LEMMA OneMorePage ==
  ASSUME NEW list, NEW before, NEW n \in Nat
  PROVE  before \cup UNION {VinsOf(PageOf(list, q)) : q \in 1 .. n + 1} =
           (before \cup UNION {VinsOf(PageOf(list, q)) : q \in 1 .. n}) \cup VinsOf(PageOf(list, n + 1))
<1>1. \A q : q \in 1 .. n + 1 <=> q \in 1 .. n \/ q = n + 1
  OBVIOUS
<1>2. QED  BY <1>1

\* What the first answer settles, kept up to the last page.
LEMMA WalkStep == TypeOK /\ StoredInv /\ WalkInv /\ [Next]_vars => WalkInv'
<1> SUFFICES ASSUME TypeOK, StoredInv, WalkInv, [Next]_vars PROVE WalkInv'
  OBVIOUS
<1>1. CASE UNCHANGED <<pc, site, carline, dealers, cursor, hand, seen, walk>>
  <2>1. Here' = Here /\ Listing(Here, dealers)' = Listing(Here, dealers)
    BY <1>1 DEF Here, Listing
  <2>2. QED  BY <1>1, <2>1 DEF WalkInv
<1>2. CASE pc' \in {"session", "lookup", "next", "completed", "failed"}
  BY <1>2 DEF WalkInv
<1>3. CASE pc' = "search" /\ cursor' = FirstPage
  <2>1. cursor'.no = 1 /\ cursor'.saved = 0
    BY <1>3 DEF FirstPage
  <2>2. (cursor'.no - 1) * PageSize = 0
    BY <2>1, PagesAssumption
  <2>3. QED  BY <1>3, <2>1, <2>2 DEF WalkInv
<1>4. ASSUME NEW c \in CarlineSet, NEW r \in RowsOf[c], SiteChanges(c, r) PROVE WalkInv'
  <2>1. /\ walk'.still = FALSE /\ walk'.announced = walk.announced /\ walk'.rows = walk.rows
        /\ UNCHANGED <<pc, carline, cursor, hand>> /\ Here' = Here
    BY <1>4 DEF SiteChanges, TypeOK, reading, Here
  <2>2. QED  BY <2>1 DEF WalkInv
<1>5. ASSUME Search PROVE WalkInv'
  <2> DEFINE list == Listing(Here, dealers)
  <2>1. /\ pc = "search" /\ pc' \in {"next", "write"} /\ UNCHANGED <<site, carline, dealers, seen>>
        /\ hand' = {r \in PageOf(list, cursor.no) : r[2] # NoVin}
        /\ Here' = Here /\ Listing(Here, dealers)' = list
    BY <1>5 DEF Search, SiteStays, Here, Listing
  <2>2. CASE cursor.no > 1 /\ cursor' = cursor /\ walk' = walk
    BY <1>2, <2>1, <2>2 DEF WalkInv
  <2>3. CASE ~(cursor.no > 1)
    <3>1. PICK n \in {0, Len(list)} :
               /\ cursor' = [cursor EXCEPT !.total = EstimatedTotal(Here, n), !.pages = EstimatedPages(EstimatedTotal(Here, n))]
               /\ walk' = [rows |-> list, announced |-> n, before |-> seen, still |-> TRUE]
      BY <1>5, <2>3 DEF Search
    <3> HIDE DEF list
    <3>2. cursor.no = 1
      BY <2>3, Numbers
    <3>3. /\ cursor'.no = 1 /\ cursor'.saved = cursor.saved
          /\ cursor'.total = EstimatedTotal(Here, n) /\ cursor'.pages = EstimatedPages(EstimatedTotal(Here, n))
      BY <3>1, <3>2 DEF TypeOK
    <3>4. walk'.rows = list /\ walk'.announced = n /\ walk'.before = seen
      BY <3>1
    <3>5. seen = seen \cup UNION {VinsOf(PageOf(list, q)) : q \in 1 .. 1 - 1}
      OBVIOUS
    <3>6. QED  BY <1>2, <2>1, <3>2, <3>3, <3>4, <3>5 DEF WalkInv, EstimatedTotal, EstimatedPages
  <2>4. QED  BY <1>5, <2>2, <2>3 DEF Search
<1>6. ASSUME WritePage PROVE WalkInv'
  <2> DEFINE new == Unseen(hand)
  <2>1. /\ pc = "write" /\ pc' \in {"search", "next"} /\ UNCHANGED <<site, carline, dealers, walk>>
        /\ Here' = Here /\ Listing(Here, dealers)' = Listing(Here, dealers) /\ seen' = seen \cup VinsOf(new)
    BY <1>6 DEF WritePage, SiteStays, Here, Listing
  <2>2. CASE pc' = "search"
    <3>1. PICK m \in Nat : m = Cardinality(new) /\ m <= PageSize
      BY News
    <3>2. /\ cursor'.no = cursor.no + 1 /\ cursor'.pages = cursor.pages /\ cursor'.total = cursor.total
          /\ cursor'.saved = cursor.saved + m
      <4>1. cursor' = [[cursor EXCEPT !.saved = @ + m] EXCEPT !.no = @ + 1]
        BY <1>6, <2>2, <3>1 DEF WritePage
      <4>2. cursor \in [no : 1 .. MaxPages, total : Nat, pages : Nat \ {0}, saved : Nat]
        BY DEF TypeOK
      <4>3. QED  BY <4>1, <4>2
    <3>3. PICK k \in Nat : cursor.no = k + 1
      <4>1. cursor.no - 1 \in Nat /\ cursor.no = cursor.no - 1 + 1
        BY Numbers
      <4>2. QED  BY <4>1
    <3>4. cursor'.saved <= (cursor'.no - 1) * PageSize
      <4>1. cursor.saved <= k * PageSize
        <5>1. cursor.no - 1 = k
          BY <3>3
        <5>2. QED  BY <2>1, <5>1 DEF WalkInv
      <4>2. cursor'.no - 1 = k + 1
        BY <3>2, <3>3
      <4>3. (k + 1) * PageSize = k * PageSize + PageSize /\ k * PageSize \in Nat /\ PageSize \in Nat
        BY PagesAssumption
      <4>4. PICK j \in Nat : j = k * PageSize
        BY <4>3
      <4>5. cursor.saved + m <= j + PageSize
        BY <3>1, <4>1, <4>3, <4>4, Numbers
      <4>6. QED  BY <3>2, <4>2, <4>3, <4>4, <4>5
    <3>5. /\ walk.announced \in {0, Len(walk.rows)}
          /\ cursor'.total = EstimatedTotal(Here, walk.announced) /\ cursor'.pages = EstimatedPages(cursor'.total)
      BY <2>1, <3>2 DEF WalkInv
    <3>6. ASSUME walk.still
          PROVE  /\ walk.rows = Listing(Here, dealers)
                 /\ seen' = walk.before \cup UNION {VinsOf(PageOf(walk.rows, q)) : q \in 1 .. cursor'.no - 1}
      <4>1. /\ walk.rows = Listing(Here, dealers)
            /\ seen = walk.before \cup UNION {VinsOf(PageOf(walk.rows, q)) : q \in 1 .. cursor.no - 1}
            /\ hand = {r \in PageOf(walk.rows, cursor.no) : r[2] # NoVin}
        BY <2>1, <3>6 DEF WalkInv
      <4>2. seen \cup VinsOf(new) = seen \cup VinsOf(hand)
        BY DEF VinsOf, Unseen
      <4>3. VinsOf(hand) = VinsOf(PageOf(walk.rows, k + 1))
        BY <3>3, <4>1 DEF VinsOf
      <4>4. cursor.no - 1 = k /\ cursor'.no - 1 = k + 1
        BY <3>2, <3>3
      <4>5. walk.before \cup UNION {VinsOf(PageOf(walk.rows, q)) : q \in 1 .. k + 1} =
              (walk.before \cup UNION {VinsOf(PageOf(walk.rows, q)) : q \in 1 .. k}) \cup VinsOf(PageOf(walk.rows, k + 1))
        BY OneMorePage
      <4> HIDE DEF new
      <4>6. QED  BY <2>1, <4>1, <4>2, <4>3, <4>4, <4>5, Zenon
    <3>7. QED  BY <2>1, <2>2, <3>4, <3>5, <3>6 DEF WalkInv, EstimatedTotal, EstimatedPages
  <2>3. QED  BY <1>2, <2>1, <2>2
<1>7. ASSUME NEW ds \in SUBSET Dealers, Lookup(ds) PROVE WalkInv'
  BY <1>3, <1>7 DEF Lookup
<1>8. ASSUME NextCarline PROVE WalkInv'
  BY <1>3, <1>8 DEF NextCarline
<1>9. ASSUME Session \/ SessionFails \/ LookupFails \/ SearchFails \/ WriteFails \/ PlaceEnds PROVE WalkInv'
  BY <1>2, <1>9 DEF Session, SessionFails, LookupFails, SearchFails, WriteFails, PlaceEnds, Finalize, Fail
<1>10. CASE UNCHANGED vars
  BY <1>1, <1>10 DEF vars, reading
<1>11. QED  BY <1>4, <1>5, <1>6, <1>7, <1>8, <1>9, <1>10 DEF Next, Work

\* If k pages are all there are, their VINs are all that are listed.
LEMMA ReadToEnd ==
  ASSUME NEW list \in Seq(Rows), NEW k \in Nat, Len(list) <= k * PageSize,
         NEW S, UNION {VinsOf(PageOf(list, q)) : q \in 1 .. k} \subseteq S
  PROVE  VinsOf(Range(list)) \subseteq S
<1>1. Range(list) \subseteq UNION {PageOf(list, q) : q \in 1 .. k}
  BY PagesCover
<1>2. ASSUME NEW r \in Range(list), r[2] # NoVin PROVE r[2] \in S
  <2>1. PICK q \in 1 .. k : r \in PageOf(list, q)
    BY <1>1
  <2>2. r[2] \in VinsOf(PageOf(list, q))
    BY <1>2, <2>1 DEF VinsOf
  <2>3. QED  BY <2>2
<1>3. QED  BY <1>2 DEF VinsOf

\* A page that ends the walk though rows follow it breaks one of the conditions.
LEMMA StopsAtEnd ==
  ASSUME NEW list \in Seq(Rows), NEW no \in Nat \ {0}, no * PageSize < Len(list), no <= MaxPages,
         \A i, j \in DOMAIN list : list[i] = list[j] => i = j,
         NEW kept \in Nat, kept = Cardinality(PageOf(list, no)), NEW new \in Nat \ {0},
         NEW cur, cur.no = no, cur.total \in Nat, cur.saved \in Nat, cur.saved <= no * PageSize,
         Len(list) <= cur.total, cur.pages = EstimatedPages(cur.total),
         Cardinality(PageNos(list)) <= MaxPages
  PROVE  ~ShouldStop(kept, new, cur)
<1>1. PageSize \in Nat \ {0} /\ MaxPages \in Nat /\ Len(list) \in Nat
  BY PagesAssumption
<1>2. PICK b \in Nat : b = no * PageSize /\ b < Len(list) /\ cur.saved <= b
  BY <1>1
<1>3. kept = PageSize
  BY <1>1, <1>2, PageFull
<1>4. ~(cur.saved >= cur.total) /\ cur.total > 0 /\ b < cur.total
  BY <1>1, <1>2
<1>5. ~(no >= cur.pages)
  <2>1. cur.pages = (cur.total + PageSize - 1) \div PageSize
    BY <1>4 DEF EstimatedPages
  <2>2. /\ (cur.total + PageSize - 1) \div PageSize \in Nat
        /\ (cur.total + PageSize - 1) \div PageSize <= no <=> cur.total <= no * PageSize
    BY PagesTaken
  <2>3. QED  BY <1>2, <1>4, <2>1, <2>2
<1>6. ~(no >= MaxPages)
  <2>1. PICK p \in Nat : p = (Len(list) + PageSize - 1) \div PageSize
    BY <1>1, PagesTaken
  <2>2. ~(p <= no)
    BY <1>1, <1>2, <2>1, PagesTaken
  <2>3. Cardinality(PageNos(list)) = p
    <3>1. PageNos(list) = 0 + 1 .. 0 + p
      BY <2>1 DEF PageNos
    <3>2. QED  BY <3>1, Stretch
  <2>4. QED  BY <1>1, <2>2, <2>3
<1>7. QED  BY <1>1, <1>3, <1>4, <1>5, <1>6 DEF ShouldStop

\* A walk that ends where it may has stored every vehicle.
LEMMA ReadsAllStep ==
  TypeOK /\ StoredInv /\ WalkInv /\ [Next]_vars =>
    (WalkEnds /\ Readable(walk') => VinsOf(Range(walk'.rows)) \subseteq stored')
<1> SUFFICES ASSUME TypeOK, StoredInv, WalkInv, [Next]_vars, WalkEnds, Readable(walk')
             PROVE  VinsOf(Range(walk'.rows)) \subseteq stored'
  OBVIOUS
<1> DEFINE list == Listing(Here, dealers)
<1>0. /\ list \in Seq(Rows) /\ Len(list) \in Nat /\ \A i, j \in DOMAIN list : list[i] = list[j] => i = j
      /\ PageSize \in Nat \ {0} /\ MaxPages \in Nat \ {0}
  BY Answer, PagesAssumption
<1>1. PICK k \in Nat : cursor.no = k + 1 /\ cursor.no - 1 = k /\ k + 1 <= MaxPages
  <2>1. cursor.no - 1 \in Nat /\ cursor.no = cursor.no - 1 + 1 /\ cursor.no <= MaxPages
    BY Numbers
  <2>2. QED  BY <2>1
<1> HIDE DEF list
<1>2. CASE Search
  <2>1. /\ pc = "search" /\ stored' = stored /\ seen = stored
        /\ {r \in PageOf(list, cursor.no) : r[2] # NoVin} = {}
    BY <1>2 DEF WalkEnds, Search, StoredInv, list
  <2>2. walk'.rows = list
    <3>1. CASE cursor.no > 1 /\ walk' = walk
      BY <2>1, <3>1 DEF WalkInv, Readable, list
    <3>2. CASE ~(cursor.no > 1)
      BY <1>2, <3>2 DEF Search, list
    <3>3. QED  BY <1>2, <3>1, <3>2 DEF Search
  <2>3. PageOf(list, k + 1) = {}
    <3>1. \A i \in DOMAIN list : list[i][2] # NoVin
      BY <2>2 DEF Readable
    <3>2. \A r \in PageOf(list, k + 1) : r[2] # NoVin
      BY <3>1 DEF PageOf
    <3>3. QED  BY <1>1, <2>1, <3>2
  <2>4. Len(list) <= k * PageSize
    <3>1. k + 1 \in Nat \ {0} /\ k + 1 - 1 = k
      OBVIOUS
    <3>2. Len(list) <= (k + 1 - 1) * PageSize
      BY <1>0, <2>3, <3>1, PageEmpty
    <3>3. QED  BY <3>1, <3>2
  <2>5. UNION {VinsOf(PageOf(list, q)) : q \in 1 .. k} \subseteq stored'
    <3>1. CASE cursor.no > 1 /\ walk' = walk
      <4>1. seen = walk.before \cup UNION {VinsOf(PageOf(walk.rows, q)) : q \in 1 .. cursor.no - 1}
        BY <2>1, <3>1 DEF WalkInv, Readable
      <4>2. seen = walk.before \cup UNION {VinsOf(PageOf(list, q)) : q \in 1 .. k}
        BY <1>1, <2>2, <3>1, <4>1
      <4>3. QED  BY <2>1, <4>2
    <3>2. CASE ~(cursor.no > 1)
      <4>1. k = 0
        BY <1>1, <3>2
      <4>2. QED  BY <4>1
    <3>3. QED  BY <1>2, <3>1, <3>2 DEF Search
  <2>6. QED  BY <1>0, <2>2, <2>4, <2>5, ReadToEnd
<1>3. CASE WritePage
  <2> DEFINE new == Unseen(hand)
             cur == [cursor EXCEPT !.saved = @ + Cardinality(new)]
  <2>1. /\ pc = "write" /\ walk' = walk /\ stored' = stored \cup VinsOf(new) /\ seen = stored
        /\ ShouldStop(Cardinality(hand), Cardinality(new), cur)
    BY <1>3 DEF WalkEnds, WritePage, StoredInv
  <2>2. /\ walk.rows = list /\ walk.announced \in {0, Len(list)} /\ walk.still
        /\ cursor.total = EstimatedTotal(Here, walk.announced) /\ cursor.pages = EstimatedPages(cursor.total)
        /\ cursor.saved <= k * PageSize
        /\ seen = walk.before \cup UNION {VinsOf(PageOf(list, q)) : q \in 1 .. k}
        /\ hand = {r \in PageOf(list, k + 1) : r[2] # NoVin}
    BY <1>1, <2>1 DEF WalkInv, Readable, list
  <2>3. hand = PageOf(list, k + 1)
    <3>1. \A i \in DOMAIN list : list[i][2] # NoVin
      BY <2>1, <2>2 DEF Readable
    <3>2. \A r \in PageOf(list, k + 1) : r[2] # NoVin
      BY <3>1 DEF PageOf
    <3>3. QED  BY <2>2, <3>2
  <2>4. VinsOf(PageOf(list, k + 1)) \subseteq stored'
    BY <2>1, <2>3 DEF VinsOf, Unseen
  <2>5. UNION {VinsOf(PageOf(list, q)) : q \in 1 .. k + 1} \subseteq stored'
    <3>1. \A q : q \in 1 .. k + 1 => q \in 1 .. k \/ q = k + 1
      OBVIOUS
    <3> HIDE DEF new
    <3>2. QED  BY <2>1, <2>2, <2>4, <3>1
  <2>6. CASE Len(list) <= (k + 1) * PageSize
    <3>1. k + 1 \in Nat
      OBVIOUS
    <3>2. VinsOf(Range(list)) \subseteq stored'
      BY <1>0, <2>5, <2>6, <3>1, ReadToEnd
    <3>3. QED  BY <2>1, <2>2, <3>2
  <2>7. CASE ~(Len(list) <= (k + 1) * PageSize)
    <3>1. k + 1 \in Nat \ {0} /\ (k + 1) * PageSize = k * PageSize + PageSize /\ k * PageSize \in Nat
      BY <1>0
    <3>2. (k + 1) * PageSize < Len(list)
      BY <1>0, <2>7, <3>1
    <3>3. Cardinality(new) # 0
      <4>1. SUFFICES ASSUME Cardinality(new) = 0 PROVE FALSE
        OBVIOUS
      <4>2. new = {}
        BY <4>1, News
      <4>3. VinsOf(PageOf(list, k + 1)) \subseteq walk.before \cup UNION {VinsOf(PageOf(list, q)) : q \in 1 .. k}
        BY <2>2, <2>3, <4>2 DEF VinsOf, Unseen
      <4>4. PICK p \in Nat : p = (Len(list) + PageSize - 1) \div PageSize
        BY <1>0, PagesTaken
      <4>5. ~(p <= k + 1)
        BY <1>0, <2>7, <4>4, PagesTaken
      <4>6. PageNos(list) = 1 .. p /\ k + 1 \in 1 .. p /\ k + 1 + 1 \in 1 .. p /\ k + 1 - 1 = k
        BY <4>4, <4>5 DEF PageNos
      <4>7. ~(VinsOf(PageOf(list, k + 1)) \subseteq walk.before \cup UNION {VinsOf(PageOf(list, q)) : q \in 1 .. k + 1 - 1})
        BY <2>1, <2>2, <4>6 DEF Readable, EveryPageNew
      <4>8. QED  BY <4>3, <4>6, <4>7
    <3>4. PICK m \in Nat \ {0} : m = Cardinality(new) /\ m <= PageSize
      BY <3>3, News
    <3>5. cur.no = k + 1 /\ cur.total = cursor.total /\ cur.pages = cursor.pages /\ cur.saved = cursor.saved + m
      <4>1. cur = [cursor EXCEPT !.saved = @ + m]
        BY <3>4
      <4>2. cursor \in [no : 1 .. MaxPages, total : Nat, pages : Nat \ {0}, saved : Nat]
        BY DEF TypeOK
      <4> HIDE DEF cur
      <4>3. QED  BY <1>1, <4>1, <4>2
    <3>6. cur.saved \in Nat /\ cur.saved <= (k + 1) * PageSize
      <4>1. PICK j \in Nat : j = k * PageSize /\ (k + 1) * PageSize = j + PageSize
        BY <3>1
      <4> HIDE DEF cur
      <4>2. QED  BY SMTT(30), <1>0, <2>2, <3>4, <3>5, <4>1, Numbers
    <3>7. Len(list) <= cur.total /\ cur.total \in Nat
      <4>1. walk.announced = Len(list) \/ CatalogCount[Here] >= Len(list)
        BY <2>1, <2>2 DEF Readable
      <4>2. Len(list) > 0
        BY <1>0, <3>1, <3>2
      <4>3. CatalogCount[Here] \in Nat
        BY Bounds
      <4> HIDE DEF cur
      <4>4. cursor.total = IF walk.announced > 0 THEN walk.announced ELSE CatalogCount[Here]
        BY <2>2 DEF EstimatedTotal
      <4>5. cursor.total \in Nat /\ Len(list) <= cursor.total
        BY <1>0, <2>2, <4>1, <4>2, <4>3, <4>4
      <4>6. QED  BY <3>5, <4>5
    <3>8. Cardinality(PageNos(list)) <= MaxPages
      BY <2>1, <2>2 DEF Readable
    <3>9. Cardinality(hand) \in Nat /\ Cardinality(hand) = Cardinality(PageOf(list, k + 1))
      BY <2>3, News
    <3> HIDE DEF cur, new
    <3>10. ~ShouldStop(Cardinality(hand), m, cur)
      BY <1>0, <1>1, <2>2, <3>1, <3>2, <3>4, <3>5, <3>6, <3>7, <3>8, <3>9, StopsAtEnd
    <3>11. QED  BY <2>1, <3>4, <3>10
  <2>8. QED  BY <2>6, <2>7
<1>4. QED
  <2>1. pc \in {"search", "write"} /\ pc' = "next"
    BY DEF WalkEnds
  <2>2. QED  BY <1>2, <1>3, <2>1 DEF Next, Work, SiteChanges, Session, SessionFails, Lookup, LookupFails, SearchFails, WriteFails,
              NextCarline, PlaceEnds, Finalize, Fail, vars

-----------------------------------------------------------------------------
(* The theorems.                                                           *)

\* The invariant holds at the start.
LEMMA PagesInitInv == Init => PagesIInv
<1> SUFFICES ASSUME Init PROVE PagesIInv
  OBVIOUS
<1>1. TypeOK
  BY TypeInit
<1>2. AsAnnounced /\ WalkInv
  BY DEF Init, AsAnnounced, WalkInv, FirstPage
<1>3. CountsInv
  BY <1>1, Bounds DEF Init, CountsInv, InPlace
<1>4. StoredInv
  BY FS_EmptySet DEF Init, StoredInv, InPlace, FirstPage
<1>5. PercentInv
  <2>1. place = 1 /\ pc = "session" /\ percent = 1
    BY DEF Init
  <2>2. After(Begun) \in 2 .. 99
    BY <1>1, <1>3, Percentages DEF CountsInv
  <2>3. QED  BY <2>1, <2>2 DEF PercentInv
<1>6. QED  BY <1>1, <1>2, <1>3, <1>4, <1>5 DEF PagesIInv

\* Every step keeps it.
LEMMA PagesStepInv == PagesIInv /\ [Next]_vars => PagesIInv'
BY TypeStep, AnnouncedStep, CountsStep, StoredStep, PercentStep, WalkStep DEF PagesIInv

\* The invariant that the others follow from, for every site that lists what it
\* likes and changes when it likes: types, the estimates of the first answer, the
\* ZIP counters, the VINs stored, the percentage and the pages read.
THEOREM PagesAlways == Spec => []PagesIInv
BY PagesInitInv, PagesStepInv, PTL DEF Spec

\* What the last message says follows from the counters.
LEMMA ReportsTrue == PagesIInv => ReportAddsUp
<1> SUFFICES ASSUME PagesIInv PROVE ReportAddsUp
  OBVIOUS
<1>1. TypeOK /\ CountsInv /\ StoredInv
  BY DEF PagesIInv
<1>2. seen = stored /\ Cardinality(stored) <= persisted
  BY <1>1 DEF StoredInv
<1>3. counts.hit <= counts.zips /\ counts.hit <= persisted
  BY <1>1, Numbers DEF CountsInv
<1>4. ASSUME pc = "completed", mode = "refresh"
      PROVE  (completed # {} <=> stored # {}) /\ (counts.hit > 0 <=> stored # {})
  BY <1>1, <1>4 DEF StoredInv, InPlace
<1>5. pc = "completed" /\ counts.hit = counts.zips => persisted >= counts.zips
  BY <1>1, <1>3, Numbers
<1>6. pc = "completed" /\ mode # "refresh" => completed = CarlineSet
  BY <1>1 DEF StoredInv
<1>7. QED  BY <1>2, <1>3, <1>4, <1>5, <1>6 DEF ReportAddsUp

\* The walk keeps to what it was announced, and what the run reports is true.
THEOREM PagesKept == Spec => []PagesInv
<1>1. PagesIInv => PagesInv
  BY ReportsTrue DEF PagesIInv, PagesInv
<1>2. QED  BY <1>1, PagesAlways, PTL

\* The progress of the admin page never goes back from the dealer look-up to the
\* end of the run, over pages, carlines and ZIPs.
THEOREM PercentKept == Spec => PercentNeverFalls
<1>1. PagesIInv /\ [Next]_vars => [pc # "session" /\ pc' # "failed" => percent' >= percent]_vars
  BY PercentStep DEF PagesIInv
<1>2. QED  BY <1>1, PagesAlways, PTL DEF Spec, PercentNeverFalls

\* A walk that the site does not disturb stores every vehicle of its listing,
\* whatever the size of the pages and of the listing.
THEOREM WalkReadsAllKept == Spec => WalkReadsAll
<1>1. PagesIInv /\ [Next]_vars => [WalkEnds /\ Readable(walk') => VinsOf(Range(walk'.rows)) \subseteq stored']_vars
  BY ReadsAllStep DEF PagesIInv
<1>2. QED  BY <1>1, PagesAlways, PTL DEF Spec, WalkReadsAll

=============================================================================
