------------------------------ MODULE PriceViews ------------------------------
(***************************************************************************)
(* What the inventory pages make of prices: statistics and the histogram   *)
(* (api/inventory.py), the price groups, the effect of options and the     *)
(* comparison with the MSRP (api/pricing.py).  A row is a vehicle of the   *)
(* list; prices are whole and rounding of floats is left out, so averages  *)
(* appear as sums and counts, and medians doubled.  f stands for a         *)
(* function from the vehicles that have a price to the price.              *)
(***************************************************************************)
EXTENDS Integers, Sequences, FiniteSets, FiniteSetsExt, SequencesExt

CONSTANTS Bars,             \* buckets of a histogram, 16 in the code
          MinSamples,       \* MIN_MODEL_SAMPLES, MIN_MSRP_TRIM_SAMPLES: 3 in the code
          MinOptionSamples, \* 12 in the code
          Tolerance         \* MSRP_MATCH_TOLERANCE, 1 in the code

ASSUME PriceAssumption ==
  {Bars, MinSamples, MinOptionSamples} \subseteq Nat \ {0} /\ Tolerance \in Nat

NoPrice == -1     \* NULL

\* A row of vehicle_prices.
PriceRow == [adv : Nat \cup {NoPrice}, nonsp : Nat \cup {NoPrice},
             total : Nat \cup {NoPrice}, base : Nat \cup {NoPrice}]

Coalesce(a, b) == IF a # NoPrice THEN a ELSE b
Positive(a)    == IF a > 0 THEN a ELSE NoPrice

-----------------------------------------------------------------------------
(* Which price and which MSRP count.                                       *)

\* Price and MSRP of the statistics and of the sort order: _scoped_price_sql.
Price(r) == Coalesce(r.adv, r.nonsp)
Msrp(r)  == Coalesce(r.total, r.base)

Views == {"map", "insights", "endpoint"}

\* Mutant of SaleIn: the insights prefer the price without programs.
SaleInSwapped(view, r) ==
  CASE view = "map"      -> Coalesce(Positive(r.adv), Positive(r.nonsp))
    [] view = "insights" -> Positive(Coalesce(r.nonsp, r.adv))
    [] view = "endpoint" -> Positive(r.adv)

\* The geo map takes the first price above 0; the comparison of the analytics
\* has the one of the statistics; /msrp-comparison works on the items of the
\* list, which lack non_sp_advertized_price.
SaleIn(view, r) ==
  CASE view = "map"      -> Coalesce(Positive(r.adv), Positive(r.nonsp))
    [] view = "insights" -> Positive(Price(r))
    [] view = "endpoint" -> Positive(r.adv)

MsrpIn(view, r) ==
  IF view = "insights" THEN Positive(Msrp(r)) ELSE Coalesce(Positive(r.total), Positive(r.base))

Compared(view, r) == SaleIn(view, r) # NoPrice /\ MsrpIn(view, r) # NoPrice
Delta(view, r)    == SaleIn(view, r) - MsrpIn(view, r)

-----------------------------------------------------------------------------
(* Statistics.                                                             *)

Sum(f) == SumFunction(f)

\* v comes before w among the values in ascending order.
Lower(f, v, w) == f[v] < f[w] \/ (f[v] = f[w] /\ v < w)

Ascending(f) ==
  [i \in 1 .. Cardinality(DOMAIN f) |->
    f[CHOOSE v \in DOMAIN f : Cardinality({w \in DOMAIN f : Lower(f, w, v)}) = i - 1]]

TwiceMedian(f) ==
  LET s   == Ascending(f)
      mid == Len(s) \div 2
  IN  IF Len(s) % 2 = 0 THEN s[mid] + s[mid + 1] ELSE 2 * s[mid + 1]

\* compute_numeric_stats, of at least one value.
Stats(f) == [min |-> Min(Range(f)), max |-> Max(Range(f)), sum |-> Sum(f),
             median2 |-> TwiceMedian(f), count |-> Cardinality(DOMAIN f)]

Width(f) == Max({Max(Range(f)) - Min(Range(f)), 1})

\* Mutant of BarOf: the greatest value is beyond the last bar.
BarOfUnclamped(f, x) == ((x - Min(Range(f))) * Bars) \div Width(f) + 1

\* The bar of a value: the greatest one belongs to the last bar.
BarOf(f, x) == Min({Bars, ((x - Min(Range(f))) * Bars) \div Width(f) + 1})

\* compute_histogram; start and end of a bar are in Bars-ths.
Histogram(f) ==
  [i \in 1 .. Bars |->
    [start |-> Min(Range(f)) * Bars + (i - 1) * Width(f),
     end   |-> IF i = Bars THEN Max(Range(f)) * Bars ELSE Min(Range(f)) * Bars + i * Width(f),
     count |-> Cardinality({v \in DOMAIN f : BarOf(f, f[v]) = i})]]

\* build_analytics_payload, _pick_metric: the MSRP, if it alone has enough values.
MetricOf(prices, msrps) ==
  IF Cardinality(DOMAIN prices) < MinSamples /\ Cardinality(DOMAIN msrps) >= MinSamples
  THEN "total_msrp" ELSE "advertized_price"

-----------------------------------------------------------------------------
(* Insights.                                                               *)

Part(f, S) == [v \in DOMAIN f \cap S |-> f[v]]

\* _group_stats: the groups (by key[v]) that are large enough, with the difference of the
\* medians, doubled.
GroupStats(f, key, min) ==
  LET group(k) == Part(f, {v \in DOMAIN f : key[v] = k})
  IN  {[key |-> k, stats |-> Stats(group(k)), delta2 |-> TwiceMedian(group(k)) - TwiceMedian(f)] :
       k \in {k \in {key[v] : v \in DOMAIN f} : Cardinality(DOMAIN group(k)) >= min}}

\* One option of _option_impact_rows: those without it are counted by subtraction.
Impact(f, having) ==
  LET with == Part(f, having)
  IN  [with |-> Cardinality(DOMAIN with), sumWith |-> Sum(with),
       without |-> Cardinality(DOMAIN f) - Cardinality(DOMAIN with), sumWithout |-> Sum(f) - Sum(with)]

\* Options whose effect is shown; having[o] is the set of vehicles with o.
ShownOptions(f, having) ==
  {o \in DOMAIN having : LET n == Impact(f, having[o])
                         IN  n.with >= MinOptionSamples /\ n.without >= MinOptionSamples}

\* Summary of _build_msrp_comparison, and of each trim with enough vehicles.
Sides(deltas) ==
  LET below == {v \in DOMAIN deltas : deltas[v] < -Tolerance}
      above == {v \in DOMAIN deltas : deltas[v] > Tolerance}
  IN  [count |-> Cardinality(DOMAIN deltas), below |-> Cardinality(below), above |-> Cardinality(above),
       at |-> Max({0, Cardinality(DOMAIN deltas) - Cardinality(below) - Cardinality(above)}),
       sum |-> Sum(deltas)]

\* Those that are listed as trims below and above the MSRP, by their average.
Trims(deltas, key) ==
  LET of(k) == Sides(Part(deltas, {v \in DOMAIN deltas : key[v] = k}))
  IN  {[key |-> k, sides |-> of(k)] :
       k \in {k \in {key[v] : v \in DOMAIN deltas} : of(k).count >= MinSamples /\ of(k).sum # 0}}
=============================================================================
