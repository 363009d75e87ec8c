------------------------------- MODULE Listings -------------------------------
(***************************************************************************)
(* What a user of the inventory page sees: the facets of /api/filters, the *)
(* pages of /api/inventory, its export, the analytics and the geo map, for *)
(* the filters chosen so far.  Three functions build the WHERE clauses,    *)
(* _build_vehicle_scope for the facets, _append_inventory_filters for all  *)
(* others, append_run_location_filters for both; the price filter is known *)
(* to the second only.  The page asks again after every choice; ingests    *)
(* commit in between.                                                      *)
(*                                                                         *)
(* A vehicle is one of those that the pointers show (InventoryRuns.Shown). *)
(* Names are compared by MySQL regardless of case, but by Python as they   *)
(* are spelt; and the page joins the chosen names by commas, at which the  *)
(* server splits them again.  The codes of series and options and the      *)
(* names of states have no comma and one spelling.                         *)
(***************************************************************************)
EXTENDS PriceViews

CONSTANTS Vehicles,   \* VINs: naturals
          Car,        \* Car[v]: [series, attr, label, price, priced, options, active, trim];
                      \* priced: its run has a row of prices for it; label: of its stage
          Class(_),   \* what MySQL compares of a name
          Meant(_),   \* the names, so compared, that the server reads when this one is sent
          Facets,     \* facets over one column, "dealer" among them
          Defaulted,  \* those whose NULL is shown as Unknown; else it is left out
          Dealer,     \* Dealer[d]: [state, miles]: cached, miles from the search ZIP
          StateCode,  \* US_STATE_NAME_TO_CODE: code of a name or code, or NoState
          FullName,   \* US_STATE_CODE_TO_NAME
          Name,       \* Name[d]: the dealer's place in alphabetical order
          MinMiles, MaxMiles,
          PageSize,
          MaxMarkers, \* dealers on the geo map, 400 in the code
          Fleets,     \* bound: sequence of the vehicles shown, before and after ingests
          MaxChosen,  \* bound: choices at once
          MaxCharted  \* bound: the same, while a histogram is shown

Null    == "null"
NoState == ""
NoBrush == [metric |-> "none", start |-> 0, end |-> 0]
NoCoords == -1
NoChart == [metric |-> "none", bars |-> <<>>]

Series  == {Car[v].series : v \in Vehicles}
TrimOf  == [v \in Vehicles |-> Car[v].trim]   \* _trim_key
Options == UNION {Car[v].options : v \in Vehicles}
States  == {Dealer[d].state : d \in DOMAIN Dealer} \ {NoState}

\* normalize_state_code; a name it does not know stands for itself.
Code(s) == IF StateCode[s] = NoState THEN s ELSE StateCode[s]

\* A code is the code of itself, and only the full name of a state has another one.
StatesAssumption ==
  /\ \A s \in States : Code(Code(s)) = Code(s) /\ Code(s) \notin {Null, NoState}
  /\ \A s \in States : Code(s) # s => Code(s) \in DOMAIN FullName /\ FullName[Code(s)] = s
  /\ \A c \in DOMAIN FullName : FullName[c] # NoState

\* The full name of c leads back to c, if a dealer is cached under it.  For DC it does not:
\* title() makes "District Of Columbia", which is no key of US_STATE_NAME_TO_CODE.
LeadsBack(c) == c \in DOMAIN FullName /\ FullName[c] \in States => Code(FullName[c]) = c

ASSUME ListingsAssumption ==
  /\ Vehicles \subseteq Nat /\ IsFiniteSet(Vehicles)
  /\ Defaulted \subseteq Facets \ {"dealer"} /\ "dealer" \in Facets
  /\ Facets \cap {"none", "series", "option", "state"} = {}
  /\ \A v \in Vehicles : Car[v].price \in PriceRow /\ {Car[v].active, Car[v].priced} \subseteq BOOLEAN
  /\ \A v \in Vehicles : Car[v].attr["dealer"] \in DOMAIN Dealer \cup {Null}
  /\ StatesAssumption
  /\ Fleets \in Seq(SUBSET Vehicles) \ {<<>>} /\ {PageSize, MaxMarkers} \subseteq Nat \ {0}

\* COALESCE(column, 'Unknown').
Known(f, v) == IF f \in Defaulted /\ Car[v].attr[f] = Null THEN "Unknown" ELSE Car[v].attr[f]

ValuesOf(f) == {Known(f, v) : v \in Vehicles} \ {Null}

VARIABLES
  ingests,  \* ingests that have committed
  chosen,   \* the filters: FilterContext
  chart,    \* the histogram on the page, drawn when analytics last came
  brush,    \* price_metric, price_min and price_max, in Bars-ths
  sort,     \* sort_key and sort_dir
  page,     \* the last page read, 0 for none
  answer,   \* how the request for it ended
  total,    \* total_count of the last page
  shown,    \* history: the VINs of the pages read since the last choice
  still     \* history: the pages read are of one list

\* The vehicles that the pointers show.
fleet == Fleets[ingests + 1]

asked == <<chosen, brush, sort>>
read  == <<page, answer, total, shown>>
vars  == <<ingests, asked, chart, read, still>>

Anything == [series |-> {}, sel |-> [f \in Facets |-> {}], options |-> {}, states |-> {},
             zip |-> "none", near |-> {}, active |-> TRUE]

-----------------------------------------------------------------------------
(* Where a vehicle is.                                                     *)

\* expand_state_filter_values.
Expand(states) == {Code(s) : s \in states} \cup {FullName[c] : c \in {Code(s) : s \in states} \cap DOMAIN FullName}

DealerOf(v) == Car[v].attr["dealer"]
StateOf(v)  == IF DealerOf(v) = Null THEN NoState ELSE Dealer[DealerOf(v)].state
MilesTo(v)  == IF DealerOf(v) = Null THEN NoCoords ELSE Dealer[DealerOf(v)].miles

\* append_run_location_filters: states switch the distance off, and so does a ZIP
\* that is missing or that nobody can place.
Located(v, c) ==
  IF Expand(c.states) # {} THEN StateOf(v) \in Expand(c.states)
  ELSE c.zip = "found" /\ c.near # {} =>
         /\ MilesTo(v) # NoCoords
         /\ "max" \in c.near => MilesTo(v) <= MaxMiles
         /\ "min" \in c.near => MilesTo(v) >= MinMiles

-----------------------------------------------------------------------------
(* The facets.                                                             *)

\* The names of a facet that the server reads, when xs are chosen: it splits at
\* commas and drops what is blank.
Sent(xs) == UNION {Meant(x) : x \in xs}

\* One IN clause of the filters.
Fits(v, f, xs) == Sent(xs) # {} => Known(f, v) # Null /\ Class(Known(f, v)) \in Sent(xs)

\* Mutant of Scope: a facet is narrowed by its own filter too.
ScopeKeepsOwn(c, own) ==
  {v \in fleet :
    /\ c.series # {} => Car[v].series \in c.series
    /\ c.active => Car[v].active
    /\ \A f \in Facets : Fits(v, f, c.sel[f])
    /\ c.options \subseteq Car[v].options
    /\ Located(v, c)}

\* _build_vehicle_scope with exclude = own, or "none".
Scope(c, own) ==
  {v \in fleet :
    /\ own # "series" /\ c.series # {} => Car[v].series \in c.series
    /\ c.active => Car[v].active
    /\ \A f \in Facets \ {own} : Fits(v, f, c.sel[f])
    /\ own # "option" => c.options \subseteq Car[v].options
    /\ own # "state" => Located(v, c)}

SeriesOnly(c) == [Anything EXCEPT !.series = c.series, !.active = c.active]

\* GROUP BY: a stage has an item for each of its labels, and NULL one of its own.
Group(f, v) ==
  IF f = "stage" THEN <<Car[v].attr[f] = Null, Class(Known(f, v)), Car[v].label>> ELSE <<Class(Known(f, v))>>

\* What `value in available' may say of the spelling x, when the vehicles S are available:
\* of the spellings of a name among them, DISTINCT returns any one.
Offers(S, f, x) ==
  LET found == {Known(f, v) : v \in {v \in S : Known(f, v) # Null /\ Class(Known(f, v)) = Class(x)}}
  IN  IF found = {} THEN {FALSE} ELSE {x = y : y \in found}

\* Items that the model, colour, drivetrain, stage or dealer facet may have: one for each
\* group, in any of its spellings.
FacetItems(c, f) ==
  LET named == {v \in Scope(SeriesOnly(c), "none") : Known(f, v) # Null}
      open  == Scope(c, f)
  IN  UNION {{[value |-> Known(f, v), group |-> Group(f, v),
               count |-> Cardinality({w \in named : Group(f, w) = Group(f, v)}), available |-> a] :
              a \in Offers(open, f, Known(f, v))} : v \in named}

SeriesItems(c) ==
  LET all == Scope([Anything EXCEPT !.active = c.active], "none")
  IN  {[value |-> s, count |-> Cardinality({v \in all : Car[v].series = s}),
        available |-> \E v \in Scope(c, "series") : Car[v].series = s] : s \in {Car[v].series : v \in all} \ {Null}}

\* _query_state_facets: one item for all names of a state, and all are available.
StateItems(c) ==
  LET placed == {v \in Scope(SeriesOnly(c), "none") : StateOf(v) # NoState}
  IN  {[value |-> s, count |-> Cardinality({v \in placed : Code(StateOf(v)) = s})] :
       s \in {Code(StateOf(v)) : v \in placed}}

OptionItems(c) ==
  LET all == Scope(SeriesOnly(c), "none")
  IN  {[value |-> o, count |-> Cardinality({v \in all : o \in Car[v].options}),
        available |-> \E v \in Scope(c, "option") : o \in Car[v].options] :
       o \in UNION {Car[v].options : v \in all}}

ContextCount(c) == Cardinality(Scope(c, "none"))

-----------------------------------------------------------------------------
(* The list.                                                               *)

\* The column that the price filter compares.
Column(v, metric) == IF metric = "total_msrp" THEN Car[v].price.total ELSE Car[v].price.adv

\* Mutant of Brushed: the upper end is left out.
BrushedBelow(v, b) ==
  b # NoBrush => /\ Column(v, b.metric) # NoPrice
                 /\ Column(v, b.metric) * Bars \in b.start .. b.end - 1

Brushed(v, b) ==
  b # NoBrush => /\ Column(v, b.metric) # NoPrice
                 /\ Column(v, b.metric) * Bars \in b.start .. b.end

\* _inventory_scope, which joins the row of prices, and _append_inventory_filters, with
\* filter_mode = model as the page asks.
Listed(c, b) ==
  {v \in fleet :
    /\ Car[v].priced
    /\ c.series # {} => Car[v].series \in c.series
    /\ \A f \in Facets : Fits(v, f, c.sel[f])
    /\ Located(v, c)
    /\ c.active => Car[v].active
    /\ Brushed(v, b)}

\* With options the statement names wheels.wheel_options, which it does not join.
Refused(c) == c.options # {}

SortValue(v) == IF sort.key = "total_msrp" THEN Msrp(Car[v].price) ELSE Price(Car[v].price)

\* Mutant of Before: the VIN does not break a tie.
BeforeUnbroken(v, w) ==
  \/ SortValue(v) # NoPrice /\ SortValue(w) = NoPrice
  \/ /\ SortValue(v) # NoPrice /\ SortValue(w) # NoPrice
     /\ IF sort.desc THEN SortValue(v) > SortValue(w) ELSE SortValue(v) < SortValue(w)

\* _inventory_order_clause: missing values last, in both directions; then the VIN.
Before(v, w) ==
  \/ SortValue(v) # NoPrice /\ SortValue(w) = NoPrice
  \/ SortValue(v) = SortValue(w) /\ v < w
  \/ /\ SortValue(v) # NoPrice /\ SortValue(w) # NoPrice
     /\ IF sort.desc THEN SortValue(v) > SortValue(w) ELSE SortValue(v) < SortValue(w)

\* The orders in which the database may answer.
Orders(S) == {s \in SetToSeqs(S) : \A i, j \in DOMAIN s : i < j => ~Before(s[j], s[i])}

PageCount(n) == (n + PageSize - 1) \div PageSize

\* LIMIT page_size OFFSET (page - 1) * page_size.
PageOf(s, p) == SubSeq(s, (p - 1) * PageSize + 1, Min({Len(s), p * PageSize}))

-----------------------------------------------------------------------------
(* Analytics and the geo map, of the vehicles listed.                      *)

PricesOf(S) == [v \in {v \in S : Price(Car[v].price) # NoPrice} |-> Price(Car[v].price)]
MsrpsOf(S)  == [v \in {v \in S : Msrp(Car[v].price) # NoPrice} |-> Msrp(Car[v].price)]

Metric(S)  == MetricOf(PricesOf(S), MsrpsOf(S))
MetricsOf(S) == IF Metric(S) = "total_msrp" THEN MsrpsOf(S) ELSE PricesOf(S)

\* compute_histogram has none for fewer than three values.
HasHistogram(S) == Cardinality(DOMAIN MetricsOf(S)) >= MinSamples

BrushOf(metric, bar) == [metric |-> metric, start |-> bar.start, end |-> bar.end]

ChartOf(S) == [metric |-> Metric(S), bars |-> Histogram(MetricsOf(S))]

DeltasOf(view, S) ==
  [v \in {v \in S : Compared(view, Car[v].price)} |-> Delta(view, Car[v].price)]

Having(S) == [o \in Options |-> {v \in S : o \in Car[v].options}]

\* fetch_inventory_geo_map: the summary, and a marker for each of the dealers with
\* most vehicles, as many as there is room for.
GeoMap(S) ==
  LET mapped     == {v \in S : MilesTo(v) # NoCoords}
      at(d)      == Cardinality({v \in mapped : DealerOf(v) = d})
      dealers    == {DealerOf(v) : v \in mapped}
      ahead(d, e) == at(d) > at(e) \/ (at(d) = at(e) /\ Name[d] < Name[e])
      first      == CHOOSE T \in SUBSET dealers :
                      /\ Cardinality(T) = Min({Cardinality(dealers), MaxMarkers})
                      /\ \A d \in T : \A e \in dealers \ T : ~ahead(e, d)
      deltas     == DeltasOf("map", S)
  IN  [count |-> Cardinality(S), mapped |-> Cardinality(mapped),
       unmapped |-> Max({0, Cardinality(S) - Cardinality(mapped)}),
       below |-> {v \in DOMAIN deltas : deltas[v] < 0}, above |-> {v \in DOMAIN deltas : deltas[v] > 0},
       markers |-> [d \in first |-> at(d)]]

-----------------------------------------------------------------------------
(* The user and the ingests.                                               *)

TypeOK ==
  /\ ingests \in 0 .. Len(Fleets) - 1
  /\ chosen \in [series : SUBSET Series, sel : [Facets -> SUBSET UNION {ValuesOf(f) : f \in Facets}],
                 options : SUBSET Options, states : SUBSET {Code(s) : s \in States},
                 zip : {"none", "lost", "found"}, near : SUBSET {"min", "max"}, active : BOOLEAN]
  /\ \A f \in Facets : chosen.sel[f] \subseteq ValuesOf(f)
  /\ sort \in [key : {"advertized_price", "total_msrp"}, desc : BOOLEAN]
  /\ answer \in {"none", "rows", "error"} /\ page \in Nat /\ total \in Nat /\ still \in BOOLEAN
  /\ shown \in Seq(Vehicles) /\ Len(shown) <= page * PageSize
  /\ still /\ answer = "rows" => page <= Max({1, PageCount(total)}) /\ Len(shown) = Min({total, page * PageSize})

FirstSort == [key |-> "advertized_price", desc |-> FALSE]

Unread == /\ page' = 0 /\ answer' = "none" /\ total' = 0 /\ shown' = <<>> /\ still' = TRUE

Init ==
  /\ ingests = 0
  /\ chosen = Anything /\ brush = NoBrush /\ chart = NoChart
  /\ sort = FirstSort
  /\ page = 0 /\ answer = "none" /\ total = 0 /\ shown = <<>> /\ still = TRUE

\* How far the request is from the one the page begins with; a ZIP that can be
\* placed does not count.
Size(c, order) ==
  Cardinality(c.series) + Cardinality(c.options) + Cardinality(c.states) + Cardinality(c.near)
  + SumFunction([f \in Facets |-> Cardinality(c.sel[f])])
  + Cardinality({c.zip} \cap {"lost"}) + Cardinality({c.active} \ {TRUE}) + Cardinality({order} \ {FirstSort})

\* Chooses a value or takes it back.
Toggled(S, x) == IF x \in S THEN S \ {x} ELSE S \cup {x}

\* A choice of one filter; the facets offer the values.
Clicks(c) ==
  {[c EXCEPT !.series = Toggled(@, i.value)] : i \in SeriesItems(c)}
  \cup (UNION {{[c EXCEPT !.sel[f] = Toggled(@, i.value)] : i \in FacetItems(c, f)} : f \in Facets})
  \cup {[c EXCEPT !.options = Toggled(@, i.value)] : i \in OptionItems(c)}
  \cup {[c EXCEPT !.states = Toggled(@, i.value)] : i \in StateItems(c)}
  \cup {[c EXCEPT !.near = Toggled(@, n)] : n \in {"min", "max"}}
  \cup {[c EXCEPT !.zip = z] : z \in {"none", "lost", "found"}}
  \cup {[c EXCEPT !.active = ~@]}

\* While a histogram is shown, a ZIP that can be placed counts as well.
Charting(c, order) == Size(c, order) + Cardinality({c.zip} \cap {"found"}) <= MaxCharted

Bounded(c, order) == IF chart = NoChart THEN Size(c, order) <= MaxChosen ELSE Charting(c, order)

Choose == /\ chosen' \in Clicks(chosen) \ {chosen} /\ Bounded(chosen', sort)
          /\ Unread /\ UNCHANGED <<ingests, brush, sort, chart>>

Sort == /\ sort' \in [key : {"advertized_price", "total_msrp"}, desc : BOOLEAN] \ {sort}
        /\ Bounded(chosen, sort')
        /\ Unread /\ UNCHANGED <<ingests, chosen, brush, chart>>

\* The analytics come, some time after a list: renderDistributionChart.  Without a
\* histogram - too few prices, or the request failed - and with one of the other metric
\* the brush goes too, but the list stays as it is.
Analyse ==
  /\ Charting(chosen, sort)
  /\ LET S == Listed(chosen, brush)
     IN  \/ /\ ~Refused(chosen) /\ HasHistogram(S)
            /\ chart' = ChartOf(S)
            /\ brush' = IF brush.metric = Metric(S) THEN brush ELSE NoBrush
         \/ chart' = NoChart /\ brush' = NoBrush
  /\ still' = (page = 0 \/ (still /\ brush' = brush))
  /\ UNCHANGED <<ingests, chosen, sort, read>>

\* The user picks a bar of the histogram on the page, which may be of an older list or of
\* the list for another bar; the bar picked last is let go.
Brush == /\ \E i \in DOMAIN chart.bars :
              /\ chart.bars[i].count > 0
              /\ LET b == BrushOf(chart.metric, chart.bars[i])
                 IN  brush' = IF b = brush THEN NoBrush ELSE b
         /\ Unread /\ UNCHANGED <<ingests, chosen, sort, chart>>

\* Clear Bin Filter, and refreshAll when an ingest has ended.
Unbrush == /\ brush' = NoBrush
           /\ Unread /\ UNCHANGED <<ingests, chosen, sort, chart>>

\* The first page, then one after the other (inventory_response).
ReadPage ==
  /\ answer = "none" \/ page < PageCount(total)
  /\ IF Refused(chosen)
     THEN answer' = "error" /\ UNCHANGED <<page, total, shown>>
     ELSE /\ answer' = "rows" /\ page' = page + 1
          /\ total' = Cardinality(Listed(chosen, brush))
          /\ \E s \in Orders(Listed(chosen, brush)) : shown' = shown \o PageOf(s, page')
  /\ UNCHANGED <<ingests, asked, chart, still>>

\* An ingest commits: other vehicles are shown from now on.
Ingest == /\ ingests + 1 < Len(Fleets) /\ ingests' = ingests + 1
          /\ still' = (page = 0)
          /\ UNCHANGED <<asked, chart, read>>

Next == Choose \/ Sort \/ Analyse \/ Brush \/ Unbrush \/ ReadPage \/ Ingest

Spec == Init /\ [][Next]_vars
-----------------------------------------------------------------------------
(* Properties.                                                             *)

Now == Listed(chosen, brush)

\* A name that reaches the server as it is, and a fleet with all rows of prices.
Plain(x) == Meant(x) = {Class(x)}
Whole    == \A v \in fleet : Car[v].priced

OneSpelling(f, x) == \A v \in fleet : Known(f, v) # Null /\ Class(Known(f, v)) = Class(x) => Known(f, v) = x

\* The facets lead on: choosing a value that a facet shows as available, in place
\* of that facet's choice, gives a list with vehicles - if the value holds no comma
\* and no row of prices is missing - and choosing one that is not gives an empty
\* list, if the value has one spelling; and every value that a listed vehicle has
\* is offered.  States are left out, which the code always shows as available, and
\* so are options, which the list refuses.
FacetsLeadOn ==
  ~Refused(chosen) =>
    /\ \A f \in Facets :
         LET items == FacetItems(chosen, f)
         IN  /\ \A i \in items : Plain(i.value) =>
                  LET list == Listed([chosen EXCEPT !.sel[f] = {i.value}], NoBrush)
                  IN  /\ i.available /\ Whole => list # {}
                      /\ list # {} /\ OneSpelling(f, i.value) => i.available
             /\ \A v \in Now : Known(f, v) # Null => \E i \in items : Class(i.value) = Class(Known(f, v))
    /\ \A i \in SeriesItems(chosen) :
         LET list == Listed([chosen EXCEPT !.series = {i.value}], NoBrush)
         IN  /\ i.available /\ Whole => list # {}
             /\ list # {} => i.available

\* The numbers next to a value, added up over its groups.
CountOf(items, x) ==
  LET same == {i \in items : Class(i.value) = Class(x)}
  IN  SumFunction([g \in {i.group : i \in same} |-> (CHOOSE i \in same : i.group = g).count])

\* The number next to a value of a facet - for a stage the numbers next to all of its
\* labels - or to a state under all of its names, is the number of vehicles listed
\* for it and the series alone; the list has fewer while rows of prices are missing.
\* Left out are values with a comma, and a state whose full name does not lead back
\* to it: the filter takes both names, the facet counts one.
CountsAreTrue ==
  /\ \A f \in Facets :
       LET items == FacetItems(chosen, f)
       IN  \A i \in items : Plain(i.value) =>
             LET list == Listed([SeriesOnly(chosen) EXCEPT !.sel[f] = {i.value}], NoBrush)
             IN  /\ Cardinality(list) <= CountOf(items, i.value)
                 /\ Whole => Cardinality(list) = CountOf(items, i.value)
  /\ \A i \in StateItems(chosen) : LeadsBack(i.value) =>
       LET list == Listed([SeriesOnly(chosen) EXCEPT !.states = {i.value}], NoBrush)
       IN  Cardinality(list) <= i.count /\ (Whole => Cardinality(list) = i.count)

\* The facets' context count, the total of the list and the geo map agree, though
\* three queries count: without a price filter, which the facets do not know, and
\* without options.  The list has fewer vehicles while rows of prices are missing.
\* The markers count every vehicle with coordinates, if there are not too many
\* dealers for them.
CountsAgree ==
  ~Refused(chosen) =>
    LET map == GeoMap(Now)
    IN  /\ Cardinality(Now) <= ContextCount(chosen)
        /\ brush = NoBrush /\ Whole => ContextCount(chosen) = Cardinality(Now)
        /\ map.mapped + map.unmapped = Cardinality(Now)
        /\ Cardinality({DealerOf(v) : v \in Now}) <= MaxMarkers => SumFunction(map.markers) = map.mapped

\* Facets, list and map tell the same story.
FacetsAreTrue == TypeOK /\ FacetsLeadOn /\ CountsAreTrue /\ CountsAgree

\* The pages put together are the export, no vehicle twice and none missing, if
\* meanwhile no ingest commits and no analytics take the brush away.
PagesAreTheExport ==
  answer = "rows" /\ still /\ page >= PageCount(total) => Orders(Now) = {shown}

\* The chart is what the analytics of the list shown now would draw.
UpToDate == ~Refused(chosen) /\ HasHistogram(Now) /\ chart = ChartOf(Now)

\* Picking a bar of an up-to-date histogram, be it of all vehicles or of another bar,
\* lists the vehicles that the bar counts except for those whose price is not in the
\* column that the filter compares (non_sp_advertized_price and base_msrp fill in for
\* the histogram only), and none that the histogram has not counted or outside the bar.
BrushLists ==
  [][\A i \in DOMAIN chart.bars :
       brush' # brush /\ brush' = BrushOf(chart.metric, chart.bars[i]) /\ UpToDate =>
         LET f == MetricsOf(Now)
         IN  /\ \A v \in DOMAIN f : BarOf(f, f[v]) = i => (v \in Now' <=> Column(v, chart.metric) # NoPrice)
             /\ Now' \subseteq DOMAIN f
             /\ \A v \in Now' : f[v] * Bars \in chart.bars[i].start .. chart.bars[i].end]_vars

\* Half of the prices are at most the median, half at least; so a trim that the
\* insights show as cheaper than all has at least half of its vehicles below the
\* median of all, and one that they show as dearer has them above it.
MedianSplits ==
  \A f \in {PricesOf(Now), MsrpsOf(Now)} :
    DOMAIN f # {} =>
      LET below(S) == {v \in S : 2 * f[v] < TwiceMedian(f)}
          above(S) == {v \in S : 2 * f[v] > TwiceMedian(f)}
          AtLeastHalf(S, T) == 2 * Cardinality(S) >= Cardinality(T)
          with(k)  == {v \in DOMAIN f : Car[v].trim = k}
      IN  /\ AtLeastHalf(DOMAIN f \ above(DOMAIN f), DOMAIN f)
          /\ AtLeastHalf(DOMAIN f \ below(DOMAIN f), DOMAIN f)
          /\ \A g \in GroupStats(f, TrimOf, MinSamples) :
               /\ g.delta2 < 0 => AtLeastHalf(below(with(g.key)), with(g.key))
               /\ g.delta2 > 0 => AtLeastHalf(above(with(g.key)), with(g.key))

\* Every value is in one bar, between its start and its end.
HistogramIsComplete ==
  HasHistogram(Now) =>
    LET f == MetricsOf(Now)
        h == Histogram(f)
    IN  /\ SumFunction([i \in 1 .. Bars |-> h[i].count]) = Cardinality(DOMAIN f)
        /\ \A v \in DOMAIN f : f[v] * Bars \in h[BarOf(f, f[v])].start .. h[BarOf(f, f[v])].end

\* The geo map, the analytics and /msrp-comparison choose prices by rules of their
\* own, but where one of the others compares a vehicle that the map compares as
\* well, both have the same price and MSRP, and whatever they compare, the map
\* compares.  (A 0 in the first column hides the price from the others only.)
ViewsAgree ==
  \A v \in Now : \A view \in Views :
    LET r == Car[v].price
    IN  Compared(view, r) => /\ Compared("map", r)
                             /\ SaleIn(view, r) = SaleIn("map", r) /\ MsrpIn(view, r) = MsrpIn("map", r)

\* Vehicles below, at and above the MSRP add up, for all and for each trim; those
\* within the tolerance are at it, so the map, which has no tolerance, has at
\* least as many on either side.
ComparisonAddsUp ==
  \A view \in {"insights", "endpoint"} :
    LET deltas == DeltasOf(view, Now)
        all    == Sides(deltas)
        trims  == Trims(deltas, TrimOf)
    IN  /\ all.below + all.at + all.above = all.count
        /\ all.at >= Cardinality({v \in DOMAIN deltas : deltas[v] \in -Tolerance .. Tolerance})
        /\ all.below <= Cardinality(GeoMap(Now).below) /\ all.above <= Cardinality(GeoMap(Now).above)
        /\ \A t \in trims : t.sides.below + t.sides.at + t.sides.above = t.sides.count
        /\ SumFunction([k \in {t.key : t \in trims} |-> (CHOOSE t \in trims : t.key = k).sides.below]) <= all.below

\* The effect of an option compares the vehicles that have it with those that do
\* not: of the priced vehicles, each is counted on one side, with its own price.
ImpactIsTrue ==
  LET f      == MetricsOf(Now)
      having == Having(Now)
  IN  \A o \in ShownOptions(f, having) :
        LET n    == Impact(f, having[o])
            rest == Part(f, {v \in Now : o \notin Car[v].options})
        IN  n.without = Cardinality(DOMAIN rest) /\ n.sumWithout = Sum(rest)

\* The three places that compare prices with MSRPs do not contradict each other.
PricesAgree == ViewsAgree /\ ComparisonAddsUp

\* The charts and insights say what the prices of the listed vehicles say.
StatisticsAreTrue == MedianSplits /\ HistogramIsComplete /\ ImpactIsTrue
=============================================================================
