------------------------------- MODULE Analytics -------------------------------
(***************************************************************************)
(* The catalogue queries (internal/analytics/queries/*.sql) and the rows   *)
(* service.go makes of them, over the match tables of MatchStore.  A query *)
(* is one statement of one batch, so it is an operator on one state (see   *)
(* WriteLock, ReadsCommitted).                                             *)
(*                                                                         *)
(* avg() is the pair of a sum and a count, and the difference of two of    *)
(* them a fraction: the arithmetic is exact here.  The rounding of the     *)
(* columns and the Wilson bound, a formula in floating point over the      *)
(* counts of a row, are left out.                                          *)
(***************************************************************************)
EXTENDS MatchStore, Integers, Functions

CONSTANTS
    LineageOf,      \* hero -> its races and classes
    TiersOf,        \* race or class -> counts of its tier ladder
    Worth           \* result -> its networth

ASSUME AnalyticsAssumption ==
    /\ \A h \in CodexIds("heroes") : LineageOf[h] \subseteq DOMAIN TiersOf
    /\ \A y \in DOMAIN TiersOf : TiersOf[y] \subseteq Nat \ {0}
    /\ Worth \in [Results -> Nat]

-----------------------------------------------------------------------------
(* Filters.                                                                *)

AnyPatch == 0
AnySource == ""
UnknownPatch == -1

Filters ==
    [patch : CodexIds("patches") \cup {AnyPatch, UnknownPatch}, source : Sources \cup {AnySource}]

\* Faulty variant, for the mutation runs: drafts count.
AllMatches(f) ==
    {l \in DOMAIN lineups :
        LET m == matches[lineups[l].match]
        IN f.patch \in {AnyPatch, m.patch} /\ f.source \in {AnySource, m.source}}

\* The scope every query starts with: the lineups of finalized matches that pass.
Scope(f) ==
    {l \in DOMAIN lineups :
        LET m == matches[lineups[l].match]
        IN /\ m.finalizedAt > 0
           /\ f.patch \in {AnyPatch, m.patch}
           /\ f.source \in {AnySource, m.source}}

-----------------------------------------------------------------------------
(* Aggregates.                                                             *)

Zero == [num |-> 0, den |-> 1]
Less(a, b) == [num |-> a.sum * b.n - b.sum * a.n, den |-> a.n * b.n]
SameValue(x, y) == x.num * y.den = y.num * x.den

PlaceOf(s) == lineups[slots[s].lineup].placement

\* Rows is a set of lineups, of slots, or of tuples that begin with a slot.
MeanPlace(ls) == [n |-> Cardinality(ls), sum |-> SumFunction([l \in ls |-> lineups[l].placement])]
MeanCell(ss) == [n |-> Cardinality(ss), sum |-> SumFunction([s \in ss |-> PlaceOf(s)])]
MeanPair(ps) == [n |-> Cardinality(ps), sum |-> SumFunction([p \in ps |-> PlaceOf(p[1])])]

\* Faulty variant: the first bar starts one place late.
ShiftedFinishes(places) == [p \in Placements |-> Cardinality({x \in places : x[2] = p + 1})]

\* The columns p1 to p8; `places` pairs what is counted with its placement.
Finishes(places) == [p \in Placements |-> Cardinality({x \in places : x[2] = p})]

TopPlaces == 1..(MaxPlacement \div 2)       \* 1 to 4 in the code

-----------------------------------------------------------------------------
(* The queries.                                                            *)

LineupsInView(f) == Cardinality(Scope(f))

Field(f) == MeanPlace(Scope(f))

CellsInView(f) == {s \in DOMAIN slots : slots[s].lineup \in Scope(f)}

\* Faulty variant: the cells are not joined with the scope.
PicksAnywhere(f, h) == {s \in DOMAIN slots : slots[s].hero = h}

Picks(f, h) == {s \in CellsInView(f) : slots[s].hero = h}

HeroRow(f, h) ==
    LET picks == Picks(f, h)
    IN [picks |-> Cardinality(picks),
        top4 |-> Cardinality({s \in picks : PlaceOf(s) \in TopPlaces}),
        avgPlace |-> MeanCell(picks),
        finishes |-> Finishes({<<s, PlaceOf(s)>> : s \in picks}),
        lineupsInView |-> LineupsInView(f),
        vsField |-> Less(MeanCell(picks), Field(f))]

HeroPerformance(f) ==
    [h \in {k \in codex["heroes"] : Picks(f, k) # {}} |-> HeroRow(f, h)]

\* rate: 0 for an empty denominator.
Rate(k, n) == IF n = 0 THEN Zero ELSE [num |-> k, den |-> n]
PickRate(row) == Rate(row.picks, row.lineupsInView)
Top4Rate(row) == Rate(row.top4, row.picks)

Units(l, y) == {s \in SlotsOf(l) : y \in LineageOf[slots[s].hero]}

SynergyRow(f, y, c) ==
    LET fielding == {l \in Scope(f) : Cardinality(Units(l, y)) >= c}
    IN [lineups |-> Cardinality(fielding),
        lift |-> IF fielding = {} THEN Zero ELSE Less(MeanPlace(fielding), Field(f)),
        finishes |-> Finishes({<<l, lineups[l].placement>> : l \in fielding})]

SynergyPerformance(f) ==
    [yc \in UNION {{y} \X TiersOf[y] : y \in DOMAIN TiersOf} |-> SynergyRow(f, yc[1], yc[2])]

\* One row per item on a cell, stacked copies counted one by one.
HeldRows(f, i) == {h \in CellsInView(f) \X (1..MaxStack) : h[2] <= slotItems[h[1]][i]}

\* Faulty variant: the baseline keeps the cells that hold the item.
BaselineWithHolders(f, i) ==
    {bh \in CellsInView(f) \X HeldRows(f, i) : slots[bh[1]].hero = slots[bh[2][1]].hero}

\* For every held row the cells of the same hero without the item: pairs of a cell and
\* a held row.
BaselineRows(f, i) ==
    {bh \in CellsInView(f) \X HeldRows(f, i) :
        slots[bh[1]].hero = slots[bh[2][1]].hero /\ slotItems[bh[1]][i] = 0}

ItemRow(f, i) ==
    LET held == HeldRows(f, i)
        base == BaselineRows(f, i)
    IN [slotsWith |-> Cardinality(held),
        lineupsInView |-> LineupsInView(f),
        lift |-> IF base = {} THEN Zero ELSE Less(MeanPair(held), MeanPair(base)),
        finishes |-> Finishes({<<h, PlaceOf(h[1])>> : h \in held})]

ItemPerformance(f) == [i \in {k \in codex["items"] : HeldRows(f, k) # {}} |-> ItemRow(f, i)]

Holding(f, r) == {l \in Scope(f) : r \in lineupRelics[l]}

\* Faulty variant: the field is not reduced by the lineups that hold the relic, the lift
\* that whiteboard.md:124 sketches.
LiftOverField(field, held) == Less(held, field)

\* The lineups without the relic are the field minus those with it.
LiftOverRest(field, held) ==
    IF field.n = held.n THEN Zero
    ELSE Less(held, [sum |-> field.sum - held.sum, n |-> field.n - held.n])

RelicRow(f, r) ==
    LET holding == Holding(f, r)
    IN [lineups |-> Cardinality(holding),
        lineupsInView |-> LineupsInView(f),
        lift |-> LiftOverRest(Field(f), MeanPlace(holding)),
        finishes |-> Finishes({<<l, lineups[l].placement>> : l \in holding})]

RelicPerformance(f) == [r \in {k \in codex["relics"] : Holding(f, k) # {}} |-> RelicRow(f, r)]

NetworthByPlacement(f) ==
    LET at(p) == {l \in Scope(f) : lineups[l].placement = p}
    IN [p \in {q \in Placements : at(q) # {}} |->
            [n |-> Cardinality(at(p)),
             sum |-> SumFunction([l \in at(p) |-> Worth[lineups[l].result]])]]

-----------------------------------------------------------------------------
(* Properties.                                                             *)

Total8(finishes) == SumFunction(finishes)
PlacesTotal(places) == SumFunction([p \in DOMAIN places |-> places[p].n])

\* frontend-design.md:110, "a pro filter yields a lineup count divisible by 8 and a field
\* average of exactly 4.5": what the store lets into a finalized pro match is what the
\* field query counts on, however the match was edited before.
ProFieldExact ==
    \A f \in Filters : f.source = "pro" =>
        /\ LineupsInView(f) % MaxPlacement = 0
        /\ 2 * Field(f).sum = (MaxPlacement + 1) * Field(f).n

\* The eight bars of a row show its whole sample and the networth table the whole view. The
\* first four bars of a hero are its top 4, "the share finishing 1st through 4th"
\* (frontend-design.md:342), and its bars weighed by their places are the places that its
\* average divides: three columns of heroes.sql that count on their own.
HeroBarsAgree(row) ==
    /\ Total8(row.finishes) = row.picks
    /\ SumFunction([p \in TopPlaces |-> row.finishes[p]]) = row.top4
    /\ SumFunction([p \in Placements |-> p * row.finishes[p]]) = row.avgPlace.sum

SamplesAddUp ==
    \A f \in Filters :
        LET heroes == HeroPerformance(f)
            synergies == SynergyPerformance(f)
            items == ItemPerformance(f)
            relics == RelicPerformance(f)
        IN /\ \A h \in DOMAIN heroes : HeroBarsAgree(heroes[h])
           /\ \A yc \in DOMAIN synergies :
                    Total8(synergies[yc].finishes) = synergies[yc].lineups
           /\ \A i \in DOMAIN items : Total8(items[i].finishes) = items[i].slotsWith
           /\ \A r \in DOMAIN relics : Total8(relics[r].finishes) = relics[r].lineups
           /\ PlacesTotal(NetworthByPlacement(f)) = LineupsInView(f)

\* frontend-design.md:348, the relic lift has the "same shape over the lineups holding the
\* relic" as the item lift: with against without, although relics.sql never selects the
\* lineups without.  readme.md:257, relics.sql:1 and query_test.go:196 say so too; the
\* documents disagree, though: whiteboard.md:124 has the "lineups containing the thing minus
\* the field avg" for relics as for synergies, which is LiftOverField and not what is shown.
RelicLiftExact ==
    \A f \in Filters : \A r \in DOMAIN RelicPerformance(f) :
        LET with == Holding(f, r)
            without == Scope(f) \ with
        IN SameValue(RelicRow(f, r).lift,
                     IF without = {} THEN Zero ELSE Less(MeanPlace(with), MeanPlace(without)))

\* frontend-design.md:347, "item lift: average placement of slots holding the item minus the
\* average placement of the same hero in slots without it", each slot counted once.
SlotsHolding(f, i) == {s \in CellsInView(f) : slotItems[s][i] > 0}
SlotsWithout(f, i) ==
    {b \in CellsInView(f) \ SlotsHolding(f, i) :
        \E s \in SlotsHolding(f, i) : slots[s].hero = slots[b].hero}
DefinedItemLift(f, i) ==
    IF SlotsWithout(f, i) = {} THEN Zero
    ELSE Less(MeanCell(SlotsHolding(f, i)), MeanCell(SlotsWithout(f, i)))

ItemLiftAsDefined ==
    \A f \in Filters : \A i \in DOMAIN ItemPerformance(f) :
        SameValue(ItemRow(f, i).lift, DefinedItemLift(f, i))

\* The definition does hold while each hero in view has the item in one slot at most.
ItemLiftExact ==
    \A f \in Filters : \A i \in DOMAIN ItemPerformance(f) :
        (\A s, t \in HeldRows(f, i) : slots[s[1]].hero = slots[t[1]].hero => s = t)
            => SameValue(ItemRow(f, i).lift, DefinedItemLift(f, i))

\* frontend-design.md:341, "pick rate: share of lineups in view that played the hero".  It is
\* a share as long as no board in view holds the hero twice.
PickRateIsShare ==
    \A f \in Filters : \A h \in DOMAIN HeroPerformance(f) :
        LET playing == {slots[s].lineup : s \in Picks(f, h)}
        IN (\A s, t \in Picks(f, h) : slots[s].lineup = slots[t].lineup => s = t)
            => /\ SameValue(PickRate(HeroRow(f, h)),
                            Rate(Cardinality(playing), LineupsInView(f)))
               /\ Cardinality(playing) <= LineupsInView(f)
=============================================================================
