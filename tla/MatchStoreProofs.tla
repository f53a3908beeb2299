--------------------------- MODULE MatchStoreProofs ---------------------------
(***************************************************************************)
(* The theorems of Domain and MatchStore.  First what the scans and rules  *)
(* of internal/domain return, for every set they are given; then that the  *)
(* tables keep their types and owners; then the safety of the store, whose *)
(* argument has one idea: a step rewrites rows of one match only, and that *)
(* match is new or a draft.  A finalized match is therefore frozen, and    *)
(* what its finalize checked stays true.                                   *)
(***************************************************************************)
EXTENDS MatchStore, FiniteSetTheorems, WellFoundedInduction, TLAPS

-----------------------------------------------------------------------------
(* The scans and rules of internal/domain.                                 *)

\* A nonempty set of naturals has a least element.
LEMMA LeastElement ==
    ASSUME NEW S \in SUBSET Nat, S # {}
    PROVE  \E x \in S : \A y \in S : x <= y
<1>1. IsWellFoundedOn(OpToRel(<, Nat), Nat)
    BY NatLessThanWellFounded
<1>2. \E x \in S : \A y \in S : <<y, x>> \notin OpToRel(<, Nat)
    BY <1>1, WFMin
<1>3. PICK x \in S : \A y \in S : <<y, x>> \notin OpToRel(<, Nat)
    BY <1>2
<1>4. ASSUME NEW y \in S PROVE x <= y
    <2>1. <<y, x>> \in Nat \X Nat /\ <<y, x>>[1] = y /\ <<y, x>>[2] = x
        OBVIOUS
    <2>2. ~(<<y, x>>[1] < <<y, x>>[2])
        BY <1>3, <2>1, Zenon DEF OpToRel
    <2>3. QED
        BY <2>1, <2>2
<1>5. QED
    BY <1>4

\* NextSlotIndex returns the least index not in use, and finds it among the first
\* n + 1 indexes when n are in use: the loop of util.go:14 always stops.
THEOREM NextSlotIndexIsLeastFree ==
    ASSUME NEW used \in SUBSET Nat, IsFiniteSet(used)
    PROVE  /\ NextSlotIndex(used) \in 0..Cardinality(used)
           /\ NextSlotIndex(used) \notin used
           /\ \A j \in Nat : j < NextSlotIndex(used) => j \in used
<1> DEFINE n == Cardinality(used)
           free == (0..n) \ used
<1>1. n \in Nat
    BY FS_CardinalityType
<1>2. free # {}
    <2>1. SUFFICES ASSUME 0..n \in SUBSET used PROVE FALSE
        OBVIOUS
    <2>2. Cardinality(0..n) <= n
        BY <2>1, FS_Subset
    <2>3. Cardinality(0..n) = n + 1
        BY <1>1, FS_Interval
    <2>4. QED
        BY <1>1, <2>2, <2>3
<1>3. PICK i \in free : \A j \in free : i <= j
    <2>1. free \in SUBSET Nat
        BY <1>1
    <2>2. QED
        BY <1>2, <2>1, LeastElement
<1>4. \E k \in 0..n : k \notin used /\ \A j \in 0..n : j < k => j \in used
    BY <1>1, <1>3
<1>5. QED
    BY <1>1, <1>4 DEF NextSlotIndex

\* FirstFreePlacement returns 0 exactly when every placement is taken, and the
\* least free placement otherwise.
THEOREM FirstFreePlacementIsLeastFree ==
    ASSUME NEW used
    PROVE  /\ FirstFreePlacement(used) = 0 <=> Placements \subseteq used
           /\ FirstFreePlacement(used) # 0 =>
                /\ FirstFreePlacement(used) \in Placements \ used
                /\ \A p \in Placements : p < FirstFreePlacement(used) => p \in used
<1>1. CASE Placements \subseteq used
    BY <1>1 DEF FirstFreePlacement
<1>2. CASE ~(Placements \subseteq used)
    <2>1. Placements \ used # {} /\ Placements \ used \in SUBSET Nat /\ 0 \notin Placements
        BY <1>2, DomainAssumption DEF Placements
    <2>2. \E p \in Placements \ used : \A q \in Placements \ used : p <= q
        BY <2>1, LeastElement
    <2>3. /\ FirstFreePlacement(used) \in Placements \ used
          /\ \A q \in Placements \ used : FirstFreePlacement(used) <= q
        BY <1>2, <2>2 DEF FirstFreePlacement
    <2>4. QED
        BY <1>2, <2>1, <2>3
<1>3. QED
    BY <1>1, <1>2

\* A match that passes ValidateFinalize holds one lineup when it is the user's own,
\* and one lineup on each placement when it is a pro game: counting the rows and
\* checking that no placement repeats (validate.go:81-91) is enough for that.
THEOREM ValidateFinalizeIsComplete ==
    ASSUME NEW rows, IsFiniteSet(rows), NEW placementOf, DOMAIN placementOf = rows,
           placementOf = [l \in rows |-> placementOf[l]],
           NEW source \in Sources, ValidateFinalize(source, placementOf)
    PROVE  IF source = "me"
           THEN \E l \in rows : rows = {l}
           ELSE \A p \in Placements :
                    \E l \in rows : \A k \in rows : placementOf[k] = p <=> k = l
<1>1. CASE source = "me"
    <2>1. Cardinality(rows) = 1
        BY <1>1 DEF ValidateFinalize
    <2>2. QED
        BY <1>1, <2>1, FS_Singleton
<1>2. CASE source # "me"
    <2>1. /\ Cardinality(rows) = MaxPlacement
          /\ \A l \in rows : placementOf[l] \in Placements
          /\ \A k, l \in rows : placementOf[k] = placementOf[l] => k = l
        BY <1>2 DEF ValidateFinalize
    <2>2. placementOf \in Injection(rows, Placements)
        BY <2>1 DEF Injection, IsInjective
    <2>3. IsFiniteSet(Placements) /\ Cardinality(Placements) = MaxPlacement
        <3>1. 1 \in Int /\ MaxPlacement \in Int /\ ~(1 > MaxPlacement)
            BY DomainAssumption
        <3>2. QED
            BY <3>1, FS_Interval, DomainAssumption DEF Placements
    <2>4. placementOf \in Surjection(rows, Placements)
        BY <2>1, <2>2, <2>3, FS_Injection
    <2>5. \A p \in Placements : \E l \in rows : placementOf[l] = p
        BY <2>4 DEF Surjection
    <2>6. QED
        BY <1>2, <2>1, <2>5
<1>3. QED
    BY <1>1, <1>2

-----------------------------------------------------------------------------
(* Tables.                                                                 *)

\* The id handed to a new row is not in use.
LEMMA HighestIsFresh ==
    ASSUME NEW ids \in SUBSET Nat, NEW high \in Nat, IsHighest(high, ids),
           NEW n \in Nat, n > high
    PROVE  n \notin ids
BY DEF IsHighest

\* The ids a copy is given are as many as it has cells.
LEMMA BlockSize ==
    ASSUME NEW high \in Nat, NEW n \in Nat
    PROVE  Cardinality((high + 1)..(high + n)) = n
<1>1. \A a, b \in Int : Cardinality(a..b) = IF a > b THEN 0 ELSE b - a + 1
    BY FS_Interval
<1>2. Cardinality((high + 1)..(high + n))
        = IF high + 1 > high + n THEN 0 ELSE (high + n) - (high + 1) + 1
    BY <1>1
<1>3. QED
    BY <1>2

\* A board has finitely many slots.
LEMMA SlotsFinite ==
    ASSUME TypeOK, NEW l
    PROVE  IsFiniteSet(SlotsOf(l)) /\ Cardinality(SlotsOf(l)) \in Nat
<1>1. SlotsOf(l) \subseteq 1..MaxSlots /\ MaxSlots \in Int
    BY MatchStoreAssumption DEF TypeOK, IsTable, SlotsOf, SlotIds
<1>2. IsFiniteSet(1..MaxSlots)
    BY <1>1, FS_Interval
<1>3. QED
    BY <1>1, <1>2, FS_Subset, FS_CardinalityType

\* The indexes of a board form a finite set of naturals.
LEMMA IndexesFinite ==
    ASSUME TypeOK, NEW l
    PROVE  IndexesOf(l) \in SUBSET Nat /\ IsFiniteSet(IndexesOf(l))
<1> DEFINE f == [s \in SlotsOf(l) |-> slots[s].index]
<1>1. /\ SlotsOf(l) \subseteq 1..MaxSlots
      /\ \A s \in SlotsOf(l) : slots[s].index \in Nat
    BY DEF TypeOK, IsTable, SlotsOf, SlotIds, SlotRow
<1>2. IsFiniteSet(SlotsOf(l))
    BY SlotsFinite
<1>3. f \in Surjection(SlotsOf(l), IndexesOf(l))
    BY DEF Surjection, IndexesOf
<1>4. IsFiniteSet(IndexesOf(l))
    BY <1>2, <1>3, FS_Surjection
<1>5. QED
    BY <1>1, <1>4 DEF IndexesOf

-----------------------------------------------------------------------------
(* Types and owners.  They are proved together: a cascade or a copy keeps  *)
(* the tables well-formed only because every row has its owner.            *)

Shape == TypeOK /\ OwnersExist

LEMMA ShapeInit == Init => Shape
<1> SUFFICES ASSUME Init PROVE Shape
    OBVIOUS
<1>1. \A Ids, Row : IsTable(<< >>, Ids, Row)
    BY DEF IsTable
<1>2. /\ codex \in [CodexTables -> SUBSET Nat]
      /\ \A t \in CodexTables : codex[t] \subseteq CodexIds(t)
    BY MatchStoreAssumption DEF Init, CodexIds
<1>3. TypeOK
    BY <1>1, <1>2 DEF Init, TypeOK
<1>4. OwnersExist
    BY DEF Init, OwnersExist
<1>5. QED
    BY <1>3, <1>4 DEF Shape

LEMMA ShapeCreateMatchShell ==
    ASSUME Shape, NEW patch \in CodexIds("patches"), NEW source \in Sources,
           CreateMatchShell(patch, source)
    PROVE  Shape'
<1>1. PICK high \in 0..(MaxMatches - 1) :
        matches' = Insert(matches, high + 1,
                          [patch |-> patch, source |-> source, finalizedAt |-> 0])
    BY DEF CreateMatchShell
<1>2. high + 1 \in MatchIds /\ 0 \in 0..MaxTime
    BY MatchStoreAssumption DEF MatchIds
<1>3. [patch |-> patch, source |-> source, finalizedAt |-> 0] \in MatchRow
    BY <1>2 DEF MatchRow
<1>4. IsTable(matches', MatchIds, MatchRow) /\ DOMAIN matches \subseteq DOMAIN matches'
    BY <1>1, <1>2, <1>3 DEF IsTable, Insert, Shape, TypeOK
<1>5. QED
    BY <1>4 DEF Shape, TypeOK, OwnersExist, CreateMatchShell

LEMMA ShapeFinalizeMatch ==
    ASSUME Shape, NEW m \in MatchIds, NEW now \in 1..MaxTime, FinalizeMatch(m, now)
    PROVE  Shape'
<1>1. m \in DOMAIN matches /\ matches' = [matches EXCEPT ![m].finalizedAt = now]
    BY DEF FinalizeMatch, MatchWritable
<1>2. matches[m] \in MatchRow /\ now \in 0..MaxTime
    BY <1>1, MatchStoreAssumption DEF Shape, TypeOK, IsTable
<1>3. [matches[m] EXCEPT !.finalizedAt = now] \in MatchRow
    BY <1>2 DEF MatchRow
<1>4. IsTable(matches', MatchIds, MatchRow) /\ DOMAIN matches' = DOMAIN matches
    BY <1>1, <1>3 DEF Shape, TypeOK, IsTable
<1>5. QED
    BY <1>4 DEF Shape, TypeOK, OwnersExist, FinalizeMatch

LEMMA ShapeUpdateLineup ==
    ASSUME Shape, NEW l \in LineupIds, NEW pro \in CodexIds("pros") \cup {NoPro},
           NEW label \in Labels, NEW placement \in Placements, NEW result \in Results,
           UpdateLineup(l, pro, label, placement, result)
    PROVE  Shape'
<1>1. /\ l \in DOMAIN lineups
      /\ lineups' = [lineups EXCEPT ![l].pro = pro, ![l].label = label,
                                    ![l].placement = placement, ![l].result = result]
    BY DEF UpdateLineup, LineupWritable
<1>2. /\ IsTable(lineups', LineupIds, LineupRow)
      /\ DOMAIN lineups' = DOMAIN lineups
      /\ \A k \in DOMAIN lineups : lineups'[k].match = lineups[k].match
    BY <1>1 DEF Shape, TypeOK, IsTable, LineupRow
<1>3. QED
    BY <1>2 DEF Shape, TypeOK, OwnersExist, UpdateLineup

LEMMA ShapeDeleteLineup ==
    ASSUME Shape, NEW l \in LineupIds, DeleteLineup(l)
    PROVE  Shape'
<1>1. /\ IsTable(lineups', LineupIds, LineupRow)
      /\ DOMAIN lineups' = DOMAIN lineups \ {l}
      /\ \A k \in DOMAIN lineups' : lineups'[k] = lineups[k]
    BY DEF IsTable, Without, DeleteLineup, Shape, TypeOK
<1>2. /\ IsTable(slots', SlotIds, SlotRow)
      /\ DOMAIN slots' = DOMAIN slots \ SlotsOf(l)
      /\ \A s \in DOMAIN slots' : slots'[s] = slots[s]
    BY DEF IsTable, Without, DeleteLineup, Shape, TypeOK
<1>3. IsTable(slotItems', SlotIds, ItemCounts) /\ DOMAIN slotItems' = DOMAIN slots'
    BY <1>2 DEF IsTable, Without, DeleteLineup, Shape, TypeOK, OwnersExist
<1>4. /\ IsTable(lineupRelics', LineupIds, SUBSET CodexIds("relics"))
      /\ DOMAIN lineupRelics' = DOMAIN lineups'
    BY <1>1 DEF IsTable, Without, DeleteLineup, Shape, TypeOK, OwnersExist
<1>5. \A s \in DOMAIN slots' : slots'[s].lineup \in DOMAIN lineups'
    BY <1>1, <1>2 DEF Shape, OwnersExist, SlotsOf
<1>6. QED
    BY <1>1, <1>2, <1>3, <1>4, <1>5 DEF Shape, TypeOK, OwnersExist, DeleteLineup

LEMMA ShapeAddSlot ==
    ASSUME Shape, NEW l \in LineupIds, NEW hero \in CodexIds("heroes"),
           NEW stars \in 1..MaxStars, AddSlot(l, hero, stars)
    PROVE  Shape'
<1> DEFINE row == [lineup |-> l, hero |-> hero,
                   index |-> NextSlotIndex(IndexesOf(l)), stars |-> stars]
<1>1. PICK high \in 0..(MaxSlots - 1) :
        /\ slots' = Insert(slots, high + 1, row)
        /\ slotItems' = Insert(slotItems, high + 1, NoItems)
    BY DEF AddSlot
<1>2. high + 1 \in SlotIds
    BY MatchStoreAssumption DEF SlotIds
<1>3. NextSlotIndex(IndexesOf(l)) \in Nat
    BY IndexesFinite, NextSlotIndexIsLeastFree, FS_CardinalityType DEF Shape
<1>4. row \in SlotRow
    BY <1>3 DEF SlotRow
<1>5. /\ IsTable(slots', SlotIds, SlotRow)
      /\ DOMAIN slots' = DOMAIN slots \cup {high + 1}
      /\ slots'[high + 1] = row
      /\ \A s \in DOMAIN slots : s # high + 1 => slots'[s] = slots[s]
    BY <1>1, <1>2, <1>4 DEF IsTable, Insert, Shape, TypeOK
<1>6. NoItems \in ItemCounts
    BY MatchStoreAssumption DEF NoItems, ItemCounts
<1>7. IsTable(slotItems', SlotIds, ItemCounts) /\ DOMAIN slotItems' = DOMAIN slots'
    BY <1>1, <1>2, <1>5, <1>6 DEF IsTable, Insert, Shape, TypeOK, OwnersExist
<1>8. \A s \in DOMAIN slots' : slots'[s].lineup \in DOMAIN lineups
    BY <1>5 DEF Shape, OwnersExist, AddSlot, LineupWritable
<1>9. QED
    BY <1>5, <1>7, <1>8 DEF Shape, TypeOK, OwnersExist, AddSlot

LEMMA ShapeSetSlotStars ==
    ASSUME Shape, NEW s \in SlotIds, NEW stars \in 1..MaxStars, SetSlotStars(s, stars)
    PROVE  Shape'
<1>1. s \in DOMAIN slots /\ slots' = [slots EXCEPT ![s].stars = stars]
    BY DEF SetSlotStars, SlotWritable
<1>2. /\ IsTable(slots', SlotIds, SlotRow)
      /\ DOMAIN slots' = DOMAIN slots
      /\ \A t \in DOMAIN slots : slots'[t].lineup = slots[t].lineup
    BY <1>1 DEF Shape, TypeOK, IsTable, SlotRow
<1>3. QED
    BY <1>2 DEF Shape, TypeOK, OwnersExist, SetSlotStars

LEMMA ShapeDeleteSlot ==
    ASSUME Shape, NEW s \in SlotIds, DeleteSlot(s)
    PROVE  Shape'
<1>1. /\ IsTable(slots', SlotIds, SlotRow)
      /\ DOMAIN slots' = DOMAIN slots \ {s}
      /\ \A t \in DOMAIN slots' : slots'[t] = slots[t]
    BY DEF IsTable, Without, DeleteSlot, Shape, TypeOK
<1>2. IsTable(slotItems', SlotIds, ItemCounts) /\ DOMAIN slotItems' = DOMAIN slots'
    BY <1>1 DEF IsTable, Without, DeleteSlot, Shape, TypeOK, OwnersExist
<1>3. QED
    BY <1>1, <1>2 DEF Shape, TypeOK, OwnersExist, DeleteSlot

LEMMA ShapeSlotItem ==
    ASSUME Shape, NEW s \in SlotIds, NEW item \in CodexIds("items"),
           AddSlotItem(s, item) \/ RemoveSlotItem(s, item)
    PROVE  Shape'
<1>1. s \in DOMAIN slotItems /\ slotItems[s] \in ItemCounts
    BY DEF Shape, TypeOK, OwnersExist, IsTable, AddSlotItem, RemoveSlotItem, SlotWritable
<1>2. PICK n \in 0..MaxStack : slotItems' = [slotItems EXCEPT ![s][item] = n]
    <2>1. slotItems[s][item] \in 0..MaxStack /\ MaxStack \in Nat
        BY <1>1, MatchStoreAssumption DEF ItemCounts
    <2>2. CASE AddSlotItem(s, item)
        <3>1. /\ slotItems[s][item] + 1 \in 0..MaxStack
              /\ slotItems' = [slotItems EXCEPT ![s][item] = slotItems[s][item] + 1]
            BY <2>1, <2>2 DEF AddSlotItem
        <3>2. QED
            BY <3>1
    <2>3. CASE RemoveSlotItem(s, item)
        <3>1. 0 \in 0..MaxStack
            BY <2>1
        <3>2. slotItems' = [slotItems EXCEPT ![s][item] = 0]
            BY <2>3 DEF RemoveSlotItem
        <3>3. QED
            BY <3>1, <3>2
    <2>4. QED
        BY <2>2, <2>3
<1>3. [slotItems[s] EXCEPT ![item] = n] \in ItemCounts
    BY <1>1 DEF ItemCounts
<1>4. IsTable(slotItems', SlotIds, ItemCounts) /\ DOMAIN slotItems' = DOMAIN slotItems
    BY <1>1, <1>2, <1>3 DEF Shape, TypeOK, IsTable
<1>5. QED
    BY <1>4 DEF Shape, TypeOK, OwnersExist, AddSlotItem, RemoveSlotItem

LEMMA ShapeLineupRelic ==
    ASSUME Shape, NEW l \in LineupIds, NEW relic \in CodexIds("relics"),
           AddLineupRelic(l, relic) \/ RemoveLineupRelic(l, relic)
    PROVE  Shape'
<1>1. l \in DOMAIN lineupRelics /\ lineupRelics[l] \in SUBSET CodexIds("relics")
    BY DEF Shape, TypeOK, OwnersExist, IsTable, AddLineupRelic, RemoveLineupRelic, LineupWritable
<1>2. PICK R \in SUBSET CodexIds("relics") : lineupRelics' = [lineupRelics EXCEPT ![l] = R]
    BY <1>1 DEF AddLineupRelic, RemoveLineupRelic
<1>3. /\ IsTable(lineupRelics', LineupIds, SUBSET CodexIds("relics"))
      /\ DOMAIN lineupRelics' = DOMAIN lineupRelics
    BY <1>1, <1>2 DEF IsTable, Shape, TypeOK
<1>4. QED
    BY <1>3 DEF Shape, TypeOK, OwnersExist, AddLineupRelic, RemoveLineupRelic

LEMMA ShapeCodex ==
    ASSUME Shape, CodexStep
    PROVE  Shape'
<1>1. PICK t \in CodexTables : CreateCodexRow(t) \/ \E id \in CodexIds(t) : DeleteCodexRow(t, id)
    BY DEF CodexStep
<1>2. PICK ids \in SUBSET CodexIds(t) : codex' = [codex EXCEPT ![t] = ids]
    <2>1. codex[t] \subseteq CodexIds(t) /\ MaxRows[t] \in Nat
        BY MatchStoreAssumption DEF Shape, TypeOK
    <2>2. CASE CreateCodexRow(t)
        <3>1. PICK high \in 0..(MaxRows[t] - 1) :
                codex' = [codex EXCEPT ![t] = codex[t] \cup {high + 1}]
            BY <2>2 DEF CreateCodexRow
        <3>2. high + 1 \in CodexIds(t)
            BY <2>1 DEF CodexIds
        <3>3. QED
            BY <2>1, <3>1, <3>2
    <2>3. CASE \E id \in CodexIds(t) : DeleteCodexRow(t, id)
        BY <2>1, <2>3 DEF DeleteCodexRow
    <2>4. QED
        BY <1>1, <2>2, <2>3
<1>3. CodexIds(t) \subseteq Nat
    BY DEF CodexIds
<1>4. codex' \in [CodexTables -> SUBSET Nat] /\ \A u \in CodexTables : codex'[u] \subseteq CodexIds(u)
    BY <1>2, <1>3 DEF Shape, TypeOK
<1>5. UNCHANGED <<matches, lineups, slots, slotItems, lineupRelics>>
    BY <1>1 DEF CreateCodexRow, DeleteCodexRow
<1>6. QED
    BY <1>4, <1>5 DEF Shape, TypeOK, OwnersExist

\* A new lineup and its relic row set, as AddLineup and CopyLineup insert them.
LEMMA ShapeNewLineup ==
    ASSUME Shape, NEW id \in LineupIds, NEW row \in LineupRow, row.match \in DOMAIN matches,
           NEW relics \in SUBSET CodexIds("relics"),
           lineups' = Insert(lineups, id, row), lineupRelics' = Insert(lineupRelics, id, relics),
           id \notin DOMAIN lineups
    PROVE  /\ IsTable(lineups', LineupIds, LineupRow)
           /\ IsTable(lineupRelics', LineupIds, SUBSET CodexIds("relics"))
           /\ DOMAIN lineups' = DOMAIN lineups \cup {id}
           /\ DOMAIN lineupRelics' = DOMAIN lineups'
           /\ \A l \in DOMAIN lineups' : lineups'[l].match \in DOMAIN matches
           /\ lineups'[id] = row
           /\ \A l \in DOMAIN lineups : lineups'[l] = lineups[l]
<1>1. /\ IsTable(lineups', LineupIds, LineupRow)
      /\ DOMAIN lineups' = DOMAIN lineups \cup {id}
      /\ lineups'[id] = row
      /\ \A l \in DOMAIN lineups : lineups'[l] = lineups[l]
    BY DEF IsTable, Insert, Shape, TypeOK
<1>2. /\ IsTable(lineupRelics', LineupIds, SUBSET CodexIds("relics"))
      /\ DOMAIN lineupRelics' = DOMAIN lineups \cup {id}
    BY DEF IsTable, Insert, Shape, TypeOK, OwnersExist
<1>3. \A l \in DOMAIN lineups' : lineups'[l].match \in DOMAIN matches
    BY <1>1 DEF Shape, OwnersExist
<1>4. QED
    BY <1>1, <1>2, <1>3

\* What AddLineup writes: `source` tells which cell of the command each of the new
\* slots `ids` was built from.
AddWrites(m, pro, label, placement, result, cells, relics, new, ids, source) ==
    /\ new \notin DOMAIN lineups
    /\ ids \cap DOMAIN slots = {}
    /\ lineups' = Insert(lineups, new, [match |-> m, pro |-> pro, label |-> label,
                                        placement |-> placement, result |-> result])
    /\ lineupRelics' = Insert(lineupRelics, new, relics)
    /\ DOMAIN slots' = DOMAIN slots \cup ids
    /\ DOMAIN slotItems' = DOMAIN slots'
    /\ \A s \in DOMAIN slots : slots'[s] = slots[s] /\ slotItems'[s] = slotItems[s]
    /\ \A c, d \in ids : source[c] = source[d] => c = d
    /\ \A k \in DOMAIN cells : \E c \in ids : source[c] = k
    /\ \A c \in ids : /\ slots'[c] = [lineup |-> new, hero |-> cells[source[c]].hero,
                                      index |-> cells[source[c]].index,
                                      stars |-> cells[source[c]].stars]
                      /\ slotItems'[c] = cells[source[c]].items

LEMMA AddLineupWrites ==
    ASSUME Shape, NEW m \in MatchIds, NEW pro \in CodexIds("pros") \cup {NoPro},
           NEW label \in Labels, NEW placement \in Placements, NEW result \in Results,
           NEW cells \in BoardInputs, NEW relics \in SUBSET CodexIds("relics"),
           AddLineup(m, pro, label, placement, result, cells, relics)
    PROVE  \E new \in LineupIds, ids \in SUBSET SlotIds : \E source \in [ids -> DOMAIN cells] :
             AddWrites(m, pro, label, placement, result, cells, relics, new, ids, source)
<1> DEFINE row == [match |-> m, pro |-> pro, label |-> label,
                   placement |-> placement, result |-> result]
<1>1. PICK last \in 0..(MaxLineups - 1), high \in 0..MaxSlots :
        /\ IsHighest(last, DOMAIN lineups)
        /\ IsHighest(high, DOMAIN slots)
        /\ high + Len(cells) <= MaxSlots
        /\ lineups' = Insert(lineups, last + 1, row)
        /\ slots' = [s \in DOMAIN slots \cup (high + 1)..(high + Len(cells)) |->
                        IF s <= high THEN slots[s]
                        ELSE [lineup |-> last + 1, hero |-> cells[s - high].hero,
                              index |-> cells[s - high].index,
                              stars |-> cells[s - high].stars]]
        /\ slotItems' = [s \in DOMAIN slots \cup (high + 1)..(high + Len(cells)) |->
                            IF s <= high THEN slotItems[s] ELSE cells[s - high].items]
        /\ lineupRelics' = Insert(lineupRelics, last + 1, relics)
    BY DEF AddLineup
<1> DEFINE ids == (high + 1)..(high + Len(cells))
           source == [s \in ids |-> s - high]
<1>2. last \in Nat /\ high \in Nat /\ last + 1 \in LineupIds /\ MaxSlots \in Nat
    BY MatchStoreAssumption DEF LineupIds
<1>3. DOMAIN lineups \in SUBSET Nat /\ DOMAIN slots \in SUBSET Nat
    BY DEF Shape, TypeOK, IsTable, LineupIds, SlotIds
<1>4. last + 1 \notin DOMAIN lineups /\ \A s \in DOMAIN slots : s <= high
    BY <1>1, <1>2, <1>3, HighestIsFresh DEF IsHighest
<1>5. cells \in Seq(Cell) /\ Len(cells) \in Nat /\ DOMAIN cells = 1..Len(cells)
    BY MatchStoreAssumption
<1>6. ids \in SUBSET SlotIds /\ \A s \in ids : ~(s <= high)
    BY <1>1, <1>2, <1>5 DEF SlotIds
<1>7. ids \cap DOMAIN slots = {}
    BY <1>4, <1>6
<1>8. source \in [ids -> DOMAIN cells] /\ \A c, d \in ids : source[c] = source[d] => c = d
    BY <1>2, <1>5
<1>8a. \A k \in DOMAIN cells : \E c \in ids : source[c] = k
    <2> SUFFICES ASSUME NEW k \in DOMAIN cells PROVE \E c \in ids : source[c] = k
        OBVIOUS
    <2>1. high + k \in ids /\ source[high + k] = k
        BY <1>2, <1>5
    <2>2. QED
        BY <2>1
<1>9. \A s \in DOMAIN slots : slots'[s] = slots[s] /\ slotItems'[s] = slotItems[s]
    BY <1>1, <1>4
<1>10. \A c \in ids : /\ slots'[c] = [lineup |-> last + 1, hero |-> cells[source[c]].hero,
                                      index |-> cells[source[c]].index,
                                      stars |-> cells[source[c]].stars]
                      /\ slotItems'[c] = cells[source[c]].items
    BY <1>1, <1>6
<1>11. DOMAIN slots' = DOMAIN slots \cup ids /\ DOMAIN slotItems' = DOMAIN slots'
    BY <1>1
<1>12. AddWrites(m, pro, label, placement, result, cells, relics, last + 1, ids, source)
    BY <1>1, <1>4, <1>7, <1>8, <1>8a, <1>9, <1>10, <1>11 DEF AddWrites
<1> HIDE DEF ids, source
<1>13. QED
    BY <1>2, <1>6, <1>8, <1>12, Zenon

LEMMA ShapeAddLineup ==
    ASSUME Shape, NEW m \in MatchIds, NEW pro \in CodexIds("pros") \cup {NoPro},
           NEW label \in Labels, NEW placement \in Placements, NEW result \in Results,
           NEW cells \in BoardInputs, NEW relics \in SUBSET CodexIds("relics"),
           AddLineup(m, pro, label, placement, result, cells, relics)
    PROVE  Shape'
<1> DEFINE row == [match |-> m, pro |-> pro, label |-> label,
                   placement |-> placement, result |-> result]
<1>1. PICK new \in LineupIds, ids \in SUBSET SlotIds : \E source \in [ids -> DOMAIN cells] :
        AddWrites(m, pro, label, placement, result, cells, relics, new, ids, source)
    BY AddLineupWrites
<1>2. PICK source \in [ids -> DOMAIN cells] :
        AddWrites(m, pro, label, placement, result, cells, relics, new, ids, source)
    BY <1>1
<1>3. row \in LineupRow /\ row.match \in DOMAIN matches
    BY DEF LineupRow, AddLineup, MatchWritable
<1>4. /\ new \notin DOMAIN lineups
      /\ lineups' = Insert(lineups, new, row)
      /\ lineupRelics' = Insert(lineupRelics, new, relics)
    BY <1>2 DEF AddWrites
<1>5. /\ IsTable(lineups', LineupIds, LineupRow)
      /\ IsTable(lineupRelics', LineupIds, SUBSET CodexIds("relics"))
      /\ DOMAIN lineups' = DOMAIN lineups \cup {new}
      /\ DOMAIN lineupRelics' = DOMAIN lineups'
      /\ \A l \in DOMAIN lineups' : lineups'[l].match \in DOMAIN matches
    BY <1>3, <1>4, ShapeNewLineup
<1>6. \A k \in DOMAIN cells : cells[k] \in Cell
    BY MatchStoreAssumption
<1>7. DOMAIN slots' = DOMAIN slots \cup ids /\ DOMAIN slotItems' = DOMAIN slots'
    BY <1>2 DEF AddWrites
<1>8. ASSUME NEW s \in DOMAIN slots'
      PROVE  /\ s \in SlotIds
             /\ slots'[s] \in SlotRow
             /\ slots'[s].lineup \in DOMAIN lineups'
             /\ slotItems'[s] \in ItemCounts
    <2>1. CASE s \in DOMAIN slots
        <3>1. slots'[s] = slots[s] /\ slotItems'[s] = slotItems[s]
            BY <1>2, <2>1 DEF AddWrites
        <3>2. QED
            BY <1>5, <2>1, <3>1 DEF Shape, TypeOK, OwnersExist, IsTable
    <2>2. CASE s \in ids
        <3>1. cells[source[s]] \in Cell
            BY <1>6, <2>2
        <3>2. /\ slots'[s] = [lineup |-> new, hero |-> cells[source[s]].hero,
                              index |-> cells[source[s]].index,
                              stars |-> cells[source[s]].stars]
              /\ slotItems'[s] = cells[source[s]].items
            BY <1>2, <2>2 DEF AddWrites
        <3>3. QED
            BY <1>5, <2>2, <3>1, <3>2 DEF Cell, SlotRow
    <2>3. QED
        BY <1>7, <2>1, <2>2
<1>9. slots' = [s \in DOMAIN slots' |-> slots'[s]] /\ slotItems' = [s \in DOMAIN slotItems' |-> slotItems'[s]]
    BY DEF AddLineup
<1>10. IsTable(slots', SlotIds, SlotRow) /\ IsTable(slotItems', SlotIds, ItemCounts)
    BY <1>7, <1>8, <1>9 DEF IsTable
<1>11. QED
    BY <1>5, <1>7, <1>8, <1>10 DEF Shape, TypeOK, OwnersExist, AddLineup

\* What copying `l` into the lineup `new` writes: `origin` leads each of the new
\* slots `copies` back to the slot it copies.
CopyWrites(l, new, copies) ==
    /\ new \notin DOMAIN lineups
    /\ copies \cap DOMAIN slots = {}
    /\ Cardinality(copies) = Cardinality(SlotsOf(l))
    /\ lineups' = Insert(lineups, new,
                         [match |-> lineups[l].match, pro |-> NoPro,
                          label |-> lineups[l].label,
                          placement |-> FirstFreePlacement(PlacementsOf(lineups[l].match)),
                          result |-> NoResult])
    /\ lineupRelics' = Insert(lineupRelics, new, lineupRelics[l])
    /\ DOMAIN slots' = DOMAIN slots \cup copies
    /\ DOMAIN slotItems' = DOMAIN slots'
    /\ \A s \in DOMAIN slots : slots'[s] = slots[s] /\ slotItems'[s] = slotItems[s]
    /\ \E origin \in [copies -> SlotsOf(l)] :
        /\ \A c, d \in copies : origin[c] = origin[d] => c = d
        /\ \A c \in copies : /\ slots'[c] = [slots[origin[c]] EXCEPT !.lineup = new]
                              /\ slotItems'[c] = slotItems[origin[c]]

LEMMA CopyLineupWrites ==
    ASSUME Shape, NEW l \in LineupIds, CopyLineup(l)
    PROVE  \E new \in LineupIds, copies \in SUBSET SlotIds : CopyWrites(l, new, copies)
<1> DEFINE m == lineups[l].match
           board == SlotsOf(l)
           row == [match |-> m, pro |-> NoPro, label |-> lineups[l].label,
                   placement |-> FirstFreePlacement(PlacementsOf(m)), result |-> NoResult]
<1>1. PICK last \in 0..(MaxLineups - 1), high \in 0..MaxSlots, twin \in [board -> SlotIds] :
        /\ IsHighest(last, DOMAIN lineups)
        /\ IsHighest(high, DOMAIN slots)
        /\ {twin[s] : s \in board} = (high + 1)..(high + Cardinality(board))
        /\ lineups' = Insert(lineups, last + 1, row)
        /\ slots' = [s \in DOMAIN slots \cup {twin[b] : b \in board} |->
                        IF s \in {twin[b] : b \in board}
                        THEN [slots[CHOOSE b \in board : twin[b] = s] EXCEPT !.lineup = last + 1]
                        ELSE slots[s]]
        /\ slotItems' = [s \in DOMAIN slots \cup {twin[b] : b \in board} |->
                            IF s \in {twin[b] : b \in board}
                            THEN slotItems[CHOOSE b \in board : twin[b] = s]
                            ELSE slotItems[s]]
        /\ lineupRelics' = Insert(lineupRelics, last + 1, lineupRelics[l])
    BY Zenon DEF CopyLineup
<1> DEFINE copies == {twin[b] : b \in board}
           origin == [c \in copies |-> CHOOSE b \in board : twin[b] = c]
<1>2. last \in Nat /\ high \in Nat /\ last + 1 \in LineupIds
    BY MatchStoreAssumption DEF LineupIds
<1>3. DOMAIN lineups \in SUBSET Nat /\ DOMAIN slots \in SUBSET Nat
    BY DEF Shape, TypeOK, IsTable, LineupIds, SlotIds
<1>4. last + 1 \notin DOMAIN lineups
    BY <1>1, <1>2, <1>3, HighestIsFresh
<1>5. copies \in SUBSET SlotIds
    BY <1>1
<1>6. copies \cap DOMAIN slots = {}
    <2>1. ASSUME NEW c \in copies PROVE c \notin DOMAIN slots
        <3>1. c \in (high + 1)..(high + Cardinality(board))
            BY <1>1
        <3>2. c \in Nat /\ c > high
            BY <1>2, <3>1, <1>5 DEF SlotIds
        <3>3. QED
            BY <1>1, <1>2, <1>3, <3>2, HighestIsFresh
    <2>2. QED
        BY <2>1
<1>7. \A c \in copies : origin[c] \in board /\ twin[origin[c]] = c
    OBVIOUS
<1>8. origin \in [copies -> board] /\ \A c, d \in copies : origin[c] = origin[d] => c = d
    BY <1>7
<1>9. /\ DOMAIN slots' = DOMAIN slots \cup copies
      /\ DOMAIN slotItems' = DOMAIN slots'
    BY <1>1
<1>10. \A s \in DOMAIN slots : slots'[s] = slots[s] /\ slotItems'[s] = slotItems[s]
    BY <1>1, <1>6
<1>11. \A c \in copies : /\ slots'[c] = [slots[origin[c]] EXCEPT !.lineup = last + 1]
                          /\ slotItems'[c] = slotItems[origin[c]]
    BY <1>1
<1>12. \E f \in [copies -> board] :
            /\ \A c, d \in copies : f[c] = f[d] => c = d
            /\ \A c \in copies : /\ slots'[c] = [slots[f[c]] EXCEPT !.lineup = last + 1]
                                  /\ slotItems'[c] = slotItems[f[c]]
    BY <1>8, <1>11
<1>13. /\ lineups' = Insert(lineups, last + 1, row)
       /\ lineupRelics' = Insert(lineupRelics, last + 1, lineupRelics[l])
    BY <1>1
<1>14. Cardinality(copies) = Cardinality(board)
    <2> DEFINE n == Cardinality(board)
    <2>1. copies = (high + 1)..(high + n)
        BY <1>1
    <2>2. n \in Nat
        BY SlotsFinite DEF Shape
    <2> HIDE DEF n, copies
    <2>3. Cardinality(copies) = n
        BY <1>2, <2>1, <2>2, BlockSize
    <2>4. QED
        BY <2>3 DEF n
<1>15. CopyWrites(l, last + 1, copies)
    BY <1>4, <1>6, <1>9, <1>10, <1>12, <1>13, <1>14 DEF CopyWrites
<1> HIDE DEF copies
<1>16. QED
    BY <1>2, <1>5, <1>15, Zenon

LEMMA ShapeCopyLineup ==
    ASSUME Shape, NEW l \in LineupIds, CopyLineup(l)
    PROVE  Shape'
<1> DEFINE row == [match |-> lineups[l].match, pro |-> NoPro, label |-> lineups[l].label,
                   placement |-> FirstFreePlacement(PlacementsOf(lineups[l].match)),
                   result |-> NoResult]
<1>0. PICK new \in LineupIds, copies \in SUBSET SlotIds : CopyWrites(l, new, copies)
    BY CopyLineupWrites
<1>1. /\ new \notin DOMAIN lineups
      /\ lineups' = Insert(lineups, new, row)
      /\ lineupRelics' = Insert(lineupRelics, new, lineupRelics[l])
      /\ DOMAIN slots' = DOMAIN slots \cup copies
      /\ DOMAIN slotItems' = DOMAIN slots'
      /\ \A s \in DOMAIN slots : slots'[s] = slots[s] /\ slotItems'[s] = slotItems[s]
    BY <1>0 DEF CopyWrites
<1>2. PICK origin \in [copies -> SlotsOf(l)] :
            \A c \in copies : /\ slots'[c] = [slots[origin[c]] EXCEPT !.lineup = new]
                              /\ slotItems'[c] = slotItems[origin[c]]
    BY <1>0 DEF CopyWrites
<1>3. /\ l \in DOMAIN lineups
      /\ lineups[l].match \in DOMAIN matches
      /\ FirstFreePlacement(PlacementsOf(lineups[l].match)) # 0
    BY DEF CopyLineup, LineupWritable, MatchWritable
<1>4. row \in LineupRow /\ row.match \in DOMAIN matches
    BY <1>3, FirstFreePlacementIsLeastFree, MatchStoreAssumption
       DEF Shape, TypeOK, IsTable, LineupRow
<1>5. lineupRelics[l] \in SUBSET CodexIds("relics")
    BY <1>3 DEF Shape, TypeOK, OwnersExist, IsTable
<1>6. /\ IsTable(lineups', LineupIds, LineupRow)
      /\ IsTable(lineupRelics', LineupIds, SUBSET CodexIds("relics"))
      /\ DOMAIN lineups' = DOMAIN lineups \cup {new}
      /\ DOMAIN lineupRelics' = DOMAIN lineups'
      /\ \A k \in DOMAIN lineups' : lineups'[k].match \in DOMAIN matches
    BY <1>1, <1>4, <1>5, ShapeNewLineup
<1>7. ASSUME NEW s \in DOMAIN slots'
      PROVE  /\ s \in SlotIds
             /\ slots'[s] \in SlotRow
             /\ slots'[s].lineup \in DOMAIN lineups'
             /\ slotItems'[s] \in ItemCounts
    <2>1. CASE s \in DOMAIN slots
        <3>1. slots'[s] = slots[s] /\ slotItems'[s] = slotItems[s]
            BY <1>1, <2>1
        <3>2. QED
            BY <1>6, <2>1, <3>1 DEF Shape, TypeOK, OwnersExist, IsTable
    <2>2. CASE s \in copies
        <3>1. origin[s] \in DOMAIN slots
            BY <1>2, <2>2 DEF SlotsOf
        <3>2. slots[origin[s]] \in SlotRow /\ slotItems[origin[s]] \in ItemCounts
            BY <3>1 DEF Shape, TypeOK, OwnersExist, IsTable
        <3>3. slots'[s] \in SlotRow /\ slots'[s].lineup = new
            BY <1>2, <2>2, <3>2 DEF SlotRow
        <3>4. QED
            BY <1>2, <1>6, <2>2, <3>2, <3>3
    <2>3. QED
        BY <1>1, <2>1, <2>2
<1>8. slots' = [s \in DOMAIN slots' |-> slots'[s]] /\ slotItems' = [s \in DOMAIN slotItems' |-> slotItems'[s]]
    BY DEF CopyLineup
<1>9. IsTable(slots', SlotIds, SlotRow) /\ IsTable(slotItems', SlotIds, ItemCounts)
    BY <1>1, <1>7, <1>8 DEF IsTable
<1>10. QED
    BY <1>1, <1>6, <1>7, <1>9 DEF Shape, TypeOK, OwnersExist, CopyLineup

-----------------------------------------------------------------------------
(* The theorems.                                                           *)

LEMMA ShapeStep == Shape /\ [Next]_store => Shape'
<1> SUFFICES ASSUME Shape, [Next]_store PROVE Shape'
    OBVIOUS
<1>1. CASE MatchStep
    BY <1>1, ShapeCreateMatchShell, ShapeFinalizeMatch DEF MatchStep
<1>2. CASE LineupStep
    BY <1>2, ShapeAddLineup, ShapeCopyLineup, ShapeUpdateLineup, ShapeDeleteLineup,
       ShapeLineupRelic DEF LineupStep
<1>3. CASE SlotStep
    BY <1>3, ShapeAddSlot, ShapeSetSlotStars, ShapeDeleteSlot, ShapeSlotItem DEF SlotStep
<1>4. CASE CodexStep
    BY <1>4, ShapeCodex
<1>5. CASE UNCHANGED store
    BY <1>5 DEF Shape, TypeOK, OwnersExist, IsTable, store
<1>6. QED
    BY <1>1, <1>2, <1>3, <1>4, <1>5 DEF Next

LEMMA ShapeAlways == Spec => []Shape
BY ShapeInit, ShapeStep, PTL DEF Spec

\* Whatever the operations of the store do, its tables hold rows of their schema:
\* in particular no copied lineup gets a placement outside 1..8 and no new cell an
\* index that is not a natural (util.go FirstFreePlacement, NextSlotIndex).
THEOREM TypeCorrect == Spec => []TypeOK
<1>1. Shape => TypeOK
    BY DEF Shape
<1>2. QED
    BY <1>1, ShapeAlways, PTL

\* No operation leaves a row behind whose slot, lineup or match is gone: the
\* cascades of DeleteLineup and DeleteSlot are complete (matchwrite.go, schema).
THEOREM OwnersAlwaysExist == Spec => []OwnersExist
<1>1. Shape => OwnersExist
    BY DEF Shape
<1>2. QED
    BY <1>1, ShapeAlways, PTL

-----------------------------------------------------------------------------
(* One match per step.                                                     *)

MatchOfSlot(s) == lineups[slots[s].lineup].match

\* The step leaves alone every row of every match but t, and gives no other match
\* a new row.
EditsOnly(t) ==
    /\ \A m \in DOMAIN matches \ {t} : m \in DOMAIN matches' /\ matches'[m] = matches[m]
    /\ \A l \in DOMAIN lineups : lineups[l].match # t =>
            /\ l \in DOMAIN lineups'
            /\ lineups'[l] = lineups[l]
            /\ lineupRelics'[l] = lineupRelics[l]
    /\ \A l \in DOMAIN lineups' : lineups'[l].match # t =>
            l \in DOMAIN lineups /\ lineups[l].match # t
    /\ \A s \in DOMAIN slots : MatchOfSlot(s) # t =>
            /\ s \in DOMAIN slots'
            /\ slots'[s] = slots[s]
            /\ slotItems'[s] = slotItems[s]
    /\ \A s \in DOMAIN slots' : MatchOfSlot(s)' # t =>
            s \in DOMAIN slots /\ MatchOfSlot(s) # t

Open(t) == t \notin DOMAIN matches \/ matches[t].finalizedAt = 0

\* A write that only adds a lineup of match t and slots of that lineup edits t only.
LEMMA AddedBoardEdits ==
    ASSUME Shape, NEW t, NEW new, NEW ids, matches' = matches,
           DOMAIN lineups' = DOMAIN lineups \cup {new},
           lineups'[new].match = t,
           \A l \in DOMAIN lineups :
               lineups'[l] = lineups[l] /\ lineupRelics'[l] = lineupRelics[l],
           DOMAIN slots' = DOMAIN slots \cup ids,
           \A s \in DOMAIN slots : slots'[s] = slots[s] /\ slotItems'[s] = slotItems[s],
           \A c \in ids : slots'[c].lineup = new
    PROVE  EditsOnly(t)
<1>1. \A l \in DOMAIN lineups' : lineups'[l].match # t =>
            l \in DOMAIN lineups /\ lineups[l].match # t
    OBVIOUS
<1>2. \A s \in DOMAIN slots : slots[s].lineup \in DOMAIN lineups
    BY DEF Shape, OwnersExist
<1>3. ASSUME NEW s \in DOMAIN slots', MatchOfSlot(s)' # t
      PROVE  s \in DOMAIN slots /\ MatchOfSlot(s) # t
    <2>1. lineups'[slots'[s].lineup].match # t
        BY <1>3 DEF MatchOfSlot
    <2>2. s \notin ids
        BY <2>1
    <2>3. s \in DOMAIN slots /\ slots'[s] = slots[s]
        BY <2>2
    <2>4. lineups'[slots[s].lineup] = lineups[slots[s].lineup]
        BY <1>2, <2>3
    <2>5. QED
        BY <2>1, <2>3, <2>4 DEF MatchOfSlot
<1>4. \A m \in DOMAIN matches \ {t} : m \in DOMAIN matches' /\ matches'[m] = matches[m]
    OBVIOUS
<1>5. /\ \A l \in DOMAIN lineups : lineups[l].match # t =>
            /\ l \in DOMAIN lineups'
            /\ lineups'[l] = lineups[l]
            /\ lineupRelics'[l] = lineupRelics[l]
      /\ \A s \in DOMAIN slots : MatchOfSlot(s) # t =>
            /\ s \in DOMAIN slots'
            /\ slots'[s] = slots[s]
            /\ slotItems'[s] = slotItems[s]
    OBVIOUS
<1>6. QED
    BY <1>1, <1>3, <1>4, <1>5 DEF EditsOnly

LEMMA EditsCreateMatchShell ==
    ASSUME Shape, NEW patch, NEW source, CreateMatchShell(patch, source)
    PROVE  \E t : Open(t) /\ EditsOnly(t)
<1>1. PICK high \in 0..(MaxMatches - 1) :
        /\ IsHighest(high, DOMAIN matches)
        /\ matches' = Insert(matches, high + 1,
                             [patch |-> patch, source |-> source, finalizedAt |-> 0])
    BY DEF CreateMatchShell
<1>2. DOMAIN matches \in SUBSET Nat /\ high \in Nat
    BY DEF Shape, TypeOK, IsTable, MatchIds
<1>3. high + 1 \notin DOMAIN matches
    BY <1>1, <1>2, HighestIsFresh
<1>4. EditsOnly(high + 1)
    BY <1>1, <1>3 DEF EditsOnly, CreateMatchShell, Insert, MatchOfSlot
<1>5. QED
    BY <1>3, <1>4 DEF Open

LEMMA EditsFinalizeMatch ==
    ASSUME Shape, NEW m, NEW now, FinalizeMatch(m, now)
    PROVE  Open(m) /\ EditsOnly(m)
<1>1. Open(m)
    BY DEF Open, FinalizeMatch, MatchWritable
<1>2. EditsOnly(m)
    BY DEF EditsOnly, FinalizeMatch, MatchOfSlot
<1>3. QED
    BY <1>1, <1>2

LEMMA EditsAddLineup ==
    ASSUME Shape, NEW m \in MatchIds, NEW pro \in CodexIds("pros") \cup {NoPro},
           NEW label \in Labels, NEW placement \in Placements, NEW result \in Results,
           NEW cells \in BoardInputs, NEW relics \in SUBSET CodexIds("relics"),
           AddLineup(m, pro, label, placement, result, cells, relics)
    PROVE  Open(m) /\ EditsOnly(m)
<1>1. PICK new \in LineupIds, ids \in SUBSET SlotIds : \E source \in [ids -> DOMAIN cells] :
        AddWrites(m, pro, label, placement, result, cells, relics, new, ids, source)
    BY AddLineupWrites
<1>2. Open(m)
    BY DEF Open, AddLineup, MatchWritable
<1>3. matches' = matches
    BY DEF AddLineup
<1>4. /\ DOMAIN lineups' = DOMAIN lineups \cup {new}
      /\ lineups'[new].match = m
      /\ \A l \in DOMAIN lineups : lineups'[l] = lineups[l]
    BY <1>1 DEF AddWrites, Insert
<1>5. \A l \in DOMAIN lineups : lineupRelics'[l] = lineupRelics[l]
    BY <1>1 DEF AddWrites, Insert, Shape, OwnersExist
<1>6. /\ DOMAIN slots' = DOMAIN slots \cup ids
      /\ \A s \in DOMAIN slots : slots'[s] = slots[s] /\ slotItems'[s] = slotItems[s]
    BY <1>1 DEF AddWrites
<1>7. ASSUME NEW c \in ids PROVE slots'[c].lineup = new
    BY <1>1 DEF AddWrites
<1>8. EditsOnly(m)
    BY <1>3, <1>4, <1>5, <1>6, <1>7, AddedBoardEdits
<1>9. QED
    BY <1>2, <1>8

LEMMA EditsCopyLineup ==
    ASSUME Shape, NEW l \in LineupIds, CopyLineup(l)
    PROVE  Open(lineups[l].match) /\ EditsOnly(lineups[l].match)
<1> DEFINE t == lineups[l].match
<1>1. PICK new \in LineupIds, copies \in SUBSET SlotIds : CopyWrites(l, new, copies)
    BY CopyLineupWrites
<1>2. Open(t)
    BY DEF Open, CopyLineup, LineupWritable, MatchWritable
<1>3. /\ \A k \in DOMAIN lineups : lineups'[k] = lineups[k] /\ lineupRelics'[k] = lineupRelics[k]
      /\ DOMAIN lineups' = DOMAIN lineups \cup {new}
      /\ lineups'[new].match = t
    BY <1>1 DEF CopyWrites, Insert, Shape, OwnersExist
<1>4. PICK origin \in [copies -> SlotsOf(l)] :
        \A c \in copies : slots'[c] = [slots[origin[c]] EXCEPT !.lineup = new]
    BY <1>1 DEF CopyWrites
<1>5. \A c \in copies : slots'[c].lineup = new
    BY <1>4 DEF SlotsOf, Shape, TypeOK, IsTable, SlotRow
<1>6. /\ \A s \in DOMAIN slots : slots'[s] = slots[s] /\ slotItems'[s] = slotItems[s]
      /\ DOMAIN slots' = DOMAIN slots \cup copies
    BY <1>1 DEF CopyWrites
<1>7. matches' = matches
    BY DEF CopyLineup
<1>8. EditsOnly(t)
    BY <1>3, <1>5, <1>6, <1>7, AddedBoardEdits
<1>9. QED
    BY <1>2, <1>8

LEMMA EditsUpdateLineup ==
    ASSUME Shape, NEW l, NEW pro, NEW label, NEW placement, NEW result,
           UpdateLineup(l, pro, label, placement, result)
    PROVE  Open(lineups[l].match) /\ EditsOnly(lineups[l].match)
<1> DEFINE t == lineups[l].match
<1>1. Open(t)
    BY DEF Open, UpdateLineup, LineupWritable, MatchWritable
<1>2. /\ DOMAIN lineups' = DOMAIN lineups
      /\ \A k \in DOMAIN lineups : lineups'[k].match = lineups[k].match
      /\ \A k \in DOMAIN lineups : k # l => lineups'[k] = lineups[k]
    BY DEF UpdateLineup, LineupWritable, Shape, TypeOK, IsTable, LineupRow
<1>3. EditsOnly(t)
    BY <1>2 DEF EditsOnly, UpdateLineup, MatchOfSlot, Shape, OwnersExist
<1>4. QED
    BY <1>1, <1>3

LEMMA EditsDeleteLineup ==
    ASSUME Shape, NEW l, DeleteLineup(l)
    PROVE  Open(lineups[l].match) /\ EditsOnly(lineups[l].match)
<1> DEFINE t == lineups[l].match
<1>1. Open(t)
    BY DEF Open, DeleteLineup, LineupWritable, MatchWritable
<1>2. EditsOnly(t)
    BY DEF EditsOnly, DeleteLineup, Without, SlotsOf, MatchOfSlot, Shape, OwnersExist
<1>3. QED
    BY <1>1, <1>2

LEMMA EditsLineupRelic ==
    ASSUME Shape, NEW l, NEW relic, AddLineupRelic(l, relic) \/ RemoveLineupRelic(l, relic)
    PROVE  Open(lineups[l].match) /\ EditsOnly(lineups[l].match)
<1> DEFINE t == lineups[l].match
<1>1. Open(t)
    BY DEF Open, AddLineupRelic, RemoveLineupRelic, LineupWritable, MatchWritable
<1>2. EditsOnly(t)
    BY DEF EditsOnly, AddLineupRelic, RemoveLineupRelic, MatchOfSlot, Shape,
           OwnersExist
<1>3. QED
    BY <1>1, <1>2

LEMMA EditsAddSlot ==
    ASSUME Shape, NEW l, NEW hero, NEW stars, AddSlot(l, hero, stars)
    PROVE  Open(lineups[l].match) /\ EditsOnly(lineups[l].match)
<1> DEFINE t == lineups[l].match
           row == [lineup |-> l, hero |-> hero,
                   index |-> NextSlotIndex(IndexesOf(l)), stars |-> stars]
<1>1. PICK high \in 0..(MaxSlots - 1) :
        /\ IsHighest(high, DOMAIN slots)
        /\ slots' = Insert(slots, high + 1, row)
        /\ slotItems' = Insert(slotItems, high + 1, NoItems)
    BY DEF AddSlot
<1>2. DOMAIN slots \in SUBSET Nat /\ high \in Nat
    BY DEF Shape, TypeOK, IsTable, SlotIds
<1>3. high + 1 \notin DOMAIN slots
    BY <1>1, <1>2, HighestIsFresh
<1>4. Open(t)
    BY DEF Open, AddSlot, LineupWritable, MatchWritable
<1>5. EditsOnly(t)
    BY <1>1, <1>3 DEF EditsOnly, AddSlot, Insert, MatchOfSlot, Shape, OwnersExist
<1>6. QED
    BY <1>4, <1>5

LEMMA EditsSlot ==
    ASSUME Shape, NEW s, NEW stars, NEW item,
           \/ SetSlotStars(s, stars)
           \/ DeleteSlot(s)
           \/ AddSlotItem(s, item)
           \/ RemoveSlotItem(s, item)
    PROVE  Open(MatchOfSlot(s)) /\ EditsOnly(MatchOfSlot(s))
<1> DEFINE t == MatchOfSlot(s)
<1>1. Open(t)
    BY DEF Open, SetSlotStars, DeleteSlot, AddSlotItem, RemoveSlotItem, SlotWritable,
           LineupWritable, MatchWritable, MatchOfSlot
<1>2. EditsOnly(t)
    <2>1. CASE SetSlotStars(s, stars)
        BY <2>1 DEF EditsOnly, SetSlotStars, MatchOfSlot
    <2>2. CASE DeleteSlot(s)
        BY <2>2 DEF EditsOnly, DeleteSlot, Without, MatchOfSlot, Shape, OwnersExist
    <2>3. CASE AddSlotItem(s, item) \/ RemoveSlotItem(s, item)
        BY <2>3 DEF EditsOnly, AddSlotItem, RemoveSlotItem, MatchOfSlot,
               Shape, OwnersExist
    <2>4. QED
        BY <2>1, <2>2, <2>3
<1>3. QED
    BY <1>1, <1>2

LEMMA EditsCodex ==
    ASSUME Shape, CodexStep
    PROVE  \E t : Open(t) /\ EditsOnly(t)
<1>1. UNCHANGED <<matches, lineups, slots, slotItems, lineupRelics>>
    BY DEF CodexStep, CreateCodexRow, DeleteCodexRow
<1>2. 0 \notin DOMAIN matches
    BY DEF Shape, TypeOK, IsTable, MatchIds
<1>3. Open(0) /\ EditsOnly(0)
    BY <1>1, <1>2 DEF Open, EditsOnly, MatchOfSlot
<1>4. QED
    BY <1>3

LEMMA EditsOneMatch ==
    ASSUME Shape, Next
    PROVE  \E t : Open(t) /\ EditsOnly(t)
<1>1. CASE MatchStep
    BY <1>1, EditsCreateMatchShell, EditsFinalizeMatch DEF MatchStep
<1>2. CASE LineupStep
    BY <1>2, EditsAddLineup, EditsCopyLineup, EditsUpdateLineup, EditsDeleteLineup,
       EditsLineupRelic DEF LineupStep
<1>3. CASE SlotStep
    BY <1>3, EditsAddSlot, EditsSlot DEF SlotStep
<1>4. CASE CodexStep
    BY <1>4, EditsCodex
<1>5. QED
    BY <1>1, <1>2, <1>3, <1>4 DEF Next

-----------------------------------------------------------------------------
(* Finalized matches.                                                      *)

\* A step that edits another match leaves every row of m as it was.
LEMMA OtherMatchKept ==
    ASSUME Shape, Shape', NEW t, EditsOnly(t), NEW m \in DOMAIN matches, m # t
    PROVE  /\ m \in DOMAIN matches'
           /\ matches'[m] = matches[m]
           /\ LineupsOf(m)' = LineupsOf(m)
           /\ \A l \in LineupsOf(m) : /\ lineups'[l] = lineups[l]
                                      /\ lineupRelics'[l] = lineupRelics[l]
                                      /\ SlotsOf(l)' = SlotsOf(l)
           /\ \A l \in LineupsOf(m) : \A s \in SlotsOf(l) : /\ slots'[s] = slots[s]
                                                           /\ slotItems'[s] = slotItems[s]
<1>1. m \in DOMAIN matches' /\ matches'[m] = matches[m]
    BY DEF EditsOnly
<1>2. LineupsOf(m)' = LineupsOf(m)
    BY DEF EditsOnly, LineupsOf
<1>3. ASSUME NEW l \in LineupsOf(m)
      PROVE  /\ lineups'[l] = lineups[l]
             /\ lineupRelics'[l] = lineupRelics[l]
             /\ l \in DOMAIN lineups /\ lineups[l].match = m
    BY DEF EditsOnly, LineupsOf
<1>4. ASSUME NEW l \in LineupsOf(m), NEW s \in SlotsOf(l)
      PROVE  /\ s \in SlotsOf(l)'
             /\ slots'[s] = slots[s]
             /\ slotItems'[s] = slotItems[s]
    BY <1>3 DEF EditsOnly, SlotsOf, MatchOfSlot
<1>5. ASSUME NEW l \in LineupsOf(m), NEW s \in SlotsOf(l)'
      PROVE  s \in SlotsOf(l)
    <2>1. s \in DOMAIN slots' /\ slots'[s].lineup = l /\ MatchOfSlot(s)' = m
        BY <1>3 DEF SlotsOf, MatchOfSlot
    <2>2. QED
        BY <2>1 DEF EditsOnly, SlotsOf
<1>6. QED
    BY <1>1, <1>2, <1>3, <1>4, <1>5

\* Nothing but the rows of m goes into MatchRows(m).
LEMMA SameRows ==
    ASSUME NEW m,
           matches'[m] = matches[m],
           LineupsOf(m)' = LineupsOf(m),
           \A l \in LineupsOf(m) : /\ lineups'[l] = lineups[l]
                                   /\ lineupRelics'[l] = lineupRelics[l]
                                   /\ SlotsOf(l)' = SlotsOf(l),
           \A l \in LineupsOf(m) : \A s \in SlotsOf(l) : /\ slots'[s] = slots[s]
                                                        /\ slotItems'[s] = slotItems[s]
    PROVE  MatchRows(m)' = MatchRows(m)
<1> DEFINE cells == UNION {SlotsOf(l) : l \in LineupsOf(m)}
<1>1. cells' = cells
    OBVIOUS
<1>2. \A s \in cells : slots'[s] = slots[s] /\ slotItems'[s] = slotItems[s]
    OBVIOUS
<1>3. [l \in LineupsOf(m) |-> lineups[l]]' = [l \in LineupsOf(m) |-> lineups[l]]
    OBVIOUS
<1>4. [l \in LineupsOf(m) |-> lineupRelics[l]]' = [l \in LineupsOf(m) |-> lineupRelics[l]]
    OBVIOUS
<1> HIDE DEF cells
<1>5. /\ [s \in cells |-> slots[s]]' = [s \in cells |-> slots[s]]
      /\ [s \in cells |-> slotItems[s]]' = [s \in cells |-> slotItems[s]]
    BY <1>1, <1>2
<1>6. QED
    BY <1>3, <1>4, <1>5 DEF MatchRows, cells

Frozen == \A m \in DOMAIN matches :
            matches[m].finalizedAt > 0 => m \in DOMAIN matches' /\ MatchRows(m)' = MatchRows(m)

LEMMA FrozenStep == ASSUME Shape, Next PROVE Frozen
<1>1. Shape'
    BY ShapeStep
<1>2. PICK t : Open(t) /\ EditsOnly(t)
    BY EditsOneMatch
<1>3. ASSUME NEW m \in DOMAIN matches, matches[m].finalizedAt > 0
      PROVE  m \in DOMAIN matches' /\ MatchRows(m)' = MatchRows(m)
    <2>1. m # t
        BY <1>2, <1>3 DEF Open
    <2>2. QED
        BY <1>1, <1>2, <2>1, OtherMatchKept, SameRows
<1>4. QED
    BY <1>3 DEF Frozen

\* "finalize locks counts and placements" (the finalized_at marker of the schema and
\* the writable guards of matchwrite.go): no operation of the store changes a row of a
\* finalized match, moves its marker, or gives it a new row.
THEOREM FinalizedStaysFrozen == Spec => FinalizedFrozen
<1>1. Shape /\ [Next]_store => [Frozen]_store
    BY FrozenStep
<1>2. QED
    BY <1>1, ShapeAlways, PTL DEF Spec, FinalizedFrozen, Frozen

-----------------------------------------------------------------------------
(* One lineup per placement.                                               *)

LEMMA NewLineupKeepsPlacements ==
    ASSUME PlacementsUnique, NEW new, NEW row, new \notin DOMAIN lineups,
           row.placement \notin PlacementsOf(row.match),
           lineups' = Insert(lineups, new, row)
    PROVE  PlacementsUnique'
BY DEF PlacementsUnique, PlacementsOf, LineupsOf, Insert

LEMMA PlacementsStep == Shape /\ PlacementsUnique /\ [Next]_store => PlacementsUnique'
<1> SUFFICES ASSUME Shape, PlacementsUnique, [Next]_store PROVE PlacementsUnique'
    OBVIOUS
<1>1. CASE lineups' = lineups
    BY <1>1 DEF PlacementsUnique
<1>2. ASSUME NEW m \in MatchIds, NEW pro \in CodexIds("pros") \cup {NoPro},
             NEW label \in Labels, NEW placement \in Placements, NEW result \in Results,
             NEW cells \in BoardInputs, NEW relics \in SUBSET CodexIds("relics"),
             AddLineup(m, pro, label, placement, result, cells, relics)
      PROVE  PlacementsUnique'
    <2> DEFINE row == [match |-> m, pro |-> pro, label |-> label,
                       placement |-> placement, result |-> result]
    <2>0. PICK new \in LineupIds, ids \in SUBSET SlotIds : \E source \in [ids -> DOMAIN cells] :
            AddWrites(m, pro, label, placement, result, cells, relics, new, ids, source)
        BY <1>2, AddLineupWrites
    <2>1. new \notin DOMAIN lineups /\ lineups' = Insert(lineups, new, row)
        BY <2>0 DEF AddWrites
    <2>2. row.placement \notin PlacementsOf(row.match)
        BY <1>2 DEF AddLineup
    <2> HIDE DEF row
    <2>3. QED
        BY <2>1, <2>2, NewLineupKeepsPlacements
<1>3. ASSUME NEW l \in LineupIds, CopyLineup(l)
      PROVE  PlacementsUnique'
    <2> DEFINE free == FirstFreePlacement(PlacementsOf(lineups[l].match))
               row == [match |-> lineups[l].match, pro |-> NoPro, label |-> lineups[l].label,
                       placement |-> free, result |-> NoResult]
    <2>1. PICK new \in LineupIds : new \notin DOMAIN lineups /\ lineups' = Insert(lineups, new, row)
        BY <1>3, CopyLineupWrites DEF CopyWrites
    <2>2. free # 0
        BY <1>3 DEF CopyLineup
    <2>3. free \notin PlacementsOf(lineups[l].match)
        BY <2>2, FirstFreePlacementIsLeastFree
    <2>4. row.placement \notin PlacementsOf(row.match)
        BY <2>3
    <2> HIDE DEF row
    <2>5. QED
        BY <2>1, <2>4, NewLineupKeepsPlacements
<1>4. ASSUME NEW l \in LineupIds, NEW pro, NEW label, NEW placement \in Placements, NEW result,
             UpdateLineup(l, pro, label, placement, result)
      PROVE  PlacementsUnique'
    <2>1. l \in DOMAIN lineups
        BY <1>4 DEF UpdateLineup, LineupWritable
    <2>2. /\ DOMAIN lineups' = DOMAIN lineups
          /\ \A k \in DOMAIN lineups : lineups'[k].match = lineups[k].match
          /\ \A k \in DOMAIN lineups : k # l => lineups'[k] = lineups[k]
          /\ lineups'[l].placement = placement
        BY <1>4, <2>1 DEF UpdateLineup, Shape, TypeOK, IsTable, LineupRow
    <2>3. \A k \in DOMAIN lineups :
            lineups[k].match = lineups[l].match /\ lineups[k].placement = placement => k = l
        BY <1>4 DEF UpdateLineup, LineupsOf
    <2>4. QED
        BY <2>1, <2>2, <2>3 DEF PlacementsUnique
<1>5. ASSUME NEW l \in LineupIds, DeleteLineup(l)
      PROVE  PlacementsUnique'
    BY <1>5 DEF DeleteLineup, Without, PlacementsUnique
<1>6. CASE MatchStep
    BY <1>1, <1>6 DEF MatchStep, CreateMatchShell, FinalizeMatch
<1>7. CASE LineupStep
    BY <1>1, <1>2, <1>3, <1>4, <1>5, <1>7 DEF LineupStep, AddLineupRelic, RemoveLineupRelic
<1>8. CASE SlotStep
    BY <1>1, <1>8 DEF SlotStep, AddSlot, SetSlotStars, DeleteSlot, AddSlotItem, RemoveSlotItem
<1>9. CASE CodexStep
    BY <1>1, <1>9 DEF CodexStep, CreateCodexRow, DeleteCodexRow
<1>10. QED
    BY <1>1, <1>6, <1>7, <1>8, <1>9 DEF Next, store

\* No two lineups of a match ever share a placement, so the schema's UNIQUE(match_id,
\* placement) never rejects a copy: FirstFreePlacement is computed in the transaction
\* that inserts (matchwrite.go CopyLineup, util.go).
THEOREM PlacementsStayUnique == Spec => []PlacementsUnique
<1>1. Init => PlacementsUnique
    BY DEF Init, PlacementsUnique
<1>2. QED
    BY <1>1, PlacementsStep, ShapeAlways, PTL DEF Spec

-----------------------------------------------------------------------------
(* One slot per cell.                                                      *)

LEMMA CellsStep == Shape /\ CellsUnique /\ [Next]_store => CellsUnique'
<1> SUFFICES ASSUME Shape, CellsUnique, [Next]_store PROVE CellsUnique'
    OBVIOUS
<1>1. CASE slots' = slots
    BY <1>1 DEF CellsUnique
<1>2. ASSUME NEW m \in MatchIds, NEW pro \in CodexIds("pros") \cup {NoPro},
             NEW label \in Labels, NEW placement \in Placements, NEW result \in Results,
             NEW cells \in BoardInputs, NEW relics \in SUBSET CodexIds("relics"),
             AddLineup(m, pro, label, placement, result, cells, relics)
      PROVE  CellsUnique'
    <2>1. PICK new \in LineupIds, ids \in SUBSET SlotIds : \E source \in [ids -> DOMAIN cells] :
            AddWrites(m, pro, label, placement, result, cells, relics, new, ids, source)
        BY <1>2, AddLineupWrites
    <2>2. PICK source \in [ids -> DOMAIN cells] :
            AddWrites(m, pro, label, placement, result, cells, relics, new, ids, source)
        BY <2>1
    <2>3. \A s \in DOMAIN slots : slots'[s] = slots[s] /\ slots'[s].lineup # new
        BY <2>2 DEF AddWrites, Shape, OwnersExist
    <2>4. \A c \in ids : /\ slots'[c].lineup = new
                         /\ slots'[c].index = cells[source[c]].index
        BY <2>2 DEF AddWrites
    <2>5. \A c, d \in ids : cells[source[c]].index = cells[source[d]].index => c = d
        BY <1>2, <2>2 DEF AddWrites, AddLineup, DistinctCells
    <2>6. DOMAIN slots' = DOMAIN slots \cup ids
        BY <2>2 DEF AddWrites
    <2>7. QED
        BY <2>3, <2>4, <2>5, <2>6 DEF CellsUnique
<1>3. ASSUME NEW l \in LineupIds, CopyLineup(l)
      PROVE  CellsUnique'
    <2>1. PICK new \in LineupIds, copies \in SUBSET SlotIds : CopyWrites(l, new, copies)
        BY <1>3, CopyLineupWrites
    <2>2. PICK origin \in [copies -> SlotsOf(l)] :
            /\ \A c, d \in copies : origin[c] = origin[d] => c = d
            /\ \A c \in copies : slots'[c] = [slots[origin[c]] EXCEPT !.lineup = new]
        BY <2>1 DEF CopyWrites
    <2>3. \A s \in DOMAIN slots : slots'[s] = slots[s] /\ slots'[s].lineup # new
        BY <2>1 DEF CopyWrites, Shape, OwnersExist
    <2>4. \A c \in copies : origin[c] \in DOMAIN slots /\ slots[origin[c]].lineup = l
        BY <2>2 DEF SlotsOf
    <2>5. ASSUME NEW c \in copies
          PROVE  slots'[c].lineup = new /\ slots'[c].index = slots[origin[c]].index
        <3>1. slots[origin[c]] \in SlotRow
            BY <2>4 DEF Shape, TypeOK, IsTable
        <3>2. QED
            BY <2>2, <3>1 DEF SlotRow
    <2>6. \A c, d \in copies : slots'[c].index = slots'[d].index => c = d
        BY <2>2, <2>4, <2>5 DEF CellsUnique
    <2>7. DOMAIN slots' = DOMAIN slots \cup copies
        BY <2>1 DEF CopyWrites
    <2>8. QED
        BY <2>3, <2>5, <2>6, <2>7 DEF CellsUnique
<1>4. ASSUME NEW l \in LineupIds, DeleteLineup(l)
      PROVE  CellsUnique'
    BY <1>4 DEF DeleteLineup, Without, CellsUnique
<1>5. ASSUME NEW l, NEW hero, NEW stars, AddSlot(l, hero, stars)
      PROVE  CellsUnique'
    <2> DEFINE free == NextSlotIndex(IndexesOf(l))
               row == [lineup |-> l, hero |-> hero, index |-> free, stars |-> stars]
    <2>1. PICK high \in 0..(MaxSlots - 1) : slots' = Insert(slots, high + 1, row)
        BY <1>5 DEF AddSlot
    <2> DEFINE new == high + 1
    <2>2. free \notin IndexesOf(l)
        BY IndexesFinite, NextSlotIndexIsLeastFree DEF Shape
    <2>3. \A s \in DOMAIN slots : slots[s].lineup = l => slots[s].index # free
        BY <2>2 DEF IndexesOf, SlotsOf
    <2>4. /\ DOMAIN slots' = DOMAIN slots \cup {new}
          /\ \A s \in DOMAIN slots : s # new => slots'[s] = slots[s]
          /\ slots'[new].lineup = l /\ slots'[new].index = free
        BY <2>1 DEF Insert
    <2> HIDE DEF new, free
    <2>5. QED
        BY <2>3, <2>4 DEF CellsUnique
<1>6. ASSUME NEW s, NEW stars, SetSlotStars(s, stars)
      PROVE  CellsUnique'
    <2>1. /\ DOMAIN slots' = DOMAIN slots
          /\ \A c \in DOMAIN slots : /\ slots'[c].lineup = slots[c].lineup
                                     /\ slots'[c].index = slots[c].index
        BY <1>6 DEF SetSlotStars, SlotWritable, Shape, TypeOK, IsTable, SlotRow
    <2>2. QED
        BY <2>1 DEF CellsUnique
<1>7. ASSUME NEW s, DeleteSlot(s)
      PROVE  CellsUnique'
    BY <1>7 DEF DeleteSlot, Without, CellsUnique
<1>8. CASE MatchStep
    BY <1>1, <1>8 DEF MatchStep, CreateMatchShell, FinalizeMatch
<1>9. CASE LineupStep
    <2>1. ASSUME NEW l, NEW pro, NEW label, NEW placement, NEW result,
                 UpdateLineup(l, pro, label, placement, result)
          PROVE  CellsUnique'
        BY <1>1, <2>1 DEF UpdateLineup
    <2>2. ASSUME NEW l, NEW relic, AddLineupRelic(l, relic) \/ RemoveLineupRelic(l, relic)
          PROVE  CellsUnique'
        BY <1>1, <2>2 DEF AddLineupRelic, RemoveLineupRelic
    <2>3. QED
        BY <1>2, <1>3, <1>4, <1>9, <2>1, <2>2 DEF LineupStep
<1>10. CASE SlotStep
    BY <1>1, <1>5, <1>6, <1>7, <1>10 DEF SlotStep, AddSlotItem, RemoveSlotItem
<1>11. CASE CodexStep
    BY <1>1, <1>11 DEF CodexStep, CreateCodexRow, DeleteCodexRow
<1>12. QED
    BY <1>1, <1>8, <1>9, <1>10, <1>11 DEF Next, store

\* A board never holds two slots on one cell, through deletes, copies and reused row
\* ids: the UNIQUE(lineup_id, slot_index) that slotwrite.go mapSlotTaken translates is
\* never hit by AddSlot (util.go NextSlotIndex) nor by CopyLineup.
THEOREM CellsStayUnique == Spec => []CellsUnique
<1>1. Init => CellsUnique
    BY DEF Init, CellsUnique
<1>2. QED
    BY <1>1, CellsStep, ShapeAlways, PTL DEF Spec

-----------------------------------------------------------------------------
(* What finalize checked stays true.                                       *)

\* FinalizedLegal of one match.
Legal(m) ==
    IF matches[m].source = "me"
    THEN \E l \in LineupsOf(m) : LineupsOf(m) = {l}
    ELSE \A p \in Placements :
            \E l \in LineupsOf(m) :
                \A k \in LineupsOf(m) : lineups[k].placement = p <=> k = l

LEMMA LineupsFinite == ASSUME TypeOK, NEW m PROVE IsFiniteSet(LineupsOf(m))
<1>1. LineupsOf(m) \in SUBSET (1..MaxLineups)
    BY DEF TypeOK, IsTable, LineupsOf, LineupIds
<1>2. MaxLineups \in Int
    BY MatchStoreAssumption
<1>3. IsFiniteSet(1..MaxLineups)
    BY <1>2, FS_Interval
<1>4. QED
    BY <1>1, <1>3, FS_Subset

LEMMA FinalizeIsLegal ==
    ASSUME Shape, NEW m, NEW now, FinalizeMatch(m, now)
    PROVE  Legal(m)'
<1> DEFINE placementOf == [l \in LineupsOf(m) |-> lineups[l].placement]
<1>1. m \in DOMAIN matches /\ matches[m] \in MatchRow
    BY DEF FinalizeMatch, MatchWritable, Shape, TypeOK, IsTable
<1>2. matches[m].source \in Sources /\ ValidateFinalize(matches[m].source, placementOf)
    BY <1>1 DEF FinalizeMatch, MatchRow
<1>3. \A l \in LineupsOf(m) : placementOf[l] = lineups[l].placement
    OBVIOUS
<1>4. IF matches[m].source = "me"
      THEN \E l \in LineupsOf(m) : LineupsOf(m) = {l}
      ELSE \A p \in Placements :
                \E l \in LineupsOf(m) : \A k \in LineupsOf(m) : placementOf[k] = p <=> k = l
    <2>1. /\ DOMAIN placementOf = LineupsOf(m)
          /\ placementOf = [l \in LineupsOf(m) |-> placementOf[l]]
          /\ IsFiniteSet(LineupsOf(m))
        BY LineupsFinite DEF Shape
    <2> HIDE DEF placementOf
    <2>2. QED
        BY <1>2, <2>1, ValidateFinalizeIsComplete
<1>5. Legal(m)
    BY <1>3, <1>4 DEF Legal
<1>6. /\ LineupsOf(m)' = LineupsOf(m) /\ lineups' = lineups
      /\ matches'[m].source = matches[m].source
    BY <1>1 DEF FinalizeMatch, LineupsOf, MatchRow
<1>7. QED
    BY <1>5, <1>6 DEF Legal

\* Only CreateMatchShell and FinalizeMatch write the table of matches.
LEMMA BoardStepsKeepMatches == LineupStep \/ SlotStep \/ CodexStep => matches' = matches
<1>1. ASSUME LineupStep PROVE matches' = matches
    <2>1. \A k, pro, label, placement, result, cells, relics :
            AddLineup(k, pro, label, placement, result, cells, relics) => matches' = matches
        BY DEF AddLineup
    <2>2. \A l, pro, label, placement, result :
            UpdateLineup(l, pro, label, placement, result) => matches' = matches
        BY DEF UpdateLineup
    <2>3. \A l : CopyLineup(l) \/ DeleteLineup(l) => matches' = matches
        BY DEF CopyLineup, DeleteLineup
    <2>4. \A l, relic : AddLineupRelic(l, relic) \/ RemoveLineupRelic(l, relic) => matches' = matches
        BY DEF AddLineupRelic, RemoveLineupRelic
    <2>5. QED
        BY <1>1, <2>1, <2>2, <2>3, <2>4 DEF LineupStep
<1>2. ASSUME SlotStep PROVE matches' = matches
    BY <1>2 DEF SlotStep, AddSlot, SetSlotStars, DeleteSlot, AddSlotItem, RemoveSlotItem
<1>3. ASSUME CodexStep PROVE matches' = matches
    BY <1>3 DEF CodexStep, CreateCodexRow, DeleteCodexRow
<1>4. QED
    BY <1>1, <1>2, <1>3

\* A step that stamps the marker of a match is its FinalizeMatch.
LEMMA OnlyFinalizeStamps ==
    ASSUME Shape, Next, NEW m \in DOMAIN matches', matches'[m].finalizedAt > 0
    PROVE  \/ m \in DOMAIN matches /\ matches[m].finalizedAt > 0
           \/ \E now : FinalizeMatch(m, now)
<1>1. CASE matches' = matches
    BY <1>1
<1>2. ASSUME NEW patch, NEW source, CreateMatchShell(patch, source)
      PROVE  m \in DOMAIN matches /\ matches[m].finalizedAt > 0
    BY <1>2 DEF CreateMatchShell, Insert
<1>3. ASSUME NEW n, NEW now, FinalizeMatch(n, now), n # m
      PROVE  m \in DOMAIN matches /\ matches[m].finalizedAt > 0
    BY <1>3 DEF FinalizeMatch
<1>4. CASE MatchStep
    BY <1>2, <1>3, <1>4 DEF MatchStep
<1>5. CASE LineupStep \/ SlotStep \/ CodexStep
    BY <1>1, <1>5, BoardStepsKeepMatches
<1>6. QED
    BY <1>4, <1>5 DEF Next

LEMMA LegalKept ==
    ASSUME Shape, Next, FinalizedLegal, NEW m \in DOMAIN matches, matches[m].finalizedAt > 0
    PROVE  Legal(m)'
<1>1. Shape'
    BY ShapeStep
<1>2. PICK t : Open(t) /\ EditsOnly(t)
    BY EditsOneMatch
<1>3. m # t
    BY <1>2 DEF Open
<1>4. /\ matches'[m] = matches[m]
      /\ LineupsOf(m)' = LineupsOf(m)
      /\ \A l \in LineupsOf(m) : lineups'[l] = lineups[l]
    BY <1>1, <1>2, <1>3, OtherMatchKept
<1>5. Legal(m)
    BY DEF FinalizedLegal, Legal
<1>6. QED
    BY <1>4, <1>5 DEF Legal

LEMMA LegalStep == Shape /\ FinalizedLegal /\ [Next]_store => FinalizedLegal'
<1> SUFFICES ASSUME Shape, FinalizedLegal, [Next]_store PROVE FinalizedLegal'
    OBVIOUS
<1>1. CASE Next
    <2>1. ASSUME NEW m \in DOMAIN matches', matches'[m].finalizedAt > 0
          PROVE  Legal(m)'
        BY <1>1, <2>1, OnlyFinalizeStamps, LegalKept, FinalizeIsLegal
    <2>2. QED
        BY <2>1 DEF FinalizedLegal, Legal
<1>2. CASE UNCHANGED store
    BY <1>2 DEF store, FinalizedLegal, LineupsOf
<1>3. QED
    BY <1>1, <1>2

\* A finalized match carries for ever what its source demands: one lineup for the
\* user's own game, one lineup on each placement for a pro game (validate.go
\* ValidateFinalize inside matchwrite.go FinalizeMatch, and the writable guards after).
THEOREM FinalizedStaysLegal == Spec => []FinalizedLegal
<1>1. Init => FinalizedLegal
    BY DEF Init, FinalizedLegal
<1>2. QED
    BY <1>1, LegalStep, ShapeAlways, PTL DEF Spec

-----------------------------------------------------------------------------
(* History.                                                                *)

LEMMA HistoryAddLineup ==
    ASSUME Shape, HistoryKept, NEW m \in MatchIds, NEW pro \in CodexIds("pros") \cup {NoPro},
           NEW label \in Labels, NEW placement \in Placements, NEW result \in Results,
           NEW cells \in BoardInputs, NEW relics \in SUBSET CodexIds("relics"),
           AddLineup(m, pro, label, placement, result, cells, relics)
    PROVE  HistoryKept'
<1>1. PICK new \in LineupIds, ids \in SUBSET SlotIds : \E source \in [ids -> DOMAIN cells] :
        AddWrites(m, pro, label, placement, result, cells, relics, new, ids, source)
    BY AddLineupWrites
<1>2. PICK source \in [ids -> DOMAIN cells] :
        AddWrites(m, pro, label, placement, result, cells, relics, new, ids, source)
    BY <1>1
<1>3. matches' = matches /\ codex' = codex
    BY DEF AddLineup
<1>4. \A l \in DOMAIN lineups' : ProExists(lineups'[l].pro)
    BY <1>2 DEF AddWrites, Insert, AddLineup, HistoryKept
<1>5. \A l \in DOMAIN lineupRelics' : lineupRelics'[l] \subseteq codex["relics"]
    BY <1>2 DEF AddWrites, Insert, AddLineup, HistoryKept
<1>6. /\ DOMAIN slots' = DOMAIN slots \cup ids
      /\ DOMAIN slotItems' = DOMAIN slots'
      /\ \A s \in DOMAIN slots : slots'[s] = slots[s] /\ slotItems'[s] = slotItems[s]
    BY <1>2 DEF AddWrites
<1>7. \A c \in ids : /\ slots'[c].hero \in codex["heroes"]
                     /\ \A i \in CodexIds("items") : slotItems'[c][i] > 0 => i \in codex["items"]
    BY <1>2 DEF AddWrites, AddLineup
<1>8. \A s \in DOMAIN slots' : slots'[s].hero \in codex["heroes"]
    BY <1>6, <1>7 DEF HistoryKept
<1>9. \A s \in DOMAIN slotItems', i \in CodexIds("items") :
            slotItems'[s][i] > 0 => i \in codex["items"]
    BY <1>6, <1>7 DEF HistoryKept, Shape, OwnersExist
<1>10. QED
    BY <1>3, <1>4, <1>5, <1>8, <1>9 DEF HistoryKept, ProExists

LEMMA HistoryCopyLineup ==
    ASSUME Shape, HistoryKept, NEW l \in LineupIds, CopyLineup(l)
    PROVE  HistoryKept'
<1>1. PICK new \in LineupIds, copies \in SUBSET SlotIds : CopyWrites(l, new, copies)
    BY CopyLineupWrites
<1>2. PICK origin \in [copies -> SlotsOf(l)] :
        \A c \in copies : /\ slots'[c] = [slots[origin[c]] EXCEPT !.lineup = new]
                          /\ slotItems'[c] = slotItems[origin[c]]
    BY <1>1 DEF CopyWrites
<1>3. matches' = matches /\ codex' = codex /\ l \in DOMAIN lineups
    BY DEF CopyLineup, LineupWritable
<1>4. \A k \in DOMAIN lineups' : ProExists(lineups'[k].pro)
    BY <1>1 DEF CopyWrites, Insert, HistoryKept, ProExists
<1>5. \A k \in DOMAIN lineupRelics' : lineupRelics'[k] \subseteq codex["relics"]
    BY <1>1, <1>3 DEF CopyWrites, Insert, HistoryKept, Shape, OwnersExist
<1>6. /\ DOMAIN slots' = DOMAIN slots \cup copies
      /\ DOMAIN slotItems' = DOMAIN slots'
      /\ \A s \in DOMAIN slots : slots'[s] = slots[s] /\ slotItems'[s] = slotItems[s]
    BY <1>1 DEF CopyWrites
<1>7. ASSUME NEW c \in copies
      PROVE  /\ slots'[c].hero \in codex["heroes"]
             /\ \A i \in CodexIds("items") : slotItems'[c][i] > 0 => i \in codex["items"]
    <2>1. origin[c] \in DOMAIN slots /\ origin[c] \in DOMAIN slotItems
        BY <1>2 DEF SlotsOf, Shape, OwnersExist
    <2>2. slots[origin[c]] \in SlotRow
        BY <2>1 DEF Shape, TypeOK, IsTable
    <2>3. slots'[c].hero = slots[origin[c]].hero
        BY <1>2, <2>2 DEF SlotRow
    <2>4. QED
        BY <1>2, <2>1, <2>3 DEF HistoryKept
<1>8. QED
    BY <1>3, <1>4, <1>5, <1>6, <1>7 DEF HistoryKept, ProExists, Shape, OwnersExist

LEMMA HistoryLineup ==
    ASSUME Shape, HistoryKept, NEW l \in LineupIds, NEW pro, NEW label, NEW placement,
           NEW result, NEW relic,
           \/ UpdateLineup(l, pro, label, placement, result)
           \/ DeleteLineup(l)
           \/ AddLineupRelic(l, relic)
           \/ RemoveLineupRelic(l, relic)
    PROVE  HistoryKept'
<1>1. CASE UpdateLineup(l, pro, label, placement, result)
    <2>1. /\ DOMAIN lineups' = DOMAIN lineups
          /\ \A k \in DOMAIN lineups : k # l => lineups'[k] = lineups[k]
          /\ lineups'[l].pro = pro
        BY <1>1 DEF UpdateLineup, LineupWritable, Shape, TypeOK, IsTable, LineupRow
    <2>2. ProExists(pro)
        BY <1>1 DEF UpdateLineup
    <2>3. \A k \in DOMAIN lineups' : ProExists(lineups'[k].pro)
        BY <2>1, <2>2 DEF HistoryKept
    <2>4. QED
        BY <1>1, <2>3 DEF UpdateLineup, HistoryKept, ProExists
<1>2. CASE DeleteLineup(l)
    BY <1>2 DEF DeleteLineup, Without, HistoryKept, ProExists
<1>3. CASE AddLineupRelic(l, relic) \/ RemoveLineupRelic(l, relic)
    <2>1. \A k \in DOMAIN lineupRelics' : lineupRelics'[k] \subseteq codex["relics"]
        BY <1>3 DEF AddLineupRelic, RemoveLineupRelic, HistoryKept
    <2>2. UNCHANGED <<codex, matches, lineups, slots, slotItems>>
        BY <1>3 DEF AddLineupRelic, RemoveLineupRelic
    <2>3. QED
        BY <2>1, <2>2 DEF HistoryKept, ProExists
<1>4. QED
    BY <1>1, <1>2, <1>3

LEMMA HistorySlot ==
    ASSUME Shape, HistoryKept, NEW s, NEW stars, NEW item,
           \/ SetSlotStars(s, stars)
           \/ DeleteSlot(s)
           \/ AddSlotItem(s, item)
           \/ RemoveSlotItem(s, item)
    PROVE  HistoryKept'
<1>1. CASE SetSlotStars(s, stars)
    <2>1. /\ DOMAIN slots' = DOMAIN slots
          /\ \A c \in DOMAIN slots : slots'[c].hero = slots[c].hero
        BY <1>1 DEF SetSlotStars, SlotWritable, Shape, TypeOK, IsTable, SlotRow
    <2>2. QED
        BY <1>1, <2>1 DEF SetSlotStars, HistoryKept, ProExists
<1>2. CASE DeleteSlot(s)
    BY <1>2 DEF DeleteSlot, Without, HistoryKept, ProExists
<1>3. CASE AddSlotItem(s, item) \/ RemoveSlotItem(s, item)
    <2>1. /\ s \in DOMAIN slotItems
          /\ slotItems[s] \in ItemCounts
        BY <1>3 DEF AddSlotItem, RemoveSlotItem, SlotWritable, Shape, TypeOK, OwnersExist, IsTable
    <2>2. PICK n : /\ slotItems' = [slotItems EXCEPT ![s][item] = n]
                   /\ item \in codex["items"] \/ n = 0
        BY <1>3 DEF AddSlotItem, RemoveSlotItem
    <2>3. ASSUME NEW c \in DOMAIN slotItems', NEW i \in CodexIds("items"), slotItems'[c][i] > 0
          PROVE  i \in codex["items"]
        <3>1. CASE c = s /\ i = item
            BY <2>1, <2>2, <2>3, <3>1 DEF ItemCounts
        <3>2. CASE ~(c = s /\ i = item)
            <4>1. slotItems'[c][i] = slotItems[c][i]
                BY <2>1, <2>2, <3>2 DEF ItemCounts
            <4>2. QED
                BY <2>2, <2>3, <4>1 DEF HistoryKept
        <3>3. QED
            BY <3>1, <3>2
    <2>4. UNCHANGED <<codex, matches, lineups, slots, lineupRelics>>
        BY <1>3 DEF AddSlotItem, RemoveSlotItem
    <2>5. QED
        BY <2>3, <2>4 DEF HistoryKept, ProExists
<1>4. QED
    BY <1>1, <1>2, <1>3

LEMMA HistoryAddSlot ==
    ASSUME Shape, HistoryKept, NEW l, NEW hero, NEW stars, AddSlot(l, hero, stars)
    PROVE  HistoryKept'
<1>1. PICK new \in SlotIds :
        /\ slots' = Insert(slots, new, [lineup |-> l, hero |-> hero,
                                        index |-> NextSlotIndex(IndexesOf(l)), stars |-> stars])
        /\ slotItems' = Insert(slotItems, new, NoItems)
    <2>1. \A high \in 0..(MaxSlots - 1) : high + 1 \in SlotIds
        BY MatchStoreAssumption DEF SlotIds
    <2>2. QED
        BY <2>1 DEF AddSlot
<1>2. \A s \in DOMAIN slots' : slots'[s].hero \in codex["heroes"]
    BY <1>1 DEF Insert, AddSlot, HistoryKept
<1>3. \A s \in DOMAIN slotItems', i \in CodexIds("items") :
            slotItems'[s][i] > 0 => i \in codex["items"]
    BY <1>1 DEF Insert, NoItems, HistoryKept
<1>4. UNCHANGED <<codex, matches, lineups, lineupRelics>>
    BY DEF AddSlot
<1>5. QED
    BY <1>2, <1>3, <1>4 DEF HistoryKept, ProExists

LEMMA HistoryMatch ==
    ASSUME Shape, HistoryKept, MatchStep
    PROVE  HistoryKept'
<1>1. ASSUME NEW patch, NEW source, CreateMatchShell(patch, source)
      PROVE  HistoryKept'
    BY <1>1 DEF CreateMatchShell, Insert, HistoryKept, ProExists
<1>2. ASSUME NEW m, NEW now, FinalizeMatch(m, now)
      PROVE  HistoryKept'
    <2>1. /\ DOMAIN matches' = DOMAIN matches
          /\ \A k \in DOMAIN matches : matches'[k].patch = matches[k].patch
        BY <1>2 DEF FinalizeMatch, MatchWritable, Shape, TypeOK, IsTable, MatchRow
    <2>2. QED
        BY <1>2, <2>1 DEF FinalizeMatch, HistoryKept, ProExists
<1>3. QED
    BY <1>1, <1>2 DEF MatchStep

LEMMA HistoryCodex ==
    ASSUME Shape, HistoryKept, CodexStep
    PROVE  HistoryKept'
<1>1. UNCHANGED <<matches, lineups, slots, slotItems, lineupRelics>>
    BY DEF CodexStep, CreateCodexRow, DeleteCodexRow
<1>2. ASSUME NEW t \in CodexTables, CreateCodexRow(t)
      PROVE  \A u \in CodexTables : codex[u] \subseteq codex'[u]
    BY <1>2 DEF CreateCodexRow, Shape, TypeOK
<1>3. ASSUME NEW t \in CodexTables, NEW id \in CodexIds(t), DeleteCodexRow(t, id)
      PROVE  \A u \in CodexTables : \A x \in codex[u] : Referenced(u, x) => x \in codex'[u]
    BY <1>3 DEF DeleteCodexRow, Shape, TypeOK
<1>4. \A u \in CodexTables : \A x \in codex[u] : Referenced(u, x) => x \in codex'[u]
    BY <1>2, <1>3 DEF CodexStep
<1>5. /\ \A m \in DOMAIN matches : matches[m].patch \in codex'["patches"]
      /\ \A s \in DOMAIN slots : slots[s].hero \in codex'["heroes"]
    BY <1>4 DEF HistoryKept, Referenced, CodexTables
<1>6. \A l \in DOMAIN lineups : lineups[l].pro = NoPro \/ lineups[l].pro \in codex'["pros"]
    BY <1>4 DEF HistoryKept, Referenced, CodexTables, ProExists
<1>7. /\ \A s \in DOMAIN slotItems, i \in CodexIds("items") :
            slotItems[s][i] > 0 => i \in codex'["items"]
      /\ \A l \in DOMAIN lineupRelics : lineupRelics[l] \subseteq codex'["relics"]
    BY <1>4 DEF HistoryKept, Referenced, CodexTables
<1>8. QED
    BY <1>1, <1>5, <1>6, <1>7 DEF HistoryKept, ProExists

LEMMA HistoryStep == Shape /\ HistoryKept /\ [Next]_store => HistoryKept'
<1> SUFFICES ASSUME Shape, HistoryKept, [Next]_store PROVE HistoryKept'
    OBVIOUS
<1>1. CASE MatchStep
    BY <1>1, HistoryMatch
<1>2. CASE LineupStep
    BY <1>2, HistoryAddLineup, HistoryCopyLineup, HistoryLineup DEF LineupStep
<1>3. CASE SlotStep
    BY <1>3, HistoryAddSlot, HistorySlot DEF SlotStep
<1>4. CASE CodexStep
    BY <1>4, HistoryCodex
<1>5. CASE UNCHANGED store
    BY <1>5 DEF store, HistoryKept, ProExists
<1>6. QED
    BY <1>1, <1>2, <1>3, <1>4, <1>5 DEF Next

\* "existing matches keep their history": no delete of a codex row, whatever order
\* edits and deletes come in, takes away a row that a match still names (the foreign
\* keys of the schema that do not cascade).
THEOREM HistoryAlwaysKept == Spec => []HistoryKept
<1>1. Init => HistoryKept
    BY DEF Init, HistoryKept
<1>2. QED
    BY <1>1, HistoryStep, ShapeAlways, PTL DEF Spec
=============================================================================
