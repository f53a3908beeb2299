-------------------------------- MODULE Domain --------------------------------
(***************************************************************************)
(* The pure rules of internal/domain: the caps, the ranges, the two        *)
(* "smallest free" scans and the finalize rule.  They are stated over the  *)
(* sets of values the Go code collects from its slices (`used` is the key  *)
(* set of the map both scans build), so the scan itself becomes the least  *)
(* element it stops at.                                                    *)
(***************************************************************************)
EXTENDS Naturals, FiniteSets

CONSTANTS
    MaxPlacement,   \* 8 in the code: a game has eight boards
    MaxStars,       \* 3 in the code
    SlotCap,        \* 12 in the code: hero cells on one board
    ItemCap         \* 6 in the code: items on one cell

ASSUME DomainAssumption ==
    /\ MaxPlacement \in Nat \ {0}
    /\ MaxStars \in Nat \ {0}
    /\ SlotCap \in Nat \ {0}
    /\ ItemCap \in Nat \ {0}

Sources == {"me", "pro"}
Placements == 1..MaxPlacement

(***************************************************************************)
(* Faulty variants, for the mutation runs: the next index or placement is  *)
(* a count, or one past the highest in use, the caps are off by one,       *)
(* finalize is content with any lineup.                                    *)
(***************************************************************************)
CountedSlotIndex(used) == Cardinality(used)
IndexPastLast(used) ==
    IF used = {} THEN 0 ELSE 1 + CHOOSE i \in used : \A j \in used : j <= i
CountedPlacement(used) == IF Placements \subseteq used THEN 0 ELSE Cardinality(used) + 1
NextPlacement(used) ==
    IF Placements \subseteq used THEN 0
    ELSE CHOOSE p \in 1..(MaxPlacement + 1) :
            /\ \A q \in used : q < p
            /\ p > 1 => p - 1 \in used
LooseAddSlot(held) == held <= SlotCap
LooseAddItem(held) == held <= ItemCap
LooseFinalize(source, placementOf) == Cardinality(DOMAIN placementOf) >= 1

(***************************************************************************)
(* util.go.  NextSlotIndex counts up from 0 until an index is unused; a    *)
(* set of n indexes cannot cover 0..n, so the scan stops within it.        *)
(***************************************************************************)
NextSlotIndex(used) ==
    CHOOSE i \in 0..Cardinality(used) :
        i \notin used /\ \A j \in 0..Cardinality(used) : j < i => j \in used

FirstFreePlacement(used) ==
    IF Placements \subseteq used
    THEN 0
    ELSE CHOOSE p \in Placements \ used : \A q \in Placements \ used : p <= q

(***************************************************************************)
(* validate.go.  A FALSE here is the error value the Go function returns.  *)
(* ValidateFinalize gets the rows of one match: `placementOf` maps each    *)
(* lineup of the match to its placement.                                   *)
(***************************************************************************)
ValidateAddSlot(held) == held < SlotCap
ValidateAddItem(held) == held < ItemCap
ValidateSlotStars(stars) == stars \in 1..MaxStars

ValidateFinalize(source, placementOf) ==
    LET rows == DOMAIN placementOf
    IN \/ source = "me" /\ Cardinality(rows) = 1
       \/ /\ source = "pro"
          /\ Cardinality(rows) = MaxPlacement
          /\ \A l \in rows : placementOf[l] \in Placements
          /\ \A k, l \in rows : placementOf[k] = placementOf[l] => k = l

\* ui/editor.go: the pips a match fills up with lineups before it can be finalized.
RequiredTotal(source) == IF source = "me" THEN 1 ELSE MaxPlacement
=============================================================================
