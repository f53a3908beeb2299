------------------------------ MODULE MatchStore ------------------------------
(***************************************************************************)
(* The match tables of the sqlite store (internal/store/sqlite) and every  *)
(* operation that writes them.  An action is one committed transaction:    *)
(* its guards are the checks made inside the transaction, by the Go code   *)
(* (the writable guards, the affected-row counts) and by the schema        *)
(* (foreign keys, CHECK, UNIQUE).  A rejected operation rolls back and     *)
(* leaves every table alone, so it is no action here.                      *)
(*                                                                         *)
(* Row ids are sqlite rowids without AUTOINCREMENT: a new row gets the     *)
(* highest id in the table plus one, so the id of a deleted last row is    *)
(* handed out again.                                                       *)
(***************************************************************************)
EXTENDS Domain, Sequences

CONSTANTS
    Labels,         \* free text on a lineup
    Results,        \* values of (wins, draws, losses, networth)
    NoResult,       \* (0, 0, 0, 0)
    NoPro,          \* the NULL pro_id
    SeedRows,       \* codex table -> how many rows the database starts with
    BoardInputs,    \* boards a caller may hand to AddLineup: sequences of cells
    MaxRows,        \* bound: codex table -> highest id
    MaxMatches, MaxLineups, MaxSlots,   \* bounds: highest id of each table
    MaxStack,       \* bound: copies of one item on one slot
    MaxTime         \* bound: readings of the clock

VARIABLES
    codex,          \* table -> ids of its rows
    matches,        \* id -> row of matches
    lineups,        \* id -> row of lineups
    slots,          \* id -> row of lineup_slots
    slotItems,      \* slot id -> item id -> number of slot_items rows
    lineupRelics    \* lineup id -> relic ids of its lineup_relics rows

store == <<codex, matches, lineups, slots, slotItems, lineupRelics>>

-----------------------------------------------------------------------------
(* Rows.                                                                   *)

CodexTables == {"patches", "pros", "heroes", "items", "relics"}
CodexIds(t) == 1..MaxRows[t]

MatchIds  == 1..MaxMatches
LineupIds == 1..MaxLineups
SlotIds   == 1..MaxSlots

MatchRow == [patch : CodexIds("patches"), source : Sources, finalizedAt : 0..MaxTime]

LineupRow == [match : MatchIds, pro : CodexIds("pros") \cup {NoPro}, label : Labels,
              placement : Placements, result : Results]

SlotRow == [lineup : LineupIds, hero : CodexIds("heroes"), index : Nat, stars : 1..MaxStars]

ItemCounts == [CodexIds("items") -> 0..MaxStack]
NoItems == [i \in CodexIds("items") |-> 0]

\* One cell of an AddLineupCmd: the slot row it becomes and the items on it.
Cell == [hero : CodexIds("heroes"), index : Nat, stars : 1..MaxStars, items : ItemCounts]

ASSUME MatchStoreAssumption ==
    /\ NoResult \in Results
    /\ Labels # {}
    /\ NoPro \notin Nat
    /\ MaxRows \in [CodexTables -> Nat]
    /\ SeedRows \in [CodexTables -> Nat]
    /\ \A t \in CodexTables : SeedRows[t] <= MaxRows[t]
    /\ BoardInputs \subseteq Seq(Cell)
    /\ {MaxMatches, MaxLineups, MaxSlots, MaxStack, MaxTime} \subseteq Nat

-----------------------------------------------------------------------------
(* Queries.                                                                *)

LineupsOf(m) == {l \in DOMAIN lineups : lineups[l].match = m}
SlotsOf(l) == {s \in DOMAIN slots : slots[s].lineup = l}
PlacementsOf(m) == {lineups[l].placement : l \in LineupsOf(m)}
IndexesOf(l) == {slots[s].index : s \in SlotsOf(l)}

\* Faulty variants, for the mutation runs: a writable guard that only looks for the
\* row, a foreign key forgotten.
LineupPresent(l) == l \in DOMAIN lineups
SlotPresent(s) == s \in DOMAIN slots
ReferencedByBoards(t, id) ==
    \/ t = "patches" /\ \E m \in DOMAIN matches : matches[m].patch = id
    \/ t = "heroes"  /\ \E s \in DOMAIN slots : slots[s].hero = id

\* The writable guards: the row exists and its match is still a draft.
MatchWritable(m) == m \in DOMAIN matches /\ matches[m].finalizedAt = 0
LineupWritable(l) == l \in DOMAIN lineups /\ MatchWritable(lineups[l].match)
SlotWritable(s) == s \in DOMAIN slots /\ LineupWritable(slots[s].lineup)

\* `high` is the largest id in use, 0 for an empty table.
IsHighest(high, ids) == high \in ids \cup {0} /\ \A i \in ids : i <= high

Insert(table, id, row) ==
    [i \in DOMAIN table \cup {id} |-> IF i = id THEN row ELSE table[i]]

Without(table, ids) == [i \in DOMAIN table \ ids |-> table[i]]

DistinctCells(cells) ==
    \A j, k \in DOMAIN cells : cells[j].index = cells[k].index => j = k

ProExists(pro) == pro = NoPro \/ pro \in codex["pros"]

\* Some row of a match table points at the codex row: the foreign keys without
\* ON DELETE CASCADE.
Referenced(t, id) ==
    \/ t = "patches" /\ \E m \in DOMAIN matches : matches[m].patch = id
    \/ t = "pros"    /\ \E l \in DOMAIN lineups : lineups[l].pro = id
    \/ t = "heroes"  /\ \E s \in DOMAIN slots : slots[s].hero = id
    \/ t = "items"   /\ \E s \in DOMAIN slotItems : slotItems[s][id] > 0
    \/ t = "relics"  /\ \E l \in DOMAIN lineupRelics : id \in lineupRelics[l]

-----------------------------------------------------------------------------
(* The state of a database that was migrated and seeded.                   *)

Init ==
    /\ codex = [t \in CodexTables |-> 1..SeedRows[t]]
    /\ matches = << >>
    /\ lineups = << >>
    /\ slots = << >>
    /\ slotItems = << >>
    /\ lineupRelics = << >>

-----------------------------------------------------------------------------
(* matchwrite.go                                                           *)

CreateMatchShell(patch, source) ==
    /\ patch \in codex["patches"]
    /\ \E high \in 0..(MaxMatches - 1) :
        /\ IsHighest(high, DOMAIN matches)
        /\ matches' = Insert(matches, high + 1,
                             [patch |-> patch, source |-> source, finalizedAt |-> 0])
    /\ UNCHANGED <<codex, lineups, slots, slotItems, lineupRelics>>

AddLineup(m, pro, label, placement, result, cells, relics) ==
    /\ MatchWritable(m)
    /\ DistinctCells(cells)
    /\ ProExists(pro)
    /\ placement \in Placements \ PlacementsOf(m)
    /\ \A k \in DOMAIN cells :
        /\ cells[k].hero \in codex["heroes"]
        /\ \A i \in CodexIds("items") : cells[k].items[i] > 0 => i \in codex["items"]
    /\ relics \subseteq codex["relics"]
    /\ \E last \in 0..(MaxLineups - 1), high \in 0..MaxSlots :
        /\ IsHighest(last, DOMAIN lineups)
        /\ IsHighest(high, DOMAIN slots)
        /\ high + Len(cells) <= MaxSlots
        /\ lineups' = Insert(lineups, last + 1,
                             [match |-> m, pro |-> pro, label |-> label,
                              placement |-> placement, result |-> result])
        /\ slots' = [s \in DOMAIN slots \cup (high + 1)..(high + Len(cells)) |->
                        IF s <= high THEN slots[s]
                        ELSE [lineup |-> last + 1, hero |-> cells[s - high].hero,
                              index |-> cells[s - high].index,
                              stars |-> cells[s - high].stars]]
        /\ slotItems' = [s \in DOMAIN slots \cup (high + 1)..(high + Len(cells)) |->
                            IF s <= high THEN slotItems[s] ELSE cells[s - high].items]
        /\ lineupRelics' = Insert(lineupRelics, last + 1, relics)
    /\ UNCHANGED <<codex, matches>>

\* `twin` gives each slot of the source its copy: the copies are inserted in
\* board order, so their ids follow the highest one in that order.
CopyLineup(l) ==
    /\ LineupWritable(l)
    /\ LET m == lineups[l].match
           free == FirstFreePlacement(PlacementsOf(m))
           board == SlotsOf(l)
       IN /\ free # 0
          /\ \E last \in 0..(MaxLineups - 1), high \in 0..MaxSlots :
             \E twin \in [board -> SlotIds] :
                /\ IsHighest(last, DOMAIN lineups)
                /\ IsHighest(high, DOMAIN slots)
                /\ {twin[s] : s \in board} = (high + 1)..(high + Cardinality(board))
                /\ \A s, t \in board : slots[s].index < slots[t].index => twin[s] < twin[t]
                /\ LET copies == {twin[s] : s \in board}
                       origin(c) == CHOOSE s \in board : twin[s] = c
                   IN /\ lineups' = Insert(lineups, last + 1,
                                           [match |-> m, pro |-> NoPro,
                                            label |-> lineups[l].label,
                                            placement |-> free, result |-> NoResult])
                      /\ slots' = [s \in DOMAIN slots \cup copies |->
                                      IF s \in copies
                                      THEN [slots[origin(s)] EXCEPT !.lineup = last + 1]
                                      ELSE slots[s]]
                      /\ slotItems' = [s \in DOMAIN slots \cup copies |->
                                          IF s \in copies THEN slotItems[origin(s)]
                                          ELSE slotItems[s]]
                      /\ lineupRelics' = Insert(lineupRelics, last + 1, lineupRelics[l])
    /\ UNCHANGED <<codex, matches>>

UpdateLineup(l, pro, label, placement, result) ==
    /\ LineupWritable(l)
    /\ ProExists(pro)
    /\ placement \in Placements
    /\ \A k \in LineupsOf(lineups[l].match) : lineups[k].placement = placement => k = l
    /\ lineups' = [lineups EXCEPT ![l].pro = pro, ![l].label = label,
                                  ![l].placement = placement, ![l].result = result]
    /\ UNCHANGED <<codex, matches, slots, slotItems, lineupRelics>>

\* Faulty variant: foreign_keys off, nothing cascades.
DeleteLineupOnly(l) ==
    /\ LineupWritable(l)
    /\ lineups' = Without(lineups, {l})
    /\ UNCHANGED <<codex, matches, slots, slotItems, lineupRelics>>

\* Slots, their items and the relic rows cascade.
DeleteLineup(l) ==
    /\ LineupWritable(l)
    /\ lineups' = Without(lineups, {l})
    /\ slots' = Without(slots, SlotsOf(l))
    /\ slotItems' = Without(slotItems, SlotsOf(l))
    /\ lineupRelics' = Without(lineupRelics, {l})
    /\ UNCHANGED <<codex, matches>>

\* A repeated finalize returns nil before the rule and the stamp: no step.
FinalizeMatch(m, now) ==
    /\ MatchWritable(m)
    /\ ValidateFinalize(matches[m].source, [l \in LineupsOf(m) |-> lineups[l].placement])
    /\ matches' = [matches EXCEPT ![m].finalizedAt = now]
    /\ UNCHANGED <<codex, lineups, slots, slotItems, lineupRelics>>

-----------------------------------------------------------------------------
(* slotwrite.go                                                            *)

\* The caps are not looked at here: they are the handlers' business.  Nor is
\* UNIQUE(lineup_id, slot_index): the index is computed inside the transaction.
AddSlot(l, hero, stars) ==
    /\ LineupWritable(l)
    /\ hero \in codex["heroes"]
    /\ stars \in 1..MaxStars
    /\ \E high \in 0..(MaxSlots - 1) :
        /\ IsHighest(high, DOMAIN slots)
        /\ slots' = Insert(slots, high + 1,
                           [lineup |-> l, hero |-> hero,
                            index |-> NextSlotIndex(IndexesOf(l)), stars |-> stars])
        /\ slotItems' = Insert(slotItems, high + 1, NoItems)
    /\ UNCHANGED <<codex, matches, lineups, lineupRelics>>

SetSlotStars(s, stars) ==
    /\ SlotWritable(s)
    /\ stars \in 1..MaxStars
    /\ slots' = [slots EXCEPT ![s].stars = stars]
    /\ UNCHANGED <<codex, matches, lineups, slotItems, lineupRelics>>

\* Faulty variant: the cells behind the deleted one move up.
DeleteSlotCompacting(s) ==
    /\ SlotWritable(s)
    /\ slots' = [t \in DOMAIN slots \ {s} |->
                    IF slots[t].lineup = slots[s].lineup /\ slots[t].index > slots[s].index
                    THEN [slots[t] EXCEPT !.index = @ - 1] ELSE slots[t]]
    /\ slotItems' = Without(slotItems, {s})
    /\ UNCHANGED <<codex, matches, lineups, lineupRelics>>

DeleteSlot(s) ==
    /\ SlotWritable(s)
    /\ slots' = Without(slots, {s})
    /\ slotItems' = Without(slotItems, {s})
    /\ UNCHANGED <<codex, matches, lineups, lineupRelics>>

AddSlotItem(s, item) ==
    /\ SlotWritable(s)
    /\ item \in codex["items"]
    /\ slotItems[s][item] < MaxStack
    /\ slotItems' = [slotItems EXCEPT ![s][item] = @ + 1]
    /\ UNCHANGED <<codex, matches, lineups, slots, lineupRelics>>

\* Faulty variant: the WHERE clause names the item alone.
RemoveItemEverywhere(s, item) ==
    /\ SlotWritable(s)
    /\ slotItems[s][item] > 0
    /\ slotItems' = [t \in DOMAIN slotItems |-> [slotItems[t] EXCEPT ![item] = 0]]
    /\ UNCHANGED <<codex, matches, lineups, slots, lineupRelics>>

\* DELETE ... WHERE slot_id AND item_id: every stacked copy goes at once.
RemoveSlotItem(s, item) ==
    /\ SlotWritable(s)
    /\ slotItems[s][item] > 0
    /\ slotItems' = [slotItems EXCEPT ![s][item] = 0]
    /\ UNCHANGED <<codex, matches, lineups, slots, lineupRelics>>

AddLineupRelic(l, relic) ==
    /\ LineupWritable(l)
    /\ relic \in codex["relics"] \ lineupRelics[l]
    /\ lineupRelics' = [lineupRelics EXCEPT ![l] = @ \cup {relic}]
    /\ UNCHANGED <<codex, matches, lineups, slots, slotItems>>

RemoveLineupRelic(l, relic) ==
    /\ LineupWritable(l)
    /\ relic \in lineupRelics[l]
    /\ lineupRelics' = [lineupRelics EXCEPT ![l] = @ \ {relic}]
    /\ UNCHANGED <<codex, matches, lineups, slots, slotItems>>

-----------------------------------------------------------------------------
(* codex_hero.go, codex_misc.go: the rows the match tables point at.  Only *)
(* their ids matter here; a delete is refused while history needs the row. *)

CreateCodexRow(t) ==
    /\ \E high \in 0..(MaxRows[t] - 1) :
        /\ IsHighest(high, codex[t])
        /\ codex' = [codex EXCEPT ![t] = @ \cup {high + 1}]
    /\ UNCHANGED <<matches, lineups, slots, slotItems, lineupRelics>>

DeleteCodexRow(t, id) ==
    /\ id \in codex[t]
    /\ ~Referenced(t, id)
    /\ codex' = [codex EXCEPT ![t] = @ \ {id}]
    /\ UNCHANGED <<matches, lineups, slots, slotItems, lineupRelics>>

-----------------------------------------------------------------------------

MatchStep ==
    \/ \E patch \in CodexIds("patches"), source \in Sources : CreateMatchShell(patch, source)
    \/ \E m \in MatchIds, now \in 1..MaxTime : FinalizeMatch(m, now)

LineupStep ==
    \/ \E m \in MatchIds, pro \in CodexIds("pros") \cup {NoPro}, label \in Labels,
          placement \in Placements, result \in Results, cells \in BoardInputs,
          relics \in SUBSET CodexIds("relics") :
            AddLineup(m, pro, label, placement, result, cells, relics)
    \/ \E l \in LineupIds : CopyLineup(l)
    \/ \E l \in LineupIds, pro \in CodexIds("pros") \cup {NoPro}, label \in Labels,
          placement \in Placements, result \in Results :
            UpdateLineup(l, pro, label, placement, result)
    \/ \E l \in LineupIds : DeleteLineup(l)
    \/ \E l \in LineupIds, relic \in CodexIds("relics") : AddLineupRelic(l, relic)
    \/ \E l \in LineupIds, relic \in CodexIds("relics") : RemoveLineupRelic(l, relic)

SlotStep ==
    \/ \E l \in LineupIds, hero \in CodexIds("heroes"), stars \in 1..MaxStars :
            AddSlot(l, hero, stars)
    \/ \E s \in SlotIds, stars \in 1..MaxStars : SetSlotStars(s, stars)
    \/ \E s \in SlotIds : DeleteSlot(s)
    \/ \E s \in SlotIds, item \in CodexIds("items") : AddSlotItem(s, item)
    \/ \E s \in SlotIds, item \in CodexIds("items") : RemoveSlotItem(s, item)

CodexStep ==
    \E t \in CodexTables :
        CreateCodexRow(t) \/ \E id \in CodexIds(t) : DeleteCodexRow(t, id)

Next == MatchStep \/ LineupStep \/ SlotStep \/ CodexStep

Spec == Init /\ [][Next]_store

-----------------------------------------------------------------------------
(* Properties.                                                             *)

IsTable(table, ids, row) == DOMAIN table \subseteq ids /\ table \in [DOMAIN table -> row]

\* Type invariant: every table holds rows of its schema under ids it handed out.
TypeOK ==
    /\ codex \in [CodexTables -> SUBSET Nat]
    /\ \A t \in CodexTables : codex[t] \subseteq CodexIds(t)
    /\ IsTable(matches, MatchIds, MatchRow)
    /\ IsTable(lineups, LineupIds, LineupRow)
    /\ IsTable(slots, SlotIds, SlotRow)
    /\ IsTable(slotItems, SlotIds, ItemCounts)
    /\ IsTable(lineupRelics, LineupIds, SUBSET CodexIds("relics"))

\* No row outlives what it points at: item and relic rows go with their slot and
\* lineup, slots with their lineup, so a row id handed out again starts clean.
OwnersExist ==
    /\ DOMAIN slotItems = DOMAIN slots
    /\ DOMAIN lineupRelics = DOMAIN lineups
    /\ \A s \in DOMAIN slots : slots[s].lineup \in DOMAIN lineups
    /\ \A l \in DOMAIN lineups : lineups[l].match \in DOMAIN matches

\* "existing matches keep their history": no codex row that a match, a lineup, a
\* slot, an item row or a relic row names is ever missing from the codex.
HistoryKept ==
    /\ \A m \in DOMAIN matches : matches[m].patch \in codex["patches"]
    /\ \A l \in DOMAIN lineups : ProExists(lineups[l].pro)
    /\ \A s \in DOMAIN slots : slots[s].hero \in codex["heroes"]
    /\ \A s \in DOMAIN slotItems, i \in CodexIds("items") :
            slotItems[s][i] > 0 => i \in codex["items"]
    /\ \A l \in DOMAIN lineupRelics : lineupRelics[l] \subseteq codex["relics"]

\* One lineup per placement of a match: the schema checks it for AddLineup and
\* UpdateLineup, CopyLineup has to pick a free one itself.
PlacementsUnique ==
    \A k, l \in DOMAIN lineups :
        lineups[k].match = lineups[l].match /\ lineups[k].placement = lineups[l].placement
            => k = l

\* One slot per cell of a board.  AddSlot relies on NextSlotIndex alone, so the
\* UNIQUE(lineup_id, slot_index) hit that mapSlotTaken translates never happens.
CellsUnique ==
    \A s, t \in DOMAIN slots :
        slots[s].lineup = slots[t].lineup /\ slots[s].index = slots[t].index => s = t

\* A finalized match carries what its source demands, however the lineups came
\* and went before and whatever is attempted afterwards.
FinalizedLegal ==
    \A m \in DOMAIN matches : matches[m].finalizedAt > 0 =>
        IF matches[m].source = "me"
        THEN \E l \in LineupsOf(m) : LineupsOf(m) = {l}
        ELSE \A p \in Placements :
                \E l \in LineupsOf(m) :
                    \A k \in LineupsOf(m) : lineups[k].placement = p <=> k = l

\* Every row that belongs to one match.
MatchRows(m) ==
    [match  |-> matches[m],
     boards |-> [l \in LineupsOf(m) |-> lineups[l]],
     relics |-> [l \in LineupsOf(m) |-> lineupRelics[l]],
     cells  |-> [s \in UNION {SlotsOf(l) : l \in LineupsOf(m)} |-> slots[s]],
     items  |-> [s \in UNION {SlotsOf(l) : l \in LineupsOf(m)} |-> slotItems[s]]]

\* "finalize locks counts and placements": once the marker is stamped no
\* operation changes any row of the match, nor moves the marker.
FinalizedFrozen ==
    [][\A m \in DOMAIN matches :
            matches[m].finalizedAt > 0 => m \in DOMAIN matches' /\ MatchRows(m)' = MatchRows(m)]_store

\* slotwrite.go:86 of RemoveSlotItem: "detaches one item from one slot".
RemoveDetachesOne ==
    [][\A s \in SlotIds, item \in CodexIds("items") :
            RemoveSlotItem(s, item) => slotItems'[s][item] = slotItems[s][item] - 1]_store

-----------------------------------------------------------------------------
(* The store implements the book: ids are forgotten, each row becomes part *)
(* of the value it belongs to.                                             *)

BoardOf(l) ==
    [pro    |-> lineups[l].pro,
     label  |-> lineups[l].label,
     result |-> lineups[l].result,
     relics |-> lineupRelics[l],
     cells  |-> [i \in IndexesOf(l) |->
                    LET s == CHOOSE c \in SlotsOf(l) : slots[c].index = i
                    IN [hero |-> slots[s].hero, stars |-> slots[s].stars,
                        items |-> slotItems[s]]]]

LineupAt(m, p) == CHOOSE l \in LineupsOf(m) : lineups[l].placement = p

BookOfStore ==
    [m \in DOMAIN matches |->
        [patch |-> matches[m].patch, source |-> matches[m].source,
         finalizedAt |-> matches[m].finalizedAt,
         boards |-> [p \in PlacementsOf(m) |-> BoardOf(LineupAt(m, p))]]]

\* The boards AddLineup accepts, as values: cells on distinct indexes.
StartBoards ==
    {[i \in {cells[k].index : k \in DOMAIN cells} |->
        LET c == cells[CHOOSE k \in DOMAIN cells : cells[k].index = i]
        IN [hero |-> c.hero, stars |-> c.stars, items |-> c.items]] :
            cells \in {c \in BoardInputs : DistinctCells(c)}}

Book == INSTANCE MatchBook WITH
            book <- BookOfStore, StartCells <- StartBoards,
            Patches <- CodexIds("patches"), Pros <- CodexIds("pros"),
            Heroes <- CodexIds("heroes"), Items <- CodexIds("items"),
            Relics <- CodexIds("relics")

\* Refinement: through row inserts, cascades and id reuse the store behaves as the
\* book of games; no operation ever reaches a board other than the one it names.
ImplementsBook == Book!BookSpec
=============================================================================
