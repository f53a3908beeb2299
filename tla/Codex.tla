--------------------------------- MODULE Codex ---------------------------------
(***************************************************************************)
(* The codex tables of the sqlite store (internal/store/sqlite codex.go,   *)
(* codex_hero.go, codex_misc.go) and every operation that writes them.     *)
(* As in MatchStore an action is one committed transaction: its guards are *)
(* the affected-row counts of the Go code and the constraints of the       *)
(* schema (UNIQUE names, primary keys of the junction tables, foreign      *)
(* keys), and a refused operation rolls back and is no action.             *)
(*                                                                         *)
(* A row is its id and its name; ability, notes, effect, cost, release     *)
(* date and rank are free text or ranges that nothing here depends on.     *)
(* What one table says about another is kept: the tier ladders, the        *)
(* lineages of heroes, the recipes of items, and the rows the match tables *)
(* point at.                                                               *)
(***************************************************************************)
EXTENDS Naturals, FiniteSets, Sequences

CONSTANTS
    Names,
    NoName,     \* no row has this id
    Counts,     \* unit counts a tier can ask for
    Effects,    \* texts of a tier
    NoTier,     \* the ladder has no tier at this count
    MaxId,      \* bound: highest id of any table
    Limit,      \* bound: table -> its highest id
    MaxHeld     \* bound: rows of all tables together

ASSUME CodexAssumption ==
    /\ NoName \notin Names
    /\ NoTier \notin Effects
    /\ MaxId \in Nat
    /\ MaxHeld \in Nat
    /\ \A t \in {"races", "classes", "relics", "patches", "pros", "heroes", "items"} :
            Limit[t] \in 0..MaxId

VARIABLES
    name,       \* table -> id -> name of the row, or NoName
    ladder,     \* synergy table -> id -> count -> effect (race_tiers, class_tiers)
    lineage,    \* rows of hero_races and hero_classes
    recipe,     \* rows of item_recipes
    history     \* codex rows some row of the match tables points at

codex == <<name, ladder, lineage, recipe, history>>

-----------------------------------------------------------------------------
Synergies == {"races", "classes"}
Plain == {"relics", "patches", "pros"}
Tables == Synergies \cup Plain \cup {"heroes", "items"}
Recorded == Plain \cup {"heroes", "items"}      \* tables the match tables point at
Ids == 1..MaxId

Ladders == [Counts -> Effects \cup {NoTier}]
NoLadder == [c \in Counts |-> NoTier]

Lineages == [hero : Ids, table : Synergies, id : Ids]
Recipes == [result : Ids, component : Ids]

Rows(t) == {i \in Ids : name[t][i] # NoName}
Held == UNION {{t} \X Rows(t) : t \in Tables}

LineageOf(h, t) == {x.id : x \in {y \in lineage : y.hero = h /\ y.table = t}}

\* The id sqlite gives to a new row: one more than the highest in use.
Fresh(t, id) ==
    /\ id \in 1..Limit[t]
    /\ \A i \in Rows(t) : i < id
    /\ id = 1 \/ id - 1 \in Rows(t)
    /\ Cardinality(Held) < MaxHeld

\* Faulty variant, for the mutation runs: only older rows are looked at.
TakenByOlder(t, id, n) == \E i \in Rows(t) : i < id /\ name[t][i] = n

\* UNIQUE (name).
Taken(t, id, n) == \E i \in Rows(t) \ {id} : name[t][i] = n

\* The junction tables: the ids exist (foreign key) and none comes twice (primary key).
Linkable(ids, t) ==
    /\ \A k \in DOMAIN ids : ids[k] \in Rows(t)
    /\ \A j, k \in DOMAIN ids : ids[j] = ids[k] => j = k

Linked(h, t, ids) == {[hero |-> h, table |-> t, id |-> ids[k]] : k \in DOMAIN ids}
Made(i, ids) == {[result |-> i, component |-> ids[k]] : k \in DOMAIN ids}

\* Faulty variant: the foreign key of the junction tables is forgotten.
SynergyFree(t, id) == TRUE

\* A delete without ON DELETE CASCADE: no hero has the synergy, no other item is made
\* of the item, no match remembers the row.
SynergyUnused(t, id) == \A x \in lineage : ~(x.table = t /\ x.id = id)
ComponentUnused(id) == \A x \in recipe : x.component = id => x.result = id
Forgotten(t, id) == <<t, id>> \notin history

\* validate.go: the rule for the two select boxes of each kind, both counted before
\* anything is known about the ids in them.
ValidateHero(races, classes) == Len(races) \in 1..2 /\ Len(classes) \in 1..2

-----------------------------------------------------------------------------
Init ==
    /\ name = [t \in Tables |-> [i \in Ids |-> NoName]]
    /\ ladder = [t \in Synergies |-> [i \in Ids |-> NoLadder]]
    /\ lineage = {}
    /\ recipe = {}
    /\ history = {}

-----------------------------------------------------------------------------
(* codex.go: races and classes.                                            *)

CreateSynergy(t, id, n, tiers) ==
    /\ Fresh(t, id)
    /\ ~Taken(t, id, n)
    /\ name' = [name EXCEPT ![t][id] = n]
    /\ ladder' = [ladder EXCEPT ![t][id] = tiers]
    /\ UNCHANGED <<lineage, recipe, history>>

UpdateSynergy(t, id, n, tiers) ==
    /\ id \in Rows(t)
    /\ ~Taken(t, id, n)
    /\ name' = [name EXCEPT ![t][id] = n]
    /\ ladder' = [ladder EXCEPT ![t][id] = tiers]
    /\ UNCHANGED <<lineage, recipe, history>>

\* Faulty variant: the ladder outlives its synergy.
DropSynergyOnly(t, id) ==
    /\ id \in Rows(t)
    /\ SynergyUnused(t, id)
    /\ name' = [name EXCEPT ![t][id] = NoName]
    /\ UNCHANGED <<ladder, lineage, recipe, history>>

DeleteSynergy(t, id) ==
    /\ id \in Rows(t)
    /\ SynergyUnused(t, id)
    /\ name' = [name EXCEPT ![t][id] = NoName]
    /\ ladder' = [ladder EXCEPT ![t][id] = NoLadder]
    /\ UNCHANGED <<lineage, recipe, history>>

-----------------------------------------------------------------------------
(* codex_hero.go                                                           *)

WriteLineages(h, races, classes) ==
    /\ Linkable(races, "races")
    /\ Linkable(classes, "classes")
    /\ lineage' = {x \in lineage : x.hero # h}
                    \cup Linked(h, "races", races) \cup Linked(h, "classes", classes)

CreateHero(id, n, races, classes) ==
    /\ Fresh("heroes", id)
    /\ ~Taken("heroes", id, n)
    /\ name' = [name EXCEPT !["heroes"][id] = n]
    /\ WriteLineages(id, races, classes)
    /\ UNCHANGED <<ladder, recipe, history>>

UpdateHero(id, n, races, classes) ==
    /\ id \in Rows("heroes")
    /\ ~Taken("heroes", id, n)
    /\ name' = [name EXCEPT !["heroes"][id] = n]
    /\ WriteLineages(id, races, classes)
    /\ UNCHANGED <<ladder, recipe, history>>

\* The junction rows cascade.
DeleteHero(id) ==
    /\ id \in Rows("heroes")
    /\ Forgotten("heroes", id)
    /\ name' = [name EXCEPT !["heroes"][id] = NoName]
    /\ lineage' = {x \in lineage : x.hero # id}
    /\ UNCHANGED <<ladder, recipe, history>>

-----------------------------------------------------------------------------
(* codex_misc.go: items and their recipes.  The row is written before the  *)
(* recipe, so an item may be made of itself.                               *)

CreateItem(id, n, components) ==
    /\ Fresh("items", id)
    /\ ~Taken("items", id, n)
    /\ \A k \in DOMAIN components : components[k] \in Rows("items") \cup {id}
    /\ \A j, k \in DOMAIN components : components[j] = components[k] => j = k
    /\ name' = [name EXCEPT !["items"][id] = n]
    /\ recipe' = {x \in recipe : x.result # id} \cup Made(id, components)
    /\ UNCHANGED <<ladder, lineage, history>>

UpdateItem(id, n, components) ==
    /\ id \in Rows("items")
    /\ ~Taken("items", id, n)
    /\ Linkable(components, "items")
    /\ name' = [name EXCEPT !["items"][id] = n]
    /\ recipe' = {x \in recipe : x.result # id} \cup Made(id, components)
    /\ UNCHANGED <<ladder, lineage, history>>

DeleteItem(id) ==
    /\ id \in Rows("items")
    /\ ComponentUnused(id)
    /\ Forgotten("items", id)
    /\ name' = [name EXCEPT !["items"][id] = NoName]
    /\ recipe' = {x \in recipe : x.result # id}
    /\ UNCHANGED <<ladder, lineage, history>>

-----------------------------------------------------------------------------
(* codex_misc.go: relics, patches and pros have no children.               *)

CreatePlain(t, id, n) ==
    /\ Fresh(t, id)
    /\ ~Taken(t, id, n)
    /\ name' = [name EXCEPT ![t][id] = n]
    /\ UNCHANGED <<ladder, lineage, recipe, history>>

UpdatePlain(t, id, n) ==
    /\ id \in Rows(t)
    /\ ~Taken(t, id, n)
    /\ name' = [name EXCEPT ![t][id] = n]
    /\ UNCHANGED <<ladder, lineage, recipe, history>>

DeletePlain(t, id) ==
    /\ id \in Rows(t)
    /\ Forgotten(t, id)
    /\ name' = [name EXCEPT ![t][id] = NoName]
    /\ UNCHANGED <<ladder, lineage, recipe, history>>

-----------------------------------------------------------------------------
(* The match tables, seen from here: MatchStore has the operations that    *)
(* start and stop pointing at a codex row.                                 *)

Record(t, id) ==
    /\ id \in Rows(t)
    /\ history' = history \cup {<<t, id>>}
    /\ UNCHANGED <<name, ladder, lineage, recipe>>

Erase(t, id) ==
    /\ <<t, id>> \in history
    /\ history' = history \ {<<t, id>>}
    /\ UNCHANGED <<name, ladder, lineage, recipe>>
=============================================================================
