------------------------------- MODULE CodexDesk -------------------------------
(***************************************************************************)
(* The request handlers of the codex pages (internal/httpapi codex.go,     *)
(* codex_heroes.go, codex_items.go, codex_synergies.go) over the codex     *)
(* store, and the two places where the match editor reads it: the hero a   *)
(* client types by name (slots.go) and the list of heroes.                 *)
(*                                                                         *)
(* Most handlers are one step here.  What they read before they write only *)
(* decides whether to answer early, and the transaction repeats the check: *)
(* heroUpdate loads the hero, and UpdateHero counts the affected row.  The *)
(* requests of Workers are the others: what they read is used by the write *)
(* or shown on the page, and any other request may run in between.         *)
(***************************************************************************)
EXTENDS Codex

CONSTANTS
    Workers,        \* requests of several steps in flight at once
    Kinds,          \* the kinds of them in this instance
    FormTables,     \* tables the one-step handlers of this instance write
    MaxComponents   \* bound: components posted with an item

VARIABLES
    pc,             \* worker -> where its handler is
    req,            \* worker -> the request it serves
    view,           \* worker -> what it has read so far
    overtaken       \* history variable: what the request works on was changed by
                    \* another one since it came in

desk == <<pc, req, view, overtaken>>
vars == <<codex, desk>>

-----------------------------------------------------------------------------
(* Requests.  Ids come from pages that may have been rendered long ago.    *)

NoRequest == [kind |-> "none"]

CreateSynergyForm == [kind : {"createSynergy"}, table : Synergies, name : Names]
RenameForm == [kind : {"rename"}, table : Synergies, id : Ids, name : Names]
SaveTierForm == [kind : {"saveTier"}, table : Synergies, id : Ids,
                 count : Counts, effect : Effects]
DeleteTierForm == [kind : {"deleteTier"}, table : Synergies, id : Ids, count : Counts]
AddSlotForm == [kind : {"addSlot"}, name : Names]
HeroListUrl == [kind : {"heroList"}]

Requests ==
    {r \in UNION {CreateSynergyForm, RenameForm, SaveTierForm, DeleteTierForm,
                  AddSlotForm, HeroListUrl} : r.kind \in Kinds}

Edits == {"rename", "saveTier", "deleteTier"}
SynergyRequests == {r \in Requests : r.kind \in Edits \cup {"createSynergy"}}

NoView == [name |-> NoName, ladder |-> NoLadder, id |-> 0, todo |-> {}, bare |-> {}]

\* Faulty variant: save_tier loses the other tiers.
OnlySavedTier(r, tiers) == [NoLadder EXCEPT ![r.count] = r.effect]

SavedTier(r, tiers) == [tiers EXCEPT ![r.count] = r.effect]
KeptTiers(r, tiers) == [tiers EXCEPT ![r.count] = NoTier]

\* The name and the ladder that synergyUpdate writes back.
EditedName(r, v) == IF r.kind = "rename" THEN r.name ELSE v.name
EditedLadder(r, v) ==
    CASE r.kind = "rename" -> v.ladder
      [] r.kind = "saveTier" -> SavedTier(r, v.ladder)
      [] r.kind = "deleteTier" -> KeptTiers(r, v.ladder)

-----------------------------------------------------------------------------
(* Handlers of one step.                                                   *)

\* What the forms of the pages post.  An empty select box posts nothing; the delete button
\* of an edit page posts the row it was rendered for.
SelectBoxes == UNION {[1..k -> Ids] : k \in 0..2}
PickLists == UNION {[1..k -> Ids] : k \in 0..MaxComponents}

HeroForm == [name : Names, races : SelectBoxes, classes : SelectBoxes]
ItemForm == [name : Names, components : PickLists]
RelicForm == [name : Names]
PatchForm == [name : Names]
ProForm == [name : Names]
DeleteForm == [table : FormTables, id : Ids]

SaveHero(f) ==
    /\ ValidateHero(f.races, f.classes)
    /\ \E id \in Ids : \/ CreateHero(id, f.name, f.races, f.classes)
                       \/ UpdateHero(id, f.name, f.races, f.classes)

SaveItem(f) ==
    \E id \in Ids : CreateItem(id, f.name, f.components) \/ UpdateItem(id, f.name, f.components)

SavePlain(t, f) == \E id \in Ids : CreatePlain(t, id, f.name) \/ UpdatePlain(t, id, f.name)
SaveRelic(f) == SavePlain("relics", f)
SavePatch(f) == SavePlain("patches", f)
SavePro(f) == SavePlain("pros", f)

DeleteRow(t, id) ==
    \/ t \in Synergies /\ DeleteSynergy(t, id)
    \/ t = "heroes" /\ DeleteHero(id)
    \/ t = "items" /\ DeleteItem(id)
    \/ t \in Plain /\ DeletePlain(t, id)

\* The write of each handler.
Write(r, v) ==
    \/ /\ r.kind = "createSynergy"
       /\ \E id \in Ids : CreateSynergy(r.table, id, r.name, NoLadder)
    \/ /\ r.kind \in Edits
       /\ UpdateSynergy(r.table, r.id, EditedName(r, v), EditedLadder(r, v))
    \/ r.kind = "addSlot" /\ Record("heroes", v.id)

\* A request on a synergy that nobody interrupts: all its reads and its write at once.
EditSynergy(r) ==
    Write(r, IF r.kind \in Edits
             THEN [NoView EXCEPT !.name = name[r.table][r.id], !.ladder = ladder[r.table][r.id]]
             ELSE NoView)

FormStep ==
    \/ \E r \in SynergyRequests : r.table \in FormTables /\ EditSynergy(r)
    \/ "heroes" \in FormTables /\ \E f \in HeroForm : SaveHero(f)
    \/ "items" \in FormTables /\ \E f \in ItemForm : SaveItem(f)
    \/ "relics" \in FormTables /\ \E f \in RelicForm : SaveRelic(f)
    \/ "patches" \in FormTables /\ \E f \in PatchForm : SavePatch(f)
    \/ "pros" \in FormTables /\ \E f \in ProForm : SavePro(f)
    \/ \E f \in DeleteForm : DeleteRow(f.table, f.id)
    \/ \E t \in FormTables \cap Recorded, id \in Ids : Record(t, id) \/ Erase(t, id)

-----------------------------------------------------------------------------
(* Handlers of several steps.                                              *)

Goto(w, label) == pc' = [pc EXCEPT ![w] = label]
See(w, v) == view' = [view EXCEPT ![w] = v]

FirstStep(r) ==
    CASE r.kind = "createSynergy" -> "check"
      [] r.kind \in Edits -> "row"
      [] r.kind = "addSlot" -> "lookup"
      [] r.kind = "heroList" -> "ids"

Accept(w, r) ==
    /\ pc[w] = "idle"
    /\ Goto(w, FirstStep(r))
    /\ req' = [req EXCEPT ![w] = r]
    /\ UNCHANGED <<codex, view>>

\* GetRace, GetClass: the row and then its ladder.
ReadRow(w) ==
    LET r == req[w]
    IN /\ pc[w] = "row"
       /\ r.id \in Rows(r.table)
       /\ See(w, [view[w] EXCEPT !.name = name[r.table][r.id]])
       /\ Goto(w, "ladder")
       /\ UNCHANGED <<codex, req>>

ReadLadder(w) ==
    LET r == req[w]
    IN /\ pc[w] = "ladder"
       /\ See(w, [view[w] EXCEPT !.ladder = ladder[r.table][r.id]])
       /\ Goto(w, IF r.kind = "rename" THEN "check" ELSE "write")
       /\ UNCHANGED <<codex, req>>

\* synergyNameTaken; a failed load counts as not taken and the constraint decides.
CheckName(w) ==
    LET r == req[w]
    IN /\ pc[w] = "check"
       /\ ~Taken(r.table, IF r.kind = "rename" THEN r.id ELSE 0, r.name)
       /\ Goto(w, "write")
       /\ UNCHANGED <<codex, req, view>>

\* GetHeroByName; a name no hero bears is answered at once.
LookUpHero(w) ==
    /\ pc[w] = "lookup"
    /\ \E id \in Rows("heroes") :
        /\ name["heroes"][id] = req[w].name
        /\ See(w, [view[w] EXCEPT !.id = id])
    /\ Goto(w, "write")
    /\ UNCHANGED <<codex, req>>

\* ListHeroes: the ids, then each hero by GetHero, which is three SELECTs again.
ReadIds(w) ==
    /\ pc[w] = "ids"
    /\ See(w, [view[w] EXCEPT !.todo = Rows("heroes")])
    /\ Goto(w, "hero")
    /\ UNCHANGED <<codex, req>>

Next1(ids) == CHOOSE i \in ids : \A j \in ids : i <= j

ReadHero(w) ==
    /\ pc[w] = "hero"
    /\ view[w].todo # {}
    /\ Goto(w, IF Next1(view[w].todo) \in Rows("heroes") THEN "races" ELSE "failed")
    /\ UNCHANGED <<codex, req, view>>

\* Faulty variant: the WHERE clause names the other column.
ReadLineageSwapped(w, t) ==
    LET h == Next1(view[w].todo)
        rows == {x \in lineage : x.id = h /\ x.table = t}
    IN See(w, [view[w] EXCEPT !.bare = IF rows = {} THEN @ \cup {h} ELSE @,
                              !.todo = IF t = "classes" THEN @ \ {h} ELSE @])

\* The junction tables are read one after the other; a hero deleted since its row was
\* read has no junction rows any more.
ReadLineage(w, t) ==
    LET h == Next1(view[w].todo)
    IN See(w, [view[w] EXCEPT !.bare = IF LineageOf(h, t) = {} THEN @ \cup {h} ELSE @,
                              !.todo = IF t = "classes" THEN @ \ {h} ELSE @])

ReadHeroRaces(w) ==
    /\ pc[w] = "races"
    /\ ReadLineage(w, "races")
    /\ Goto(w, "classes")
    /\ UNCHANGED <<codex, req>>

ReadHeroClasses(w) ==
    /\ pc[w] = "classes"
    /\ ReadLineage(w, "classes")
    /\ Goto(w, "hero")
    /\ UNCHANGED <<codex, req>>

ShowHeroes(w) ==
    /\ pc[w] = "hero"
    /\ view[w].todo = {}
    /\ Goto(w, "shown")
    /\ UNCHANGED <<codex, req, view>>

Finish(w) ==
    /\ Goto(w, "idle")
    /\ req' = [req EXCEPT ![w] = NoRequest]
    /\ See(w, NoView)

Commit(w) ==
    /\ pc[w] = "write"
    /\ Write(req[w], view[w])
    /\ Finish(w)

\* An answer without a write: a missing row, a name that is taken, a transaction that
\* was refused, a page that has been shown.
GiveUp(w) ==
    /\ pc[w] # "idle"
    /\ Finish(w)
    /\ UNCHANGED codex

Handle(w) ==
    \/ \E r \in Requests : Accept(w, r)
    \/ ReadRow(w) \/ ReadLadder(w) \/ CheckName(w)
    \/ LookUpHero(w)
    \/ ReadIds(w) \/ ReadHero(w) \/ ReadHeroRaces(w) \/ ReadHeroClasses(w) \/ ShowHeroes(w)
    \/ Commit(w)
    \/ GiveUp(w)

-----------------------------------------------------------------------------
\* The step changes the row, or the hero's name, or the list that w works on.
Disturbs(w) ==
    LET r == req[w]
    IN \/ /\ r.kind \in Edits
          /\ \/ name'[r.table][r.id] # name[r.table][r.id]
             \/ ladder'[r.table][r.id] # ladder[r.table][r.id]
       \/ /\ r.kind = "addSlot"
          /\ \E i \in Rows("heroes") : name["heroes"][i] = r.name /\ name'["heroes"][i] # r.name
       \/ /\ r.kind = "heroList"
          /\ \E i \in Rows("heroes") : name'["heroes"][i] = NoName

Watch ==
    overtaken' = [w \in Workers |-> pc'[w] # "idle" /\ (overtaken[w] \/ Disturbs(w))]

DeskInit ==
    /\ Init
    /\ pc = [w \in Workers |-> "idle"]
    /\ req = [w \in Workers |-> NoRequest]
    /\ view = [w \in Workers |-> NoView]
    /\ overtaken = [w \in Workers |-> FALSE]

DeskNext ==
    /\ \/ FormStep /\ UNCHANGED <<pc, req, view>>
       \/ \E w \in Workers : Handle(w)
    /\ Watch

DeskSpec == DeskInit /\ [][DeskNext]_vars

-----------------------------------------------------------------------------
(* Properties.                                                             *)

Phases == {"idle", "row", "ladder", "check", "write", "lookup", "ids", "hero", "races",
           "classes", "shown", "failed"}

\* Type invariant of the tables.
CodexTypeOK ==
    /\ name \in [Tables -> [Ids -> Names \cup {NoName}]]
    /\ ladder \in [Synergies -> [Ids -> Ladders]]
    /\ lineage \subseteq Lineages
    /\ recipe \subseteq Recipes
    /\ history \subseteq Recorded \X Ids

\* Two requests may both pass the look at the names in use before either writes: still no
\* two rows of a table share a name.
NamesUnique ==
    \A t \in Tables : \A i, j \in Rows(t) : name[t][i] = name[t][j] => i = j

\* readme.md:191, "heroes carry 1 to 2 races and 1 to 2 classes through the junction
\* tables": through every order of saving heroes and deleting races and classes, and all
\* of them exist.
LineagesComplete ==
    \A h \in Rows("heroes"), t \in Synergies :
        /\ Cardinality(LineageOf(h, t)) \in 1..2
        /\ LineageOf(h, t) \subseteq Rows(t)

\* Nothing is left of a deleted row that the next row with its id would inherit: no tier,
\* no junction row, no recipe, no mention in a match.
NoRemains ==
    /\ \A t \in Synergies : \A i \in Ids \ Rows(t) : ladder[t][i] = NoLadder
    /\ \A x \in lineage : x.hero \in Rows("heroes") /\ x.id \in Rows(x.table)
    /\ \A x \in recipe : {x.result, x.component} \subseteq Rows("items")
    /\ \A x \in history : x[2] \in Rows(x[1])

\* Everything a tier edit or a rename does to a synergy, and the hero a slot gets.
AsAsked(w) ==
    LET r == req[w]
    IN /\ r.kind \in Edits =>
            /\ r.kind # "rename" => name'[r.table][r.id] = name[r.table][r.id]
            /\ \A c \in Counts :
                r.kind = "rename" \/ c # r.count =>
                    ladder'[r.table][r.id][c] = ladder[r.table][r.id][c]
       /\ r.kind = "addSlot" => name["heroes"][view[w].id] = r.name

Commits(w) == pc[w] = "write" /\ pc'[w] = "idle" /\ codex' # codex

\* codex_synergies.go:112, synergyUpdate is there to "rename, add or replace one tier, or
\* delete one tier".  It writes the name and the whole ladder back, so it keeps to that only
\* while nobody overtakes it: then an edit of one tier leaves the name and the other tiers,
\* a rename leaves the ladder, and a slot gets the hero that was typed.
UndisturbedExact ==
    [][\A w \in Workers : Commits(w) /\ ~overtaken[w] => AsAsked(w)]_vars

\* codex_hero.go:94, "ListHeroes returns every hero with lineages": the page fails, or shows
\* a hero without a race or class, only if a hero was deleted while it was put together.
ListingSound ==
    \A w \in Workers :
        req[w].kind = "heroList" /\ ~overtaken[w] => pc[w] # "failed" /\ view[w].bare = {}
=============================================================================
