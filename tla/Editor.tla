-------------------------------- MODULE Editor --------------------------------
(***************************************************************************)
(* The match editor's request handlers (internal/httpapi slots.go,         *)
(* lineups.go, matches.go; internal/service entry.go) over the store.  The *)
(* http server runs every request in a goroutine of its own: a handler     *)
(* reads the match through Store.GetMatch, one SELECT after the other with *)
(* no transaction around them, validates the request against what it read  *)
(* and then calls one write operation of the store.  Other handlers run    *)
(* between any two of these steps.                                         *)
(*                                                                         *)
(* A handler may end without writing at any point: a failed validation, a  *)
(* missing row, a rejected transaction, a cancelled request context.  All  *)
(* of these leave the store alone and are the one action GiveUp.  The      *)
(* reload and rendering after a write change nothing and are left out.     *)
(***************************************************************************)
EXTENDS MatchStore

CONSTANTS
    Workers,    \* requests in flight at once
    Kinds       \* the routes the clients of this instance use

VARIABLES
    pc,         \* worker -> where its handler is
    req,        \* worker -> the request it serves
    view        \* worker -> the rows its GetMatch has read so far

editor == <<pc, req, view>>
vars == <<store, editor>>

-----------------------------------------------------------------------------
(* Requests.  The ids come from a form that may have been rendered long    *)
(* ago: nothing ties them to rows that still exist or belong together.     *)

NoRequest == [kind |-> "none"]

AddSlotForm == [kind : {"addSlot"}, match : MatchIds, lineup : LineupIds,
                hero : CodexIds("heroes"), stars : 1..(MaxStars + 1)]
SaveStarsForm == [kind : {"saveStars"}, match : MatchIds, slot : SlotIds,
                  stars : 1..(MaxStars + 1)]
ItemForm == [kind : {"attachItem", "removeItem"}, match : MatchIds, slot : SlotIds,
             item : CodexIds("items")]
DeleteSlotForm == [kind : {"deleteSlot"}, match : MatchIds, slot : SlotIds]
RelicForm == [kind : {"addRelic", "removeRelic"}, match : MatchIds, lineup : LineupIds,
              relic : CodexIds("relics")]
UpdateLineupForm == [kind : {"updateLineup"}, match : MatchIds, lineup : LineupIds,
                     pro : CodexIds("pros") \cup {NoPro}, label : Labels,
                     placement : 1..(MaxPlacement + 1), result : Results]

AddLineupForm == [kind : {"addLineup"}, match : MatchIds,
                  pro : CodexIds("pros") \cup {NoPro}, label : Labels,
                  placement : 1..(MaxPlacement + 1), result : Results]
CopyLineupForm == [kind : {"copyLineup"}, match : MatchIds, lineup : LineupIds]

\* These three load no view before they write.
DeleteLineupForm == [kind : {"deleteLineup"}, lineup : LineupIds]
FinalizeForm == [kind : {"finalize"}, match : MatchIds]
CreateMatchForm == [kind : {"createMatch"}, patch : CodexIds("patches"), source : Sources]

MatchDetailUrl == [kind : {"matchDetail"}, match : MatchIds]

Requests ==
    {r \in UNION {AddSlotForm, SaveStarsForm, ItemForm, DeleteSlotForm, RelicForm,
                  UpdateLineupForm, AddLineupForm, CopyLineupForm, DeleteLineupForm,
                  FinalizeForm, CreateMatchForm, MatchDetailUrl} : r.kind \in Kinds}

-----------------------------------------------------------------------------
(* Views.                                                                  *)

NoView == [match |-> << >>, lineups |-> << >>, slots |-> << >>,
           items |-> << >>, relics |-> << >>]

ViewSlotsOf(v, l) == {s \in DOMAIN v.slots : v.slots[s].lineup = l}

\* Items on a slot, stacked copies counted one by one.
Total(counts) ==
    Cardinality(UNION {{i} \X (1..counts[i]) : i \in DOMAIN counts})

OnCell == {"saveStars", "attachItem", "removeItem", "deleteSlot"}
OnBoard == {"addSlot", "addRelic", "removeRelic", "updateLineup", "copyLineup"}

\* Faulty variant: lineupByID finds any lineup.
AnyLineup(v, l) == TRUE

\* viewForSlot and lineupByID: what the form names is part of the match it names.
SlotInView(v, s) == s \in DOMAIN v.slots
LineupInView(v, l) == l \in DOMAIN v.lineups

\* The checks of each handler between the load and the write.  The hero is looked up
\* by name at this moment; every other field was in the form.
AddSlotChecks(r, v) ==
    /\ r.hero \in codex["heroes"]
    /\ ValidateSlotStars(r.stars)
    /\ ValidateAddSlot(Cardinality(ViewSlotsOf(v, r.lineup)))

SaveStarsChecks(r) == ValidateSlotStars(r.stars)

AttachItemChecks(r, v) == ValidateAddItem(Total(v.items[r.slot]))

UpdateLineupChecks(r, v) ==
    /\ r.placement \in Placements
    /\ \A l \in DOMAIN v.lineups : v.lineups[l].placement = r.placement => l = r.lineup

AddLineupChecks(r, v) == \A l \in DOMAIN v.lineups : v.lineups[l].placement # r.placement

Valid(r, v) ==
    /\ r.kind \in OnCell => SlotInView(v, r.slot)
    /\ r.kind \in OnBoard => LineupInView(v, r.lineup)
    /\ r.kind = "addSlot" => AddSlotChecks(r, v)
    /\ r.kind = "saveStars" => SaveStarsChecks(r)
    /\ r.kind = "attachItem" => AttachItemChecks(r, v)
    /\ r.kind = "updateLineup" => UpdateLineupChecks(r, v)
    /\ r.kind = "addLineup" => AddLineupChecks(r, v)

\* The store operation a handler ends in.
Write(r) ==
    CASE r.kind = "addSlot" -> AddSlot(r.lineup, r.hero, r.stars)
      [] r.kind = "saveStars" -> SetSlotStars(r.slot, r.stars)
      [] r.kind = "attachItem" -> AddSlotItem(r.slot, r.item)
      [] r.kind = "removeItem" -> RemoveSlotItem(r.slot, r.item)
      [] r.kind = "deleteSlot" -> DeleteSlot(r.slot)
      [] r.kind = "addRelic" -> AddLineupRelic(r.lineup, r.relic)
      [] r.kind = "removeRelic" -> RemoveLineupRelic(r.lineup, r.relic)
      [] r.kind = "updateLineup" -> UpdateLineup(r.lineup, r.pro, r.label, r.placement, r.result)
      [] r.kind = "deleteLineup" -> DeleteLineup(r.lineup)
      [] r.kind = "addLineup" ->
            AddLineup(r.match, r.pro, r.label, r.placement, r.result, << >>, {})
      [] r.kind = "copyLineup" -> CopyLineup(r.lineup)
      [] r.kind = "finalize" -> \E now \in 1..MaxTime : FinalizeMatch(r.match, now)
      [] r.kind = "createMatch" -> CreateMatchShell(r.patch, r.source)

-----------------------------------------------------------------------------
(* Steps of one handler.                                                   *)

EditorInit ==
    /\ Init
    /\ pc = [w \in Workers |-> "idle"]
    /\ req = [w \in Workers |-> NoRequest]
    /\ view = [w \in Workers |-> NoView]

Goto(w, label) == pc' = [pc EXCEPT ![w] = label]

\* EntryService.AddLineup runs a GetMatch for the finalized check alone, then the
\* one its placement or membership check uses; most handlers load once, and
\* deleteLineup, finalize and createMatch go straight to the store.
FirstStep(r) ==
    CASE r.kind \in {"addLineup", "copyLineup"} -> "draft"
      [] r.kind \in {"deleteLineup", "finalize", "createMatch"} -> "write"
      [] OTHER -> "match"

Accept(w, r) ==
    /\ pc[w] = "idle"
    /\ Goto(w, FirstStep(r))
    /\ req' = [req EXCEPT ![w] = r]
    /\ UNCHANGED <<store, view>>

\* The checks made before the second load: the match is a draft; of an added
\* lineup, placement 1..8 and GetPro.
CheckDraft(w) ==
    /\ pc[w] = "draft"
    /\ MatchWritable(req[w].match)
    /\ req[w].kind = "addLineup" => ProExists(req[w].pro) /\ req[w].placement \in Placements
    /\ Goto(w, "match")
    /\ UNCHANGED <<store, req, view>>

ReadMatch(w) ==
    /\ pc[w] = "match"
    /\ req[w].match \in DOMAIN matches
    /\ view' = [view EXCEPT ![w].match = matches[req[w].match]]
    /\ Goto(w, "lineups")
    /\ UNCHANGED <<store, req>>

ReadLineups(w) ==
    /\ pc[w] = "lineups"
    /\ view' = [view EXCEPT ![w].lineups = [l \in LineupsOf(req[w].match) |-> lineups[l]]]
    /\ Goto(w, "slots")
    /\ UNCHANGED <<store, req>>

ReadSlots(w) ==
    /\ pc[w] = "slots"
    /\ LET ids == UNION {SlotsOf(l) : l \in DOMAIN view[w].lineups}
       IN view' = [view EXCEPT ![w].slots = [s \in ids |-> slots[s]]]
    /\ Goto(w, "items")
    /\ UNCHANGED <<store, req>>

\* A slot deleted since ReadSlots has no item rows any more.
ReadItems(w) ==
    /\ pc[w] = "items"
    /\ view' = [view EXCEPT ![w].items =
                   [s \in DOMAIN view[w].slots |->
                       IF s \in DOMAIN slotItems THEN slotItems[s] ELSE NoItems]]
    /\ Goto(w, "relics")
    /\ UNCHANGED <<store, req>>

ReadRelics(w) ==
    /\ pc[w] = "relics"
    /\ view' = [view EXCEPT ![w].relics =
                   [l \in DOMAIN view[w].lineups |->
                       IF l \in DOMAIN lineupRelics THEN lineupRelics[l] ELSE {}]]
    /\ Goto(w, IF req[w].kind = "matchDetail" THEN "shown" ELSE "loaded")
    /\ UNCHANGED <<store, req>>

Validate(w) ==
    /\ pc[w] = "loaded"
    /\ Valid(req[w], view[w])
    /\ Goto(w, "write")
    /\ UNCHANGED <<store, req, view>>

Finish(w) ==
    /\ Goto(w, "idle")
    /\ req' = [req EXCEPT ![w] = NoRequest]
    /\ view' = [view EXCEPT ![w] = NoView]

Commit(w) ==
    /\ pc[w] = "write"
    /\ Write(req[w])
    /\ Finish(w)

GiveUp(w) ==
    /\ pc[w] # "idle"
    /\ Finish(w)
    /\ UNCHANGED store

Handle(w) ==
    \/ \E r \in Requests : Accept(w, r)
    \/ CheckDraft(w)
    \/ ReadMatch(w) \/ ReadLineups(w) \/ ReadSlots(w) \/ ReadItems(w) \/ ReadRelics(w)
    \/ Validate(w)
    \/ Commit(w)
    \/ GiveUp(w)

EditorNext == \E w \in Workers : Handle(w)

EditorSpec == EditorInit /\ [][EditorNext]_vars

-----------------------------------------------------------------------------
(* Properties.                                                             *)

Phases == {"idle", "draft", "match", "lineups", "slots", "items", "relics",
           "loaded", "write", "shown"}

\* Type invariant of the handlers.
EditorTypeOK ==
    /\ TypeOK
    /\ pc \in [Workers -> Phases]
    /\ req \in [Workers -> Requests \cup {NoRequest}]
    /\ \A w \in Workers : pc[w] = "idle" <=> req[w] = NoRequest

\* validate.go:12, "a lineup holds at most 12 heroes."
BoardCap == \A l \in DOMAIN lineups : Cardinality(SlotsOf(l)) <= SlotCap

\* How far the stale count can be off: every request in flight may carry one cell
\* past the cap, so a board holds at most SlotCap + |Workers| - 1 cells, and the
\* cap itself when requests come one at a time.  A copy duplicates an overfull
\* board while requests are pending on the new one, so with copies in use this
\* is claimed for a single request at a time only.
OvershootBounded ==
    \A l \in DOMAIN lineups : Cardinality(SlotsOf(l)) <= SlotCap + Cardinality(Workers) - 1

\* GridRegion draws the cells 0..11 and no other: with requests one at a time the count the
\* handler checks and the index the store picks keep every hero of a board visible.
CellsShown == \A s \in DOMAIN slots : slots[s].index < SlotCap

\* The same bound for the items of one slot.
ItemOvershootBounded ==
    \A s \in DOMAIN slotItems : Total(slotItems[s]) <= ItemCap + Cardinality(Workers) - 1

\* The detail page of a finalized match shows the match as it was finalized: the
\* five SELECTs run at different times, yet no mixture of states is read.
DetailExact ==
    \A w \in Workers :
        pc[w] = "shown" /\ view[w].match.finalizedAt > 0 =>
            LET m == req[w].match
            IN /\ view[w].match = matches[m]
               /\ view[w].lineups = [l \in LineupsOf(m) |-> lineups[l]]
               /\ view[w].slots = [s \in UNION {SlotsOf(l) : l \in LineupsOf(m)} |-> slots[s]]
               /\ view[w].items = [s \in DOMAIN view[w].slots |-> slotItems[s]]
               /\ view[w].relics = [l \in LineupsOf(m) |-> lineupRelics[l]]

\* A handler that checks membership writes to the match its form names and to no
\* other, whatever ids the form carries ("lineup not in view", "slot not in match").
StaysInMatch ==
    [][\A w \in Workers, m \in DOMAIN matches :
            (/\ pc[w] = "write" /\ pc'[w] = "idle"
             /\ req[w].kind \notin {"deleteLineup", "createMatch"}
             /\ req[w].match # m)
                => MatchRows(m)' = MatchRows(m)]_vars
=============================================================================
