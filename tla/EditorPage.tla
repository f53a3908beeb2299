------------------------------- MODULE EditorPage -------------------------------
(***************************************************************************)
(* The match editor as its user has it: one browser tab on the page of one *)
(* match (internal/ui editor.templ), whose forms send requests of their    *)
(* own, and the swap contract between the two.  A response carries the     *)
(* fragments of the regions its handler touched, each rendered from the    *)
(* match as the handler reloaded it, and htmx puts every fragment in the   *)
(* place of the element of the same id.  Two forms may be in flight at     *)
(* once and their responses arrive in either order.                        *)
(*                                                                         *)
(* GetMatch is one step here (Editor takes it apart), a write is one step  *)
(* of MatchStore, and anything between the two may come in between.        *)
(* hx-sync stops a second request of one form element only until a swap    *)
(* puts a new element in its place; it is left out, so that any two        *)
(* requests may overlap.                                                   *)
(***************************************************************************)
EXTENDS Editor

CONSTANT MaxSent    \* bound: requests of the tab

ASSUME EditorPageAssumption == MaxSent \in Nat

VARIABLES
    page,       \* "new", or "editor" or "detail" of the match
    dom,        \* region -> what it shows
    answer,     \* worker -> region -> what its response puts there
    live,       \* workers whose response the page waits for
    contested,  \* workers whose request overlapped another about the same region
    disturbed,  \* regions that two requests raced for, or whose answer was lost
    sent        \* requests sent so far

tab == <<page, dom, answer, live, contested, disturbed, sent>>
pageVars == <<vars, tab>>

TheMatch == 1

-----------------------------------------------------------------------------
(* The regions of the page and what each shows.                            *)

Title == <<"match", 0>>
Pips == <<"pips", 0>>
Cards == <<"cards", 0>>
AddForm == <<"addform", 0>>
CardHead(l) == <<"card", l>>
Relics(l) == <<"relics", l>>
Grid(l) == <<"grid", l>>

CardOf(l) == {CardHead(l), Relics(l), Grid(l)}
AllRegions == {Pips, Cards, AddForm} \cup UNION {CardOf(l) : l \in LineupIds}

\* The add form with what was typed into it.
Typed == MaxPlacement + 1
TypedForm == [r \in {AddForm} |-> Typed]

\* Twelve cells, drawn by index: a slot with a higher one is not shown.
GridRegion(v, l) ==
    {[slot |-> s, row |-> v.slots[s], items |-> v.items[s]] :
        s \in {t \in ViewSlotsOf(v, l) : v.slots[t].index < SlotCap}}

\* What a region of a card shows; the cards stand in placement order.
LineupCard(v, r) ==
    CASE r = CardHead(r[2]) -> v.lineups[r[2]]
      [] r = Relics(r[2]) -> v.relics[r[2]]
      [] r = Grid(r[2]) -> GridRegion(v, r[2])

CardsRegion(v) == [l \in DOMAIN v.lineups |-> v.lineups[l].placement]
PipsRegion(v) == <<Cardinality(DOMAIN v.lineups), RequiredTotal(v.match.source)>>

\* ResetAddForm offers the first free placement.
ResetAddForm(v) == FirstFreePlacement({v.lineups[l].placement : l \in DOMAIN v.lineups})

EditorRegions(v) == {Title, Pips, Cards, AddForm} \cup UNION {CardOf(l) : l \in DOMAIN v.lineups}

EditorBody(v) ==
    [r \in EditorRegions(v) |->
        CASE r = Title -> v.match
          [] r = Pips -> PipsRegion(v)
          [] r = Cards -> CardsRegion(v)
          [] r = AddForm -> ResetAddForm(v)
          [] OTHER -> LineupCard(v, r)]

\* The boards of the detail page have no controls, and name no pro.
ReadOnlyCard(v, l) ==
    [label |-> v.lineups[l].label, placement |-> v.lineups[l].placement,
     result |-> v.lineups[l].result, relics |-> v.relics[l], grid |-> GridRegion(v, l)]

DetailBody(v) ==
    [r \in {Title} \cup {CardHead(l) : l \in DOMAIN v.lineups} |->
        IF r = Title THEN v.match ELSE ReadOnlyCard(v, r[2])]

\* Store.GetMatch, undisturbed.
LoadMatch ==
    LET boards == LineupsOf(TheMatch)
        cells == UNION {SlotsOf(l) : l \in boards}
    IN [match |-> matches[TheMatch],
        lineups |-> [l \in boards |-> lineups[l]],
        slots |-> [s \in cells |-> slots[s]],
        items |-> [s \in cells |-> slotItems[s]],
        relics |-> [l \in boards |-> lineupRelics[l]]]

Only(regions, shown) == [r \in regions \cap DOMAIN shown |-> shown[r]]

\* A fragment without its element on the page is dropped; the cards region brings its
\* cards and the add form with it.
Swap(shown, fragments) ==
    LET kept == IF Cards \in DOMAIN fragments
                THEN DOMAIN fragments \cup {Title, Pips} ELSE DOMAIN shown
    IN [r \in kept |-> IF r \in DOMAIN fragments THEN fragments[r] ELSE shown[r]]

-----------------------------------------------------------------------------
(* The forms.                                                              *)

Here(r) == r.match = TheMatch      \* the path, or the hidden match_id

\* A card stands on the page until the cards region is drawn without it.
CardHere(r) == Here(r) /\ r.lineup \in DOMAIN dom[Cards]

SlotShown(s) == {r \in DOMAIN dom : r[1] = "grid" /\ \E c \in dom[r] : c.slot = s}
CellHere(r) == Here(r) /\ SlotShown(r.slot) # {}

\* What each form can send.  Text that is typed, and a pro, an item or a relic picked from
\* a list that may be old, can be anything; a chip has its own remove button.
FinalizeButton(r) == r.kind = "finalize" /\ Here(r)
AddFields(r) == r.kind = "addLineup" /\ Here(r)
CopyButton(r) == r.kind = "copyLineup" /\ CardHere(r)
DeleteButton(r) == r.kind = "deleteLineup" /\ r.lineup \in DOMAIN dom[Cards]
EditFields(r) == r.kind = "updateLineup" /\ CardHere(r)
HeroFields(r) == r.kind = "addSlot" /\ CardHere(r) /\ r.stars \in 1..MaxStars
RelicSelect(r) == r.kind = "addRelic" /\ CardHere(r)
RelicChip(r) == r.kind = "removeRelic" /\ CardHere(r) /\ r.relic \in dom[Relics(r.lineup)]
StarsSelect(r) == r.kind = "saveStars" /\ CellHere(r) /\ r.stars \in 1..MaxStars
ItemSelect(r) == r.kind = "attachItem" /\ CellHere(r)
SlotButton(r) == r.kind = "deleteSlot" /\ CellHere(r)
ItemChip(r) ==
    /\ r.kind = "removeItem"
    /\ Here(r)
    /\ \E g \in SlotShown(r.slot) : \E c \in dom[g] : c.slot = r.slot /\ c.items[r.item] > 0

\* The page holds the form that sends r.
Offered(r) ==
    /\ page = "editor"
    /\ \/ FinalizeButton(r) \/ AddFields(r)
       \/ CopyButton(r) \/ DeleteButton(r) \/ EditFields(r) \/ HeroFields(r)
       \/ RelicSelect(r) \/ RelicChip(r)
       \/ StarsSelect(r) \/ ItemSelect(r) \/ ItemChip(r) \/ SlotButton(r)

\* What a request may change or draw.  A slot id says nothing of the board it will be on.
Scope(r) ==
    CASE r.kind = "addSlot" -> {Grid(r.lineup)}
      [] r.kind \in OnCell -> {Grid(l) : l \in LineupIds}
      [] r.kind \in {"addRelic", "removeRelic"} -> {Relics(r.lineup)}
      [] r.kind = "finalize" -> AllRegions \cup {Title}
      [] OTHER -> AllRegions

-----------------------------------------------------------------------------
(* The responses.                                                          *)

OwnerIn(v, r) == IF r.kind \in OnCell THEN v.slots[r.slot].lineup ELSE r.lineup

\* Faulty variant: an edit always answers with the one card.
WrittenCardOnly(r, before, now) ==
    CASE r.kind \in {"addLineup", "copyLineup", "deleteLineup"} -> AllRegions
      [] r.kind = "updateLineup" -> CardOf(r.lineup) \cup {Pips}
      [] r.kind \in {"addRelic", "removeRelic"} -> {Relics(r.lineup)}
      [] OTHER -> {Grid(OwnerIn(before, r))}

\* The swap table: what a handler redraws after its write, from the reloaded match.  An
\* edit redraws its card, or all of them when the placement moved in the view it had loaded.
Written(r, before, now) ==
    CASE r.kind \in {"addLineup", "copyLineup", "deleteLineup"} -> AllRegions
      [] r.kind = "updateLineup" ->
            IF /\ r.placement = before.lineups[r.lineup].placement
               /\ r.lineup \in DOMAIN now.lineups
            THEN CardOf(r.lineup) \cup {Pips} ELSE AllRegions
      [] r.kind \in {"addRelic", "removeRelic"} -> {Relics(r.lineup)}
      [] OTHER -> {Grid(OwnerIn(before, r))}

\* What a handler redraws when the checks or the write failed: the form that was sent, in
\* the region it sits in; the edit form and the hero form show nothing of the match, a
\* mutationFallback nothing at all.
Refused(r, v) ==
    CASE r.kind = "copyLineup" /\ LineupInView(v, r.lineup) -> Only(CardOf(r.lineup), EditorBody(v))
      [] r.kind = "copyLineup" /\ ~LineupInView(v, r.lineup) -> TypedForm
      [] r.kind = "addLineup" -> TypedForm
      [] r.kind \in {"saveStars", "attachItem"} /\ SlotInView(v, r.slot) ->
            Only({Grid(OwnerIn(v, r))}, EditorBody(v))
      [] r.kind = "addRelic" /\ LineupInView(v, r.lineup) -> Only({Relics(r.lineup)}, EditorBody(v))
      [] OTHER -> << >>

-----------------------------------------------------------------------------
PageInit ==
    /\ EditorInit
    /\ page = "new"
    /\ dom = << >>
    /\ answer = [w \in Workers |-> << >>]
    /\ live = {}
    /\ contested = {}
    /\ disturbed = {}
    /\ sent = 0

Running == {w \in Workers : pc[w] # "idle"}

\* The form on the new match page, and the redirect to the editor.
CreateMatch ==
    /\ page = "new"
    /\ \E patch \in CodexIds("patches"), source \in Sources : CreateMatchShell(patch, source)
    /\ page' = "editor"
    /\ dom' = EditorBody([NoView EXCEPT !.match = matches'[TheMatch]])
    /\ UNCHANGED <<editor, answer, live, contested, disturbed, sent>>

Send(w, r) ==
    /\ pc[w] = "idle"
    /\ Offered(r)
    /\ r.kind = "finalize" => \A v \in live : req[v].kind # "finalize"
    /\ Goto(w, IF r.kind \in {"deleteLineup", "finalize"} THEN "write" ELSE "loaded")
    /\ req' = [req EXCEPT ![w] = r]
    /\ live' = live \cup {w}
    /\ sent < MaxSent
    /\ sent' = sent + 1
    /\ LET rivals == {v \in Running : Scope(r) \cap Scope(req[v]) # {}}
       IN /\ contested' = contested \cup rivals \cup {u \in {w} : rivals # {}}
          /\ disturbed' = disturbed \cup UNION {Scope(r) \cap Scope(req[v]) : v \in rivals}
    /\ UNCHANGED <<store, view, page, dom, answer>>

Answer(w, fragments) ==
    /\ answer' = [answer EXCEPT ![w] = fragments]
    /\ Goto(w, "answer")
    /\ UNCHANGED <<req, page, dom, live, contested, disturbed, sent>>

\* A lineup to add or to copy needs a draft, and a placement and a pro that exist.
Addable(r) ==
    /\ r.kind \in {"addLineup", "copyLineup"} => MatchWritable(r.match)
    /\ r.kind = "addLineup" => ProExists(r.pro) /\ r.placement \in Placements

Check(w) ==
    /\ pc[w] = "loaded"
    /\ IF Addable(req[w]) /\ Valid(req[w], LoadMatch)
       THEN /\ view' = [view EXCEPT ![w] = LoadMatch]
            /\ Goto(w, "write")
            /\ UNCHANGED <<req, tab>>
       ELSE /\ Answer(w, Refused(req[w], LoadMatch))
            /\ UNCHANGED view
    /\ UNCHANGED store

\* A repeated finalize has nothing to write.
Apply(w) ==
    /\ pc[w] = "write"
    /\ \/ Write(req[w])
       \/ req[w].kind = "finalize" /\ ~MatchWritable(req[w].match) /\ UNCHANGED store
    /\ Goto(w, "reload")
    /\ UNCHANGED <<req, view, tab>>

\* The transaction was rejected, or failed.  An added or copied lineup is reported on a
\* match loaded anew, the others on the one the handler has; finalize draws the editor
\* again, under a banner.
Reject(w) ==
    /\ pc[w] = "write"
    /\ IF req[w].kind = "finalize" THEN Goto(w, "banner") /\ UNCHANGED <<req, tab>>
       ELSE Answer(w, CASE req[w].kind \in {"addLineup", "copyLineup"} -> Refused(req[w], LoadMatch)
                        [] req[w].kind \in {"saveStars", "deleteLineup"} -> << >>
                        [] OTHER -> Refused(req[w], view[w]))
    /\ UNCHANGED <<store, view>>

Banner(w) ==
    /\ pc[w] = "banner"
    /\ Answer(w, EditorBody(LoadMatch))
    /\ UNCHANGED <<store, view>>

\* The handler reloads the match and renders; without its lineup there is nothing to draw.
\* After finalize it is the detail page the browser is sent to.
Redraw(w) ==
    /\ pc[w] = "reload"
    /\ Answer(w, IF req[w].kind = "finalize" THEN DetailBody(LoadMatch)
                 ELSE Only(Written(req[w], view[w], LoadMatch), EditorBody(LoadMatch)))
    /\ UNCHANGED <<store, view>>

Quit(w) ==
    /\ Finish(w)
    /\ answer' = [answer EXCEPT ![w] = << >>]
    /\ contested' = contested \ {w}
    /\ live' = live \ {w}
    /\ UNCHANGED <<store, sent>>

\* The fragments of an answer that find their element on the page.
Drawn(w) == DOMAIN answer[w] \cap DOMAIN Swap(dom, answer[w])

Arrive(w) ==
    /\ pc[w] = "answer"
    /\ w \in live
    /\ req[w].kind # "finalize"
    /\ dom' = Swap(dom, answer[w])
    /\ disturbed' = IF w \in contested THEN disturbed ELSE disturbed \ Drawn(w)
    /\ Quit(w)
    /\ UNCHANGED page

\* The request or its answer gets lost, before or after the write, the reload fails after
\* the write, or the page that would take the answer is gone.
Lose(w) ==
    /\ pc[w] # "idle"
    /\ disturbed' = disturbed \cup Scope(req[w])
    /\ Quit(w)
    /\ UNCHANGED <<page, dom>>

\* A page replaces the one before: what is still running may write under the new one.
Show(shown) ==
    /\ page' = IF Cards \in DOMAIN shown THEN "editor" ELSE "detail"
    /\ dom' = shown
    /\ live' = {}
    /\ UNCHANGED sent

\* The plain post of finalize: the detail page, or the editor with its banner.
Land(w) ==
    /\ pc[w] = "answer"
    /\ w \in live
    /\ req[w].kind = "finalize"
    /\ Show(answer[w])
    /\ disturbed' = IF w \in contested THEN Scope(req[w]) ELSE {}
    /\ Finish(w)
    /\ answer' = [answer EXCEPT ![w] = << >>]
    /\ contested' = contested \ {w}
    /\ UNCHANGED store

\* GET of the editor page, which sends a finalized match to its detail page.
Visit ==
    /\ page # "new"
    /\ Show(IF MatchWritable(TheMatch) THEN EditorBody(LoadMatch) ELSE DetailBody(LoadMatch))
    /\ disturbed' = UNION {Scope(req[w]) : w \in Running}
    /\ contested' = Running
    /\ UNCHANGED <<vars, answer>>

PageNext ==
    \/ CreateMatch
    \/ \E w \in Workers, r \in Requests : Send(w, r)
    \/ \E w \in Workers :
        Check(w) \/ Apply(w) \/ Reject(w) \/ Banner(w) \/ Redraw(w) \/ Arrive(w) \/ Lose(w) \/ Land(w)
    \/ Visit

PageSpec == PageInit /\ [][PageNext]_pageVars

-----------------------------------------------------------------------------
(* Properties.                                                             *)

\* whiteboard.md:53, "Mutation responses return exactly the fragments the swap table names":
\* they are enough.  With nothing in flight every region shows what a reload would draw,
\* but those that two requests raced for or whose answer was lost, until a request that
\* raced nobody draws them again; the add form may show what was typed there.
RegionsExact ==
    page = "editor" /\ Running = {} =>
        LET now == EditorBody(LoadMatch)
        IN \A r \in (DOMAIN dom \cup DOMAIN now) \ disturbed :
                /\ r \in DOMAIN dom \cap DOMAIN now
                /\ dom[r] = now[r] \/ (r = AddForm /\ dom[r] = Typed)

\* A detail page shows its match for good, whatever was in flight when it came.
DetailStays == page = "detail" => dom = DetailBody(LoadMatch)
=============================================================================
