--------------------------- MODULE EditorPageProofs ---------------------------
(***************************************************************************)
(* The theorems of EditorPage, for any number of requests in flight on the *)
(* page: its handlers change the tables as the store's operations do, a    *)
(* detail page shows its match for good, and the fragments the handlers    *)
(* answer with keep every region of the editor true.                       *)
(***************************************************************************)
EXTENDS EditorPage, EditorProofs

-----------------------------------------------------------------------------
(* The page and its handlers.                                              *)

PagePhases == {"idle", "loaded", "write", "reload", "banner", "answer"}

\* The page of the new match is left when its match exists, and never seen again; only
\* the forms of the editor send requests.
OnePage ==
    /\ pc \in [Workers -> PagePhases]
    /\ DOMAIN req = Workers /\ DOMAIN view = Workers /\ DOMAIN answer = Workers
    /\ \A w \in Workers :
        pc[w] # "idle" => req[w] \in Requests /\ req[w].kind \notin {"createMatch", "matchDetail"}
    /\ page \in {"new", "editor", "detail"}
    /\ page = "new" => DOMAIN matches = {} /\ \A w \in Workers : pc[w] = "idle"
    /\ page # "new" => TheMatch \in DOMAIN matches

LEMMA OnePageInit == PageInit => OnePage
BY DEF PageInit, EditorInit, Init, OnePage, PagePhases

\* A request and its handler: what each step does to the local state of its worker.
HandlerStep(w) ==
    \/ Check(w) \/ Apply(w) \/ Reject(w) \/ Banner(w) \/ Redraw(w)
    \/ Arrive(w) \/ Lose(w) \/ Land(w)

LEMMA OfferedKinds ==
    ASSUME NEW r, Offered(r)
    PROVE  page = "editor" /\ r.kind \notin {"createMatch", "matchDetail"}
BY DEF Offered, FinalizeButton, AddFields, CopyButton, DeleteButton, EditFields, HeroFields,
       RelicSelect, RelicChip, StarsSelect, ItemSelect, SlotButton, ItemChip

\* No write of a handler takes a match away, and none creates one.
LEMMA WriteKeepsMatches ==
    ASSUME NEW r \in Requests, r.kind \notin {"createMatch", "matchDetail"}, Write(r)
    PROVE  DOMAIN matches' = DOMAIN matches
<1>1. CASE r.kind \in {"addSlot", "saveStars", "attachItem", "removeItem", "deleteSlot"}
    BY <1>1 DEF Write, AddSlot, SetSlotStars, AddSlotItem, RemoveSlotItem, DeleteSlot
<1>2. CASE r.kind \in {"addRelic", "removeRelic", "updateLineup", "deleteLineup"}
    BY <1>2 DEF Write, AddLineupRelic, RemoveLineupRelic, UpdateLineup, DeleteLineup
<1>3. CASE r.kind \in {"addLineup", "copyLineup"}
    BY <1>3 DEF Write, AddLineup, CopyLineup
<1>4. CASE r.kind = "finalize"
    BY <1>4 DEF Write, FinalizeMatch
<1>5. QED
    BY <1>1, <1>2, <1>3, <1>4, RequestShape DEF OnCell, OnBoard

LEMMA ApplyIsStep ==
    ASSUME << >> \in BoardInputs, OnePage, NEW w \in Workers, Apply(w)
    PROVE  /\ [Next]_store
           /\ DOMAIN matches' = DOMAIN matches
<1>1. req[w] \in Requests /\ req[w].kind \notin {"createMatch", "matchDetail"}
    BY DEF OnePage, Apply
<1>2. CASE Write(req[w])
    BY <1>1, <1>2, WriteIsStep, WriteKeepsMatches
<1>3. CASE store' = store
    BY <1>3 DEF store
<1>4. QED
    BY <1>2, <1>3 DEF Apply

LEMMA HandlerKeepsPlace ==
    ASSUME OnePage, NEW w \in Workers, HandlerStep(w)
    PROVE  /\ pc[w] # "idle"
           /\ pc' \in [Workers -> PagePhases]
           /\ DOMAIN req' = Workers /\ DOMAIN view' = Workers /\ DOMAIN answer' = Workers
           /\ \A u \in Workers : pc'[u] # "idle" => pc[u] # "idle" /\ req'[u] = req[u]
           /\ page' \in {page, "editor", "detail"}
<1>1. CASE Check(w)
    BY <1>1 DEF OnePage, PagePhases, Check, Answer, Goto, tab
<1>2. CASE Apply(w)
    BY <1>2 DEF OnePage, PagePhases, Apply, Goto, tab
<1>3. CASE Reject(w)
    BY <1>3 DEF OnePage, PagePhases, Reject, Answer, Goto, tab
<1>4. CASE Banner(w)
    BY <1>4 DEF OnePage, PagePhases, Banner, Answer, Goto
<1>5. CASE Redraw(w)
    BY <1>5 DEF OnePage, PagePhases, Redraw, Answer, Goto
<1>6. CASE Arrive(w)
    BY <1>6 DEF OnePage, PagePhases, Arrive, Quit, Finish, Goto
<1>7. CASE Lose(w)
    BY <1>7 DEF OnePage, PagePhases, Lose, Quit, Finish, Goto
<1>8. CASE Land(w)
    BY <1>8 DEF OnePage, PagePhases, Land, Show, Finish, Goto
<1>9. QED
    BY <1>1, <1>2, <1>3, <1>4, <1>5, <1>6, <1>7, <1>8 DEF HandlerStep

\* Every step of the page is a step of the store.
LEMMA PageStoreStep ==
    ASSUME << >> \in BoardInputs, OnePage, [PageNext]_pageVars
    PROVE  [Next]_store
<1>1. CASE CreateMatch
    BY <1>1 DEF CreateMatch, Next, MatchStep
<1>2. ASSUME NEW w \in Workers, NEW r \in Requests, Send(w, r) PROVE [Next]_store
    BY <1>2 DEF Send
<1>3. ASSUME NEW w \in Workers, Apply(w) PROVE [Next]_store
    BY <1>3, ApplyIsStep
<1>4. ASSUME NEW w \in Workers, HandlerStep(w), ~Apply(w) PROVE [Next]_store
    BY <1>4 DEF HandlerStep, Check, Reject, Banner, Redraw, Arrive, Lose, Quit, Land
<1>5. CASE Visit
    BY <1>5 DEF Visit, vars
<1>6. CASE UNCHANGED pageVars
    BY <1>6 DEF pageVars, vars
<1>7. QED
    BY <1>1, <1>2, <1>3, <1>4, <1>5, <1>6 DEF PageNext, HandlerStep

LEMMA OnePageStep ==
    ASSUME << >> \in BoardInputs
    PROVE  OnePage /\ [PageNext]_pageVars => OnePage'
<1> SUFFICES ASSUME OnePage, [PageNext]_pageVars PROVE OnePage'
    OBVIOUS
<1>1. CASE CreateMatch
    <2>1. UNCHANGED <<pc, req, view, answer>> /\ page = "new" /\ page' = "editor"
        BY <1>1 DEF CreateMatch, editor
    <2>2. TheMatch \in DOMAIN matches'
        <3>1. PICK patch, source : CreateMatchShell(patch, source)
            BY <1>1 DEF CreateMatch
        <3>2. PICK high \in 0..(MaxMatches - 1) :
                /\ IsHighest(high, DOMAIN matches)
                /\ DOMAIN matches' = DOMAIN matches \cup {high + 1}
            BY <3>1 DEF CreateMatchShell, Insert
        <3>3. high = 0
            BY <2>1, <3>2 DEF IsHighest, OnePage
        <3>4. QED
            BY <3>2, <3>3 DEF TheMatch
    <2>3. QED
        BY <2>1, <2>2 DEF OnePage
<1>2. ASSUME NEW w \in Workers, NEW r \in Requests, Send(w, r) PROVE OnePage'
    <2>1. page = "editor" /\ r.kind \notin {"createMatch", "matchDetail"}
        BY <1>2, OfferedKinds DEF Send
    <2>2. UNCHANGED <<matches, view, answer, page>>
        BY <1>2 DEF Send, store
    <2>3. pc' \in [Workers -> PagePhases]
        BY <1>2 DEF Send, Goto, OnePage, PagePhases
    <2>4. req' = [req EXCEPT ![w] = r] /\ DOMAIN req = Workers
        BY <1>2 DEF Send, OnePage
    <2>5. \A u \in Workers \ {w} : pc'[u] = pc[u]
        BY <1>2 DEF Send, Goto, OnePage
    <2>6. QED
        BY <2>1, <2>2, <2>3, <2>4, <2>5 DEF OnePage
<1>3. ASSUME NEW w \in Workers, HandlerStep(w) PROVE OnePage'
    <2>1. page # "new" /\ TheMatch \in DOMAIN matches
        BY <1>3, HandlerKeepsPlace DEF OnePage
    <2>2. DOMAIN matches' = DOMAIN matches
        <3>1. CASE Apply(w)
            BY <3>1, ApplyIsStep
        <3>2. CASE ~Apply(w)
            BY <1>3, <3>2 DEF HandlerStep, Check, Reject, Banner, Redraw, Arrive, Lose, Quit,
                              Land, store
        <3>3. QED
            BY <3>1, <3>2
    <2>3. QED
        BY <1>3, <2>1, <2>2, HandlerKeepsPlace DEF OnePage
<1>4. CASE Visit
    BY <1>4 DEF Visit, Show, vars, store, editor, OnePage
<1>5. CASE UNCHANGED pageVars
    BY <1>5 DEF pageVars, vars, store, editor, tab, OnePage
<1>6. QED
    BY <1>1, <1>2, <1>3, <1>4, <1>5 DEF PageNext, HandlerStep

\* Whatever the forms of the page send and however their requests overlap, the tables
\* change as the store's own operations change them.
THEOREM PageImplementsStore ==
    ASSUME << >> \in BoardInputs
    PROVE  PageSpec => Spec
<1>1. PageInit => Init
    BY DEF PageInit, EditorInit
<1>2. OnePage /\ [PageNext]_pageVars => [Next]_store
    BY PageStoreStep
<1>3. QED
    BY <1>1, <1>2, OnePageInit, OnePageStep, PTL DEF PageSpec, Spec

\* From the click to the book of games: what the page sends, whatever it shows by then,
\* edits one draft as the abstract match store does.
THEOREM PageImplementsBook ==
    ASSUME << >> \in BoardInputs
    PROVE  PageSpec => ImplementsBook
BY PageImplementsStore, StoreImplementsBook, PTL

-----------------------------------------------------------------------------
(* The detail page.                                                        *)

Closed == matches[TheMatch].finalizedAt > 0

\* An undisturbed GetMatch reads the rows of the match and nothing else.
LEMMA LoadsRows ==
    LoadMatch = [match |-> MatchRows(TheMatch).match, lineups |-> MatchRows(TheMatch).boards,
                 slots |-> MatchRows(TheMatch).cells, items |-> MatchRows(TheMatch).items,
                 relics |-> MatchRows(TheMatch).relics]
BY DEF LoadMatch, MatchRows

\* The frame of the editor is there whatever the match.
FixedRegions == {Title, Pips, Cards, AddForm}

LEMMA EditorHasFrame == ASSUME NEW v PROVE FixedRegions \subseteq DOMAIN EditorBody(v)
BY DEF EditorBody, EditorRegions, FixedRegions

\* The rows of a finalized match stand still, so a reload draws the same page.
LEMMA RowsSettled ==
    ASSUME << >> \in BoardInputs, Shape, OnePage, page # "new", Closed, [PageNext]_pageVars
    PROVE  Closed' /\ LoadMatch' = LoadMatch
<1>1. TheMatch \in DOMAIN matches /\ [Next]_store
    BY PageStoreStep DEF OnePage
<1>2. MatchRows(TheMatch)' = MatchRows(TheMatch)
    <2>1. CASE Next
        BY <1>1, <2>1, FrozenStep DEF Frozen, Closed
    <2>2. CASE store' = store
        BY <2>2, RowsStill
    <2>3. QED
        BY <1>1, <2>1, <2>2 DEF store
<1>3. LoadMatch' = LoadMatch
    <2>1. LoadMatch' = [match |-> MatchRows(TheMatch)'.match,
                        lineups |-> MatchRows(TheMatch)'.boards,
                        slots |-> MatchRows(TheMatch)'.cells,
                        items |-> MatchRows(TheMatch)'.items,
                        relics |-> MatchRows(TheMatch)'.relics]
        BY DEF LoadMatch, MatchRows, TheMatch
    <2>2. QED
        BY <1>2, <2>1, LoadsRows
<1>4. Closed'
    <2>1. MatchRows(TheMatch).match = matches[TheMatch]
        BY DEF MatchRows
    <2>2. MatchRows(TheMatch)'.match = matches'[TheMatch]
        BY DEF MatchRows, TheMatch
    <2>3. QED
        BY <1>2, <2>1, <2>2 DEF Closed, TheMatch
<1>5. QED
    BY <1>3, <1>4

\* The answer to a finalize is the editor under its banner, or the detail page of a match
\* that is finalized by then.
FinalizeAnswer(fragments) ==
    \/ FixedRegions \subseteq DOMAIN fragments
    \/ Closed /\ fragments = DetailBody(LoadMatch)

Finalizing(w) == pc[w] # "idle" /\ req[w].kind = "finalize"

Finalizes ==
    \A w \in Workers : Finalizing(w) =>
        /\ req[w].match = TheMatch
        /\ pc[w] # "loaded"
        /\ pc[w] = "reload" => Closed
        /\ pc[w] = "answer" => FinalizeAnswer(answer[w])

\* Nothing that is still running has a detail page to write into.
Settled == page = "detail" => Closed /\ live = {} /\ dom = DetailBody(LoadMatch)

LEMMA PageStill ==
    ASSUME store' = store
    PROVE  Closed' = Closed /\ LoadMatch' = LoadMatch /\ DetailBody(LoadMatch)' = DetailBody(LoadMatch)
<1>1. Closed' = Closed
    BY DEF store, Closed, TheMatch
<1>2. LoadMatch' = LoadMatch
    BY DEF store, LoadMatch, LineupsOf, SlotsOf, TheMatch
<1>3. DetailBody(LoadMatch)' = DetailBody(LoadMatch')
    BY DEF DetailBody, ReadOnlyCard, GridRegion, ViewSlotsOf, Title, CardHead
<1>4. QED
    BY <1>1, <1>2, <1>3

LEMMA FinalizesInit == PageInit => Finalizes /\ Settled
BY DEF PageInit, EditorInit, Finalizes, Finalizing, Settled

\* The marker of the match is stamped from a banner on, or when a finalize has written.
LEMMA FinalizeApplied ==
    ASSUME Shape, OnePage, Finalizes, NEW w \in Workers, Apply(w), Finalizing(w)
    PROVE  Closed'
<1>1. req[w].match = TheMatch /\ TheMatch \in DOMAIN matches
    BY DEF Finalizes, Finalizing, OnePage
<1>2. CASE Write(req[w])
    <2>1. PICK now \in 1..MaxTime : FinalizeMatch(TheMatch, now)
        BY <1>1, <1>2 DEF Write, Finalizing
    <2>2. QED
        BY <1>1, <2>1 DEF FinalizeMatch, Closed, TheMatch, Shape, TypeOK, IsTable, MatchRow
<1>3. CASE ~MatchWritable(TheMatch) /\ store' = store
    BY <1>1, <1>3 DEF MatchWritable, Closed, TheMatch, store, Shape, TypeOK, IsTable, MatchRow
<1>4. QED
    BY <1>1, <1>2, <1>3 DEF Apply, store, Finalizing

\* Once closed, what holds of a finalizing handler keeps holding until it moves.
LEMMA FinalizesKept ==
    ASSUME << >> \in BoardInputs, Shape, OnePage, Finalizes, [PageNext]_pageVars,
           NEW u \in Workers, pc'[u] = pc[u], req'[u] = req[u], answer'[u] = answer[u],
           Finalizing(u)
    PROVE  /\ req'[u].match = TheMatch
           /\ pc'[u] # "loaded"
           /\ pc'[u] = "reload" => Closed'
           /\ pc'[u] = "answer" => FinalizeAnswer(answer[u])'
<1>1. page # "new"
    BY DEF OnePage, Finalizing
<1>2. Closed => Closed' /\ LoadMatch' = LoadMatch
    BY <1>1, RowsSettled
<1>3. DetailBody(LoadMatch)' = DetailBody(LoadMatch')
    BY DEF DetailBody, ReadOnlyCard, GridRegion, ViewSlotsOf, Title, CardHead
<1>4. pc[u] = "answer" => FinalizeAnswer(answer[u])
    BY DEF Finalizes
<1>5. FinalizeAnswer(answer[u]) => FinalizeAnswer(answer[u])'
    BY <1>2, <1>3 DEF FinalizeAnswer, FixedRegions, Title, Pips, Cards, AddForm
<1>6. QED
    BY <1>2, <1>4, <1>5 DEF Finalizes, TheMatch

LEMMA FinalizesOwn ==
    ASSUME Shape, OnePage, Finalizes, NEW w \in Workers, HandlerStep(w), Finalizing(w)
    PROVE  /\ pc'[w] # "loaded"
           /\ pc'[w] = "reload" => Closed'
           /\ pc'[w] = "answer" => FinalizeAnswer(answer[w])'
<1>1. CASE Apply(w)
    BY <1>1, FinalizeApplied DEF Apply, Goto, OnePage
<1>2. CASE Banner(w)
    <2>1. pc'[w] = "answer" /\ answer'[w] = EditorBody(LoadMatch)
        BY <1>2 DEF Banner, Answer, Goto, OnePage
    <2>2. FixedRegions \subseteq DOMAIN answer'[w]
        BY <2>1, EditorHasFrame
    <2>3. QED
        BY <2>1, <2>2 DEF FinalizeAnswer, FixedRegions, Title, Pips, Cards, AddForm
<1>3. CASE Redraw(w)
    <2>1. pc[w] = "reload" /\ pc'[w] = "answer" /\ store' = store
          /\ answer'[w] = DetailBody(LoadMatch)
        BY <1>3 DEF Redraw, Answer, Goto, OnePage, store, Finalizing
    <2>2. Closed' /\ DetailBody(LoadMatch)' = DetailBody(LoadMatch)
        BY <2>1, PageStill DEF Finalizes
    <2>3. QED
        BY <2>1, <2>2 DEF FinalizeAnswer
<1>4. CASE Check(w)
    BY <1>4 DEF Check, Finalizes
<1>5. CASE Reject(w)
    BY <1>5 DEF Reject, Goto, OnePage, Finalizing
<1>6. CASE Arrive(w) \/ Lose(w) \/ Land(w)
    BY <1>6 DEF Arrive, Lose, Land, Quit, Finish, Goto, OnePage
<1>7. QED
    BY <1>1, <1>2, <1>3, <1>4, <1>5, <1>6 DEF HandlerStep

\* A step of one handler leaves the others where they are.
LEMMA OtherHandlers ==
    ASSUME OnePage, NEW w \in Workers, HandlerStep(w), NEW u \in Workers \ {w}
    PROVE  pc'[u] = pc[u] /\ req'[u] = req[u] /\ view'[u] = view[u] /\ answer'[u] = answer[u]
<1>1. CASE Check(w) \/ Apply(w)
    BY <1>1 DEF OnePage, Check, Apply, Answer, Goto, tab
<1>2. CASE Reject(w) \/ Banner(w) \/ Redraw(w)
    BY <1>2 DEF OnePage, Reject, Banner, Redraw, Answer, Goto, tab
<1>3. CASE Arrive(w) \/ Lose(w) \/ Land(w)
    BY <1>3 DEF OnePage, Arrive, Lose, Land, Quit, Finish, Goto
<1>4. QED
    BY <1>1, <1>2, <1>3 DEF HandlerStep

LEMMA FinalizesStep ==
    ASSUME << >> \in BoardInputs, Shape, OnePage, Finalizes, [PageNext]_pageVars
    PROVE  Finalizes'
<1>1. CASE CreateMatch
    <2>1. \A u \in Workers : pc'[u] = "idle"
        BY <1>1 DEF CreateMatch, editor, OnePage
    <2>2. QED
        BY <2>1 DEF Finalizes, Finalizing
<1>2. ASSUME NEW w \in Workers, NEW r \in Requests, Send(w, r) PROVE Finalizes'
    <2>1. /\ pc'[w] # "answer" /\ pc'[w] # "reload" /\ req'[w] = r
          /\ r.kind = "finalize" => pc'[w] = "write"
        BY <1>2 DEF Send, Goto, OnePage
    <2>2. r.kind = "finalize" => r.match = TheMatch
        BY <1>2 DEF Send, Offered, FinalizeButton, AddFields, CopyButton, DeleteButton,
            EditFields, HeroFields, RelicSelect, RelicChip, StarsSelect, ItemSelect, SlotButton,
            ItemChip, Here
    <2>3. \A u \in Workers \ {w} :
            pc'[u] = pc[u] /\ req'[u] = req[u] /\ answer'[u] = answer[u]
        BY <1>2 DEF Send, Goto, OnePage
    <2>4. ASSUME NEW u \in Workers \ {w}, Finalizing(u)'
          PROVE  /\ req'[u].match = TheMatch
                 /\ pc'[u] # "loaded"
                 /\ pc'[u] = "reload" => Closed'
                 /\ pc'[u] = "answer" => FinalizeAnswer(answer[u])'
        BY <2>3, <2>4, FinalizesKept DEF Finalizing
    <2>5. Finalizing(w)' =>
            /\ req'[w].match = TheMatch
            /\ pc'[w] # "loaded"
            /\ pc'[w] = "reload" => Closed'
            /\ pc'[w] = "answer" => FinalizeAnswer(answer[w])'
        BY <2>1, <2>2 DEF Finalizing
    <2>6. QED
        BY <2>4, <2>5 DEF Finalizes, TheMatch
<1>3. ASSUME NEW w \in Workers, HandlerStep(w) PROVE Finalizes'
    <2>1. ASSUME NEW u \in Workers \ {w}, Finalizing(u)'
          PROVE  /\ req'[u].match = TheMatch
                 /\ pc'[u] # "loaded"
                 /\ pc'[u] = "reload" => Closed'
                 /\ pc'[u] = "answer" => FinalizeAnswer(answer[u])'
        BY <1>3, <2>1, OtherHandlers, FinalizesKept DEF Finalizing
    <2>2. Finalizing(w)' => Finalizing(w) /\ req'[w] = req[w]
        BY <1>3, HandlerKeepsPlace DEF Finalizing
    <2>3. Finalizing(w)' =>
                 /\ req'[w].match = TheMatch
                 /\ pc'[w] # "loaded"
                 /\ pc'[w] = "reload" => Closed'
                 /\ pc'[w] = "answer" => FinalizeAnswer(answer[w])'
        BY <1>3, <2>2, FinalizesOwn DEF Finalizes
    <2>4. QED
        BY <2>1, <2>3 DEF Finalizes, TheMatch
<1>4. CASE Visit \/ UNCHANGED pageVars
    <2>1. UNCHANGED <<pc, req, answer>>
        BY <1>4 DEF Visit, pageVars, vars, editor, tab
    <2>2. ASSUME NEW u \in Workers, Finalizing(u)'
          PROVE  /\ req'[u].match = TheMatch
                 /\ pc'[u] # "loaded"
                 /\ pc'[u] = "reload" => Closed'
                 /\ pc'[u] = "answer" => FinalizeAnswer(answer[u])'
        BY <2>1, <2>2, FinalizesKept DEF Finalizing
    <2>3. QED
        BY <2>2 DEF Finalizes, TheMatch
<1>5. QED
    BY <1>1, <1>2, <1>3, <1>4 DEF PageNext, HandlerStep

\* A page that is shown is the editor, whole, or the detail page of a finalized match.
LEMMA SettledStep ==
    ASSUME << >> \in BoardInputs, Shape, OnePage, Finalizes, Settled, [PageNext]_pageVars
    PROVE  Settled'
<1>1. CASE page = "detail" /\ page' = page /\ live' = live /\ dom' = dom
    <2>1. Closed' /\ LoadMatch' = LoadMatch
        BY <1>1, RowsSettled DEF Settled
    <2>2. DetailBody(LoadMatch)' = DetailBody(LoadMatch')
        BY DEF DetailBody, ReadOnlyCard, GridRegion, ViewSlotsOf, Title, CardHead
    <2>3. QED
        BY <1>1, <2>1, <2>2 DEF Settled
<1>2. CASE page' # "detail"
    BY <1>2 DEF Settled
<1>3. ASSUME NEW w \in Workers, Lose(w), page = "detail" PROVE Settled'
    <2>1. live = {} /\ live' = live \ {w} /\ dom' = dom /\ page' = page
        BY <1>3 DEF Lose, Quit, Settled
    <2>2. QED
        BY <1>1, <1>3, <2>1
<1>4. ASSUME NEW w \in Workers, Land(w), page' = "detail" PROVE Settled'
    <2>1. /\ Finalizing(w) /\ pc[w] = "answer" /\ Cards \notin DOMAIN answer[w]
          /\ dom' = answer[w] /\ live' = {} /\ store' = store
        BY <1>4 DEF Land, Show, Finalizing, store
    <2>2. Closed /\ answer[w] = DetailBody(LoadMatch)
        BY <2>1 DEF Finalizes, FinalizeAnswer, FixedRegions
    <2>3. Closed' /\ DetailBody(LoadMatch)' = DetailBody(LoadMatch)
        BY <2>1, <2>2, PageStill
    <2>4. QED
        BY <2>1, <2>2, <2>3 DEF Settled
<1>5. CASE Visit /\ page' = "detail"
    <2>1. /\ MatchWritable(TheMatch) => Cards \notin DOMAIN EditorBody(LoadMatch)
          /\ ~MatchWritable(TheMatch) => dom' = DetailBody(LoadMatch)
          /\ live' = {} /\ store' = store /\ TheMatch \in DOMAIN matches
        BY <1>5 DEF Visit, Show, vars, store, OnePage
    <2>2. ~MatchWritable(TheMatch)
        BY <2>1, EditorHasFrame DEF FixedRegions
    <2>3. Closed
        BY <2>1, <2>2 DEF MatchWritable, Closed, TheMatch, Shape, TypeOK, IsTable, MatchRow
    <2>4. Closed' /\ DetailBody(LoadMatch)' = DetailBody(LoadMatch)
        BY <2>1, <2>3, PageStill
    <2>5. QED
        BY <2>1, <2>2, <2>4 DEF Settled
<1>6. ASSUME NEW w \in Workers, NEW r \in Requests, Send(w, r), page = "detail" PROVE FALSE
    BY <1>6 DEF Send, Offered
<1>7. ASSUME NEW w \in Workers, Arrive(w), page = "detail" PROVE FALSE
    BY <1>7 DEF Arrive, Settled
<1>8. ASSUME NEW w \in Workers, Check(w) \/ Apply(w) \/ Reject(w) \/ Banner(w) \/ Redraw(w)
      PROVE  page' = page /\ live' = live /\ dom' = dom
    BY <1>8 DEF Check, Apply, Reject, Banner, Redraw, Answer, tab
<1>9. ASSUME NEW w \in Workers, Arrive(w) \/ Lose(w) \/ \E r \in Requests : Send(w, r)
      PROVE  page' = page
    BY <1>9 DEF Arrive, Lose, Send
<1>10. CreateMatch => page' = "editor"
    BY DEF CreateMatch
<1>11. UNCHANGED pageVars => page' = page /\ live' = live /\ dom' = dom
    BY DEF pageVars, tab
<1>12. QED
    BY <1>1, <1>2, <1>3, <1>4, <1>5, <1>6, <1>7, <1>8, <1>9, <1>10, <1>11 DEF PageNext

\* matches.go:92 to 108: once its page shows a finalized match, neither a request that was
\* still running when the page came nor any that another step lets through changes what
\* the page should show.
THEOREM DetailPageStays ==
    ASSUME << >> \in BoardInputs
    PROVE  PageSpec => []DetailStays
<1> DEFINE Inv == Shape /\ OnePage /\ Finalizes /\ Settled
<1>1. PageInit => Inv
    BY OnePageInit, FinalizesInit, ShapeInit DEF PageInit, EditorInit
<1>2. Inv /\ [PageNext]_pageVars => Inv'
    BY OnePageStep, PageStoreStep, ShapeStep, FinalizesStep, SettledStep
<1>3. Inv => DetailStays
    BY DEF Settled, DetailStays
<1>4. QED
    BY <1>1, <1>2, <1>3, PTL DEF PageSpec

-----------------------------------------------------------------------------
(* The regions of the editor.                                              *)

Everything == AllRegions \cup {Title}

\* What a reload would draw.
Now == EditorBody(LoadMatch)

Busy(w) == pc[w] # "idle"

\* Two sets of fragments show the same at region r.
SameAt(f, g, r) ==
    /\ r \in DOMAIN f <=> r \in DOMAIN g
    /\ r \in DOMAIN f => f[r] = g[r]

\* The fragment of region r is what a reload would draw, or an add form with its text.
ShowsNow(f, r) == f[r] = Now[r] \/ (r = AddForm /\ f[r] = Typed)

InSync(r) ==
    /\ r \in DOMAIN dom <=> r \in DOMAIN Now
    /\ r \in DOMAIN dom => ShowsNow(dom, r)

\* Requests that are about the same region know of each other.
Marked ==
    \A v, w \in Workers : \A r \in Scope(req[v]) \cap Scope(req[w]) :
        v # w /\ Busy(v) /\ Busy(w) => r \in disturbed /\ v \in contested

\* Nobody else has touched region r since the request of w was sent.
Alone(w, r) == Busy(w) /\ r \in Scope(req[w]) /\ (r \notin disturbed \/ w \notin contested)

\* What the handler of w loaded is still what is there, in the regions it has to itself.
ViewFresh(w) ==
    pc[w] = "write" /\ req[w].kind \notin {"deleteLineup", "finalize"} =>
        \A r \in Everything : Alone(w, r) =>
            /\ SameAt(EditorBody(view[w]), Now, r)
            /\ req[w].kind = "updateLineup" => view[w].lineups = LoadMatch.lineups

\* What the answer of w draws in these regions is what is there.
AnswerTrue(w) ==
    pc[w] = "answer" =>
        /\ DOMAIN answer[w] \subseteq Scope(req[w])
        /\ Cards \in DOMAIN answer[w] \/ req[w].kind # "finalize" =>
            \A r \in Everything : Alone(w, r) =>
                /\ r \in DOMAIN answer[w] => r \in DOMAIN Now /\ ShowsNow(answer[w], r)
                /\ Cards \in DOMAIN answer[w] /\ r \in DOMAIN Now => r \in DOMAIN answer[w]

\* The regions that the answer to a written request will draw.
Covered(w) == Written(req[w], view[w], LoadMatch)

\* Region r is out of date, and the answer that will draw it is on its way.
Pending(w, r) ==
    /\ Busy(w)
    /\ r \in Scope(req[w])
    /\ \/ req[w].kind = "finalize" /\ pc[w] \in {"reload", "answer"} /\ r = Title
       \/ /\ req[w].kind # "finalize"
          /\ pc[w] = "reload"
          /\ r \in Covered(w)
          /\ Cards \in Covered(w) \/ r \in DOMAIN dom \cap DOMAIN Now
       \/ /\ req[w].kind # "finalize"
          /\ pc[w] = "answer"
          /\ Cards \in DOMAIN answer[w] \/ r \in DOMAIN answer[w] \cap DOMAIN dom

Accounted ==
    page = "editor" =>
        /\ Title \in DOMAIN dom /\ DOMAIN dom \subseteq Everything
        /\ \A r \in Everything \ disturbed : InSync(r) \/ \E w \in Workers : Pending(w, r)

ViewsTyped == \A w \in Workers : DOMAIN view[w].lineups \subseteq LineupIds

PageInv ==
    /\ Marked
    /\ ViewsTyped
    /\ \A w \in Workers : pc[w] = "banner" => req[w].kind = "finalize"
    /\ \A w \in Workers : ViewFresh(w) /\ AnswerTrue(w)
    /\ Accounted

\* What the editor body of a view is made of.
LEMMA BodyShows ==
    ASSUME NEW v
    PROVE  /\ DOMAIN EditorBody(v) = EditorRegions(v)
           /\ EditorBody(v)[Title] = v.match
           /\ EditorBody(v)[Pips] = PipsRegion(v)
           /\ EditorBody(v)[Cards] = CardsRegion(v)
           /\ EditorBody(v)[AddForm] = ResetAddForm(v)
           /\ \A l \in DOMAIN v.lineups :
                /\ EditorBody(v)[CardHead(l)] = v.lineups[l]
                /\ EditorBody(v)[Relics(l)] = v.relics[l]
                /\ EditorBody(v)[Grid(l)] = GridRegion(v, l)
<1>1. DOMAIN EditorBody(v) = EditorRegions(v)
    BY DEF EditorBody
<1>2. {Title, Pips, Cards, AddForm} \subseteq EditorRegions(v)
    BY DEF EditorRegions
<1>3. /\ EditorBody(v)[Title] = v.match
      /\ EditorBody(v)[Pips] = PipsRegion(v)
      /\ EditorBody(v)[Cards] = CardsRegion(v)
      /\ EditorBody(v)[AddForm] = ResetAddForm(v)
    BY <1>2 DEF EditorBody, Title, Pips, Cards, AddForm
<1>4. ASSUME NEW l \in DOMAIN v.lineups
      PROVE  /\ EditorBody(v)[CardHead(l)] = v.lineups[l]
             /\ EditorBody(v)[Relics(l)] = v.relics[l]
             /\ EditorBody(v)[Grid(l)] = GridRegion(v, l)
    <2>1. {CardHead(l), Relics(l), Grid(l)} \subseteq EditorRegions(v)
        BY DEF EditorRegions, CardOf
    <2>2. ASSUME NEW r \in {CardHead(l), Relics(l), Grid(l)}
          PROVE  r \notin {Title, Pips, Cards, AddForm} /\ r[2] = l
        BY DEF CardHead, Relics, Grid, Title, Pips, Cards, AddForm
    <2>3. ASSUME NEW r \in {CardHead(l), Relics(l), Grid(l)}
          PROVE  EditorBody(v)[r] = LineupCard(v, r)
        BY <2>1, <2>2 DEF EditorBody
    <2>4. QED
        BY <2>2, <2>3 DEF LineupCard, CardHead, Relics, Grid
<1>5. QED
    BY <1>1, <1>3, <1>4

LEMMA RegionKinds ==
    ASSUME NEW v, NEW r \in EditorRegions(v)
    PROVE  \/ r \in {Title, Pips, Cards, AddForm}
           \/ \E l \in DOMAIN v.lineups : r \in {CardHead(l), Relics(l), Grid(l)}
BY DEF EditorRegions, CardOf

\* The grid of lineup l as the tables have it.
Visible(l) == {t \in SlotsOf(l) : slots[t].index < SlotCap}

GridNow(l) ==
    {[slot |-> s, row |-> slots[s], items |-> slotItems[s]] :
        s \in Visible(l)}

LEMMA LoadShows ==
    /\ LoadMatch.match = matches[TheMatch]
    /\ LoadMatch.lineups = [l \in LineupsOf(TheMatch) |-> lineups[l]]
    /\ LoadMatch.relics = [l \in LineupsOf(TheMatch) |-> lineupRelics[l]]
    /\ \A l \in LineupsOf(TheMatch) : GridRegion(LoadMatch, l) = GridNow(l)
<1>1. /\ LoadMatch.match = matches[TheMatch]
      /\ LoadMatch.lineups = [l \in LineupsOf(TheMatch) |-> lineups[l]]
      /\ LoadMatch.relics = [l \in LineupsOf(TheMatch) |-> lineupRelics[l]]
    BY DEF LoadMatch
<1> DEFINE cells == UNION {SlotsOf(l) : l \in LineupsOf(TheMatch)}
<1>2. /\ LoadMatch.slots = [s \in cells |-> slots[s]]
      /\ LoadMatch.items = [s \in cells |-> slotItems[s]]
    BY DEF LoadMatch
<1>3. ASSUME NEW l \in LineupsOf(TheMatch) PROVE GridRegion(LoadMatch, l) = GridNow(l)
    <2>1. SlotsOf(l) \subseteq cells
        OBVIOUS
    <2>2. \A s \in cells : slots[s].lineup = l => s \in SlotsOf(l)
        BY DEF SlotsOf
    <2> HIDE DEF cells
    <2>3. ViewSlotsOf(LoadMatch, l) = SlotsOf(l)
        BY <1>2, <2>1, <2>2 DEF ViewSlotsOf, SlotsOf
    <2>4. \A s \in SlotsOf(l) : LoadMatch.slots[s] = slots[s] /\ LoadMatch.items[s] = slotItems[s]
        BY <1>2, <2>1
    <2>5. QED
        BY <2>3, <2>4 DEF GridRegion, GridNow, Visible
<1>4. QED
    BY <1>1, <1>3

LEMMA LoadShowsNext ==
    /\ LoadMatch'.match = matches'[TheMatch]
    /\ LoadMatch'.lineups = [l \in LineupsOf(TheMatch)' |-> lineups'[l]]
    /\ LoadMatch'.relics = [l \in LineupsOf(TheMatch)' |-> lineupRelics'[l]]
    /\ \A l \in LineupsOf(TheMatch)' : GridRegion(LoadMatch', l) = GridNow(l)'
<1>1. /\ LoadMatch'.match = matches'[TheMatch]
      /\ LoadMatch'.lineups = [l \in LineupsOf(TheMatch)' |-> lineups'[l]]
      /\ LoadMatch'.relics = [l \in LineupsOf(TheMatch)' |-> lineupRelics'[l]]
    BY DEF LoadMatch, TheMatch
<1> DEFINE cells == UNION {SlotsOf(l)' : l \in LineupsOf(TheMatch)'}
<1>2. /\ LoadMatch'.slots = [s \in cells |-> slots'[s]]
      /\ LoadMatch'.items = [s \in cells |-> slotItems'[s]]
    BY DEF LoadMatch
<1>3. ASSUME NEW l \in LineupsOf(TheMatch)' PROVE GridRegion(LoadMatch', l) = GridNow(l)'
    <2>1. SlotsOf(l)' \subseteq cells
        OBVIOUS
    <2>2. \A s \in cells : slots'[s].lineup = l => s \in SlotsOf(l)'
        BY DEF SlotsOf
    <2> HIDE DEF cells
    <2>3. ViewSlotsOf(LoadMatch', l) = SlotsOf(l)'
        BY <1>2, <2>1, <2>2 DEF ViewSlotsOf, SlotsOf
    <2>4. \A s \in SlotsOf(l)' :
            LoadMatch'.slots[s] = slots'[s] /\ LoadMatch'.items[s] = slotItems'[s]
        BY <1>2, <2>1
    <2>5. QED
        BY <2>3, <2>4 DEF GridRegion, GridNow, Visible
<1>4. QED
    BY <1>1, <1>3

LEMMA NowNext == Now' = EditorBody(LoadMatch')
BY DEF Now, EditorBody, EditorRegions, Title, Pips, Cards, AddForm, CardOf, CardHead, Relics, Grid,
       PipsRegion, CardsRegion, ResetAddForm, LineupCard, GridRegion, ViewSlotsOf,
       RequiredTotal, FirstFreePlacement

-----------------------------------------------------------------------------
(* What a write changes on the page.                                       *)

\* Two views with the same boards in the same places differ in what a region shows only
\* where they differ in the rows it is drawn from.
LEMMA BodyFrame ==
    ASSUME NEW v, NEW g, NEW x,
           g.match.source = v.match.source, x = Title => g.match = v.match,
           DOMAIN g.lineups = DOMAIN v.lineups,
           \A l \in DOMAIN v.lineups :
                /\ g.lineups[l].placement = v.lineups[l].placement
                /\ x = CardHead(l) => g.lineups[l] = v.lineups[l]
                /\ x = Relics(l) => g.relics[l] = v.relics[l]
                /\ x = Grid(l) => GridRegion(g, l) = GridRegion(v, l)
    PROVE  SameAt(EditorBody(g), EditorBody(v), x)
<1>1. DOMAIN EditorBody(g) = DOMAIN EditorBody(v)
    BY BodyShows DEF EditorRegions
<1>2. ASSUME x \in DOMAIN EditorBody(v) PROVE EditorBody(g)[x] = EditorBody(v)[x]
    <2>1. CASE x \in {Title, Pips, Cards, AddForm}
        <3>1. PipsRegion(g) = PipsRegion(v)
            BY DEF PipsRegion
        <3>2. CardsRegion(g) = CardsRegion(v)
            BY DEF CardsRegion
        <3>3. ResetAddForm(g) = ResetAddForm(v)
            <4>1. {g.lineups[l].placement : l \in DOMAIN g.lineups}
                    = {v.lineups[l].placement : l \in DOMAIN v.lineups}
                OBVIOUS
            <4>2. QED
                BY <4>1 DEF ResetAddForm
        <3>4. QED
            BY <2>1, <3>1, <3>2, <3>3, BodyShows
    <2>2. CASE \E l \in DOMAIN v.lineups : x \in {CardHead(l), Relics(l), Grid(l)}
        BY <2>2, BodyShows
    <2>3. QED
        BY <1>2, <2>1, <2>2, RegionKinds, BodyShows
<1>3. QED
    BY <1>1, <1>2 DEF SameAt

LEMMA RegionsDiffer ==
    ASSUME NEW k, NEW l
    PROVE  /\ Relics(k) # Grid(l) /\ CardHead(k) # Grid(l) /\ CardHead(k) # Relics(l)
           /\ Relics(k) = Relics(l) => k = l
           /\ Grid(k) = Grid(l) => k = l
           /\ CardHead(k) = CardHead(l) => k = l
           /\ {CardHead(l), Relics(l), Grid(l)} \cap {Title, Pips, Cards, AddForm} = {}
BY DEF CardHead, Relics, Grid, Title, Pips, Cards, AddForm

LEMMA CardsDrawn ==
    ASSUME NEW v, NEW l
    PROVE  /\ CardHead(l) \in DOMAIN EditorBody(v) <=> l \in DOMAIN v.lineups
           /\ Relics(l) \in DOMAIN EditorBody(v) <=> l \in DOMAIN v.lineups
           /\ Grid(l) \in DOMAIN EditorBody(v) <=> l \in DOMAIN v.lineups
<1>1. DOMAIN EditorBody(v) = EditorRegions(v)
    BY BodyShows
<1>2. l \in DOMAIN v.lineups => {CardHead(l), Relics(l), Grid(l)} \subseteq EditorRegions(v)
    BY DEF EditorRegions, CardOf
<1>3. ASSUME NEW x \in EditorRegions(v), x \in {CardHead(l), Relics(l), Grid(l)}
      PROVE  l \in DOMAIN v.lineups
    <2>1. x \notin {Title, Pips, Cards, AddForm}
        BY <1>3, RegionsDiffer
    <2>2. PICK k \in DOMAIN v.lineups : x \in {CardHead(k), Relics(k), Grid(k)}
        BY <2>1, RegionKinds
    <2>3. k = l
        BY <1>3, <2>2, RegionsDiffer
    <2>4. QED
        BY <2>3
<1>4. QED
    BY <1>1, <1>2, <1>3

\* The same for the tables before and after a step.
LEMMA TablesFrame ==
    ASSUME NEW x,
           matches'[TheMatch].source = matches[TheMatch].source,
           x = Title => matches'[TheMatch] = matches[TheMatch],
           LineupsOf(TheMatch)' = LineupsOf(TheMatch),
           \A l \in LineupsOf(TheMatch) :
                /\ lineups'[l].placement = lineups[l].placement
                /\ x = CardHead(l) => lineups'[l] = lineups[l]
                /\ x = Relics(l) => lineupRelics'[l] = lineupRelics[l]
                /\ x = Grid(l) => GridNow(l)' = GridNow(l)
    PROVE  SameAt(Now', Now, x)
<1>1. PICK g : g = LoadMatch'
    OBVIOUS
<1>2. /\ g.match.source = LoadMatch.match.source
      /\ x = Title => g.match = LoadMatch.match
    BY <1>1, LoadShows, LoadShowsNext
<1>3. DOMAIN g.lineups = LineupsOf(TheMatch) /\ DOMAIN LoadMatch.lineups = LineupsOf(TheMatch)
    BY <1>1, LoadShows, LoadShowsNext
<1>4. ASSUME NEW l \in LineupsOf(TheMatch)
      PROVE  /\ g.lineups[l] = lineups'[l] /\ LoadMatch.lineups[l] = lineups[l]
             /\ g.relics[l] = lineupRelics'[l] /\ LoadMatch.relics[l] = lineupRelics[l]
             /\ GridRegion(g, l) = GridNow(l)' /\ GridRegion(LoadMatch, l) = GridNow(l)
    BY <1>1, LoadShows, LoadShowsNext
<1>5. ASSUME NEW l \in DOMAIN LoadMatch.lineups
      PROVE  /\ g.lineups[l].placement = LoadMatch.lineups[l].placement
             /\ x = CardHead(l) => g.lineups[l] = LoadMatch.lineups[l]
             /\ x = Relics(l) => g.relics[l] = LoadMatch.relics[l]
             /\ x = Grid(l) => GridRegion(g, l) = GridRegion(LoadMatch, l)
    BY <1>3, <1>4, <1>5
<1>6. SameAt(EditorBody(g), EditorBody(LoadMatch), x)
    BY <1>2, <1>3, <1>5, BodyFrame
<1>7. QED
    BY <1>1, <1>6, NowNext DEF Now

LEMMA NowFrame ==
    ASSUME lineups' = lineups, NEW x,
           matches'[TheMatch].source = matches[TheMatch].source,
           x = Title => matches'[TheMatch] = matches[TheMatch],
           \A l \in LineupsOf(TheMatch) :
                /\ x = Relics(l) => lineupRelics'[l] = lineupRelics[l]
                /\ x = Grid(l) => GridNow(l)' = GridNow(l)
    PROVE  SameAt(Now', Now, x)
<1>1. LineupsOf(TheMatch)' = LineupsOf(TheMatch)
    BY DEF LineupsOf, TheMatch
<1>2. QED
    BY <1>1, TablesFrame

LEMMA GridKept ==
    ASSUME NEW l, Visible(l)' = Visible(l),
           \A s \in Visible(l) : slots'[s] = slots[s] /\ slotItems'[s] = slotItems[s]
    PROVE  GridNow(l)' = GridNow(l)
<1>1. GridNow(l)' = {[slot |-> s, row |-> slots'[s], items |-> slotItems'[s]] : s \in Visible(l)'}
    BY DEF GridNow
<1>2. QED
    BY <1>1 DEF GridNow

\* A write to the slots of one board.
LEMMA AddSlotFrame ==
    ASSUME Shape, NEW l, NEW hero, NEW stars, AddSlot(l, hero, stars), NEW k, k # l
    PROVE  GridNow(k)' = GridNow(k)
<1>1. PICK high \in 0..(MaxSlots - 1) :
        /\ IsHighest(high, DOMAIN slots)
        /\ slots' = Insert(slots, high + 1,
                           [lineup |-> l, hero |-> hero,
                            index |-> NextSlotIndex(IndexesOf(l)), stars |-> stars])
        /\ slotItems' = Insert(slotItems, high + 1, NoItems)
    BY DEF AddSlot
<1>2. high + 1 \notin DOMAIN slots
    BY <1>1, HighestIsFresh DEF Shape, TypeOK, IsTable, SlotIds
<1>3. DOMAIN slotItems = DOMAIN slots
    BY DEF Shape, OwnersExist
<1>4. Visible(k)' = Visible(k)
    BY <1>1, <1>2 DEF Visible, SlotsOf, Insert
<1>5. \A s \in Visible(k) : slots'[s] = slots[s] /\ slotItems'[s] = slotItems[s]
    BY <1>1, <1>2, <1>3 DEF Visible, SlotsOf, Insert
<1>6. QED
    BY <1>4, <1>5, GridKept

\* A write to one slot redraws a grid that shows the slot.
LEMMA CellFrame ==
    ASSUME Shape, NEW s, NEW item, NEW stars,
           \/ SetSlotStars(s, stars) \/ DeleteSlot(s)
           \/ AddSlotItem(s, item) \/ RemoveSlotItem(s, item),
           NEW k, s \notin Visible(k)
    PROVE  GridNow(k)' = GridNow(k)
<1>1. DOMAIN slotItems = DOMAIN slots
    BY DEF Shape, OwnersExist
<1>2. CASE SetSlotStars(s, stars)
    <2>1. /\ DOMAIN slots' = DOMAIN slots /\ slotItems' = slotItems
          /\ \A t \in DOMAIN slots \ {s} : slots'[t] = slots[t]
          /\ slots'[s].lineup = slots[s].lineup /\ slots'[s].index = slots[s].index
        BY <1>2 DEF SetSlotStars, SlotWritable, Shape, TypeOK, IsTable, SlotRow
    <2>2. Visible(k)' = Visible(k)
        BY <2>1 DEF Visible, SlotsOf
    <2>3. \A t \in Visible(k) : slots'[t] = slots[t] /\ slotItems'[t] = slotItems[t]
        BY <2>1 DEF Visible, SlotsOf
    <2>4. QED
        BY <2>2, <2>3, GridKept
<1>3. CASE DeleteSlot(s)
    <2>1. Visible(k)' = Visible(k)
        BY <1>3 DEF DeleteSlot, Without, Visible, SlotsOf
    <2>2. \A t \in Visible(k) : slots'[t] = slots[t] /\ slotItems'[t] = slotItems[t]
        BY <1>1, <1>3 DEF DeleteSlot, Without, Visible, SlotsOf
    <2>3. QED
        BY <2>1, <2>2, GridKept
<1>4. CASE AddSlotItem(s, item) \/ RemoveSlotItem(s, item)
    <2>1. Visible(k)' = Visible(k)
        BY <1>4 DEF AddSlotItem, RemoveSlotItem, Visible, SlotsOf
    <2>2. \A t \in Visible(k) : slots'[t] = slots[t] /\ slotItems'[t] = slotItems[t]
        BY <1>1, <1>4 DEF AddSlotItem, RemoveSlotItem, Visible, SlotsOf
    <2>3. QED
        BY <2>1, <2>2, GridKept
<1>5. QED
    BY <1>2, <1>3, <1>4

\* What a write may change of the tables the page is drawn from.
RegionalKinds == OnCell \cup {"addSlot", "addRelic", "removeRelic"}

LEMMA RegionalWrite ==
    ASSUME NEW r \in Requests, r.kind \in RegionalKinds, Write(r)
    PROVE  /\ matches' = matches /\ lineups' = lineups
           /\ r.kind = "addSlot" => AddSlot(r.lineup, r.hero, r.stars) /\ lineupRelics' = lineupRelics
           /\ r.kind \in OnCell =>
                /\ \/ SetSlotStars(r.slot, r.stars) \/ DeleteSlot(r.slot)
                   \/ AddSlotItem(r.slot, r.item) \/ RemoveSlotItem(r.slot, r.item)
                /\ lineupRelics' = lineupRelics
           /\ r.kind \in {"addRelic", "removeRelic"} =>
                /\ slots' = slots /\ slotItems' = slotItems
                /\ \A l \in DOMAIN lineupRelics \ {r.lineup} : lineupRelics'[l] = lineupRelics[l]
<1>1. CASE r.kind = "addSlot"
    BY <1>1 DEF Write, AddSlot, OnCell
<1>2. CASE r.kind \in OnCell
    BY <1>2 DEF Write, SetSlotStars, DeleteSlot, AddSlotItem, RemoveSlotItem, OnCell
<1>3. CASE r.kind \in {"addRelic", "removeRelic"}
    BY <1>3 DEF Write, AddLineupRelic, RemoveLineupRelic, OnCell
<1>4. QED
    BY <1>1, <1>2, <1>3 DEF RegionalKinds

LEMMA OtherWriteKeepsMatch ==
    ASSUME NEW r \in Requests, r.kind \notin {"createMatch", "matchDetail", "finalize"}, Write(r)
    PROVE  matches' = matches
<1>1. CASE r.kind \in RegionalKinds
    BY <1>1, RegionalWrite
<1>2. CASE r.kind \in {"updateLineup", "deleteLineup", "addLineup", "copyLineup"}
    BY <1>2 DEF Write, UpdateLineup, DeleteLineup, AddLineup, CopyLineup
<1>3. QED
    BY <1>1, <1>2, RequestShape DEF OnCell, OnBoard, RegionalKinds

LEMMA ScopeIs ==
    ASSUME NEW r
    PROVE  /\ r.kind = "addSlot" => Scope(r) = {Grid(r.lineup)}
           /\ r.kind \in OnCell => Scope(r) = {Grid(l) : l \in LineupIds}
           /\ r.kind \in {"addRelic", "removeRelic"} => Scope(r) = {Relics(r.lineup)}
           /\ r.kind = "finalize" => Scope(r) = Everything
           /\ r.kind \notin RegionalKinds \cup {"finalize"} => Scope(r) = AllRegions
<1>1. r.kind = "addSlot" => Scope(r) = {Grid(r.lineup)}
    BY DEF Scope, OnCell
<1>2. r.kind \in OnCell => Scope(r) = {Grid(l) : l \in LineupIds}
    BY DEF Scope, OnCell
<1>3. r.kind \in {"addRelic", "removeRelic"} => Scope(r) = {Relics(r.lineup)}
    BY DEF Scope, OnCell
<1>4. r.kind = "finalize" => Scope(r) = Everything
    BY DEF Scope, OnCell, Everything
<1>5. r.kind \notin RegionalKinds \cup {"finalize"} => Scope(r) = AllRegions
    BY DEF Scope, OnCell, RegionalKinds
<1>6. QED
    BY <1>1, <1>2, <1>3, <1>4, <1>5

\* A regional write redraws nothing outside the regions its request is about.
LEMMA RegionalFrame ==
    ASSUME Shape, NEW r \in Requests, r.kind \in RegionalKinds, Write(r), NEW x, x \notin Scope(r)
    PROVE  SameAt(Now', Now, x)
<1>1. \A l \in LineupsOf(TheMatch) : l \in DOMAIN lineupRelics /\ l \in LineupIds
    BY DEF LineupsOf, Shape, OwnersExist, TypeOK, IsTable
<1>2. CASE r.kind = "addSlot"
    <2>1. x # Grid(r.lineup)
        BY <1>2, ScopeIs
    <2>2. \A l : x = Grid(l) => GridNow(l)' = GridNow(l)
        BY <1>2, <2>1, RegionalWrite, AddSlotFrame, RegionsDiffer
    <2>3. QED
        BY <1>2, <2>2, RegionalWrite, NowFrame
<1>3. CASE r.kind \in OnCell
    <2>1. \A l \in LineupIds : x # Grid(l)
        BY <1>3, ScopeIs
    <2>2. QED
        BY <1>1, <1>3, <2>1, RegionalWrite, NowFrame
<1>4. CASE r.kind \in {"addRelic", "removeRelic"}
    <2>1. x # Relics(r.lineup)
        BY <1>4, ScopeIs
    <2>2. \A l : GridNow(l)' = GridNow(l)
        BY <1>4, RegionalWrite DEF GridNow, Visible, SlotsOf
    <2>3. \A l \in LineupsOf(TheMatch) : x = Relics(l) => lineupRelics'[l] = lineupRelics[l]
        BY <1>1, <1>4, <2>1, RegionalWrite
    <2>4. QED
        BY <1>4, <2>2, <2>3, RegionalWrite, NowFrame
<1>5. QED
    BY <1>2, <1>3, <1>4 DEF RegionalKinds

LEMMA WriteFrame ==
    ASSUME Shape, NEW r \in Requests, r.kind \notin {"createMatch", "matchDetail"}, Write(r),
           NEW x \in Everything \ Scope(r)
    PROVE  SameAt(Now', Now, x)
<1>1. CASE r.kind \in RegionalKinds
    BY <1>1, RegionalFrame
<1>2. CASE r.kind = "finalize"
    BY <1>2, ScopeIs
<1>3. CASE r.kind \notin RegionalKinds \cup {"finalize"}
    <2>1. x = Title
        BY <1>3, ScopeIs DEF Everything
    <2>2. matches' = matches
        BY <1>3, OtherWriteKeepsMatch
    <2>3. /\ EditorBody(LoadMatch)[Title] = matches[TheMatch]
          /\ EditorBody(LoadMatch')[Title] = matches[TheMatch]
        BY <2>2, BodyShows, LoadShows, LoadShowsNext
    <2>4. Title \in DOMAIN EditorBody(LoadMatch) /\ Title \in DOMAIN EditorBody(LoadMatch')
        BY EditorHasFrame DEF FixedRegions
    <2>5. QED
        BY <2>1, <2>3, <2>4, NowNext DEF Now, SameAt
<1>4. QED
    BY <1>1, <1>2, <1>3

\* A finalize moves the marker and nothing else.
LEMMA FinalizeFrame ==
    ASSUME Shape, NEW now, FinalizeMatch(TheMatch, now), NEW x, x # Title
    PROVE  SameAt(Now', Now, x)
<1>1. /\ lineups' = lineups
      /\ matches'[TheMatch].source = matches[TheMatch].source
    BY DEF FinalizeMatch, MatchWritable, Shape, TypeOK, IsTable, MatchRow
<1>2. \A l : GridNow(l)' = GridNow(l)
    BY DEF FinalizeMatch, GridNow, Visible, SlotsOf
<1>3. lineupRelics' = lineupRelics
    BY DEF FinalizeMatch
<1>4. QED
    BY <1>1, <1>2, <1>3, NowFrame

-----------------------------------------------------------------------------
(* The answer to a write draws what the write changed.                     *)

WillDraw(cover, x) == x \in cover /\ (Cards \in cover \/ x \in DOMAIN Now \cap DOMAIN Now')

LEMMA RegionalDomain ==
    ASSUME NEW r \in Requests, r.kind \in RegionalKinds, Write(r)
    PROVE  DOMAIN Now' = DOMAIN Now
<1>1. lineups' = lineups
    BY RegionalWrite
<1>2. LineupsOf(TheMatch)' = LineupsOf(TheMatch)
    BY <1>1 DEF LineupsOf, TheMatch
<1>3. PICK g : g = LoadMatch'
    OBVIOUS
<1>4. DOMAIN g.lineups = DOMAIN LoadMatch.lineups
    BY <1>2, <1>3, LoadShows, LoadShowsNext
<1>5. DOMAIN EditorBody(g) = DOMAIN EditorBody(LoadMatch)
    BY <1>4, BodyShows DEF EditorRegions
<1>6. QED
    BY <1>3, <1>5, NowNext DEF Now

\* A region on neither page is the same on both.
LEMMA NotDrawn ==
    ASSUME NEW f, NEW g, NEW x, DOMAIN f = DOMAIN g, ~SameAt(f, g, x)
    PROVE  x \in DOMAIN f \cap DOMAIN g
BY DEF SameAt

LEMMA WrittenIs ==
    ASSUME NEW r, NEW v, NEW now
    PROVE  /\ r.kind = "addSlot" => Written(r, v, now) = {Grid(r.lineup)}
           /\ r.kind \in OnCell => Written(r, v, now) = {Grid(v.slots[r.slot].lineup)}
           /\ r.kind \in {"addRelic", "removeRelic"} => Written(r, v, now) = {Relics(r.lineup)}
           /\ r.kind \in {"addLineup", "copyLineup", "deleteLineup"} =>
                Written(r, v, now) = AllRegions
           /\ r.kind = "updateLineup" =>
                Written(r, v, now) =
                    IF r.placement = v.lineups[r.lineup].placement /\ r.lineup \in DOMAIN now.lineups
                    THEN CardOf(r.lineup) \cup {Pips} ELSE AllRegions
<1>1. r.kind = "addSlot" => Written(r, v, now) = {Grid(r.lineup)}
    BY DEF Written, OwnerIn, OnCell
<1>2. r.kind \in OnCell => Written(r, v, now) = {Grid(v.slots[r.slot].lineup)}
    BY DEF Written, OwnerIn, OnCell
<1>3. r.kind \in {"addRelic", "removeRelic"} => Written(r, v, now) = {Relics(r.lineup)}
    BY DEF Written
<1>4. r.kind \in {"addLineup", "copyLineup", "deleteLineup"} => Written(r, v, now) = AllRegions
    BY DEF Written
<1>5. r.kind = "updateLineup" =>
                Written(r, v, now) =
                    IF r.placement = v.lineups[r.lineup].placement /\ r.lineup \in DOMAIN now.lineups
                    THEN CardOf(r.lineup) \cup {Pips} ELSE AllRegions
    BY DEF Written
<1>6. QED
    BY <1>1, <1>2, <1>3, <1>4, <1>5

\* A regional write draws the region it changed: the view of the handler has the changed
\* slot where the tables have it, as far as the grid shows it.
LEMMA RegionalDrawn ==
    ASSUME Shape, NEW r \in Requests, r.kind \in RegionalKinds, Write(r),
           NEW v, NEW x \in Scope(r), SameAt(EditorBody(v), Now, x), ~SameAt(Now', Now, x), NEW now
    PROVE  WillDraw(Written(r, v, now), x)
<1>1. x \in DOMAIN Now \cap DOMAIN Now'
    BY RegionalDomain, NotDrawn
<1>2. CASE r.kind \notin OnCell
    BY <1>1, <1>2, ScopeIs, WrittenIs DEF WillDraw, RegionalKinds
<1>3. CASE r.kind \in OnCell
    <2>1. PICK l \in LineupIds : x = Grid(l)
        BY <1>3, ScopeIs
    <2>2. l \in LineupsOf(TheMatch)
        BY <1>1, <2>1, CardsDrawn, LoadShows DEF Now
    <2>3. GridNow(l)' # GridNow(l)
        <3>1. \A k : x # Relics(k) /\ (x = Grid(k) => k = l)
            BY <2>1, RegionsDiffer
        <3>2. x # Title
            BY <2>1, RegionsDiffer
        <3>3. QED
            BY <1>3, <3>1, <3>2, RegionalWrite, NowFrame
    <2>4. r.slot \in Visible(l)
        BY <1>3, <2>3, RegionalWrite, CellFrame
    <2>5. [slot |-> r.slot, row |-> slots[r.slot], items |-> slotItems[r.slot]] \in GridNow(l)
        BY <2>4 DEF GridNow
    <2>6. Now[x] = GridNow(l)
        BY <2>1, <2>2, BodyShows, LoadShows DEF Now
    <2>7. x \in DOMAIN EditorBody(v) /\ EditorBody(v)[x] = GridNow(l)
        BY <1>1, <2>6 DEF SameAt
    <2>8. l \in DOMAIN v.lineups
        BY <2>1, <2>7, CardsDrawn
    <2>9. EditorBody(v)[x] = GridRegion(v, l)
        BY <2>1, <2>8, BodyShows
    <2>10. r.slot \in ViewSlotsOf(v, l)
        <3>1. PICK s \in ViewSlotsOf(v, l) :
                [slot |-> r.slot, row |-> slots[r.slot], items |-> slotItems[r.slot]]
                    = [slot |-> s, row |-> v.slots[s], items |-> v.items[s]]
            BY <2>5, <2>7, <2>9 DEF GridRegion
        <3>2. QED
            BY <3>1
    <2>11. v.slots[r.slot].lineup = l
        BY <2>10 DEF ViewSlotsOf
    <2>12. QED
        BY <1>1, <1>3, <2>1, <2>11, WrittenIs DEF WillDraw
<1>4. QED
    BY <1>2, <1>3

\* An edit that keeps its placement changes one card; any other redraws them all.
LEMMA UpdateDrawn ==
    ASSUME Shape, NEW r \in Requests, r.kind = "updateLineup", Write(r), NEW v,
           v.lineups = LoadMatch.lineups, NEW x \in AllRegions, ~SameAt(Now', Now, x)
    PROVE  WillDraw(Written(r, v, LoadMatch'), x)
<1> DEFINE l == r.lineup
<1>1. UpdateLineup(l, r.pro, r.label, r.placement, r.result)
    BY DEF Write
<1>2. /\ l \in DOMAIN lineups /\ DOMAIN lineups' = DOMAIN lineups
      /\ lineups'[l].placement = r.placement /\ lineups'[l].match = lineups[l].match
      /\ \A k \in DOMAIN lineups \ {l} : lineups'[k] = lineups[k]
      /\ UNCHANGED <<matches, slots, slotItems, lineupRelics>>
    BY <1>1 DEF UpdateLineup, LineupWritable, Shape, TypeOK, IsTable, LineupRow
<1>3. LineupsOf(TheMatch)' = LineupsOf(TheMatch)
    BY <1>2 DEF LineupsOf, TheMatch
<1>4. Cards \in AllRegions
    BY DEF AllRegions
<1>5. CASE Written(r, v, LoadMatch') = AllRegions
    BY <1>4, <1>5 DEF WillDraw
<1>6. CASE Written(r, v, LoadMatch') # AllRegions
    <2>1. /\ Written(r, v, LoadMatch') = CardOf(l) \cup {Pips}
          /\ r.placement = v.lineups[l].placement
          /\ l \in DOMAIN LoadMatch'.lineups
        BY <1>6, WrittenIs
    <2>2. l \in LineupsOf(TheMatch)
        BY <1>3, <2>1, LoadShowsNext
    <2>3. lineups[l].placement = r.placement
        BY <2>1, <2>2, LoadShows
    <2>4. \A k : GridNow(k)' = GridNow(k)
        BY <1>2 DEF GridNow, Visible, SlotsOf
    <2>5. x = CardHead(l)
        <3>1. SUFFICES ASSUME x # CardHead(l) PROVE FALSE
            OBVIOUS
        <3>2. \A k \in LineupsOf(TheMatch) :
                /\ lineups'[k].placement = lineups[k].placement
                /\ x = CardHead(k) => lineups'[k] = lineups[k]
            BY <1>2, <2>3, <3>1 DEF LineupsOf
        <3>3. QED
            BY <1>2, <1>3, <2>4, <3>2, TablesFrame
    <2>6. x \in DOMAIN Now
        BY <2>2, <2>5, CardsDrawn, LoadShows DEF Now
    <2>7. x \in DOMAIN Now'
        BY <2>1, <2>5, CardsDrawn, NowNext
    <2>8. QED
        BY <2>1, <2>5, <2>6, <2>7 DEF WillDraw, CardOf
<1>7. QED
    BY <1>5, <1>6

\* Whatever a write changes in the regions of its request, its answer draws.
LEMMA WriteDrawn ==
    ASSUME Shape, NEW r \in Requests, r.kind \notin {"createMatch", "matchDetail", "finalize"},
           Write(r), NEW v, NEW x \in Scope(r), ~SameAt(Now', Now, x),
           r.kind # "deleteLineup" =>
                /\ SameAt(EditorBody(v), Now, x)
                /\ r.kind = "updateLineup" => v.lineups = LoadMatch.lineups
    PROVE  WillDraw(Written(r, v, LoadMatch'), x)
<1>1. CASE r.kind \in RegionalKinds
    BY <1>1, RegionalDrawn DEF RegionalKinds, OnCell
<1>2. CASE r.kind = "updateLineup"
    BY <1>2, ScopeIs, UpdateDrawn DEF RegionalKinds, OnCell
<1>3. CASE r.kind \in {"addLineup", "copyLineup", "deleteLineup"}
    <2>1. Written(r, v, LoadMatch') = AllRegions /\ Scope(r) = AllRegions
        BY <1>3, ScopeIs, WrittenIs DEF RegionalKinds, OnCell
    <2>2. QED
        BY <2>1 DEF WillDraw, AllRegions
<1>4. QED
    BY <1>1, <1>2, <1>3, RequestShape DEF OnCell, OnBoard, RegionalKinds

-----------------------------------------------------------------------------
(* What the answers draw.                                                  *)

LEMMA BodyRegions ==
    ASSUME NEW v, DOMAIN v.lineups \subseteq LineupIds
    PROVE  /\ DOMAIN EditorBody(v) \subseteq Everything
           /\ FixedRegions \subseteq DOMAIN EditorBody(v)
<1>1. DOMAIN EditorBody(v) = EditorRegions(v)
    BY BodyShows
<1>2. EditorRegions(v) \subseteq Everything
    BY DEF EditorRegions, Everything, AllRegions
<1>3. QED
    BY <1>1, <1>2, EditorHasFrame

LEMMA LoadTyped ==
    ASSUME Shape
    PROVE  DOMAIN LoadMatch.lineups \subseteq LineupIds
BY LoadShows DEF LineupsOf, Shape, TypeOK, IsTable

LEMMA ScopeTyped ==
    ASSUME NEW r \in Requests
    PROVE  Scope(r) \subseteq Everything
<1>1. r.kind \in {"addSlot", "addRelic", "removeRelic"} => r.lineup \in LineupIds
    BY RequestShape DEF OnBoard
<1>2. \A l \in LineupIds : {Relics(l), Grid(l)} \subseteq AllRegions
    BY DEF AllRegions, CardOf
<1>3. QED
    BY <1>1, <1>2, ScopeIs DEF Everything, RegionalKinds

LEMMA CardsInScope ==
    ASSUME NEW r, Cards \in Scope(r)
    PROVE  AllRegions \subseteq Scope(r)
<1>1. \A l : Cards # Grid(l) /\ Cards # Relics(l)
    BY DEF Cards, Grid, Relics
<1>2. QED
    BY <1>1, ScopeIs DEF Everything, RegionalKinds

LEMMA OnlyShows ==
    ASSUME NEW regions, NEW f
    PROVE  /\ DOMAIN Only(regions, f) = regions \cap DOMAIN f
           /\ \A x \in DOMAIN Only(regions, f) : Only(regions, f)[x] = f[x]
BY DEF Only

\* A refused request is answered from its own view, or with its form as it was typed.
LEMMA RefusedIs ==
    ASSUME NEW r \in Requests, NEW v
    PROVE  \/ Refused(r, v) = TypedForm /\ r.kind \in {"addLineup", "copyLineup"}
           \/ Refused(r, v) = << >>
           \/ \E regions :
                /\ Refused(r, v) = Only(regions, EditorBody(v))
                /\ Cards \notin regions
                /\ DOMAIN v.lineups \subseteq LineupIds =>
                        regions \cap DOMAIN EditorBody(v) \subseteq Scope(r)
<1>1. CASE r.kind = "copyLineup" /\ LineupInView(v, r.lineup)
    <2>1. Refused(r, v) = Only(CardOf(r.lineup), EditorBody(v))
        BY <1>1 DEF Refused
    <2>2. r.lineup \in LineupIds
        BY <1>1, RequestShape DEF OnBoard
    <2>3. CardOf(r.lineup) \subseteq Scope(r)
        BY <1>1, <2>2, ScopeIs DEF AllRegions, RegionalKinds, OnCell
    <2>4. Cards \notin CardOf(r.lineup)
        BY RegionsDiffer DEF CardOf
    <2>5. QED
        BY <2>1, <2>3, <2>4
<1>2. CASE r.kind = "addLineup" \/ (r.kind = "copyLineup" /\ ~LineupInView(v, r.lineup))
    BY <1>2 DEF Refused
<1>3. CASE r.kind \in {"saveStars", "attachItem"} /\ SlotInView(v, r.slot)
    <2>1. Refused(r, v) = Only({Grid(OwnerIn(v, r))}, EditorBody(v))
        BY <1>3 DEF Refused
    <2>2. ASSUME DOMAIN v.lineups \subseteq LineupIds, Grid(OwnerIn(v, r)) \in DOMAIN EditorBody(v)
          PROVE  Grid(OwnerIn(v, r)) \in Scope(r)
        BY <1>3, <2>2, CardsDrawn, ScopeIs DEF OnCell
    <2>3. Cards \notin {Grid(OwnerIn(v, r))}
        BY RegionsDiffer
    <2>4. QED
        BY <2>1, <2>2, <2>3
<1>4. CASE r.kind = "addRelic" /\ LineupInView(v, r.lineup)
    <2>1. Refused(r, v) = Only({Relics(r.lineup)}, EditorBody(v))
        BY <1>4 DEF Refused
    <2>2. Relics(r.lineup) \in Scope(r)
        BY <1>4, ScopeIs
    <2>3. Cards \notin {Relics(r.lineup)}
        BY RegionsDiffer
    <2>4. QED
        BY <2>1, <2>2, <2>3
<1>5. CASE r.kind \notin {"copyLineup", "addLineup", "saveStars", "attachItem", "addRelic"}
    BY <1>5 DEF Refused
<1>6. CASE r.kind \in {"saveStars", "attachItem"} /\ ~SlotInView(v, r.slot)
    BY <1>6 DEF Refused
<1>7. CASE r.kind = "addRelic" /\ ~LineupInView(v, r.lineup)
    BY <1>7 DEF Refused
<1>8. QED
    BY <1>1, <1>2, <1>3, <1>4, <1>5, <1>6, <1>7

\* Its fragments are true wherever the view is.
LEMMA RefusedTrue ==
    ASSUME Shape, NEW r \in Requests, NEW v, DOMAIN v.lineups \subseteq LineupIds
    PROVE  /\ DOMAIN Refused(r, v) \subseteq Scope(r)
           /\ Cards \notin DOMAIN Refused(r, v)
           /\ \A x \in DOMAIN Refused(r, v) :
                SameAt(EditorBody(v), Now, x) => x \in DOMAIN Now /\ ShowsNow(Refused(r, v), x)
<1>1. CASE Refused(r, v) = TypedForm /\ r.kind \in {"addLineup", "copyLineup"}
    <2>1. DOMAIN TypedForm = {AddForm} /\ TypedForm[AddForm] = Typed
        BY DEF TypedForm
    <2>2. AddForm \in Scope(r) /\ AddForm # Cards
        BY <1>1, ScopeIs DEF AllRegions, RegionalKinds, OnCell, AddForm, Cards
    <2>3. AddForm \in DOMAIN Now
        BY EditorHasFrame DEF Now, FixedRegions
    <2>4. QED
        BY <1>1, <2>1, <2>2, <2>3 DEF ShowsNow
<1>2. CASE Refused(r, v) = << >>
    BY <1>2
<1>3. ASSUME NEW regions,
             Refused(r, v) = Only(regions, EditorBody(v)),
             Cards \notin regions,
             regions \cap DOMAIN EditorBody(v) \subseteq Scope(r)
      PROVE  /\ DOMAIN Refused(r, v) \subseteq Scope(r)
             /\ Cards \notin DOMAIN Refused(r, v)
             /\ \A x \in DOMAIN Refused(r, v) :
                SameAt(EditorBody(v), Now, x) => x \in DOMAIN Now /\ ShowsNow(Refused(r, v), x)
    <2>1. DOMAIN Refused(r, v) = regions \cap DOMAIN EditorBody(v)
        BY <1>3, OnlyShows
    <2>2. ASSUME NEW x \in DOMAIN Refused(r, v), SameAt(EditorBody(v), Now, x)
          PROVE  x \in DOMAIN Now /\ ShowsNow(Refused(r, v), x)
        <3>1. Refused(r, v)[x] = EditorBody(v)[x]
            BY <1>3, <2>2 DEF Only
        <3>2. QED
            BY <2>1, <2>2, <3>1 DEF SameAt, ShowsNow
    <2>3. QED
        BY <1>3, <2>1, <2>2
<1>4. QED
    BY <1>1, <1>2, <1>3, RefusedIs

\* A redrawn answer stays inside the regions of its request, and draws them all when it
\* draws the cards.
LEMMA WrittenScope ==
    ASSUME NEW r \in Requests, r.kind \notin {"createMatch", "matchDetail", "finalize"},
           NEW v, NEW now, DOMAIN now.lineups \subseteq LineupIds
    PROVE  /\ Written(r, v, now) \cap DOMAIN EditorBody(now) \subseteq Scope(r)
           /\ Cards \in Written(r, v, now) =>
                Written(r, v, now) = AllRegions /\ Scope(r) = AllRegions
<1>1. \A l : Cards # Grid(l) /\ Cards # Relics(l) /\ Cards # CardHead(l)
    BY DEF Cards, Grid, Relics, CardHead
<1>2. CASE r.kind \in {"addSlot", "addRelic", "removeRelic"}
    BY <1>1, <1>2, ScopeIs, WrittenIs
<1>3. CASE r.kind \in OnCell
    BY <1>1, <1>3, ScopeIs, WrittenIs, CardsDrawn
<1>4. CASE r.kind \in {"addLineup", "copyLineup", "deleteLineup"}
    BY <1>4, ScopeIs, WrittenIs DEF RegionalKinds, OnCell
<1>5. CASE r.kind = "updateLineup"
    <2>1. Scope(r) = AllRegions
        BY <1>5, ScopeIs DEF RegionalKinds, OnCell
    <2>2. r.lineup \in LineupIds
        BY <1>5, RequestShape DEF OnBoard
    <2>3. CardOf(r.lineup) \cup {Pips} \subseteq AllRegions
        BY <2>2 DEF AllRegions
    <2>4. Cards \notin CardOf(r.lineup) \cup {Pips}
        BY <1>1 DEF CardOf, Cards, Pips
    <2>5. QED
        BY <1>5, <2>1, <2>3, <2>4, WrittenIs
<1>6. QED
    BY <1>2, <1>3, <1>4, <1>5, RequestShape DEF OnCell, OnBoard

-----------------------------------------------------------------------------
(* What a step of one request leaves to the others.                        *)

Sends(w) == \E r \in Requests : Send(w, r)

LEMMA OthersKept ==
    ASSUME OnePage, NEW w \in Workers, HandlerStep(w) \/ Sends(w), NEW u \in Workers \ {w}
    PROVE  pc'[u] = pc[u] /\ req'[u] = req[u] /\ view'[u] = view[u] /\ answer'[u] = answer[u]
<1>1. CASE HandlerStep(w)
    BY <1>1, OtherHandlers
<1>2. CASE Sends(w)
    BY <1>2 DEF Sends, Send, Goto, OnePage
<1>3. QED
    BY <1>1, <1>2

LEMMA BusyScope ==
    ASSUME OnePage, NEW w \in Workers, Busy(w)
    PROVE  Scope(req[w]) \subseteq Everything
BY ScopeTyped DEF OnePage, Busy

\* Regions another request has to itself are out of reach.
LEMMA AloneApart ==
    ASSUME Marked, NEW u \in Workers, NEW w \in Workers, u # w, Busy(w), NEW x, Alone(u, x)
    PROVE  x \notin Scope(req[w])
BY DEF Marked, Alone

LEMMA DrawnInScope ==
    ASSUME PageInv, NEW w \in Workers, pc[w] = "answer"
    PROVE  Drawn(w) \subseteq Scope(req[w])
BY DEF PageInv, AnswerTrue, Drawn

\* How the marks move.
LEMMA MarksKept ==
    ASSUME NEW w \in Workers,
           Check(w) \/ Apply(w) \/ Reject(w) \/ Banner(w) \/ Redraw(w)
    PROVE  disturbed' = disturbed /\ contested' = contested
BY DEF Check, Apply, Reject, Banner, Redraw, Answer, tab

\* No step gives a request regions to itself that it had to share.
LEMMA AloneKept ==
    ASSUME OnePage, PageInv, NEW w \in Workers, HandlerStep(w) \/ Sends(w),
           NEW u \in Workers \ {w}, NEW x, Alone(u, x)'
    PROVE  Alone(u, x)
<1>1. /\ Busy(u) /\ x \in Scope(req[u]) /\ x \in Everything
      /\ x \notin disturbed' \/ u \notin contested'
    BY OthersKept, BusyScope DEF Alone, Busy
<1>2. ASSUME Busy(w), x \in Scope(req[w]) PROVE u \in contested /\ w \in contested
    BY <1>1, <1>2 DEF PageInv, Marked
<1>3. CASE Check(w) \/ Apply(w) \/ Reject(w) \/ Banner(w) \/ Redraw(w)
    BY <1>1, <1>3, MarksKept DEF Alone
<1>4. CASE Sends(w)
    <2>1. disturbed \subseteq disturbed' /\ contested \subseteq contested'
        BY <1>4 DEF Sends, Send
    <2>2. QED
        BY <1>1, <2>1 DEF Alone
<1>5. CASE Arrive(w)
    <2>1. /\ contested' = contested \ {w} /\ pc[w] = "answer"
          /\ disturbed' = IF w \in contested THEN disturbed ELSE disturbed \ Drawn(w)
        BY <1>5 DEF Arrive, Quit
    <2>2. x \in Drawn(w) => w \in contested
        BY <1>2, <2>1, DrawnInScope DEF Busy
    <2>3. QED
        BY <1>1, <2>1, <2>2 DEF Alone
<1>6. CASE Lose(w)
    <2>1. disturbed \subseteq disturbed' /\ contested' = contested \ {w}
        BY <1>6 DEF Lose, Quit
    <2>2. QED
        BY <1>1, <2>1 DEF Alone
<1>7. CASE Land(w)
    <2>1. /\ contested' = contested \ {w} /\ pc[w] = "answer" /\ req[w].kind = "finalize"
          /\ disturbed' = IF w \in contested THEN Scope(req[w]) ELSE {}
        BY <1>7 DEF Land
    <2>2. x \in Scope(req[w]) /\ w \in contested
        BY <1>1, <1>2, <2>1, ScopeIs DEF Busy
    <2>3. QED
        BY <1>1, <2>1, <2>2 DEF Alone
<1>8. QED
    BY <1>3, <1>4, <1>5, <1>6, <1>7 DEF HandlerStep

LEMMA MarkedHandler ==
    ASSUME OnePage, PageInv, NEW w \in Workers, HandlerStep(w)
    PROVE  Marked'
<1>1. SUFFICES ASSUME NEW u \in Workers, NEW v \in Workers,
                      NEW x \in Scope(req'[u]) \cap Scope(req'[v]),
                      u # v, pc'[u] # "idle", pc'[v] # "idle"
               PROVE  x \in disturbed' /\ u \in contested'
    BY DEF Marked, Busy
<1>2. /\ Busy(u) /\ Busy(v) /\ req'[u] = req[u] /\ req'[v] = req[v]
      /\ pc'[u] # "idle" /\ pc'[v] # "idle"
    BY <1>1, HandlerKeepsPlace DEF Busy
<1>3. x \in disturbed /\ u \in contested /\ v \in contested /\ x \in Everything
    BY <1>1, <1>2, BusyScope DEF PageInv, Marked
<1>4. CASE Check(w) \/ Apply(w) \/ Reject(w) \/ Banner(w) \/ Redraw(w)
    BY <1>3, <1>4, MarksKept
<1>5. ASSUME Arrive(w) \/ Lose(w) \/ Land(w)
      PROVE  pc'[w] = "idle" /\ contested' = contested \ {w} /\ Busy(w)
    BY <1>5 DEF Arrive, Lose, Land, Quit, Finish, Goto, OnePage, Busy
<1>6. ASSUME Arrive(w) \/ Lose(w) \/ Land(w), x \in Scope(req[w])
      PROVE  w \in contested
    BY <1>1, <1>2, <1>5, <1>6 DEF PageInv, Marked
<1>7. CASE Arrive(w)
    <2>1. /\ pc[w] = "answer"
          /\ disturbed' = IF w \in contested THEN disturbed ELSE disturbed \ Drawn(w)
        BY <1>7 DEF Arrive
    <2>2. x \in Drawn(w) => w \in contested
        BY <1>6, <1>7, <2>1, DrawnInScope
    <2>3. QED
        BY <1>1, <1>3, <1>5, <1>7, <2>1, <2>2
<1>8. CASE Lose(w)
    BY <1>1, <1>3, <1>5, <1>8 DEF Lose
<1>9. CASE Land(w)
    <2>1. /\ req[w].kind = "finalize"
          /\ disturbed' = IF w \in contested THEN Scope(req[w]) ELSE {}
        BY <1>9 DEF Land
    <2>2. x \in Scope(req[w])
        BY <1>3, <2>1, ScopeIs
    <2>3. QED
        BY <1>1, <1>3, <1>5, <1>6, <1>9, <2>1, <2>2
<1>10. QED
    BY <1>4, <1>7, <1>8, <1>9 DEF HandlerStep

LEMMA MarkedSend ==
    ASSUME OnePage, PageInv, NEW w \in Workers, NEW r \in Requests, Send(w, r)
    PROVE  Marked'
<1> DEFINE rivals == {v \in Running : Scope(r) \cap Scope(req[v]) # {}}
<1>1. /\ contested' = contested \cup rivals \cup {u \in {w} : rivals # {}}
      /\ disturbed' = disturbed \cup UNION {Scope(r) \cap Scope(req[v]) : v \in rivals}
      /\ pc[w] = "idle" /\ req'[w] = r
    BY DEF Send, OnePage
<1>2. SUFFICES ASSUME NEW u \in Workers, NEW v \in Workers,
                      NEW x \in Scope(req'[u]) \cap Scope(req'[v]),
                      u # v, pc'[u] # "idle", pc'[v] # "idle"
               PROVE  x \in disturbed' /\ u \in contested'
    BY DEF Marked, Busy
<1>3. \A z \in Workers \ {w} : pc'[z] = pc[z] /\ req'[z] = req[z]
    BY OthersKept DEF Sends
<1>4. ASSUME NEW z \in Workers \ {w}, pc'[z] # "idle", x \in Scope(r) \cap Scope(req[z])
      PROVE  z \in rivals /\ x \in disturbed' /\ z \in contested' /\ w \in contested'
    <2>1. z \in rivals
        BY <1>3, <1>4 DEF Running
    <2>2. QED
        BY <1>1, <1>4, <2>1
<1>5. CASE u # w /\ v # w
    <2>1. x \in disturbed /\ u \in contested
        BY <1>2, <1>3, <1>5 DEF PageInv, Marked, Busy
    <2>2. QED
        BY <1>1, <2>1
<1>6. CASE u = w \/ v = w
    BY <1>1, <1>2, <1>3, <1>4, <1>6
<1>7. QED
    BY <1>5, <1>6

LEMMA NowStill ==
    ASSUME store' = store
    PROVE  LoadMatch' = LoadMatch /\ Now' = Now
<1>1. LoadMatch' = LoadMatch
    BY DEF store, LoadMatch, LineupsOf, SlotsOf, TheMatch
<1>2. QED
    BY <1>1, NowNext DEF Now

LEMMA OnlyApplyWrites ==
    ASSUME NEW w \in Workers, HandlerStep(w) \/ Sends(w), ~Apply(w)
    PROVE  store' = store
BY DEF HandlerStep, Sends, Send, Check, Reject, Banner, Redraw, Arrive, Lose, Quit, Land

LEMMA ApplyWrites ==
    ASSUME OnePage, NEW w \in Workers, Apply(w)
    PROVE  /\ req[w] \in Requests /\ req[w].kind \notin {"createMatch", "matchDetail"}
           /\ Busy(w) /\ pc[w] = "write"
           /\ Write(req[w]) \/ (req[w].kind = "finalize" /\ store' = store)
BY DEF Apply, OnePage, Busy

\* A step changes what the page should show in the regions of its own request alone.
LEMMA NowKept ==
    ASSUME Shape, OnePage, NEW w \in Workers, HandlerStep(w) \/ Sends(w),
           NEW x \in Everything, Apply(w) => x \notin Scope(req[w])
    PROVE  SameAt(Now', Now, x)
<1>1. CASE Apply(w) /\ Write(req[w])
    BY <1>1, ApplyWrites, WriteFrame
<1>2. CASE store' = store
    BY <1>2, NowStill DEF SameAt
<1>3. QED
    BY <1>1, <1>2, ApplyWrites, OnlyApplyWrites

LEMMA BoardsKept ==
    ASSUME Shape, OnePage, PageInv, NEW w \in Workers, HandlerStep(w) \/ Sends(w),
           NEW u \in Workers \ {w}, req[u].kind = "updateLineup", NEW x, Alone(u, x)
    PROVE  LoadMatch'.lineups = LoadMatch.lineups
<1>1. CASE store' = store
    BY <1>1, NowStill
<1>2. CASE lineups' = lineups
    <2>1. LineupsOf(TheMatch)' = LineupsOf(TheMatch)
        BY <1>2 DEF LineupsOf, TheMatch
    <2>2. QED
        BY <1>2, <2>1, LoadShows, LoadShowsNext
<1>3. CASE Apply(w) /\ Write(req[w])
    <2>1. Scope(req[u]) = AllRegions
        BY ScopeIs DEF RegionalKinds, OnCell
    <2>2. x \in AllRegions /\ x \notin Scope(req[w])
        BY <1>3, <2>1, ApplyWrites, AloneApart DEF Alone, PageInv
    <2>3. req[w].kind \in RegionalKinds \cup {"finalize"}
        BY <2>2, ScopeIs
    <2>4. CASE req[w].kind \in RegionalKinds
        BY <1>2, <1>3, <2>4, ApplyWrites, RegionalWrite
    <2>5. CASE req[w].kind = "finalize"
        BY <1>2, <1>3, <2>5 DEF Write, FinalizeMatch
    <2>6. QED
        BY <2>3, <2>4, <2>5
<1>4. QED
    BY <1>1, <1>3, ApplyWrites, OnlyApplyWrites

LEMMA SameTwice ==
    ASSUME NEW f, NEW g, NEW h, NEW x, SameAt(f, g, x), SameAt(h, g, x)
    PROVE  SameAt(f, h, x)
BY DEF SameAt

\* A region that stands still in the regions a request has to itself.
LEMMA AloneStill ==
    ASSUME Shape, OnePage, PageInv, NEW w \in Workers, HandlerStep(w) \/ Sends(w),
           NEW u \in Workers \ {w}, NEW x \in Everything, Alone(u, x)
    PROVE  SameAt(Now', Now, x)
<1>1. Apply(w) => x \notin Scope(req[w])
    BY ApplyWrites, AloneApart DEF PageInv
<1>2. QED
    BY <1>1, NowKept

LEMMA ViewFreshKept ==
    ASSUME Shape, OnePage, PageInv, NEW w \in Workers, HandlerStep(w) \/ Sends(w),
           NEW u \in Workers \ {w}
    PROVE  ViewFresh(u)'
<1>1. pc'[u] = pc[u] /\ req'[u] = req[u] /\ view'[u] = view[u]
    BY OthersKept
<1>2. SUFFICES ASSUME pc[u] = "write", req[u].kind \notin {"deleteLineup", "finalize"},
                      NEW x \in Everything, Alone(u, x)'
               PROVE  /\ SameAt(EditorBody(view[u]), Now', x)
                      /\ req[u].kind = "updateLineup" => view[u].lineups = LoadMatch'.lineups
    BY <1>1 DEF ViewFresh, Everything, AllRegions, CardOf, CardHead, Relics, Grid, Title, Pips,
                Cards, AddForm, LineupIds
<1>3. Alone(u, x)
    BY <1>2, AloneKept
<1>4. /\ SameAt(EditorBody(view[u]), Now, x)
      /\ req[u].kind = "updateLineup" => view[u].lineups = LoadMatch.lineups
    BY <1>2, <1>3 DEF PageInv, ViewFresh
<1>5. SameAt(Now', Now, x)
    BY <1>3, AloneStill
<1>6. SameAt(EditorBody(view[u]), Now', x)
    BY <1>4, <1>5, SameTwice
<1>7. req[u].kind = "updateLineup" => view[u].lineups = LoadMatch'.lineups
    BY <1>3, <1>4, BoardsKept
<1>8. QED
    BY <1>6, <1>7

LEMMA AnswerTrueKept ==
    ASSUME Shape, OnePage, PageInv, NEW w \in Workers, HandlerStep(w) \/ Sends(w),
           NEW u \in Workers \ {w}
    PROVE  AnswerTrue(u)'
<1>1. pc'[u] = pc[u] /\ req'[u] = req[u] /\ answer'[u] = answer[u]
    BY OthersKept
<1>2. ASSUME pc[u] = "answer", Cards \in DOMAIN answer[u] \/ req[u].kind # "finalize",
             NEW x \in Everything, Alone(u, x)'
      PROVE  /\ x \in DOMAIN answer[u] => x \in DOMAIN Now' /\ ShowsNow(answer[u], x)'
             /\ Cards \in DOMAIN answer[u] /\ x \in DOMAIN Now' => x \in DOMAIN answer[u]
    <2>1. Alone(u, x)
        BY <1>2, AloneKept
    <2>2. /\ x \in DOMAIN answer[u] => x \in DOMAIN Now /\ ShowsNow(answer[u], x)
          /\ Cards \in DOMAIN answer[u] /\ x \in DOMAIN Now => x \in DOMAIN answer[u]
        BY <1>2, <2>1 DEF PageInv, AnswerTrue
    <2>3. SameAt(Now', Now, x)
        BY <2>1, AloneStill
    <2>4. QED
        BY <1>1, <2>2, <2>3 DEF SameAt, ShowsNow
<1>3. pc[u] = "answer" => DOMAIN answer[u] \subseteq Scope(req[u])
    BY DEF PageInv, AnswerTrue
<1>4. QED
    BY <1>1, <1>2, <1>3 DEF AnswerTrue

-----------------------------------------------------------------------------
(* What a step does to its own request.                                    *)

LEMMA AnswerGiven ==
    ASSUME OnePage, NEW w \in Workers, NEW A, Answer(w, A), store' = store, Busy(w),
           DOMAIN A \subseteq Scope(req[w]),
           Cards \in DOMAIN A \/ req[w].kind # "finalize" =>
            \A x \in Everything : Alone(w, x) =>
                /\ x \in DOMAIN A => x \in DOMAIN Now /\ ShowsNow(A, x)
                /\ Cards \in DOMAIN A /\ x \in DOMAIN Now => x \in DOMAIN A
    PROVE  AnswerTrue(w)'
<1>1. /\ answer'[w] = A /\ req' = req /\ pc'[w] = "answer"
      /\ disturbed' = disturbed /\ contested' = contested
    BY DEF Answer, Goto, OnePage
<1>2. Now' = Now
    BY NowStill
<1>3. ASSUME NEW x, Alone(w, x)' PROVE Alone(w, x)
    BY <1>1, <1>3 DEF Alone, Busy
<1>4. ASSUME NEW x PROVE ShowsNow(A, x)' <=> ShowsNow(A, x)
    BY <1>2 DEF ShowsNow
<1>5. ASSUME Cards \in DOMAIN A \/ req[w].kind # "finalize", NEW x \in Everything, Alone(w, x)'
      PROVE  /\ x \in DOMAIN A => x \in DOMAIN Now' /\ ShowsNow(A, x)'
             /\ Cards \in DOMAIN A /\ x \in DOMAIN Now' => x \in DOMAIN A
    BY <1>2, <1>3, <1>4, <1>5
<1>6. QED
    BY <1>1, <1>5 DEF AnswerTrue, ShowsNow

\* The fragments of a refusal.
LEMMA RefusalGiven ==
    ASSUME Shape, OnePage, NEW w \in Workers, NEW v, DOMAIN v.lineups \subseteq LineupIds,
           Answer(w, Refused(req[w], v)), store' = store, Busy(w),
           \A x \in Everything : Alone(w, x) => SameAt(EditorBody(v), Now, x)
    PROVE  AnswerTrue(w)'
<1>1. PICK A : A = Refused(req[w], v)
    OBVIOUS
<1>2. /\ DOMAIN A \subseteq Scope(req[w])
      /\ Cards \notin DOMAIN A
      /\ \A x \in DOMAIN A : SameAt(EditorBody(v), Now, x) => x \in DOMAIN Now /\ ShowsNow(A, x)
    BY <1>1, RefusedTrue DEF OnePage, Busy
<1>3. Answer(w, A)
    BY <1>1
<1>4. \A x \in Everything : Alone(w, x) =>
        /\ x \in DOMAIN A => x \in DOMAIN Now /\ ShowsNow(A, x)
        /\ Cards \in DOMAIN A /\ x \in DOMAIN Now => x \in DOMAIN A
    BY <1>2
<1>5. QED
    BY <1>2, <1>3, <1>4, AnswerGiven

LEMMA FreshRefusal ==
    ASSUME Shape, OnePage, NEW w \in Workers, Answer(w, Refused(req[w], LoadMatch)),
           store' = store, Busy(w)
    PROVE  AnswerTrue(w)'
<1>1. PICK v : v = LoadMatch
    OBVIOUS
<1>2. DOMAIN v.lineups \subseteq LineupIds
    BY <1>1, LoadTyped
<1>3. \A x : SameAt(EditorBody(v), Now, x)
    BY <1>1 DEF SameAt, Now
<1>4. Answer(w, Refused(req[w], v))
    BY <1>1
<1>5. QED
    BY <1>2, <1>3, <1>4, RefusalGiven

LEMMA EmptyAnswer ==
    ASSUME Shape, OnePage, NEW w \in Workers, Answer(w, << >>), store' = store, Busy(w)
    PROVE  AnswerTrue(w)'
<1>1. DOMAIN << >> = {}
    OBVIOUS
<1>2. PICK A : A = << >>
    OBVIOUS
<1>3. DOMAIN A = {} /\ Answer(w, A)
    BY <1>1, <1>2
<1>4. QED
    BY <1>3, AnswerGiven

LEMMA RejectAnswer ==
    ASSUME Shape, OnePage, PageInv, NEW w \in Workers, Reject(w)
    PROVE  AnswerTrue(w)'
<1>1. pc[w] = "write" /\ Busy(w) /\ store' = store
    BY DEF Reject, Busy
<1>2. CASE req[w].kind = "finalize"
    BY <1>2 DEF Reject, Goto, OnePage, AnswerTrue
<1>3. CASE req[w].kind \in {"addLineup", "copyLineup"}
    <2>1. Answer(w, Refused(req[w], LoadMatch))
        BY <1>3 DEF Reject
    <2>2. QED
        BY <1>1, <2>1, FreshRefusal
<1>4. CASE req[w].kind \in {"saveStars", "deleteLineup"}
    <2>1. Answer(w, << >>)
        BY <1>4 DEF Reject
    <2>2. QED
        BY <1>1, <2>1, EmptyAnswer
<1>5. CASE req[w].kind \notin {"finalize", "addLineup", "copyLineup", "saveStars", "deleteLineup"}
    <2>1. Answer(w, Refused(req[w], view[w]))
        BY <1>5 DEF Reject
    <2>2. PICK v : v = view[w]
        OBVIOUS
    <2>3. DOMAIN v.lineups \subseteq LineupIds
        BY <2>2 DEF PageInv, ViewsTyped
    <2>4. \A x \in Everything : Alone(w, x) => SameAt(EditorBody(v), Now, x)
        BY <1>1, <1>5, <2>2 DEF PageInv, ViewFresh
    <2>5. Answer(w, Refused(req[w], v))
        BY <2>1, <2>2
    <2>6. QED
        BY <1>1, <2>3, <2>4, <2>5, RefusalGiven
<1>6. QED
    BY <1>2, <1>3, <1>4, <1>5

LEMMA BannerAnswer ==
    ASSUME Shape, OnePage, PageInv, NEW w \in Workers, Banner(w)
    PROVE  AnswerTrue(w)'
<1>1. /\ req[w].kind = "finalize" /\ Busy(w) /\ store' = store
      /\ Answer(w, EditorBody(LoadMatch))
    BY DEF Banner, PageInv, Busy
<1>2. PICK A : A = EditorBody(LoadMatch)
    OBVIOUS
<1>3. A = Now /\ Answer(w, A)
    BY <1>1, <1>2 DEF Now
<1>4. DOMAIN A \subseteq Scope(req[w])
    BY <1>1, <1>2, ScopeIs, BodyRegions, LoadTyped
<1>5. \A x : x \in DOMAIN A => ShowsNow(A, x)
    BY <1>3 DEF ShowsNow
<1>6. QED
    BY <1>1, <1>3, <1>4, <1>5, AnswerGiven

LEMMA RedrawAnswer ==
    ASSUME Shape, OnePage, PageInv, NEW w \in Workers, Redraw(w)
    PROVE  AnswerTrue(w)'
<1>1. /\ Busy(w) /\ store' = store /\ pc[w] = "reload"
      /\ req[w] \in Requests /\ req[w].kind \notin {"createMatch", "matchDetail"}
    BY DEF Redraw, OnePage, Busy
<1>2. PICK now : now = LoadMatch
    OBVIOUS
<1>3. DOMAIN now.lineups \subseteq LineupIds /\ Now = EditorBody(now)
    BY <1>2, LoadTyped DEF Now
<1>4. CASE req[w].kind = "finalize"
    <2>1. PICK A : A = DetailBody(now)
        OBVIOUS
    <2>2. Answer(w, A)
        BY <1>2, <1>4, <2>1 DEF Redraw
    <2>3. DOMAIN A = {Title} \cup {CardHead(l) : l \in DOMAIN now.lineups}
        BY <2>1 DEF DetailBody
    <2>4. Cards \notin DOMAIN A
        BY <2>3 DEF Cards, Title, CardHead
    <2>5. DOMAIN A \subseteq Scope(req[w])
        BY <1>3, <1>4, <2>3, ScopeIs DEF Everything, AllRegions, CardOf
    <2>6. QED
        BY <1>1, <1>4, <2>2, <2>4, <2>5, AnswerGiven
<1>5. CASE req[w].kind # "finalize"
    <2> DEFINE cover == Written(req[w], view[w], now)
    <2>1. PICK A : A = Only(cover, EditorBody(now))
        OBVIOUS
    <2>2. Answer(w, A)
        BY <1>2, <1>5, <2>1 DEF Redraw
    <2>3. DOMAIN A = cover \cap DOMAIN Now /\ \A x \in DOMAIN A : A[x] = Now[x]
        BY <1>3, <2>1 DEF Only
    <2>4. /\ cover \cap DOMAIN EditorBody(now) \subseteq Scope(req[w])
          /\ Cards \in cover => cover = AllRegions /\ Scope(req[w]) = AllRegions
        BY <1>1, <1>3, <1>5, WrittenScope
    <2>5. DOMAIN A \subseteq Scope(req[w])
        BY <1>3, <2>3, <2>4
    <2> HIDE DEF cover
    <2>6. ASSUME NEW x \in Everything, Alone(w, x)
          PROVE  /\ x \in DOMAIN A => x \in DOMAIN Now /\ ShowsNow(A, x)
                 /\ Cards \in DOMAIN A /\ x \in DOMAIN Now => x \in DOMAIN A
        BY <2>3, <2>4, <2>6 DEF ShowsNow, Alone
    <2>7. QED
        BY <1>1, <2>2, <2>5, <2>6, AnswerGiven
<1>6. QED
    BY <1>4, <1>5

LEMMA CheckOwn ==
    ASSUME Shape, OnePage, PageInv, NEW w \in Workers, Check(w)
    PROVE  /\ ViewFresh(w)' /\ AnswerTrue(w)'
           /\ DOMAIN view'[w].lineups \subseteq LineupIds
<1>1. Busy(w) /\ store' = store /\ Now' = Now /\ LoadMatch' = LoadMatch
    BY NowStill DEF Check, Busy
<1>2. CASE Answer(w, Refused(req[w], LoadMatch)) /\ view' = view
    <2>1. pc'[w] = "answer"
        BY <1>2 DEF Answer, Goto, OnePage
    <2>2. QED
        BY <1>1, <1>2, <2>1, FreshRefusal DEF ViewFresh, PageInv, ViewsTyped
<1>3. CASE view' = [view EXCEPT ![w] = LoadMatch] /\ Goto(w, "write")
    <2>1. pc'[w] = "write" /\ view'[w] = LoadMatch
        BY <1>3 DEF Goto, OnePage
    <2>2. AnswerTrue(w)'
        BY <2>1 DEF AnswerTrue
    <2>3. EditorBody(view'[w]) = Now'
        BY <1>1, <2>1 DEF Now
    <2>4. ViewFresh(w)'
        BY <1>1, <2>1, <2>3 DEF ViewFresh, SameAt
    <2>5. QED
        BY <2>1, <2>2, <2>4, LoadTyped
<1>4. QED
    BY <1>2, <1>3 DEF Check

Own(w) ==
    /\ ViewFresh(w) /\ AnswerTrue(w)
    /\ DOMAIN view[w].lineups \subseteq LineupIds
    /\ pc[w] = "banner" => req[w].kind = "finalize"

LEMMA OwnHandler ==
    ASSUME Shape, OnePage, PageInv, NEW w \in Workers, HandlerStep(w)
    PROVE  Own(w)'
<1>1. DOMAIN view[w].lineups \subseteq LineupIds
    BY DEF PageInv, ViewsTyped
<1>2. CASE Check(w)
    <2>1. pc'[w] # "banner"
        BY <1>2 DEF Check, Answer, Goto, OnePage
    <2>2. QED
        BY <1>2, <2>1, CheckOwn DEF Own
<1>3. CASE Apply(w)
    <2>1. pc'[w] = "reload" /\ view'[w] = view[w]
        BY <1>3 DEF Apply, Goto, OnePage
    <2>2. QED
        BY <1>1, <2>1 DEF Own, ViewFresh, AnswerTrue
<1>4. CASE Reject(w)
    <2>1. /\ view'[w] = view[w] /\ pc'[w] \in {"banner", "answer"}
          /\ pc'[w] = "banner" => req'[w].kind = "finalize"
        BY <1>4 DEF Reject, Answer, Goto, OnePage
    <2>2. QED
        BY <1>1, <1>4, <2>1, RejectAnswer DEF Own, ViewFresh
<1>5. CASE Banner(w) \/ Redraw(w)
    <2>1. view'[w] = view[w] /\ pc'[w] = "answer"
        BY <1>5 DEF Banner, Redraw, Answer, Goto, OnePage
    <2>2. QED
        BY <1>1, <1>5, <2>1, BannerAnswer, RedrawAnswer DEF Own, ViewFresh
<1>6. CASE Arrive(w) \/ Lose(w) \/ Land(w)
    <2>1. view'[w] = NoView /\ pc'[w] = "idle"
        BY <1>6 DEF Arrive, Lose, Land, Quit, Finish, Goto, OnePage
    <2>2. DOMAIN NoView.lineups = {}
        BY DEF NoView
    <2>3. QED
        BY <2>1, <2>2 DEF Own, ViewFresh, AnswerTrue
<1>7. QED
    BY <1>2, <1>3, <1>4, <1>5, <1>6 DEF HandlerStep

LEMMA OwnSend ==
    ASSUME OnePage, PageInv, NEW w \in Workers, Sends(w)
    PROVE  Own(w)'
<1>1. PICK r \in Requests : Send(w, r)
    BY DEF Sends
<1>2. /\ pc'[w] = IF r.kind \in {"deleteLineup", "finalize"} THEN "write" ELSE "loaded"
      /\ req'[w] = r /\ view' = view
    BY <1>1 DEF Send, Goto, OnePage
<1>3. QED
    BY <1>2 DEF Own, ViewFresh, AnswerTrue, PageInv, ViewsTyped

LEMMA OwnOther ==
    ASSUME Shape, OnePage, PageInv, NEW w \in Workers, HandlerStep(w) \/ Sends(w),
           NEW u \in Workers \ {w}
    PROVE  Own(u)'
BY OthersKept, ViewFreshKept, AnswerTrueKept DEF Own, PageInv, ViewsTyped

LEMMA PageInvParts ==
    /\ PageInv => \A w \in Workers : Own(w)
    /\ Marked /\ (\A w \in Workers : Own(w)) /\ Accounted => PageInv
    /\ Marked' /\ (\A w \in Workers : Own(w)') /\ Accounted' => PageInv'
BY DEF Own, PageInv, ViewsTyped

-----------------------------------------------------------------------------
(* What the page shows.                                                    *)

LEMMA InSyncKept ==
    ASSUME NEW x, SameAt(Now', Now, x), SameAt(dom', dom, x), InSync(x)
    PROVE  InSync(x)'
BY DEF InSync, SameAt, ShowsNow, AddForm

LEMMA CoveredKept ==
    ASSUME NEW r \in Requests, r.kind \notin {"createMatch", "matchDetail", "finalize"},
           NEW v, NEW now, NEW later,
           r.kind = "updateLineup" => later.lineups = now.lineups
    PROVE  Written(r, v, later) = Written(r, v, now)
<1>1. r.kind \in OnCell \cup {"addSlot", "addRelic", "removeRelic", "addLineup", "copyLineup",
                              "deleteLineup", "updateLineup"}
    BY RequestShape DEF OnBoard
<1>2. QED
    BY <1>1, WrittenIs

LEMMA PendingKept ==
    ASSUME Shape, OnePage, PageInv, NEW w \in Workers, HandlerStep(w) \/ Sends(w),
           NEW u \in Workers \ {w}, NEW x \in Everything \ disturbed, Pending(u, x),
           SameAt(dom', dom, x)
    PROVE  Pending(u, x)'
<1>1. /\ pc'[u] = pc[u] /\ req'[u] = req[u] /\ view'[u] = view[u] /\ answer'[u] = answer[u]
      /\ req[u] \in Requests /\ req[u].kind \notin {"createMatch", "matchDetail"}
    BY OthersKept DEF Pending, Busy, OnePage
<1>2. Alone(u, x)
    BY DEF Pending, Alone
<1>3. SameAt(Now', Now, x)
    BY <1>2, AloneStill
<1>4. req[u].kind # "finalize" => Covered(u)' = Covered(u)
    <2>1. PICK later : later = LoadMatch'
        OBVIOUS
    <2>2. req[u].kind = "updateLineup" => later.lineups = LoadMatch.lineups
        BY <1>2, <2>1, BoardsKept
    <2>3. req[u].kind # "finalize" =>
            Written(req[u], view[u], later) = Written(req[u], view[u], LoadMatch)
        BY <1>1, <2>2, CoveredKept
    <2>4. QED
        BY <1>1, <2>1, <2>3 DEF Covered
<1>5. QED
    BY <1>1, <1>3, <1>4 DEF Pending, Busy, SameAt

LEMMA SwapFrame ==
    ASSUME Title \in DOMAIN dom, NEW r, r.kind # "finalize", NEW A, DOMAIN A \subseteq Scope(r),
           NEW x \in Everything \ Scope(r)
    PROVE  SameAt(Swap(dom, A), dom, x)
<1>1. x \notin DOMAIN A
    OBVIOUS
<1>2. CASE Cards \in DOMAIN A
    <2>1. x = Title
        BY <1>2, CardsInScope DEF Everything
    <2>2. QED
        BY <1>1, <1>2, <2>1 DEF Swap, SameAt
<1>3. CASE Cards \notin DOMAIN A
    BY <1>1, <1>3 DEF Swap, SameAt
<1>4. QED
    BY <1>2, <1>3

LEMMA SwapRegions ==
    ASSUME NEW A, DOMAIN A \subseteq Everything, Title \in DOMAIN dom, DOMAIN dom \subseteq Everything
    PROVE  Title \in DOMAIN Swap(dom, A) /\ DOMAIN Swap(dom, A) \subseteq Everything
BY DEF Swap, Everything, AllRegions

\* What a write leaves out of date its answer will draw.
LEMMA ApplyPending ==
    ASSUME Shape, OnePage, Finalizes, PageInv, NEW w \in Workers, Apply(w), NEW x \in Everything \ disturbed,
           InSync(x), ~SameAt(Now', Now, x)
    PROVE  Pending(w, x)'
<1>1. /\ req[w] \in Requests /\ req[w].kind \notin {"createMatch", "matchDetail"}
      /\ Busy(w) /\ pc[w] = "write"
    BY ApplyWrites
<1>2. /\ pc'[w] = "reload" /\ req' = req /\ view' = view /\ dom' = dom
    BY DEF Apply, Goto, OnePage, tab
<1>3. Write(req[w]) /\ x \in Scope(req[w])
    <2>1. store' # store
        BY NowStill DEF SameAt
    <2>2. QED
        BY <2>1, ApplyWrites, NowKept DEF HandlerStep
<1>4. CASE req[w].kind = "finalize"
    <2>1. req[w].match = TheMatch
        BY <1>1, <1>4 DEF Finalizes, Finalizing, Busy
    <2>2. PICK now \in 1..MaxTime : FinalizeMatch(TheMatch, now)
        BY <1>3, <1>4, <2>1 DEF Write
    <2>3. x = Title
        BY <2>2, FinalizeFrame
    <2>4. QED
        BY <1>2, <1>3, <1>4, <2>3 DEF Pending, Busy, Title
<1>5. CASE req[w].kind # "finalize"
    <2>1. Alone(w, x)
        BY <1>1, <1>3 DEF Alone
    <2>2. req[w].kind # "deleteLineup" =>
            /\ SameAt(EditorBody(view[w]), Now, x)
            /\ req[w].kind = "updateLineup" => view[w].lineups = LoadMatch.lineups
        BY <1>1, <1>5, <2>1 DEF PageInv, ViewFresh
    <2>3. PICK v : v = view[w]
        OBVIOUS
    <2>4. WillDraw(Written(req[w], v, LoadMatch'), x)
        BY <1>1, <1>3, <1>5, <2>2, <2>3, WriteDrawn
    <2>5. Covered(w)' = Written(req[w], v, LoadMatch')
        BY <1>2, <2>3 DEF Covered
    <2>6. x \in Covered(w)' /\ (Cards \in Covered(w)' \/ x \in DOMAIN dom' \cap DOMAIN Now')
        BY <1>2, <2>4, <2>5 DEF WillDraw, InSync
    <2>7. QED
        BY <1>2, <1>3, <1>5, <2>6 DEF Pending, Busy, Cards
<1>6. QED
    BY <1>4, <1>5

\* The answer takes over what the write owes.
LEMMA RedrawPending ==
    ASSUME Shape, OnePage, NEW w \in Workers, Redraw(w), NEW x, Pending(w, x)
    PROVE  Pending(w, x)'
<1>1. /\ pc[w] = "reload" /\ pc'[w] = "answer" /\ req' = req /\ dom' = dom
      /\ Busy(w) /\ x \in Scope(req[w])
    BY DEF Redraw, Answer, Goto, OnePage, Busy, Pending
<1>2. CASE req[w].kind = "finalize"
    BY <1>1, <1>2 DEF Pending, Busy, Title
<1>3. CASE req[w].kind # "finalize"
    <2>1. x \in Covered(w) /\ (Cards \in Covered(w) \/ x \in DOMAIN dom \cap DOMAIN Now)
        BY <1>1, <1>3 DEF Pending
    <2>2. DOMAIN answer'[w] = Covered(w) \cap DOMAIN Now
        BY <1>3 DEF Redraw, Answer, Only, Covered, Now, OnePage
    <2>3. Cards \in DOMAIN Now
        BY EditorHasFrame DEF Now, FixedRegions
    <2>4. Cards \in DOMAIN answer'[w] \/ x \in DOMAIN answer'[w] \cap DOMAIN dom'
        BY <1>1, <2>1, <2>2, <2>3
    <2>5. QED
        BY <1>1, <1>3, <2>4 DEF Pending, Busy, Cards
<1>4. QED
    BY <1>2, <1>3

LEMMA AccountedQuiet ==
    ASSUME Shape, OnePage, Finalizes, PageInv, NEW w \in Workers,
           \/ Check(w) \/ Apply(w) \/ Reject(w) \/ Banner(w) \/ Redraw(w) \/ Lose(w)
           \/ Sends(w)
    PROVE  Accounted'
<1>1. HandlerStep(w) \/ Sends(w)
    BY DEF HandlerStep
<1>2. page' = page /\ dom' = dom /\ disturbed \subseteq disturbed'
    BY MarksKept DEF Check, Apply, Reject, Banner, Redraw, Lose, Sends, Send, Answer, tab
<1>3. SUFFICES ASSUME page = "editor", NEW x \in Everything \ disturbed'
               PROVE  InSync(x)' \/ \E u \in Workers : Pending(u, x)'
    BY <1>2 DEF Accounted, PageInv, Everything, Title, AllRegions, Pips, Cards, AddForm, CardOf,
                CardHead, Relics, Grid, LineupIds
<1>4. x \in Everything \ disturbed /\ SameAt(dom', dom, x)
    BY <1>2 DEF SameAt
<1>5. ASSUME NEW u \in Workers \ {w}, Pending(u, x) PROVE Pending(u, x)'
    BY <1>1, <1>4, <1>5, PendingKept
<1>6. ASSUME Pending(w, x) PROVE Pending(w, x)'
    <2>1. Busy(w) /\ pc[w] \in {"reload", "answer"} /\ x \in Scope(req[w])
        BY <1>6 DEF Pending
    <2>2. ~Lose(w)
        BY <2>1 DEF Lose
    <2>3. Redraw(w)
        BY <2>1, <2>2 DEF Check, Apply, Reject, Banner, Sends, Send
    <2>4. QED
        BY <1>6, <2>3, RedrawPending
<1>7. ASSUME InSync(x) PROVE InSync(x)' \/ Pending(w, x)'
    <2>1. CASE SameAt(Now', Now, x)
        BY <1>4, <1>7, <2>1, InSyncKept
    <2>2. CASE ~SameAt(Now', Now, x)
        <3>1. Apply(w)
            BY <1>1, <2>2, OnlyApplyWrites, NowStill DEF SameAt
        <3>2. QED
            BY <1>4, <1>7, <2>2, <3>1, ApplyPending
    <2>3. QED
        BY <2>1, <2>2
<1>8. InSync(x) \/ \E u \in Workers : Pending(u, x)
    BY <1>3, <1>4 DEF PageInv, Accounted
<1>9. QED
    BY <1>5, <1>6, <1>7, <1>8
LEMMA TitleOutside ==
    ASSUME NEW r, r.kind # "finalize"
    PROVE  Title \notin Scope(r)
<1>1. /\ \A l : Title # Grid(l) /\ Title # Relics(l) /\ Title # CardHead(l)
      /\ Title \notin {Pips, Cards, AddForm}
    BY DEF Title, Grid, Relics, CardHead, Pips, Cards, AddForm
<1>2. Title \notin AllRegions
    BY <1>1 DEF AllRegions, CardOf
<1>3. QED
    BY <1>1, <1>2, ScopeIs DEF RegionalKinds

\* A region that its request had to itself shows what is there once it is drawn.
LEMMA DrawnInSync ==
    ASSUME OnePage, PageInv, NEW w \in Workers, Arrive(w), NEW x \in Everything, Alone(w, x),
           \/ Cards \in DOMAIN answer[w]
           \/ x \in DOMAIN answer[w] \cap DOMAIN dom
    PROVE  InSync(x)'
<1>1. /\ dom' = Swap(dom, answer[w]) /\ store' = store /\ pc[w] = "answer"
      /\ req[w].kind # "finalize" /\ x # Title
    BY TitleOutside DEF Arrive, Quit, Alone
<1>2. Now' = Now
    BY <1>1, NowStill
<1>3. /\ x \in DOMAIN answer[w] => x \in DOMAIN Now /\ ShowsNow(answer[w], x)
      /\ Cards \in DOMAIN answer[w] /\ x \in DOMAIN Now => x \in DOMAIN answer[w]
    BY <1>1 DEF PageInv, AnswerTrue
<1>4. Pips \in DOMAIN Now
    BY EditorHasFrame DEF Now, FixedRegions
<1>5. x \in DOMAIN answer[w] /\ x \in DOMAIN dom' => dom'[x] = answer[w][x]
    BY <1>1 DEF Swap
<1>6. x \in DOMAIN dom' <=> x \in DOMAIN answer[w]
    <2>1. CASE Cards \in DOMAIN answer[w]
        BY <1>1, <1>3, <1>4, <2>1 DEF Swap
    <2>2. CASE Cards \notin DOMAIN answer[w]
        BY <1>1, <2>2 DEF Swap
    <2>3. QED
        BY <2>1, <2>2
<1>7. x \in DOMAIN dom' <=> x \in DOMAIN Now
    BY <1>3, <1>6, <1>5
<1>8. x \in DOMAIN dom' => ShowsNow(dom, x)'
    BY <1>2, <1>3, <1>5, <1>6 DEF ShowsNow, AddForm
<1>9. QED
    BY <1>2, <1>7, <1>8 DEF InSync

LEMMA AccountedArrive ==
    ASSUME Shape, OnePage, Finalizes, PageInv, NEW w \in Workers, Arrive(w)
    PROVE  Accounted'
<1>1. /\ page' = page /\ pc[w] = "answer" /\ Busy(w) /\ store' = store
      /\ dom' = Swap(dom, answer[w]) /\ req[w].kind # "finalize"
      /\ disturbed' = IF w \in contested THEN disturbed ELSE disturbed \ Drawn(w)
    BY DEF Arrive, Quit, Busy
<1>2. HandlerStep(w) \/ Sends(w)
    BY DEF HandlerStep
<1>3. DOMAIN answer[w] \subseteq Scope(req[w]) /\ Scope(req[w]) \subseteq Everything
    BY <1>1, BusyScope DEF PageInv, AnswerTrue
<1>4. SUFFICES ASSUME page = "editor"
               PROVE  /\ Title \in DOMAIN dom' /\ DOMAIN dom' \subseteq Everything
                      /\ \A x \in Everything \ disturbed' :
                            InSync(x)' \/ \E u \in Workers : Pending(u, x)'
    BY <1>1 DEF Accounted, Everything, Title, AllRegions, Pips, Cards, AddForm, CardOf,
                CardHead, Relics, Grid, LineupIds
<1>5. Title \in DOMAIN dom /\ DOMAIN dom \subseteq Everything
    BY <1>4 DEF PageInv, Accounted
<1>6. Title \in DOMAIN dom' /\ DOMAIN dom' \subseteq Everything
    BY <1>1, <1>3, <1>5, SwapRegions
<1>7. ASSUME NEW x \in Everything \ disturbed, SameAt(dom', dom, x), ~Pending(w, x)
      PROVE  InSync(x)' \/ \E u \in Workers : Pending(u, x)'
    <2>1. CASE InSync(x)
        BY <1>1, <1>7, <2>1, NowStill, InSyncKept DEF SameAt
    <2>2. CASE \E u \in Workers : Pending(u, x)
        BY <1>2, <1>7, <2>2, PendingKept
    <2>3. QED
        BY <1>4, <1>7, <2>1, <2>2 DEF PageInv, Accounted
<1>8. ASSUME NEW x \in Everything \ disturbed'
      PROVE  InSync(x)' \/ \E u \in Workers : Pending(u, x)'
    <2>1. CASE x \notin Scope(req[w])
        <3>1. x \notin disturbed
            BY <1>1, <1>8, <2>1, DrawnInScope
        <3>2. SameAt(dom', dom, x)
            BY <1>1, <1>3, <1>5, <2>1, SwapFrame
        <3>3. ~Pending(w, x)
            BY <2>1 DEF Pending
        <3>4. QED
            BY <1>7, <3>1, <3>2, <3>3
    <2>2. CASE x \in Scope(req[w]) /\ (Cards \in DOMAIN answer[w]
                                        \/ x \in DOMAIN answer[w] \cap DOMAIN dom)
        <3>1. Alone(w, x)
            BY <1>1, <1>8, <2>2 DEF Alone
        <3>2. QED
            BY <2>2, <3>1, DrawnInSync
    <2>3. CASE Cards \notin DOMAIN answer[w] /\ x \notin DOMAIN answer[w] \cap DOMAIN dom
        <3>1. DOMAIN dom' = DOMAIN dom /\ SameAt(dom', dom, x)
            BY <1>1, <2>3 DEF Swap, SameAt
        <3>2. x \notin disturbed
            BY <1>1, <1>8, <2>3, <3>1 DEF Drawn
        <3>3. ~Pending(w, x)
            BY <1>1, <2>3 DEF Pending
        <3>4. QED
            BY <1>7, <3>1, <3>2, <3>3
    <2>4. QED
        BY <2>1, <2>2, <2>3
<1>9. QED
    BY <1>6, <1>8
\* The page that finalize leads to.
LEMMA AccountedLand ==
    ASSUME Shape, OnePage, Finalizes, PageInv, NEW w \in Workers, Land(w)
    PROVE  Accounted'
<1>1. /\ pc[w] = "answer" /\ Busy(w) /\ store' = store /\ req[w].kind = "finalize"
      /\ dom' = answer[w] /\ page' = IF Cards \in DOMAIN answer[w] THEN "editor" ELSE "detail"
      /\ disturbed' = IF w \in contested THEN Scope(req[w]) ELSE {}
    BY DEF Land, Show, Busy
<1>2. Scope(req[w]) = Everything
    BY <1>1, ScopeIs
<1>3. CASE Cards \notin DOMAIN answer[w]
    BY <1>1, <1>3 DEF Accounted
<1>4. CASE Cards \in DOMAIN answer[w]
    <2>1. FixedRegions \subseteq DOMAIN answer[w]
        <3>1. Cards \notin DOMAIN DetailBody(LoadMatch)
            BY DEF DetailBody, Cards, Title, CardHead
        <3>2. QED
            BY <1>1, <1>4, <3>1 DEF Finalizes, Finalizing, FinalizeAnswer
    <2>2. Title \in DOMAIN dom' /\ DOMAIN dom' \subseteq Everything
        BY <1>1, <1>2, <2>1 DEF FixedRegions, PageInv, AnswerTrue
    <2>3. ASSUME NEW x \in Everything \ disturbed' PROVE InSync(x)'
        <3>1. Alone(w, x)
            BY <1>1, <1>2, <2>3 DEF Alone
        <3>2. /\ x \in DOMAIN answer[w] => x \in DOMAIN Now /\ ShowsNow(answer[w], x)
              /\ x \in DOMAIN Now => x \in DOMAIN answer[w]
            BY <1>1, <1>4, <3>1 DEF PageInv, AnswerTrue
        <3>3. Now' = Now
            BY <1>1, NowStill
        <3>4. QED
            BY <1>1, <3>2, <3>3 DEF InSync, ShowsNow, AddForm
    <2>4. QED
        BY <2>2, <2>3 DEF Accounted, Everything, Title, AllRegions, Pips, Cards, AddForm, CardOf,
                          CardHead, Relics, Grid, LineupIds
<1>5. QED
    BY <1>3, <1>4

\* A page drawn whole.
LEMMA AccountedWhole ==
    ASSUME DOMAIN dom' = DOMAIN Now', \A x \in DOMAIN dom' : dom'[x] = Now'[x],
           DOMAIN dom' \subseteq Everything, Title \in DOMAIN dom'
    PROVE  Accounted'
<1>1. ASSUME NEW x PROVE InSync(x)'
    BY DEF InSync, ShowsNow
<1>2. QED
    BY <1>1 DEF Accounted, Everything, Title, AllRegions, Pips, Cards, AddForm, CardOf,
                CardHead, Relics, Grid, LineupIds

LEMMA VisitStep ==
    ASSUME Shape, OnePage, PageInv, Visit
    PROVE  PageInv'
<1>1. /\ UNCHANGED <<pc, req, view, answer>> /\ store' = store
      /\ disturbed' = UNION {Scope(req[w]) : w \in Running} /\ contested' = Running
    BY DEF Visit, vars, editor
<1>2. ASSUME NEW w \in Workers, Busy(w)
      PROVE  w \in contested' /\ Scope(req[w]) \subseteq disturbed'
    BY <1>1, <1>2 DEF Running, Busy
<1>3. Marked'
    BY <1>1, <1>2 DEF Marked, Busy
<1>4. ASSUME NEW w \in Workers, NEW x PROVE ~Alone(w, x)'
    BY <1>1, <1>2 DEF Alone, Busy
<1>5. ASSUME NEW w \in Workers PROVE Own(w)'
    BY <1>1, <1>4 DEF Own, ViewFresh, AnswerTrue, PageInv, ViewsTyped
<1>6. Accounted'
    <2>1. Cards \notin DOMAIN DetailBody(LoadMatch)
        BY DEF DetailBody, Cards, Title, CardHead
    <2>2. CASE ~MatchWritable(TheMatch)
        BY <2>1, <2>2 DEF Visit, Show, Accounted
    <2>3. CASE MatchWritable(TheMatch)
        <3>1. dom' = Now'
            BY <1>1, <2>3, NowStill DEF Visit, Show, Now
        <3>2. DOMAIN Now \subseteq Everything /\ Title \in DOMAIN Now
            BY BodyRegions, LoadTyped DEF Now, FixedRegions
        <3>3. QED
            BY <1>1, <3>1, <3>2, NowStill, AccountedWhole
    <2>4. QED
        BY <2>2, <2>3
<1>7. QED
    BY <1>3, <1>5, <1>6, PageInvParts
\* The editor of a match that was created this moment is drawn without a load.
LEMMA CreateStep ==
    ASSUME Shape, OnePage, PageInv, CreateMatch
    PROVE  PageInv'
<1>1. /\ page = "new" /\ UNCHANGED <<pc, req, view, answer>>
      /\ DOMAIN matches = {} /\ \A w \in Workers : pc[w] = "idle"
      /\ lineups' = lineups
    BY DEF CreateMatch, editor, OnePage, CreateMatchShell
<1>2. \A w \in Workers : pc'[w] = "idle"
    BY <1>1
<1>3. Marked'
    BY <1>2 DEF Marked, Busy
<1>4. ASSUME NEW w \in Workers PROVE Own(w)'
    BY <1>1, <1>2 DEF Own, ViewFresh, AnswerTrue, PageInv, ViewsTyped
<1>5. Accounted'
    <2> DEFINE blank == [NoView EXCEPT !.match = matches'[TheMatch]]
    <2>1. blank.match = matches'[TheMatch] /\ DOMAIN blank.lineups = {}
        BY DEF NoView
    <2>2. LineupsOf(TheMatch)' = {}
        BY <1>1 DEF LineupsOf, Shape, OwnersExist
    <2>3. LoadMatch'.match = matches'[TheMatch] /\ DOMAIN LoadMatch'.lineups = {}
        BY <2>2, LoadShowsNext
    <2>4. dom' = EditorBody(blank)
        BY DEF CreateMatch
    <2> HIDE DEF blank
    <2>5. ASSUME NEW x PROVE SameAt(EditorBody(blank), EditorBody(LoadMatch'), x)
        <3>1. PICK v : v = LoadMatch'
            OBVIOUS
        <3>2. v.match = blank.match /\ DOMAIN v.lineups = {}
            BY <2>1, <2>3, <3>1
        <3>3. SameAt(EditorBody(blank), EditorBody(v), x)
            BY <2>1, <3>2, BodyFrame
        <3>4. QED
            BY <3>1, <3>3
    <2>6. DOMAIN dom' \subseteq Everything /\ Title \in DOMAIN dom'
        BY <2>1, <2>4, BodyRegions DEF FixedRegions
    <2>7. \A x : (x \in DOMAIN dom' <=> x \in DOMAIN Now') /\ (x \in DOMAIN dom' => dom'[x] = Now'[x])
        BY <2>4, <2>5, NowNext DEF SameAt
    <2>8. DOMAIN dom' = DOMAIN Now'
        BY <2>7
    <2>9. QED
        BY <2>6, <2>7, <2>8, AccountedWhole
<1>6. QED
    BY <1>3, <1>4, <1>5, PageInvParts

LEMMA PageInvInit == ASSUME PageInit PROVE PageInv
<1>1. /\ page = "new" /\ \A w \in Workers : pc[w] = "idle" /\ view[w] = NoView
    BY DEF PageInit, EditorInit
<1>2. DOMAIN NoView.lineups = {}
    BY DEF NoView
<1>3. QED
    BY <1>1, <1>2 DEF PageInv, Marked, ViewsTyped, ViewFresh, AnswerTrue, Accounted, Busy

LEMMA StutterStep ==
    ASSUME PageInv, UNCHANGED pageVars
    PROVE  PageInv'
<1>1. /\ UNCHANGED <<pc, req, view, answer, page, dom, contested, disturbed>> /\ store' = store
    BY DEF pageVars, vars, editor, tab
<1>2. LoadMatch' = LoadMatch /\ Now' = Now
    BY <1>1, NowStill
<1>3. Marked'
    BY <1>1 DEF Marked, PageInv, Busy
<1>4. ASSUME NEW w \in Workers, NEW x PROVE Alone(w, x)' <=> Alone(w, x)
    BY <1>1 DEF Alone, Busy
<1>5. ASSUME NEW w \in Workers PROVE Own(w)'
    <2>1. ViewFresh(w) /\ AnswerTrue(w)
        BY DEF PageInv
    <2>2. ViewFresh(w)'
        BY <1>1, <1>2, <1>4, <2>1 DEF ViewFresh, Everything, Title, AllRegions, Pips, Cards,
            AddForm, CardOf, CardHead, Relics, Grid, LineupIds
    <2>3. AnswerTrue(w)'
        BY <1>1, <1>2, <1>4, <2>1 DEF AnswerTrue, ShowsNow, Everything, Title, AllRegions, Pips,
            Cards, AddForm, CardOf, CardHead, Relics, Grid, LineupIds
    <2>4. QED
        BY <1>1, <2>2, <2>3 DEF Own, PageInv, ViewsTyped
<1>6. Accounted'
    <2>1. Accounted
        BY DEF PageInv
    <2>2. ASSUME NEW x PROVE InSync(x)' <=> InSync(x)
        BY <1>1, <1>2 DEF InSync, ShowsNow, AddForm
    <2>3. ASSUME NEW w \in Workers, NEW x, Pending(w, x) PROVE Pending(w, x)'
        BY <1>1, <1>2, <2>3 DEF Pending, Covered, Busy
    <2>4. QED
        BY <1>1, <2>1, <2>2, <2>3 DEF Accounted, Everything, Title, AllRegions, Pips, Cards,
            AddForm, CardOf, CardHead, Relics, Grid, LineupIds
<1>7. QED
    BY <1>3, <1>5, <1>6, PageInvParts
LEMMA PageInvStep ==
    ASSUME Shape, OnePage, Finalizes, PageInv, [PageNext]_pageVars
    PROVE  PageInv'
<1>1. ASSUME NEW w \in Workers, HandlerStep(w) \/ Sends(w) PROVE PageInv'
    <2>1. Marked'
        BY <1>1, MarkedHandler, MarkedSend DEF Sends
    <2>2. \A u \in Workers : Own(u)'
        BY <1>1, OwnHandler, OwnSend, OwnOther
    <2>3. Accounted'
        BY <1>1, AccountedQuiet, AccountedArrive, AccountedLand DEF HandlerStep
    <2>4. QED
        BY <2>1, <2>2, <2>3, PageInvParts
<1>2. QED
    BY <1>1, CreateStep, VisitStep, StutterStep DEF PageNext, HandlerStep, Sends

LEMMA PageInvShows ==
    ASSUME Shape, PageInv
    PROVE  RegionsExact
<1>1. SUFFICES ASSUME page = "editor", Running = {},
                      NEW r \in (DOMAIN dom \cup DOMAIN Now) \ disturbed
               PROVE  r \in DOMAIN dom \cap DOMAIN Now /\ ShowsNow(dom, r)
    BY DEF RegionsExact, Now, ShowsNow
<1>2. DOMAIN Now \subseteq Everything
    BY BodyRegions, LoadTyped DEF Now
<1>3. r \in Everything
    BY <1>1, <1>2 DEF PageInv, Accounted
<1>4. \A w \in Workers : ~Pending(w, r)
    BY <1>1 DEF Pending, Busy, Running
<1>5. InSync(r)
    BY <1>1, <1>3, <1>4 DEF PageInv, Accounted
<1>6. QED
    BY <1>1, <1>5 DEF InSync

\* whiteboard.md:53: the fragments that the swap table names are enough.  For any number of
\* requests in flight and in any order of their answers, the editor shows what a reload
\* would draw in every region but those that two requests raced for or whose answer was
\* lost; a region that a write put out of date is owed by an answer on its way.
THEOREM RegionsAlwaysExact ==
    ASSUME << >> \in BoardInputs
    PROVE  PageSpec => []RegionsExact
<1> DEFINE Inv == Shape /\ OnePage /\ Finalizes /\ PageInv
<1>1. PageInit => Inv
    BY OnePageInit, FinalizesInit, ShapeInit, PageInvInit DEF PageInit, EditorInit
<1>2. Inv /\ [PageNext]_pageVars => Inv'
    BY OnePageStep, PageStoreStep, ShapeStep, FinalizesStep, PageInvStep
<1>3. Inv => RegionsExact
    BY PageInvShows
<1>4. QED
    BY <1>1, <1>2, <1>3, PTL DEF PageSpec
=============================================================================
