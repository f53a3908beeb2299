----------------------------- MODULE EditorProofs -----------------------------
(***************************************************************************)
(* The theorems of Editor, for any number of requests in flight.  Every    *)
(* write of a handler is a step of MatchStore, so the store's theorems     *)
(* hold under the handlers; on top of them stand the facts about what a    *)
(* handler read before it wrote.                                           *)
(***************************************************************************)
EXTENDS Editor, MatchBookProofs

-----------------------------------------------------------------------------
(* Requests.                                                               *)

LEMMA RequestShape ==
    ASSUME NEW r \in Requests
    PROVE  /\ r.kind \in Kinds
           /\ r.kind \in OnCell \cup OnBoard \cup
                {"addLineup", "deleteLineup", "finalize", "createMatch", "matchDetail"}
           /\ r.kind \in OnCell => r.match \in MatchIds /\ r.slot \in SlotIds
           /\ r.kind \in OnBoard => r.match \in MatchIds /\ r.lineup \in LineupIds
           /\ r.kind = "addSlot" => r.hero \in CodexIds("heroes")
           /\ r.kind \in {"attachItem", "removeItem"} => r.item \in CodexIds("items")
           /\ r.kind \in {"addRelic", "removeRelic"} => r.relic \in CodexIds("relics")
           /\ r.kind \in {"updateLineup", "addLineup"} =>
                /\ r.pro \in CodexIds("pros") \cup {NoPro}
                /\ r.label \in Labels
                /\ r.result \in Results
           /\ r.kind \in {"addLineup", "finalize", "matchDetail"} => r.match \in MatchIds
           /\ r.kind = "deleteLineup" => r.lineup \in LineupIds
           /\ r.kind = "createMatch" =>
                r.patch \in CodexIds("patches") /\ r.source \in Sources
<1>0. r.kind \in Kinds
    BY DEF Requests
<1>1. CASE r \in AddSlotForm
    BY <1>0, <1>1 DEF AddSlotForm, OnCell, OnBoard
<1>2. CASE r \in SaveStarsForm
    BY <1>0, <1>2 DEF SaveStarsForm, OnCell, OnBoard
<1>3. CASE r \in ItemForm
    BY <1>0, <1>3 DEF ItemForm, OnCell, OnBoard
<1>4. CASE r \in DeleteSlotForm
    BY <1>0, <1>4 DEF DeleteSlotForm, OnCell, OnBoard
<1>5. CASE r \in RelicForm
    BY <1>0, <1>5 DEF RelicForm, OnCell, OnBoard
<1>6. CASE r \in UpdateLineupForm
    BY <1>0, <1>6 DEF UpdateLineupForm, OnCell, OnBoard
<1>7. CASE r \in AddLineupForm
    BY <1>0, <1>7 DEF AddLineupForm, OnCell, OnBoard
<1>8. CASE r \in CopyLineupForm
    BY <1>0, <1>8 DEF CopyLineupForm, OnCell, OnBoard
<1>9. CASE r \in DeleteLineupForm
    BY <1>0, <1>9 DEF DeleteLineupForm, OnCell, OnBoard
<1>10. CASE r \in FinalizeForm
    BY <1>0, <1>10 DEF FinalizeForm, OnCell, OnBoard
<1>11. CASE r \in CreateMatchForm
    BY <1>0, <1>11 DEF CreateMatchForm, OnCell, OnBoard
<1>12. CASE r \in MatchDetailUrl
    BY <1>0, <1>12 DEF MatchDetailUrl, OnCell, OnBoard
<1>13. QED
    BY <1>1, <1>2, <1>3, <1>4, <1>5, <1>6, <1>7, <1>8, <1>9, <1>10, <1>11, <1>12 DEF Requests

\* The write of a handler is one of the operations of the store, called with
\* arguments of the right type: what a form could get wrong the store checks.
LEMMA WriteIsStep ==
    ASSUME << >> \in BoardInputs, NEW r \in Requests, r.kind # "matchDetail", Write(r)
    PROVE  Next
<1>1. CASE r.kind = "addSlot"
    <2>1. AddSlot(r.lineup, r.hero, r.stars)
        BY <1>1 DEF Write
    <2>2. r.lineup \in LineupIds /\ r.hero \in CodexIds("heroes") /\ r.stars \in 1..MaxStars
        BY <1>1, <2>1, RequestShape DEF OnBoard, AddSlot
    <2>3. QED
        BY <2>1, <2>2 DEF Next, SlotStep
<1>2. CASE r.kind \in OnCell
    <2>1. \/ SetSlotStars(r.slot, r.stars)
          \/ AddSlotItem(r.slot, r.item) /\ r.item \in CodexIds("items")
          \/ RemoveSlotItem(r.slot, r.item) /\ r.item \in CodexIds("items")
          \/ DeleteSlot(r.slot)
        BY <1>2, RequestShape DEF Write, OnCell
    <2>2. r.slot \in SlotIds
        BY <1>2, RequestShape
    <2>3. SetSlotStars(r.slot, r.stars) => r.stars \in 1..MaxStars
        BY DEF SetSlotStars
    <2>4. QED
        BY <2>1, <2>2, <2>3 DEF Next, SlotStep
<1>3. CASE r.kind \in {"addRelic", "removeRelic"}
    <2>1. AddLineupRelic(r.lineup, r.relic) \/ RemoveLineupRelic(r.lineup, r.relic)
        BY <1>3 DEF Write
    <2>2. r.lineup \in LineupIds /\ r.relic \in CodexIds("relics")
        BY <1>3, RequestShape DEF OnBoard
    <2>3. QED
        BY <2>1, <2>2 DEF Next, LineupStep
<1>4. CASE r.kind = "updateLineup"
    <2>1. UpdateLineup(r.lineup, r.pro, r.label, r.placement, r.result)
        BY <1>4 DEF Write
    <2>2. /\ r.lineup \in LineupIds /\ r.pro \in CodexIds("pros") \cup {NoPro}
          /\ r.label \in Labels /\ r.placement \in Placements /\ r.result \in Results
        BY <1>4, <2>1, RequestShape DEF OnBoard, UpdateLineup
    <2>3. QED
        BY <2>1, <2>2 DEF Next, LineupStep
<1>5. CASE r.kind = "addLineup"
    <2>1. AddLineup(r.match, r.pro, r.label, r.placement, r.result, << >>, {})
        BY <1>5 DEF Write
    <2>2. /\ r.match \in MatchIds /\ r.pro \in CodexIds("pros") \cup {NoPro}
          /\ r.label \in Labels /\ r.placement \in Placements /\ r.result \in Results
        BY <1>5, <2>1, RequestShape DEF AddLineup
    <2>3. {} \in SUBSET CodexIds("relics")
        OBVIOUS
    <2>4. LineupStep
        BY <2>1, <2>2, <2>3 DEF LineupStep
    <2>5. QED
        BY <2>4 DEF Next
<1>6. CASE r.kind \in {"copyLineup", "deleteLineup"}
    <2>1. CopyLineup(r.lineup) \/ DeleteLineup(r.lineup)
        BY <1>6 DEF Write
    <2>2. r.lineup \in LineupIds
        BY <1>6, RequestShape DEF OnBoard
    <2>3. QED
        BY <2>1, <2>2 DEF Next, LineupStep
<1>7. CASE r.kind = "finalize"
    <2>1. \E now \in 1..MaxTime : FinalizeMatch(r.match, now)
        BY <1>7 DEF Write
    <2>2. r.match \in MatchIds
        BY <1>7, RequestShape
    <2>3. QED
        BY <2>1, <2>2 DEF Next, MatchStep
<1>8. CASE r.kind = "createMatch"
    <2>1. CreateMatchShell(r.patch, r.source)
        BY <1>8 DEF Write
    <2>2. r.patch \in CodexIds("patches") /\ r.source \in Sources
        BY <1>8, RequestShape
    <2>3. QED
        BY <2>1, <2>2 DEF Next, MatchStep
<1>9. QED
    BY <1>1, <1>2, <1>3, <1>4, <1>5, <1>6, <1>7, <1>8, RequestShape DEF OnBoard

-----------------------------------------------------------------------------
(* Handlers.                                                               *)

\* The handlers that go straight to the store.
Blind == {"deleteLineup", "finalize", "createMatch"}

\* What is left of Valid once the handler writes: what the form names was part of
\* the match it names, and the count it compared with the cap left room.
Checked(r, v) ==
    /\ r.kind \in OnCell => SlotInView(v, r.slot)
    /\ r.kind \in OnBoard => LineupInView(v, r.lineup)
    /\ r.kind = "addSlot" => ValidateAddSlot(Cardinality(ViewSlotsOf(v, r.lineup)))
    /\ r.kind = "attachItem" => ValidateAddItem(Total(v.items[r.slot]))

IsView(v) == v = [match |-> v.match, lineups |-> v.lineups, slots |-> v.slots,
                  items |-> v.items, relics |-> v.relics]

\* Where a handler is says what it serves: a load for the detail page never reaches
\* a write, and a handler that writes after a load has passed its checks.
Placed(phase, r, v) ==
    /\ phase = "idle" <=> r = NoRequest
    /\ phase # "idle" => r \in Requests
    /\ phase = "draft" => r.kind \in {"addLineup", "copyLineup"}
    /\ phase = "shown" => r.kind = "matchDetail"
    /\ phase \in {"loaded", "write"} => r.kind # "matchDetail"
    /\ phase \notin {"idle", "draft", "write"} => r.kind \notin Blind
    /\ phase = "write" => Checked(r, v)

Handlers ==
    /\ pc \in [Workers -> Phases]
    /\ req \in [Workers -> Requests \cup {NoRequest}]
    /\ DOMAIN view = Workers
    /\ \A w \in Workers : IsView(view[w]) /\ Placed(pc[w], req[w], view[w])

LEMMA HandlersInit == EditorInit => Handlers
BY DEF EditorInit, Handlers, Placed, IsView, NoView, Phases

\* A step of one handler changes the local state of that handler alone.
LEMMA OneHandler ==
    ASSUME Handlers, NEW w \in Workers, Handle(w)
    PROVE  /\ DOMAIN pc' = Workers /\ DOMAIN req' = Workers /\ DOMAIN view' = Workers
           /\ \A u \in Workers \ {w} : pc'[u] = pc[u] /\ req'[u] = req[u] /\ view'[u] = view[u]
BY DEF Handlers, Handle, Accept, CheckDraft, ReadMatch, ReadLineups, ReadSlots, ReadItems,
       ReadRelics, Validate, Commit, GiveUp, Finish, Goto

LEMMA NoRequestKind == NoRequest.kind = "none" /\ NoRequest \notin Requests
<1>1. NoRequest.kind = "none"
    BY DEF NoRequest
<1>2. QED
    BY <1>1, RequestShape DEF OnCell, OnBoard

LEMMA PlacedAccept ==
    ASSUME Handlers, NEW w \in Workers, NEW r \in Requests, Accept(w, r)
    PROVE  pc'[w] \in Phases /\ IsView(view'[w]) /\ Placed(pc'[w], req'[w], view'[w])
<1>1. pc'[w] = FirstStep(r) /\ req'[w] = r /\ view'[w] = view[w]
    BY DEF Accept, Goto, Handlers
<1>2. r # NoRequest
    BY NoRequestKind
<1>3. r.kind \in {"addLineup", "copyLineup"} => FirstStep(r) = "draft"
    BY DEF FirstStep
<1>4. r.kind \in Blind => FirstStep(r) = "write"
    BY DEF FirstStep, Blind
<1>5. r.kind \notin {"addLineup", "copyLineup"} \cup Blind => FirstStep(r) = "match"
    BY DEF FirstStep, Blind
<1>6. r.kind \in Blind => Checked(r, view[w])
    BY DEF Checked, Blind, OnCell, OnBoard
<1>7. IsView(view[w])
    BY DEF Handlers
<1>8. CASE r.kind \in {"addLineup", "copyLineup"}
    BY <1>1, <1>2, <1>3, <1>7, <1>8 DEF Placed, Phases, Blind
<1>9. CASE r.kind \in Blind
    BY <1>1, <1>2, <1>4, <1>6, <1>7, <1>9 DEF Placed, Phases, Blind
<1>10. CASE r.kind \notin {"addLineup", "copyLineup"} \cup Blind
    BY <1>1, <1>2, <1>5, <1>7, <1>10 DEF Placed, Phases, Blind
<1>11. QED
    BY <1>8, <1>9, <1>10

\* What the five reads leave in the view: each replaces one field of it.
LEMMA FieldReplaced ==
    ASSUME NEW v, IsView(v), NEW n, NEW x
    PROVE  /\ n = [v EXCEPT !.match = x] =>
                /\ IsView(n)
                /\ n.match = x
                /\ n.lineups = v.lineups
                /\ n.slots = v.slots
                /\ n.items = v.items
                /\ n.relics = v.relics
           /\ n = [v EXCEPT !.lineups = x] =>
                /\ IsView(n)
                /\ n.match = v.match
                /\ n.lineups = x
                /\ n.slots = v.slots
                /\ n.items = v.items
                /\ n.relics = v.relics
           /\ n = [v EXCEPT !.slots = x] =>
                /\ IsView(n)
                /\ n.match = v.match
                /\ n.lineups = v.lineups
                /\ n.slots = x
                /\ n.items = v.items
                /\ n.relics = v.relics
           /\ n = [v EXCEPT !.items = x] =>
                /\ IsView(n)
                /\ n.match = v.match
                /\ n.lineups = v.lineups
                /\ n.slots = v.slots
                /\ n.items = x
                /\ n.relics = v.relics
           /\ n = [v EXCEPT !.relics = x] =>
                /\ IsView(n)
                /\ n.match = v.match
                /\ n.lineups = v.lineups
                /\ n.slots = v.slots
                /\ n.items = v.items
                /\ n.relics = x
BY DEF IsView

LEMMA ViewMatch ==
    ASSUME Handlers, NEW w \in Workers, ReadMatch(w)
    PROVE  /\ IsView(view'[w])
           /\ view'[w].match = matches[req[w].match]
           /\ view'[w].lineups = view[w].lineups
           /\ view'[w].slots = view[w].slots
           /\ view'[w].items = view[w].items
           /\ view'[w].relics = view[w].relics
<1> DEFINE read == matches[req[w].match]
<1>1. view'[w] = [view[w] EXCEPT !.match = read]
    BY DEF ReadMatch, Handlers
<1>2. IsView(view[w])
    BY DEF Handlers
<1> HIDE DEF read
<1>3. /\ IsView(view'[w])
      /\ view'[w].match = read
      /\ view'[w].lineups = view[w].lineups
      /\ view'[w].slots = view[w].slots
      /\ view'[w].items = view[w].items
      /\ view'[w].relics = view[w].relics
    BY <1>1, <1>2, FieldReplaced, SMT
<1>4. QED
    BY <1>3 DEF read

LEMMA ViewLineups ==
    ASSUME Handlers, NEW w \in Workers, ReadLineups(w)
    PROVE  /\ IsView(view'[w])
           /\ view'[w].match = view[w].match
           /\ view'[w].lineups = [l \in LineupsOf(req[w].match) |-> lineups[l]]
           /\ view'[w].slots = view[w].slots
           /\ view'[w].items = view[w].items
           /\ view'[w].relics = view[w].relics
<1> DEFINE read == [l \in LineupsOf(req[w].match) |-> lineups[l]]
<1>1. view'[w] = [view[w] EXCEPT !.lineups = read]
    BY DEF ReadLineups, Handlers
<1>2. IsView(view[w])
    BY DEF Handlers
<1> HIDE DEF read
<1>3. /\ IsView(view'[w])
      /\ view'[w].match = view[w].match
      /\ view'[w].lineups = read
      /\ view'[w].slots = view[w].slots
      /\ view'[w].items = view[w].items
      /\ view'[w].relics = view[w].relics
    BY <1>1, <1>2, FieldReplaced, SMT
<1>4. QED
    BY <1>3 DEF read

LEMMA ViewSlots ==
    ASSUME Handlers, NEW w \in Workers, ReadSlots(w)
    PROVE  /\ IsView(view'[w])
           /\ view'[w].match = view[w].match
           /\ view'[w].lineups = view[w].lineups
           /\ view'[w].slots = [s \in UNION {SlotsOf(l) : l \in DOMAIN view[w].lineups} |-> slots[s]]
           /\ view'[w].items = view[w].items
           /\ view'[w].relics = view[w].relics
<1> DEFINE read == [s \in UNION {SlotsOf(l) : l \in DOMAIN view[w].lineups} |-> slots[s]]
<1>1. view'[w] = [view[w] EXCEPT !.slots = read]
    BY DEF ReadSlots, Handlers
<1>2. IsView(view[w])
    BY DEF Handlers
<1> HIDE DEF read
<1>3. /\ IsView(view'[w])
      /\ view'[w].match = view[w].match
      /\ view'[w].lineups = view[w].lineups
      /\ view'[w].slots = read
      /\ view'[w].items = view[w].items
      /\ view'[w].relics = view[w].relics
    BY <1>1, <1>2, FieldReplaced, SMT
<1>4. QED
    BY <1>3 DEF read

LEMMA ViewItems ==
    ASSUME Handlers, NEW w \in Workers, ReadItems(w)
    PROVE  /\ IsView(view'[w])
           /\ view'[w].match = view[w].match
           /\ view'[w].lineups = view[w].lineups
           /\ view'[w].slots = view[w].slots
           /\ view'[w].items = [s \in DOMAIN view[w].slots |->
                        IF s \in DOMAIN slotItems THEN slotItems[s] ELSE NoItems]
           /\ view'[w].relics = view[w].relics
<1> DEFINE read == [s \in DOMAIN view[w].slots |->
                   IF s \in DOMAIN slotItems THEN slotItems[s] ELSE NoItems]
<1>1. view'[w] = [view[w] EXCEPT !.items = read]
    BY DEF ReadItems, Handlers
<1>2. IsView(view[w])
    BY DEF Handlers
<1> HIDE DEF read
<1>3. /\ IsView(view'[w])
      /\ view'[w].match = view[w].match
      /\ view'[w].lineups = view[w].lineups
      /\ view'[w].slots = view[w].slots
      /\ view'[w].items = read
      /\ view'[w].relics = view[w].relics
    BY <1>1, <1>2, FieldReplaced, SMT
<1>4. QED
    BY <1>3 DEF read

LEMMA ViewRelics ==
    ASSUME Handlers, NEW w \in Workers, ReadRelics(w)
    PROVE  /\ IsView(view'[w])
           /\ view'[w].match = view[w].match
           /\ view'[w].lineups = view[w].lineups
           /\ view'[w].slots = view[w].slots
           /\ view'[w].items = view[w].items
           /\ view'[w].relics = [l \in DOMAIN view[w].lineups |->
                        IF l \in DOMAIN lineupRelics THEN lineupRelics[l] ELSE {}]
<1> DEFINE read == [l \in DOMAIN view[w].lineups |->
                   IF l \in DOMAIN lineupRelics THEN lineupRelics[l] ELSE {}]
<1>1. view'[w] = [view[w] EXCEPT !.relics = read]
    BY DEF ReadRelics, Handlers
<1>2. IsView(view[w])
    BY DEF Handlers
<1> HIDE DEF read
<1>3. /\ IsView(view'[w])
      /\ view'[w].match = view[w].match
      /\ view'[w].lineups = view[w].lineups
      /\ view'[w].slots = view[w].slots
      /\ view'[w].items = view[w].items
      /\ view'[w].relics = read
    BY <1>1, <1>2, FieldReplaced, SMT
<1>4. QED
    BY <1>3 DEF read

Reading(w) == ReadMatch(w) \/ ReadLineups(w) \/ ReadSlots(w) \/ ReadItems(w) \/ ReadRelics(w)

LEMMA PlacedRead ==
    ASSUME Handlers, NEW w \in Workers, Reading(w)
    PROVE  pc'[w] \in Phases /\ IsView(view'[w]) /\ Placed(pc'[w], req'[w], view'[w])
<1>1. IsView(view'[w])
    BY ViewMatch, ViewLineups, ViewSlots, ViewItems, ViewRelics DEF Reading
<1>2. /\ req'[w] = req[w]
      /\ pc[w] \in {"match", "lineups", "slots", "items", "relics"}
      /\ pc'[w] \in {"lineups", "slots", "items", "relics", "loaded", "shown"}
      /\ pc'[w] = "shown" => req[w].kind = "matchDetail"
      /\ pc'[w] = "loaded" => req[w].kind # "matchDetail"
    BY DEF Reading, ReadMatch, ReadLineups, ReadSlots, ReadItems, ReadRelics, Goto, Handlers
<1>3. Placed(pc[w], req[w], view[w])
    BY DEF Handlers
<1>4. QED
    BY <1>1, <1>2, <1>3 DEF Placed, Phases

LEMMA PlacedOther ==
    ASSUME Handlers, NEW w \in Workers, CheckDraft(w) \/ Validate(w)
    PROVE  pc'[w] \in Phases /\ IsView(view'[w]) /\ Placed(pc'[w], req'[w], view'[w])
<1>1. IsView(view'[w]) /\ Placed(pc[w], req[w], view[w]) /\ req'[w] = req[w] /\ view'[w] = view[w]
    BY DEF CheckDraft, Validate, Handlers
<1>2. CASE CheckDraft(w)
    <2>1. pc[w] = "draft" /\ pc'[w] = "match"
        BY <1>2 DEF CheckDraft, Goto, Handlers
    <2>2. QED
        BY <1>1, <2>1 DEF Placed, Phases, Blind
<1>3. CASE Validate(w)
    <2>1. pc[w] = "loaded" /\ pc'[w] = "write" /\ Valid(req[w], view[w])
        BY <1>3 DEF Validate, Goto, Handlers
    <2>2. Checked(req[w], view[w])
        BY <2>1 DEF Valid, Checked, AddSlotChecks, AttachItemChecks
    <2>3. QED
        BY <1>1, <2>1, <2>2 DEF Placed, Phases
<1>4. QED
    BY <1>2, <1>3

LEMMA PlacedFinish ==
    ASSUME Handlers, NEW w \in Workers, Finish(w)
    PROVE  pc'[w] = "idle" /\ req'[w] = NoRequest /\ view'[w] = NoView
           /\ IsView(view'[w]) /\ Placed(pc'[w], req'[w], view'[w])
BY DEF Finish, Goto, Handlers, Placed, IsView, NoView

LEMMA HandlersStep == Handlers /\ [EditorNext]_vars => Handlers'
<1> SUFFICES ASSUME Handlers, [EditorNext]_vars PROVE Handlers'
    OBVIOUS
<1>1. ASSUME NEW w \in Workers, Handle(w) PROVE Handlers'
    <2>1. pc'[w] \in Phases /\ IsView(view'[w]) /\ Placed(pc'[w], req'[w], view'[w])
        <3>1. CASE \E r \in Requests : Accept(w, r)
            BY <3>1, PlacedAccept
        <3>2. CASE Reading(w)
            BY <3>2, PlacedRead
        <3>3. CASE CheckDraft(w) \/ Validate(w)
            BY <3>3, PlacedOther
        <3>4. CASE Finish(w)
            BY <3>4, PlacedFinish DEF Phases
        <3>5. QED
            BY <1>1, <3>1, <3>2, <3>3, <3>4 DEF Handle, Reading, Commit, GiveUp
    <2>2. /\ DOMAIN view' = Workers
          /\ \A u \in Workers \ {w} : pc'[u] = pc[u] /\ req'[u] = req[u] /\ view'[u] = view[u]
        BY <1>1, OneHandler
    <2>3. \A u \in Workers : pc'[u] \in Phases /\ IsView(view'[u]) /\ Placed(pc'[u], req'[u], view'[u])
        BY <2>1, <2>2 DEF Handlers
    <2>4. pc' = [u \in Workers |-> pc'[u]] /\ req' = [u \in Workers |-> req'[u]]
        BY <1>1 DEF Handlers, Handle, Accept, CheckDraft, ReadMatch, ReadLineups, ReadSlots,
                    ReadItems, ReadRelics, Validate, Commit, GiveUp, Finish, Goto
    <2>5. \A u \in Workers : req'[u] \in Requests \cup {NoRequest}
        BY <2>3 DEF Placed
    <2>6. QED
        BY <2>2, <2>3, <2>4, <2>5 DEF Handlers
<1>2. CASE UNCHANGED vars
    BY <1>2 DEF vars, editor, Handlers
<1>3. QED
    BY <1>1, <1>2 DEF EditorNext

-----------------------------------------------------------------------------
(* The handlers implement the store.                                       *)

LEMMA CommitIsStep ==
    ASSUME << >> \in BoardInputs, Handlers, NEW w \in Workers, Commit(w)
    PROVE  Next
<1>1. pc[w] = "write" /\ Write(req[w]) /\ Placed(pc[w], req[w], view[w])
    BY DEF Commit, Handlers
<1>2. req[w] \in Requests /\ req[w].kind # "matchDetail"
    BY <1>1 DEF Placed
<1>3. QED
    BY <1>1, <1>2, WriteIsStep

LEMMA StoreStep ==
    ASSUME << >> \in BoardInputs
    PROVE  Handlers /\ [EditorNext]_vars => [Next]_store
<1> SUFFICES ASSUME Handlers, [EditorNext]_vars PROVE [Next]_store
    OBVIOUS
<1>1. ASSUME NEW w \in Workers, Handle(w) PROVE [Next]_store
    <2>1. CASE Commit(w)
        BY <2>1, CommitIsStep
    <2>2. CASE ~Commit(w)
        BY <1>1, <2>2 DEF Handle, Accept, CheckDraft, ReadMatch, ReadLineups, ReadSlots,
                          ReadItems, ReadRelics, Validate, GiveUp
    <2>3. QED
        BY <2>1, <2>2
<1>2. CASE UNCHANGED vars
    BY <1>2 DEF vars
<1>3. QED
    BY <1>1, <1>2 DEF EditorNext

LEMMA HandlersAlways == EditorSpec => []Handlers
BY HandlersInit, HandlersStep, PTL DEF EditorSpec

\* However the requests interleave (slots.go, lineups.go, matches.go under the http
\* server), the tables change as the store's own operations change them and in no
\* other way: whatever holds of the store holds of the editor.
THEOREM EditorImplementsStore ==
    ASSUME << >> \in BoardInputs
    PROVE  EditorSpec => Spec
<1>1. EditorInit => Init
    BY DEF EditorInit
<1>2. Handlers /\ [EditorNext]_vars => [Next]_store
    BY StoreStep
<1>3. QED
    BY <1>1, <1>2, HandlersAlways, PTL DEF EditorSpec, Spec

\* Whatever the tabs send and however their requests overlap, what happens to the
\* matches is a series of edits of the book of games, each of one draft.
THEOREM EditorImplementsBook ==
    ASSUME << >> \in BoardInputs
    PROVE  EditorSpec => ImplementsBook
BY EditorImplementsStore, StoreImplementsBook, PTL

\* Type correctness of the handlers over the store.
THEOREM EditorTypeCorrect ==
    ASSUME << >> \in BoardInputs
    PROVE  EditorSpec => []EditorTypeOK
<1>1. Handlers /\ TypeOK => EditorTypeOK
    BY DEF Handlers, EditorTypeOK, Placed
<1>2. QED
    BY <1>1, HandlersAlways, EditorImplementsStore, TypeCorrect, PTL

\* Under any mixture of handlers a match holds one lineup per placement: the two tabs
\* that both found a placement free (entry.go:60) cannot both take it.
THEOREM EditorPlacements ==
    ASSUME << >> \in BoardInputs
    PROVE  EditorSpec => []PlacementsUnique
BY EditorImplementsStore, PlacementsStayUnique, PTL

\* Under any mixture of handlers a finalized match carries what its source demands,
\* although a handler may have checked "draft" long before it writes.
THEOREM EditorFinalizedLegal ==
    ASSUME << >> \in BoardInputs
    PROVE  EditorSpec => []FinalizedLegal
BY EditorImplementsStore, FinalizedStaysLegal, PTL

-----------------------------------------------------------------------------
(* The detail page of a finalized match.                                   *)

\* What a handler at `phase` has read so far are the rows of one match.
Agrees(phase, v, rows) ==
    /\ v.match = rows.match
    /\ phase # "lineups" => v.lineups = rows.boards
    /\ phase \notin {"lineups", "slots"} => v.slots = rows.cells
    /\ phase \notin {"lineups", "slots", "items"} => v.items = rows.items
    /\ phase \notin {"lineups", "slots", "items", "relics"} => v.relics = rows.relics

\* The five reads take place at different times, but once the first of them saw the
\* finalized marker the rows stand still.
Snapshot(w) ==
    pc[w] \in {"lineups", "slots", "items", "relics", "shown"}
        /\ view[w].match.finalizedAt > 0 =>
            /\ req[w].match \in DOMAIN matches
            /\ Agrees(pc[w], view[w], MatchRows(req[w].match))

LEMMA RowsAre ==
    ASSUME NEW m
    PROVE  /\ MatchRows(m).match = matches[m]
           /\ MatchRows(m).boards = [l \in LineupsOf(m) |-> lineups[l]]
           /\ MatchRows(m).relics = [l \in LineupsOf(m) |-> lineupRelics[l]]
           /\ MatchRows(m).cells = [s \in UNION {SlotsOf(l) : l \in LineupsOf(m)} |-> slots[s]]
           /\ MatchRows(m).items = [s \in UNION {SlotsOf(l) : l \in LineupsOf(m)} |-> slotItems[s]]
BY DEF MatchRows

\* A read of the next table extends the agreement to it.
LEMMA AgreesRead ==
    ASSUME Shape, Handlers, NEW w \in Workers, Reading(w),
           \/ pc[w] = "match"
           \/ Agrees(pc[w], view[w], MatchRows(req[w].match))
    PROVE  Agrees(pc'[w], view'[w], MatchRows(req[w].match))
<1> DEFINE m == req[w].match
           rows == MatchRows(m)
           v == view[w]
           cells == UNION {SlotsOf(l) : l \in LineupsOf(m)}
<1>1. CASE ReadMatch(w)
    <2>1. pc'[w] = "lineups"
        BY <1>1 DEF ReadMatch, Goto, Handlers
    <2>2. view'[w].match = rows.match
        BY <1>1, ViewMatch, RowsAre
    <2>3. QED
        BY <2>1, <2>2 DEF Agrees
<1>2. CASE ReadLineups(w)
    <2>1. pc[w] = "lineups" /\ pc'[w] = "slots"
        BY <1>2 DEF ReadLineups, Goto, Handlers
    <2>2. view'[w].match = v.match /\ view'[w].lineups = rows.boards
        BY <1>2, ViewLineups, RowsAre
    <2>3. v.match = rows.match
        BY <2>1 DEF Agrees
    <2>4. QED
        BY <2>1, <2>2, <2>3 DEF Agrees
<1>3. CASE ReadSlots(w)
    <2>1. pc[w] = "slots" /\ pc'[w] = "items"
        BY <1>3 DEF ReadSlots, Goto, Handlers
    <2>2. v.match = rows.match /\ v.lineups = rows.boards
        BY <2>1 DEF Agrees
    <2>0. v.lineups = [l \in LineupsOf(m) |-> lineups[l]]
        BY <2>2, RowsAre, Zenon
    <2>3. DOMAIN v.lineups = LineupsOf(m)
        BY <2>0
    <2>4. /\ view'[w].match = v.match /\ view'[w].lineups = v.lineups
          /\ view'[w].slots = [s \in cells |-> slots[s]]
        BY <1>3, <2>3, ViewSlots
    <2>5. view'[w].slots = rows.cells
        BY <2>4, RowsAre
    <2>6. QED
        BY <2>1, <2>2, <2>4, <2>5 DEF Agrees
<1>4. CASE ReadItems(w)
    <2>1. pc[w] = "items" /\ pc'[w] = "relics"
        BY <1>4 DEF ReadItems, Goto, Handlers
    <2>2. v.match = rows.match /\ v.lineups = rows.boards /\ v.slots = rows.cells
        BY <2>1 DEF Agrees
    <2>0. v.slots = [s \in cells |-> slots[s]]
        BY <2>2, RowsAre, Zenon
    <2>3. DOMAIN v.slots = cells
        BY <2>0
    <2>4. cells \subseteq DOMAIN slotItems
        BY DEF Shape, OwnersExist, SlotsOf
    <2>5. /\ view'[w].match = v.match /\ view'[w].lineups = v.lineups /\ view'[w].slots = v.slots
          /\ view'[w].items = [s \in DOMAIN v.slots |->
                                  IF s \in DOMAIN slotItems THEN slotItems[s] ELSE NoItems]
        BY <1>4, ViewItems
    <2> HIDE DEF cells, v
    <2>6. view'[w].items = [s \in cells |-> slotItems[s]]
        BY <2>3, <2>4, <2>5
    <2>7. view'[w].items = rows.items
        BY <2>6, RowsAre DEF cells
    <2>8. QED
        BY <2>1, <2>2, <2>5, <2>7 DEF Agrees
<1>5. CASE ReadRelics(w)
    <2>1. pc[w] = "relics" /\ pc'[w] \in {"loaded", "shown"}
        BY <1>5 DEF ReadRelics, Goto, Handlers
    <2>2. v.match = rows.match /\ v.lineups = rows.boards /\ v.slots = rows.cells /\ v.items = rows.items
        BY <2>1 DEF Agrees
    <2>0. v.lineups = [l \in LineupsOf(m) |-> lineups[l]]
        BY <2>2, RowsAre, Zenon
    <2>3. DOMAIN v.lineups = LineupsOf(m) /\ LineupsOf(m) \subseteq DOMAIN lineupRelics
        BY <2>0 DEF Shape, OwnersExist, LineupsOf
    <2>4. /\ view'[w].match = v.match /\ view'[w].lineups = v.lineups /\ view'[w].slots = v.slots
          /\ view'[w].items = v.items
          /\ view'[w].relics = [l \in DOMAIN v.lineups |->
                                   IF l \in DOMAIN lineupRelics THEN lineupRelics[l] ELSE {}]
        BY <1>5, ViewRelics
    <2> HIDE DEF v
    <2>5. view'[w].relics = [l \in LineupsOf(m) |-> lineupRelics[l]]
        BY <2>3, <2>4
    <2>6. view'[w].relics = rows.relics
        BY <2>5, RowsAre
    <2>7. QED
        BY <2>1, <2>2, <2>4, <2>6 DEF Agrees
<1>6. QED
    BY <1>1, <1>2, <1>3, <1>4, <1>5 DEF Reading

LEMMA StoreStill ==
    ASSUME NEW w \in Workers, Reading(w) \/ CheckDraft(w) \/ Validate(w) \/ GiveUp(w)
                              \/ \E r \in Requests : Accept(w, r)
    PROVE  store' = store
BY DEF Reading, ReadMatch, ReadLineups, ReadSlots, ReadItems, ReadRelics, CheckDraft,
       Validate, GiveUp, Accept

LEMMA RowsStill == ASSUME store' = store, NEW m PROVE MatchRows(m)' = MatchRows(m)
BY DEF store, MatchRows, LineupsOf, SlotsOf

LEMMA SnapshotOwn ==
    ASSUME Shape, Handlers, NEW w \in Workers, Handle(w), Snapshot(w)
    PROVE  Snapshot(w)'
<1>1. CASE Reading(w)
    <2>1. store' = store /\ req'[w] = req[w]
        BY <1>1, StoreStill DEF Reading, ReadMatch, ReadLineups, ReadSlots, ReadItems, ReadRelics
    <2>2. SUFFICES ASSUME pc'[w] \in {"lineups", "slots", "items", "relics", "shown"},
                          view'[w].match.finalizedAt > 0
                   PROVE  /\ req[w].match \in DOMAIN matches
                          /\ Agrees(pc'[w], view'[w], MatchRows(req[w].match))
        BY <2>1, RowsStill DEF Snapshot, store
    <2>3. CASE ReadMatch(w)
        BY <1>1, <2>3, AgreesRead DEF ReadMatch
    <2>4. CASE ~ReadMatch(w)
        <3>1. /\ view'[w].match = view[w].match
              /\ pc[w] \in {"lineups", "slots", "items", "relics"}
            BY <1>1, <2>4, ViewLineups, ViewSlots, ViewItems, ViewRelics
               DEF Reading, ReadLineups, ReadSlots, ReadItems, ReadRelics
        <3>2. req[w].match \in DOMAIN matches /\ Agrees(pc[w], view[w], MatchRows(req[w].match))
            BY <2>2, <3>1 DEF Snapshot
        <3>3. QED
            BY <1>1, <3>2, AgreesRead
    <2>5. QED
        BY <2>3, <2>4
<1>2. CASE ~Reading(w)
    <2>1. pc'[w] \in {"draft", "match", "write", "idle"}
        BY <1>2 DEF Handle, Reading, Accept, FirstStep, CheckDraft, Validate, Commit, GiveUp,
                    Finish, Goto, Handlers
    <2>2. QED
        BY <2>1 DEF Snapshot
<1>3. QED
    BY <1>1, <1>2

LEMMA SnapshotOther ==
    ASSUME << >> \in BoardInputs, Shape, Handlers, NEW w \in Workers, Handle(w),
           NEW u \in Workers \ {w}, Snapshot(u)
    PROVE  Snapshot(u)'
<1>1. pc'[u] = pc[u] /\ req'[u] = req[u] /\ view'[u] = view[u]
    BY OneHandler
<1>2. SUFFICES ASSUME NEW m, m = req[u].match,
                      pc[u] \in {"lineups", "slots", "items", "relics", "shown"},
                      view[u].match.finalizedAt > 0
               PROVE  m \in DOMAIN matches' /\ Agrees(pc[u], view[u], MatchRows(m)')
    BY <1>1 DEF Snapshot
<1>3. m \in DOMAIN matches /\ Agrees(pc[u], view[u], MatchRows(m))
    BY <1>2 DEF Snapshot
<1>4. matches[m].finalizedAt > 0
    BY <1>2, <1>3, RowsAre DEF Agrees
<1>5. m \in DOMAIN matches' /\ MatchRows(m)' = MatchRows(m)
    <2>1. CASE Commit(w)
        <3>1. Frozen
            BY <2>1, CommitIsStep, FrozenStep
        <3>2. QED
            BY <1>3, <1>4, <3>1 DEF Frozen
    <2>2. CASE ~Commit(w)
        <3>1. store' = store
            BY <2>2, StoreStill DEF Handle, Reading
        <3>2. QED
            BY <1>3, <3>1, RowsStill DEF store
    <2>3. QED
        BY <2>1, <2>2
<1>6. QED
    BY <1>3, <1>5

Snapshots == \A w \in Workers : Snapshot(w)

LEMMA SnapshotsStep ==
    ASSUME << >> \in BoardInputs
    PROVE  Shape /\ Handlers /\ Snapshots /\ [EditorNext]_vars => Snapshots'
<1> SUFFICES ASSUME Shape, Handlers, Snapshots, [EditorNext]_vars PROVE Snapshots'
    OBVIOUS
<1>1. ASSUME NEW w \in Workers, Handle(w) PROVE Snapshots'
    BY <1>1, SnapshotOwn, SnapshotOther DEF Snapshots
<1>2. CASE UNCHANGED vars
    <2>1. \A m : MatchRows(m)' = MatchRows(m)
        BY <1>2, RowsStill DEF vars
    <2>2. QED
        BY <1>2, <2>1 DEF vars, editor, store, Snapshots, Snapshot
<1>3. QED
    BY <1>1, <1>2 DEF EditorNext

\* GetMatch runs its five SELECTs one after the other with no transaction around them
\* (match.go:54), and any number of other requests may write in between.  The page
\* of a finalized match nevertheless shows the match as it was finalized.
THEOREM DetailPageExact ==
    ASSUME << >> \in BoardInputs
    PROVE  EditorSpec => []DetailExact
<1>1. EditorInit => Snapshots
    BY DEF EditorInit, Snapshots, Snapshot
<1>2. Shape /\ Handlers /\ Snapshots => DetailExact
    <2> SUFFICES ASSUME Shape, Handlers, Snapshots, NEW w \in Workers,
                        pc[w] = "shown", view[w].match.finalizedAt > 0
                 PROVE  LET m == req[w].match
                        IN /\ view[w].match = matches[m]
                           /\ view[w].lineups = [l \in LineupsOf(m) |-> lineups[l]]
                           /\ view[w].slots = [s \in UNION {SlotsOf(l) : l \in LineupsOf(m)} |-> slots[s]]
                           /\ view[w].items = [s \in DOMAIN view[w].slots |-> slotItems[s]]
                           /\ view[w].relics = [l \in LineupsOf(m) |-> lineupRelics[l]]
        BY DEF DetailExact
    <2> DEFINE m == req[w].match
               cells == UNION {SlotsOf(l) : l \in LineupsOf(m)}
    <2>1. Agrees("shown", view[w], MatchRows(m))
        BY DEF Snapshots, Snapshot
    <2>2. /\ view[w].match = matches[m]
          /\ view[w].lineups = [l \in LineupsOf(m) |-> lineups[l]]
          /\ view[w].slots = [s \in cells |-> slots[s]]
          /\ view[w].items = [s \in cells |-> slotItems[s]]
          /\ view[w].relics = [l \in LineupsOf(m) |-> lineupRelics[l]]
        BY <2>1, RowsAre DEF Agrees
    <2>3. DOMAIN view[w].slots = cells
        BY <2>2
    <2>4. QED
        BY <2>2, <2>3
<1>3. QED
    BY <1>1, <1>2, SnapshotsStep, HandlersAlways, EditorImplementsStore, ShapeAlways, PTL
       DEF EditorSpec

-----------------------------------------------------------------------------
(* One request at a time.                                                  *)

\* With no other request in between, what a handler has read is what is there.
FreshView(w) ==
    \/ pc[w] \in {"idle", "draft", "match"}
    \/ pc[w] = "write" /\ req[w].kind \in Blind
    \/ Agrees(pc[w], view[w], MatchRows(req[w].match))

FreshViews == \A w \in Workers : FreshView(w)

LEMMA FreshViewsStep ==
    ASSUME NEW u, Workers = {u}
    PROVE  Shape /\ Handlers /\ FreshViews /\ [EditorNext]_vars => FreshViews'
<1> SUFFICES ASSUME Shape, Handlers, FreshViews, [EditorNext]_vars PROVE FreshView(u)'
    BY DEF FreshViews
<1>1. FreshView(u)
    BY DEF FreshViews
<1>2. CASE Handle(u)
    <2>1. CASE Reading(u)
        <3>1. Placed(pc[u], req[u], view[u]) /\ pc[u] \in {"match", "lineups", "slots", "items", "relics"}
            BY <2>1 DEF Handlers, Reading, ReadMatch, ReadLineups, ReadSlots, ReadItems, ReadRelics
        <3>2. Agrees(pc'[u], view'[u], MatchRows(req[u].match))
            BY <1>1, <2>1, <3>1, AgreesRead DEF FreshView
        <3>3. store' = store /\ req'[u] = req[u]
            BY <2>1, StoreStill DEF Reading, ReadMatch, ReadLineups, ReadSlots, ReadItems, ReadRelics
        <3>4. Agrees(pc'[u], view'[u], MatchRows(req[u].match)')
            BY <3>2, <3>3, RowsStill DEF store
        <3>5. QED
            BY <3>3, <3>4 DEF FreshView
    <2>2. CASE Validate(u)
        <3>1. /\ pc[u] = "loaded" /\ pc'[u] = "write" /\ req'[u] = req[u] /\ view'[u] = view[u]
              /\ store' = store
            BY <2>2, StoreStill DEF Validate, Goto, Handlers
        <3>2. Agrees("loaded", view[u], MatchRows(req[u].match))
            BY <1>1, <3>1 DEF FreshView
        <3>3. Agrees("write", view[u], MatchRows(req[u].match))
            BY <3>2 DEF Agrees
        <3>4. Agrees(pc'[u], view'[u], MatchRows(req[u].match)')
            BY <3>1, <3>3, RowsStill DEF store
        <3>5. QED
            BY <3>1, <3>4 DEF FreshView
    <2>3. CASE ~Reading(u) /\ ~Validate(u)
        <3>1. \/ pc'[u] \in {"idle", "draft", "match"}
              \/ pc'[u] = "write" /\ req'[u].kind \in Blind
            BY <1>2, <2>3 DEF Handle, Reading, Accept, FirstStep, CheckDraft, Commit, GiveUp,
                              Finish, Goto, Handlers, Blind
        <3>2. QED
            BY <3>1 DEF FreshView
    <2>4. QED
        BY <2>1, <2>2, <2>3
<1>3. CASE UNCHANGED vars
    <2>1. store' = store /\ pc' = pc /\ req' = req /\ view' = view
        BY <1>3 DEF vars, editor
    <2>2. MatchRows(req[u].match)' = MatchRows(req[u].match)
        BY <2>1, RowsStill DEF store
    <2>3. QED
        BY <1>1, <2>1, <2>2 DEF FreshView
<1>4. QED
    BY <1>2, <1>3 DEF EditorNext

\* A write that has passed the membership check changes rows of one match only.
LEMMA WriteStays ==
    ASSUME Shape, NEW r \in Requests, r.kind \notin {"deleteLineup", "createMatch", "matchDetail"},
           Write(r), << >> \in BoardInputs,
           r.kind \in OnCell => r.slot \in DOMAIN slots /\ MatchOfSlot(r.slot) = r.match,
           r.kind \in OnBoard => r.lineup \in DOMAIN lineups /\ lineups[r.lineup].match = r.match
    PROVE  EditsOnly(r.match)
<1>1. CASE r.kind \in OnCell
    <2>1. \/ SetSlotStars(r.slot, r.stars) \/ DeleteSlot(r.slot)
          \/ AddSlotItem(r.slot, r.item) \/ RemoveSlotItem(r.slot, r.item)
        BY <1>1, RequestShape DEF Write, OnCell
    <2>2. EditsOnly(MatchOfSlot(r.slot))
        BY <2>1, EditsSlot
    <2>3. QED
        BY <1>1, <2>2
<1>2. CASE r.kind \in OnBoard
    <2>1. r.lineup \in LineupIds
        BY <1>2, RequestShape
    <2>2. \/ AddSlot(r.lineup, r.hero, r.stars)
          \/ AddLineupRelic(r.lineup, r.relic) \/ RemoveLineupRelic(r.lineup, r.relic)
          \/ UpdateLineup(r.lineup, r.pro, r.label, r.placement, r.result)
          \/ CopyLineup(r.lineup)
        BY <1>2 DEF Write, OnBoard
    <2>3. EditsOnly(lineups[r.lineup].match)
        BY <2>1, <2>2, EditsAddSlot, EditsLineupRelic, EditsUpdateLineup, EditsCopyLineup
    <2>4. QED
        BY <1>2, <2>3
<1>3. CASE r.kind = "addLineup"
    <2>1. AddLineup(r.match, r.pro, r.label, r.placement, r.result, << >>, {})
        BY <1>3 DEF Write
    <2>2. /\ r.match \in MatchIds /\ r.pro \in CodexIds("pros") \cup {NoPro}
          /\ r.label \in Labels /\ r.placement \in Placements /\ r.result \in Results
          /\ {} \in SUBSET CodexIds("relics")
        BY <1>3, <2>1, RequestShape DEF AddLineup
    <2>3. QED
        BY <2>1, <2>2, EditsAddLineup
<1>4. CASE r.kind = "finalize"
    <2>1. \E now \in 1..MaxTime : FinalizeMatch(r.match, now)
        BY <1>4 DEF Write
    <2>2. QED
        BY <2>1, EditsFinalizeMatch
<1>5. QED
    BY <1>1, <1>2, <1>3, <1>4, RequestShape

\* What the action property says of one step, for one handler and one match.
Strays(w, m) ==
    /\ pc[w] = "write" /\ pc'[w] = "idle"
    /\ req[w].kind \notin {"deleteLineup", "createMatch"}
    /\ req[w].match # m

LEMMA StaysStep ==
    ASSUME << >> \in BoardInputs, NEW u, Workers = {u}, Shape, Handlers, FreshViews, EditorNext,
           NEW m \in DOMAIN matches, Strays(u, m)
    PROVE  MatchRows(m)' = MatchRows(m)
<1> DEFINE r == req[u]
           k == req[u].match
<1>1. Handle(u)
    BY DEF EditorNext
<1>2. CASE Commit(u)
    <2>1. /\ Write(r) /\ r \in Requests /\ r.kind # "matchDetail" /\ Checked(r, view[u])
          /\ pc[u] = "write"
        BY <1>2 DEF Commit, Handlers, Placed
    <2>2. r.kind \notin Blind => Agrees("write", view[u], MatchRows(k))
        BY <2>1 DEF FreshViews, FreshView
    <2>3. r.kind \notin Blind =>
            /\ view[u].lineups = [l \in LineupsOf(k) |-> lineups[l]]
            /\ view[u].slots = [s \in UNION {SlotsOf(l) : l \in LineupsOf(k)} |-> slots[s]]
        BY <2>2, RowsAre DEF Agrees
    <2>4. r.kind \notin Blind =>
            /\ DOMAIN view[u].lineups = LineupsOf(k)
            /\ DOMAIN view[u].slots = UNION {SlotsOf(l) : l \in LineupsOf(k)}
        BY <2>3
    <2>5. r.kind \in OnBoard => r.lineup \in DOMAIN lineups /\ lineups[r.lineup].match = k
        BY <2>1, <2>4 DEF Checked, LineupInView, LineupsOf, OnBoard, Blind
    <2>6. r.kind \in OnCell => r.slot \in DOMAIN slots /\ MatchOfSlot(r.slot) = k
        <3>1. SUFFICES ASSUME r.kind \in OnCell
                       PROVE  r.slot \in DOMAIN slots /\ MatchOfSlot(r.slot) = k
            OBVIOUS
        <3>2. r.slot \in UNION {SlotsOf(l) : l \in LineupsOf(k)}
            BY <2>1, <2>4, <3>1 DEF Checked, SlotInView, OnCell, Blind
        <3>3. PICK l \in LineupsOf(k) : r.slot \in SlotsOf(l)
            BY <3>2
        <3>4. QED
            BY <3>3 DEF SlotsOf, LineupsOf, MatchOfSlot
    <2>7. EditsOnly(k)
        BY <2>1, <2>5, <2>6, WriteStays DEF Strays
    <2>8. Shape' /\ m # k
        BY <1>2, CommitIsStep, ShapeStep DEF Strays
    <2>9. QED
        BY <2>7, <2>8, OtherMatchKept, SameRows
<1>3. CASE ~Commit(u)
    <2>1. store' = store
        BY <1>1, <1>3, StoreStill DEF Handle, Reading
    <2>2. QED
        BY <2>1, RowsStill DEF store
<1>4. QED
    BY <1>2, <1>3

\* "lineup not in view", "slot not in match" (lineups.go, slots.go): whatever ids a
\* form carries, the handler writes to the match the form names or not at all, as long
\* as requests come one at a time.
THEOREM HandlersStayInMatch ==
    ASSUME << >> \in BoardInputs, NEW u, Workers = {u}
    PROVE  EditorSpec => StaysInMatch
<1>1. EditorInit => FreshViews
    BY DEF EditorInit, FreshViews, FreshView
<1>2. Shape /\ Handlers /\ FreshViews /\ [EditorNext]_vars =>
        [\A w \in Workers, m \in DOMAIN matches :
            (/\ pc[w] = "write" /\ pc'[w] = "idle"
             /\ req[w].kind \notin {"deleteLineup", "createMatch"}
             /\ req[w].match # m)
                => MatchRows(m)' = MatchRows(m)]_vars
    BY StaysStep DEF Strays
<1>3. QED
    BY <1>1, <1>2, FreshViewsStep, HandlersAlways, EditorImplementsStore, ShapeAlways, PTL
       DEF EditorSpec, StaysInMatch

-----------------------------------------------------------------------------
(***************************************************************************)
(* How far the caps on a board and on a slot can be overrun when requests  *)
(* race.  The handlers count what they read and write later, so the cap    *)
(* itself is no invariant; what is one is a budget: the rows there are,    *)
(* plus the requests that have already counted and found room, stay below  *)
(* the cap plus the number of requests in flight.                          *)
(***************************************************************************)

(* What a write does to a board.                                           *)

\* A copy holds no more cells than its original.
LEMMA CopyCells ==
    ASSUME Shape, NEW l, NEW new, NEW copies, CopyWrites(l, new, copies)
    PROVE  /\ Cardinality(SlotsOf(new)') <= Cardinality(SlotsOf(l))
           /\ \A k \in DOMAIN lineups : SlotsOf(k)' = SlotsOf(k)
<1>1. /\ new \notin DOMAIN lineups
      /\ DOMAIN slots' = DOMAIN slots \cup copies
      /\ copies \cap DOMAIN slots = {}
      /\ \A s \in DOMAIN slots : slots'[s] = slots[s]
    BY DEF CopyWrites
<1>2. PICK origin \in [copies -> SlotsOf(l)] :
        /\ \A c, d \in copies : origin[c] = origin[d] => c = d
        /\ \A c \in copies : slots'[c] = [slots[origin[c]] EXCEPT !.lineup = new]
    BY DEF CopyWrites
<1>3. \A c \in copies : slots'[c].lineup = new
    <2>1. \A c \in copies : slots[origin[c]] \in SlotRow
        BY DEF Shape, TypeOK, IsTable, SlotsOf
    <2>2. QED
        BY <1>2, <2>1 DEF SlotRow
<1>4. \A s \in DOMAIN slots : slots[s].lineup # new
    BY <1>1 DEF Shape, OwnersExist
<1>5. SlotsOf(new)' = copies
    BY <1>1, <1>3, <1>4 DEF SlotsOf
<1>6. \A k \in DOMAIN lineups : SlotsOf(k)' = SlotsOf(k)
    BY <1>1, <1>3 DEF SlotsOf
<1>7. origin \in Injection(copies, SlotsOf(l))
    BY <1>2 DEF Injection, IsInjective
<1>8. Cardinality(copies) <= Cardinality(SlotsOf(l))
    BY <1>7, SlotsFinite, FS_Injection DEF Shape
<1>9. QED
    BY <1>5, <1>6, <1>8

\* The boards after a write: a board of before loses cells or keeps them, unless it
\* is the one addSlot names; a new board is empty, unless it is a copy.
BoardAfter(r, l) ==
    \/ l \in DOMAIN lineups /\ SlotsOf(l)' \subseteq SlotsOf(l)
    \/ l \notin DOMAIN lineups /\ SlotsOf(l)' = {}
    \/ /\ r.kind = "addSlot" /\ l = r.lineup /\ l \in DOMAIN lineups
       /\ \E new : SlotsOf(l)' = SlotsOf(l) \cup {new}
    \/ /\ r.kind = "copyLineup" /\ r.lineup \in DOMAIN lineups
       /\ Cardinality(SlotsOf(l)') <= Cardinality(SlotsOf(r.lineup))

LEMMA BoardsAfterAddLineup ==
    ASSUME << >> \in BoardInputs, Shape, NEW r \in Requests, r.kind = "addLineup", Write(r),
           NEW l \in DOMAIN lineups'
    PROVE  BoardAfter(r, l)
<1>1. AddLineup(r.match, r.pro, r.label, r.placement, r.result, << >>, {})
    BY DEF Write
<1>2. /\ r.match \in MatchIds /\ r.pro \in CodexIds("pros") \cup {NoPro}
      /\ r.label \in Labels /\ r.placement \in Placements /\ r.result \in Results
      /\ {} \in SUBSET CodexIds("relics")
    BY <1>1, RequestShape DEF AddLineup
<1>3. PICK new \in LineupIds, ids \in SUBSET SlotIds : \E source \in [ids -> DOMAIN << >>] :
        AddWrites(r.match, r.pro, r.label, r.placement, r.result, << >>, {}, new, ids, source)
    BY <1>1, <1>2, AddLineupWrites
<1>4. ids = {}
    BY <1>3
<1>5. /\ new \notin DOMAIN lineups
      /\ DOMAIN lineups' = DOMAIN lineups \cup {new}
      /\ DOMAIN slots' = DOMAIN slots
      /\ \A s \in DOMAIN slots : slots'[s] = slots[s]
    BY <1>3, <1>4 DEF AddWrites, Insert
<1>6. SlotsOf(l)' = SlotsOf(l)
    BY <1>5 DEF SlotsOf
<1>7. l \notin DOMAIN lineups => SlotsOf(l) = {}
    BY DEF SlotsOf, Shape, OwnersExist
<1>8. QED
    BY <1>6, <1>7 DEF BoardAfter

LEMMA BoardsAfter ==
    ASSUME << >> \in BoardInputs, Shape, NEW r \in Requests, r.kind # "matchDetail", Write(r),
           NEW l \in DOMAIN lineups'
    PROVE  BoardAfter(r, l)
<1>1. CASE r.kind = "addSlot"
    <2>1. AddSlot(r.lineup, r.hero, r.stars)
        BY <1>1 DEF Write
    <2>2. PICK high \in Nat :
            /\ high + 1 \notin DOMAIN slots
            /\ slots' = Insert(slots, high + 1,
                               [lineup |-> r.lineup, hero |-> r.hero,
                                index |-> NextSlotIndex(IndexesOf(r.lineup)), stars |-> r.stars])
        <3>1. PICK high \in 0..(MaxSlots - 1) :
                /\ IsHighest(high, DOMAIN slots)
                /\ slots' = Insert(slots, high + 1,
                                   [lineup |-> r.lineup, hero |-> r.hero,
                                    index |-> NextSlotIndex(IndexesOf(r.lineup)), stars |-> r.stars])
            BY <2>1 DEF AddSlot
        <3>2. DOMAIN slots \in SUBSET Nat
            BY DEF Shape, TypeOK, IsTable, SlotIds
        <3>3. QED
            BY <3>1, <3>2, HighestIsFresh
    <2>3. lineups' = lineups /\ r.lineup \in DOMAIN lineups
        BY <2>1 DEF AddSlot, LineupWritable
    <2>4. l # r.lineup => SlotsOf(l)' = SlotsOf(l)
        BY <2>2 DEF SlotsOf, Insert
    <2>5. l = r.lineup => SlotsOf(l)' = SlotsOf(l) \cup {high + 1}
        BY <2>2 DEF SlotsOf, Insert
    <2>6. QED
        BY <1>1, <2>3, <2>4, <2>5 DEF BoardAfter
<1>2. CASE r.kind \in OnCell
    <2>1. \/ SetSlotStars(r.slot, r.stars) \/ AddSlotItem(r.slot, r.item)
          \/ RemoveSlotItem(r.slot, r.item) \/ DeleteSlot(r.slot)
        BY <1>2, RequestShape DEF Write, OnCell
    <2>2. /\ lineups' = lineups /\ DOMAIN slots' \subseteq DOMAIN slots
          /\ \A s \in DOMAIN slots' : slots'[s].lineup = slots[s].lineup
        <3>1. CASE SetSlotStars(r.slot, r.stars)
            <4>1. \A s \in DOMAIN slots : slots[s] \in SlotRow
                BY DEF Shape, TypeOK, IsTable
            <4>2. lineups' = lineups /\ slots' = [slots EXCEPT ![r.slot].stars = r.stars]
                BY <3>1 DEF SetSlotStars
            <4>3. QED
                BY <4>1, <4>2 DEF SlotRow
        <3>2. QED
            BY <2>1, <3>1 DEF AddSlotItem, RemoveSlotItem, DeleteSlot, Without
    <2>3. QED
        BY <2>2 DEF BoardAfter, SlotsOf
<1>3. CASE r.kind \in {"addRelic", "removeRelic", "updateLineup"}
    <2>1. \/ AddLineupRelic(r.lineup, r.relic) \/ RemoveLineupRelic(r.lineup, r.relic)
          \/ UpdateLineup(r.lineup, r.pro, r.label, r.placement, r.result)
        BY <1>3 DEF Write
    <2>2. DOMAIN lineups' = DOMAIN lineups /\ slots' = slots
        BY <2>1 DEF AddLineupRelic, RemoveLineupRelic, UpdateLineup
    <2>3. QED
        BY <2>2 DEF BoardAfter, SlotsOf
<1>4. CASE r.kind = "addLineup"
    BY <1>4, BoardsAfterAddLineup
<1>5. CASE r.kind = "copyLineup"
    <2>1. CopyLineup(r.lineup) /\ r.lineup \in LineupIds
        BY <1>5, RequestShape DEF Write, OnBoard
    <2>2. r.lineup \in DOMAIN lineups
        BY <2>1 DEF CopyLineup, LineupWritable
    <2>3. PICK new \in LineupIds, copies \in SUBSET SlotIds : CopyWrites(r.lineup, new, copies)
        BY <2>1, CopyLineupWrites
    <2>4. DOMAIN lineups' = DOMAIN lineups \cup {new}
        BY <2>3 DEF CopyWrites, Insert
    <2>5. /\ Cardinality(SlotsOf(new)') <= Cardinality(SlotsOf(r.lineup))
          /\ \A k \in DOMAIN lineups : SlotsOf(k)' = SlotsOf(k)
        BY <2>3, CopyCells
    <2>6. CASE l = new
        BY <1>5, <2>2, <2>5, <2>6 DEF BoardAfter
    <2>7. CASE l \in DOMAIN lineups
        BY <2>5, <2>7 DEF BoardAfter
    <2>8. QED
        BY <2>4, <2>6, <2>7
<1>6. CASE r.kind = "deleteLineup"
    <2>1. DeleteLineup(r.lineup)
        BY <1>6 DEF Write
    <2>2. /\ DOMAIN lineups' \subseteq DOMAIN lineups /\ DOMAIN slots' \subseteq DOMAIN slots
          /\ \A s \in DOMAIN slots' : slots'[s] = slots[s]
        BY <2>1 DEF DeleteLineup, Without
    <2>3. QED
        BY <2>2 DEF BoardAfter, SlotsOf
<1>7. CASE r.kind \in {"finalize", "createMatch"}
    <2>1. lineups' = lineups /\ slots' = slots
        BY <1>7 DEF Write, FinalizeMatch, CreateMatchShell
    <2>2. QED
        BY <2>1 DEF BoardAfter, SlotsOf
<1>8. QED
    BY <1>1, <1>2, <1>3, <1>4, <1>5, <1>6, <1>7, RequestShape DEF OnBoard

-----------------------------------------------------------------------------
(* The budget of a board.                                                  *)

\* Requests in flight that have counted the cells of board l and found room.
Carriers(l) ==
    {w \in Workers :
        /\ req[w].kind = "addSlot"
        /\ req[w].lineup = l
        /\ pc[w] \in {"items", "relics", "loaded", "write"}
        /\ LineupInView(view[w], l)
        /\ ValidateAddSlot(Cardinality(ViewSlotsOf(view[w], l)))}

BoardBudget(l) ==
    Cardinality(SlotsOf(l)) + Cardinality(Carriers(l)) < SlotCap + Cardinality(Workers)

BoardRoom == \A l \in DOMAIN lineups : BoardBudget(l)

\* Without copies, or with one request at a time, the budget is kept.
CopiesTame == "copyLineup" \notin Kinds \/ Cardinality(Workers) = 1

LEMMA CarriersFinite ==
    ASSUME IsFiniteSet(Workers), NEW C \in SUBSET Workers
    PROVE  /\ IsFiniteSet(C)
           /\ Cardinality(C) \in Nat /\ Cardinality(Workers) \in Nat
           /\ Cardinality(C) <= Cardinality(Workers)
BY FS_Subset, FS_CardinalityType

\* A step of w that is no read of the cells makes no new carrier.
LEMMA NoNewCarrier ==
    ASSUME Handlers, NEW w \in Workers, Handle(w), ~ReadSlots(w), NEW l
    PROVE  Carriers(l)' \subseteq Carriers(l)
<1>1. \A u \in Workers \ {w} : pc'[u] = pc[u] /\ req'[u] = req[u] /\ view'[u] = view[u]
    BY OneHandler
<1>2. w \in Carriers(l)' => w \in Carriers(l)
    <2>1. CASE Reading(w)
        <3>1. /\ ReadMatch(w) \/ ReadLineups(w) => pc'[w] \in {"lineups", "slots"}
              /\ ReadItems(w) \/ ReadRelics(w) =>
                    /\ pc[w] \in {"items", "relics"} /\ req'[w] = req[w]
                    /\ view'[w].lineups = view[w].lineups /\ view'[w].slots = view[w].slots
            BY ViewItems, ViewRelics
               DEF ReadMatch, ReadLineups, ReadItems, ReadRelics, Goto, Handlers
        <3>2. QED
            BY <2>1, <3>1 DEF Reading, Carriers, LineupInView, ViewSlotsOf
    <2>2. CASE Validate(w)
        <3>1. pc[w] = "loaded" /\ req'[w] = req[w] /\ view'[w] = view[w]
            BY <2>2 DEF Validate
        <3>2. QED
            BY <3>1 DEF Carriers
    <2>3. CASE ~Reading(w) /\ ~Validate(w)
        <3>1. \/ pc'[w] \in {"idle", "draft", "match"}
              \/ pc'[w] = "write" /\ req'[w].kind \in Blind
            BY <2>3 DEF Handle, Reading, Accept, FirstStep, CheckDraft, Commit, GiveUp,
                        Finish, Goto, Handlers, Blind
        <3>2. QED
            BY <3>1 DEF Carriers, Blind
    <2>4. QED
        BY <2>1, <2>2, <2>3
<1>3. \A u \in Workers \ {w} : u \in Carriers(l)' => u \in Carriers(l)
    BY <1>1 DEF Carriers
<1>4. Carriers(l)' \subseteq Workers
    BY DEF Carriers
<1>5. QED
    BY <1>2, <1>3, <1>4

\* A read of the cells makes a carrier only of a board that has room now.
LEMMA RoomAtRead ==
    ASSUME Shape, Handlers, NEW w \in Workers, ReadSlots(w), NEW l \in DOMAIN lineups,
           IsFiniteSet(Workers), BoardBudget(l)
    PROVE  BoardBudget(l)'
<1>1. store' = store /\ req'[w] = req[w] /\ pc'[w] = "items" /\ pc[w] = "slots"
    BY DEF ReadSlots, Goto, Handlers
<1>2. SlotsOf(l)' = SlotsOf(l)
    BY <1>1 DEF store, SlotsOf
<1>3. Cardinality(SlotsOf(l)) \in Nat
    BY SlotsFinite DEF Shape
<1>4. /\ Carriers(l) \in SUBSET Workers /\ Carriers(l)' \in SUBSET Workers
    BY DEF Carriers
<1>5. \A u \in Workers \ {w} : pc'[u] = pc[u] /\ req'[u] = req[u] /\ view'[u] = view[u]
    BY OneHandler DEF Handle
<1>6. CASE w \in Carriers(l)'
    <2>1. l \in DOMAIN view'[w].lineups /\ Cardinality(ViewSlotsOf(view'[w], l)) < SlotCap
        BY <1>6 DEF Carriers, LineupInView, ValidateAddSlot
    <2>2. /\ view'[w].lineups = view[w].lineups
          /\ view'[w].slots = [s \in UNION {SlotsOf(k) : k \in DOMAIN view[w].lineups} |-> slots[s]]
        BY ViewSlots
    <2>3. ViewSlotsOf(view'[w], l) = SlotsOf(l)
        BY <2>1, <2>2 DEF ViewSlotsOf, SlotsOf
    <2>4. Cardinality(SlotsOf(l)) < SlotCap
        BY <2>1, <2>3
    <2>5. QED
        BY <1>2, <1>3, <1>4, <2>4, CarriersFinite, DomainAssumption DEF BoardBudget
<1>7. CASE w \notin Carriers(l)'
    <2>1. Carriers(l)' \subseteq Carriers(l)
        BY <1>5, <1>7 DEF Carriers
    <2>2. Cardinality(Carriers(l)') <= Cardinality(Carriers(l))
        BY <1>4, <2>1, CarriersFinite, FS_Subset
    <2>3. QED
        BY <1>2, <1>3, <1>4, <2>2, CarriersFinite, DomainAssumption DEF BoardBudget
<1>8. QED
    BY <1>6, <1>7

\* A handler that writes has its own place in the budget: it gives it up.
LEMMA RoomAtCommit ==
    ASSUME << >> \in BoardInputs, Shape, Handlers, NEW w \in Workers, Commit(w),
           IsFiniteSet(Workers), CopiesTame, BoardRoom, NEW l \in DOMAIN lineups'
    PROVE  BoardBudget(l)'
<1> DEFINE r == req[w]
<1>1. /\ pc[w] = "write" /\ Write(r) /\ r \in Requests /\ r.kind # "matchDetail"
      /\ Checked(r, view[w])
    BY DEF Commit, Handlers, Placed
<1>2. BoardAfter(r, l)
    BY <1>1, BoardsAfter
<1>3. Shape'
    BY CommitIsStep, ShapeStep
<1>4. Cardinality(SlotsOf(l)') \in Nat /\ \A k : Cardinality(SlotsOf(k)) \in Nat
    <2>0. SlotsOf(l)' \subseteq 1..MaxSlots /\ IsFiniteSet(1..MaxSlots)
        <3>1. SlotsOf(l)' \subseteq 1..MaxSlots
            BY <1>3 DEF Shape, TypeOK, IsTable, SlotsOf, SlotIds
        <3>2. 1 \in Int /\ MaxSlots \in Int
            BY MatchStoreAssumption
        <3>3. QED
            BY <3>1, <3>2, FS_Interval
    <2>1. Cardinality(SlotsOf(l)') \in Nat
        BY <2>0, FS_Subset, FS_CardinalityType
    <2>2. QED
        BY <2>1, SlotsFinite DEF Shape
<1>5. pc'[w] = "idle"
    BY DEF Commit, Finish, Goto, Handlers
<1>6. Carriers(l)' \subseteq Carriers(l) \ {w}
    <2>1. Carriers(l)' \subseteq Carriers(l)
        BY <1>1, NoNewCarrier DEF Handle, ReadSlots
    <2>2. QED
        BY <1>5, <2>1 DEF Carriers
<1>7. Carriers(l) \in SUBSET Workers /\ \A k : Carriers(k) \in SUBSET Workers
    BY DEF Carriers
<1>8. IsFiniteSet(Carriers(l)) /\ Cardinality(Carriers(l)) \in Nat /\ Cardinality(Workers) \in Nat
    BY <1>7, CarriersFinite
<1>9. Cardinality(Carriers(l)') \in Nat /\ Cardinality(Carriers(l)') <= Cardinality(Carriers(l))
    BY <1>6, <1>8, FS_Subset, FS_CardinalityType
<1>10. CASE l \in DOMAIN lineups /\ SlotsOf(l)' \subseteq SlotsOf(l)
    <2>1. Cardinality(SlotsOf(l)') <= Cardinality(SlotsOf(l))
        BY <1>10, SlotsFinite, FS_Subset DEF Shape
    <2>2. BoardBudget(l)
        BY <1>10 DEF BoardRoom
    <2>3. QED
        BY <1>4, <1>8, <1>9, <2>1, <2>2, DomainAssumption DEF BoardBudget
<1>11. CASE l \notin DOMAIN lineups /\ SlotsOf(l)' = {}
    <2>1. Cardinality(SlotsOf(l)') = 0
        BY <1>11, FS_EmptySet
    <2>2. Cardinality(Carriers(l)') <= Cardinality(Workers)
        BY <1>7, <1>8, <1>9, CarriersFinite
    <2>3. QED
        BY <1>4, <1>8, <1>9, <2>1, <2>2, DomainAssumption DEF BoardBudget
<1>12. CASE /\ r.kind = "addSlot" /\ l = r.lineup /\ l \in DOMAIN lineups
            /\ \E new : SlotsOf(l)' = SlotsOf(l) \cup {new}
    <2>1. w \in Carriers(l)
        BY <1>1, <1>12 DEF Carriers, Checked, OnBoard
    <2>2. Cardinality(Carriers(l)') <= Cardinality(Carriers(l)) - 1
        <3>1. /\ IsFiniteSet(Carriers(l) \ {w})
              /\ Cardinality(Carriers(l) \ {w}) = Cardinality(Carriers(l)) - 1
            BY <1>8, <2>1, FS_RemoveElement
        <3>2. QED
            BY <1>6, <3>1, FS_Subset
    <2>3. Cardinality(SlotsOf(l)') <= Cardinality(SlotsOf(l)) + 1
        <3>1. PICK new : SlotsOf(l)' = SlotsOf(l) \cup {new}
            BY <1>12
        <3>2. IsFiniteSet(SlotsOf(l)) /\ Cardinality(SlotsOf(l)) \in Nat
            BY SlotsFinite DEF Shape
        <3>3. Cardinality(SlotsOf(l) \cup {new}) =
                IF new \in SlotsOf(l) THEN Cardinality(SlotsOf(l)) ELSE Cardinality(SlotsOf(l)) + 1
            BY <3>2, FS_AddElement
        <3>4. Cardinality(SlotsOf(l) \cup {new}) <= Cardinality(SlotsOf(l)) + 1
            BY <3>2, <3>3
        <3>5. QED
            BY <3>1, <3>4
    <2>4. BoardBudget(l)
        BY <1>12 DEF BoardRoom
    <2>5. QED
        BY <1>4, <1>8, <1>9, <2>2, <2>3, <2>4, DomainAssumption DEF BoardBudget
<1>13. CASE /\ r.kind = "copyLineup" /\ r.lineup \in DOMAIN lineups
            /\ Cardinality(SlotsOf(l)') <= Cardinality(SlotsOf(r.lineup))
    <2>1. Cardinality(Workers) = 1
        BY <1>1, <1>13, RequestShape DEF CopiesTame
    <2>2. PICK u : Workers = {u}
        BY <2>1, FS_Singleton
    <2>3. Carriers(l)' = {}
        BY <1>6, <1>7, <2>2
    <2>4. Cardinality(Carriers(l)') = 0
        BY <2>3, FS_EmptySet
    <2>5. BoardBudget(r.lineup)
        BY <1>13 DEF BoardRoom
    <2>6. Cardinality(Carriers(r.lineup)) \in Nat
        BY <1>7, CarriersFinite
    <2>7. QED
        BY <1>4, <1>8, <1>13, <2>4, <2>5, <2>6, DomainAssumption DEF BoardBudget
<1>14. QED
    BY <1>2, <1>10, <1>11, <1>12, <1>13 DEF BoardAfter

LEMMA BoardRoomStep ==
    ASSUME << >> \in BoardInputs, IsFiniteSet(Workers), CopiesTame
    PROVE  Shape /\ Handlers /\ BoardRoom /\ [EditorNext]_vars => BoardRoom'
<1> SUFFICES ASSUME Shape, Handlers, BoardRoom, [EditorNext]_vars PROVE BoardRoom'
    OBVIOUS
<1>1. ASSUME NEW w \in Workers, Handle(w) PROVE BoardRoom'
    <2>1. CASE Commit(w)
        BY <2>1, RoomAtCommit DEF BoardRoom
    <2>2. CASE ReadSlots(w)
        <3>1. lineups' = lineups
            BY <2>2 DEF ReadSlots, store
        <3>2. QED
            BY <2>2, <3>1, RoomAtRead DEF BoardRoom
    <2>3. CASE ~Commit(w) /\ ~ReadSlots(w)
        <3>1. store' = store
            BY <1>1, <2>3, StoreStill DEF Handle, Reading
        <3>2. ASSUME NEW l \in DOMAIN lineups PROVE BoardBudget(l)'
            <4>1. SlotsOf(l)' = SlotsOf(l) /\ Cardinality(SlotsOf(l)) \in Nat
                BY <3>1, SlotsFinite DEF store, SlotsOf, Shape
            <4>2. Carriers(l)' \subseteq Carriers(l)
                BY <1>1, <2>3, NoNewCarrier
            <4>3. Carriers(l) \in SUBSET Workers /\ Carriers(l)' \in SUBSET Workers
                BY DEF Carriers
            <4>4. Cardinality(Carriers(l)') <= Cardinality(Carriers(l))
                BY <4>2, <4>3, CarriersFinite, FS_Subset
            <4>5. BoardBudget(l)
                BY DEF BoardRoom
            <4>6. QED
                BY <4>1, <4>3, <4>4, <4>5, CarriersFinite, DomainAssumption DEF BoardBudget
        <3>3. QED
            BY <3>1, <3>2 DEF BoardRoom, store
    <2>4. QED
        BY <2>1, <2>2, <2>3
<1>2. CASE UNCHANGED vars
    BY <1>2 DEF vars, editor, store, BoardRoom, BoardBudget, SlotsOf, Carriers
<1>3. QED
    BY <1>1, <1>2 DEF EditorNext

LEMMA BoardRoomAlways ==
    ASSUME << >> \in BoardInputs, IsFiniteSet(Workers), CopiesTame
    PROVE  EditorSpec => []BoardRoom
<1>1. EditorInit => BoardRoom
    BY DEF EditorInit, Init, BoardRoom
<1>2. QED
    BY <1>1, BoardRoomStep, HandlersAlways, EditorImplementsStore, ShapeAlways, PTL DEF EditorSpec

\* validate.go:12, "a lineup holds at most 12 heroes", when AddSlot requests race: the
\* handler counts the cells it read and the store does not count again (slotwrite.go:11),
\* so every request in flight can carry one cell past the cap, and no more than that.
THEOREM BoardOvershoot ==
    ASSUME << >> \in BoardInputs, IsFiniteSet(Workers),
           "copyLineup" \notin Kinds \/ Cardinality(Workers) = 1
    PROVE  EditorSpec => []OvershootBounded
<1>1. CopiesTame
    BY DEF CopiesTame
<1>2. Shape /\ BoardRoom => OvershootBounded
    <2> SUFFICES ASSUME Shape, BoardRoom, NEW l \in DOMAIN lineups
                 PROVE  Cardinality(SlotsOf(l)) <= SlotCap + Cardinality(Workers) - 1
        BY DEF OvershootBounded
    <2>1. BoardBudget(l)
        BY DEF BoardRoom
    <2>2. Cardinality(SlotsOf(l)) \in Nat
        BY SlotsFinite DEF Shape
    <2>3. Carriers(l) \in SUBSET Workers
        BY DEF Carriers
    <2>4. QED
        BY <2>1, <2>2, <2>3, CarriersFinite, DomainAssumption DEF BoardBudget
<1>3. QED
    BY <1>1, <1>2, BoardRoomAlways, EditorImplementsStore, ShapeAlways, PTL

-----------------------------------------------------------------------------
(* The grid shows every cell.                                              *)

\* Where the index of a cell comes from.
IndexAfter(r, s) ==
    \/ \E t \in DOMAIN slots : slots'[s].index = slots[t].index
    \/ r.kind = "addSlot" /\ slots'[s].index = NextSlotIndex(IndexesOf(r.lineup))

LEMMA IndexesAfter ==
    ASSUME << >> \in BoardInputs, Shape, NEW r \in Requests, r.kind # "matchDetail", Write(r),
           NEW s \in DOMAIN slots'
    PROVE  IndexAfter(r, s)
<1>1. CASE slots' = slots
    BY <1>1 DEF IndexAfter
<1>2. CASE r.kind = "addSlot"
    <2>1. AddSlot(r.lineup, r.hero, r.stars)
        BY <1>2 DEF Write
    <2>2. PICK new : slots' = Insert(slots, new,
                               [lineup |-> r.lineup, hero |-> r.hero,
                                index |-> NextSlotIndex(IndexesOf(r.lineup)), stars |-> r.stars])
        BY <2>1 DEF AddSlot
    <2>3. QED
        BY <1>2, <2>2 DEF IndexAfter, Insert
<1>3. CASE r.kind = "copyLineup"
    <2>1. CopyLineup(r.lineup) /\ r.lineup \in LineupIds
        BY <1>3, RequestShape DEF Write, OnBoard
    <2>2. PICK new \in LineupIds, copies \in SUBSET SlotIds : CopyWrites(r.lineup, new, copies)
        BY <2>1, CopyLineupWrites
    <2>3. PICK origin \in [copies -> SlotsOf(r.lineup)] :
            \A c \in copies : slots'[c] = [slots[origin[c]] EXCEPT !.lineup = new]
        BY <2>2 DEF CopyWrites
    <2>4. CASE s \in copies
        <3>1. origin[s] \in DOMAIN slots /\ slots[origin[s]] \in SlotRow
            BY <2>4 DEF SlotsOf, Shape, TypeOK, IsTable
        <3>2. slots'[s].index = slots[origin[s]].index
            BY <2>3, <2>4, <3>1 DEF SlotRow
        <3>3. QED
            BY <3>1, <3>2 DEF IndexAfter
    <2>5. CASE s \notin copies
        BY <2>2, <2>5 DEF CopyWrites, IndexAfter
    <2>6. QED
        BY <2>4, <2>5
<1>4. CASE r.kind = "addLineup"
    <2>1. AddLineup(r.match, r.pro, r.label, r.placement, r.result, << >>, {})
        BY <1>4 DEF Write
    <2>2. /\ r.match \in MatchIds /\ r.pro \in CodexIds("pros") \cup {NoPro}
          /\ r.label \in Labels /\ r.placement \in Placements /\ r.result \in Results
          /\ {} \in SUBSET CodexIds("relics")
        BY <1>4, <2>1, RequestShape DEF AddLineup
    <2>3. PICK new \in LineupIds, ids \in SUBSET SlotIds : \E source \in [ids -> DOMAIN << >>] :
            AddWrites(r.match, r.pro, r.label, r.placement, r.result, << >>, {}, new, ids, source)
        BY <2>1, <2>2, AddLineupWrites
    <2>4. ids = {}
        BY <2>3
    <2>5. QED
        BY <2>3, <2>4 DEF AddWrites, IndexAfter
<1>5. CASE r.kind = "saveStars"
    <2>1. slots' = [slots EXCEPT ![r.slot].stars = r.stars]
        BY <1>5 DEF Write, SetSlotStars
    <2>2. \A t \in DOMAIN slots : slots[t] \in SlotRow
        BY DEF Shape, TypeOK, IsTable
    <2>3. QED
        BY <2>1, <2>2 DEF SlotRow, IndexAfter
<1>6. CASE r.kind \in {"deleteSlot", "deleteLineup"}
    BY <1>6 DEF Write, DeleteSlot, DeleteLineup, Without, IndexAfter
<1>7. CASE r.kind \in {"attachItem", "removeItem", "addRelic", "removeRelic", "updateLineup",
                       "finalize", "createMatch"}
    BY <1>1, <1>7 DEF Write, AddSlotItem, RemoveSlotItem, AddLineupRelic, RemoveLineupRelic,
                      UpdateLineup, FinalizeMatch, CreateMatchShell
<1>8. QED
    BY <1>2, <1>3, <1>4, <1>5, <1>6, <1>7, RequestShape DEF OnBoard, OnCell

\* A board has no more indexes in use than cells.
LEMMA IndexesCounted ==
    ASSUME TypeOK, NEW l
    PROVE  NextSlotIndex(IndexesOf(l)) \in 0..Cardinality(SlotsOf(l))
<1> DEFINE f == [s \in SlotsOf(l) |-> slots[s].index]
<1>1. f \in Surjection(SlotsOf(l), IndexesOf(l))
    BY DEF Surjection, IndexesOf
<1>2. Cardinality(IndexesOf(l)) <= Cardinality(SlotsOf(l))
    BY <1>1, SlotsFinite, FS_Surjection
<1>3. Cardinality(IndexesOf(l)) \in Nat /\ Cardinality(SlotsOf(l)) \in Nat
    BY IndexesFinite, SlotsFinite, FS_CardinalityType
<1>4. NextSlotIndex(IndexesOf(l)) \in 0..Cardinality(IndexesOf(l))
    BY IndexesFinite, NextSlotIndexIsLeastFree
<1>5. QED
    BY <1>2, <1>3, <1>4

LEMMA CellsShownStep ==
    ASSUME << >> \in BoardInputs, IsFiniteSet(Workers), Cardinality(Workers) = 1
    PROVE  Shape /\ Handlers /\ BoardRoom /\ CellsShown /\ [EditorNext]_vars => CellsShown'
<1> SUFFICES ASSUME Shape, Handlers, BoardRoom, CellsShown, [EditorNext]_vars PROVE CellsShown'
    OBVIOUS
<1>1. ASSUME NEW w \in Workers, Commit(w), NEW s \in DOMAIN slots' PROVE slots'[s].index < SlotCap
    <2> DEFINE r == req[w]
               l == r.lineup
    <2>1. /\ pc[w] = "write" /\ Write(r) /\ r \in Requests /\ r.kind # "matchDetail"
          /\ Checked(r, view[w])
        BY <1>1 DEF Commit, Handlers, Placed
    <2>2. CASE \E t \in DOMAIN slots : slots'[s].index = slots[t].index
        BY <2>2 DEF CellsShown
    <2>3. CASE r.kind = "addSlot" /\ slots'[s].index = NextSlotIndex(IndexesOf(l))
        <3>1. w \in Carriers(l)
            BY <2>1, <2>3 DEF Carriers, Checked, OnBoard
        <3>2. Carriers(l) \in SUBSET Workers
            BY DEF Carriers
        <3>3. Cardinality(Carriers(l)) \in Nat /\ Cardinality(Carriers(l)) # 0
            BY <3>1, <3>2, CarriersFinite, FS_EmptySet
        <3>4. BoardBudget(l)
            BY <2>1, <2>3 DEF Write, AddSlot, LineupWritable, BoardRoom
        <3>5. Cardinality(SlotsOf(l)) \in Nat /\ Cardinality(SlotsOf(l)) < SlotCap
            BY <3>3, <3>4, SlotsFinite, DomainAssumption DEF BoardBudget, Shape
        <3>6. NextSlotIndex(IndexesOf(l)) \in 0..Cardinality(SlotsOf(l))
            BY IndexesCounted DEF Shape
        <3>7. QED
            BY <2>3, <3>5, <3>6, DomainAssumption
    <2>4. QED
        BY <2>1, <2>2, <2>3, IndexesAfter DEF IndexAfter
<1>2. ASSUME NEW w \in Workers, Handle(w) PROVE CellsShown'
    <2>1. CASE Commit(w)
        BY <1>1, <2>1 DEF CellsShown
    <2>2. CASE ~Commit(w)
        BY <1>2, <2>2, StoreStill DEF Handle, Reading, store, CellsShown
    <2>3. QED
        BY <2>1, <2>2
<1>3. CASE UNCHANGED vars
    BY <1>3 DEF vars, store, CellsShown
<1>4. QED
    BY <1>2, <1>3 DEF EditorNext

\* GridRegion draws the cells 0..SlotCap-1 (ui/editor.go) and drops any other: with one
\* request at a time the count the handler checks and the index the store picks keep
\* every hero of every board on the grid, whatever was deleted before.
THEOREM GridShowsAll ==
    ASSUME << >> \in BoardInputs, IsFiniteSet(Workers), Cardinality(Workers) = 1
    PROVE  EditorSpec => []CellsShown
<1>1. CopiesTame
    BY DEF CopiesTame
<1>2. EditorInit => CellsShown
    BY DEF EditorInit, Init, CellsShown
<1>3. QED
    BY <1>1, <1>2, CellsShownStep, BoardRoomAlways, HandlersAlways, EditorImplementsStore,
       ShapeAlways, PTL DEF EditorSpec

-----------------------------------------------------------------------------
(* The budget of a slot.                                                   *)

\* The rows Total counts, one pair for each copy of an item.
Copies(counts) == UNION {{i} \X (1..counts[i]) : i \in DOMAIN counts}

LEMMA CopiesFinite ==
    ASSUME NEW c \in ItemCounts
    PROVE  IsFiniteSet(Copies(c)) /\ Total(c) \in Nat /\ Total(c) = Cardinality(Copies(c))
<1>1. MaxStack \in Int /\ MaxRows["items"] \in Int
    BY MatchStoreAssumption DEF CodexTables
<1>2. IsFiniteSet(CodexIds("items")) /\ IsFiniteSet(1..MaxStack)
    BY <1>1, FS_Interval DEF CodexIds
<1>3. IsFiniteSet(CodexIds("items") \X (1..MaxStack))
    BY <1>2, FS_Product
<1>4. Copies(c) \subseteq CodexIds("items") \X (1..MaxStack)
    <2>1. \A i \in DOMAIN c : i \in CodexIds("items") /\ c[i] \in 0..MaxStack
        BY DEF ItemCounts
    <2>2. \A i \in DOMAIN c : {i} \X (1..c[i]) \subseteq CodexIds("items") \X (1..MaxStack)
        BY <1>1, <2>1
    <2>3. QED
        BY <2>2 DEF Copies
<1>5. IsFiniteSet(Copies(c))
    BY <1>3, <1>4, FS_Subset
<1>6. QED
    BY <1>5, FS_CardinalityType DEF Total, Copies

LEMMA TotalMonotone ==
    ASSUME NEW b \in ItemCounts, NEW c \in ItemCounts, \A i \in CodexIds("items") : c[i] <= b[i]
    PROVE  Total(c) <= Total(b)
<1>1. DOMAIN b = CodexIds("items") /\ DOMAIN c = CodexIds("items")
    BY DEF ItemCounts
<1>2. \A i \in CodexIds("items") : b[i] \in Nat /\ c[i] \in Nat
    BY MatchStoreAssumption DEF ItemCounts
<1>3. \A i \in CodexIds("items") : {i} \X (1..c[i]) \subseteq {i} \X (1..b[i])
    BY <1>2
<1>4. Copies(c) \subseteq Copies(b)
    BY <1>1, <1>3 DEF Copies
<1>5. QED
    BY <1>4, CopiesFinite, FS_Subset

LEMMA TotalNone == NoItems \in ItemCounts /\ Total(NoItems) = 0
<1>1. NoItems \in ItemCounts
    BY MatchStoreAssumption DEF NoItems, ItemCounts
<1>2. Copies(NoItems) = {}
    BY DEF Copies, NoItems
<1>3. QED
    BY <1>1, <1>2, CopiesFinite, FS_EmptySet

\* One more copy of one item is one more row.
LEMMA TotalOneMore ==
    ASSUME NEW b \in ItemCounts, NEW item \in CodexIds("items"), NEW c \in ItemCounts,
           c = [b EXCEPT ![item] = b[item] + 1]
    PROVE  Total(c) <= Total(b) + 1
<1>1. /\ DOMAIN b = CodexIds("items") /\ DOMAIN c = CodexIds("items")
      /\ b[item] \in Nat /\ c[item] = b[item] + 1
      /\ \A i \in CodexIds("items") \ {item} : c[i] = b[i]
    BY MatchStoreAssumption DEF ItemCounts
<1> DEFINE row == <<item, b[item] + 1>>
<1>2. {item} \X (1..c[item]) \subseteq ({item} \X (1..b[item])) \cup {row}
    BY <1>1
<1>3. \A i \in CodexIds("items") : {i} \X (1..c[i]) \subseteq Copies(b) \cup {row}
    BY <1>1, <1>2 DEF Copies
<1>4. Copies(c) \subseteq Copies(b) \cup {row}
    BY <1>1, <1>3 DEF Copies
<1> HIDE DEF row
<1>5. IsFiniteSet(Copies(b)) /\ Total(b) = Cardinality(Copies(b)) /\ Total(b) \in Nat
    BY CopiesFinite
<1>6. /\ IsFiniteSet(Copies(b) \cup {row})
      /\ Cardinality(Copies(b) \cup {row}) =
            IF row \in Copies(b) THEN Cardinality(Copies(b)) ELSE Cardinality(Copies(b)) + 1
    BY <1>5, FS_AddElement
<1>7. Cardinality(Copies(c)) <= Cardinality(Copies(b) \cup {row})
    BY <1>4, <1>6, FS_Subset
<1>8. Total(c) = Cardinality(Copies(c)) /\ Total(c) \in Nat
    BY CopiesFinite
<1>9. QED
    BY <1>5, <1>6, <1>7, <1>8

\* The items of a slot after a write.
ItemsAfter(r, s) ==
    \/ s \in DOMAIN slotItems /\ \A i \in CodexIds("items") : slotItems'[s][i] <= slotItems[s][i]
    \/ slotItems'[s] = NoItems
    \/ /\ r.kind = "attachItem" /\ s = r.slot /\ s \in DOMAIN slotItems
       /\ slotItems'[s] = [slotItems[s] EXCEPT ![r.item] = slotItems[s][r.item] + 1]
    \/ r.kind = "copyLineup" /\ \E t \in DOMAIN slotItems : slotItems'[s] = slotItems[t]

LEMMA ItemsKept ==
    ASSUME Shape, NEW s \in DOMAIN slotItems, slotItems'[s] = slotItems[s], NEW r
    PROVE  ItemsAfter(r, s)
<1>1. slotItems[s] \in ItemCounts
    BY DEF Shape, TypeOK, IsTable
<1>2. \A i \in CodexIds("items") : slotItems[s][i] \in Nat
    BY <1>1, MatchStoreAssumption DEF ItemCounts
<1>3. QED
    BY <1>2 DEF ItemsAfter

LEMMA AllItemsAfter ==
    ASSUME << >> \in BoardInputs, Shape, NEW r \in Requests, r.kind # "matchDetail", Write(r),
           NEW s \in DOMAIN slotItems'
    PROVE  ItemsAfter(r, s)
<1>1. CASE s \in DOMAIN slotItems /\ slotItems'[s] = slotItems[s]
    BY <1>1, ItemsKept
<1>2. CASE r.kind = "addSlot"
    <2>1. AddSlot(r.lineup, r.hero, r.stars)
        BY <1>2 DEF Write
    <2>2. PICK new : slotItems' = Insert(slotItems, new, NoItems)
        BY <2>1 DEF AddSlot
    <2>3. QED
        BY <1>1, <2>2 DEF ItemsAfter, Insert
<1>3. CASE r.kind = "copyLineup"
    <2>1. CopyLineup(r.lineup) /\ r.lineup \in LineupIds
        BY <1>3, RequestShape DEF Write, OnBoard
    <2>2. PICK new \in LineupIds, copies \in SUBSET SlotIds : CopyWrites(r.lineup, new, copies)
        BY <2>1, CopyLineupWrites
    <2>3. PICK origin \in [copies -> SlotsOf(r.lineup)] :
            \A c \in copies : slotItems'[c] = slotItems[origin[c]]
        BY <2>2 DEF CopyWrites
    <2>4. CASE s \in copies
        <3>1. origin[s] \in DOMAIN slotItems
            BY <2>4 DEF SlotsOf, Shape, OwnersExist
        <3>2. QED
            BY <1>3, <2>3, <2>4, <3>1 DEF ItemsAfter
    <2>5. CASE s \notin copies
        BY <1>1, <2>2, <2>5 DEF CopyWrites, Shape, OwnersExist
    <2>6. QED
        BY <2>4, <2>5
<1>4. CASE r.kind = "addLineup"
    <2>1. AddLineup(r.match, r.pro, r.label, r.placement, r.result, << >>, {})
        BY <1>4 DEF Write
    <2>2. /\ r.match \in MatchIds /\ r.pro \in CodexIds("pros") \cup {NoPro}
          /\ r.label \in Labels /\ r.placement \in Placements /\ r.result \in Results
          /\ {} \in SUBSET CodexIds("relics")
        BY <1>4, <2>1, RequestShape DEF AddLineup
    <2>3. PICK new \in LineupIds, ids \in SUBSET SlotIds : \E source \in [ids -> DOMAIN << >>] :
            AddWrites(r.match, r.pro, r.label, r.placement, r.result, << >>, {}, new, ids, source)
        BY <2>1, <2>2, AddLineupWrites
    <2>4. ids = {}
        BY <2>3
    <2>5. QED
        BY <1>1, <2>3, <2>4 DEF AddWrites, Shape, OwnersExist
<1>5. CASE r.kind = "attachItem"
    <2>1. /\ slotItems' = [slotItems EXCEPT ![r.slot][r.item] = slotItems[r.slot][r.item] + 1]
        BY <1>5 DEF Write, AddSlotItem
    <2>2. QED
        BY <1>1, <1>5, <2>1 DEF ItemsAfter
<1>6. CASE r.kind = "removeItem"
    <2>1. slotItems' = [slotItems EXCEPT ![r.slot][r.item] = 0] /\ r.item \in CodexIds("items")
        BY <1>6, RequestShape DEF Write, RemoveSlotItem
    <2>2. s \in DOMAIN slotItems /\ slotItems[s] \in ItemCounts
        BY <2>1 DEF Shape, TypeOK, IsTable
    <2>3. \A i \in CodexIds("items") : slotItems[s][i] \in Nat
        BY <2>2, MatchStoreAssumption DEF ItemCounts
    <2>4. \A i \in CodexIds("items") : slotItems'[s][i] = slotItems[s][i] \/ slotItems'[s][i] = 0
        BY <2>1, <2>2 DEF ItemCounts
    <2>5. QED
        BY <2>2, <2>3, <2>4 DEF ItemsAfter
<1>7. CASE r.kind \in {"deleteSlot", "deleteLineup"}
    BY <1>1, <1>7 DEF Write, DeleteSlot, DeleteLineup, Without
<1>8. CASE r.kind \in {"saveStars", "addRelic", "removeRelic", "updateLineup",
                       "finalize", "createMatch"}
    BY <1>1, <1>8 DEF Write, SetSlotStars, AddLineupRelic, RemoveLineupRelic,
                      UpdateLineup, FinalizeMatch, CreateMatchShell
<1>9. QED
    BY <1>2, <1>3, <1>4, <1>5, <1>6, <1>7, <1>8, RequestShape DEF OnBoard, OnCell

\* Requests in flight that have counted the items of slot s and found room.
ItemCarriers(s) ==
    {w \in Workers :
        /\ req[w].kind = "attachItem"
        /\ req[w].slot = s
        /\ pc[w] \in {"relics", "loaded", "write"}
        /\ SlotInView(view[w], s)
        /\ ValidateAddItem(Total(view[w].items[s]))}

SlotBudget(s) ==
    Total(slotItems[s]) + Cardinality(ItemCarriers(s)) < ItemCap + Cardinality(Workers)

SlotRoom == \A s \in DOMAIN slotItems : SlotBudget(s)

LEMMA TotalsTyped ==
    ASSUME Shape, NEW s \in DOMAIN slotItems
    PROVE  slotItems[s] \in ItemCounts /\ Total(slotItems[s]) \in Nat
<1>1. slotItems[s] \in ItemCounts
    BY DEF Shape, TypeOK, IsTable
<1>2. QED
    BY <1>1, CopiesFinite

\* A step of w that is no read of the items makes no new carrier.
LEMMA NoNewItemCarrier ==
    ASSUME Handlers, NEW w \in Workers, Handle(w), ~ReadItems(w), NEW s
    PROVE  ItemCarriers(s)' \subseteq ItemCarriers(s)
<1>1. \A u \in Workers \ {w} : pc'[u] = pc[u] /\ req'[u] = req[u] /\ view'[u] = view[u]
    BY OneHandler
<1>2. w \in ItemCarriers(s)' => w \in ItemCarriers(s)
    <2>1. CASE Reading(w)
        <3>1. /\ ReadMatch(w) \/ ReadLineups(w) \/ ReadSlots(w) =>
                    pc'[w] \in {"lineups", "slots", "items"}
              /\ ReadRelics(w) =>
                    /\ pc[w] = "relics" /\ req'[w] = req[w]
                    /\ view'[w].slots = view[w].slots /\ view'[w].items = view[w].items
            BY ViewRelics DEF ReadMatch, ReadLineups, ReadSlots, ReadRelics, Goto, Handlers
        <3>2. QED
            BY <2>1, <3>1 DEF Reading, ItemCarriers, SlotInView
    <2>2. CASE Validate(w)
        <3>1. pc[w] = "loaded" /\ req'[w] = req[w] /\ view'[w] = view[w]
            BY <2>2 DEF Validate
        <3>2. QED
            BY <3>1 DEF ItemCarriers
    <2>3. CASE ~Reading(w) /\ ~Validate(w)
        <3>1. \/ pc'[w] \in {"idle", "draft", "match"}
              \/ pc'[w] = "write" /\ req'[w].kind \in Blind
            BY <2>3 DEF Handle, Reading, Accept, FirstStep, CheckDraft, Commit, GiveUp,
                        Finish, Goto, Handlers, Blind
        <3>2. QED
            BY <3>1 DEF ItemCarriers, Blind
    <2>4. QED
        BY <2>1, <2>2, <2>3
<1>3. \A u \in Workers \ {w} : u \in ItemCarriers(s)' => u \in ItemCarriers(s)
    BY <1>1 DEF ItemCarriers
<1>4. ItemCarriers(s)' \subseteq Workers
    BY DEF ItemCarriers
<1>5. QED
    BY <1>2, <1>3, <1>4

\* A read of the items makes a carrier only of a slot that has room now.
LEMMA SlotRoomAtRead ==
    ASSUME Shape, Handlers, NEW w \in Workers, ReadItems(w), NEW s \in DOMAIN slotItems,
           IsFiniteSet(Workers), SlotBudget(s)
    PROVE  SlotBudget(s)'
<1>1. store' = store /\ slotItems' = slotItems
    BY DEF ReadItems, store
<1>2. Total(slotItems[s])' = Total(slotItems[s]) /\ Total(slotItems[s]) \in Nat
    BY <1>1, TotalsTyped DEF Total
<1>3. ItemCarriers(s) \in SUBSET Workers /\ ItemCarriers(s)' \in SUBSET Workers
    BY DEF ItemCarriers
<1>4. \A u \in Workers \ {w} : pc'[u] = pc[u] /\ req'[u] = req[u] /\ view'[u] = view[u]
    BY OneHandler DEF Handle
<1>5. CASE w \in ItemCarriers(s)'
    <2>1. s \in DOMAIN view'[w].slots /\ Total(view'[w].items[s]) < ItemCap
        BY <1>5 DEF ItemCarriers, SlotInView, ValidateAddItem
    <2>2. /\ view'[w].slots = view[w].slots
          /\ view'[w].items = [t \in DOMAIN view[w].slots |->
                                  IF t \in DOMAIN slotItems THEN slotItems[t] ELSE NoItems]
        BY ViewItems
    <2>3. view'[w].items[s] = slotItems[s]
        BY <2>1, <2>2
    <2>4. Total(slotItems[s]) < ItemCap
        BY <2>1, <2>3
    <2>5. QED
        BY <1>2, <1>3, <2>4, CarriersFinite, DomainAssumption DEF SlotBudget
<1>6. CASE w \notin ItemCarriers(s)'
    <2>1. ItemCarriers(s)' \subseteq ItemCarriers(s)
        BY <1>4, <1>6 DEF ItemCarriers
    <2>2. Cardinality(ItemCarriers(s)') <= Cardinality(ItemCarriers(s))
        BY <1>3, <2>1, CarriersFinite, FS_Subset
    <2>3. QED
        BY <1>2, <1>3, <2>2, CarriersFinite, DomainAssumption DEF SlotBudget
<1>7. QED
    BY <1>5, <1>6

LEMMA SlotRoomAtCommit ==
    ASSUME << >> \in BoardInputs, Shape, Handlers, NEW w \in Workers, Commit(w),
           IsFiniteSet(Workers), CopiesTame, SlotRoom, NEW s \in DOMAIN slotItems'
    PROVE  SlotBudget(s)'
<1> DEFINE r == req[w]
<1>1. /\ pc[w] = "write" /\ Write(r) /\ r \in Requests /\ r.kind # "matchDetail"
      /\ Checked(r, view[w])
    BY DEF Commit, Handlers, Placed
<1>2. ItemsAfter(r, s)
    BY <1>1, AllItemsAfter
<1>3. Shape'
    BY CommitIsStep, ShapeStep
<1>4. slotItems'[s] \in ItemCounts
    BY <1>3 DEF Shape, TypeOK, IsTable
<1>5. Total(slotItems'[s]) \in Nat /\ Total(slotItems[s])' = Total(slotItems'[s])
    BY <1>4, CopiesFinite DEF Total
<1>6. pc'[w] = "idle"
    BY DEF Commit, Finish, Goto, Handlers
<1>7. ItemCarriers(s)' \subseteq ItemCarriers(s) \ {w}
    <2>1. ItemCarriers(s)' \subseteq ItemCarriers(s)
        BY <1>1, NoNewItemCarrier DEF Handle, ReadItems
    <2>2. QED
        BY <1>6, <2>1 DEF ItemCarriers
<1>8. \A t : ItemCarriers(t) \in SUBSET Workers
    BY DEF ItemCarriers
<1>9. /\ IsFiniteSet(ItemCarriers(s)) /\ Cardinality(ItemCarriers(s)) \in Nat
      /\ Cardinality(Workers) \in Nat
    BY <1>8, CarriersFinite
<1>10. /\ Cardinality(ItemCarriers(s)') \in Nat
       /\ Cardinality(ItemCarriers(s)') <= Cardinality(ItemCarriers(s))
    BY <1>7, <1>9, FS_Subset, FS_CardinalityType
<1>11. CASE s \in DOMAIN slotItems /\ \A i \in CodexIds("items") : slotItems'[s][i] <= slotItems[s][i]
    <2>1. slotItems[s] \in ItemCounts /\ Total(slotItems[s]) \in Nat
        BY <1>11, TotalsTyped
    <2>2. Total(slotItems'[s]) <= Total(slotItems[s])
        BY <1>4, <1>11, <2>1, TotalMonotone
    <2>3. SlotBudget(s)
        BY <1>11 DEF SlotRoom
    <2>4. QED
        BY <1>5, <1>9, <1>10, <2>1, <2>2, <2>3, DomainAssumption DEF SlotBudget
<1>12. CASE slotItems'[s] = NoItems
    <2>1. Total(slotItems'[s]) = 0
        BY <1>12, TotalNone
    <2>2. Cardinality(ItemCarriers(s)') <= Cardinality(Workers)
        BY <1>8, <1>9, <1>10, CarriersFinite
    <2>3. QED
        BY <1>5, <1>9, <1>10, <2>1, <2>2, DomainAssumption DEF SlotBudget
<1>13. CASE /\ r.kind = "attachItem" /\ s = r.slot /\ s \in DOMAIN slotItems
            /\ slotItems'[s] = [slotItems[s] EXCEPT ![r.item] = slotItems[s][r.item] + 1]
    <2>1. w \in ItemCarriers(s)
        BY <1>1, <1>13 DEF ItemCarriers, Checked, OnCell
    <2>2. Cardinality(ItemCarriers(s)') <= Cardinality(ItemCarriers(s)) - 1
        <3>1. /\ IsFiniteSet(ItemCarriers(s) \ {w})
              /\ Cardinality(ItemCarriers(s) \ {w}) = Cardinality(ItemCarriers(s)) - 1
            BY <1>9, <2>1, FS_RemoveElement
        <3>2. QED
            BY <1>7, <3>1, FS_Subset
    <2>3. slotItems[s] \in ItemCounts /\ Total(slotItems[s]) \in Nat
        BY <1>13, TotalsTyped
    <2>4. r.item \in CodexIds("items")
        BY <1>1, <1>13, RequestShape
    <2>5. Total(slotItems'[s]) <= Total(slotItems[s]) + 1
        BY <1>4, <1>13, <2>3, <2>4, TotalOneMore
    <2>6. SlotBudget(s)
        BY <1>13 DEF SlotRoom
    <2>7. QED
        BY <1>5, <1>9, <1>10, <2>2, <2>3, <2>5, <2>6, DomainAssumption DEF SlotBudget
<1>14. CASE r.kind = "copyLineup" /\ \E t \in DOMAIN slotItems : slotItems'[s] = slotItems[t]
    <2>1. Cardinality(Workers) = 1
        BY <1>1, <1>14, RequestShape DEF CopiesTame
    <2>2. PICK u : Workers = {u}
        BY <2>1, FS_Singleton
    <2>3. ItemCarriers(s)' = {}
        BY <1>7, <1>8, <2>2
    <2>4. Cardinality(ItemCarriers(s)') = 0
        BY <2>3, FS_EmptySet
    <2>5. PICK t \in DOMAIN slotItems : slotItems'[s] = slotItems[t]
        BY <1>14
    <2>6. SlotBudget(t) /\ Cardinality(ItemCarriers(t)) \in Nat /\ Total(slotItems[t]) \in Nat
        BY <1>8, CarriersFinite, TotalsTyped DEF SlotRoom
    <2>7. QED
        BY <1>5, <1>9, <2>4, <2>5, <2>6, DomainAssumption DEF SlotBudget
<1>15. QED
    BY <1>2, <1>11, <1>12, <1>13, <1>14 DEF ItemsAfter

LEMMA SlotRoomStep ==
    ASSUME << >> \in BoardInputs, IsFiniteSet(Workers), CopiesTame
    PROVE  Shape /\ Handlers /\ SlotRoom /\ [EditorNext]_vars => SlotRoom'
<1> SUFFICES ASSUME Shape, Handlers, SlotRoom, [EditorNext]_vars PROVE SlotRoom'
    OBVIOUS
<1>1. ASSUME NEW w \in Workers, Handle(w) PROVE SlotRoom'
    <2>1. CASE Commit(w)
        BY <2>1, SlotRoomAtCommit DEF SlotRoom
    <2>2. CASE ReadItems(w)
        <3>1. slotItems' = slotItems
            BY <2>2 DEF ReadItems, store
        <3>2. QED
            BY <2>2, <3>1, SlotRoomAtRead DEF SlotRoom
    <2>3. CASE ~Commit(w) /\ ~ReadItems(w)
        <3>1. slotItems' = slotItems
            BY <1>1, <2>3, StoreStill DEF Handle, Reading, store
        <3>2. ASSUME NEW s \in DOMAIN slotItems PROVE SlotBudget(s)'
            <4>1. Total(slotItems[s])' = Total(slotItems[s]) /\ Total(slotItems[s]) \in Nat
                BY <3>1, TotalsTyped DEF Total
            <4>2. ItemCarriers(s)' \subseteq ItemCarriers(s)
                BY <1>1, <2>3, NoNewItemCarrier
            <4>3. ItemCarriers(s) \in SUBSET Workers /\ ItemCarriers(s)' \in SUBSET Workers
                BY DEF ItemCarriers
            <4>4. Cardinality(ItemCarriers(s)') <= Cardinality(ItemCarriers(s))
                BY <4>2, <4>3, CarriersFinite, FS_Subset
            <4>5. SlotBudget(s)
                BY DEF SlotRoom
            <4>6. QED
                BY <4>1, <4>3, <4>4, <4>5, CarriersFinite, DomainAssumption DEF SlotBudget
        <3>3. QED
            BY <3>1, <3>2 DEF SlotRoom
    <2>4. QED
        BY <2>1, <2>2, <2>3
<1>2. CASE UNCHANGED vars
    <2>1. slotItems' = slotItems /\ pc' = pc /\ req' = req /\ view' = view
        BY <1>2 DEF vars, editor, store
    <2>2. \A s : SlotBudget(s)' <=> SlotBudget(s)
        <3>1. \A s : Total(slotItems[s])' = Total(slotItems[s])
            BY <2>1 DEF Total
        <3>2. \A s : ItemCarriers(s)' = ItemCarriers(s)
            <4>1. \A w, s : Total(view[w].items[s])' = Total(view[w].items[s])
                BY <2>1 DEF Total
            <4>2. QED
                BY <2>1, <4>1 DEF ItemCarriers
        <3>3. QED
            BY <3>1, <3>2 DEF SlotBudget
    <2>3. QED
        BY <2>1, <2>2 DEF SlotRoom
<1>3. QED
    BY <1>1, <1>2 DEF EditorNext

\* validate.go:13, "a slot holds at most 6 items", when AddItem requests race: the items
\* are counted in the view and inserted later, so a slot can end up past the cap by the
\* number of other requests in flight, and not by more.
THEOREM ItemOvershoot ==
    ASSUME << >> \in BoardInputs, IsFiniteSet(Workers),
           "copyLineup" \notin Kinds \/ Cardinality(Workers) = 1
    PROVE  EditorSpec => []ItemOvershootBounded
<1>1. CopiesTame
    BY DEF CopiesTame
<1>2. EditorInit => SlotRoom
    BY DEF EditorInit, Init, SlotRoom
<1>3. Shape /\ SlotRoom => ItemOvershootBounded
    <2> SUFFICES ASSUME Shape, SlotRoom, NEW s \in DOMAIN slotItems
                 PROVE  Total(slotItems[s]) <= ItemCap + Cardinality(Workers) - 1
        BY DEF ItemOvershootBounded
    <2>1. SlotBudget(s) /\ Total(slotItems[s]) \in Nat
        BY TotalsTyped DEF SlotRoom
    <2>2. ItemCarriers(s) \in SUBSET Workers
        BY DEF ItemCarriers
    <2>3. QED
        BY <2>1, <2>2, CarriersFinite, DomainAssumption DEF SlotBudget
<1>4. QED
    BY <1>1, <1>2, <1>3, SlotRoomStep, HandlersAlways, EditorImplementsStore, ShapeAlways, PTL
       DEF EditorSpec
=============================================================================
