------------------------------- MODULE MatchBook -------------------------------
(***************************************************************************)
(* What the match store promises its callers, without rows or row ids: a   *)
(* book of games.  A game is a draft or finalized; a draft has at most one *)
(* board per placement; a board is a value, its cells addressed by index.  *)
(* Every edit touches one game only, no edit touches a finalized one, and  *)
(* a game is finalized only when it holds the boards its source demands.   *)
(***************************************************************************)
EXTENDS Domain, Sequences

CONSTANTS Patches, Pros, Labels, Results, NoResult, NoPro, Heroes, Items, Relics,
          MaxStack, MaxTime, MaxMatches,
          StartCells    \* boards a new lineup may start with: index -> cell

VARIABLE book   \* game id -> [patch, source, finalizedAt, boards : placement -> board]

BoardCell == [hero : Heroes, stars : 1..MaxStars, items : [Items -> 0..MaxStack]]
BareCell(hero, stars) == [hero |-> hero, stars |-> stars, items |-> [i \in Items |-> 0]]

Draft(m) == m \in DOMAIN book /\ book[m].finalizedAt = 0
Boards(m) == book[m].boards

Put(f, x, v) == [y \in DOMAIN f \cup {x} |-> IF y = x THEN v ELSE f[y]]
Drop(f, x) == [y \in DOMAIN f \ {x} |-> f[y]]

SetBoards(m, boards) == book' = [book EXCEPT ![m].boards = boards]

-----------------------------------------------------------------------------

BookInit == book = << >>

Open(m, patch, source) ==
    /\ DOMAIN book = 1..(m - 1)
    /\ book' = Put(book, m, [patch |-> patch, source |-> source,
                             finalizedAt |-> 0, boards |-> << >>])

Place(m, p, pro, label, result, cells, relics) ==
    /\ Draft(m)
    /\ p \notin DOMAIN Boards(m)
    /\ SetBoards(m, Put(Boards(m), p, [pro |-> pro, label |-> label, result |-> result,
                                       cells |-> cells, relics |-> relics]))

\* A copy is the same board and label, without the credit and the result.
Copy(m, p) ==
    LET free == FirstFreePlacement(DOMAIN Boards(m))
    IN /\ Draft(m)
       /\ p \in DOMAIN Boards(m)
       /\ free # 0
       /\ SetBoards(m, Put(Boards(m), free, [Boards(m)[p] EXCEPT !.pro = NoPro,
                                                                 !.result = NoResult]))

\* Rewrites the fields of a lineup and may move it to another placement; its
\* cells and relics come along.
Revise(m, p, to, pro, label, result) ==
    /\ Draft(m)
    /\ p \in DOMAIN Boards(m)
    /\ to \notin DOMAIN Boards(m) \ {p}
    /\ SetBoards(m, Put(Drop(Boards(m), p), to,
                        [Boards(m)[p] EXCEPT !.pro = pro, !.label = label, !.result = result]))

Remove(m, p) ==
    /\ Draft(m)
    /\ p \in DOMAIN Boards(m)
    /\ SetBoards(m, Drop(Boards(m), p))

\* One edit of a board: a cell comes, goes or gets other stars, an item is stacked
\* on a cell or taken off it with all its copies, a relic comes or goes.
Edit(m, p) ==
    LET b == Boards(m)[p]
        Becomes(c) == SetBoards(m, Put(Boards(m), p, c))
    IN /\ Draft(m)
       /\ p \in DOMAIN Boards(m)
       /\ \/ \E h \in Heroes, s \in 1..MaxStars :
                Becomes([b EXCEPT !.cells = Put(@, NextSlotIndex(DOMAIN @), BareCell(h, s))])
          \/ \E i \in DOMAIN b.cells : Becomes([b EXCEPT !.cells = Drop(@, i)])
          \/ \E i \in DOMAIN b.cells, s \in 1..MaxStars :
                Becomes([b EXCEPT !.cells[i].stars = s])
          \/ \E i \in DOMAIN b.cells, x \in Items : \E n \in {b.cells[i].items[x] + 1, 0} :
                Becomes([b EXCEPT !.cells[i].items[x] = n])
          \/ \E r \in Relics : \E relics \in {b.relics \cup {r}, b.relics \ {r}} :
                Becomes([b EXCEPT !.relics = relics])

Finalize(m, now) ==
    /\ Draft(m)
    /\ ValidateFinalize(book[m].source, [p \in DOMAIN Boards(m) |-> p])
    /\ book' = [book EXCEPT ![m].finalizedAt = now]

BookNext ==
    \E m \in 1..MaxMatches :
        \/ \E patch \in Patches, source \in Sources : Open(m, patch, source)
        \/ \E now \in 1..MaxTime : Finalize(m, now)
        \/ \E p \in Placements :
            \/ \E pro \in Pros \cup {NoPro}, label \in Labels, result \in Results,
                  cells \in StartCells, relics \in SUBSET Relics :
                    Place(m, p, pro, label, result, cells, relics)
            \/ Copy(m, p)
            \/ \E to \in Placements, pro \in Pros \cup {NoPro}, label \in Labels,
                  result \in Results : Revise(m, p, to, pro, label, result)
            \/ Remove(m, p)
            \/ Edit(m, p)

BookSpec == BookInit /\ [][BookNext]_book
=============================================================================
