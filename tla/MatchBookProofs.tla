---------------------------- MODULE MatchBookProofs ----------------------------
(***************************************************************************)
(* The store implements the book of games: ImplementsBook, for every size  *)
(* of the tables.  A board is put together from rows of four tables by     *)
(* two choices, the slot of a cell and the lineup of a placement; the      *)
(* uniqueness theorems of MatchStoreProofs make both unambiguous.  What a  *)
(* step writes is then read off row by row, and EditsOneMatch keeps the    *)
(* boards of all other matches.                                            *)
(***************************************************************************)
EXTENDS MatchStoreProofs

-----------------------------------------------------------------------------
(* Boards as functions of the tables, to speak of those of before a step   *)
(* and of those after it: lineups li, their relics re, slots st with their *)
(* items it.                                                               *)

Held(st, l) == {s \in DOMAIN st : st[s].lineup = l}
CellAt(st, l, i) == CHOOSE c \in Held(st, l) : st[c].index = i
CellRow(st, it, s) == [hero |-> st[s].hero, stars |-> st[s].stars, items |-> it[s]]
CellsFrom(st, it, l) ==
    [i \in {st[s].index : s \in Held(st, l)} |-> CellRow(st, it, CellAt(st, l, i))]

BoardFrom(li, re, st, it, l) ==
    [pro |-> li[l].pro, label |-> li[l].label, result |-> li[l].result,
     relics |-> re[l], cells |-> CellsFrom(st, it, l)]

Under(li, m) == {l \in DOMAIN li : li[l].match = m}
At(li, m, p) == CHOOSE l \in Under(li, m) : li[l].placement = p
BoardsFrom(li, re, st, it, m) ==
    [p \in {li[l].placement : l \in Under(li, m)} |-> BoardFrom(li, re, st, it, At(li, m, p))]

OneCell(st) ==
    \A s, t \in DOMAIN st : st[s].lineup = st[t].lineup /\ st[s].index = st[t].index => s = t
OnePlace(li) ==
    \A k, l \in DOMAIN li : li[k].match = li[l].match /\ li[k].placement = li[l].placement => k = l

\* What these are where no choice is ambiguous: F holds the cells of lineup l, G the
\* boards of match m.
IsCells(F, st, it, l) ==
    /\ F = [i \in DOMAIN F |-> F[i]]
    /\ DOMAIN F = {st[s].index : s \in Held(st, l)}
    /\ \A s \in Held(st, l) : F[st[s].index] = CellRow(st, it, s)

IsBoards(G, li, re, st, it, m) ==
    /\ G = [p \in DOMAIN G |-> G[p]]
    /\ DOMAIN G = {li[l].placement : l \in Under(li, m)}
    /\ \A l \in Under(li, m) : G[li[l].placement] = BoardFrom(li, re, st, it, l)

LEMMA CellsAre ==
    ASSUME NEW st, NEW it, NEW l, OneCell(st)
    PROVE  IsCells(CellsFrom(st, it, l), st, it, l)
<1> DEFINE I == {st[s].index : s \in Held(st, l)}
<1>1. \A s \in Held(st, l) : CellAt(st, l, st[s].index) = s
    <2> SUFFICES ASSUME NEW s \in Held(st, l) PROVE CellAt(st, l, st[s].index) = s
        OBVIOUS
    <2>1. /\ CellAt(st, l, st[s].index) \in Held(st, l)
          /\ st[CellAt(st, l, st[s].index)].index = st[s].index
        BY DEF CellAt
    <2>2. QED
        BY <2>1 DEF Held, OneCell
<1>2. CellsFrom(st, it, l) = [i \in I |-> CellRow(st, it, CellAt(st, l, i))]
    BY Zenon DEF CellsFrom
<1>3. \A s \in Held(st, l) : st[s].index \in I
    OBVIOUS
<1> HIDE DEF I
<1>4. DOMAIN CellsFrom(st, it, l) = I
    BY <1>2
<1>5. \A s \in Held(st, l) : CellsFrom(st, it, l)[st[s].index] = CellRow(st, it, s)
    BY <1>1, <1>2, <1>3
<1>6. CellsFrom(st, it, l) = [i \in DOMAIN CellsFrom(st, it, l) |-> CellsFrom(st, it, l)[i]]
    BY <1>2
<1>7. QED
    BY <1>4, <1>5, <1>6 DEF IsCells, I

\* Two boards are equal cell for cell when the slots of one mirror those of the other.
LEMMA CellsSame ==
    ASSUME NEW st, NEW it, NEW l, OneCell(st), NEW tt, NEW jt, NEW k, OneCell(tt),
           NEW f \in [Held(tt, k) -> Held(st, l)],
           \A s \in Held(st, l) : \E c \in Held(tt, k) : f[c] = s,
           \A c \in Held(tt, k) : /\ tt[c].index = st[f[c]].index
                                  /\ CellRow(tt, jt, c) = CellRow(st, it, f[c])
    PROVE  CellsFrom(tt, jt, k) = CellsFrom(st, it, l)
<1> DEFINE F == CellsFrom(st, it, l)
           G == CellsFrom(tt, jt, k)
<1>1. IsCells(F, st, it, l) /\ IsCells(G, tt, jt, k)
    BY CellsAre
<1> HIDE DEF F, G
<1>2. \A c \in Held(tt, k) : f[c] \in Held(st, l)
    OBVIOUS
<1>3. DOMAIN G = DOMAIN F
    BY <1>1, <1>2 DEF IsCells
<1>4. \A i \in DOMAIN G : G[i] = F[i]
    BY <1>1, <1>2 DEF IsCells
<1>5. G = F
    BY <1>1, <1>3, <1>4 DEF IsCells
<1>6. QED
    BY <1>5 DEF F, G

LEMMA BoardsAre ==
    ASSUME NEW li, NEW re, NEW st, NEW it, NEW m, OnePlace(li)
    PROVE  IsBoards(BoardsFrom(li, re, st, it, m), li, re, st, it, m)
<1> DEFINE B == BoardsFrom(li, re, st, it, m)
           P == {li[l].placement : l \in Under(li, m)}
<1>1. \A l \in Under(li, m) : At(li, m, li[l].placement) = l
    <2> SUFFICES ASSUME NEW l \in Under(li, m) PROVE At(li, m, li[l].placement) = l
        OBVIOUS
    <2>1. /\ At(li, m, li[l].placement) \in Under(li, m)
          /\ li[At(li, m, li[l].placement)].placement = li[l].placement
        BY DEF At
    <2>2. QED
        BY <2>1 DEF Under, OnePlace
<1>2. B = [p \in P |-> BoardFrom(li, re, st, it, At(li, m, p))]
    BY Zenon DEF BoardsFrom
<1>3. \A l \in Under(li, m) : li[l].placement \in P
    OBVIOUS
<1> HIDE DEF P, B
<1>4. DOMAIN B = P
    BY <1>2
<1>5. \A l \in Under(li, m) : B[li[l].placement] = BoardFrom(li, re, st, it, l)
    BY <1>1, <1>2, <1>3
<1>6. B = [p \in DOMAIN B |-> B[p]]
    BY <1>2
<1>7. QED
    BY <1>4, <1>5, <1>6 DEF IsBoards, P, B

-----------------------------------------------------------------------------
(* The book of the tables, now and after a step.                           *)

BoardsOf(m) == [p \in PlacementsOf(m) |-> BoardOf(LineupAt(m, p))]

\* What the book is read off by: F holds the cells of lineup l, G the boards of m.
ShowsCells(F, l) ==
    /\ F = [i \in DOMAIN F |-> F[i]]
    /\ DOMAIN F = IndexesOf(l)
    /\ \A s \in SlotsOf(l) : F[slots[s].index] = CellRow(slots, slotItems, s)

ShowsBoards(G, m) ==
    /\ G = [p \in DOMAIN G |-> G[p]]
    /\ DOMAIN G = PlacementsOf(m)
    /\ \A l \in LineupsOf(m) : G[lineups[l].placement] = BoardOf(l)

\* Matches are never deleted, so their ids have no gaps.
Dense == \E n \in 0..MaxMatches : DOMAIN matches = 1..n

BookInv == Shape /\ CellsUnique /\ PlacementsUnique /\ Dense

LEMMA BoardIs ==
    ASSUME NEW l
    PROVE  /\ BoardOf(l) = BoardFrom(lineups, lineupRelics, slots, slotItems, l)
           /\ BoardOf(l)' = BoardFrom(lineups', lineupRelics', slots', slotItems', l)
BY Zenon DEF BoardOf, BoardFrom, CellsFrom, CellAt, CellRow, Held, IndexesOf, SlotsOf

LEMMA BoardsAreFrom ==
    ASSUME NEW m
    PROVE  /\ BoardsOf(m) = BoardsFrom(lineups, lineupRelics, slots, slotItems, m)
           /\ BoardsOf(m)' = BoardsFrom(lineups', lineupRelics', slots', slotItems', m)
BY Zenon DEF BoardsOf, BoardsFrom, PlacementsOf, LineupsOf, LineupAt, Under, At,
             BoardOf, BoardFrom, CellsFrom, CellAt, CellRow, Held, IndexesOf, SlotsOf

Game(m) == [patch |-> matches[m].patch, source |-> matches[m].source,
            finalizedAt |-> matches[m].finalizedAt, boards |-> BoardsOf(m)]

LEMMA BookIs ==
    /\ BookOfStore = [m \in DOMAIN matches |-> Game(m)]
    /\ BookOfStore' = [m \in DOMAIN matches' |-> Game(m)']
BY Zenon DEF BookOfStore, BoardsOf, Game

LEMMA CellsNow ==
    ASSUME NEW l
    PROVE  /\ CellsUnique => ShowsCells(BoardOf(l).cells, l)
           /\ (CellsUnique => ShowsCells(BoardOf(l).cells, l))'
<1>1. /\ BoardOf(l).cells = CellsFrom(slots, slotItems, l)
      /\ BoardOf(l).cells' = CellsFrom(slots', slotItems', l)
    BY BoardIs DEF BoardFrom
<1>2. /\ CellsUnique => OneCell(slots)
      /\ CellsUnique' => OneCell(slots')
    BY DEF CellsUnique, OneCell
<1>3. /\ CellsUnique => IsCells(BoardOf(l).cells, slots, slotItems, l)
      /\ CellsUnique' => IsCells(BoardOf(l).cells', slots', slotItems', l)
    BY <1>1, <1>2, CellsAre
<1>4. /\ Held(slots, l) = SlotsOf(l)
      /\ Held(slots', l) = SlotsOf(l)'
      /\ IndexesOf(l) = {slots[s].index : s \in Held(slots, l)}
      /\ IndexesOf(l)' = {slots'[s].index : s \in Held(slots', l)}
    BY Zenon DEF IndexesOf, SlotsOf, Held
<1>5. CellsUnique => ShowsCells(BoardOf(l).cells, l)
    BY <1>3, <1>4, Zenon DEF IsCells, ShowsCells
<1>6. (CellsUnique => ShowsCells(BoardOf(l).cells, l))'
    BY <1>3, <1>4, Zenon DEF IsCells, ShowsCells
<1>7. QED
    BY <1>5, <1>6

LEMMA BoardsNow ==
    ASSUME NEW m
    PROVE  /\ PlacementsUnique => ShowsBoards(BoardsOf(m), m)
           /\ (PlacementsUnique => ShowsBoards(BoardsOf(m), m))'
<1>1. /\ PlacementsUnique => OnePlace(lineups)
      /\ PlacementsUnique' => OnePlace(lineups')
    BY DEF PlacementsUnique, OnePlace
<1>2. /\ PlacementsUnique => IsBoards(BoardsOf(m), lineups, lineupRelics, slots, slotItems, m)
      /\ PlacementsUnique' => IsBoards(BoardsOf(m)', lineups', lineupRelics', slots', slotItems', m)
    BY <1>1, BoardsAre, BoardsAreFrom
<1>3. /\ Under(lineups, m) = LineupsOf(m)
      /\ Under(lineups', m) = LineupsOf(m)'
      /\ PlacementsOf(m) = {lineups[l].placement : l \in Under(lineups, m)}
      /\ PlacementsOf(m)' = {lineups'[l].placement : l \in Under(lineups', m)}
    BY Zenon DEF PlacementsOf, LineupsOf, Under
<1>4. PlacementsUnique => ShowsBoards(BoardsOf(m), m)
    BY <1>2, <1>3, BoardIs, Zenon DEF IsBoards, ShowsBoards
<1>5. (PlacementsUnique => ShowsBoards(BoardsOf(m), m))'
    BY <1>2, <1>3, BoardIs, Zenon DEF IsBoards, ShowsBoards
<1>6. QED
    BY <1>4, <1>5

\* A lineup whose rows a step does not write keeps its board.
LEMMA BoardKept ==
    ASSUME CellsUnique, CellsUnique', NEW l,
           lineups'[l] = lineups[l], lineupRelics'[l] = lineupRelics[l],
           SlotsOf(l)' = SlotsOf(l),
           \A s \in SlotsOf(l) : slots'[s] = slots[s] /\ slotItems'[s] = slotItems[s]
    PROVE  BoardOf(l)' = BoardOf(l)
<1> DEFINE f == [s \in Held(slots', l) |-> s]
<1>1. Held(slots', l) = Held(slots, l) /\ Held(slots, l) = SlotsOf(l)
    BY DEF Held, SlotsOf
<1>2. f \in [Held(slots', l) -> Held(slots, l)]
    BY <1>1
<1>3. \A s \in Held(slots, l) : \E c \in Held(slots', l) : f[c] = s
    BY <1>1
<1>4. \A c \in Held(slots', l) : /\ slots'[c].index = slots[f[c]].index
                                 /\ CellRow(slots', slotItems', c) = CellRow(slots, slotItems, f[c])
    BY <1>1 DEF CellRow
<1>5. OneCell(slots) /\ OneCell(slots')
    BY DEF OneCell, CellsUnique
<1> HIDE DEF f
<1>6. CellsFrom(slots', slotItems', l) = CellsFrom(slots, slotItems, l)
    BY <1>2, <1>3, <1>4, <1>5, CellsSame
<1>7. QED
    BY <1>6, BoardIs DEF BoardFrom

-----------------------------------------------------------------------------
(* A step that edits one match edits one game of the book.                 *)

LEMMA OtherBoards ==
    ASSUME BookInv, BookInv', NEW t, EditsOnly(t), NEW m \in DOMAIN matches, m # t
    PROVE  BoardsOf(m)' = BoardsOf(m)
<1> DEFINE G == BoardsOf(m)
<1>1. /\ LineupsOf(m)' = LineupsOf(m)
      /\ \A l \in LineupsOf(m) : /\ lineups'[l] = lineups[l]
                                 /\ lineupRelics'[l] = lineupRelics[l]
                                 /\ SlotsOf(l)' = SlotsOf(l)
      /\ \A l \in LineupsOf(m) : \A s \in SlotsOf(l) : /\ slots'[s] = slots[s]
                                                      /\ slotItems'[s] = slotItems[s]
    BY OtherMatchKept DEF BookInv
<1>2. \A l \in LineupsOf(m) : BoardOf(l)' = BoardOf(l)
    BY <1>1, BoardKept DEF BookInv
<1>3. ShowsBoards(G, m) /\ ShowsBoards(G, m)'
    BY BoardsNow DEF BookInv
<1> HIDE DEF G
<1>4. DOMAIN G' = DOMAIN G
    BY <1>1, <1>3 DEF ShowsBoards, PlacementsOf
<1>5. \A p \in DOMAIN G : G'[p] = G[p]
    BY <1>1, <1>2, <1>3 DEF ShowsBoards, PlacementsOf
<1>6. G' = G
    BY <1>3, <1>4, <1>5 DEF ShowsBoards
<1>7. QED
    BY <1>6 DEF G

LEMMA BookEdited ==
    ASSUME BookInv, BookInv', NEW m \in DOMAIN matches, matches' = matches, EditsOnly(m)
    PROVE  Book!SetBoards(m, BoardsOf(m)')
<1>1. BookOfStore = [n \in DOMAIN matches |-> Game(n)]
    BY BookIs
<1>2. BookOfStore' = [n \in DOMAIN matches |-> Game(n)']
    BY BookIs
<1>3. \A n \in DOMAIN matches : n # m => Game(n)' = Game(n)
    BY OtherBoards DEF Game
<1>4. Game(m)' = [Game(m) EXCEPT !.boards = BoardsOf(m)']
    BY DEF Game
<1>5. BookOfStore' = [BookOfStore EXCEPT ![m].boards = BoardsOf(m)']
    BY <1>1, <1>2, <1>3, <1>4
<1>6. QED
    BY <1>5 DEF Book!SetBoards

\* What the operations of the book look at.
LEMMA DraftOf ==
    ASSUME BookInv, NEW m, MatchWritable(m)
    PROVE  /\ Book!Draft(m) /\ Book!Boards(m) = BoardsOf(m)
           /\ m \in 1..MaxMatches
<1>1. m \in DOMAIN matches /\ BookOfStore[m] = Game(m) /\ DOMAIN BookOfStore = DOMAIN matches
    BY BookIs DEF MatchWritable
<1>2. matches[m].finalizedAt = 0 /\ m \in 1..MaxMatches
    BY DEF MatchWritable, BookInv, Shape, TypeOK, IsTable, MatchIds
<1>3. QED
    BY <1>1, <1>2 DEF Book!Draft, Book!Boards, Game

\* One lineup of the match has another board on the same placement.
LEMMA BoardReplaced ==
    ASSUME BookInv, BookInv', NEW l \in DOMAIN lineups,
           EditsOnly(lineups[l].match), matches' = matches, lineups' = lineups,
           \A k \in LineupsOf(lineups[l].match) : k # l => BoardOf(k)' = BoardOf(k)
    PROVE  Book!SetBoards(lineups[l].match,
                          Book!Put(BoardsOf(lineups[l].match), lineups[l].placement, BoardOf(l)'))
<1> DEFINE m == lineups[l].match
           G == BoardsOf(m)
           P == Book!Put(G, lineups[l].placement, BoardOf(l)')
<1>1. m \in DOMAIN matches /\ l \in LineupsOf(m)
    BY DEF BookInv, Shape, OwnersExist, LineupsOf
<1>2. ShowsBoards(G, m) /\ ShowsBoards(G, m)'
    BY BoardsNow DEF BookInv
<1>3. LineupsOf(m)' = LineupsOf(m) /\ PlacementsOf(m)' = PlacementsOf(m) /\ m' = m
    BY DEF LineupsOf, PlacementsOf
<1>4. P = [p \in DOMAIN G \cup {lineups[l].placement} |->
            IF p = lineups[l].placement THEN BoardOf(l)' ELSE G[p]]
    BY DEF Book!Put
<1> HIDE DEF P, G, m
<1>5. DOMAIN G' = DOMAIN P
    BY <1>1, <1>2, <1>3, <1>4 DEF ShowsBoards, PlacementsOf
<1>6. \A p \in DOMAIN G' : G'[p] = P[p]
    <2> SUFFICES ASSUME NEW k \in LineupsOf(m)
                 PROVE  G'[lineups[k].placement] = P[lineups[k].placement]
        BY <1>2, <1>3 DEF ShowsBoards, PlacementsOf
    <2>1. G'[lineups[k].placement] = BoardOf(k)' /\ G[lineups[k].placement] = BoardOf(k)
        BY <1>2, <1>3 DEF ShowsBoards
    <2>2. lineups[k].placement \in DOMAIN G
        BY <1>2 DEF ShowsBoards, PlacementsOf
    <2>3. lineups[k].placement = lineups[l].placement => k = l
        BY <1>1 DEF BookInv, PlacementsUnique, LineupsOf
    <2>4. k # l => BoardOf(k)' = BoardOf(k)
        BY DEF m
    <2>5. QED
        BY <1>4, <2>1, <2>2, <2>3, <2>4
<1>7. G' = P
    <2>1. G' = [p \in DOMAIN G' |-> G'[p]]
        BY <1>2 DEF ShowsBoards
    <2>2. P = [p \in DOMAIN P |-> P[p]]
        BY <1>4
    <2>3. QED
        BY <1>5, <1>6, <2>1, <2>2, Zenon
<1>8. Book!SetBoards(m, G')
    BY <1>1, <1>3, BookEdited DEF m, G
<1>9. QED
    BY <1>7, <1>8 DEF m, G, P

\* The match has one lineup more.
LEMMA BoardAdded ==
    ASSUME BookInv, BookInv', NEW m \in DOMAIN matches, NEW new, new \notin DOMAIN lineups,
           EditsOnly(m), matches' = matches,
           DOMAIN lineups' = DOMAIN lineups \cup {new}, lineups'[new].match = m,
           \A k \in DOMAIN lineups : lineups'[k] = lineups[k],
           \A k \in LineupsOf(m) : BoardOf(k)' = BoardOf(k)
    PROVE  Book!SetBoards(m, Book!Put(BoardsOf(m), lineups'[new].placement, BoardOf(new)'))
<1> DEFINE G == BoardsOf(m)
           P == Book!Put(G, lineups'[new].placement, BoardOf(new)')
<1>1. ShowsBoards(G, m) /\ ShowsBoards(G, m)'
    BY BoardsNow DEF BookInv
<1>2. LineupsOf(m)' = LineupsOf(m) \cup {new} /\ new \notin LineupsOf(m)
    BY DEF LineupsOf
<1>3. \A k \in LineupsOf(m) : lineups'[k] = lineups[k]
    BY DEF LineupsOf
<1>4. PlacementsOf(m)' = PlacementsOf(m) \cup {lineups'[new].placement}
    BY <1>2, <1>3 DEF PlacementsOf
<1>5. P = [p \in DOMAIN G \cup {lineups'[new].placement} |->
            IF p = lineups'[new].placement THEN BoardOf(new)' ELSE G[p]]
    BY DEF Book!Put
<1>6. \A k \in LineupsOf(m) : lineups'[k].placement # lineups'[new].placement
    <2>1. PlacementsUnique'
        BY DEF BookInv
    <2>2. \A k \in LineupsOf(m) : k \in DOMAIN lineups' /\ lineups'[k].match = m /\ k # new
        BY <1>2, <1>3 DEF LineupsOf
    <2>3. QED
        BY <2>1, <2>2 DEF PlacementsUnique
<1> HIDE DEF P, G
<1>7. DOMAIN G' = DOMAIN P
    BY <1>1, <1>4, <1>5 DEF ShowsBoards
<1>8. \A p \in DOMAIN G' : G'[p] = P[p]
    <2>1. SUFFICES ASSUME NEW k \in LineupsOf(m)'
                   PROVE  G'[lineups'[k].placement] = P[lineups'[k].placement]
        BY <1>1 DEF ShowsBoards, PlacementsOf
    <2>2. G'[lineups'[k].placement] = BoardOf(k)'
        BY <1>1 DEF ShowsBoards
    <2>3. CASE k = new
        BY <1>5, <2>2, <2>3
    <2>4. CASE k \in LineupsOf(m)
        <3>1. /\ lineups'[k].placement \in DOMAIN G
              /\ G[lineups'[k].placement] = BoardOf(k)
            BY <1>1, <1>3, <2>4 DEF ShowsBoards, PlacementsOf
        <3>2. QED
            BY <1>5, <1>6, <2>2, <2>4, <3>1
    <2>5. QED
        BY <1>2, <2>3, <2>4
<1>9. G' = P
    <2>1. G' = [p \in DOMAIN G' |-> G'[p]]
        BY <1>1 DEF ShowsBoards
    <2>2. P = [p \in DOMAIN P |-> P[p]]
        BY <1>5
    <2>3. QED
        BY <1>7, <1>8, <2>1, <2>2, Zenon
<1>10. Book!SetBoards(m, G')
    BY BookEdited DEF G
<1>11. QED
    BY <1>9, <1>10 DEF G, P

\* One lineup of the match changes its row and may go to another placement.
LEMMA BoardMoved ==
    ASSUME BookInv, BookInv', NEW l \in DOMAIN lineups,
           EditsOnly(lineups[l].match), matches' = matches,
           DOMAIN lineups' = DOMAIN lineups, lineups'[l].match = lineups[l].match,
           \A k \in DOMAIN lineups : k # l => lineups'[k] = lineups[k],
           \A k \in LineupsOf(lineups[l].match) : k # l => BoardOf(k)' = BoardOf(k)
    PROVE  Book!SetBoards(lineups[l].match,
                          Book!Put(Book!Drop(BoardsOf(lineups[l].match), lineups[l].placement),
                                   lineups'[l].placement, BoardOf(l)'))
<1> SUFFICES ASSUME NEW m \in DOMAIN matches, m = lineups[l].match
             PROVE  Book!SetBoards(m, Book!Put(Book!Drop(BoardsOf(m), lineups[l].placement),
                                               lineups'[l].placement, BoardOf(l)'))
    BY DEF BookInv, Shape, OwnersExist
<1> DEFINE G == BoardsOf(m)
           to == lineups'[l].placement
           D == Book!Drop(G, lineups[l].placement)
           P == Book!Put(D, to, BoardOf(l)')
<1>1. ShowsBoards(G, m) /\ ShowsBoards(G, m)'
    BY BoardsNow DEF BookInv
<1>2. LineupsOf(m)' = LineupsOf(m) /\ l \in LineupsOf(m)
    BY DEF LineupsOf
<1>3. \A k \in LineupsOf(m) : k # l => lineups'[k] = lineups[k] /\ BoardOf(k)' = BoardOf(k)
    BY DEF LineupsOf
<1>4. \A k \in LineupsOf(m) :
        k # l => /\ lineups[k].placement # lineups[l].placement
                 /\ lineups'[k].placement # to
    <2>1. \A k \in LineupsOf(m) :
            /\ k \in DOMAIN lineups /\ lineups[k].match = m
            /\ k \in DOMAIN lineups' /\ lineups'[k].match = m
        BY <1>2 DEF LineupsOf
    <2>2. QED
        BY <1>2, <2>1 DEF BookInv, PlacementsUnique
<1>5. P = [p \in DOMAIN D \cup {to} |-> IF p = to THEN BoardOf(l)' ELSE D[p]]
    BY DEF Book!Put
<1>6. D = [p \in DOMAIN G \ {lineups[l].placement} |-> G[p]]
    BY DEF Book!Drop
<1> HIDE DEF P, D, G
<1>7. DOMAIN D = {lineups[k].placement : k \in LineupsOf(m) \ {l}}
    <2>1. DOMAIN D = {lineups[k].placement : k \in LineupsOf(m)} \ {lineups[l].placement}
        BY <1>1, <1>6 DEF ShowsBoards, PlacementsOf
    <2>2. QED
        BY <1>2, <1>4, <2>1
<1>8. DOMAIN G' = DOMAIN P
    <2>1. DOMAIN G' = {lineups'[k].placement : k \in LineupsOf(m)}
        BY <1>1, <1>2 DEF ShowsBoards, PlacementsOf
    <2>2. QED
        BY <1>2, <1>3, <1>5, <1>7, <2>1
<1>9. \A p \in DOMAIN G' : G'[p] = P[p]
    <2>1. SUFFICES ASSUME NEW k \in LineupsOf(m)
                   PROVE  G'[lineups'[k].placement] = P[lineups'[k].placement]
        BY <1>1, <1>2 DEF ShowsBoards, PlacementsOf
    <2>2. G'[lineups'[k].placement] = BoardOf(k)'
        BY <1>1, <1>2 DEF ShowsBoards
    <2>3. CASE k = l
        BY <1>5, <2>2, <2>3
    <2>4. CASE k # l
        <3>1. G[lineups[k].placement] = BoardOf(k)
            BY <1>1 DEF ShowsBoards
        <3>2. lineups[k].placement \in DOMAIN D
            BY <1>7, <2>4
        <3>3. D[lineups[k].placement] = BoardOf(k)
            BY <1>6, <3>1, <3>2
        <3>4. QED
            BY <1>3, <1>4, <1>5, <2>2, <2>4, <3>2, <3>3
    <2>5. QED
        BY <2>3, <2>4
<1>10. G' = P
    <2>1. G' = [p \in DOMAIN G' |-> G'[p]]
        BY <1>1 DEF ShowsBoards
    <2>2. P = [p \in DOMAIN P |-> P[p]]
        BY <1>5
    <2>3. QED
        BY <1>8, <1>9, <2>1, <2>2, Zenon
<1>11. Book!SetBoards(m, G')
    BY BookEdited DEF G
<1>12. QED
    BY <1>10, <1>11 DEF G, P, D

\* One lineup of the match is gone.
LEMMA BoardDropped ==
    ASSUME BookInv, BookInv', NEW l \in DOMAIN lineups,
           EditsOnly(lineups[l].match), matches' = matches,
           lineups' = Without(lineups, {l}),
           \A k \in LineupsOf(lineups[l].match) : k # l => BoardOf(k)' = BoardOf(k)
    PROVE  Book!SetBoards(lineups[l].match,
                          Book!Drop(BoardsOf(lineups[l].match), lineups[l].placement))
<1> SUFFICES ASSUME NEW m \in DOMAIN matches, m = lineups[l].match
             PROVE  Book!SetBoards(m, Book!Drop(BoardsOf(m), lineups[l].placement))
    BY DEF BookInv, Shape, OwnersExist
<1> DEFINE G == BoardsOf(m)
           D == Book!Drop(G, lineups[l].placement)
<1>1. ShowsBoards(G, m) /\ ShowsBoards(G, m)'
    BY BoardsNow DEF BookInv
<1>2. /\ LineupsOf(m)' = LineupsOf(m) \ {l} /\ l \in LineupsOf(m)
      /\ \A k \in LineupsOf(m) : k # l => lineups'[k] = lineups[k] /\ BoardOf(k)' = BoardOf(k)
    BY DEF LineupsOf, Without
<1>3. \A k \in LineupsOf(m) : k # l => lineups[k].placement # lineups[l].placement
    BY <1>2 DEF BookInv, PlacementsUnique, LineupsOf
<1>4. D = [p \in DOMAIN G \ {lineups[l].placement} |-> G[p]]
    BY DEF Book!Drop
<1> HIDE DEF D, G
<1>5. /\ DOMAIN G = {lineups[k].placement : k \in LineupsOf(m)}
      /\ DOMAIN G' = {lineups[k].placement : k \in LineupsOf(m) \ {l}}
    <2>1. DOMAIN G = {lineups[k].placement : k \in LineupsOf(m)}
        BY <1>1 DEF ShowsBoards, PlacementsOf
    <2>2. DOMAIN G' = {lineups'[k].placement : k \in LineupsOf(m)'}
        BY <1>1 DEF ShowsBoards, PlacementsOf
    <2>3. \A k \in LineupsOf(m)' : lineups'[k].placement = lineups[k].placement
        BY <1>2
    <2>4. DOMAIN G' = {lineups[k].placement : k \in LineupsOf(m) \ {l}}
        BY <1>2, <2>2, <2>3
    <2>5. QED
        BY <2>1, <2>4
<1>6. \A p \in DOMAIN G' : G'[p] = D[p]
    <2>1. SUFFICES ASSUME NEW k \in LineupsOf(m), k # l
                   PROVE  G'[lineups[k].placement] = D[lineups[k].placement]
        BY <1>5
    <2>2. /\ G'[lineups[k].placement] = BoardOf(k)' /\ G[lineups[k].placement] = BoardOf(k)
          /\ lineups[k].placement \in DOMAIN G
        BY <1>1, <1>2, <2>1 DEF ShowsBoards, PlacementsOf
    <2>3. QED
        BY <1>2, <1>3, <1>4, <2>1, <2>2
<1>7. G' = D
    <2>1. G' = [p \in DOMAIN G' |-> G'[p]]
        BY <1>1 DEF ShowsBoards
    <2>2. D = [p \in DOMAIN D |-> D[p]]
        BY <1>4
    <2>3. DOMAIN G' = DOMAIN D
        BY <1>2, <1>3, <1>4, <1>5
    <2>4. QED
        BY <1>6, <2>1, <2>2, <2>3, Zenon
<1>8. Book!SetBoards(m, G')
    BY BookEdited DEF G
<1>9. QED
    BY <1>7, <1>8 DEF G, D

-----------------------------------------------------------------------------
(* Edits of one board.                                                     *)

LEMMA WritableBoard ==
    ASSUME BookInv, NEW l, LineupWritable(l)
    PROVE  /\ l \in DOMAIN lineups /\ lineups[l].match \in DOMAIN matches
           /\ Book!Draft(lineups[l].match) /\ lineups[l].match \in 1..MaxMatches
           /\ Book!Boards(lineups[l].match) = BoardsOf(lineups[l].match)
           /\ lineups[l].placement \in Placements
           /\ lineups[l].placement \in DOMAIN BoardsOf(lineups[l].match)
           /\ BoardsOf(lineups[l].match)[lineups[l].placement] = BoardOf(l)
<1>1. l \in DOMAIN lineups /\ MatchWritable(lineups[l].match)
    BY DEF LineupWritable
<1>2. lineups[l].match \in DOMAIN matches /\ lineups[l].placement \in Placements
    BY <1>1 DEF MatchWritable, BookInv, Shape, TypeOK, IsTable, LineupRow
<1>3. ShowsBoards(BoardsOf(lineups[l].match), lineups[l].match)
    BY BoardsNow DEF BookInv
<1>4. l \in LineupsOf(lineups[l].match)
    BY <1>1 DEF LineupsOf
<1>5. /\ lineups[l].placement \in DOMAIN BoardsOf(lineups[l].match)
      /\ BoardsOf(lineups[l].match)[lineups[l].placement] = BoardOf(l)
    BY <1>3, <1>4 DEF ShowsBoards, PlacementsOf
<1>6. QED
    BY <1>1, <1>2, <1>5, DraftOf

\* c is board b after one edit of the book.
IsEdit(b, c) ==
    \/ \E h \in CodexIds("heroes"), s \in 1..MaxStars :
            c = [b EXCEPT !.cells = Book!Put(b.cells, Book!NextSlotIndex(DOMAIN b.cells),
                                             Book!BareCell(h, s))]
    \/ \E i \in DOMAIN b.cells : c = [b EXCEPT !.cells = Book!Drop(b.cells, i)]
    \/ \E i \in DOMAIN b.cells, s \in 1..MaxStars : c = [b EXCEPT !.cells[i].stars = s]
    \/ \E i \in DOMAIN b.cells, x \in CodexIds("items") :
            \E n \in {b.cells[i].items[x] + 1, 0} : c = [b EXCEPT !.cells[i].items[x] = n]
    \/ \E r \in CodexIds("relics") : \E relics \in {b.relics \cup {r}, b.relics \ {r}} :
            c = [b EXCEPT !.relics = relics]

LEMMA EditOf ==
    ASSUME BookInv, BookInv', NEW l, LineupWritable(l),
           EditsOnly(lineups[l].match), matches' = matches, lineups' = lineups,
           \A k \in LineupsOf(lineups[l].match) : k # l => BoardOf(k)' = BoardOf(k),
           IsEdit(BoardOf(l), BoardOf(l)')
    PROVE  Book!BookNext
<1> DEFINE m == lineups[l].match
           p == lineups[l].placement
           c == BoardOf(l)'
<1>1. /\ m \in 1..MaxMatches /\ p \in Placements
      /\ Book!Draft(m) /\ Book!Boards(m) = BoardsOf(m)
      /\ p \in DOMAIN BoardsOf(m) /\ BoardsOf(m)[p] = BoardOf(l)
    BY WritableBoard
<1>2. Book!SetBoards(m, Book!Put(BoardsOf(m), p, c))
    BY WritableBoard, BoardReplaced
<1> HIDE DEF m, p, c
<1> DEFINE G == Book!Boards(m)
           b == G[p]
<1>3. IsEdit(b, c) /\ Book!SetBoards(m, Book!Put(G, p, c)) /\ Book!Draft(m) /\ p \in DOMAIN G
    BY <1>1, <1>2 DEF c
<1>4. Book!Edit(m, p)
    <2>1. CASE \E h \in CodexIds("heroes"), s \in 1..MaxStars :
                c = [b EXCEPT !.cells = Book!Put(b.cells, Book!NextSlotIndex(DOMAIN b.cells),
                                                 Book!BareCell(h, s))]
        BY <1>3, <2>1, Zenon DEF Book!Edit
    <2>2. CASE \E i \in DOMAIN b.cells : c = [b EXCEPT !.cells = Book!Drop(b.cells, i)]
        BY <1>3, <2>2, Zenon DEF Book!Edit
    <2>3. CASE \E i \in DOMAIN b.cells, s \in 1..MaxStars : c = [b EXCEPT !.cells[i].stars = s]
        BY <1>3, <2>3, Zenon DEF Book!Edit
    <2>4. CASE \E i \in DOMAIN b.cells, x \in CodexIds("items") :
                \E n \in {b.cells[i].items[x] + 1, 0} : c = [b EXCEPT !.cells[i].items[x] = n]
        BY <1>3, <2>4, Zenon DEF Book!Edit
    <2>5. CASE \E r \in CodexIds("relics") : \E relics \in {b.relics \cup {r}, b.relics \ {r}} :
                c = [b EXCEPT !.relics = relics]
        BY <1>3, <2>5, Zenon DEF Book!Edit
    <2>6. QED
        BY <1>3, <2>1, <2>2, <2>3, <2>4, <2>5, Zenon DEF IsEdit
<1>5. p \in Book!Placements
    BY <1>1 DEF Placements, Book!Placements
<1>6. QED
    BY <1>1, <1>4, <1>5 DEF Book!BookNext

\* A step that writes slots and items of lineup l only.
LEMMA OtherCellsKept ==
    ASSUME BookInv, BookInv', lineups' = lineups, lineupRelics' = lineupRelics,
           NEW l, NEW k, k # l,
           \A s \in DOMAIN slots : slots[s].lineup # l =>
                s \in DOMAIN slots' /\ slots'[s] = slots[s] /\ slotItems'[s] = slotItems[s],
           \A s \in DOMAIN slots' : slots'[s].lineup # l =>
                s \in DOMAIN slots /\ slots[s].lineup # l
    PROVE  BoardOf(k)' = BoardOf(k)
<1>1. SlotsOf(k)' = SlotsOf(k)
    BY DEF SlotsOf
<1>2. \A s \in SlotsOf(k) : slots'[s] = slots[s] /\ slotItems'[s] = slotItems[s]
    BY DEF SlotsOf
<1>3. QED
    BY <1>1, <1>2, BoardKept DEF BookInv

LEMMA OnlyCellsChange ==
    ASSUME NEW l, lineups' = lineups, lineupRelics' = lineupRelics
    PROVE  BoardOf(l)' = [BoardOf(l) EXCEPT !.cells = BoardOf(l)'.cells]
BY BoardIs DEF BoardFrom

\* A step that rewrites slot s where it is.
LEMMA CellReplaced ==
    ASSUME BookInv, BookInv', NEW s \in DOMAIN slots,
           DOMAIN slots' = DOMAIN slots,
           \A t \in DOMAIN slots : /\ slots'[t].lineup = slots[t].lineup
                                   /\ slots'[t].index = slots[t].index,
           \A t \in DOMAIN slots : t # s => slots'[t] = slots[t] /\ slotItems'[t] = slotItems[t],
           NEW l, l = slots[s].lineup
    PROVE  /\ slots[s].index \in DOMAIN BoardOf(l).cells
           /\ BoardOf(l).cells[slots[s].index] = CellRow(slots, slotItems, s)
           /\ BoardOf(l)'.cells = [BoardOf(l).cells EXCEPT
                                     ![slots[s].index] = CellRow(slots', slotItems', s)]
<1> DEFINE C == BoardOf(l).cells
           i == slots[s].index
           E == [C EXCEPT ![i] = CellRow(slots', slotItems', s)]
<1>1. ShowsCells(C, l) /\ ShowsCells(C, l)'
    BY CellsNow DEF BookInv
<1>2. SlotsOf(l)' = SlotsOf(l) /\ s \in SlotsOf(l)
    BY DEF SlotsOf
<1>3. IndexesOf(l)' = IndexesOf(l) /\ i \in IndexesOf(l)
    BY <1>2 DEF IndexesOf, SlotsOf
<1>4. \A t \in SlotsOf(l) : t # s => /\ slots[t].index # i
                                     /\ CellRow(slots', slotItems', t) = CellRow(slots, slotItems, t)
    BY <1>2 DEF SlotsOf, CellRow, BookInv, CellsUnique
<1>5. E = [j \in DOMAIN C |-> IF j = i THEN CellRow(slots', slotItems', s) ELSE C[j]]
    OBVIOUS
<1>6. \A t \in SlotsOf(l) : slots'[t].index = slots[t].index
    BY DEF SlotsOf
<1> HIDE DEF C, E
<1>7. DOMAIN C' = IndexesOf(l) /\ DOMAIN E = IndexesOf(l)
    BY <1>1, <1>3, <1>5 DEF ShowsCells
<1>8. \A j \in DOMAIN C' : C'[j] = E[j]
    <2>1. SUFFICES ASSUME NEW t \in SlotsOf(l) PROVE C'[slots[t].index] = E[slots[t].index]
        BY <1>7 DEF IndexesOf
    <2>2. /\ C'[slots[t].index] = CellRow(slots', slotItems', t)
          /\ C[slots[t].index] = CellRow(slots, slotItems, t)
          /\ slots[t].index \in DOMAIN C
        BY <1>1, <1>2, <1>6 DEF ShowsCells, IndexesOf
    <2>3. QED
        BY <1>4, <1>5, <2>2
<1>9. C' = E
    <2>1. C' = [j \in DOMAIN C' |-> C'[j]] /\ E = [j \in DOMAIN E |-> E[j]]
        BY <1>1, <1>5 DEF ShowsCells
    <2>2. QED
        BY <1>7, <1>8, <2>1, Zenon
<1>10. i \in DOMAIN C /\ C[i] = CellRow(slots, slotItems, s)
    BY <1>1, <1>2, <1>3 DEF ShowsCells
<1>11. QED
    BY <1>9, <1>10 DEF C, E

LEMMA BookSetSlotStars ==
    ASSUME BookInv, BookInv', NEW s, NEW stars, SetSlotStars(s, stars)
    PROVE  Book!BookNext
<1> SUFFICES ASSUME NEW l, l = slots[s].lineup, NEW i, i = slots[s].index
             PROVE  Book!BookNext
    OBVIOUS
<1> DEFINE B == BoardOf(l)
<1>1. /\ s \in DOMAIN slots /\ LineupWritable(l) /\ stars \in 1..MaxStars
      /\ slots' = [slots EXCEPT ![s].stars = stars]
      /\ slotItems' = slotItems /\ lineups' = lineups /\ lineupRelics' = lineupRelics
      /\ matches' = matches
    BY DEF SetSlotStars, SlotWritable
<1>2. EditsOnly(lineups[l].match)
    <2>1. EditsOnly(lineups[slots[s].lineup].match)
        BY EditsSlot DEF BookInv, MatchOfSlot
    <2>2. QED
        BY <2>1
<1>3. \A t \in DOMAIN slots : slots[t] \in SlotRow
    BY DEF BookInv, Shape, TypeOK, IsTable
<1>4. /\ DOMAIN slots' = DOMAIN slots
      /\ slots'[s] = [slots[s] EXCEPT !.stars = stars]
      /\ \A t \in DOMAIN slots : t # s => slots'[t] = slots[t]
    BY <1>1
<1>5. /\ slots'[s].lineup = slots[s].lineup /\ slots'[s].index = slots[s].index
      /\ slots'[s].hero = slots[s].hero /\ slots'[s].stars = stars
    BY <1>1, <1>3, <1>4 DEF SlotRow
<1>6. \A k : k # l => BoardOf(k)' = BoardOf(k)
    <2> SUFFICES ASSUME NEW k, k # l PROVE BoardOf(k)' = BoardOf(k)
        OBVIOUS
    <2>1. /\ \A t \in DOMAIN slots : slots[t].lineup # l =>
                t \in DOMAIN slots' /\ slots'[t] = slots[t] /\ slotItems'[t] = slotItems[t]
          /\ \A t \in DOMAIN slots' : slots'[t].lineup # l =>
                t \in DOMAIN slots /\ slots[t].lineup # l
        BY <1>1, <1>4, <1>5
    <2>2. QED
        BY <1>1, <2>1, OtherCellsKept
<1>7. /\ i \in DOMAIN B.cells /\ B.cells[i] = CellRow(slots, slotItems, s)
      /\ BoardOf(l)'.cells = [B.cells EXCEPT ![i] = CellRow(slots', slotItems', s)]
    <2>1. /\ \A t \in DOMAIN slots : /\ slots'[t].lineup = slots[t].lineup
                                     /\ slots'[t].index = slots[t].index
          /\ \A t \in DOMAIN slots : t # s => slots'[t] = slots[t] /\ slotItems'[t] = slotItems[t]
        BY <1>1, <1>4, <1>5
    <2>2. QED
        BY <1>1, <1>4, <2>1, CellReplaced DEF B
<1>8. CellRow(slots', slotItems', s) = [B.cells[i] EXCEPT !.stars = stars]
    BY <1>1, <1>5, <1>7 DEF CellRow
<1>9. BoardOf(l)' = [B EXCEPT !.cells = BoardOf(l)'.cells]
    BY <1>1, OnlyCellsChange
<1> HIDE DEF B
<1>10. BoardOf(l)' = [B EXCEPT !.cells[i].stars = stars]
    BY <1>7, <1>8, <1>9
<1>11. IsEdit(B, BoardOf(l)')
    BY <1>1, <1>7, <1>10, Zenon DEF IsEdit
<1>12. QED
    BY <1>1, <1>2, <1>6, <1>11, EditOf DEF B

LEMMA BookSlotItem ==
    ASSUME BookInv, BookInv', NEW s, NEW item \in CodexIds("items"),
           AddSlotItem(s, item) \/ RemoveSlotItem(s, item)
    PROVE  Book!BookNext
<1> SUFFICES ASSUME NEW l, l = slots[s].lineup, NEW i, i = slots[s].index
             PROVE  Book!BookNext
    OBVIOUS
<1> DEFINE B == BoardOf(l)
<1>1. /\ s \in DOMAIN slots /\ LineupWritable(l)
      /\ slots' = slots /\ lineups' = lineups /\ lineupRelics' = lineupRelics
      /\ matches' = matches
    BY DEF AddSlotItem, RemoveSlotItem, SlotWritable
<1>2. EditsOnly(lineups[l].match)
    <2>1. EditsOnly(lineups[slots[s].lineup].match)
        BY EditsSlot DEF BookInv, MatchOfSlot
    <2>2. QED
        BY <2>1
<1>3. DOMAIN slotItems = DOMAIN slots
    BY DEF BookInv, Shape, OwnersExist
<1>4. PICK n : /\ slotItems' = [slotItems EXCEPT ![s] = [slotItems[s] EXCEPT ![item] = n]]
               /\ n \in {slotItems[s][item] + 1, 0}
    BY DEF AddSlotItem, RemoveSlotItem
<1>5. \A t \in DOMAIN slots : t # s => slotItems'[t] = slotItems[t]
    BY <1>3, <1>4
<1>6. \A k : k # l => BoardOf(k)' = BoardOf(k)
    BY <1>1, <1>5, OtherCellsKept
<1>7. /\ i \in DOMAIN B.cells /\ B.cells[i] = CellRow(slots, slotItems, s)
      /\ BoardOf(l)'.cells = [B.cells EXCEPT ![i] = CellRow(slots', slotItems', s)]
    BY <1>1, <1>5, CellReplaced
<1>8. CellRow(slots', slotItems', s)
        = [B.cells[i] EXCEPT !.items = [slotItems[s] EXCEPT ![item] = n]]
    BY <1>1, <1>3, <1>4, <1>7 DEF CellRow
<1>9. B.cells[i].items = slotItems[s]
    BY <1>7 DEF CellRow
<1>10. BoardOf(l)' = [B EXCEPT !.cells = BoardOf(l)'.cells]
    BY <1>1, OnlyCellsChange
<1> HIDE DEF B
<1>11. BoardOf(l)' = [B EXCEPT !.cells[i].items[item] = n]
    BY <1>7, <1>8, <1>9, <1>10
<1>12. IsEdit(B, BoardOf(l)')
    <2>1. n \in {B.cells[i].items[item] + 1, 0}
        BY <1>4, <1>9
    <2>2. \E k \in {B.cells[i].items[item] + 1, 0} :
            BoardOf(l)' = [B EXCEPT !.cells[i].items[item] = k]
        BY <1>11, <2>1, Zenon
    <2>3. \E j \in DOMAIN B.cells, x \in CodexIds("items") :
            \E k \in {B.cells[j].items[x] + 1, 0} :
                BoardOf(l)' = [B EXCEPT !.cells[j].items[x] = k]
        BY <1>7, <2>2, Zenon
    <2>4. QED
        BY <2>3, Zenon DEF IsEdit
<1>13. QED
    BY <1>1, <1>2, <1>6, <1>12, EditOf DEF B

\* The module of the book has operators of its own for the domain rules.
LEMMA SameCount ==
    ASSUME NEW S
    PROVE  Book!Cardinality(S) = Cardinality(S)
BY Zenon DEF Book!Cardinality, Cardinality

\* The book scans for a free index and a free placement as the store does.
LEMMA SameScans ==
    ASSUME NEW used
    PROVE  /\ Book!NextSlotIndex(used) = NextSlotIndex(used)
           /\ Book!FirstFreePlacement(used) = FirstFreePlacement(used)
<1>1. Book!NextSlotIndex(used) = NextSlotIndex(used)
    BY SameCount, Zenon DEF Book!NextSlotIndex, NextSlotIndex
<1>2. Book!FirstFreePlacement(used) = FirstFreePlacement(used)
    BY Zenon DEF Book!FirstFreePlacement, FirstFreePlacement, Book!Placements, Placements
<1>3. QED
    BY <1>1, <1>2

LEMMA BookAddSlot ==
    ASSUME BookInv, BookInv', NEW l, NEW hero \in CodexIds("heroes"), NEW stars,
           AddSlot(l, hero, stars)
    PROVE  Book!BookNext
<1> DEFINE B == BoardOf(l)
           C == B.cells
           n == NextSlotIndex(IndexesOf(l))
<1> SUFFICES ASSUME NEW at, at = n PROVE Book!BookNext
    OBVIOUS
<1>1. /\ LineupWritable(l) /\ stars \in 1..MaxStars
      /\ lineups' = lineups /\ lineupRelics' = lineupRelics /\ matches' = matches
    BY DEF AddSlot
<1>2. EditsOnly(lineups[l].match)
    BY EditsAddSlot DEF BookInv
<1>3. PICK new : /\ new \notin DOMAIN slots
                 /\ slots' = Insert(slots, new, [lineup |-> l, hero |-> hero,
                                                 index |-> at, stars |-> stars])
                 /\ slotItems' = Insert(slotItems, new, NoItems)
    <2>1. PICK high \in 0..(MaxSlots - 1) :
            /\ IsHighest(high, DOMAIN slots)
            /\ slots' = Insert(slots, high + 1, [lineup |-> l, hero |-> hero,
                                                 index |-> at, stars |-> stars])
            /\ slotItems' = Insert(slotItems, high + 1, NoItems)
        BY DEF AddSlot
    <2>2. DOMAIN slots \in SUBSET Nat
        BY DEF BookInv, Shape, TypeOK, IsTable, SlotIds
    <2>3. QED
        BY <2>1, <2>2, HighestIsFresh
<1>4. DOMAIN slotItems = DOMAIN slots
    BY DEF BookInv, Shape, OwnersExist
<1>5. /\ DOMAIN slots' = DOMAIN slots \cup {new}
      /\ \A t \in DOMAIN slots : slots'[t] = slots[t] /\ slotItems'[t] = slotItems[t]
      /\ slots'[new].lineup = l /\ slots'[new].index = at
      /\ CellRow(slots', slotItems', new) = Book!BareCell(hero, stars)
    <2>1. slots'[new] = [lineup |-> l, hero |-> hero, index |-> at, stars |-> stars]
        BY <1>3 DEF Insert
    <2>2. slotItems'[new] = NoItems
        BY <1>3 DEF Insert
    <2>3. CellRow(slots', slotItems', new) = Book!BareCell(hero, stars)
        BY <2>1, <2>2 DEF CellRow, Book!BareCell, NoItems
    <2>4. /\ DOMAIN slots' = DOMAIN slots \cup {new}
          /\ \A t \in DOMAIN slots : slots'[t] = slots[t] /\ slotItems'[t] = slotItems[t]
        BY <1>3, <1>4 DEF Insert
    <2>5. QED
        BY <2>1, <2>3, <2>4
<1>6. \A k : k # l => BoardOf(k)' = BoardOf(k)
    <2>1. /\ \A t \in DOMAIN slots : slots[t].lineup # l =>
                t \in DOMAIN slots' /\ slots'[t] = slots[t] /\ slotItems'[t] = slotItems[t]
          /\ \A t \in DOMAIN slots' : slots'[t].lineup # l =>
                t \in DOMAIN slots /\ slots[t].lineup # l
        BY <1>5
    <2>2. QED
        BY <1>1, <2>1, OtherCellsKept
<1>7. ShowsCells(C, l) /\ ShowsCells(C, l)'
    BY CellsNow DEF BookInv
<1>8. SlotsOf(l)' = SlotsOf(l) \cup {new}
    BY <1>5 DEF SlotsOf
<1>9. \A t \in SlotsOf(l) : /\ slots'[t].index = slots[t].index /\ slots[t].index # at
                            /\ CellRow(slots', slotItems', t) = CellRow(slots, slotItems, t)
    <2>1. CellsUnique'
        BY DEF BookInv
    <2>2. \A t \in SlotsOf(l) : /\ t \in DOMAIN slots' /\ t # new /\ slots'[t] = slots[t]
                                /\ slots'[t].lineup = l /\ slotItems'[t] = slotItems[t]
        BY <1>3, <1>5 DEF SlotsOf
    <2>3. QED
        BY <1>5, <2>1, <2>2 DEF CellsUnique, CellRow
<1>10. IndexesOf(l)' = IndexesOf(l) \cup {at}
    <2>1. IndexesOf(l)' = {slots'[t].index : t \in SlotsOf(l) \cup {new}}
        BY <1>8 DEF IndexesOf
    <2>2. {slots'[t].index : t \in SlotsOf(l) \cup {new}}
            = {slots[t].index : t \in SlotsOf(l)} \cup {at}
        BY <1>5, <1>9
    <2>3. IndexesOf(l) = {slots[t].index : t \in SlotsOf(l)}
        BY DEF IndexesOf
    <2>4. QED
        BY <2>1, <2>2, <2>3
<1> DEFINE E == Book!Put(C, at, Book!BareCell(hero, stars))
<1>11. E = [i \in DOMAIN C \cup {at} |-> IF i = at THEN Book!BareCell(hero, stars) ELSE C[i]]
    BY DEF Book!Put
<1> HIDE DEF E, C, n
<1>12. DOMAIN C' = IndexesOf(l) \cup {at} /\ DOMAIN C = IndexesOf(l)
    BY <1>7, <1>10 DEF ShowsCells
<1>13. \A i \in DOMAIN C' : C'[i] = E[i]
    <2>1. C'[at] = E[at]
        BY <1>5, <1>7, <1>8, <1>11 DEF ShowsCells
    <2>2. \A t \in SlotsOf(l) : C'[slots[t].index] = E[slots[t].index]
        <3> SUFFICES ASSUME NEW t \in SlotsOf(l) PROVE C'[slots[t].index] = E[slots[t].index]
            OBVIOUS
        <3>1. C'[slots[t].index] = CellRow(slots, slotItems, t)
            BY <1>7, <1>8, <1>9 DEF ShowsCells
        <3>2. C[slots[t].index] = CellRow(slots, slotItems, t) /\ slots[t].index \in DOMAIN C
            BY <1>7 DEF ShowsCells, IndexesOf
        <3>3. QED
            BY <1>9, <1>11, <3>1, <3>2
    <2>3. QED
        BY <1>12, <2>1, <2>2 DEF IndexesOf
<1>14. C' = E
    <2>1. C' = [i \in DOMAIN C' |-> C'[i]] /\ E = [i \in DOMAIN E |-> E[i]]
        BY <1>7, <1>11 DEF ShowsCells
    <2>2. DOMAIN C' = DOMAIN E
        BY <1>11, <1>12
    <2>3. QED
        BY <1>13, <2>1, <2>2, Zenon
<1>15. Book!NextSlotIndex(DOMAIN C) = at
    <2>1. Book!NextSlotIndex(IndexesOf(l)) = NextSlotIndex(IndexesOf(l))
        BY SameScans
    <2>2. Book!NextSlotIndex(DOMAIN C) = Book!NextSlotIndex(IndexesOf(l))
        BY <1>12
    <2>3. QED
        BY <2>1, <2>2 DEF n
<1>16. BoardOf(l)' = [B EXCEPT !.cells = Book!Put(C, Book!NextSlotIndex(DOMAIN C),
                                                  Book!BareCell(hero, stars))]
    <2>1. BoardOf(l)' = [B EXCEPT !.cells = BoardOf(l)'.cells]
        BY <1>1, OnlyCellsChange
    <2>2. BoardOf(l)'.cells = C'
        BY DEF C
    <2>3. QED
        BY <1>14, <1>15, <2>1, <2>2 DEF E
<1>17. IsEdit(B, BoardOf(l)')
    BY <1>1, <1>16, Zenon DEF IsEdit, C
<1>18. QED
    BY <1>1, <1>2, <1>6, <1>17, EditOf

LEMMA BookDeleteSlot ==
    ASSUME BookInv, BookInv', NEW s, DeleteSlot(s)
    PROVE  Book!BookNext
<1> SUFFICES ASSUME NEW l, l = slots[s].lineup, NEW i, i = slots[s].index
             PROVE  Book!BookNext
    OBVIOUS
<1> DEFINE B == BoardOf(l)
           C == B.cells
           D == Book!Drop(C, i)
<1>1. /\ s \in DOMAIN slots /\ LineupWritable(l)
      /\ slots' = Without(slots, {s}) /\ slotItems' = Without(slotItems, {s})
      /\ lineups' = lineups /\ lineupRelics' = lineupRelics /\ matches' = matches
    BY DEF DeleteSlot, SlotWritable
<1>2. EditsOnly(lineups[l].match)
    <2>1. EditsOnly(lineups[slots[s].lineup].match)
        BY EditsSlot DEF BookInv, MatchOfSlot
    <2>2. QED
        BY <2>1
<1>3. /\ DOMAIN slots' = DOMAIN slots \ {s}
      /\ \A t \in DOMAIN slots' : slots'[t] = slots[t] /\ slotItems'[t] = slotItems[t]
    BY <1>1 DEF Without, BookInv, Shape, OwnersExist
<1>4. ASSUME NEW k, k # l PROVE BoardOf(k)' = BoardOf(k)
    <2>1. \A t \in DOMAIN slots : slots[t].lineup # l =>
            t \in DOMAIN slots' /\ slots'[t] = slots[t] /\ slotItems'[t] = slotItems[t]
        BY <1>3
    <2>2. \A t \in DOMAIN slots' : slots'[t].lineup # l =>
            t \in DOMAIN slots /\ slots[t].lineup # l
        BY <1>3
    <2>3. QED
        BY <1>1, <1>4, <2>1, <2>2, OtherCellsKept
<1>5. ShowsCells(C, l) /\ ShowsCells(C, l)'
    BY CellsNow DEF BookInv
<1>6. SlotsOf(l)' = SlotsOf(l) \ {s} /\ s \in SlotsOf(l)
    BY <1>1, <1>3 DEF SlotsOf
<1>7. \A t \in SlotsOf(l) : t # s => /\ slots'[t].index = slots[t].index /\ slots[t].index # i
                                     /\ CellRow(slots', slotItems', t) = CellRow(slots, slotItems, t)
    <2>1. \A t \in SlotsOf(l) : t # s => t \in DOMAIN slots'
        BY <1>3 DEF SlotsOf
    <2>2. QED
        BY <1>1, <1>3, <2>1 DEF BookInv, CellsUnique, SlotsOf, CellRow
<1>8. D = [j \in DOMAIN C \ {i} |-> C[j]]
    BY DEF Book!Drop
<1> HIDE DEF D, C
<1>9. DOMAIN C = {slots[t].index : t \in SlotsOf(l)}
    BY <1>5 DEF ShowsCells, IndexesOf
<1>10. DOMAIN C' = {slots[t].index : t \in SlotsOf(l) \ {s}}
    <2>1. DOMAIN C' = {slots'[t].index : t \in SlotsOf(l)'}
        BY <1>5 DEF ShowsCells, IndexesOf
    <2>2. QED
        BY <1>6, <1>7, <2>1
<1>11. \A j \in DOMAIN C' : C'[j] = D[j]
    <2>1. SUFFICES ASSUME NEW t \in SlotsOf(l), t # s PROVE C'[slots[t].index] = D[slots[t].index]
        BY <1>10
    <2>2. C'[slots[t].index] = CellRow(slots, slotItems, t)
        BY <1>5, <1>6, <1>7, <2>1 DEF ShowsCells
    <2>3. C[slots[t].index] = CellRow(slots, slotItems, t) /\ slots[t].index \in DOMAIN C
        BY <1>5, <1>9 DEF ShowsCells
    <2>4. QED
        BY <1>7, <1>8, <2>1, <2>2, <2>3
<1>12. C' = D
    <2>1. C' = [j \in DOMAIN C' |-> C'[j]] /\ D = [j \in DOMAIN D |-> D[j]]
        BY <1>5, <1>8 DEF ShowsCells
    <2>2. DOMAIN C' = DOMAIN D
        BY <1>6, <1>7, <1>8, <1>9, <1>10
    <2>3. QED
        BY <1>11, <2>1, <2>2, Zenon
<1>13. BoardOf(l)' = [B EXCEPT !.cells = Book!Drop(C, i)]
    <2>1. BoardOf(l)' = [B EXCEPT !.cells = BoardOf(l)'.cells]
        BY <1>1, OnlyCellsChange
    <2>2. BoardOf(l)'.cells = C'
        BY DEF C
    <2>3. QED
        BY <1>12, <2>1, <2>2 DEF D
<1>14. i \in DOMAIN C
    BY <1>6, <1>9
<1>15. IsEdit(B, BoardOf(l)')
    BY <1>13, <1>14, Zenon DEF IsEdit, C
<1>16. QED
    BY <1>1, <1>2, <1>4, <1>15, EditOf

LEMMA BookLineupRelic ==
    ASSUME BookInv, BookInv', NEW l, NEW relic \in CodexIds("relics"),
           AddLineupRelic(l, relic) \/ RemoveLineupRelic(l, relic)
    PROVE  Book!BookNext
<1> DEFINE B == BoardOf(l)
<1>1. /\ LineupWritable(l) /\ lineups' = lineups /\ matches' = matches
      /\ slots' = slots /\ slotItems' = slotItems
    BY DEF AddLineupRelic, RemoveLineupRelic
<1>2. EditsOnly(lineups[l].match)
    BY EditsLineupRelic DEF BookInv
<1>3. PICK R \in {lineupRelics[l] \cup {relic}, lineupRelics[l] \ {relic}} :
        lineupRelics' = [lineupRelics EXCEPT ![l] = R]
    BY DEF AddLineupRelic, RemoveLineupRelic
<1>4. l \in DOMAIN lineupRelics
    BY <1>1 DEF BookInv, Shape, OwnersExist, LineupWritable
<1>5. \A k : k # l => BoardOf(k)' = BoardOf(k)
    <2> SUFFICES ASSUME NEW k, k # l PROVE BoardOf(k)' = BoardOf(k)
        OBVIOUS
    <2>1. lineupRelics'[k] = lineupRelics[k] /\ lineups'[k] = lineups[k]
        BY <1>1, <1>3
    <2>2. /\ SlotsOf(k)' = SlotsOf(k)
          /\ \A s \in SlotsOf(k) : slots'[s] = slots[s] /\ slotItems'[s] = slotItems[s]
        BY <1>1 DEF SlotsOf
    <2>3. QED
        BY <2>1, <2>2, BoardKept DEF BookInv
<1>6. BoardOf(l)' = [B EXCEPT !.relics = R] /\ B.relics = lineupRelics[l]
    <2>1. lineupRelics'[l] = R
        BY <1>3, <1>4
    <2>2. QED
        BY <1>1, <2>1, BoardIs DEF BoardFrom
<1> HIDE DEF B
<1>7. IsEdit(B, BoardOf(l)')
    <2>1. \E k \in {B.relics \cup {relic}, B.relics \ {relic}} : BoardOf(l)' = [B EXCEPT !.relics = k]
        BY <1>6, Zenon
    <2>2. QED
        BY <2>1, Zenon DEF IsEdit
<1>8. QED
    BY <1>1, <1>2, <1>5, <1>7, EditOf DEF B

\* A game as the operations of the book name it: the match of a writable lineup and
\* the placement of its board.
LEMMA NamedBoard ==
    ASSUME BookInv, NEW l, LineupWritable(l), NEW m, m = lineups[l].match,
           NEW p, p = lineups[l].placement
    PROVE  /\ l \in DOMAIN lineups /\ m \in DOMAIN matches /\ m \in 1..MaxMatches
           /\ Book!Draft(m) /\ Book!Boards(m) = BoardsOf(m)
           /\ p \in Book!Placements /\ p \in DOMAIN BoardsOf(m)
           /\ BoardsOf(m)[p] = BoardOf(l)
<1>1. p \in Book!Placements
    BY WritableBoard DEF Placements, Book!Placements
<1>2. QED
    BY <1>1, WritableBoard

\* Rewriting the fields of a board one by one.
BoardWith(pro, label, result, relics, cells) ==
    [pro |-> pro, label |-> label, result |-> result, relics |-> relics, cells |-> cells]

Recredit(b, pro, label, result) ==
    [b EXCEPT !.pro = pro, !.label = label, !.result = result]
Uncredit(b) == [b EXCEPT !.pro = NoPro, !.result = NoResult]

LEMMA Credited ==
    ASSUME NEW b, NEW pro, NEW label, NEW result, NEW relics, NEW cells, NEW was, NEW scored,
           NEW named,
           b = BoardWith(was, named, scored, relics, cells)
    PROVE  /\ Recredit(b, pro, label, result) = BoardWith(pro, label, result, relics, cells)
           /\ Uncredit(b) = BoardWith(NoPro, named, NoResult, relics, cells)
<1>1. ASSUME NEW x PROVE [b EXCEPT !.pro = x] = BoardWith(x, named, scored, relics, cells)
    BY DEF BoardWith
<1>2. ASSUME NEW x, NEW y
      PROVE  [BoardWith(x, y, scored, relics, cells) EXCEPT !.result = result]
                = BoardWith(x, y, result, relics, cells)
    BY DEF BoardWith
<1>3. [BoardWith(pro, named, scored, relics, cells) EXCEPT !.label = label]
        = BoardWith(pro, label, scored, relics, cells)
    BY DEF BoardWith
<1>4. [BoardWith(NoPro, named, scored, relics, cells) EXCEPT !.result = NoResult]
        = BoardWith(NoPro, named, NoResult, relics, cells)
    BY DEF BoardWith
<1>5. Recredit(b, pro, label, result)
        = [[[b EXCEPT !.pro = pro] EXCEPT !.label = label] EXCEPT !.result = result]
    BY DEF Recredit
<1>6. Uncredit(b) = [[b EXCEPT !.pro = NoPro] EXCEPT !.result = NoResult]
    BY DEF Uncredit
<1>7. Recredit(b, pro, label, result) = BoardWith(pro, label, result, relics, cells)
    BY <1>1, <1>2, <1>3, <1>5
<1>8. Uncredit(b) = BoardWith(NoPro, named, NoResult, relics, cells)
    BY <1>1, <1>4, <1>6
<1>9. QED
    BY <1>7, <1>8

LEMMA BookDeleteLineup ==
    ASSUME BookInv, BookInv', NEW l, DeleteLineup(l)
    PROVE  Book!BookNext
<1> SUFFICES ASSUME NEW m, m = lineups[l].match, NEW p, p = lineups[l].placement
             PROVE  Book!BookNext
    OBVIOUS
<1>1. /\ LineupWritable(l) /\ matches' = matches
      /\ lineups' = Without(lineups, {l})
      /\ slots' = Without(slots, SlotsOf(l))
      /\ slotItems' = Without(slotItems, SlotsOf(l))
      /\ lineupRelics' = Without(lineupRelics, {l})
    BY DEF DeleteLineup
<1>2. /\ l \in DOMAIN lineups /\ m \in DOMAIN matches /\ m \in 1..MaxMatches
      /\ Book!Draft(m) /\ Book!Boards(m) = BoardsOf(m)
      /\ p \in Book!Placements /\ p \in DOMAIN BoardsOf(m)
    BY <1>1, NamedBoard
<1>3. EditsOnly(lineups[l].match)
    BY EditsDeleteLineup DEF BookInv
<1>4. \A k \in LineupsOf(lineups[l].match) : k # l => BoardOf(k)' = BoardOf(k)
    <2> SUFFICES ASSUME NEW k \in DOMAIN lineups, k # l PROVE BoardOf(k)' = BoardOf(k)
        BY DEF LineupsOf
    <2>1. lineups'[k] = lineups[k] /\ lineupRelics'[k] = lineupRelics[k]
        BY <1>1 DEF Without, BookInv, Shape, OwnersExist
    <2>2. /\ SlotsOf(k)' = SlotsOf(k)
          /\ \A s \in SlotsOf(k) : slots'[s] = slots[s] /\ slotItems'[s] = slotItems[s]
        BY <1>1 DEF Without, SlotsOf, BookInv, Shape, OwnersExist
    <2>3. QED
        BY <2>1, <2>2, BoardKept DEF BookInv
<1>5. Book!SetBoards(lineups[l].match,
                     Book!Drop(BoardsOf(lineups[l].match), lineups[l].placement))
    BY <1>1, <1>2, <1>3, <1>4, BoardDropped
<1>6. Book!Remove(m, p)
    BY <1>2, <1>5 DEF Book!Remove
<1>7. QED
    BY <1>2, <1>6 DEF Book!BookNext

LEMMA BookUpdateLineup ==
    ASSUME BookInv, BookInv', NEW l, NEW pro \in CodexIds("pros") \cup {NoPro},
           NEW label \in Labels, NEW placement \in Placements, NEW result \in Results,
           UpdateLineup(l, pro, label, placement, result)
    PROVE  Book!BookNext
<1> SUFFICES ASSUME NEW m, m = lineups[l].match, NEW p, p = lineups[l].placement
             PROVE  Book!BookNext
    OBVIOUS
<1>1. /\ LineupWritable(l) /\ matches' = matches /\ slots' = slots /\ slotItems' = slotItems
      /\ lineupRelics' = lineupRelics
      /\ \A k \in LineupsOf(m) : lineups[k].placement = placement => k = l
      /\ lineups' = [lineups EXCEPT ![l].pro = pro, ![l].label = label,
                                    ![l].placement = placement, ![l].result = result]
    BY DEF UpdateLineup
<1>2. /\ l \in DOMAIN lineups /\ m \in DOMAIN matches /\ m \in 1..MaxMatches
      /\ Book!Draft(m) /\ Book!Boards(m) = BoardsOf(m)
      /\ p \in Book!Placements /\ p \in DOMAIN BoardsOf(m) /\ BoardsOf(m)[p] = BoardOf(l)
    BY <1>1, NamedBoard
<1>3. EditsOnly(lineups[l].match)
    BY EditsUpdateLineup DEF BookInv
<1>4. /\ DOMAIN lineups' = DOMAIN lineups
      /\ \A k \in DOMAIN lineups : k # l => lineups'[k] = lineups[k]
      /\ lineups'[l].pro = pro /\ lineups'[l].label = label /\ lineups'[l].result = result
      /\ lineups'[l].placement = placement /\ lineups'[l].match = lineups[l].match
    BY <1>1, <1>2 DEF BookInv, Shape, TypeOK, IsTable, LineupRow
<1>5. \A k \in LineupsOf(lineups[l].match) : k # l => BoardOf(k)' = BoardOf(k)
    <2> SUFFICES ASSUME NEW k \in DOMAIN lineups, k # l PROVE BoardOf(k)' = BoardOf(k)
        BY DEF LineupsOf
    <2>1. /\ SlotsOf(k)' = SlotsOf(k)
          /\ \A s \in SlotsOf(k) : slots'[s] = slots[s] /\ slotItems'[s] = slotItems[s]
        BY <1>1 DEF SlotsOf
    <2>2. QED
        BY <1>1, <1>4, <2>1, BoardKept DEF BookInv
<1>6. Book!SetBoards(lineups[l].match,
                     Book!Put(Book!Drop(BoardsOf(lineups[l].match), lineups[l].placement),
                              lineups'[l].placement, BoardOf(l)'))
    BY <1>1, <1>2, <1>3, <1>4, <1>5, BoardMoved
<1>7. BoardOf(l)' = Recredit(BoardOf(l), pro, label, result)
    <2> DEFINE C == CellsFrom(slots, slotItems, l)
    <2> HIDE DEF C
    <2>1. /\ CellsFrom(slots, slotItems, l) = C
          /\ CellsFrom(slots', slotItems', l) = C
        BY <1>1 DEF C
    <2>2. BoardOf(l) = BoardWith(lineups[l].pro, lineups[l].label, lineups[l].result,
                                 lineupRelics[l], C)
        BY <2>1, BoardIs DEF BoardFrom, BoardWith
    <2>3. BoardOf(l)' = BoardWith(pro, label, result, lineupRelics[l], C)
        <3>1. lineupRelics'[l] = lineupRelics[l]
            BY <1>1
        <3>2. BoardOf(l)' = [pro |-> lineups'[l].pro, label |-> lineups'[l].label,
                             result |-> lineups'[l].result, relics |-> lineupRelics'[l],
                             cells |-> C]
            BY <2>1, BoardIs DEF BoardFrom
        <3>3. QED
            BY <1>4, <3>1, <3>2 DEF BoardWith
    <2>4. QED
        BY <2>2, <2>3, Credited
<1>8. placement \notin DOMAIN BoardsOf(m) \ {p}
    <2>1. DOMAIN BoardsOf(m) = {lineups[k].placement : k \in LineupsOf(m)}
        BY DEF BoardsOf, PlacementsOf
    <2>2. QED
        BY <1>1, <2>1
<1>9. Book!Revise(m, p, placement, pro, label, result)
    BY <1>2, <1>4, <1>6, <1>7, <1>8 DEF Book!Revise, Recredit
<1>10. placement \in Book!Placements
    BY DEF Placements, Book!Placements
<1>11. QED
    BY <1>2, <1>9, <1>10 DEF Book!BookNext

\* The rows a new lineup comes with leave the other boards of its match alone.
LEMMA NewBoardAside ==
    ASSUME BookInv, BookInv', NEW new, NEW ids,
           new \notin DOMAIN lineups, ids \cap DOMAIN slots = {},
           DOMAIN slots' = DOMAIN slots \cup ids,
           \A c \in ids : slots'[c].lineup = new,
           \A s \in DOMAIN slots : slots'[s] = slots[s] /\ slotItems'[s] = slotItems[s],
           \A k \in DOMAIN lineups : lineups'[k] = lineups[k] /\ lineupRelics'[k] = lineupRelics[k]
    PROVE  /\ \A k \in DOMAIN lineups : BoardOf(k)' = BoardOf(k)
           /\ Held(slots', new) = ids
<1>1. \A s \in DOMAIN slots : slots[s].lineup \in DOMAIN lineups
    BY DEF BookInv, Shape, OwnersExist
<1>2. \A k \in DOMAIN lineups : BoardOf(k)' = BoardOf(k)
    <2> SUFFICES ASSUME NEW k \in DOMAIN lineups PROVE BoardOf(k)' = BoardOf(k)
        OBVIOUS
    <2>1. SlotsOf(k)' = SlotsOf(k)
        BY DEF SlotsOf
    <2>2. \A s \in SlotsOf(k) : slots'[s] = slots[s] /\ slotItems'[s] = slotItems[s]
        BY DEF SlotsOf
    <2>3. QED
        BY <2>1, <2>2, BoardKept DEF BookInv
<1>3. Held(slots', new) = ids
    BY <1>1 DEF Held
<1>4. QED
    BY <1>2, <1>3

LEMMA BookCopyLineup ==
    ASSUME BookInv, BookInv', NEW l \in LineupIds, CopyLineup(l)
    PROVE  Book!BookNext
<1> SUFFICES ASSUME NEW m, m = lineups[l].match, NEW p, p = lineups[l].placement,
                    NEW free, free = FirstFreePlacement(PlacementsOf(m))
             PROVE  Book!BookNext
    OBVIOUS
<1>1. LineupWritable(l) /\ matches' = matches /\ free # 0
    BY DEF CopyLineup
<1>2. /\ l \in DOMAIN lineups /\ m \in DOMAIN matches /\ m \in 1..MaxMatches
      /\ Book!Draft(m) /\ Book!Boards(m) = BoardsOf(m)
      /\ p \in Book!Placements /\ p \in DOMAIN BoardsOf(m) /\ BoardsOf(m)[p] = BoardOf(l)
    BY <1>1, NamedBoard
<1>3. PICK new \in LineupIds, copies \in SUBSET SlotIds : CopyWrites(l, new, copies)
    BY CopyLineupWrites DEF BookInv
<1>4. PICK origin \in [copies -> SlotsOf(l)] :
        /\ \A c, d \in copies : origin[c] = origin[d] => c = d
        /\ \A c \in copies : /\ slots'[c] = [slots[origin[c]] EXCEPT !.lineup = new]
                             /\ slotItems'[c] = slotItems[origin[c]]
    BY <1>3 DEF CopyWrites
<1>5. /\ new \notin DOMAIN lineups
      /\ copies \cap DOMAIN slots = {}
      /\ Cardinality(copies) = Cardinality(SlotsOf(l))
      /\ DOMAIN slots' = DOMAIN slots \cup copies
      /\ \A s \in DOMAIN slots : slots'[s] = slots[s] /\ slotItems'[s] = slotItems[s]
    BY <1>3 DEF CopyWrites
<1>6. /\ DOMAIN lineups' = DOMAIN lineups \cup {new}
      /\ \A k \in DOMAIN lineups : lineups'[k] = lineups[k] /\ lineupRelics'[k] = lineupRelics[k]
      /\ lineups'[new] = [match |-> m, pro |-> NoPro, label |-> lineups[l].label,
                          placement |-> free, result |-> NoResult]
      /\ lineupRelics'[new] = lineupRelics[l]
    BY <1>3 DEF CopyWrites, Insert, BookInv, Shape, OwnersExist
<1>7. \A c \in copies : /\ slots'[c].lineup = new
                        /\ slots'[c].index = slots[origin[c]].index
                        /\ slots'[c].hero = slots[origin[c]].hero
                        /\ slots'[c].stars = slots[origin[c]].stars
    <2> SUFFICES ASSUME NEW c \in copies
                 PROVE  /\ slots'[c].lineup = new
                        /\ slots'[c].index = slots[origin[c]].index
                        /\ slots'[c].hero = slots[origin[c]].hero
                        /\ slots'[c].stars = slots[origin[c]].stars
        OBVIOUS
    <2>1. PICK row : row = slots[origin[c]]
        OBVIOUS
    <2>2. row \in SlotRow
        <3>1. origin[c] \in DOMAIN slots
            BY DEF SlotsOf
        <3>2. QED
            BY <2>1, <3>1 DEF BookInv, Shape, TypeOK, IsTable
    <2>3. slots'[c] = [row EXCEPT !.lineup = new]
        BY <1>4, <2>1
    <2>4. /\ slots'[c].lineup = new /\ slots'[c].index = row.index
          /\ slots'[c].hero = row.hero /\ slots'[c].stars = row.stars
        BY <2>2, <2>3 DEF SlotRow
    <2>5. QED
        BY <2>1, <2>4
<1>8. /\ \A k \in DOMAIN lineups : BoardOf(k)' = BoardOf(k)
      /\ Held(slots', new) = copies
    BY <1>5, <1>6, <1>7, NewBoardAside
<1>9. \A s \in SlotsOf(l) : \E c \in copies : origin[c] = s
    <2>1. origin \in Injection(copies, SlotsOf(l))
        BY <1>4 DEF Injection, IsInjective
    <2>2. IsFiniteSet(SlotsOf(l))
        BY SlotsFinite DEF BookInv, Shape
    <2>3. origin \in Surjection(copies, SlotsOf(l))
        BY <1>5, <2>1, <2>2, FS_Injection
    <2>4. QED
        BY <2>3 DEF Surjection
<1>10. CellsFrom(slots', slotItems', new) = CellsFrom(slots, slotItems, l)
    <2>1. Held(slots, l) = SlotsOf(l)
        BY DEF Held, SlotsOf
    <2>2. OneCell(slots) /\ OneCell(slots')
        BY DEF OneCell, CellsUnique, BookInv
    <2>3. \A c \in copies : CellRow(slots', slotItems', c) = CellRow(slots, slotItems, origin[c])
        BY <1>4, <1>7 DEF CellRow
    <2>4. origin \in [Held(slots', new) -> Held(slots, l)]
        BY <1>8, <2>1
    <2>5. QED
        BY <1>7, <1>8, <1>9, <2>1, <2>2, <2>3, <2>4, CellsSame
<1>11. BoardOf(new)' = Uncredit(BoardOf(l))
    <2> DEFINE C == CellsFrom(slots, slotItems, l)
    <2>1. CellsFrom(slots', slotItems', new) = C
        BY <1>10
    <2> HIDE DEF C
    <2>2. BoardOf(l) = BoardWith(lineups[l].pro, lineups[l].label, lineups[l].result,
                                 lineupRelics[l], C)
        BY BoardIs DEF BoardFrom, BoardWith, C
    <2>3. BoardOf(new)' = BoardWith(NoPro, lineups[l].label, NoResult, lineupRelics[l], C)
        BY <1>6, <2>1, BoardIs DEF BoardFrom, BoardWith
    <2>4. QED
        BY <2>2, <2>3, Credited
<1>12. EditsOnly(m)
    BY EditsCopyLineup DEF BookInv
<1>13. Book!SetBoards(m, Book!Put(BoardsOf(m), lineups'[new].placement, BoardOf(new)'))
    <2>1. \A k \in LineupsOf(m) : BoardOf(k)' = BoardOf(k)
        BY <1>8 DEF LineupsOf
    <2>2. lineups'[new].match = m
        BY <1>6
    <2>3. QED
        BY <1>1, <1>2, <1>5, <1>6, <1>12, <2>1, <2>2, BoardAdded
<1>14. Book!SetBoards(m, Book!Put(BoardsOf(m), free, Uncredit(BoardsOf(m)[p])))
    BY <1>2, <1>6, <1>11, <1>13
<1>15. Book!FirstFreePlacement(DOMAIN BoardsOf(m)) = free
    <2>1. DOMAIN BoardsOf(m) = PlacementsOf(m)
        BY DEF BoardsOf
    <2>2. QED
        BY <2>1, SameScans
<1>16. Book!Copy(m, p)
    BY <1>1, <1>2, <1>14, <1>15 DEF Book!Copy, Uncredit
<1>17. QED
    BY <1>2, <1>16 DEF Book!BookNext

\* The board a caller hands to AddLineup, as a value.
CellStart(c) == [hero |-> c.hero, stars |-> c.stars, items |-> c.items]
StartOf(cells) ==
    [i \in {cells[k].index : k \in DOMAIN cells} |->
        CellStart(cells[CHOOSE k \in DOMAIN cells : cells[k].index = i])]

LEMMA StartIs ==
    ASSUME NEW cells, DistinctCells(cells)
    PROVE  /\ StartOf(cells) = [i \in DOMAIN StartOf(cells) |-> StartOf(cells)[i]]
           /\ DOMAIN StartOf(cells) = {cells[k].index : k \in DOMAIN cells}
           /\ \A k \in DOMAIN cells : StartOf(cells)[cells[k].index] = CellStart(cells[k])
<1> DEFINE I == {cells[k].index : k \in DOMAIN cells}
           first(i) == CHOOSE k \in DOMAIN cells : cells[k].index = i
<1>1. StartOf(cells) = [i \in I |-> CellStart(cells[first(i)])]
    BY DEF StartOf
<1>2. \A k \in DOMAIN cells : cells[k].index \in I
    OBVIOUS
<1>3. \A k \in DOMAIN cells : first(cells[k].index) = k
    BY DEF DistinctCells
<1> HIDE DEF first, I
<1>4. DOMAIN StartOf(cells) = I
    BY <1>1
<1>5. \A k \in DOMAIN cells : StartOf(cells)[cells[k].index] = CellStart(cells[k])
    BY <1>1, <1>2, <1>3
<1>6. StartOf(cells) = [i \in DOMAIN StartOf(cells) |-> StartOf(cells)[i]]
    BY <1>1
<1>7. QED
    BY <1>4, <1>5, <1>6 DEF I

LEMMA StartsAre ==
    ASSUME NEW cells \in BoardInputs, DistinctCells(cells)
    PROVE  StartOf(cells) \in StartBoards
BY Zenon DEF StartBoards, StartOf, CellStart

LEMMA BookAddLineup ==
    ASSUME BookInv, BookInv', NEW m \in MatchIds, NEW pro \in CodexIds("pros") \cup {NoPro},
           NEW label \in Labels, NEW placement \in Placements, NEW result \in Results,
           NEW cells \in BoardInputs, NEW relics \in SUBSET CodexIds("relics"),
           AddLineup(m, pro, label, placement, result, cells, relics)
    PROVE  Book!BookNext
<1>1. /\ MatchWritable(m) /\ matches' = matches /\ DistinctCells(cells)
      /\ placement \notin PlacementsOf(m)
    BY DEF AddLineup
<1>2. /\ m \in DOMAIN matches /\ m \in 1..MaxMatches
      /\ Book!Draft(m) /\ Book!Boards(m) = BoardsOf(m)
    BY <1>1, DraftOf DEF MatchWritable
<1>3. PICK new \in LineupIds, ids \in SUBSET SlotIds : \E source \in [ids -> DOMAIN cells] :
        AddWrites(m, pro, label, placement, result, cells, relics, new, ids, source)
    BY AddLineupWrites DEF BookInv
<1>4. PICK source \in [ids -> DOMAIN cells] :
        AddWrites(m, pro, label, placement, result, cells, relics, new, ids, source)
    BY <1>3
<1>5. /\ new \notin DOMAIN lineups
      /\ ids \cap DOMAIN slots = {}
      /\ DOMAIN slots' = DOMAIN slots \cup ids
      /\ \A s \in DOMAIN slots : slots'[s] = slots[s] /\ slotItems'[s] = slotItems[s]
      /\ \A k \in DOMAIN cells : \E c \in ids : source[c] = k
    BY <1>4 DEF AddWrites
<1>6. \A c \in ids : /\ slots'[c].lineup = new
                     /\ slots'[c].index = cells[source[c]].index
                     /\ CellRow(slots', slotItems', c) = CellStart(cells[source[c]])
    BY <1>4 DEF AddWrites, CellRow, CellStart
<1>7. /\ DOMAIN lineups' = DOMAIN lineups \cup {new}
      /\ \A k \in DOMAIN lineups : lineups'[k] = lineups[k] /\ lineupRelics'[k] = lineupRelics[k]
      /\ lineups'[new] = [match |-> m, pro |-> pro, label |-> label,
                          placement |-> placement, result |-> result]
      /\ lineupRelics'[new] = relics
    BY <1>4 DEF AddWrites, Insert, BookInv, Shape, OwnersExist
<1>8. /\ \A k \in DOMAIN lineups : BoardOf(k)' = BoardOf(k)
      /\ Held(slots', new) = ids
    BY <1>5, <1>6, <1>7, NewBoardAside
<1>9. CellsFrom(slots', slotItems', new) = StartOf(cells)
    <2> DEFINE F == CellsFrom(slots', slotItems', new)
    <2>1. OneCell(slots')
        BY DEF OneCell, CellsUnique, BookInv
    <2>2. IsCells(F, slots', slotItems', new)
        BY <2>1, CellsAre
    <2> HIDE DEF F
    <2>3. /\ F = [i \in DOMAIN F |-> F[i]]
          /\ DOMAIN F = {slots'[c].index : c \in ids}
          /\ \A c \in ids : F[slots'[c].index] = CellRow(slots', slotItems', c)
        BY <1>8, <2>2 DEF IsCells
    <2>4. DOMAIN F = {cells[k].index : k \in DOMAIN cells}
        <3> DEFINE I == {cells[k].index : k \in DOMAIN cells}
        <3>1. \A k \in DOMAIN cells : cells[k].index \in I
            OBVIOUS
        <3>2. \A c \in ids : source[c] \in DOMAIN cells
            OBVIOUS
        <3>3. \A c \in ids : slots'[c].index \in I
            BY <1>6, <3>1, <3>2
        <3>4. \A k \in DOMAIN cells : cells[k].index \in DOMAIN F
            BY <1>5, <1>6, <2>3
        <3>5. \A i \in I : i \in DOMAIN F
            BY <3>4
        <3> HIDE DEF I
        <3>6. \A i \in DOMAIN F : i \in I
            BY <2>3, <3>3
        <3>7. DOMAIN F = I
            BY <3>5, <3>6
        <3>8. QED
            BY <3>7 DEF I
    <2>5. \A k \in DOMAIN cells : F[cells[k].index] = CellStart(cells[k])
        BY <1>5, <1>6, <2>3
    <2>6. DOMAIN F = DOMAIN StartOf(cells)
        BY <1>1, <2>4, StartIs
    <2>7. \A i \in DOMAIN F : F[i] = StartOf(cells)[i]
        <3>1. \A k \in DOMAIN cells : F[cells[k].index] = StartOf(cells)[cells[k].index]
            <4>1. \A k \in DOMAIN cells : StartOf(cells)[cells[k].index] = CellStart(cells[k])
                BY <1>1, StartIs
            <4>2. ASSUME NEW k \in DOMAIN cells
                  PROVE  F[cells[k].index] = StartOf(cells)[cells[k].index]
                BY <2>5, <4>1
            <4>3. QED
                BY <4>2
        <3>2. QED
            BY <2>4, <3>1
    <2>8. StartOf(cells) = [i \in DOMAIN StartOf(cells) |-> StartOf(cells)[i]]
        BY <1>1, StartIs
    <2>9. F = StartOf(cells)
        BY <2>3, <2>6, <2>7, <2>8, Zenon
    <2>10. QED
        BY <2>9 DEF F
<1>10. BoardOf(new)' = [pro |-> pro, label |-> label, result |-> result,
                        cells |-> StartOf(cells), relics |-> relics]
    BY <1>7, <1>9, BoardIs DEF BoardFrom
<1>11. EditsOnly(m)
    BY EditsAddLineup DEF BookInv
<1>12. Book!SetBoards(m, Book!Put(BoardsOf(m), lineups'[new].placement, BoardOf(new)'))
    <2>1. \A k \in LineupsOf(m) : BoardOf(k)' = BoardOf(k)
        BY <1>8 DEF LineupsOf
    <2>2. lineups'[new].match = m
        BY <1>7
    <2>3. QED
        BY <1>1, <1>2, <1>5, <1>7, <1>11, <2>1, <2>2, BoardAdded
<1>13. placement \notin DOMAIN BoardsOf(m)
    BY <1>1 DEF BoardsOf
<1>14. Book!Place(m, placement, pro, label, result, StartOf(cells), relics)
    BY <1>2, <1>7, <1>10, <1>12, <1>13 DEF Book!Place
<1>15. placement \in Book!Placements /\ StartOf(cells) \in StartBoards
    BY <1>1, StartsAre DEF Placements, Book!Placements
<1> HIDE DEF StartBoards
<1>16. \E p \in Book!Placements, who \in CodexIds("pros") \cup {NoPro}, what \in Labels,
          how \in Results, start \in StartBoards, held \in SUBSET CodexIds("relics") :
            Book!Place(m, p, who, what, how, start, held)
    BY <1>14, <1>15
<1>17. QED
    BY <1>2, <1>16, Zenon DEF Book!BookNext

\* The highest id of a table without gaps.
LEMMA HighestOfDense ==
    ASSUME NEW n \in Nat, NEW high \in Nat, IsHighest(high, 1..n)
    PROVE  high = n
<1>1. CASE n = 0
    BY <1>1 DEF IsHighest
<1>2. CASE n > 0
    <2>1. n \in 1..n
        BY <1>2
    <2>2. n <= high
        BY <2>1 DEF IsHighest
    <2>3. high <= n
        BY DEF IsHighest
    <2>4. QED
        BY <2>2, <2>3
<1>3. QED
    BY <1>1, <1>2

LEMMA DenseStep ==
    ASSUME Shape, Dense, Next
    PROVE  Dense'
<1>1. CASE DOMAIN matches' = DOMAIN matches
    BY <1>1 DEF Dense
<1>2. ASSUME NEW patch, NEW source, CreateMatchShell(patch, source) PROVE Dense'
    <2>1. PICK n \in 0..MaxMatches : DOMAIN matches = 1..n
        BY DEF Dense
    <2>2. PICK high \in 0..(MaxMatches - 1) :
            /\ IsHighest(high, DOMAIN matches)
            /\ matches' = Insert(matches, high + 1,
                                 [patch |-> patch, source |-> source, finalizedAt |-> 0])
        BY <1>2 DEF CreateMatchShell
    <2>3. MaxMatches \in Nat
        BY MatchStoreAssumption
    <2>4. high = n
        <3>1. IsHighest(high, 1..n) /\ n \in Nat /\ high \in Nat
            BY <2>1, <2>2, <2>3
        <3>2. QED
            BY <3>1, HighestOfDense
    <2>5. DOMAIN matches' = 1..(n + 1)
        BY <2>1, <2>2, <2>3, <2>4 DEF Insert
    <2>6. n + 1 \in 0..MaxMatches
        BY <2>2, <2>3, <2>4
    <2>7. QED
        BY <2>5, <2>6 DEF Dense
<1>3. CASE MatchStep
    <2>1. ASSUME NEW m, NEW now, FinalizeMatch(m, now) PROVE Dense'
        BY <1>1, <2>1 DEF FinalizeMatch
    <2>2. QED
        BY <1>2, <1>3, <2>1 DEF MatchStep
<1>4. CASE LineupStep
    <2>1. matches' = matches
        <3>1. ASSUME NEW m, NEW pro, NEW label, NEW placement, NEW result, NEW cells, NEW relics,
                     AddLineup(m, pro, label, placement, result, cells, relics)
              PROVE  matches' = matches
            BY <3>1 DEF AddLineup
        <3>2. ASSUME NEW l, CopyLineup(l) PROVE matches' = matches
            BY <3>2 DEF CopyLineup
        <3>3. ASSUME NEW l, NEW pro, NEW label, NEW placement, NEW result,
                     UpdateLineup(l, pro, label, placement, result)
              PROVE  matches' = matches
            BY <3>3 DEF UpdateLineup
        <3>4. ASSUME NEW l, NEW r, DeleteLineup(l) \/ AddLineupRelic(l, r) \/ RemoveLineupRelic(l, r)
              PROVE  matches' = matches
            BY <3>4 DEF DeleteLineup, AddLineupRelic, RemoveLineupRelic
        <3>5. QED
            BY <1>4, <3>1, <3>2, <3>3, <3>4 DEF LineupStep
    <2>2. QED
        BY <1>1, <2>1
<1>5. CASE SlotStep
    <2>1. matches' = matches
        BY <1>5 DEF SlotStep, AddSlot, SetSlotStars, DeleteSlot, AddSlotItem, RemoveSlotItem
    <2>2. QED
        BY <1>1, <2>1
<1>6. CASE CodexStep
    <2>1. matches' = matches
        BY <1>6 DEF CodexStep, CreateCodexRow, DeleteCodexRow
    <2>2. QED
        BY <1>1, <2>1
<1>7. QED
    BY <1>3, <1>4, <1>5, <1>6 DEF Next

LEMMA BookCreateMatchShell ==
    ASSUME BookInv, BookInv', NEW patch \in CodexIds("patches"), NEW source \in Sources,
           CreateMatchShell(patch, source)
    PROVE  Book!BookNext
<1>1. PICK high \in 0..(MaxMatches - 1) :
        /\ IsHighest(high, DOMAIN matches)
        /\ matches' = Insert(matches, high + 1,
                             [patch |-> patch, source |-> source, finalizedAt |-> 0])
    BY DEF CreateMatchShell
<1>2. PICK n \in 0..MaxMatches : DOMAIN matches = 1..n
    BY DEF BookInv, Dense
<1>3. MaxMatches \in Nat
    BY MatchStoreAssumption
<1>4. high = n
    <2>1. IsHighest(high, 1..n) /\ n \in Nat /\ high \in Nat
        BY <1>1, <1>2, <1>3
    <2>2. QED
        BY <2>1, HighestOfDense
<1> DEFINE m == n + 1
<1>5. /\ m \in 1..MaxMatches /\ m \notin DOMAIN matches /\ DOMAIN matches = 1..(m - 1)
    BY <1>1, <1>2, <1>3, <1>4
<1>6. /\ DOMAIN matches' = DOMAIN matches \cup {m}
      /\ matches'[m] = [patch |-> patch, source |-> source, finalizedAt |-> 0]
      /\ \A k \in DOMAIN matches : matches'[k] = matches[k]
    BY <1>1, <1>4, <1>5 DEF Insert
<1> HIDE DEF m
<1>7. /\ lineups' = lineups /\ slots' = slots /\ slotItems' = slotItems
      /\ lineupRelics' = lineupRelics
    BY DEF CreateMatchShell
<1>8. EditsOnly(m)
    BY <1>5, <1>6, <1>7 DEF EditsOnly, MatchOfSlot, BookInv, Shape, OwnersExist
<1>9. \A k \in DOMAIN matches : Game(k)' = Game(k)
    <2> SUFFICES ASSUME NEW k \in DOMAIN matches PROVE Game(k)' = Game(k)
        OBVIOUS
    <2>1. BoardsOf(k)' = BoardsOf(k)
        BY <1>5, <1>8, OtherBoards
    <2>2. QED
        BY <1>6, <2>1 DEF Game
<1>10. Game(m)' = [patch |-> patch, source |-> source, finalizedAt |-> 0, boards |-> << >>]
    <2>1. PlacementsOf(m)' = {}
        BY <1>5, <1>7 DEF PlacementsOf, LineupsOf, BookInv, Shape, OwnersExist
    <2>2. ShowsBoards(BoardsOf(m), m)'
        BY BoardsNow DEF BookInv
    <2>3. DOMAIN BoardsOf(m)' = {} /\ BoardsOf(m)' = [p \in DOMAIN BoardsOf(m)' |-> BoardsOf(m)'[p]]
        BY <2>1, <2>2 DEF ShowsBoards
    <2>4. BoardsOf(m)' = << >>
        BY <2>3
    <2>5. QED
        BY <1>6, <2>4 DEF Game
<1>11. BookOfStore' = Book!Put(BookOfStore, m, Game(m)')
    <2> DEFINE B == BookOfStore
               C == BookOfStore'
               P == Book!Put(BookOfStore, m, Game(m)')
    <2>1. /\ B = [k \in DOMAIN matches |-> Game(k)]
          /\ C = [k \in DOMAIN matches' |-> Game(k)']
        BY BookIs
    <2>2. P = [k \in DOMAIN B \cup {m} |-> IF k = m THEN Game(m)' ELSE B[k]]
        BY Zenon DEF Book!Put
    <2> HIDE DEF B, C, P
    <2>3. DOMAIN C = DOMAIN P
        BY <1>6, <2>1, <2>2
    <2>4. \A k \in DOMAIN C : C[k] = P[k]
        BY <1>5, <1>6, <1>9, <2>1, <2>2
    <2>5. C = [k \in DOMAIN C |-> C[k]] /\ P = [k \in DOMAIN P |-> P[k]]
        BY <2>1, <2>2
    <2>6. C = P
        BY <2>3, <2>4, <2>5, Zenon
    <2>7. QED
        BY <2>6 DEF C, P
<1>12. DOMAIN BookOfStore = 1..(m - 1)
    BY <1>5, BookIs
<1>13. Book!Open(m, patch, source)
    BY <1>10, <1>11, <1>12, Zenon DEF Book!Open
<1>14. source \in Book!Sources
    BY DEF Sources, Book!Sources
<1>15. QED
    BY <1>5, <1>13, <1>14 DEF Book!BookNext

LEMMA BoardsSame ==
    ASSUME lineups' = lineups, lineupRelics' = lineupRelics, slots' = slots,
           slotItems' = slotItems, NEW m
    PROVE  BoardsOf(m)' = BoardsOf(m)
BY BoardsAreFrom

\* A match has as many placements as lineups.
LEMMA PlacementsCounted ==
    ASSUME BookInv, NEW m
    PROVE  Cardinality(PlacementsOf(m)) = Cardinality(LineupsOf(m))
<1> DEFINE f == [l \in LineupsOf(m) |-> lineups[l].placement]
<1>1. IsFiniteSet(LineupsOf(m))
    BY LineupsFinite DEF BookInv, Shape
<1>2. \A k, l \in LineupsOf(m) : lineups[k].placement = lineups[l].placement => k = l
    BY DEF LineupsOf, BookInv, PlacementsUnique
<1>3. PlacementsOf(m) = {lineups[l].placement : l \in LineupsOf(m)}
    BY DEF PlacementsOf
<1>4. /\ f \in Injection(LineupsOf(m), PlacementsOf(m))
      /\ f \in Surjection(LineupsOf(m), PlacementsOf(m))
    BY <1>2, <1>3 DEF Injection, Surjection, IsInjective
<1>5. QED
    BY <1>1, <1>4, FS_Surjection

LEMMA BookFinalizeMatch ==
    ASSUME BookInv, BookInv', NEW m, NEW now \in 1..MaxTime, FinalizeMatch(m, now)
    PROVE  Book!BookNext
<1> DEFINE P == PlacementsOf(m)
<1>1. /\ MatchWritable(m)
      /\ ValidateFinalize(matches[m].source, [l \in LineupsOf(m) |-> lineups[l].placement])
      /\ matches' = [matches EXCEPT ![m].finalizedAt = now]
      /\ lineups' = lineups /\ lineupRelics' = lineupRelics
      /\ slots' = slots /\ slotItems' = slotItems
    BY DEF FinalizeMatch
<1>2. /\ m \in DOMAIN matches /\ m \in 1..MaxMatches
      /\ Book!Draft(m) /\ Book!Boards(m) = BoardsOf(m)
    BY <1>1, DraftOf DEF MatchWritable
<1>3. DOMAIN Book!Boards(m) = P /\ BookOfStore[m].source = matches[m].source
    BY <1>2, BookIs DEF BoardsOf, Game
<1>4. /\ \/ matches[m].source = "me" /\ Cardinality(LineupsOf(m)) = 1
         \/ matches[m].source = "pro" /\ Cardinality(LineupsOf(m)) = MaxPlacement
    BY <1>1 DEF ValidateFinalize
<1>5. \A p \in P : p \in Placements
    BY DEF PlacementsOf, LineupsOf, BookInv, Shape, TypeOK, IsTable, LineupRow
<1>6. \/ matches[m].source = "me" /\ Book!Cardinality(P) = 1
      \/ matches[m].source = "pro" /\ Book!Cardinality(P) = MaxPlacement
    BY <1>4, PlacementsCounted, SameCount
<1>7. \A p \in P : p \in Book!Placements
    BY <1>5 DEF Placements, Book!Placements
<1> HIDE DEF P
<1>8. Book!ValidateFinalize(matches[m].source, [p \in P |-> p])
    BY <1>6, <1>7 DEF Book!ValidateFinalize
<1>9. BookOfStore' = [BookOfStore EXCEPT ![m].finalizedAt = now]
    <2>1. \A k : BoardsOf(k)' = BoardsOf(k)
        BY <1>1, BoardsSame
    <2>2. \A k \in DOMAIN matches : k # m => Game(k)' = Game(k)
        BY <1>1, <2>1 DEF Game
    <2>3. Game(m)' = [Game(m) EXCEPT !.finalizedAt = now]
        <3>1. /\ matches'[m].finalizedAt = now /\ matches'[m].patch = matches[m].patch
              /\ matches'[m].source = matches[m].source
            BY <1>1, <1>2 DEF BookInv, Shape, TypeOK, IsTable, MatchRow
        <3>2. QED
            BY <2>1, <3>1 DEF Game
    <2>4. DOMAIN matches' = DOMAIN matches
        BY <1>1
    <2>5. /\ BookOfStore = [k \in DOMAIN matches |-> Game(k)]
          /\ BookOfStore' = [k \in DOMAIN matches |-> Game(k)']
        BY <2>4, BookIs
    <2>6. QED
        BY <2>2, <2>3, <2>5
<1>10. Book!Finalize(m, now)
    BY <1>2, <1>3, <1>8, <1>9 DEF Book!Finalize
<1>11. QED
    BY <1>2, <1>10 DEF Book!BookNext

-----------------------------------------------------------------------------
(* The theorem.                                                            *)

LEMMA BookStutters ==
    ASSUME matches' = matches, lineups' = lineups, lineupRelics' = lineupRelics,
           slots' = slots, slotItems' = slotItems
    PROVE  BookOfStore' = BookOfStore
<1>1. \A m : Game(m)' = Game(m)
    BY BoardsSame DEF Game
<1>2. QED
    BY <1>1, BookIs

LEMMA BookStep ==
    ASSUME BookInv, BookInv', [Next]_store
    PROVE  [Book!BookNext]_BookOfStore
<1>1. CASE MatchStep
    BY <1>1, BookCreateMatchShell, BookFinalizeMatch DEF MatchStep
<1>2. CASE LineupStep
    BY <1>2, BookAddLineup, BookCopyLineup, BookUpdateLineup, BookDeleteLineup,
       BookLineupRelic DEF LineupStep
<1>3. CASE SlotStep
    BY <1>3, BookAddSlot, BookSetSlotStars, BookDeleteSlot, BookSlotItem DEF SlotStep
<1>4. CASE CodexStep
    <2>1. UNCHANGED <<matches, lineups, slots, slotItems, lineupRelics>>
        BY <1>4 DEF CodexStep, CreateCodexRow, DeleteCodexRow
    <2>2. QED
        BY <2>1, BookStutters
<1>5. CASE UNCHANGED store
    BY <1>5, BookStutters DEF store
<1>6. QED
    BY <1>1, <1>2, <1>3, <1>4, <1>5 DEF Next

LEMMA BookInvAlways == Spec => []BookInv
<1>1. Init => Dense
    <2> SUFFICES ASSUME Init PROVE Dense
        OBVIOUS
    <2>1. DOMAIN matches = 1..0 /\ 0 \in 0..MaxMatches
        BY MatchStoreAssumption DEF Init
    <2>2. QED
        BY <2>1 DEF Dense
<1>2. Shape /\ Dense /\ [Next]_store => Dense'
    <2>1. Dense /\ UNCHANGED store => Dense'
        BY DEF Dense, store
    <2>2. QED
        BY <2>1, DenseStep
<1>3. Spec => []Dense
    BY <1>1, <1>2, ShapeAlways, PTL DEF Spec
<1>4. Shape /\ CellsUnique /\ PlacementsUnique /\ Dense => BookInv
    BY DEF BookInv
<1>5. QED
    BY <1>3, <1>4, ShapeAlways, CellsStayUnique, PlacementsStayUnique, PTL

\* Every behaviour of the tables is one of the book of games: row inserts, cascades, ids
\* handed out again, copied slots and computed indexes show as one edit of one game, and
\* what is no edit of a game shows not at all.
THEOREM StoreImplementsBook == Spec => ImplementsBook
<1>1. Init => Book!BookInit
    <2> SUFFICES ASSUME Init PROVE BookOfStore = << >>
        BY DEF Book!BookInit
    <2>1. DOMAIN matches = {}
        BY DEF Init
    <2>2. QED
        BY <2>1, BookIs
<1>2. BookInv /\ BookInv' /\ [Next]_store => [Book!BookNext]_BookOfStore
    BY BookStep
<1>3. QED
    BY <1>1, <1>2, BookInvAlways, PTL DEF Spec, ImplementsBook, Book!BookSpec
=============================================================================
