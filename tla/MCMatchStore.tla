----------------------------- MODULE MCMatchStore -----------------------------
(***************************************************************************)
(* Small instances of MatchStore and of the queries over it, for TLC.      *)
(***************************************************************************)
EXTENDS Analytics

Rows(patches, pros, heroes, items, relics) ==
    [t \in {"patches", "pros", "heroes", "items", "relics"} |->
        CASE t = "patches" -> patches [] t = "pros" -> pros [] t = "heroes" -> heroes
          [] t = "items" -> items [] t = "relics" -> relics]

\* One row in every codex table.
OneOfEach == Rows(1, 1, 1, 1, 1)
HeroesOnly == Rows(1, 0, 1, 0, 0)

\* The form posts no cells; a caller of the service may.
EmptyBoard == << >>
OneCell == <<[hero |-> 1, index |-> 1, stars |-> 1, items |-> [i \in {1} |-> 1]]>>
TwinCells == OneCell \o OneCell
FormBoards == {EmptyBoard}
AllBoards == {EmptyBoard, OneCell, TwinCells}

\* Two heroes, one item: the first board holds the item twice on hero 1 and not on
\* hero 2, the second once on hero 2 and not on hero 1.
TwoHeroes == Rows(1, 0, 2, 1, 0)
CellOf(i, h, n) == [hero |-> h, index |-> i, stars |-> 1, items |-> [x \in {1} |-> n]]
PairBoards == {<<CellOf(0, 1, 1), CellOf(1, 1, 1), CellOf(2, 2, 0)>>,
               <<CellOf(0, 1, 0), CellOf(1, 2, 1)>>}

\* One race with tiers at one and two units.
OneRace == [h \in 1..2 |-> {"race"}]
PairTier == [y \in {"race"} |-> {1, 2}]
UnitWorth == [r \in Results |-> 1]

\* Bound: at most one lineup is credited to a pro or holds a relic.
OneDressed ==
    \A k, l \in DOMAIN lineups :
        (\A x \in {k, l} : lineups[x].pro # NoPro \/ lineupRelics[x] # {}) => k = l
=============================================================================
