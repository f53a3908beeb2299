------------------------------ MODULE MCDashboard ------------------------------
(***************************************************************************)
(* Small instances of Dashboard for TLC.                                   *)
(***************************************************************************)
EXTENDS Dashboard, TLC

Rows(patches, pros, heroes, items, relics) ==
    [t \in {"patches", "pros", "heroes", "items", "relics"} |->
        CASE t = "patches" -> patches [] t = "pros" -> pros [] t = "heroes" -> heroes
          [] t = "items" -> items [] t = "relics" -> relics]

\* The database starts without patches: each is created under a version.
HeroSeed == Rows(0, 0, 1, 0, 0)
HeroRows == Rows(2, 0, 1, 0, 0)

\* Boards with the hero on one cell, as the service hands them over.
OneHero == <<[hero |-> 1, index |-> 0, stars |-> 1, items |-> << >>]>>
HeroBoards == {OneHero}

OneRace == [h \in {1} |-> {"race"}]
PairTier == [y \in {"race"} |-> {1, 2}]
UnitWorth == [r \in Results |-> 1]

Page(tab, v, source, state) ==
    [tab |-> tab, version |-> v, source |-> source, state |-> state, hx |-> FALSE]

\* A change of a select swaps the panel of the page.
Swap(u) == [u EXCEPT !.hx = TRUE]

ProHeroes == Page("heroes", NoVersion, "pro", AnyState)
PatchHeroes(v) == Page("heroes", v, AnySource, AnyState)
PatchMatches(v) == Page("matches", v, "pro", AnyState)
FinalMatches == Page("matches", NoVersion, AnySource, "final")
SomeUrls ==
    {Swap(ProHeroes), FinalMatches}
        \cup {PatchHeroes(v) : v \in Versions} \cup {Swap(PatchHeroes(v)) : v \in Versions}
        \cup {PatchMatches(v) : v \in Versions}

\* The requests name every version alike.
VersionSymmetry == Permutations(Versions)
=============================================================================
