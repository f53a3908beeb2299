------------------------------- MODULE MCEditor -------------------------------
(***************************************************************************)
(* Small instances of Editor for TLC.                                      *)
(***************************************************************************)
EXTENDS Editor, TLC

Rows(patches, pros, heroes, items, relics) ==
    [t \in {"patches", "pros", "heroes", "items", "relics"} |->
        CASE t = "patches" -> patches [] t = "pros" -> pros [] t = "heroes" -> heroes
          [] t = "items" -> items [] t = "relics" -> relics]

OneOfEach == Rows(1, 1, 1, 1, 1)
HeroesOnly == Rows(1, 0, 1, 0, 0)
HeroesAndItems == Rows(1, 0, 1, 1, 0)

FormBoards == {<< >>}

AllKinds == {"addSlot", "saveStars", "attachItem", "removeItem", "deleteSlot",
             "addRelic", "removeRelic", "updateLineup", "addLineup", "copyLineup",
             "deleteLineup", "finalize", "createMatch", "matchDetail"}
CellKinds == {"createMatch", "addLineup", "deleteLineup", "addSlot", "deleteSlot", "attachItem",
              "removeItem", "finalize", "matchDetail"}
BoardKinds == {"createMatch", "addLineup", "addSlot", "deleteSlot", "deleteLineup"}

\* Requests in flight differ in nothing but their name.
WorkerSymmetry == Permutations(Workers)
=============================================================================
