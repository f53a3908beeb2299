----------------------------- MODULE MCEditorPage -----------------------------
(***************************************************************************)
(* Small instances of EditorPage for TLC.                                  *)
(***************************************************************************)
EXTENDS EditorPage, TLC

FormBoards == {<< >>}

OneHeroOneItem ==
    [t \in {"patches", "pros", "heroes", "items", "relics"} |->
        IF t = "pros" THEN 0 ELSE 1]

\* The requests of one tab differ in nothing but their name.
WorkerSymmetry == Permutations(Workers)

PageKinds == {"addLineup", "copyLineup", "updateLineup", "deleteLineup", "addSlot",
              "saveStars", "attachItem", "removeItem", "deleteSlot", "addRelic", "removeRelic",
              "finalize"}
=============================================================================
