-------------------------------- MODULE MCCodex --------------------------------
(***************************************************************************)
(* Small instances of CodexDesk for TLC.                                   *)
(***************************************************************************)
EXTENDS CodexDesk, TLC

\* A state has rows of one topic: races and classes with heroes, two of the races and
\* classes with their ladders, items and relics, or patches and pros.  The requests of
\* several steps are about the first two: the hero list and the slots next to heroes,
\* the edits of a synergy next to ladders.
NoTiers == \A t \in Synergies : \A i \in Ids : ladder[t][i] = NoLadder
Serving(kinds) == \A w \in Workers : pc[w] = "idle" \/ req[w].kind \in kinds
OneTopic ==
    \/ /\ Held \subseteq {"heroes", "races", "classes"} \X Ids /\ NoTiers
       /\ Serving({"addSlot", "heroList"})
    \/ /\ Held \subseteq {"races", "classes"} \X Ids /\ Cardinality(Held) <= 2
       /\ Serving({"createSynergy"} \cup Edits)
    \/ Held \subseteq {"items", "relics"} \X Ids /\ Serving({})
    \/ Held \subseteq {"patches", "pros"} \X Ids /\ Serving({})

Limits ==
    [t \in Tables |->
        CASE t \in {"races", "items"} -> 2 [] OTHER -> 1]

Symmetric == Permutations(Workers) \cup Permutations(Names)
=============================================================================
