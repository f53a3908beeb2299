------------------------------ MODULE Transactions ------------------------------
(***************************************************************************)
(* What the store promises whoever opens a transaction on the file, without *)
(* locks, journal or processes: a transaction takes effect all at once, at  *)
(* a moment when everything it has read is still so and nobody else is in   *)
(* the middle of reading; or it takes no effect at all.                     *)
(***************************************************************************)
EXTENDS Naturals

CONSTANTS Jobs, Tables

VARIABLES
    data,   \* table -> version
    reads   \* job -> the <<table, version>> pairs its open transaction has read

-----------------------------------------------------------------------------

TxInit ==
    /\ data = [t \in Tables |-> 0]
    /\ reads = [j \in Jobs |-> {}]

Look(j, t) ==
    /\ reads' = [reads EXCEPT ![j] = @ \cup {<<t, data[t]>>}]
    /\ UNCHANGED data

Current(j) == \A r \in reads[j] : data[r[1]] = r[2]
Alone(j) == \A k \in Jobs \ {j} : reads[k] = {}

Commit(j, written) ==
    /\ Current(j)
    /\ Alone(j)
    /\ data' = [t \in Tables |-> IF t \in written THEN data[t] + 1 ELSE data[t]]
    /\ reads' = [reads EXCEPT ![j] = {}]

\* Transactions that end without an effect: finished reads, rollbacks, the ones that
\* were open in a process that died.
End(ended) ==
    /\ reads' = [j \in Jobs |-> IF j \in ended THEN {} ELSE reads[j]]
    /\ UNCHANGED data

TxNext ==
    \/ \E j \in Jobs, t \in Tables : Look(j, t)
    \/ \E j \in Jobs, written \in SUBSET Tables : written # {} /\ Commit(j, written)
    \/ \E ended \in SUBSET Jobs : End(ended)

TxSpec == TxInit /\ [][TxNext]_<<data, reads>>
=============================================================================
