------------------------------- MODULE WriteLock -------------------------------
(***************************************************************************)
(* The two locks between a request and the data: the store's WriteMu       *)
(* (internal/store/sqlite/open.go, internal/analytics/engine.go) and       *)
(* sqlite's lock on the database file.  MatchStore takes a transaction to  *)
(* be one atomic step; here it is a sequence of steps.                     *)
(*                                                                         *)
(* A job is whatever opens a transaction on the file:                      *)
(*   tx      a write operation of the store, run by WithTx under WriteMu   *)
(*   direct  a codex write that goes to the pool without WriteMu           *)
(*           (DeleteHero, and every write of relics, patches and pros)     *)
(*   read    a SELECT of the pool                                          *)
(*   batch   a catalogue query of the analytics engine, under WriteMu, on  *)
(*           the one connection of the DuckDB pool                         *)
(*   seed    seed.Load, run by a process of its own                        *)
(*                                                                         *)
(* sqlite and DuckDB are not part of the repository: what is said of their *)
(* locks follows from how the code opens them, in rollback journal mode    *)
(* with a busy timeout, deferred transactions and a read-only ATTACH.      *)
(* DuckDB has a sqlite library of its own.  LocksSeen tells whether it and *)
(* the server's library see each other's file locks: locks that belong to  *)
(* a handle do, locks that belong to the process do not.                   *)
(***************************************************************************)
EXTENDS Naturals

CONSTANTS
    Jobs,           \* transactions in flight at once
    Kinds,          \* the kinds of job in this instance
    Tables,         \* the data, in units that are written one at a time
    MatchTable,     \* the table seed.Load looks at
    MaxVersion,     \* bound on the writes of one table
    LocksSeen,      \* whether the two sqlite libraries see each other's locks
    Nobody,
    NoJournal

ASSUME WriteLockAssumption ==
    /\ Kinds \subseteq {"tx", "direct", "read", "batch", "seed"}
    /\ MatchTable \in Tables
    /\ MaxVersion \in Nat
    /\ LocksSeen \in BOOLEAN
    /\ Nobody \notin Jobs
    /\ NoJournal \notin [Tables -> Nat]

VARIABLES
    up,         \* the server has opened both engines
    mu,         \* Store.WriteMu: the job that holds it, or Nobody
    duck,       \* the DuckDB connection: the job that has it, or Nobody
    pc,         \* job -> where it is
    kind,       \* job -> its kind
    lock,       \* job -> the lock its connection has on the file
    seen,       \* job -> the <<table, version>> pairs its transaction has read
    dirty,      \* job -> the tables its transaction has changed in its cache
    file,       \* table -> version, in the database file
    journal,    \* the rollback journal: the file before the commit under way
    committed   \* table -> version, as of the last commit: what readers may see

process == <<up, mu, duck>>
jobs == <<pc, kind, lock, seen, dirty>>
disk == <<file, journal, committed>>
vars == <<process, jobs, disk>>

-----------------------------------------------------------------------------
(* sqlite's lock protocol.                                                 *)

Locks == {"none", "shared", "reserved", "pending", "exclusive"}
Writing == {"reserved", "pending", "exclusive"}

\* The connections whose locks job j gets to see.
Peers(j) ==
    {k \in Jobs \ {j} :
        \/ LocksSeen
        \/ "seed" \in {kind[j], kind[k]}
        \/ kind[j] = "batch" <=> kind[k] = "batch"}

CanShare(peers) == \A k \in peers : lock[k] \notin {"pending", "exclusive"}
CanReserve(peers) == \A k \in peers : lock[k] \notin Writing
CanExclude(peers) == \A k \in peers : lock[k] = "none"

\* A journal nobody is working on is left from a crash.
Hot(peers) == journal # NoJournal /\ CanReserve(peers)

\* The first lock a connection takes rolls a hot journal back.
Recover(peers) ==
    /\ file' = IF Hot(peers) THEN journal ELSE file
    /\ journal' = IF Hot(peers) THEN NoJournal ELSE journal

Goto(j, label) == pc' = [pc EXCEPT ![j] = label]

-----------------------------------------------------------------------------
(* A job begins.                                                           *)

UnderMutex == {"tx", "batch"}

\* Faulty variant: the job does not wait for WriteMu.
LockMutexWithoutWaiting(j) ==
    /\ pc[j] = "lock"
    /\ mu' = j
    /\ Goto(j, IF kind[j] = "batch" THEN "conn" ELSE "begun")
    /\ UNCHANGED <<up, duck, kind, lock, seen, dirty, disk>>

Accept(j, k) ==
    /\ pc[j] = "idle"
    /\ k = "seed" \/ up
    /\ kind' = [kind EXCEPT ![j] = k]
    /\ Goto(j, IF k \in UnderMutex THEN "lock" ELSE "begun")
    /\ UNCHANGED <<process, lock, seen, dirty, disk>>

LockMutex(j) ==
    /\ pc[j] = "lock"
    /\ mu = Nobody
    /\ mu' = j
    /\ Goto(j, IF kind[j] = "batch" THEN "conn" ELSE "begun")
    /\ UNCHANGED <<up, duck, kind, lock, seen, dirty, disk>>

\* QueryContext waits for the one connection of the DuckDB pool.
TakeConn(j) ==
    /\ pc[j] = "conn"
    /\ duck = Nobody
    /\ duck' = j
    /\ Goto(j, "begun")
    /\ UNCHANGED <<up, mu, kind, lock, seen, dirty, disk>>

-----------------------------------------------------------------------------
(* Inside the transaction.                                                 *)

\* Faulty variant: the read goes to the pool, outside the transaction that uses it.
ReadOutside(j, t) ==
    /\ pc[j] = "begun"
    /\ lock[j] # "none"
    /\ t \notin dirty[j]
    /\ <<t, file[t]>> \notin seen[j]
    /\ seen' = [seen EXCEPT ![j] = @ \cup {<<t, file[t]>>}]
    /\ lock' = [lock EXCEPT ![j] = IF @ = "shared" THEN "none" ELSE @]
    /\ UNCHANGED <<process, pc, kind, dirty, disk>>

\* The first SELECT of a transaction.  A read-only connection cannot roll back a
\* hot journal; a single DELETE or INSERT starts with the write.
TakeShared(j) ==
    /\ pc[j] = "begun"
    /\ kind[j] # "direct"
    /\ lock[j] = "none"
    /\ CanShare(Peers(j))
    /\ kind[j] = "batch" => ~Hot(Peers(j))
    /\ lock' = [lock EXCEPT ![j] = "shared"]
    /\ Recover(Peers(j))
    /\ UNCHANGED <<process, pc, kind, seen, dirty, committed>>

\* Reads of its own changes are left out.
Read(j, t) ==
    /\ pc[j] = "begun"
    /\ lock[j] # "none"
    /\ t \notin dirty[j]
    /\ <<t, file[t]>> \notin seen[j]
    /\ seen' = [seen EXCEPT ![j] = @ \cup {<<t, file[t]>>}]
    /\ UNCHANGED <<process, pc, kind, lock, dirty, disk>>

\* The first write of a transaction.  seed.Load returns ErrSeeded unless it found
\* no match.
Reserve(j) ==
    /\ pc[j] = "begun"
    /\ kind[j] \in {"tx", "direct", "seed"}
    /\ lock[j] \in {"none", "shared"}
    /\ kind[j] = "seed" => <<MatchTable, 0>> \in seen[j]
    /\ CanReserve(Peers(j))
    /\ lock' = [lock EXCEPT ![j] = "reserved"]
    /\ IF lock[j] = "none" THEN Recover(Peers(j)) ELSE UNCHANGED <<file, journal>>
    /\ UNCHANGED <<process, pc, kind, seen, dirty, committed>>

Write(j, t) ==
    /\ pc[j] = "begun"
    /\ lock[j] = "reserved"
    /\ t \notin dirty[j]
    /\ file[t] < MaxVersion
    /\ dirty' = [dirty EXCEPT ![j] = @ \cup {t}]
    /\ UNCHANGED <<process, pc, kind, lock, seen, disk>>

-----------------------------------------------------------------------------
(* Commit: no new reader, no reader left, the journal, the pages one by    *)
(* one, the journal truncated.                                             *)

Pend(j) ==
    /\ pc[j] = "begun"
    /\ lock[j] = "reserved"
    /\ dirty[j] # {}
    /\ lock' = [lock EXCEPT ![j] = "pending"]
    /\ Goto(j, "commit")
    /\ UNCHANGED <<process, kind, seen, dirty, disk>>

Exclude(j) ==
    /\ pc[j] = "commit"
    /\ CanExclude(Peers(j))
    /\ lock' = [lock EXCEPT ![j] = "exclusive"]
    /\ journal' = file
    /\ Goto(j, "flush")
    /\ UNCHANGED <<process, kind, seen, dirty, file, committed>>

Flush(j, t) ==
    /\ pc[j] = "flush"
    /\ t \in dirty[j]
    /\ file[t] = journal[t]
    /\ file' = [file EXCEPT ![t] = @ + 1]
    /\ UNCHANGED <<process, jobs, journal, committed>>

\* The connection of job j has no transaction any more.  A job under WriteMu still
\* has to run the deferred Unlock, a batch after the deferred rows.Close.
Leave(j) ==
    /\ lock' = [lock EXCEPT ![j] = "none"]
    /\ seen' = [seen EXCEPT ![j] = {}]
    /\ dirty' = [dirty EXCEPT ![j] = {}]
    /\ duck' = IF duck = j THEN Nobody ELSE duck
    /\ Goto(j, IF kind[j] \in UnderMutex THEN "unlock" ELSE "idle")
    /\ kind' = [kind EXCEPT ![j] = IF @ \in UnderMutex THEN @ ELSE "none"]
    /\ UNCHANGED <<up, mu>>

Truncate(j) ==
    /\ pc[j] = "flush"
    /\ \A t \in dirty[j] : file[t] # journal[t]
    /\ journal' = NoJournal
    /\ committed' = file
    /\ Leave(j)
    /\ UNCHANGED file

-----------------------------------------------------------------------------
(* The other ways a transaction ends.                                      *)

\* Faulty variants of an error return: it skips the deferred Unlock, or the Rollback.
GiveUpLocked(j) ==
    /\ pc[j] \in {"conn", "begun", "commit"}
    /\ Goto(j, "idle")
    /\ kind' = [kind EXCEPT ![j] = "none"]
    /\ lock' = [lock EXCEPT ![j] = "none"]
    /\ seen' = [seen EXCEPT ![j] = {}]
    /\ dirty' = [dirty EXCEPT ![j] = {}]
    /\ duck' = IF duck = j THEN Nobody ELSE duck
    /\ UNCHANGED <<up, mu, disk>>

GiveUpOpen(j) ==
    /\ pc[j] \in {"conn", "begun", "commit"}
    /\ Goto(j, IF kind[j] \in UnderMutex THEN "unlock" ELSE "idle")
    /\ kind' = [kind EXCEPT ![j] = IF @ \in UnderMutex THEN @ ELSE "none"]
    /\ seen' = [seen EXCEPT ![j] = {}]
    /\ dirty' = [dirty EXCEPT ![j] = {}]
    /\ duck' = IF duck = j THEN Nobody ELSE duck
    /\ UNCHANGED <<up, mu, lock, disk>>

\* Rows scanned to the end, or a transaction that changed nothing.
Finish(j) ==
    /\ pc[j] = "begun"
    /\ dirty[j] = {}
    /\ lock[j] # "none"
    /\ Leave(j)
    /\ UNCHANGED disk

\* An error of the callback, a cancelled context, a lock that was refused or that
\* did not come within the busy timeout: rollback.  A failed COMMIT is rolled back
\* by the driver.
GiveUp(j) ==
    /\ pc[j] \in {"conn", "begun", "commit"}
    /\ Leave(j)
    /\ UNCHANGED disk

Unlock(j) ==
    /\ pc[j] = "unlock"
    /\ mu' = Nobody
    /\ Goto(j, "idle")
    /\ kind' = [kind EXCEPT ![j] = "none"]
    /\ UNCHANGED <<up, duck, lock, seen, dirty, disk>>

-----------------------------------------------------------------------------
(* Processes.                                                              *)

\* Faulty variant: the journal is kept in memory, and gone with its process.
DieWithJournal(victims) ==
    /\ pc' = [j \in Jobs |-> IF j \in victims THEN "idle" ELSE pc[j]]
    /\ kind' = [j \in Jobs |-> IF j \in victims THEN "none" ELSE kind[j]]
    /\ lock' = [j \in Jobs |-> IF j \in victims THEN "none" ELSE lock[j]]
    /\ seen' = [j \in Jobs |-> IF j \in victims THEN {} ELSE seen[j]]
    /\ dirty' = [j \in Jobs |-> IF j \in victims THEN {} ELSE dirty[j]]
    /\ journal' = IF \E j \in victims : pc[j] = "flush" THEN NoJournal ELSE journal
    /\ UNCHANGED <<file, committed>>

\* The journal is a file (_journal_mode=TRUNCATE): what a process leaves of it stays.
Die(victims) ==
    /\ pc' = [j \in Jobs |-> IF j \in victims THEN "idle" ELSE pc[j]]
    /\ kind' = [j \in Jobs |-> IF j \in victims THEN "none" ELSE kind[j]]
    /\ lock' = [j \in Jobs |-> IF j \in victims THEN "none" ELSE lock[j]]
    /\ seen' = [j \in Jobs |-> IF j \in victims THEN {} ELSE seen[j]]
    /\ dirty' = [j \in Jobs |-> IF j \in victims THEN {} ELSE dirty[j]]
    /\ UNCHANGED disk

\* The server stops at once: killed, or main returning with requests in flight.
Crash ==
    /\ up
    /\ up' = FALSE
    /\ mu' = Nobody
    /\ duck' = Nobody
    /\ Die({j \in Jobs : kind[j] # "seed"})

CrashSeed(j) ==
    /\ kind[j] = "seed"
    /\ Die({j})
    /\ UNCHANGED process

\* serve opens sqlite first, whose migrations read the file, and attaches DuckDB
\* to it afterwards.
Boot ==
    /\ ~up
    /\ CanShare(Jobs)
    /\ up' = TRUE
    /\ Recover(Jobs)
    /\ UNCHANGED <<mu, duck, jobs, committed>>

-----------------------------------------------------------------------------
Init ==
    /\ up = FALSE
    /\ mu = Nobody
    /\ duck = Nobody
    /\ pc = [j \in Jobs |-> "idle"]
    /\ kind = [j \in Jobs |-> "none"]
    /\ lock = [j \in Jobs |-> "none"]
    /\ seen = [j \in Jobs |-> {}]
    /\ dirty = [j \in Jobs |-> {}]
    /\ file = [t \in Tables |-> 0]
    /\ journal = NoJournal
    /\ committed = file

\* What job j does by itself once it holds what it waits for.
Run(j) ==
    \/ TakeConn(j)
    \/ TakeShared(j) \/ Reserve(j)
    \/ \E t \in Tables : Read(j, t) \/ Write(j, t) \/ Flush(j, t)
    \/ Pend(j) \/ Exclude(j) \/ Truncate(j)
    \/ Finish(j) \/ GiveUp(j) \/ Unlock(j)

\* Without another process that seeds, a server and its jobs.
ServerNext ==
    \/ \E j \in Jobs : LockMutex(j) \/ Run(j)
    \/ \E j \in Jobs, k \in Kinds : Accept(j, k)
    \/ Crash \/ Boot

Next == ServerNext \/ \E j \in Jobs : CrashSeed(j)

Spec == Init /\ [][Next]_vars

(***************************************************************************)
(* A goroutine that can run does run; the callbacks are finite; whoever    *)
(* waits for the file gives up when the busy timeout is over (GiveUp is    *)
(* part of Run).  A goroutine that waits for sync.Mutex gets it in turn    *)
(* after a millisecond, so one that is handed back again and again is      *)
(* handed over in the end.  No request has to arrive and no process has to *)
(* crash or start.  No other process seeds the file meanwhile.             *)
(***************************************************************************)
Fairness ==
    \A j \in Jobs :
        /\ WF_vars(Run(j))
        /\ SF_vars(LockMutex(j))

FairSpec == Init /\ [][ServerNext]_vars /\ Fairness

-----------------------------------------------------------------------------
(* Properties.                                                             *)

\* Type invariant; a job outside a transaction has no lock on the file.
TypeOK ==
    /\ up \in BOOLEAN
    /\ mu \in Jobs \cup {Nobody}
    /\ duck \in Jobs \cup {Nobody}
    /\ pc \in [Jobs -> {"idle", "lock", "conn", "begun", "commit", "flush", "unlock"}]
    /\ kind \in [Jobs -> {"none", "tx", "direct", "read", "batch", "seed"}]
    /\ lock \in [Jobs -> Locks]
    /\ \A j \in Jobs : pc[j] \in {"idle", "lock", "conn", "unlock"} => lock[j] = "none"
    /\ seen \in [Jobs -> SUBSET (Tables \X Nat)]
    /\ dirty \in [Jobs -> SUBSET Tables]
    /\ file \in [Tables -> Nat]
    /\ journal \in [Tables -> Nat] \cup {NoJournal}
    /\ committed \in [Tables -> Nat]

\* What a transaction has read stays the committed state until it ends: a catalogue
\* query reads all its tables in one state, and a write transaction that checked
\* something (matchWritable, the index scan, the emptiness guard) commits while it
\* still holds.  This is what lets MatchStore treat a transaction as one step.
ReadsCommitted ==
    \A j \in Jobs : \A r \in seen[j] : committed[r[1]] = r[2]

\* At any moment a crash loses no commit and keeps no part of another transaction:
\* the file is the committed state, or the journal is.
FileRestorable == committed = IF journal = NoJournal THEN file ELSE journal

\* whiteboard.md:118, "writes: Store.WithTx under WriteMu", and engine.go:22, "so a
\* write tx can never interleave with an analytics read": nothing is committed
\* between the Lock and the Unlock of a batch.
BatchUndisturbed ==
    [][\A j \in Jobs : kind[j] = "batch" /\ mu = j => committed' = committed]_vars

\* As much of it as the code keeps, whatever runs beside the batch: what commits between
\* its Lock and its Unlock is a codex write that goes around WriteMu, or the commit of
\* another process, and never a transaction of WithTx.
OnlyBypassesOvertake ==
    [][\A j \in Jobs :
            kind[j] = "batch" /\ mu = j /\ committed' # committed
                => \E k \in Jobs : kind[k] \in {"direct", "seed"} /\ pc[k] = "flush"]_vars

\* The fixture never joins real history: the guard of seed.Load still holds when the
\* fixture is committed, whatever a running server does in between.
SeedOnlyEmpty ==
    [][\A j \in Jobs :
            kind[j] = "seed" /\ pc[j] = "flush" /\ committed' # committed
                => committed[MatchTable] = 0]_vars

\* open.go:53, "holding WriteMu for the whole tx": two transactions that have read and both
\* want to write would wait for each other until the busy timeout.  Beside a WithTx that
\* writes, no other transaction of the server that has read will want to: what its commit
\* waits for are SELECTs and batches, which end without it, or the seeding process.
UpgradesAlone ==
    \A j, k \in Jobs :
        kind[j] = "tx" /\ lock[j] \in Writing /\ lock[k] = "shared"
            => kind[k] \in {"read", "batch", "seed"}

\* Refinement: behind the locks, the journal and the crashes transactions take effect one
\* at a time, each as a whole and on what it has read.
Txn == INSTANCE Transactions WITH data <- committed, reads <- seen

ImplementsTransactions == Txn!TxSpec

\* No operation of the store and no batch waits for ever, for WriteMu, for the file
\* or for the DuckDB connection.
Answered == \A j \in Jobs : pc[j] = "lock" ~> pc[j] = "idle"
=============================================================================
