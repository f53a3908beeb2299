---------------------------- MODULE WriteLockProofs ----------------------------
(***************************************************************************)
(* Theorems about WriteLock, for any number of jobs and tables.  What a    *)
(* transaction has read stays the committed state as long as every job     *)
(* that may write sees the lock of every job that reads; where DuckDB's    *)
(* library does not see the server's, WriteMu has to stand in, and does as *)
(* long as no write goes around it.                                        *)
(***************************************************************************)
EXTENDS WriteLock, TLAPS

-----------------------------------------------------------------------------
(* Types.                                                                  *)

LEMMA TypeRun ==
    ASSUME TypeOK, NEW j \in Jobs, Run(j)
    PROVE  TypeOK'
<1> USE DEF TypeOK, Locks, Goto, UnderMutex, process, disk
<1>1. CASE TakeConn(j)
    BY <1>1 DEF TakeConn
<1>2. CASE TakeShared(j)
    BY <1>2 DEF TakeShared, Recover, Hot
<1>3. CASE Reserve(j)
    BY <1>3 DEF Reserve, Recover, Hot
<1>4. ASSUME NEW t \in Tables, Read(j, t)
      PROVE  TypeOK'
    <2>1. seen' \in [Jobs -> SUBSET (Tables \X Nat)]
        BY <1>4 DEF Read
    <2>2. QED
        BY <1>4, <2>1 DEF Read
<1>5. ASSUME NEW t \in Tables, Write(j, t)
      PROVE  TypeOK'
    BY <1>5 DEF Write
<1>6. ASSUME NEW t \in Tables, Flush(j, t)
      PROVE  TypeOK'
    BY <1>6 DEF Flush, jobs
<1>7. CASE Pend(j)
    BY <1>7 DEF Pend
<1>8. CASE Exclude(j)
    BY <1>8 DEF Exclude
<1>9. CASE Truncate(j)
    BY <1>9 DEF Truncate, Leave
<1>10. CASE Finish(j)
    BY <1>10 DEF Finish, Leave
<1>11. CASE GiveUp(j)
    BY <1>11 DEF GiveUp, Leave
<1>12. CASE Unlock(j)
    BY <1>12 DEF Unlock
<1>13. QED
    BY <1>1, <1>2, <1>3, <1>4, <1>5, <1>6, <1>7, <1>8, <1>9, <1>10, <1>11, <1>12 DEF Run

LEMMA TypeNext ==
    ASSUME TypeOK, [Next]_vars
    PROVE  TypeOK'
<1>1. ASSUME NEW j \in Jobs, LockMutex(j)
      PROVE  TypeOK'
    BY <1>1 DEF TypeOK, LockMutex, Goto, disk
<1>2. ASSUME NEW j \in Jobs, Run(j)
      PROVE  TypeOK'
    BY <1>2, TypeRun
<1>3. ASSUME NEW j \in Jobs, CrashSeed(j)
      PROVE  TypeOK'
    BY <1>3 DEF TypeOK, CrashSeed, Die, Locks, process, disk
<1>4. ASSUME NEW j \in Jobs, NEW k \in Kinds, Accept(j, k)
      PROVE  TypeOK'
    BY <1>4, WriteLockAssumption DEF TypeOK, Accept, Goto, process, disk
<1>5. CASE Crash
    BY <1>5 DEF TypeOK, Crash, Die, Locks, disk
<1>6. CASE Boot
    BY <1>6 DEF TypeOK, Boot, Recover, Hot, jobs
<1>7. CASE UNCHANGED vars
    BY <1>7 DEF TypeOK, vars, process, jobs, disk
<1>8. QED
    BY <1>1, <1>2, <1>3, <1>4, <1>5, <1>6, <1>7 DEF Next, ServerNext

LEMMA TypeInit ==
    ASSUME Init
    PROVE  TypeOK
BY DEF Init, TypeOK, Locks

\* The jobs and the disk keep their types, and a job that is outside a transaction
\* has no lock on the file.
THEOREM LocksTyped == Spec => []TypeOK
<1>1. Init => TypeOK
    BY TypeInit
<1>2. TypeOK /\ [Next]_vars => TypeOK'
    BY TypeNext
<1>3. QED
    BY <1>1, <1>2, PTL DEF Spec

-----------------------------------------------------------------------------
(* The inductive invariant.                                                *)

InTransaction == {"conn", "begun", "commit", "flush", "unlock"}

\* Between Lock and Unlock nobody else has WriteMu.
MutexHeld ==
    \A j \in Jobs :
        kind[j] \in UnderMutex /\ pc[j] \in InTransaction => mu = j

\* The lock a job has on the file goes with its place in the transaction.
LocksMatch ==
    \A j \in Jobs :
        /\ kind[j] \in Kinds \cup {"none"}
        /\ pc[j] \in {"lock", "conn", "unlock"} => kind[j] \in UnderMutex
        /\ pc[j] = "begun" => lock[j] \in {"none", "shared", "reserved"}
        /\ pc[j] = "commit" => lock[j] = "pending"
        /\ pc[j] = "flush" => lock[j] = "exclusive"
        /\ lock[j] = "none" => seen[j] = {}
        /\ lock[j] \in Writing => kind[j] \in {"tx", "direct", "seed"}
        /\ lock[j] \in Writing /\ kind[j] = "seed" => <<MatchTable, 0>> \in seen[j]

\* One writer at a time, and no reader beside the one that writes the file.
LocksExclude ==
    \A j, k \in Jobs : j # k =>
        /\ lock[j] \in Writing => lock[k] \notin Writing
        /\ lock[j] = "exclusive" => lock[k] = "none"

\* While there is a journal, either its writer works on the file or, after a crash,
\* nobody does.
JournalOwned ==
    /\ \A j \in Jobs : pc[j] = "flush" => journal # NoJournal
    /\ journal # NoJournal =>
            \/ \E j \in Jobs : lock[j] = "exclusive"
            \/ \A j \in Jobs : lock[j] = "none"

IInv ==
    /\ TypeOK
    /\ MutexHeld
    /\ LocksMatch
    /\ LocksExclude
    /\ JournalOwned
    /\ FileRestorable
    /\ ReadsCommitted

-----------------------------------------------------------------------------
(* Who sees whom.  Two jobs that do not see each other's locks are a batch *)
(* and another job of the server; if that other job writes, both are under *)
(* WriteMu, which only one of them has.                                    *)

MutexOrLocks == LocksSeen \/ "direct" \notin Kinds

LEMMA WriterSeen ==
    ASSUME IInv, MutexOrLocks, NEW j \in Jobs, NEW k \in Jobs \ {j},
           pc[j] = "begun", lock[k] \in Writing
    PROVE  k \in Peers(j)
<1>1. SUFFICES ASSUME k \notin Peers(j)
               PROVE  FALSE
    OBVIOUS
<1>2. ~LocksSeen /\ kind[j] # "seed" /\ kind[k] # "seed"
    BY <1>1 DEF Peers
<1>3. kind[k] = "tx"
    BY <1>2 DEF IInv, LocksMatch, MutexOrLocks
<1>4. kind[j] = "batch"
    BY <1>1, <1>3 DEF Peers
<1>5. pc[k] \in InTransaction
    BY DEF IInv, TypeOK, InTransaction, Writing
<1>6. QED
    BY <1>3, <1>4, <1>5 DEF IInv, MutexHeld, UnderMutex, InTransaction

LEMMA ReaderSeen ==
    ASSUME IInv, MutexOrLocks, NEW j \in Jobs, NEW k \in Jobs \ {j},
           lock[j] \in Writing, lock[k] # "none"
    PROVE  k \in Peers(j)
<1>1. SUFFICES ASSUME k \notin Peers(j)
               PROVE  FALSE
    OBVIOUS
<1>2. ~LocksSeen /\ kind[j] # "seed" /\ kind[k] # "seed"
    BY <1>1 DEF Peers
<1>3. kind[j] = "tx"
    BY <1>2 DEF IInv, LocksMatch, MutexOrLocks
<1>4. kind[k] = "batch"
    BY <1>1, <1>3 DEF Peers
<1>5. pc[j] \in InTransaction /\ pc[k] \in InTransaction
    BY DEF IInv, TypeOK, InTransaction, Writing
<1>6. QED
    BY <1>3, <1>4, <1>5 DEF IInv, MutexHeld, UnderMutex, InTransaction

\* Taking the first lock leaves no journal and the committed state in the file.
LEMMA FirstLockRecovers ==
    ASSUME IInv, MutexOrLocks, NEW j \in Jobs, pc[j] = "begun", lock[j] = "none",
           CanShare(Peers(j)), Recover(Peers(j))
    PROVE  journal' = NoJournal /\ file' = committed
<1>1. CASE journal = NoJournal
    BY <1>1 DEF Recover, Hot, IInv, FileRestorable
<1>2. CASE journal # NoJournal
    <2>1. \A k \in Jobs : lock[k] # "exclusive"
        <3>1. SUFFICES ASSUME NEW k \in Jobs, lock[k] = "exclusive"
                       PROVE  FALSE
            OBVIOUS
        <3>2. k \in Peers(j)
            BY <3>1, WriterSeen DEF Writing
        <3>3. QED
            BY <3>1, <3>2 DEF CanShare
    <2>2. \A k \in Jobs : lock[k] = "none"
        BY <1>2, <2>1 DEF IInv, JournalOwned
    <2>3. CanReserve(Peers(j))
        BY <2>2 DEF CanReserve, Peers, Writing
    <2>4. QED
        BY <1>2, <2>3 DEF Recover, Hot, IInv, FileRestorable
<1>3. QED
    BY <1>1, <1>2

-----------------------------------------------------------------------------
(* The steps of a transaction, one lemma each.                             *)

LEMMA StepTakeShared ==
    ASSUME IInv, MutexOrLocks, NEW j \in Jobs, TakeShared(j)
    PROVE  IInv'
<1>1. TypeOK'
    BY TypeRun DEF IInv, Run
<1>2. journal' = NoJournal /\ file' = committed /\ committed' = committed /\ seen' = seen
    BY FirstLockRecovers DEF TakeShared
<1>3. lock' = [lock EXCEPT ![j] = "shared"] /\ lock[j] = "none" /\ lock \in [Jobs -> Locks]
    BY DEF TakeShared, IInv, TypeOK
<1>4. \A k \in Jobs \ {j} : lock[k] # "exclusive"
    BY WriterSeen DEF TakeShared, CanShare, Writing
<1>5. LocksExclude'
    BY <1>3, <1>4 DEF IInv, LocksExclude, Writing
<1>6. LocksMatch'
    BY <1>3 DEF IInv, LocksMatch, TakeShared, Writing
<1>7. MutexHeld'
    BY DEF IInv, MutexHeld, TakeShared, process
<1>8. QED
    BY <1>1, <1>2, <1>3, <1>4, <1>5, <1>6, <1>7
        DEF IInv, JournalOwned, FileRestorable, ReadsCommitted, LocksMatch, TakeShared

\* Whoever has a lock and no commit under way reads the committed state.
LEMMA StepRead ==
    ASSUME IInv, NEW j \in Jobs, NEW t \in Tables, Read(j, t)
    PROVE  IInv'
<1>1. TypeOK'
    BY TypeRun DEF IInv, Run
<1>2. journal = NoJournal
    <2>1. lock[j] # "exclusive" /\ lock[j] # "none"
        BY DEF Read, IInv, LocksMatch
    <2>2. QED
        BY <2>1 DEF IInv, JournalOwned, LocksExclude
<1>3. file[t] = committed[t]
    BY <1>2 DEF IInv, FileRestorable
<1>4. /\ seen' = [seen EXCEPT ![j] = @ \cup {<<t, file[t]>>}]
      /\ lock[j] # "none"
      /\ UNCHANGED <<process, pc, kind, lock, dirty, disk>>
      /\ seen \in [Jobs -> SUBSET (Tables \X Nat)]
    BY DEF Read, IInv, TypeOK
<1>5. ReadsCommitted'
    BY <1>3, <1>4 DEF IInv, ReadsCommitted, disk
<1>6. LocksMatch'
    BY <1>4 DEF IInv, LocksMatch
<1>7. QED
    BY <1>1, <1>4, <1>5, <1>6
        DEF IInv, MutexHeld, LocksExclude, JournalOwned, FileRestorable, process, disk

LEMMA StepReserve ==
    ASSUME IInv, MutexOrLocks, NEW j \in Jobs, Reserve(j)
    PROVE  IInv'
<1>1. TypeOK'
    BY TypeRun DEF IInv, Run
<1>2. /\ lock' = [lock EXCEPT ![j] = "reserved"]
      /\ lock[j] \in {"none", "shared"}
      /\ lock \in [Jobs -> Locks]
      /\ UNCHANGED <<process, pc, kind, seen, dirty, committed>>
    BY DEF Reserve, IInv, TypeOK
<1>3. \A k \in Jobs \ {j} : lock[k] \notin Writing
    BY WriterSeen DEF Reserve, CanReserve
<1>4. LocksExclude'
    BY <1>2, <1>3 DEF IInv, LocksExclude, Writing
<1>5. LocksMatch'
    BY <1>2 DEF IInv, LocksMatch, Reserve, Writing
<1>6. JournalOwned' /\ FileRestorable'
    <2>1. CASE lock[j] = "none"
        <3>1. CanShare(Peers(j)) /\ Recover(Peers(j)) /\ pc[j] = "begun"
            BY <2>1 DEF Reserve, CanReserve, CanShare, Writing
        <3>2. QED
            BY <2>1, <3>1, <1>2, <1>3, FirstLockRecovers
                DEF IInv, LocksMatch, JournalOwned, FileRestorable, Writing
    <2>2. CASE lock[j] = "shared"
        <3>1. UNCHANGED <<file, journal>>
            BY <2>2 DEF Reserve
        <3>2. journal = NoJournal
            BY <2>2 DEF IInv, JournalOwned, LocksExclude
        <3>3. QED
            BY <3>1, <3>2, <1>2 DEF IInv, JournalOwned, FileRestorable
    <2>3. QED
        BY <1>2, <2>1, <2>2
<1>7. QED
    BY <1>1, <1>2, <1>4, <1>5, <1>6 DEF IInv, MutexHeld, ReadsCommitted, process

LEMMA StepPend ==
    ASSUME IInv, NEW j \in Jobs, Pend(j)
    PROVE  IInv'
<1>1. TypeOK'
    BY TypeRun DEF IInv, Run
<1>2. /\ lock' = [lock EXCEPT ![j] = "pending"]
      /\ pc' = [pc EXCEPT ![j] = "commit"]
      /\ lock[j] = "reserved" /\ pc[j] = "begun"
      /\ UNCHANGED <<process, kind, seen, dirty, disk>>
      /\ lock \in [Jobs -> Locks] /\ DOMAIN pc = Jobs
    BY DEF Pend, Goto, IInv, TypeOK
<1>3. LocksExclude'
    BY <1>2 DEF IInv, LocksExclude, Writing
<1>4. LocksMatch'
    BY <1>2 DEF IInv, LocksMatch, Writing
<1>5. MutexHeld'
    BY <1>2 DEF IInv, MutexHeld, InTransaction, process
<1>6. JournalOwned'
    BY <1>2 DEF IInv, JournalOwned, LocksExclude, disk
<1>7. QED
    BY <1>1, <1>2, <1>3, <1>4, <1>5, <1>6 DEF IInv, FileRestorable, ReadsCommitted, disk

LEMMA StepExclude ==
    ASSUME IInv, MutexOrLocks, NEW j \in Jobs, Exclude(j)
    PROVE  IInv'
<1>1. TypeOK'
    BY TypeRun DEF IInv, Run
<1>2. /\ lock' = [lock EXCEPT ![j] = "exclusive"]
      /\ pc' = [pc EXCEPT ![j] = "flush"]
      /\ pc[j] = "commit" /\ lock[j] = "pending"
      /\ journal' = file
      /\ UNCHANGED <<process, kind, seen, dirty, file, committed>>
      /\ lock \in [Jobs -> Locks] /\ DOMAIN pc = Jobs
    BY DEF Exclude, Goto, IInv, TypeOK, LocksMatch
<1>3. \A k \in Jobs \ {j} : lock[k] = "none"
    BY <1>2, ReaderSeen DEF Exclude, CanExclude, Writing
<1>4. LocksExclude'
    BY <1>2, <1>3 DEF LocksExclude, Writing
<1>5. LocksMatch'
    BY <1>2 DEF IInv, LocksMatch, Writing
<1>6. MutexHeld'
    BY <1>2 DEF IInv, MutexHeld, InTransaction, process
<1>7. file = committed
    BY <1>2 DEF IInv, JournalOwned, LocksExclude, FileRestorable
<1>8. JournalOwned' /\ FileRestorable'
    BY <1>2, <1>7, WriteLockAssumption
        DEF IInv, TypeOK, JournalOwned, FileRestorable
<1>9. QED
    BY <1>1, <1>2, <1>4, <1>5, <1>6, <1>8 DEF IInv, ReadsCommitted

LEMMA StepTruncate ==
    ASSUME IInv, NEW j \in Jobs, Truncate(j)
    PROVE  IInv'
<1>1. TypeOK'
    BY TypeRun DEF IInv, Run
<1>2. /\ lock' = [lock EXCEPT ![j] = "none"]
      /\ seen' = [seen EXCEPT ![j] = {}]
      /\ pc' = [pc EXCEPT ![j] = IF kind[j] \in UnderMutex THEN "unlock" ELSE "idle"]
      /\ kind' = [kind EXCEPT ![j] = IF kind[j] \in UnderMutex THEN kind[j] ELSE "none"]
      /\ pc[j] = "flush" /\ lock[j] = "exclusive"
      /\ journal' = NoJournal /\ committed' = file /\ file' = file /\ mu' = mu
      /\ lock \in [Jobs -> Locks] /\ DOMAIN pc = Jobs /\ DOMAIN kind = Jobs
      /\ seen \in [Jobs -> SUBSET (Tables \X Nat)]
    BY DEF Truncate, Leave, Goto, IInv, TypeOK, LocksMatch
<1>3. \A k \in Jobs : lock'[k] = "none" /\ seen'[k] = {}
    BY <1>2 DEF IInv, LocksExclude, LocksMatch
<1>4. LocksMatch'
    BY <1>2, <1>3 DEF IInv, LocksMatch, Writing, UnderMutex
<1>5. MutexHeld'
    BY <1>2 DEF IInv, MutexHeld, InTransaction
<1>6. QED
    BY <1>1, <1>2, <1>3, <1>4, <1>5
        DEF IInv, LocksExclude, LocksMatch, JournalOwned, FileRestorable, ReadsCommitted,
            Writing

\* A transaction that ends before its commit has changed no page of the file.
LEMMA StepLeave ==
    ASSUME IInv, NEW j \in Jobs, Finish(j) \/ GiveUp(j)
    PROVE  IInv'
<1>1. TypeOK'
    BY TypeRun DEF IInv, Run
<1>2. /\ lock' = [lock EXCEPT ![j] = "none"]
      /\ seen' = [seen EXCEPT ![j] = {}]
      /\ pc' = [pc EXCEPT ![j] = IF kind[j] \in UnderMutex THEN "unlock" ELSE "idle"]
      /\ kind' = [kind EXCEPT ![j] = IF kind[j] \in UnderMutex THEN kind[j] ELSE "none"]
      /\ pc[j] \in {"conn", "begun", "commit"} /\ lock[j] # "exclusive"
      /\ UNCHANGED disk /\ mu' = mu
      /\ lock \in [Jobs -> Locks] /\ DOMAIN pc = Jobs /\ DOMAIN kind = Jobs
      /\ seen \in [Jobs -> SUBSET (Tables \X Nat)]
    BY DEF Finish, GiveUp, Leave, Goto, IInv, TypeOK, LocksMatch
<1>3. LocksMatch'
    BY <1>2 DEF IInv, LocksMatch, Writing, UnderMutex
<1>4. LocksExclude'
    BY <1>2 DEF IInv, LocksExclude, Writing
<1>5. MutexHeld'
    BY <1>2 DEF IInv, MutexHeld, InTransaction
<1>6. JournalOwned'
    BY <1>2 DEF IInv, JournalOwned, disk
<1>7. ReadsCommitted' /\ FileRestorable'
    BY <1>2 DEF IInv, ReadsCommitted, FileRestorable, disk
<1>8. QED
    BY <1>1, <1>3, <1>4, <1>5, <1>6, <1>7 DEF IInv

-----------------------------------------------------------------------------
(* The other steps.                                                        *)

LEMMA StepRun ==
    ASSUME IInv, MutexOrLocks, NEW j \in Jobs, Run(j)
    PROVE  IInv'
<1>1. CASE TakeConn(j)
    <2>1. TypeOK'
        BY TypeRun DEF IInv
    <2>2. MutexHeld' /\ LocksMatch'
        BY <1>1 DEF IInv, TypeOK, MutexHeld, LocksMatch, InTransaction, TakeConn, Goto, Writing
    <2>3. JournalOwned'
        BY <1>1 DEF IInv, TypeOK, JournalOwned, TakeConn, Goto, disk
    <2>4. QED
        BY <1>1, <2>1, <2>2, <2>3
            DEF IInv, LocksExclude, FileRestorable, ReadsCommitted, TakeConn, disk
<1>2. ASSUME NEW t \in Tables, Write(j, t)
      PROVE  IInv'
    <2>1. TypeOK'
        BY TypeRun DEF IInv
    <2>2. QED
        BY <1>2, <2>1 DEF IInv, MutexHeld, LocksMatch, LocksExclude, JournalOwned,
                          FileRestorable, ReadsCommitted, Write, process, disk
<1>3. ASSUME NEW t \in Tables, Flush(j, t)
      PROVE  IInv'
    <2>1. TypeOK'
        BY TypeRun DEF IInv
    <2>2. journal # NoJournal
        BY <1>3 DEF Flush, IInv, JournalOwned
    <2>3. QED
        BY <1>3, <2>1, <2>2 DEF IInv, MutexHeld, LocksMatch, LocksExclude, JournalOwned,
                          FileRestorable, ReadsCommitted, Flush, process, jobs
<1>4. CASE Unlock(j)
    <2>1. TypeOK'
        BY TypeRun DEF IInv
    <2>2. LocksMatch'
        BY <1>4 DEF IInv, TypeOK, LocksMatch, Unlock, Goto, Writing
    <2>3. MutexHeld'
        BY <1>4 DEF IInv, TypeOK, MutexHeld, LocksMatch, InTransaction, Unlock, Goto
    <2>4. JournalOwned'
        BY <1>4 DEF IInv, TypeOK, JournalOwned, Unlock, Goto, disk
    <2>5. QED
        BY <1>4, <2>1, <2>2, <2>3, <2>4
            DEF IInv, LocksExclude, FileRestorable, ReadsCommitted, Unlock, disk
<1>5. QED
    BY <1>1, <1>2, <1>3, <1>4, StepTakeShared, StepRead, StepReserve, StepPend, StepExclude,
       StepTruncate, StepLeave DEF Run

LEMMA StepBegin ==
    ASSUME IInv, NEW j \in Jobs,
           LockMutex(j) \/ \E k \in Kinds : Accept(j, k)
    PROVE  IInv'
<1>1. TypeOK'
    BY TypeNext DEF IInv, Next, ServerNext
<1>2. CASE LockMutex(j)
    <2>1. MutexHeld' /\ LocksMatch'
        BY <1>2, WriteLockAssumption
            DEF IInv, TypeOK, MutexHeld, LocksMatch, InTransaction, LockMutex, Goto, Writing
    <2>2. JournalOwned'
        BY <1>2 DEF IInv, TypeOK, JournalOwned, LockMutex, Goto, disk
    <2>3. QED
        BY <1>1, <1>2, <2>1, <2>2
            DEF IInv, LocksExclude, FileRestorable, ReadsCommitted, LockMutex, disk
<1>3. ASSUME NEW k \in Kinds, Accept(j, k)
      PROVE  IInv'
    <2>1. MutexHeld' /\ LocksMatch'
        BY <1>3 DEF IInv, TypeOK, MutexHeld, LocksMatch, InTransaction, Accept, Goto,
                    UnderMutex, process, Writing
    <2>2. JournalOwned'
        BY <1>3 DEF IInv, TypeOK, JournalOwned, Accept, Goto, disk
    <2>3. QED
        BY <1>1, <1>3, <2>1, <2>2
            DEF IInv, LocksExclude, FileRestorable, ReadsCommitted, Accept, disk
<1>4. QED
    BY <1>2, <1>3

\* The dead let go of everything; if one of them wrote the file, nobody else had a
\* lock on it.
LEMMA StepDie ==
    ASSUME IInv, NEW victims \in SUBSET Jobs, Die(victims),
           \/ mu' = mu
           \/ \A j \in Jobs : kind[j] # "seed" => j \in victims,
           TypeOK'
    PROVE  IInv'
<1>1. /\ pc' = [j \in Jobs |-> IF j \in victims THEN "idle" ELSE pc[j]]
      /\ kind' = [j \in Jobs |-> IF j \in victims THEN "none" ELSE kind[j]]
      /\ lock' = [j \in Jobs |-> IF j \in victims THEN "none" ELSE lock[j]]
      /\ seen' = [j \in Jobs |-> IF j \in victims THEN {} ELSE seen[j]]
      /\ UNCHANGED disk
    BY DEF Die
<1>2. MutexHeld'
    BY <1>1 DEF IInv, MutexHeld, UnderMutex, InTransaction
<1>3. LocksMatch'
    BY <1>1 DEF IInv, LocksMatch, Writing
<1>4. LocksExclude'
    BY <1>1 DEF IInv, LocksExclude, Writing
<1>5. JournalOwned'
    <2>0. \A k \in Jobs : pc'[k] = "flush" => journal' # NoJournal
        BY <1>1 DEF IInv, JournalOwned, disk
    <2>1. CASE \A j \in Jobs : lock[j] = "none"
        BY <1>1, <2>0, <2>1 DEF JournalOwned
    <2>2. ASSUME NEW j \in Jobs, lock[j] = "exclusive"
          PROVE  JournalOwned'
        BY <1>1, <2>0, <2>2 DEF IInv, JournalOwned, LocksExclude
    <2>3. CASE journal = NoJournal
        BY <1>1, <2>0, <2>3 DEF JournalOwned, disk
    <2>4. QED
        BY <2>1, <2>2, <2>3 DEF IInv, JournalOwned
<1>6. ReadsCommitted' /\ FileRestorable'
    BY <1>1 DEF IInv, ReadsCommitted, FileRestorable, disk
<1>7. QED
    BY <1>2, <1>3, <1>4, <1>5, <1>6 DEF IInv

LEMMA StepBoot ==
    ASSUME IInv, Boot
    PROVE  IInv'
<1>1. TypeOK'
    BY TypeNext DEF IInv, Next, ServerNext
<1>2. UNCHANGED <<mu, jobs, committed>> /\ CanShare(Jobs) /\ Recover(Jobs)
    BY DEF Boot
<1>3. journal' = NoJournal /\ file' = committed
    <2>1. journal # NoJournal => CanReserve(Jobs)
        BY <1>2 DEF IInv, JournalOwned, CanShare, CanReserve, Writing
    <2>2. QED
        BY <1>2, <2>1 DEF Recover, Hot, IInv, FileRestorable
<1>4. \A j \in Jobs : pc[j] # "flush"
    BY <1>2 DEF IInv, LocksMatch, CanShare
<1>5. QED
    BY <1>1, <1>2, <1>3, <1>4
        DEF IInv, MutexHeld, LocksMatch, LocksExclude, JournalOwned, FileRestorable,
            ReadsCommitted, jobs

LEMMA StepNext ==
    ASSUME IInv, MutexOrLocks, [Next]_vars
    PROVE  IInv'
<1>1. TypeOK'
    BY TypeNext DEF IInv
<1>2. ASSUME NEW j \in Jobs, CrashSeed(j)
      PROVE  IInv'
    BY <1>1, <1>2, StepDie DEF CrashSeed, process
<1>3. CASE Crash
    BY <1>1, <1>3, StepDie DEF Crash
<1>4. CASE UNCHANGED vars
    BY <1>1, <1>4 DEF IInv, MutexHeld, LocksMatch, LocksExclude, JournalOwned,
                      FileRestorable, ReadsCommitted, vars, process, jobs, disk
<1>5. QED
    BY <1>2, <1>3, <1>4, StepRun, StepBegin, StepBoot DEF Next, ServerNext

LEMMA InitIInv ==
    ASSUME Init
    PROVE  IInv
<1>1. TypeOK
    BY TypeInit
<1>2. QED
    BY <1>1 DEF Init, IInv, MutexHeld, LocksMatch, LocksExclude, JournalOwned,
                FileRestorable, ReadsCommitted, UnderMutex, Writing

-----------------------------------------------------------------------------
(* The theorems.                                                           *)

\* What a transaction has read is the committed state until it ends (WithTx, batch and
\* seed.Load): by the file locks where the two libraries see each other's, by WriteMu
\* where they do not and no write goes around it.
THEOREM ReadsStayCommitted ==
    ASSUME MutexOrLocks
    PROVE  Spec => []ReadsCommitted
<1>1. Init => IInv
    BY InitIInv
<1>2. IInv /\ [Next]_vars => IInv'
    BY StepNext
<1>3. IInv => ReadsCommitted
    BY DEF IInv
<1>4. QED
    BY <1>1, <1>2, <1>3, PTL DEF Spec

\* A crash of the server or of the seeding process at any moment loses no commit and
\* keeps no part of another transaction.
THEOREM FileAlwaysRestorable ==
    ASSUME MutexOrLocks
    PROVE  Spec => []FileRestorable
<1>1. Init => IInv
    BY InitIInv
<1>2. IInv /\ [Next]_vars => IInv'
    BY StepNext
<1>3. IInv => FileRestorable
    BY DEF IInv
<1>4. QED
    BY <1>1, <1>2, <1>3, PTL DEF Spec

\* The emptiness guard of seed.Load still holds when the fixture is committed.
THEOREM SeedJoinsNoHistory ==
    ASSUME MutexOrLocks
    PROVE  Spec => SeedOnlyEmpty
<1>1. Init => IInv
    BY InitIInv
<1>2. IInv /\ [Next]_vars => IInv'
    BY StepNext
<1>3. ASSUME IInv, NEW j \in Jobs, kind[j] = "seed", pc[j] = "flush"
      PROVE  committed[MatchTable] = 0
    <2>1. <<MatchTable, 0>> \in seen[j]
        BY <1>3 DEF IInv, LocksMatch, Writing
    <2>2. QED
        BY <1>3, <2>1 DEF IInv, ReadsCommitted
<1>4. IInv /\ [Next]_vars =>
        [\A j \in Jobs :
            kind[j] = "seed" /\ pc[j] = "flush" /\ committed' # committed
                => committed[MatchTable] = 0]_vars
    BY <1>3
<1>5. QED
    BY <1>1, <1>2, <1>4, PTL DEF Spec, SeedOnlyEmpty

-----------------------------------------------------------------------------
(* Transactions take effect as a whole.                                    *)

\* What a commit under way has written of the file: tables of its own, once each.
PagesAhead ==
    \A j \in Jobs :
        /\ pc[j] \in {"commit", "flush"} => dirty[j] # {}
        /\ pc[j] = "flush" =>
            \A t \in Tables :
                file[t] = journal[t] \/ (t \in dirty[j] /\ file[t] = journal[t] + 1)

LEMMA PagesKept ==
    ASSUME PagesAhead, file' = file, journal' = journal,
           \A j \in Jobs : pc'[j] \in {"commit", "flush"} => pc'[j] = pc[j] /\ dirty'[j] = dirty[j]
    PROVE  PagesAhead'
BY DEF PagesAhead

\* While a job writes the file no other has any lock on it.
LEMMA FlushAlone ==
    ASSUME IInv, NEW j \in Jobs, pc[j] = "flush"
    PROVE  \A k \in Jobs \ {j} : lock[k] = "none" /\ pc[k] # "flush"
<1>1. lock[j] = "exclusive"
    BY DEF IInv, LocksMatch
<1>2. \A k \in Jobs \ {j} : lock[k] = "none"
    BY <1>1 DEF IInv, LocksExclude
<1>3. QED
    BY <1>2 DEF IInv, LocksMatch

LEMMA FlushAloneNext ==
    ASSUME IInv', NEW j \in Jobs, pc'[j] = "flush"
    PROVE  \A k \in Jobs \ {j} : lock'[k] = "none"
BY DEF IInv, LocksMatch, LocksExclude

LEMMA PagesRun ==
    ASSUME IInv, IInv', PagesAhead, NEW j \in Jobs, Run(j)
    PROVE  PagesAhead'
<1>1. pc \in [Jobs -> {"idle", "lock", "conn", "begun", "commit", "flush", "unlock"}]
      /\ dirty \in [Jobs -> SUBSET Tables] /\ lock \in [Jobs -> Locks]
      /\ file \in [Tables -> Nat]
    BY DEF IInv, TypeOK
<1>2. CASE TakeConn(j) \/ Unlock(j)
    BY <1>1, <1>2, PagesKept DEF TakeConn, Unlock, Goto, disk
<1>3. CASE TakeShared(j) \/ Reserve(j)
    <2>1. lock'[j] # "none" /\ pc' = pc /\ dirty' = dirty /\ pc[j] = "begun"
        BY <1>1, <1>3 DEF TakeShared, Reserve
    <2>2. \A k \in Jobs : pc'[k] # "flush"
        BY <2>1, FlushAloneNext
    <2>3. QED
        BY <2>1, <2>2 DEF PagesAhead
<1>4. ASSUME NEW t \in Tables, Read(j, t) \/ Write(j, t)
      PROVE  PagesAhead'
    <2>1. pc' = pc /\ pc[j] = "begun" /\ file' = file /\ journal' = journal
          /\ \A k \in Jobs \ {j} : dirty'[k] = dirty[k]
        BY <1>1, <1>4 DEF Read, Write, disk
    <2>2. QED
        BY <2>1, PagesKept
<1>5. ASSUME NEW t \in Tables, Flush(j, t)
      PROVE  PagesAhead'
    <2>1. /\ pc' = pc /\ dirty' = dirty /\ journal' = journal
          /\ pc[j] = "flush" /\ t \in dirty[j] /\ file[t] = journal[t]
          /\ file' = [file EXCEPT ![t] = file[t] + 1]
        BY <1>5 DEF Flush, jobs
    <2>2. \A k \in Jobs \ {j} : pc[k] # "flush"
        BY <2>1, FlushAlone
    <2>3. ASSUME NEW u \in Tables
          PROVE  file'[u] = journal[u] \/ (u \in dirty[j] /\ file'[u] = journal[u] + 1)
        <3>1. CASE u = t
            BY <1>1, <2>1, <3>1
        <3>2. CASE u # t
            BY <1>1, <2>1, <3>2 DEF PagesAhead
        <3>3. QED
            BY <3>1, <3>2
    <2>4. QED
        BY <2>1, <2>2, <2>3 DEF PagesAhead
<1>6. CASE Pend(j)
    <2>1. /\ pc' = [pc EXCEPT ![j] = "commit"] /\ dirty' = dirty /\ dirty[j] # {}
          /\ file' = file /\ journal' = journal
        BY <1>6 DEF Pend, Goto, disk
    <2>2. QED
        BY <1>1, <2>1 DEF PagesAhead
<1>7. CASE Exclude(j)
    <2>1. /\ pc[j] = "commit" /\ pc' = [pc EXCEPT ![j] = "flush"] /\ dirty' = dirty
          /\ file' = file /\ journal' = file
        BY <1>7 DEF Exclude, Goto
    <2>2. pc'[j] = "flush" /\ dirty[j] # {}
        BY <1>1, <2>1 DEF PagesAhead
    <2>3. \A k \in Jobs \ {j} : pc'[k] # "flush"
        BY <2>2, FlushAloneNext DEF IInv, LocksMatch
    <2>4. QED
        BY <1>1, <2>1, <2>2, <2>3 DEF PagesAhead
<1>8. CASE Truncate(j)
    <2>1. pc[j] = "flush" /\ pc'[j] \in {"unlock", "idle"}
          /\ \A k \in Jobs \ {j} : pc'[k] = pc[k] /\ dirty'[k] = dirty[k]
        BY <1>1, <1>8 DEF Truncate, Leave, Goto
    <2>2. \A k \in Jobs : pc'[k] # "flush"
        BY <2>1, FlushAlone
    <2>3. QED
        BY <2>1, <2>2 DEF PagesAhead
<1>9. CASE Finish(j) \/ GiveUp(j)
    <2>1. pc'[j] \in {"unlock", "idle"} /\ file' = file /\ journal' = journal
          /\ \A k \in Jobs \ {j} : pc'[k] = pc[k] /\ dirty'[k] = dirty[k]
        BY <1>1, <1>9 DEF Finish, GiveUp, Leave, Goto, disk
    <2>2. QED
        BY <2>1, PagesKept
<1>10. QED
    BY <1>2, <1>3, <1>4, <1>5, <1>6, <1>7, <1>8, <1>9 DEF Run

LEMMA PagesNext ==
    ASSUME IInv, MutexOrLocks, PagesAhead, [Next]_vars
    PROVE  PagesAhead'
<1>1. IInv'
    BY StepNext
<1>2. pc \in [Jobs -> {"idle", "lock", "conn", "begun", "commit", "flush", "unlock"}]
    BY DEF IInv, TypeOK
<1>3. ASSUME NEW j \in Jobs, LockMutex(j) \/ \E k \in Kinds : Accept(j, k)
      PROVE  PagesAhead'
    BY <1>2, <1>3, PagesKept DEF LockMutex, Accept, Goto, disk, UnderMutex
<1>4. ASSUME NEW victims \in SUBSET Jobs, Die(victims)
      PROVE  PagesAhead'
    <2>1. file' = file /\ journal' = journal
        BY <1>4 DEF Die, disk
    <2>2. \A j \in Jobs : pc'[j] \in {"commit", "flush"} => pc'[j] = pc[j] /\ dirty'[j] = dirty[j]
        BY <1>4 DEF Die
    <2>3. QED
        BY <2>1, <2>2, PagesKept
<1>5. CASE Boot
    <2>1. pc' = pc /\ dirty' = dirty /\ CanShare(Jobs)
        BY <1>5 DEF Boot, jobs
    <2>2. \A j \in Jobs : pc[j] # "flush"
        BY <2>1 DEF IInv, LocksMatch, CanShare
    <2>3. QED
        BY <2>1, <2>2 DEF PagesAhead
<1>6. CASE UNCHANGED vars
    BY <1>6, PagesKept DEF vars, jobs, disk
<1>7. QED
    BY <1>1, <1>3, <1>4, <1>5, <1>6, PagesRun DEF Next, ServerNext, Crash, CrashSeed

\* What a transaction reads in the file is the committed state.
LEMMA ReaderSeesCommits ==
    ASSUME IInv, NEW j \in Jobs, pc[j] = "begun", lock[j] # "none"
    PROVE  file = committed
<1>1. \A k \in Jobs : lock[k] # "exclusive"
    BY DEF IInv, LocksMatch, LocksExclude
<1>2. journal = NoJournal
    BY <1>1 DEF IInv, JournalOwned
<1>3. QED
    BY <1>2 DEF IInv, FileRestorable

\* The truncation of the journal is the moment a write transaction takes effect.
LEMMA CommitsAsWhole ==
    ASSUME IInv, PagesAhead, NEW j \in Jobs, Truncate(j)
    PROVE  dirty[j] \in SUBSET Tables /\ dirty[j] # {} /\ Txn!Commit(j, dirty[j])
<1>1. /\ pc[j] = "flush" /\ committed' = file /\ seen' = [seen EXCEPT ![j] = {}]
      /\ \A t \in dirty[j] : file[t] # journal[t]
    BY DEF Truncate, Leave
<1>2. dirty[j] \in SUBSET Tables /\ dirty[j] # {}
    BY <1>1 DEF IInv, TypeOK, PagesAhead
<1>3. journal # NoJournal /\ committed = journal
    BY <1>1 DEF IInv, JournalOwned, FileRestorable
<1>4. \A t \in Tables : file[t] = IF t \in dirty[j] THEN committed[t] + 1 ELSE committed[t]
    BY <1>1, <1>3 DEF PagesAhead
<1>5. DOMAIN file = Tables /\ file = [t \in Tables |-> file[t]]
    BY DEF IInv, TypeOK
<1>6. committed' = [t \in Tables |-> IF t \in dirty[j] THEN committed[t] + 1 ELSE committed[t]]
    BY <1>1, <1>4, <1>5
<1>7. \A k \in Jobs \ {j} : seen[k] = {}
    BY <1>1, FlushAlone DEF IInv, LocksMatch
<1>8. \A r \in seen[j] : committed[r[1]] = r[2]
    BY DEF IInv, ReadsCommitted
<1>9. QED
    BY <1>1, <1>2, <1>6, <1>7, <1>8 DEF Txn!Commit, Txn!Current, Txn!Alone

LEMMA TransactionsStep ==
    ASSUME IInv, PagesAhead, [Next]_vars
    PROVE  [Txn!TxNext]_<<committed, seen>>
<1>0. seen \in [Jobs -> SUBSET (Tables \X Nat)]
    BY DEF IInv, TypeOK
<1>1. ASSUME NEW j \in Jobs, NEW t \in Tables, Read(j, t)
      PROVE  Txn!TxNext
    <2>1. /\ committed' = committed
          /\ seen' = [seen EXCEPT ![j] = seen[j] \cup {<<t, file[t]>>}]
          /\ pc[j] = "begun" /\ lock[j] # "none"
        BY <1>1 DEF Read, disk
    <2>2. file[t] = committed[t]
        BY <2>1, ReaderSeesCommits
    <2>3. Txn!Look(j, t)
        BY <2>1, <2>2 DEF Txn!Look
    <2>4. QED
        BY <2>3 DEF Txn!TxNext
<1>2. ASSUME NEW j \in Jobs, Truncate(j)
      PROVE  Txn!TxNext
    BY <1>2, CommitsAsWhole DEF Txn!TxNext
<1>3. ASSUME NEW j \in Jobs, Finish(j) \/ GiveUp(j)
      PROVE  Txn!TxNext
    <2>1. committed' = committed /\ seen' = [seen EXCEPT ![j] = {}]
        BY <1>3 DEF Finish, GiveUp, Leave, disk
    <2>2. seen' = [k \in Jobs |-> IF k \in {j} THEN {} ELSE seen[k]]
        BY <1>0, <2>1
    <2>3. Txn!End({j})
        BY <2>1, <2>2 DEF Txn!End
    <2>4. QED
        BY <2>3 DEF Txn!TxNext
<1>4. ASSUME NEW victims \in SUBSET Jobs, Die(victims)
      PROVE  Txn!TxNext
    <2>1. Txn!End(victims)
        BY <1>4 DEF Die, disk, Txn!End
    <2>2. QED
        BY <2>1 DEF Txn!TxNext
<1>5. ASSUME NEW j \in Jobs,
             \/ TakeConn(j) \/ TakeShared(j) \/ Reserve(j) \/ Pend(j) \/ Exclude(j) \/ Unlock(j)
             \/ LockMutex(j) \/ \E t \in Tables : Write(j, t) \/ Flush(j, t)
             \/ \E k \in Kinds : Accept(j, k)
      PROVE  UNCHANGED <<committed, seen>>
    BY <1>5 DEF TakeConn, TakeShared, Reserve, Pend, Exclude, Unlock, LockMutex, Write, Flush,
                Accept, jobs, disk
<1>6. CASE Boot \/ UNCHANGED vars
    BY <1>6 DEF Boot, vars, jobs, disk
<1>7. QED
    BY <1>1, <1>2, <1>3, <1>4, <1>5, <1>6 DEF Next, ServerNext, Run, Crash, CrashSeed

\* open.go, WithTx, "runs fn inside a transaction under WriteMu": whatever a transaction
\* of the store, a batch, a direct codex write or the seed does, it takes effect as a
\* whole or not at all, when all that it read is still so and nobody else is reading.
\* MatchStore, Codex and Analytics take a transaction as one step because of this.
THEOREM LocksImplementTransactions ==
    ASSUME MutexOrLocks
    PROVE  Spec => ImplementsTransactions
<1>1. Init => IInv /\ PagesAhead
    BY InitIInv DEF Init, PagesAhead
<1>2. IInv /\ PagesAhead /\ [Next]_vars => IInv' /\ PagesAhead'
    BY StepNext, PagesNext
<1>3. Init => Txn!TxInit
    BY DEF Init, Txn!TxInit
<1>4. IInv /\ PagesAhead /\ [Next]_vars => [Txn!TxNext]_<<committed, seen>>
    BY TransactionsStep
<1>5. QED
    BY <1>1, <1>2, <1>3, <1>4, PTL DEF Spec, ImplementsTransactions, Txn!TxSpec

-----------------------------------------------------------------------------
(* What WriteMu alone promises, whatever the libraries see of each other   *)
(* and whichever writes go around it.                                      *)

\* A place in a transaction is the place of a job.
Engaged == \A j \in Jobs : kind[j] = "none" => pc[j] = "idle"

\* A direct write starts with its write.
DirectWrites == \A j \in Jobs : kind[j] = "direct" => lock[j] # "shared"

MInv ==
    /\ TypeOK
    /\ Engaged
    /\ MutexHeld
    /\ LocksMatch
    /\ DirectWrites

LEMMA EngagedNext ==
    ASSUME TypeOK, Engaged, WriteLockAssumption, [Next]_vars
    PROVE  Engaged'
<1>0. pc \in [Jobs -> {"idle", "lock", "conn", "begun", "commit", "flush", "unlock"}]
      /\ kind \in [Jobs -> {"none", "tx", "direct", "read", "batch", "seed"}]
    BY DEF TypeOK
<1>1. ASSUME NEW j \in Jobs,
             \/ TakeConn(j) \/ TakeShared(j) \/ Reserve(j) \/ Pend(j) \/ Exclude(j)
             \/ LockMutex(j) \/ \E t \in Tables : Read(j, t) \/ Write(j, t) \/ Flush(j, t)
      PROVE  Engaged'
    <2>1. kind' = kind /\ pc[j] # "idle"
        BY <1>1 DEF TakeConn, TakeShared, Reserve, Pend, Exclude, LockMutex, Read, Write, Flush, jobs
    <2>2. \A k \in Jobs \ {j} : pc'[k] = pc[k]
        BY <1>0, <1>1 DEF TakeConn, TakeShared, Reserve, Pend, Exclude, LockMutex, Read, Write,
                          Flush, jobs, Goto
    <2>3. kind[j] # "none"
        BY <2>1 DEF Engaged
    <2>4. QED
        BY <2>1, <2>2, <2>3 DEF Engaged
<1>2. ASSUME NEW j \in Jobs, Truncate(j) \/ Finish(j) \/ GiveUp(j) \/ Unlock(j)
      PROVE  Engaged'
    <2>1. \A k \in Jobs \ {j} : pc'[k] = pc[k] /\ kind'[k] = kind[k]
        BY <1>0, <1>2 DEF Truncate, Finish, GiveUp, Unlock, Leave, Goto
    <2>2. kind'[j] = "none" => pc'[j] = "idle"
        BY <1>0, <1>2 DEF Truncate, Finish, GiveUp, Unlock, Leave, Goto, UnderMutex
    <2>3. QED
        BY <2>1, <2>2 DEF Engaged
<1>3. ASSUME NEW j \in Jobs, NEW k \in Kinds, Accept(j, k)
      PROVE  Engaged'
    BY <1>0, <1>3, WriteLockAssumption DEF Accept, Engaged, Goto
<1>4. ASSUME NEW victims \in SUBSET Jobs, Die(victims)
      PROVE  Engaged'
    BY <1>4 DEF Die, Engaged
<1>5. CASE Boot \/ UNCHANGED vars
    BY <1>5 DEF Boot, vars, jobs, Engaged
<1>6. QED
    BY <1>1, <1>2, <1>3, <1>4, <1>5 DEF Next, ServerNext, Run, Crash, CrashSeed

LEMMA MutexRun ==
    ASSUME MInv, NEW j \in Jobs, Run(j)
    PROVE  MutexHeld' /\ LocksMatch' /\ DirectWrites'
<1> USE DEF MInv, TypeOK, MutexHeld, LocksMatch, DirectWrites, InTransaction, Goto, Writing
<1>1. CASE TakeConn(j)
    BY <1>1 DEF TakeConn
<1>2. CASE TakeShared(j)
    <2>1. /\ lock' = [lock EXCEPT ![j] = "shared"] /\ pc[j] = "begun" /\ kind[j] # "direct"
          /\ UNCHANGED <<process, pc, kind, seen>>
        BY <1>2 DEF TakeShared
    <2>2. QED
        BY <2>1 DEF process
<1>3. ASSUME NEW t \in Tables, Read(j, t)
      PROVE  MutexHeld' /\ LocksMatch' /\ DirectWrites'
    <2>1. /\ seen' = [seen EXCEPT ![j] = seen[j] \cup {<<t, file[t]>>}] /\ lock[j] # "none"
          /\ UNCHANGED <<process, pc, kind, lock>>
        BY <1>3 DEF Read
    <2>2. QED
        BY <2>1 DEF process
<1>4. CASE Reserve(j)
    <2>1. /\ lock' = [lock EXCEPT ![j] = "reserved"] /\ pc[j] = "begun"
          /\ kind[j] \in {"tx", "direct", "seed"}
          /\ kind[j] = "seed" => <<MatchTable, 0>> \in seen[j]
          /\ UNCHANGED <<process, pc, kind, seen>>
        BY <1>4 DEF Reserve
    <2>2. QED
        BY <2>1 DEF process
<1>5. ASSUME NEW t \in Tables, Write(j, t) \/ Flush(j, t)
      PROVE  MutexHeld' /\ LocksMatch' /\ DirectWrites'
    BY <1>5 DEF Write, Flush, process, jobs
<1>6. CASE Pend(j)
    BY <1>6 DEF Pend, process
<1>7. CASE Exclude(j)
    BY <1>7 DEF Exclude, process
<1>8. CASE Truncate(j) \/ Finish(j) \/ GiveUp(j)
    <2>1. /\ lock' = [lock EXCEPT ![j] = "none"]
          /\ seen' = [seen EXCEPT ![j] = {}]
          /\ pc' = [pc EXCEPT ![j] = IF kind[j] \in UnderMutex THEN "unlock" ELSE "idle"]
          /\ kind' = [kind EXCEPT ![j] = IF kind[j] \in UnderMutex THEN kind[j] ELSE "none"]
          /\ pc[j] \in InTransaction /\ mu' = mu
        BY <1>8 DEF Truncate, Finish, GiveUp, Leave
    <2>2. QED
        BY <2>1 DEF UnderMutex
<1>9. CASE Unlock(j)
    BY <1>9 DEF Unlock
<1>10. QED
    BY <1>1, <1>2, <1>3, <1>4, <1>5, <1>6, <1>7, <1>8, <1>9 DEF Run

LEMMA MutexNext ==
    ASSUME MInv, [Next]_vars
    PROVE  MInv'
<1>1. TypeOK' /\ Engaged'
    BY TypeNext, EngagedNext, WriteLockAssumption DEF MInv
<1>2. ASSUME NEW j \in Jobs, LockMutex(j)
      PROVE  MutexHeld' /\ LocksMatch' /\ DirectWrites'
    BY <1>2, WriteLockAssumption DEF MInv, TypeOK, MutexHeld, LocksMatch, DirectWrites,
        InTransaction, LockMutex, Goto, Writing
<1>3. ASSUME NEW j \in Jobs, NEW k \in Kinds, Accept(j, k)
      PROVE  MutexHeld' /\ LocksMatch' /\ DirectWrites'
    BY <1>3 DEF MInv, TypeOK, MutexHeld, LocksMatch, DirectWrites, InTransaction, Accept, Goto,
        UnderMutex, process, Writing
<1>4. ASSUME NEW victims \in SUBSET Jobs, Die(victims),
             mu' = mu \/ \A j \in Jobs : kind[j] # "seed" => j \in victims
      PROVE  MutexHeld' /\ LocksMatch' /\ DirectWrites'
    <2>1. /\ pc' = [j \in Jobs |-> IF j \in victims THEN "idle" ELSE pc[j]]
          /\ kind' = [j \in Jobs |-> IF j \in victims THEN "none" ELSE kind[j]]
          /\ lock' = [j \in Jobs |-> IF j \in victims THEN "none" ELSE lock[j]]
          /\ seen' = [j \in Jobs |-> IF j \in victims THEN {} ELSE seen[j]]
        BY <1>4 DEF Die
    <2>2. MutexHeld' /\ DirectWrites'
        BY <1>4, <2>1 DEF MInv, MutexHeld, DirectWrites, UnderMutex, InTransaction
    <2>3. LocksMatch'
        BY <2>1 DEF MInv, LocksMatch, Writing
    <2>4. QED
        BY <2>2, <2>3
<1>5. ASSUME Boot \/ UNCHANGED vars
      PROVE  MutexHeld' /\ LocksMatch' /\ DirectWrites'
    BY <1>5 DEF MInv, MutexHeld, LocksMatch, DirectWrites, Boot, vars, process, jobs
<1>6. ASSUME NEW j \in Jobs, CrashSeed(j)
      PROVE  MutexHeld' /\ LocksMatch' /\ DirectWrites'
    BY <1>4, <1>6 DEF CrashSeed, process
<1>7. ASSUME Crash
      PROVE  MutexHeld' /\ LocksMatch' /\ DirectWrites'
    BY <1>4, <1>7 DEF Crash
<1>8. MutexHeld' /\ LocksMatch' /\ DirectWrites'
    BY <1>2, <1>3, <1>5, <1>6, <1>7, MutexRun DEF Next, ServerNext
<1>9. QED
    BY <1>1, <1>8 DEF MInv

LEMMA InitMInv ==
    ASSUME Init
    PROVE  MInv
<1>1. TypeOK
    BY TypeInit
<1>2. QED
    BY <1>1 DEF Init, MInv, Engaged, MutexHeld, LocksMatch, DirectWrites, UnderMutex, Writing

\* A WithTx that writes holds WriteMu, so beside it no other transaction of the server has
\* read and will want to write: what its commit waits for ends without it.
THEOREM NoUpgradeDeadlock == Spec => []UpgradesAlone
<1>1. Init => MInv
    BY InitMInv
<1>2. MInv /\ [Next]_vars => MInv'
    BY MutexNext
<1>3. ASSUME MInv
      PROVE  UpgradesAlone
    <2> SUFFICES ASSUME NEW j \in Jobs, NEW k \in Jobs, kind[j] = "tx", lock[j] \in Writing,
                        lock[k] = "shared"
                 PROVE  kind[k] \in {"read", "batch", "seed"}
        BY DEF UpgradesAlone
    <2>1. j # k
        BY DEF Writing
    <2>2. pc[j] \in InTransaction /\ pc[k] \in InTransaction
        BY <1>3 DEF MInv, TypeOK, InTransaction, Writing
    <2>3. kind[k] # "tx"
        BY <1>3, <2>1, <2>2 DEF MInv, MutexHeld, UnderMutex
    <2>4. kind[k] # "none" /\ kind[k] # "direct"
        BY <1>3, <2>2 DEF MInv, Engaged, DirectWrites, InTransaction
    <2>5. QED
        BY <1>3, <2>3, <2>4 DEF MInv, TypeOK
<1>4. QED
    BY <1>1, <1>2, <1>3, PTL DEF Spec

\* engine.go:22 as far as the code keeps it: whatever runs beside a batch, what commits
\* between its Lock and its Unlock went around WriteMu, as a codex write or as another
\* process; never a WithTx.
THEOREM BatchesOvertaken == Spec => OnlyBypassesOvertake
<1>1. Init => MInv
    BY InitMInv
<1>2. MInv /\ [Next]_vars => MInv'
    BY MutexNext
<1>3. ASSUME MInv, [Next]_vars, committed' # committed,
             NEW j \in Jobs, kind[j] = "batch", mu = j
      PROVE  \E k \in Jobs : kind[k] \in {"direct", "seed"} /\ pc[k] = "flush"
    <2>1. PICK k \in Jobs : Truncate(k)
        <3>1. ASSUME NEW k \in Jobs, Run(k), ~Truncate(k)
              PROVE  committed' = committed
            BY <3>1 DEF Run, TakeConn, TakeShared, Reserve, Read, Write, Flush, Pend, Exclude,
                        Finish, GiveUp, Unlock, disk
        <3>2. ASSUME NEW k \in Jobs, LockMutex(k) \/ CrashSeed(k) \/ \E kk \in Kinds : Accept(k, kk)
              PROVE  committed' = committed
            BY <3>2 DEF LockMutex, CrashSeed, Die, Accept, disk
        <3>3. CASE Crash \/ Boot \/ UNCHANGED vars
            BY <1>3, <3>3 DEF Crash, Die, Boot, vars, disk
        <3>4. QED
            BY <1>3, <3>1, <3>2, <3>3 DEF Next, ServerNext
    <2>2. pc[k] = "flush" /\ lock[k] = "exclusive"
        BY <1>3, <2>1 DEF Truncate, MInv, LocksMatch
    <2>3. kind[k] \in {"tx", "direct", "seed"}
        BY <1>3, <2>2 DEF MInv, LocksMatch, Writing
    <2>4. kind[k] = "tx" => mu = k
        BY <1>3, <2>2 DEF MInv, MutexHeld, UnderMutex, InTransaction
    <2>5. QED
        BY <1>3, <2>2, <2>3, <2>4
<1>4. MInv /\ [Next]_vars =>
        [\A j \in Jobs :
            kind[j] = "batch" /\ mu = j /\ committed' # committed
                => \E k \in Jobs : kind[k] \in {"direct", "seed"} /\ pc[k] = "flush"]_vars
    BY <1>3
<1>5. QED
    BY <1>1, <1>2, <1>4, PTL DEF Spec, OnlyBypassesOvertake
=============================================================================
