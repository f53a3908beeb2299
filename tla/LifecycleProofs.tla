---------------------------- MODULE LifecycleProofs ----------------------------
(***************************************************************************)
(* Theorems about Lifecycle, for any number of requests.  What is proved   *)
(* of WriteLock holds of a server that starts, drains, closes and dies;    *)
(* the deferred closes run in their order; and when the databases close    *)
(* after a drain that was not given up, nobody uses them.                  *)
(***************************************************************************)
EXTENDS Lifecycle, WriteLockProofs, SequenceTheorems

-----------------------------------------------------------------------------
(* The transactions of the process are transactions of WriteLock.          *)

LEMMA LifeStep ==
    ASSUME [LifeNext]_lifeVars
    PROVE  [Next]_vars
<1>1. ASSUME NEW j \in Jobs, Arrive(j) \/ Answer(j)
      PROVE  UNCHANGED vars
    BY <1>1 DEF Arrive, Answer
<1>2. ASSUME NEW j \in Jobs, Proceed(j)
      PROVE  Next
    BY <1>2 DEF Proceed, Next, ServerNext
<1>3. ASSUME NEW j \in Jobs, NEW k \in Kinds, Begin(j, k)
      PROVE  Next
    BY <1>3 DEF Begin, Next, ServerNext
<1>4. ASSUME NEW j \in Jobs, CrashSeed(j)
      PROVE  Next
    BY <1>4 DEF Next, ServerNext
<1>5. CASE Listen \/ OpenStoreFails \/ AttachEngine \/ AttachFails
    BY <1>5 DEF Listen, OpenStoreFails, AttachEngine, AttachFails
<1>6. CASE Drain \/ Drained \/ GiveUpDrain \/ RunDeferred
    BY <1>6 DEF Drain, Drained, GiveUpDrain, RunDeferred
<1>7. CASE OpenStore \/ Exit
    BY <1>7 DEF OpenStore, Exit, Next, ServerNext
<1>8. CASE UNCHANGED lifeVars
    BY <1>8 DEF lifeVars
<1>9. QED
    BY <1>1, <1>2, <1>3, <1>4, <1>5, <1>6, <1>7, <1>8 DEF LifeNext

\* What is proved of every behaviour of WriteLock is proved of the process.
LEMMA LifeLocks == LifeSpec => Spec
<1>1. LifeInit => Init
    BY DEF LifeInit
<1>2. [LifeNext]_lifeVars => [Next]_vars
    BY LifeStep
<1>3. QED
    BY <1>1, <1>2, PTL DEF LifeSpec, Spec

\* A server that is stopped in the middle, or closes its databases under its requests,
\* still leaves a file that the next start can restore.
THEOREM LifeRestorable ==
    ASSUME MutexOrLocks
    PROVE  LifeSpec => []FileRestorable
BY LifeLocks, FileAlwaysRestorable

\* What a request or a batch reads stays committed through the drain and the closes.
THEOREM LifeReadsCommitted ==
    ASSUME MutexOrLocks
    PROVE  LifeSpec => []ReadsCommitted
BY LifeLocks, ReadsStayCommitted

\* A server that starts, drains, abandons its drain or is killed never splits a transaction:
\* each takes effect as a whole and on what it read, or not at all.
THEOREM LifeImplementsTransactions ==
    ASSUME MutexOrLocks
    PROVE  LifeSpec => ImplementsTransactions
BY LifeLocks, LocksImplementTransactions

\* open.go:53, whatever else runs: beside a WithTx that writes, no other transaction of the
\* server has read and will want to write, while the server starts, drains or closes.
THEOREM LifeNoUpgradeDeadlock == LifeSpec => []UpgradesAlone
BY LifeLocks, NoUpgradeDeadlock

\* Nor does a WithTx commit between the Lock and the Unlock of a batch, not even one that
\* a given up drain left behind (engine.go:22).
THEOREM LifeBatchesOvertaken == LifeSpec => OnlyBypassesOvertake
BY LifeLocks, BatchesOvertaken

\* seed.Load finds the tables as empty at its commit as its guard saw them (seed.go:28),
\* while the server starts, serves, drains or closes beside it.
THEOREM LifeSeedsApart ==
    ASSUME MutexOrLocks
    PROVE  LifeSpec => SeedOnlyEmpty
BY LifeLocks, SeedJoinsNoHistory

\* No request, batch or close leaves a lock on the file behind a job that ended.
THEOREM LifeLocksTyped == LifeSpec => []TypeOK
BY LifeLocks, LocksTyped

-----------------------------------------------------------------------------
(* The inductive invariant of QuietClose.                                  *)

\* A job has a kind while it runs; who waits for the DuckDB connection is a batch.
JobsFit ==
    \A j \in Jobs :
        /\ pc[j] = "idle" => kind[j] = "none"
        /\ pc[j] \in {"lock", "conn", "unlock"} => kind[j] \in UnderMutex
        /\ pc[j] = "conn" => kind[j] = "batch"

\* WriteMu and the DuckDB connection belong to transactions of the server.
MutexOwned == mu # Nobody => kind[mu] \in UnderMutex
DuckOwned ==
    duck # Nobody => kind[duck] = "batch" /\ pc[duck] \in {"begun", "commit", "flush"}

\* A transaction of the server runs inside a request.
InRequest == ServerJobs \subseteq busy

\* Requests are there while the server serves or drains, or after a drain that was given up.
PhaseFits ==
    /\ phase \in {"store", "serving", "draining"} => up
    /\ ~up => busy = {}
    /\ phase \in {"down", "bound", "store"} => busy = {} /\ ~undrained
    /\ phase = "returning" /\ ~undrained => busy = {}

\* How far serve has come tells which handles are open and which closes are deferred;
\* Shutdown or Serve itself has closed the listener where its deferred close will be a no-op.
HandlesFit ==
    \/ phase = "down" /\ open = {} /\ deferred = <<>>
    \/ phase = "bound" /\ open = {"listener"} /\ deferred = <<"listener">>
    \/ phase = "store" /\ open = {"listener", "store"} /\ deferred = <<"store", "listener">>
    \/ phase = "serving" /\ open = Handles /\ deferred = <<"engine", "store", "listener">>
    \/ /\ phase \in {"draining", "returning"}
       /\ open = {"store", "engine"}
       /\ deferred = <<"engine", "store", "listener">>
    \/ /\ phase = "returning"
       /\ open \in {{"store"}, {"listener", "store"}}
       /\ deferred = <<"store", "listener">>
    \/ phase = "returning" /\ open \in {{}, {"listener"}} /\ deferred = <<"listener">>
    \/ phase = "returning" /\ open = {} /\ deferred = <<>>

QInv ==
    /\ TypeOK
    /\ JobsFit
    /\ MutexOwned
    /\ DuckOwned
    /\ InRequest
    /\ PhaseFits

\* What a step of the lock protocol does to the jobs, whoever takes it.
JobsInv == TypeOK /\ JobsFit /\ MutexOwned /\ DuckOwned

LEMMA JobsRun ==
    ASSUME JobsInv, NEW j \in Jobs, Run(j)
    PROVE  /\ JobsInv'
           /\ \A i \in Jobs : kind'[i] \in {kind[i], "none"}
<1>1. TypeOK'
    BY TypeRun DEF JobsInv
<1> USE DEF JobsInv, TypeOK, JobsFit, MutexOwned, DuckOwned, UnderMutex, Goto
<1>2. CASE TakeConn(j)
    BY <1>1, <1>2 DEF TakeConn
<1>3. ASSUME NEW t \in Tables, Read(j, t) \/ Write(j, t) \/ Flush(j, t)
      PROVE  UNCHANGED <<mu, duck, pc, kind>>
    BY <1>3 DEF Read, Write, Flush, process, jobs
<1>4. ASSUME TakeShared(j) \/ Reserve(j)
      PROVE  UNCHANGED <<mu, duck, pc, kind>>
    BY <1>4 DEF TakeShared, Reserve, process
<1>5. CASE UNCHANGED <<mu, duck, pc, kind>>
    BY <1>1, <1>5
<1>6. CASE Pend(j)
    BY <1>1, <1>6 DEF Pend, process
<1>7. CASE Exclude(j)
    BY <1>1, <1>7 DEF Exclude, process
<1>8. ASSUME Leave(j), pc[j] # "idle"
      PROVE  /\ JobsInv'
             /\ \A i \in Jobs : kind'[i] \in {kind[i], "none"}
    <2>1. /\ pc' = [pc EXCEPT ![j] = IF kind[j] \in UnderMutex THEN "unlock" ELSE "idle"]
          /\ kind' = [kind EXCEPT ![j] = IF kind[j] \in UnderMutex THEN kind[j] ELSE "none"]
          /\ duck' = IF duck = j THEN Nobody ELSE duck
          /\ mu' = mu
        BY <1>8 DEF Leave
    <2>2. JobsFit'
        BY <2>1
    <2>3. MutexOwned'
        BY <2>1
    <2>4. DuckOwned'
        BY <2>1
    <2>5. QED
        BY <1>1, <2>1, <2>2, <2>3, <2>4
<1>9. CASE Truncate(j) \/ Finish(j) \/ GiveUp(j)
    BY <1>8, <1>9 DEF Truncate, Finish, GiveUp
<1>10. CASE Unlock(j)
    BY <1>1, <1>10 DEF Unlock
<1>11. QED
    BY <1>2, <1>3, <1>4, <1>5, <1>6, <1>7, <1>9, <1>10 DEF Run

LEMMA JobsBegin ==
    ASSUME JobsInv, NEW j \in Jobs, NEW k \in Kinds, Accept(j, k)
    PROVE  JobsInv'
<1>1. TypeOK'
    BY TypeNext DEF JobsInv, Next, ServerNext
<1>2. QED
    BY <1>1, WriteLockAssumption
        DEF JobsInv, TypeOK, JobsFit, MutexOwned, DuckOwned, UnderMutex, Goto, Accept, process

LEMMA JobsLock ==
    ASSUME JobsInv, NEW j \in Jobs, LockMutex(j)
    PROVE  JobsInv' /\ kind' = kind
<1>1. TypeOK'
    BY TypeNext DEF JobsInv, Next, ServerNext
<1>2. QED
    BY <1>1, WriteLockAssumption
        DEF JobsInv, TypeOK, JobsFit, MutexOwned, DuckOwned, UnderMutex, Goto, LockMutex

LEMMA JobsDie ==
    ASSUME JobsInv, Crash \/ \E j \in Jobs : CrashSeed(j)
    PROVE  JobsInv' /\ \A i \in Jobs : kind'[i] \in {kind[i], "none"}
<1>1. TypeOK'
    BY TypeNext DEF JobsInv, Next, ServerNext
<1>2. CASE Crash
    BY <1>1, <1>2 DEF JobsInv, TypeOK, JobsFit, MutexOwned, DuckOwned, UnderMutex, Crash, Die
<1>3. ASSUME NEW j \in Jobs, CrashSeed(j)
      PROVE  JobsInv' /\ \A i \in Jobs : kind'[i] \in {kind[i], "none"}
    BY <1>1, <1>3
        DEF JobsInv, TypeOK, JobsFit, MutexOwned, DuckOwned, UnderMutex, CrashSeed, Die, process
<1>4. QED
    BY <1>2, <1>3

LEMMA JobsUnchanged ==
    ASSUME JobsInv, UNCHANGED vars
    PROVE  JobsInv' /\ kind' = kind
<1>1. TypeOK'
    BY TypeNext DEF JobsInv
<1>2. QED
    BY <1>1 DEF JobsInv, JobsFit, MutexOwned, DuckOwned, vars, process, jobs

-----------------------------------------------------------------------------
(* The steps of serve.                                                     *)

\* The server does not go down in a step of its requests.
LEMMA UpKept ==
    ASSUME NEW j \in Jobs,
           Proceed(j) \/ CrashSeed(j) \/ \E k \in Kinds : Begin(j, k)
    PROVE  up' = up
BY DEF Proceed, LockMutex, Run, TakeConn, TakeShared, Reserve, Read, Write, Flush, Pend, Exclude,
       Truncate, Finish, GiveUp, Leave, Unlock, CrashSeed, Begin, Accept, process

\* Transactions that go on or end bring no new ones.
LEMMA FewerServerJobs ==
    ASSUME InRequest, busy' = busy, \A i \in Jobs : kind'[i] \in {kind[i], "none"}
    PROVE  InRequest'
BY DEF InRequest, ServerJobs

LEMMA QuietRequest ==
    ASSUME QInv, NEW j \in Jobs,
           Arrive(j) \/ Answer(j) \/ Proceed(j) \/ \E k \in Kinds : Begin(j, k)
    PROVE  QInv'
<1>1. JobsInv
    BY DEF QInv, JobsInv
<1>2. CASE Arrive(j)
    <2>1. JobsInv' /\ kind' = kind
        BY <1>1, <1>2, JobsUnchanged DEF Arrive
    <2>2. InRequest' /\ PhaseFits'
        BY <1>2, <2>1 DEF QInv, InRequest, ServerJobs, PhaseFits, Arrive, vars, process
    <2>3. QED
        BY <2>1, <2>2 DEF QInv, JobsInv
<1>3. CASE Answer(j)
    <2>1. JobsInv' /\ kind' = kind
        BY <1>1, <1>3, JobsUnchanged DEF Answer
    <2>2. InRequest' /\ PhaseFits'
        BY <1>3, <2>1 DEF QInv, JobsFit, InRequest, ServerJobs, PhaseFits, Answer, vars, process
    <2>3. QED
        BY <2>1, <2>2 DEF QInv, JobsInv
<1>4. CASE Proceed(j)
    <2>1. JobsInv' /\ \A i \in Jobs : kind'[i] \in {kind[i], "none"}
        BY <1>1, <1>4, JobsRun, JobsLock DEF Proceed
    <2>2. UNCHANGED <<life, up>>
        BY <1>4, UpKept DEF Proceed
    <2>3. InRequest' /\ PhaseFits'
        BY <2>1, <2>2, FewerServerJobs DEF QInv, PhaseFits, life
    <2>4. QED
        BY <2>1, <2>3 DEF QInv, JobsInv
<1>5. ASSUME NEW k \in Kinds, Begin(j, k)
      PROVE  QInv'
    <2>1. JobsInv'
        BY <1>1, <1>5, JobsBegin DEF Begin
    <2>2. /\ kind' = [kind EXCEPT ![j] = k] /\ (k # "seed" <=> j \in busy)
          /\ UNCHANGED <<life, up>>
        BY <1>5, UpKept DEF Begin, Accept
    <2>3. InRequest' /\ PhaseFits'
        BY <2>2 DEF QInv, TypeOK, InRequest, ServerJobs, PhaseFits, life
    <2>4. QED
        BY <2>1, <2>3 DEF QInv, JobsInv
<1>6. QED
    BY <1>2, <1>3, <1>4, <1>5

LEMMA QuietServe ==
    ASSUME QInv, UNCHANGED vars,
           \/ Listen \/ OpenStoreFails \/ AttachEngine \/ AttachFails
           \/ Drain \/ Drained \/ GiveUpDrain \/ RunDeferred
    PROVE  QInv'
<1>1. JobsInv' /\ kind' = kind
    BY JobsUnchanged DEF QInv, JobsInv
<1>2. busy' = busy
    BY DEF Listen, OpenStoreFails, AttachEngine, AttachFails, Drain, Drained, GiveUpDrain,
           RunDeferred, Enter
<1>3. InRequest'
    BY <1>1, <1>2, FewerServerJobs DEF QInv
<1>4. PhaseFits'
    BY DEF QInv, PhaseFits, Listen, OpenStoreFails, AttachEngine, AttachFails, Drain,
           Drained, GiveUpDrain, RunDeferred, Enter, vars, process
<1>5. QED
    BY <1>1, <1>3, <1>4 DEF QInv, JobsInv

LEMMA QuietStep ==
    ASSUME QInv, [LifeNext]_lifeVars
    PROVE  QInv'
<1>1. JobsInv
    BY DEF QInv, JobsInv
<1>2. CASE OpenStore
    <2>1. TypeOK'
        BY <1>2, TypeNext DEF QInv, OpenStore, Next, ServerNext
    <2>2. /\ UNCHANGED <<mu, duck, pc, kind, busy, undrained>> /\ up'
          /\ phase = "bound" /\ phase' = "store"
        BY <1>2 DEF OpenStore, Boot, Enter, jobs
    <2>3. QED
        BY <2>1, <2>2 DEF QInv, JobsFit, MutexOwned, DuckOwned, InRequest, ServerJobs,
                          PhaseFits
<1>3. ASSUME NEW j \in Jobs, CrashSeed(j) /\ UNCHANGED life
      PROVE  QInv'
    <2>1. JobsInv' /\ \A i \in Jobs : kind'[i] \in {kind[i], "none"}
        BY <1>1, <1>3, JobsDie
    <2>2. InRequest' /\ PhaseFits'
        BY <1>3, <2>1, FewerServerJobs, UpKept DEF QInv, PhaseFits, life
    <2>3. QED
        BY <2>1, <2>2 DEF QInv, JobsInv
<1>4. CASE Exit
    <2>1. JobsInv'
        BY <1>1, <1>4, JobsDie, JobsUnchanged DEF Exit
    <2>2. ServerJobs' = {}
        <3>1. CASE up
            BY <1>4, <3>1 DEF Exit, Crash, Die, ServerJobs
        <3>2. ASSUME ~up
              PROVE  ServerJobs = {} /\ kind' = kind
            BY <1>1, <1>4, <3>2, JobsUnchanged DEF Exit, QInv, PhaseFits, InRequest
        <3>3. QED
            BY <3>1, <3>2 DEF ServerJobs
    <2>3. InRequest' /\ PhaseFits'
        BY <1>4, <2>2 DEF Exit, InRequest, PhaseFits
    <2>4. QED
        BY <2>1, <2>3 DEF QInv, JobsInv
<1>5. CASE UNCHANGED lifeVars
    <2>1. JobsInv' /\ kind' = kind
        BY <1>1, <1>5, JobsUnchanged DEF lifeVars
    <2>2. QED
        BY <1>5, <2>1 DEF QInv, JobsInv, InRequest, ServerJobs, PhaseFits, lifeVars, life, vars,
                          process
<1>6. CASE \/ Listen \/ OpenStoreFails \/ AttachEngine \/ AttachFails
           \/ Drain \/ Drained \/ GiveUpDrain \/ RunDeferred
    <2>1. UNCHANGED vars
        BY <1>6 DEF Listen, OpenStoreFails, AttachEngine, AttachFails, Drain, Drained,
                    GiveUpDrain, RunDeferred
    <2>2. QED
        BY <1>6, <2>1, QuietServe
<1>7. QED
    BY <1>2, <1>3, <1>4, <1>5, <1>6, QuietRequest DEF LifeNext

\* The close that is deferred last stands before those deferred earlier.
LEMMA DeferSecond ==
    ASSUME NEW x \in Handles, NEW y \in Handles
    PROVE  <<x>> \o <<y>> = <<x, y>>
<1> DEFINE s == <<x>> \o <<y>>
<1>1. <<x>> \in Seq(Handles) /\ <<y>> \in Seq(Handles) /\ <<x, y>> \in Seq(Handles)
    OBVIOUS
<1>2. s \in Seq(Handles) /\ Len(s) = Len(<<x>>) + Len(<<y>>)
    BY <1>1, ConcatProperties
<1>3. Len(<<x>>) = 1 /\ Len(<<y>>) = 1 /\ Len(<<x, y>>) = 2
    OBVIOUS
<1>4. \A i \in 1 .. 2 : s[i] = IF i <= 1 THEN <<x>>[i] ELSE <<y>>[i - 1]
    BY <1>1, <1>2, <1>3, ConcatProperties
<1>5. \A i \in 1 .. 2 : s[i] = <<x, y>>[i]
    BY <1>4
<1>6. Len(s) = Len(<<x, y>>) /\ Len(s) = 2
    BY <1>2, <1>3
<1>7. \A i \in 1 .. Len(s) : s[i] = <<x, y>>[i]
    BY <1>5, <1>6
<1> HIDE DEF s
<1>8. s = <<x, y>>
    BY <1>1, <1>2, <1>6, <1>7, SeqEqual, Zenon
<1>9. QED
    BY <1>8 DEF s

LEMMA DeferThird ==
    ASSUME NEW x \in Handles, NEW y \in Handles, NEW z \in Handles
    PROVE  <<x>> \o <<y, z>> = <<x, y, z>>
<1> DEFINE s == <<x>> \o <<y, z>>
<1>1. <<x>> \in Seq(Handles) /\ <<y, z>> \in Seq(Handles) /\ <<x, y, z>> \in Seq(Handles)
    OBVIOUS
<1>2. s \in Seq(Handles) /\ Len(s) = Len(<<x>>) + Len(<<y, z>>)
    BY <1>1, ConcatProperties
<1>3. Len(<<x>>) = 1 /\ Len(<<y, z>>) = 2 /\ Len(<<x, y, z>>) = 3
    OBVIOUS
<1>4. \A i \in 1 .. 3 : s[i] = IF i <= 1 THEN <<x>>[i] ELSE <<y, z>>[i - 1]
    BY <1>1, <1>2, <1>3, ConcatProperties
<1>5. \A i \in 1 .. 3 : s[i] = <<x, y, z>>[i]
    BY <1>4
<1>6. Len(s) = Len(<<x, y, z>>) /\ Len(s) = 3
    BY <1>2, <1>3
<1>7. \A i \in 1 .. Len(s) : s[i] = <<x, y, z>>[i]
    BY <1>5, <1>6
<1> HIDE DEF s
<1>8. s = <<x, y, z>>
    BY <1>1, <1>2, <1>6, <1>7, SeqEqual, Zenon
<1>9. QED
    BY <1>8 DEF s

LEMMA HandlesStep ==
    ASSUME HandlesFit, [LifeNext]_lifeVars
    PROVE  HandlesFit'
<1>1. CASE Listen
    BY <1>1 DEF Listen, Enter, Open, HandlesFit
<1>2. CASE OpenStore
    <2>1. deferred = <<"listener">> /\ open = {"listener"} /\ phase' = "store"
          /\ open' = open \cup {"store"} /\ deferred' = <<"store">> \o deferred
        BY <1>2 DEF OpenStore, Enter, Open, HandlesFit
    <2>2. <<"store">> \o <<"listener">> = <<"store", "listener">>
        BY DeferSecond DEF Handles
    <2>3. QED
        BY <2>1, <2>2 DEF HandlesFit
<1>3. CASE AttachEngine
    <2>1. deferred = <<"store", "listener">> /\ open = {"listener", "store"} /\ phase' = "serving"
          /\ open' = open \cup {"engine"} /\ deferred' = <<"engine">> \o deferred
        BY <1>3 DEF AttachEngine, Enter, Open, HandlesFit
    <2>2. <<"engine">> \o <<"store", "listener">> = <<"engine", "store", "listener">>
        BY DeferThird DEF Handles
    <2>3. open' = Handles
        BY <2>1 DEF Handles
    <2>4. QED
        BY <2>1, <2>2, <2>3 DEF HandlesFit
<1>4. CASE OpenStoreFails \/ AttachFails
    BY <1>4 DEF OpenStoreFails, AttachFails, Enter, handles, HandlesFit
<1>5. CASE Drain \/ GiveUpDrain
    BY <1>5 DEF Drain, GiveUpDrain, Enter, HandlesFit, Handles
<1>6. CASE Drained
    BY <1>6 DEF Drained, Enter, handles, HandlesFit
<1>7. CASE RunDeferred
    <2>0. /\ phase = "returning" /\ phase' = "returning" /\ deferred # <<>>
          /\ open' = open \ {Head(deferred)} /\ deferred' = Tail(deferred)
        BY <1>7 DEF RunDeferred
    <2>1. CASE deferred = <<"engine", "store", "listener">>
        <3>1. Head(deferred) = "engine" /\ Tail(deferred) = <<"store", "listener">>
            BY <2>1
        <3>2. open = {"store", "engine"}
            BY <2>0, <2>1 DEF HandlesFit
        <3>3. open' = {"store"}
            BY <2>0, <3>1, <3>2
        <3>4. QED
            BY <2>0, <3>1, <3>3 DEF HandlesFit
    <2>2. CASE deferred = <<"store", "listener">>
        <3>1. Head(deferred) = "store" /\ Tail(deferred) = <<"listener">>
            BY <2>2
        <3>2. open \in {{"store"}, {"listener", "store"}}
            BY <2>0, <2>2 DEF HandlesFit
        <3>3. open' \in {{}, {"listener"}}
            BY <2>0, <3>1, <3>2
        <3>4. QED
            BY <2>0, <3>1, <3>3 DEF HandlesFit
    <2>3. CASE deferred = <<"listener">>
        <3>1. Head(deferred) = "listener" /\ Tail(deferred) = <<>>
            BY <2>3
        <3>2. open' = {}
            BY <2>0, <2>3, <3>1 DEF HandlesFit
        <3>3. QED
            BY <2>0, <3>1, <3>2 DEF HandlesFit
    <2>4. QED
        BY <2>0, <2>1, <2>2, <2>3 DEF HandlesFit
<1>8. CASE Exit
    BY <1>8 DEF Exit, HandlesFit
<1>9. ASSUME UNCHANGED <<phase, open, deferred>>
      PROVE  HandlesFit'
    BY <1>9 DEF HandlesFit
<1>10. QED
    BY <1>1, <1>2, <1>3, <1>4, <1>5, <1>6, <1>7, <1>8, <1>9
        DEF LifeNext, Arrive, Answer, Proceed, Begin, lifeVars, life, handles

\* The order of the deferred closes (main.go:76-77), on every way out of serve: DuckDB
\* never outlives the sqlite pool, and no handle is open whose close is not still to run.
THEOREM ClosesInOrder == LifeSpec => []HandlesOrdered
<1>1. LifeInit => HandlesFit
    BY DEF LifeInit, HandlesFit
<1>2. HandlesFit /\ [LifeNext]_lifeVars => HandlesFit'
    BY HandlesStep
<1>3. ASSUME HandlesFit
      PROVE  HandlesOrdered
    <2>1. "engine" \in open => "store" \in open
        BY <1>3 DEF HandlesFit, Handles
    <2>2. ASSUME NEW h \in open
          PROVE  \E i \in DOMAIN deferred : deferred[i] = h
        <3>1. CASE deferred = <<"engine", "store", "listener">>
            BY <1>3, <2>2, <3>1 DEF HandlesFit, Handles
        <3>2. CASE deferred = <<"store", "listener">>
            BY <1>3, <2>2, <3>2 DEF HandlesFit
        <3>3. CASE deferred = <<"listener">> \/ deferred = <<>>
            BY <1>3, <2>2, <3>3 DEF HandlesFit
        <3>4. QED
            BY <1>3, <3>1, <3>2, <3>3 DEF HandlesFit
    <2>3. QED
        BY <2>1, <2>2 DEF HandlesOrdered
<1>4. QED
    BY <1>1, <1>2, <1>3, PTL DEF LifeSpec

\* The deferred closes of serve: unless the drain was given up, while DuckDB or sqlite is
\* closed no request is in flight, no transaction of the server is left and nobody holds
\* WriteMu or the DuckDB connection.
THEOREM ClosesAreQuiet == LifeSpec => []QuietClose
<1>1. LifeInit => QInv /\ HandlesFit
    <2>1. ASSUME LifeInit
          PROVE  QInv /\ HandlesFit
        <3>1. TypeOK
            BY <2>1, TypeInit DEF LifeInit
        <3>2. QED
            BY <2>1, <3>1 DEF LifeInit, Init, QInv, JobsFit, MutexOwned, DuckOwned, InRequest,
                              ServerJobs, PhaseFits, HandlesFit
    <2>2. QED
        BY <2>1
<1>2. QInv /\ HandlesFit /\ [LifeNext]_lifeVars => QInv' /\ HandlesFit'
    BY QuietStep, HandlesStep
<1>3. QInv /\ HandlesFit => QuietClose
    <2>1. ASSUME QInv, HandlesFit, ~({"store", "engine"} \subseteq open), ~undrained
          PROVE  busy = {} /\ ServerJobs = {} /\ mu = Nobody /\ duck = Nobody
        <3>1. phase \in {"down", "bound", "store", "returning"}
            BY <2>1 DEF HandlesFit, Handles
        <3>2. busy = {} /\ ServerJobs = {}
            BY <2>1, <3>1 DEF QInv, PhaseFits, InRequest
        <3>3. QED
            BY <2>1, <3>2 DEF QInv, TypeOK, MutexOwned, DuckOwned, ServerJobs, UnderMutex
    <2>2. QED
        BY <2>1 DEF QuietClose
<1>4. QED
    BY <1>1, <1>2, <1>3, PTL DEF LifeSpec
=============================================================================
