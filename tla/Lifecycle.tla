------------------------------- MODULE Lifecycle -------------------------------
(***************************************************************************)
(* The life of the server process (cmd/autochess/main.go) around the       *)
(* transactions of WriteLock: bind, open sqlite, attach DuckDB, serve,     *)
(* drain on a signal for ten seconds at most, return through the deferred  *)
(* closes, exit.  A job stands for the goroutine of one request: it may    *)
(* run several transactions between its arrival and its answer.            *)
(***************************************************************************)
EXTENDS WriteLock, Sequences

VARIABLES
    phase,      \* how far serve has come
    open,       \* the handles that are open
    deferred,   \* the handles serve has still to close, the last deferred first
    busy,       \* requests that arrived and were not answered
    undrained   \* serve went on to the deferred closes with requests in flight

handles == <<open, deferred>>
life == <<phase, handles, busy, undrained>>
lifeVars == <<vars, life>>

Handles == {"listener", "store", "engine"}

ServerJobs == {j \in Jobs : kind[j] \notin {"none", "seed"}}

LifeInit ==
    /\ Init
    /\ phase = "down"
    /\ open = {}
    /\ deferred = <<>>
    /\ busy = {}
    /\ undrained = FALSE

Enter(p) == phase' = p /\ UNCHANGED <<busy, undrained>>

\* Opens h and defers its close.
Open(h) ==
    /\ open' = open \cup {h}
    /\ deferred' = <<h>> \o deferred

-----------------------------------------------------------------------------
(* Start.                                                                  *)

\* The port is bound before an engine is touched; a failed Listen ends the process.
Listen == phase = "down" /\ Enter("bound") /\ Open("listener") /\ UNCHANGED vars

OpenStore == phase = "bound" /\ Boot /\ Enter("store") /\ Open("store")

\* MkdirAll or the migrations fail.
OpenStoreFails == phase = "bound" /\ Enter("returning") /\ UNCHANGED <<vars, handles>>

\* Faulty variant: the defer of eng.Close stands above the one of st.Close.
AttachEngineDeferredAbove ==
    /\ phase = "store"
    /\ Enter("serving")
    /\ open' = open \cup {"engine"}
    /\ deferred' = <<Head(deferred), "engine">> \o Tail(deferred)
    /\ UNCHANGED vars

AttachEngine == phase = "store" /\ Enter("serving") /\ Open("engine") /\ UNCHANGED vars

AttachFails == phase = "store" /\ Enter("returning") /\ UNCHANGED <<vars, handles>>

-----------------------------------------------------------------------------
(* Requests.                                                               *)

Arrive(j) ==
    /\ phase = "serving"
    /\ pc[j] = "idle"
    /\ busy' = busy \cup {j}
    /\ UNCHANGED <<vars, phase, handles, undrained>>

Answer(j) ==
    /\ j \in busy
    /\ pc[j] = "idle"
    /\ busy' = busy \ {j}
    /\ UNCHANGED <<vars, phase, handles, undrained>>

\* A transaction begins inside a request; another process seeds.
Begin(j, k) ==
    /\ k # "seed" <=> j \in busy
    /\ Accept(j, k)
    /\ UNCHANGED life

\* A closed pool hands out no connection: what comes too late ends in an error
\* (GiveUp); a transaction that has its connection goes on.  A transaction of the
\* store's pool has its connection with its first lock.
Proceed(j) ==
    /\ LockMutex(j) \/ Run(j)
    /\ duck' # duck /\ duck' = j => "engine" \in open
    /\ lock[j] = "none" /\ lock'[j] # "none" /\ kind[j] \notin {"batch", "seed"}
            => "store" \in open
    /\ UNCHANGED life

-----------------------------------------------------------------------------
(* Stop.                                                                   *)

\* The context is done: by a signal now, or by one that came while the engines opened.
\* Shutdown closes the listener, so no request arrives any more.
Drain ==
    /\ phase = "serving"
    /\ Enter("draining")
    /\ open' = open \ {"listener"}
    /\ UNCHANGED <<vars, deferred>>

\* Faulty variant, for the mutation runs: Shutdown waits for nobody.
DrainedAtOnce == phase = "draining" /\ Enter("returning") /\ UNCHANGED <<vars, handles>>

Drained ==
    /\ phase = "draining"
    /\ busy = {}
    /\ Enter("returning")
    /\ UNCHANGED <<vars, handles>>

\* Shutdown's ten seconds are over, or Serve returned an error of its own, which closes
\* the listener too: the deferred closes run under the requests in flight.
GiveUpDrain ==
    /\ phase \in {"serving", "draining"}
    /\ phase' = "returning"
    /\ undrained' = TRUE
    /\ open' = open \ {"listener"}
    /\ UNCHANGED <<vars, deferred, busy>>

\* The second close of the listener is a no-op.
RunDeferred ==
    /\ phase = "returning"
    /\ deferred # <<>>
    /\ open' = open \ {Head(deferred)}
    /\ deferred' = Tail(deferred)
    /\ UNCHANGED <<vars, phase, busy, undrained>>

\* The process ends after the last deferred close, or is killed before.
Exit ==
    /\ phase # "down"
    /\ IF up THEN Crash ELSE UNCHANGED vars
    /\ phase' = "down"
    /\ open' = {}
    /\ deferred' = <<>>
    /\ busy' = {}
    /\ undrained' = FALSE

LifeNext ==
    \/ Listen \/ OpenStore \/ OpenStoreFails \/ AttachEngine \/ AttachFails
    \/ \E j \in Jobs : Arrive(j) \/ Answer(j) \/ Proceed(j)
    \/ \E j \in Jobs, k \in Kinds : Begin(j, k)
    \/ \E j \in Jobs : CrashSeed(j) /\ UNCHANGED life
    \/ Drain \/ Drained \/ GiveUpDrain
    \/ RunDeferred \/ Exit

LifeSpec == LifeInit /\ [][LifeNext]_lifeVars

-----------------------------------------------------------------------------
(* Properties.                                                             *)

\* main.go:76-77, "drains http first": while DuckDB or sqlite is closed, unless the drain
\* was given up, no request is in flight, no transaction of the server is left and nobody
\* holds WriteMu or the DuckDB connection.
QuietClose ==
    ~({"store", "engine"} \subseteq open) /\ ~undrained =>
        /\ busy = {} /\ ServerJobs = {}
        /\ mu = Nobody
        /\ duck = Nobody

\* main.go:76-77, "then duckdb, then sqlite", whichever of its returns serve takes: DuckDB
\* never outlives the sqlite pool whose file it has attached, a handle that is open has
\* its close ahead of it, and a serve that has returned leaves no port and no engine open.
HandlesOrdered ==
    /\ "engine" \in open => "store" \in open
    /\ \A h \in open : \E i \in DOMAIN deferred : deferred[i] = h
=============================================================================
