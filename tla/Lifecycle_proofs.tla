------------------------- MODULE Lifecycle_proofs -------------------------
(***************************************************************************)
(* Lifecycle, for every set of clients and every command line: what run    *)
(* sets up before it builds the service holds to the end of the process.   *)
(***************************************************************************)
EXTENDS Lifecycle, TLAPS

USE DEF StopSignals

\* The invariant says nothing of the steps that leave the variables alone.
LEMMA StutterKeepsIInv ==
  ASSUME IInv, UNCHANGED vars
  PROVE  IInv'
BY DEF IInv, TypeOK, Guarded, Accounted, vars, Phases, Running, Starting, Ending

\* It holds when the process starts.
LEMMA InitIInv == Init => IInv
<1>1. Init => accepting \in BOOLEAN /\ polled \in BOOLEAN
  BY DEF Init
<1>2. Init => TypeOK
  BY <1>1 DEF Init, TypeOK, Phases, Running
<1>3. Init => Guarded /\ Accounted
  BY DEF Init, Guarded, Accounted, Running, Starting, Ending
<1> QED BY <1>2, <1>3 DEF IInv

\* The steps of run before it builds the service.
LEMMA StartupKeepsIInv ==
  ASSUME IInv, Startup
  PROVE  IInv'
<1> USE DEF IInv, TypeOK, Guarded, Accounted, Phases, Running, Starting, Ending
<1>1. CASE Parse
  BY <1>1 DEF Parse, End, signals, served, telemetry
<1>2. CASE InitTelemetry
  BY <1>2 DEF InitTelemetry, End, signals, served, telemetry
<1>3. CASE \E s \in StopSignals : Install(s)
  <2>1. PICK s \in StopSignals : Install(s)
    BY <1>3
  <2>2. CASE s = "SIGTERM"
    BY <2>1, <2>2 DEF Install, AfterInstall, telemetry
  <2>3. CASE s = "SIGINT"
    BY <2>1, <2>3 DEF Install, AfterInstall, telemetry
  <2> QED BY <2>2, <2>3
<1> QED BY <1>1, <1>2, <1>3 DEF Startup

\* The select of run, and the two ways out of it.
LEMMA PollKeepsIInv ==
  ASSUME IInv, Poll
  PROVE  IInv'
<1> USE DEF IInv, TypeOK, Guarded, Accounted, Phases, Running, Starting, Ending
<1>1. CASE Listen
  <2>1. phase = "building" /\ phase' = "serving"
    BY <1>1 DEF Listen, Result, ServeLoop
  <2>2. conn' \in [Clients -> {"none", "open", "closed", "broken"}]
          /\ \A c \in Clients : conn[c] # "none" => conn'[c] # "none"
    BY <1>1 DEF Listen
  <2> QED BY <1>1, <2>1, <2>2 DEF Listen, signals, telemetry
<1>2. CASE Return
  <2>1. phase \in {"building", "serving"} /\ phase' \in {"ok", "error"}
    BY <1>2 DEF Return, Result
  <2> QED BY <1>2, <2>1 DEF Return, signals, served, telemetry
<1>3. CASE Stop
  BY <1>3 DEF Stop, MayStop, telemetry
<1>4. CASE FindPending \/ Await
  BY <1>4 DEF FindPending, Await, signals, telemetry
<1> QED BY <1>1, <1>2, <1>3, <1>4 DEF Poll

\* The guard's drop, and the exit after it.
LEMMA EndingKeepsIInv ==
  ASSUME IInv, Flush \/ Exit
  PROVE  IInv'
<1> USE DEF IInv, TypeOK, Guarded, Accounted, Phases, Running, Starting, Ending
<1>1. CASE Flush
  BY <1>1 DEF Flush, signals, served
<1>2. CASE Exit
  BY <1>2 DEF Exit, MayExit, End, signals, served, telemetry
<1> QED BY <1>1, <1>2

\* Clients, tools, the build and signals.
LEMMA SurroundingsKeepIInv ==
  ASSUME IInv, Surroundings
  PROVE  IInv'
<1> USE DEF IInv, TypeOK, Guarded, Accounted, Phases, Running, Starting, Ending
<1>1. CASE Built
  BY <1>1 DEF Built, signals, telemetry
<1>2. CASE AcceptFails
  BY <1>2 DEF AcceptFails, signals, telemetry
<1>3. ASSUME NEW s \in StopSignals, Signal(s)
      PROVE  IInv'
  BY <1>3 DEF Signal, End, served, telemetry
<1>4. ASSUME NEW c \in Clients, Connect(c) \/ Leave(c) \/ Call(c) \/ CallEnds(c)
      PROVE  IInv'
  <2>1. CASE Connect(c)
    BY <2>1 DEF Connect, signals, telemetry
  <2>2. CASE Leave(c)
    BY <2>2 DEF Leave, signals, telemetry
  <2>3. CASE Call(c)
    BY <2>3 DEF Call, signals, telemetry
  <2>4. CASE CallEnds(c)
    BY <2>4 DEF CallEnds, TaskRuns, TaskLives, signals
  <2> QED BY <1>4, <2>1, <2>2, <2>3, <2>4
<1> QED BY <1>1, <1>2, <1>3, <1>4 DEF Surroundings

\* What run relies on between its steps (runner.rs, run): both handlers and the
\* guard are in hand before the build, and every counted call is accounted for.
THEOREM LifecycleInvariant == Spec => []IInv
<1>1. IInv /\ [Next]_vars => IInv'
  BY StutterKeepsIInv, StartupKeepsIInv, PollKeepsIInv, EndingKeepsIInv,
     SurroundingsKeepIInv DEF Next
<1> QED BY InitIInv, <1>1, PTL DEF Spec

\* A stop signal kills only a process that has not begun to build its service
\* (StopSignals::install before the build, runner.rs:413-415).
THEOREM SignalsAreNotFatal == Spec => []KilledOnlyBeforeBuild
<1>1. IInv => KilledOnlyBeforeBuild
  BY DEF IInv, TypeOK, Guarded, Running, KilledOnlyBeforeBuild
<1> QED BY LifecycleInvariant, <1>1, PTL

\* Both ways out of run drop the guard, and every call counted before that is
\* exported (flush_and_exit, and the end of run).
THEOREM EndsExport == Spec => []EveryEndExports
<1>1. IInv => EveryEndExports
  BY DEF IInv, TypeOK, Guarded, Accounted, EveryEndExports
<1> QED BY LifecycleInvariant, <1>1, PTL
=============================================================================
