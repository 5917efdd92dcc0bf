----------------------------- MODULE Lifecycle -----------------------------
(***************************************************************************)
(* One server process, from its command line to its exit: run and serve    *)
(* (src/src/runner.rs) race the server's own end against the stop signals  *)
(* of src/src/shutdown.rs, and the telemetry guard is dropped either way.  *)
(*                                                                         *)
(* The serve loop and the signals are polled in one task.  The connections *)
(* of unix and websocket are tasks of their own, and run until the process *)
(* has ended; the one of stdio is part of the serve loop.                  *)
(***************************************************************************)
EXTENDS Naturals, FiniteSets

CONSTANTS
  CommandLines,     \* the CommonServeArgs a server may be started with
  Allowed,          \* the transports its ServerConfig allows
  Clients,
  MaxRecords        \* bound: how many calls end in a behaviour

ASSUME LifecycleAssumption ==
  /\ CommandLines \subseteq [transport : {"stdio", "unix", "websocket"}, socketPath : BOOLEAN]
  /\ Allowed \subseteq {"stdio", "unix", "websocket"}
  /\ MaxRecords \in Nat

StopSignals == {"SIGTERM", "SIGINT"}

VARIABLES
  common,       \* the CommonServeArgs of this process
  phase,        \* what run is doing; see Phases
  handlers,     \* the signals whose handler is installed
  pending,      \* the signals that arrived since, and are remembered
  guard,        \* the telemetry guard: none, held, or dropped
  build,        \* the future `build`: idle, working, done or failed
  conn,         \* each client's connection: none, open, closed or broken
  busy,         \* the clients a tool is working for
  accepting,    \* FALSE once accept fails
  polled,       \* this poll of run has found the serve loop pending
  recorded,     \* ends of calls counted so far,
  buffered, exported, lost,     \* and where those counts are
  status        \* the exit status: none yet, 0, 1, 2 or killed

telemetry == <<recorded, buffered, exported, lost>>
signals == <<handlers, pending>>
served == <<build, conn, busy, accepting, polled>>
vars == <<common, phase, handlers, pending, guard, build, conn, busy, accepting, polled,
          recorded, buffered, exported, lost, status>>

\* The last three before "ended" are a stop, and run returning Ok or Err.
Phases == {"parsing", "telemetry", "SIGTERM", "SIGINT", "building", "serving",
           "stopping", "ok", "error", "ended"}

Running == status = "none"

Init ==
  /\ common \in CommandLines
  /\ phase = "parsing"
  /\ handlers = {} /\ pending = {}
  /\ guard = "none"
  /\ build = "idle"
  /\ conn = [c \in Clients |-> "none"]
  /\ busy = {}
  /\ accepting = TRUE /\ polled = FALSE
  /\ recorded = 0 /\ buffered = 0 /\ exported = 0 /\ lost = 0
  /\ status = "none"

End(code) == phase' = "ended" /\ status' = code

-----------------------------------------------------------------------------
(* Starting *)

\* clap ends the process itself for --help, --version and a bad argument.
Parse ==
  /\ phase = "parsing"
  /\ \/ phase' = "telemetry" /\ UNCHANGED status
     \/ \E code \in {"0", "2"} : End(code)
  /\ UNCHANGED <<common, signals, guard, served, telemetry>>

InitTelemetry ==
  /\ phase = "telemetry"
  /\ \/ phase' = "SIGTERM" /\ guard' = "held" /\ UNCHANGED status
     \/ End("1") /\ UNCHANGED guard
  /\ UNCHANGED <<common, signals, served, telemetry>>

\* Mutant of AfterInstall: SIGINT is forgotten.
AfterInstallOne(signal) == "building"

AfterInstall(signal) == IF signal = "SIGTERM" THEN "SIGINT" ELSE "building"

\* StopSignals::install: a handler that cannot be registered is an error of run.
Install(signal) ==
  /\ phase = signal
  /\ \/ /\ handlers' = handlers \cup {signal}
        /\ phase' = AfterInstall(signal)
        /\ build' = IF phase' = "building" THEN "working" ELSE build
     \/ phase' = "error" /\ UNCHANGED <<handlers, build>>
  /\ UNCHANGED <<common, pending, guard, conn, busy, accepting, polled, telemetry, status>>

-----------------------------------------------------------------------------
(* What the serve loop waits for *)

\* The service, or what serve does before it listens (the socket, the identity
\* provider), is ready or fails.
Built ==
  /\ build = "working" /\ phase = "building"
  /\ build' \in {"done", "failed"}
  /\ UNCHANGED <<common, phase, signals, guard, conn, busy, accepting, polled, telemetry, status>>

\* A connection is a task of its own, or, over stdio, part of the serve loop.
TaskLives(c) ==
  /\ Running
  /\ common.transport = "stdio" => phase = "serving"

\* It goes on, over stdio when the serve loop is polled.
TaskRuns(c) == TaskLives(c) /\ (common.transport = "stdio" => ~polled)

Connect(c) ==
  /\ phase = "serving" /\ common.transport # "stdio" /\ accepting /\ ~polled
  /\ conn[c] = "none"
  /\ conn' = [conn EXCEPT ![c] = "open"]
  /\ UNCHANGED <<common, phase, signals, guard, build, busy, accepting, polled, telemetry, status>>

\* The client ends the session, or breaks its framing or its end of the stream.
Leave(c) ==
  /\ TaskLives(c) /\ conn[c] = "open"
  /\ \E how \in {"closed", "broken"} : conn' = [conn EXCEPT ![c] = how]
  /\ UNCHANGED <<common, phase, signals, guard, build, busy, accepting, polled, telemetry, status>>

\* The client's next tool call starts.
Call(c) ==
  /\ TaskRuns(c) /\ conn[c] = "open" /\ c \notin busy /\ recorded < MaxRecords
  /\ busy' = busy \cup {c}
  /\ UNCHANGED <<common, phase, signals, guard, build, conn, accepting, polled, telemetry, status>>

\* It ends, if it ever does, and is counted; once the guard is gone, in vain.
CallEnds(c) ==
  /\ TaskRuns(c) /\ c \in busy
  /\ busy' = busy \ {c}
  /\ recorded' = recorded + 1
  /\ IF guard = "held" THEN buffered' = buffered + 1 /\ UNCHANGED lost
                       ELSE lost' = lost + 1 /\ UNCHANGED buffered
  /\ UNCHANGED <<common, phase, signals, guard, build, conn, accepting, polled, exported, status>>

AcceptFails ==
  /\ phase = "serving" /\ common.transport = "unix" /\ accepting
  /\ accepting' = FALSE
  /\ UNCHANGED <<common, phase, signals, guard, build, conn, busy, polled, telemetry, status>>

\* A signal that no handler waits for kills.
Signal(s) ==
  /\ Running
  /\ IF s \in handlers
       THEN pending' = pending \cup {s} /\ UNCHANGED <<phase, status>>
       ELSE End("killed") /\ UNCHANGED pending
  /\ UNCHANGED <<common, handlers, guard, served, telemetry>>

-----------------------------------------------------------------------------
(* The select of run: in each poll a look at the serve loop, then one at the *)
(* signals, and what happens may happen in between                         *)

\* serve: the transport is one the server allows, and has what it needs.
Servable ==
  /\ common.transport \in Allowed
  /\ common.transport = "unix" => common.socketPath

\* Mutant of ServeLoop: the end of the stream is waited out.
ServeLoopWaitsOn ==
  IF common.transport = "stdio"
    THEN IF \E c \in Clients \ busy : conn[c] = "broken" THEN "error" ELSE "pending"
    ELSE IF accepting THEN "pending" ELSE "error"

\* What the accept loop or the pump of stdio has come to.
ServeLoop ==
  IF common.transport # "stdio"
    THEN IF accepting THEN "pending" ELSE "error"
  ELSE IF \E c \in Clients \ busy : conn[c] = "broken" THEN "error"
  ELSE IF \E c \in Clients \ busy : conn[c] = "closed" THEN "ok"
  ELSE "pending"

\* What a poll of the future `served` finds.
Result ==
  CASE phase = "building" /\ build = "failed" -> "error"
    [] phase = "building" /\ build = "done" -> IF Servable THEN "listen" ELSE "error"
    [] phase = "serving" -> ServeLoop
    [] OTHER -> "pending"

Listen ==
  /\ ~polled /\ Result = "listen"
  /\ phase' = "serving"
  /\ IF common.transport = "stdio"
       THEN \E c \in Clients : conn' = [conn EXCEPT ![c] = "open"]
       ELSE UNCHANGED conn
  /\ UNCHANGED <<common, signals, guard, build, busy, accepting, polled, telemetry, status>>

Return ==
  /\ ~polled /\ Result \in {"ok", "error"}
  /\ phase' = Result
  /\ UNCHANGED <<common, signals, guard, served, telemetry, status>>

\* The serve loop has nothing to say in this poll.
FindPending ==
  /\ phase \in {"building", "serving"} /\ ~polled /\ Result = "pending"
  /\ polled' = TRUE
  /\ UNCHANGED <<common, phase, signals, guard, build, conn, busy, accepting, telemetry, status>>

\* Mutants of MayStop: the two futures race, and connections are drained first.
MayStopUnbiased == pending # {} /\ (polled \/ Result # "listen")
MayStopDrained == pending # {} /\ polled /\ busy = {}

\* `biased`: the signals are looked at after the serve loop had nothing to say.
MayStop == pending # {} /\ polled

Stop ==
  /\ phase \in {"building", "serving"} /\ MayStop
  /\ phase' = "stopping" /\ polled' = FALSE
  /\ \E s \in pending : pending' = pending \ {s}
  /\ UNCHANGED <<common, handlers, guard, build, conn, busy, accepting, telemetry, status>>

\* Neither is ready: the poll is over.
Await ==
  /\ polled /\ ~MayStop
  /\ polled' = FALSE
  /\ UNCHANGED <<common, phase, signals, guard, build, conn, busy, accepting, telemetry, status>>

-----------------------------------------------------------------------------
(* Ending *)

Ending == phase \in {"stopping", "ok", "error"}

\* The guard drops, by hand or as run returns: what is buffered is exported.
Flush ==
  /\ Ending /\ guard = "held"
  /\ guard' = "dropped"
  /\ exported' = exported + buffered /\ buffered' = 0
  /\ UNCHANGED <<common, phase, signals, served, recorded, lost, status>>

\* Mutant of MayExit: the exit does not wait for the guard.
MayExitUnflushed == Ending

MayExit == Ending /\ guard = "dropped"

\* flush_and_exit, or main with what run returned.
Exit ==
  /\ MayExit
  /\ End(IF phase = "error" THEN "1" ELSE "0")
  /\ UNCHANGED <<common, signals, guard, served, telemetry>>

-----------------------------------------------------------------------------

Startup == Parse \/ InitTelemetry \/ \E s \in StopSignals : Install(s)

Poll == Listen \/ Return \/ FindPending \/ Stop \/ Await

Surroundings ==
  \/ Built \/ AcceptFails
  \/ \E s \in StopSignals : Signal(s)
  \/ \E c \in Clients : Connect(c) \/ Leave(c) \/ Call(c) \/ CallEnds(c)

Next == Startup \/ Poll \/ Flush \/ Exit \/ Surroundings

Spec == Init /\ [][Next]_vars

\* run is polled when it can go on, and the guard's drop ends (it has a budget of
\* five seconds).  Clients, tools, build and signals owe nothing.
FairSpec ==
  Spec /\ WF_vars(Startup) /\ WF_vars(Poll) /\ WF_vars(Flush) /\ WF_vars(Exit)
-----------------------------------------------------------------------------
(* What must hold *)

\* The type invariant.
TypeOK ==
  /\ common \in CommandLines
  /\ phase \in Phases
  /\ handlers \subseteq StopSignals /\ pending \subseteq handlers
  /\ guard \in {"none", "held", "dropped"}
  /\ build \in {"idle", "working", "done", "failed"}
  /\ conn \in [Clients -> {"none", "open", "closed", "broken"}]
  /\ busy \subseteq {c \in Clients : conn[c] # "none"}
  /\ accepting \in BOOLEAN /\ polled \in BOOLEAN
  /\ {recorded, buffered, exported, lost} \subseteq Nat
  /\ status \in {"none", "0", "1", "2", "killed"}
  /\ Running <=> phase # "ended"

Starting == phase \in {"parsing", "telemetry", "SIGTERM", "SIGINT"}

\* What run relies on, point by point: it builds with both handlers installed and
\* the guard in hand, and drops the guard before it ends.
Guarded ==
  /\ Starting => build = "idle"
  /\ phase \in {"SIGTERM", "SIGINT", "building", "serving"} => guard = "held"
  /\ Ending => guard # "none"
  /\ phase = "SIGINT" => "SIGTERM" \in handlers
  /\ build # "idle" => handlers = StopSignals
  /\ build # "idle" /\ ~Running => guard = "dropped" /\ status # "killed"

\* Every counted call is somewhere, and nothing stays in a dropped guard.
Accounted ==
  /\ recorded = buffered + exported + lost
  /\ guard = "dropped" => buffered = 0
  /\ common.transport = "stdio" => lost = 0

\* The inductive invariant.
IInv == TypeOK /\ Guarded /\ Accounted

\* "a signal that arrives while `build` is still working is remembered rather
\* than fatal" (runner.rs:413-414): a process that a stop signal killed had not
\* begun to build its service, so it never served anyone.
KilledOnlyBeforeBuild == status = "killed" => build = "idle"

\* "both ways out of run drop it" (runner.rs:407-410): a process that got as far
\* as a service ends with every counted call exported; only a call that ends
\* after the guard was dropped is lost, and over stdio there is none.
EveryEndExports ==
  ~Running /\ build # "idle" =>
    /\ recorded = exported + lost
    /\ common.transport = "stdio" => lost = 0

\* "a serve loop that ends in the same poll as a signal still reports its own
\* result" (runner.rs:424-426): once the serve loop has failed the process exits
\* with 1, whichever signals arrive before anyone looks.  A failure that comes when
\* a poll has looked at the serve loop already, and has yet to look at the
\* signals, may lose to one.
FailureIsReported == (Result = "error" /\ ~polled) ~> status = "1"

\* A stop signal that is remembered ends the process, whatever the build, the
\* clients and a tool call in flight do (shutdown.rs:65, cut, not drained).
SignalEndsProcess == pending # {} ~> ~Running

\* "Over stdio it closes the stream ... and the process exits normally" (README,
\* When the exporters flush), as soon as no call is in flight.  (It says the same of
\* unix and websocket, whose accept loops go on: runner.rs:171.)
ClientEndsStdio ==
  \A c \in Clients :
    (common.transport = "stdio" /\ conn[c] = "closed" /\ c \notin busy) ~> ~Running
=============================================================================
