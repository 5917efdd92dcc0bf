---------------------------- MODULE MCLifecycle ----------------------------
(* Instances of Lifecycle for TLC. *)
EXTENDS Lifecycle

\* A server that serves stdio and unix, started every way there is.
MCEveryWay == [transport : {"stdio", "unix", "websocket"}, socketPath : BOOLEAN]
=============================================================================
