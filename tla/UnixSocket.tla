----------------------------- MODULE UnixSocket -----------------------------
(***************************************************************************)
(* What servers make of the one path they were told to listen on:          *)
(* prepare_unix_socket_path, restrict_socket_perms and the start of        *)
(* serve_unix (src/src/runner.rs).  Every step is a system call of its     *)
(* own, so servers started together interleave, one that stops or crashes  *)
(* leaves its socket behind, and a stranger, another local user, may       *)
(* connect between any two of them.                                        *)
(***************************************************************************)
EXTENDS Naturals

CONSTANTS
  Servers,
  Users,        \* whom a server may be started as
  OpenUmask,    \* whether the umask leaves a new socket to other users
  FilesAppear,  \* whether somebody else may create a file at a free path
  MaxStarts     \* bound: how often each server is started

ASSUME SocketAssumption ==
  OpenUmask \in BOOLEAN /\ FilesAppear \in BOOLEAN /\ MaxStarts \in Nat

VARIABLES
  node,         \* what is at the path: nothing, a file, or the socket of a run
  private,      \* the nodes whose mode is 0600
  pc,           \* down, checking, unlinking, binding, restricting or accepting
  run, user,    \* which run of the server this is, and as whom
  failure,      \* why its last run failed to listen
  stranger      \* a stranger's connection to it: none, queued or served

server == <<run, user, failure, stranger>>
vars == <<node, private, pc, run, user, failure, stranger>>

Nothing == [kind |-> "none"]
File == [kind |-> "file"]
Socket(s) == [kind |-> "socket", of |-> s, run |-> run[s], owner |-> user[s]]

Init ==
  /\ node \in {Nothing, File}
  /\ private = {}
  /\ pc = [s \in Servers |-> "down"]
  /\ run = [s \in Servers |-> 0] /\ user \in [Servers -> Users]
  /\ failure = [s \in Servers |-> "none"]
  /\ stranger = [s \in Servers |-> "none"]

Goto(s, to) == pc' = [pc EXCEPT ![s] = to]

\* The listener is closed, and what it had accepted or queued with it.
Ends(s) == Goto(s, "down") /\ stranger' = [stranger EXCEPT ![s] = "none"]

\* An error ends serve_unix, and the server with it.
Fail(s, why) ==
  /\ Ends(s) /\ failure' = [failure EXCEPT ![s] = why]
  /\ UNCHANGED <<node, private, run, user>>

\* Whatever the system holds against a call, whoever's the node is: a directory
\* that is missing or may not be searched or written, a path that is too long.
Denied(s) == Fail(s, "denied")

\* Somebody else's node is there; the system may refuse to touch it.
NotOurs(s) == node # Nothing /\ (node.kind = "socket" => node.owner # user[s])

NotPermitted(s) == NotOurs(s) /\ Fail(s, "not permitted")

-----------------------------------------------------------------------------

Start(s) ==
  /\ pc[s] = "down" /\ run[s] < MaxStarts
  /\ run' = [run EXCEPT ![s] = @ + 1]
  /\ \E u \in Users : user' = [user EXCEPT ![s] = u]
  /\ failure' = [failure EXCEPT ![s] = "none"]
  /\ Goto(s, "checking")
  /\ UNCHANGED <<node, private, stranger>>

\* Mutants of Removable: whatever is there is taken for a leftover, and nothing is.
RemovableAnything == node # Nothing
RemovableNever == FALSE

\* is_socket
Removable == node.kind = "socket"

\* symlink_metadata
Check(s) ==
  /\ pc[s] = "checking"
  /\ \/ Removable /\ Goto(s, "unlinking") /\ UNCHANGED <<node, private, server>>
     \/ node = Nothing /\ Goto(s, "binding") /\ UNCHANGED <<node, private, server>>
     \/ ~Removable /\ node # Nothing /\ Fail(s, "not a socket")
     \/ Denied(s)

\* remove_file: whatever is there by now.
Unlink(s) ==
  /\ pc[s] = "unlinking"
  /\ \/ /\ node # Nothing
        /\ node' = Nothing /\ Goto(s, "binding")
        /\ UNCHANGED <<private, server>>
     \/ node = Nothing /\ Fail(s, "io")
     \/ NotPermitted(s)
     \/ Denied(s)

\* Mutant of AfterBind: the mode is left to the umask.
AfterBindOpen == "accepting"

AfterBind == "restricting"

\* UnixListener::bind; the socket listens from here on.
Bind(s) ==
  /\ pc[s] = "binding"
  /\ \/ /\ node = Nothing
        /\ node' = Socket(s) /\ Goto(s, AfterBind)
        /\ UNCHANGED <<private, server>>
     \/ node # Nothing /\ Fail(s, "io")
     \/ Denied(s)

\* set_permissions, by path: the node that is there by now.
Restrict(s) ==
  /\ pc[s] = "restricting"
  /\ \/ /\ node # Nothing
        /\ private' = private \cup {node} /\ Goto(s, "accepting")
        /\ UNCHANGED <<node, server>>
     \/ node = Nothing /\ Fail(s, "io")
     \/ NotPermitted(s)
     \/ Denied(s)

\* listener.accept: what was queued, whenever it came.
Accept(s) ==
  /\ pc[s] = "accepting" /\ stranger[s] = "queued"
  /\ stranger' = [stranger EXCEPT ![s] = "served"]
  /\ UNCHANGED <<node, private, pc, run, user, failure>>

\* Stopped or killed, at any point, or accept fails; the socket stays.
Down(s) ==
  /\ pc[s] # "down"
  /\ Ends(s)
  /\ UNCHANGED <<node, private, run, user, failure>>

Serve(s) == Check(s) \/ Unlink(s) \/ Bind(s) \/ Restrict(s) \/ Accept(s)

Listening(s) == pc[s] \in {"restricting", "accepting"}

\* A stranger connects: the path leads to the server's socket, its mode allows it.
Connect(s) ==
  /\ Listening(s) /\ node = Socket(s)
  /\ OpenUmask /\ node \notin private
  /\ stranger[s] = "none"
  /\ stranger' = [stranger EXCEPT ![s] = "queued"]
  /\ UNCHANGED <<node, private, pc, run, user, failure>>

FileAppears ==
  /\ FilesAppear /\ node = Nothing
  /\ node' = File
  /\ UNCHANGED <<private, pc, server>>

Next ==
  \/ FileAppears
  \/ \E s \in Servers : Start(s) \/ Serve(s) \/ Down(s) \/ Connect(s)

Spec == Init /\ [][Next]_vars
-----------------------------------------------------------------------------
(* What must hold *)

Sockets == [kind : {"socket"}, of : Servers, run : 0 .. MaxStarts, owner : Users]
Nodes == {Nothing, File} \cup Sockets

\* The type invariant.
TypeOK ==
  /\ node \in Nodes /\ private \subseteq Nodes
  /\ pc \in [Servers -> {"down", "checking", "unlinking", "binding", "restricting", "accepting"}]
  /\ run \in [Servers -> 0 .. MaxStarts] /\ user \in [Servers -> Users]
  /\ failure \in [Servers -> {"none", "not a socket", "io", "not permitted", "denied"}]
  /\ stranger \in [Servers -> {"none", "queued", "served"}]

\* "so other local users can't connect to a server that trusts local callers"
\* (runner.rs:150-151): no stranger is ever served.
StrangersKeptOut == \A s \in Servers : stranger[s] # "served"

\* What is left of it: the mode is set by path, maybe on another server's socket,
\* and yet nobody who comes once a server accepts gets in; a stranger served got
\* into its queue between its bind and its chmod.
LatecomersKeptOut ==
  [][\A s \in Servers :
       pc[s] = "accepting" /\ stranger[s] = "none" => stranger'[s] = "none"]_vars

\* At most one server has ever been told to listen here.
Alone == \A s, t \in Servers : run[s] > 0 /\ run[t] > 0 => s = t

\* "Refuse to delete a regular file" (runner.rs:128): what somebody keeps at the
\* path stays, however often a server is started on it, and whenever it came there.
KeepsFiles == [][(Alone /\ node = File) => node' = File]_vars

\* "only unlink a stale socket" (runner.rs:165; shutdown.rs:78): a server that
\* listens stays reachable until it goes down.
ListenersStayReachable ==
  \A s \in Servers : Listening(s) => node = Socket(s)

\* "serve_unix unlinks a stale socket when it next binds" (shutdown.rs:78): what
\* earlier runs of the same user left behind, wherever they were stopped, never
\* keeps a server from listening; a file does, or somebody else's socket, or a
\* system that would refuse it anyway.
LeftoversDoNoHarm ==
  Alone => \A s \in Servers : failure[s] \notin {"none", "denied"} => NotOurs(s)
=============================================================================
