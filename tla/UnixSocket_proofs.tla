------------------------- MODULE UnixSocket_proofs -------------------------
(***************************************************************************)
(* UnixSocket, for any number of servers started any number of times, as   *)
(* any user: the mode is set by path, and yet no stranger gets in once a   *)
(* server accepts; and a server that has the path to itself removes no     *)
(* file and gets past whatever its own user's runs left there.             *)
(***************************************************************************)
EXTENDS UnixSocket, TLAPS

\* The node, the runs, the stages and the strangers have their types (serve_unix).
THEOREM SocketTypeCorrect == Spec => []TypeOK
<1> USE SocketAssumption DEF TypeOK, Nodes
<1>1. Init => TypeOK
  BY DEF Init, Nothing, File
<1>2. ASSUME TypeOK, [Next]_vars
      PROVE  TypeOK'
  <2>1. CASE UNCHANGED vars
    BY <1>2, <2>1 DEF vars
  <2>2. CASE FileAppears
    BY <1>2, <2>2 DEF FileAppears, server, Nothing, File
  <2>3. ASSUME NEW s \in Servers, Start(s) \/ Serve(s) \/ Down(s) \/ Connect(s)
        PROVE  TypeOK'
    <3>0. ASSUME NEW why \in {"not a socket", "io", "not permitted", "denied"}, Fail(s, why)
          PROVE  TypeOK'
      BY <1>2, <2>3, <3>0 DEF Fail, Ends, Goto
    <3>1. CASE Start(s)
      <4>1. run[s] + 1 \in 0 .. MaxStarts
        <5>1. run[s] \in 0 .. MaxStarts
          BY <1>2
        <5>2. run[s] < MaxStarts
          BY <3>1 DEF Start
        <5> HIDE DEF TypeOK
        <5> QED BY <5>1, <5>2
      <4>2. run' \in [Servers -> 0 .. MaxStarts]
        BY <1>2, <2>3, <3>1, <4>1 DEF Start
      <4> QED BY <1>2, <2>3, <3>1, <4>2 DEF Start, Goto
    <3>2. CASE Check(s)
      BY <1>2, <2>3, <3>0, <3>2 DEF Check, Goto, Denied, Removable, server
    <3>3. CASE Unlink(s)
      BY <1>2, <2>3, <3>0, <3>3 DEF Unlink, Goto, NotPermitted, Denied, Nothing, server
    <3>4. CASE Bind(s)
      <4>1. Socket(s) \in Sockets
        BY <1>2, <2>3 DEF Socket, Sockets
      <4> QED BY <1>2, <2>3, <3>0, <3>4, <4>1 DEF Bind, Goto, Denied, AfterBind, server
    <3>5. CASE Restrict(s)
      BY <1>2, <2>3, <3>0, <3>5 DEF Restrict, Goto, NotPermitted, Denied, server
    <3>6. CASE Accept(s) \/ Connect(s)
      BY <1>2, <2>3, <3>6 DEF Accept, Connect
    <3>7. CASE Down(s)
      BY <1>2, <2>3, <3>7 DEF Down, Ends, Goto
    <3> QED BY <2>3, <3>1, <3>2, <3>3, <3>4, <3>5, <3>6, <3>7 DEF Serve
  <2> QED BY <1>2, <2>1, <2>2, <2>3 DEF Next
<1> QED BY <1>1, <1>2, PTL DEF Spec

-----------------------------------------------------------------------------
(* Latecomers *)

\* A server that accepts, and that its path still leads to, does so behind a
\* private socket, whoever set the mode, and of which node, in between.
AcceptsInPrivate ==
  \A s \in Servers : pc[s] = "accepting" /\ node = Socket(s) => node \in private

\* AcceptsInPrivate is an invariant (restrict_socket_perms), however servers on one
\* path interleave: only its own Restrict can have made a server accept, and its
\* socket, once replaced, never returns.
THEOREM AcceptedInPrivate == Spec => []AcceptsInPrivate
<1> USE DEF AcceptsInPrivate, TypeOK
<1>1. Init => AcceptsInPrivate
  BY DEF Init
<1>2. ASSUME TypeOK, AcceptsInPrivate, [Next]_vars
      PROVE  AcceptsInPrivate'
  <2>1. CASE UNCHANGED vars
    BY <1>2, <2>1 DEF vars, Socket
  <2>2. CASE FileAppears
    BY <1>2, <2>2 DEF FileAppears, File, Socket
  <2>3. ASSUME NEW s \in Servers, Start(s) \/ Serve(s) \/ Down(s) \/ Connect(s)
        PROVE  AcceptsInPrivate'
    <3> SUFFICES ASSUME NEW t \in Servers, pc'[t] = "accepting", node' = Socket(t)'
                 PROVE  node' \in private'
      OBVIOUS
    <3>0. ASSUME NEW why, Fail(s, why)
          PROVE  node' \in private'
      BY <1>2, <2>3, <3>0 DEF Fail, Ends, Goto, Socket
    <3>1. CASE Start(s)
      <4>1. t # s /\ pc[t] = "accepting" /\ node' = node /\ private' = private
        BY <1>2, <2>3, <3>1 DEF Start, Goto
      <4>2. run'[t] = run[t] /\ user'[t] = user[t]
        BY <1>2, <2>3, <3>1, <4>1 DEF Start
      <4> QED BY <1>2, <4>1, <4>2 DEF Socket
    <3>2. CASE Check(s)
      BY <1>2, <2>3, <3>0, <3>2 DEF Check, Goto, Denied, Socket, server
    <3>3. CASE Unlink(s)
      <4>1. node' # Nothing
        BY DEF Socket, Nothing
      <4> QED BY <3>0, <3>3, <4>1 DEF Unlink, NotPermitted, Denied
    <3>4. CASE Bind(s)
      <4>1. CASE node' = Socket(s) /\ Goto(s, AfterBind) /\ UNCHANGED <<private, server>>
        <5>1. t # s
          BY <1>2, <2>3, <4>1 DEF Goto, AfterBind
        <5> QED BY <4>1, <5>1 DEF Socket, server
      <4> QED BY <3>0, <3>4, <4>1 DEF Bind, Denied
    <3>5. CASE Restrict(s)
      BY <3>0, <3>5 DEF Restrict, NotPermitted, Denied
    <3>6. CASE Accept(s) \/ Connect(s)
      BY <1>2, <3>6 DEF Accept, Connect, Socket
    <3>7. CASE Down(s)
      BY <1>2, <2>3, <3>7 DEF Down, Ends, Goto, Socket
    <3> QED BY <2>3, <3>1, <3>2, <3>3, <3>4, <3>5, <3>6, <3>7 DEF Serve
  <2> QED BY <1>2, <2>1, <2>2, <2>3 DEF Next
<1> QED BY SocketTypeCorrect, <1>1, <1>2, PTL DEF Spec

\* No stranger gets into the queue of a server that accepts (serve_unix): who is
\* served against restrict_socket_perms's comment came between bind and chmod.
THEOREM NobodyGetsInLate == Spec => LatecomersKeptOut
<1>1. ASSUME TypeOK, AcceptsInPrivate, [Next]_vars
      PROVE  [\A s \in Servers :
                pc[s] = "accepting" /\ stranger[s] = "none" => stranger'[s] = "none"]_vars
  <2> SUFFICES ASSUME NEW s \in Servers, pc[s] = "accepting", stranger[s] = "none"
               PROVE  stranger'[s] = "none"
    OBVIOUS
  <2>1. CASE UNCHANGED vars
    BY <2>1 DEF vars
  <2>2. CASE FileAppears
    BY <2>2 DEF FileAppears, server
  <2>3. ASSUME NEW t \in Servers, Start(t) \/ Serve(t) \/ Down(t)
        PROVE  stranger'[s] = "none"
    BY <1>1, <2>3 DEF TypeOK, Start, Serve, Check, Unlink, Bind, Restrict, Accept, Down,
                      Denied, NotPermitted, Fail, Ends, server
  <2>4. ASSUME NEW t \in Servers, Connect(t)
        PROVE  stranger'[s] = "none"
    <3>1. t # s
      BY <1>1, <2>4 DEF Connect, AcceptsInPrivate
    <3> QED BY <1>1, <2>4, <3>1 DEF Connect, TypeOK
  <2> QED BY <1>1, <2>1, <2>2, <2>3, <2>4 DEF Next
<1> QED BY SocketTypeCorrect, AcceptedInPrivate, <1>1, PTL DEF Spec, LatecomersKeptOut

-----------------------------------------------------------------------------
(* A server that has the path to itself *)

\* What it checked stays true until it acts on it: nobody else removes its socket
\* or creates another, and a file can only take a free path.
Settled(s) ==
  /\ pc[s] = "unlinking" => node.kind = "socket"
  /\ pc[s] = "binding" => node \in {Nothing, File}
  /\ pc[s] = "restricting" => node.kind = "socket" /\ node.owner = user[s]
  /\ failure[s] \notin {"none", "denied"} => NotOurs(s)

Undisturbed ==
  /\ \A s \in Servers : run[s] = 0 => pc[s] = "down"
  /\ \A s \in Servers : run[s] = 0 \/ pc[s] # "down" => failure[s] = "none"
  /\ Alone => \A s \in Servers : Settled(s)

\* What a failure leaves behind: the server is down, and nothing else has changed.
LEMMA FailureLeaves ==
  ASSUME NEW s \in Servers, NEW why, TypeOK, Fail(s, why)
  PROVE  /\ pc'[s] = "down" /\ failure'[s] = why
         /\ NotOurs(s)' = NotOurs(s)
         /\ why \in {"none", "denied"} \/ NotOurs(s) => Settled(s)'
BY DEF Fail, Ends, Goto, TypeOK, NotOurs, Settled

\* Undisturbed is an invariant (prepare_unix_socket_path and serve_unix).
THEOREM SoleServerUndisturbed == Spec => []Undisturbed
<1>1. Init => Undisturbed
  BY DEF Init, Undisturbed, Settled
<1>2. ASSUME TypeOK, Undisturbed, [Next]_vars
      PROVE  Undisturbed'
  <2>1. CASE UNCHANGED vars
    BY <1>2, <2>1 DEF vars, Undisturbed, Alone, Settled, NotOurs
  <2>2. CASE FileAppears
    BY <1>2, <2>2 DEF FileAppears, server, Undisturbed, Alone, Settled, NotOurs, Nothing, File
  <2>3. ASSUME NEW s \in Servers, Start(s) \/ Serve(s) \/ Down(s) \/ Connect(s)
        PROVE  Undisturbed'
    <3>1. CASE Start(s)
      <4>1. run[s] \in Nat /\ run'[s] = run[s] + 1 /\ run'[s] > 0
        <5>1. run[s] \in 0 .. MaxStarts
          BY <1>2, <2>3 DEF TypeOK
        <5>2. run'[s] = run[s] + 1
          BY <1>2, <2>3, <3>1 DEF Start, TypeOK
        <5> QED BY <5>1, <5>2
      <4>2. \A t \in Servers \ {s} :
              run'[t] = run[t] /\ pc'[t] = pc[t] /\ failure'[t] = failure[t]
        BY <1>2, <2>3, <3>1 DEF Start, Goto, TypeOK
      <4>3. pc'[s] = "checking" /\ failure'[s] = "none"
        BY <1>2, <2>3, <3>1 DEF Start, Goto, TypeOK
      <4>4. ASSUME Alone' PROVE \A t \in Servers \ {s} : run[t] = 0
        <5> SUFFICES ASSUME NEW t \in Servers \ {s}, run[t] # 0 PROVE FALSE
          OBVIOUS
        <5>1. run[t] \in 0 .. MaxStarts
          BY <1>2 DEF TypeOK
        <5>2. run'[t] > 0
          BY <4>2, <5>1
        <5> QED BY <2>3, <4>1, <4>4, <5>2 DEF Alone
      <4>5. \A t \in Servers :
              /\ run'[t] = 0 => pc'[t] = "down"
              /\ run'[t] = 0 \/ pc'[t] # "down" => failure'[t] = "none"
        BY <1>2, <4>1, <4>2, <4>3 DEF Undisturbed
      <4>6. ASSUME Alone', NEW t \in Servers
            PROVE  Settled(t)'
        <5>1. t # s => pc'[t] = "down" /\ failure'[t] = "none"
          BY <1>2, <4>2, <4>4, <4>6 DEF Undisturbed
        <5> QED BY <4>3, <5>1 DEF Settled
      <4> QED BY <4>5, <4>6 DEF Undisturbed
    <3>2. ASSUME Serve(s) \/ Down(s) \/ Connect(s)
          PROVE  Undisturbed'
      <4>1. run' = run /\ user' = user /\ Alone' = Alone
        BY <3>2 DEF Serve, Check, Unlink, Bind, Restrict, Accept, Down, Connect,
                    Denied, NotPermitted, Fail, server, Alone
      <4>2. run[s] # 0
        BY <1>2, <2>3, <3>2 DEF Undisturbed, Serve, Check, Unlink, Bind, Restrict, Accept,
                                Down, Connect, Listening
      <4>3. \A t \in Servers \ {s} : pc'[t] = pc[t] /\ failure'[t] = failure[t]
        BY <1>2, <2>3, <3>2 DEF Serve, Check, Unlink, Bind, Restrict, Accept, Down, Connect,
                                Denied, NotPermitted, Fail, Ends, Goto, server, TypeOK
      <4>4. pc[s] # "down" /\ failure[s] = "none"
        BY <1>2, <2>3, <3>2 DEF Undisturbed, Serve, Check, Unlink, Bind, Restrict, Accept,
                                Down, Connect, Listening
      <4>5. pc'[s] # "down" => failure'[s] = "none"
        BY <1>2, <2>3, <3>2, <4>4
           DEF Serve, Check, Unlink, Bind, Restrict, Accept, Down, Connect,
               Denied, NotPermitted, Fail, Ends, Goto, server, TypeOK
      <4>6. ASSUME Alone
            PROVE  Settled(s)'
        <5>0. Settled(s)
          BY <1>2, <4>6 DEF Undisturbed
        <5>1. ASSUME Denied(s) \/ NotPermitted(s) PROVE Settled(s)'
          BY <1>2, <5>1, FailureLeaves DEF Denied, NotPermitted
        <5>2. CASE Check(s)
          <6>1. CASE node.kind # "socket" /\ node # Nothing /\ Fail(s, "not a socket")
            BY <1>2, <6>1, FailureLeaves DEF NotOurs
          <6>2. CASE /\ Removable /\ Goto(s, "unlinking") /\ UNCHANGED <<node, private, server>>
            BY <1>2, <4>4, <6>2 DEF Removable, Goto, Settled, server, TypeOK
          <6>3. CASE /\ node = Nothing /\ Goto(s, "binding") /\ UNCHANGED <<node, private, server>>
            BY <1>2, <4>4, <6>3 DEF Goto, Settled, server, TypeOK
          <6> QED BY <5>1, <5>2, <6>1, <6>2, <6>3 DEF Check, Removable
        <5>3. CASE Unlink(s)
          <6>1. node # Nothing
            BY <5>0, <5>3 DEF Unlink, Settled, Nothing
          <6>2. CASE node' = Nothing /\ Goto(s, "binding") /\ UNCHANGED <<private, server>>
            BY <1>2, <4>4, <6>2 DEF Goto, Settled, server, TypeOK
          <6> QED BY <5>1, <5>3, <6>1, <6>2 DEF Unlink
        <5>4. CASE Bind(s)
          <6>1. node \in {Nothing, File}
            BY <5>0, <5>4 DEF Bind, Settled
          <6>2. CASE node # Nothing /\ Fail(s, "io")
            BY <1>2, <6>1, <6>2, FailureLeaves DEF NotOurs, File
          <6>3. CASE node' = Socket(s) /\ Goto(s, AfterBind) /\ UNCHANGED <<private, server>>
            <7>1. node'.kind = "socket" /\ node'.owner = user'[s]
              BY <4>1, <6>3 DEF Socket
            <7> QED BY <1>2, <4>4, <6>3, <7>1 DEF Goto, AfterBind, Settled, server, TypeOK
          <6> QED BY <5>1, <5>4, <6>2, <6>3 DEF Bind
        <5>5. CASE Restrict(s)
          <6>1. node # Nothing
            BY <5>0, <5>5 DEF Restrict, Settled, Nothing
          <6>2. CASE Goto(s, "accepting") /\ UNCHANGED <<node, server>>
            BY <1>2, <4>4, <6>2 DEF Goto, Settled, server, TypeOK
          <6> QED BY <5>1, <5>5, <6>1, <6>2 DEF Restrict
        <5>6. CASE Accept(s) \/ Connect(s)
          BY <5>0, <5>6 DEF Accept, Connect, Settled, NotOurs
        <5>7. CASE Down(s)
          BY <1>2, <4>4, <5>7 DEF Down, Ends, Goto, Settled, TypeOK
        <5> QED BY <3>2, <5>2, <5>3, <5>4, <5>5, <5>6, <5>7 DEF Serve
      <4>7. ASSUME Alone, NEW t \in Servers \ {s}
            PROVE  pc'[t] = "down" /\ failure'[t] = "none"
        <5>1. run[t] = 0
          <6>1. run[s] \in 0 .. MaxStarts /\ run[t] \in 0 .. MaxStarts
            BY <1>2, <2>3 DEF TypeOK
          <6> QED BY <2>3, <4>2, <4>7, <6>1 DEF Alone
        <5>2. pc[t] = "down" /\ failure[t] = "none"
          BY <1>2, <5>1 DEF Undisturbed
        <5> QED BY <4>3, <4>7, <5>2
      <4>8. ASSUME Alone, NEW t \in Servers PROVE Settled(t)'
        <5>1. CASE t = s
          BY <4>6, <4>8, <5>1
        <5>2. CASE t # s
          BY <4>7, <4>8, <5>2 DEF Settled
        <5> QED BY <5>1, <5>2
      <4>9. \A t \in Servers :
              /\ run'[t] = 0 => pc'[t] = "down"
              /\ run'[t] = 0 \/ pc'[t] # "down" => failure'[t] = "none"
        BY <1>2, <4>1, <4>2, <4>3, <4>5 DEF Undisturbed
      <4> QED BY <4>1, <4>8, <4>9 DEF Undisturbed
    <3> QED BY <2>3, <3>1, <3>2
  <2> QED BY <1>2, <2>1, <2>2, <2>3 DEF Next
<1> QED BY SocketTypeCorrect, <1>1, <1>2, PTL DEF Spec

\* What earlier runs of the same user left at its path never keeps a server that is
\* alone on it from listening (prepare_unix_socket_path).
THEOREM LeftoversHarmless == Spec => []LeftoversDoNoHarm
<1>1. Undisturbed => LeftoversDoNoHarm
  BY DEF Undisturbed, Settled, LeftoversDoNoHarm
<1> QED BY SoleServerUndisturbed, <1>1, PTL

\* And it removes no file (the match on is_socket in prepare_unix_socket_path).
THEOREM FilesKept == Spec => KeepsFiles
<1>1. ASSUME Undisturbed, [Next]_vars
      PROVE  [(Alone /\ node = File) => node' = File]_vars
  <2> SUFFICES ASSUME Alone, node = File PROVE node' = File
    OBVIOUS
  <2>1. CASE UNCHANGED vars
    BY <2>1 DEF vars
  <2>2. CASE FileAppears
    BY <2>2 DEF FileAppears, Nothing, File
  <2>3. ASSUME NEW s \in Servers, Start(s) \/ Serve(s) \/ Down(s) \/ Connect(s)
        PROVE  node' = File
    BY <1>1, <2>3 DEF Undisturbed, Settled, Start, Serve, Check, Unlink, Bind, Restrict,
                      Accept, Down, Connect, Denied, NotPermitted, Fail, Nothing, File
  <2> QED BY <1>1, <2>1, <2>2, <2>3 DEF Next
<1> QED BY SoleServerUndisturbed, <1>1, PTL DEF Spec, KeepsFiles
=============================================================================
