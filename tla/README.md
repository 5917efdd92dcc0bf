# A verification development for mcp-core

mcp-core is a Rust crate for Model Context Protocol servers. A server author
implements `McpService`; the crate reads JSON-RPC messages from stdio, unix
sockets or websockets, dispatches them to the service, writes the answers, and
owns the process from the command line to the exit. These modules model the
parts of it whose correctness depends on the order in which things happen. They
are checked with TLC on small instances, and the facts listed under "What is
proved" are proved with TLAPS for every value of the constants.

Line numbers refer to `src/src/*.rs` unless another path is given.

## 1. Inventory

| Part | State | Operations | Talks to | What is hard | What makes it correct |
|---|---|---|---|---|---|
| **Framed transport, reading** (`transport.rs`) | `framing`, `desync`, the buffered reader, the line or body being collected | `read_message` and its `read_auto`, `read_newline`, `read_line`, `read_frame_line`, `read_content_length`, `declared_length`, `poison`, `desync_error`, `check_len` | called by `pump`; reads a byte stream | bytes come in arbitrary pieces; end of file and io errors between any two; caps at their boundary | each read returns the next frame, whole; one frame costs a bounded number of bytes; lost framing stays lost; nothing is refused that could have become a frame |
| **Framed transport, writing** | the writer | `write_message` | called by `pump` | a write fails or the task is dropped between two writes of one message; the framing is settled by the reader | the peer can tell every reply from the next, in the framing it uses itself |
| **Session and dispatcher** (`server.rs`) | `initialized` per session; the counters | `handle_message`, `dispatch`, `route`, `handle_initialize`, `handle_tools_call`, `finish`, `negotiate_version` | called by the connection loops, calls the service | calls suspend; sessions are concurrent over one core; counters are shared | requests answered once and in order, notifications never; tools behind the session's own handshake; counters agree with what was handled |
| **Connection loops** (`runner.rs`: `pump`, `ws_connection`) | one transport and one session each | read, dispatch, write | transport, session, spawned by the listeners | interleaving at every await; clients that close or stop reading; a call, or a write, that never returns | each connection is a sequential conversation, independent of the others |
| **Process lifecycle** (`runner.rs`: `run`, `serve`, listeners; `shutdown.rs`) | the telemetry guard, the signal handlers, the future `served` | parse, init telemetry, install handlers, build, listen, stop, flush, exit | all of the above, the operating system | signals at any moment; failure and signal around one poll; tasks that outlive the flush | signals are not fatal once a service is being built; the flush precedes the exit; failures are reported |
| **Unix socket path** (`runner.rs`: `prepare_unix_socket_path`, `restrict_socket_perms`) | a node in the file system, shared with other processes | check, remove, bind, set mode, accept | the file system, other users | four system calls by path, each of which may be refused; servers on the same path; leftovers of crashes, of other users too; the socket listens before its mode is set | a user's own leftovers do no harm; files survive; who comes once a server accepts is kept out |
| **Configuration** (`config.rs`, `args.rs`) | a `ServerConfig` under construction | `new` and the builder methods, in any order | read by `serve`, `serve_websocket`, `handle_initialize` | the order of the calls | no order of calls leaves the default transport off behind the author's back |
| **Websocket listener** (`serve_websocket`, `ws_handler`) | the features of the build, the router | refuse, build the authenticator, bind, check each request, upgrade | auth, `ws_connection` | requests are concurrent; a build may lack what the configuration asks for | unauthenticated clients get no session, whatever the build and however the start goes |
| **Authentication** (`auth.rs`) | the `Authenticator`; the lazily built key verifier behind a lock | `Authenticator::from`, `check`, `extract_bearer`, OIDC discovery, `get_verifier`, `check_claim_bindings` | an identity provider, two JWT libraries | first requests that overlap; clients that leave in between; slow key fetches; normalised issuers; two libraries with different defaults | a request is admitted exactly under the configured policy; one verifier is kept and used; no lock of the crate's own is held while keys are fetched |
| **Service interface** (`service.rs`) | the service's tools | `tools`, `call_tool`, `shutdown`; constructors and JSON of `ToolDef`, `ToolReply`, `Content`, `CallError` | called by the dispatcher | which failures the model sees; what depends on the negotiated version | the client hears what the service said |
| Errors, telemetry facade, trace context, crate root, example | values | - | - | - | data without control |

How a message travels: `run` parses the command line, starts telemetry,
installs the handlers of SIGTERM and SIGINT, builds the service and calls
`serve`. `serve` runs one `pump` (stdio) or a listener that spawns one task per
connection (unix: `pump`, websocket: `ws_connection`). Each loop reads a frame,
parses it, hands it to its `Session`, and writes the response and then the
notifications of the `Dispatch`. Sessions share the `ServerCore` and the metrics
registry and nothing else.

## 2. Modules

| Module | Models | EXTENDS / INSTANCE |
|---|---|---|
| `FrameText` | what the transport asks of a text: is it a header, blank, UTF-8, a line, a frame | - |
| `MessageStream` | abstract: the promise of `read_message`, one step per read | `FrameText` |
| `FramedTransport` | the reader, one step per piece of buffered text | `FrameText`; refines `MessageStream` |
| `FramedTransport_proofs` | theorems about it | `FramedTransport` |
| `Session` | constant operators: outcome, replies and counters of one message | - |
| `Session_proofs` | lemmas about one message | `Session` |
| `Conversation` | abstract: what one client may rely on | `Session` |
| `Connections` | the connection tasks over one core | `Session`; refines `Conversation` |
| `Connections_proofs` | its types, and the refinement | `Connections`, `Session_proofs` |
| `Answers_proofs` | what follows from it for a client, and the counters | `Connections_proofs` |
| `Service` | constant operators: what a service returns, and the JSON of every response | `Session`, `Configuration` |
| `Stdio` | one framed connection, as its peer sees it, write by write | `Service`; refines `Conversation` |
| `Stdio_proofs` | theorems about it, the refinement among them | `Stdio`, `Session_proofs` |
| `Configuration` | constant operators: `ServerConfig` and its builder methods | - |
| `Auth` | constant operators: one header, one token, one discovery document | `Configuration` |
| `Admission` | abstract: one policy, each request decided once, in one step | `Auth` |
| `Websocket` | a server from its first builder call to its websocket requests | `Auth`; refines `Admission` |
| `Websocket_proofs` | theorems about it, the refinement among them | `Websocket` |
| `Lifecycle` | one process from command line to exit | - |
| `Lifecycle_proofs` | theorems about it | `Lifecycle` |
| `UnixSocket` | servers on one socket path | - |
| `UnixSocket_proofs` | theorems about it | `UnixSocket` |
| `MCFramedTransport`, `MCConnections`, `MCStdio`, `MCWebsocket`, `MCLifecycle`, `MCUnixSocket` | values of the constants for TLC | one each |

### FramedTransport

`input` is everything the peer has sent so far and `pos` how much was consumed;
the code's line or body buffer is the interval from `start` to `pos`. `pc` says
which read is suspended: a line for `read_auto`, `read_newline`, the opening or
a later header of a frame, or the body. `Fill` is one chunk from the stream,
`FillEof` and `FillFail` its end and its failure; they happen only when the
buffer is empty and more is needed, as `fill_buf` asks for more only then.
`TakeLine` is one round of the loop of `read_line` with everything that follows
when a line is complete; `TakeBody`, `BodyRead` and `BodyAtEof` are `take(declared)
.read_to_end` and what is done with its result.

Abstractions. An atom of `Bytes` stands for the bytes the reader tells apart.
`Content-Length: n` is one atom, so a header's text is never split between two
chunks, but the line it is on is. A cap of three atoms plays the part of the cap
in bytes. End of file is final. `Budget` is computed modulo `UsizeMax + 1`, as a
release build does; a debug build panics where it wraps.

### Session and Connections

`Session` gives each kind of message its outcome, as `route` and its helpers do,
with the service's result as an argument. In `Connections` every connection has
its own program counter: it is reading, in a call, in the shutdown hook, writing,
writing a last parse error (`refusing`), or over. The ids of messages are their
positions, so that an answer names what it answers; id 0 is null, or no id. What an
answer says is one of the `Labels`, or, to `initialize`, the version negotiated.
`ReadFrame` runs from one suspension point to the next, the way a task does.

Abstractions. Frames are what the transport delivers: the composition with
`FramedTransport` is through `MessageStream`, whose results are the frames here.
A reply's text is its kind, and `write_message` either happens or fails: `Stdio`
has both in detail, for one connection. Errors of
`serde_json::to_string` on a `Value` do not occur.

### Service and Stdio

`Stdio` is one `pump` with everything behind it. The reader's results are frames
(as in `Connections`), and `framing` is the transport's field: a peer that
`speaks` headers settles it when a header line opens a frame, whatever becomes
of that frame; one that speaks lines, with its first line that is neither blank
nor refused. The service returns any reply of `Service`, changes its tools as it
returns, or never returns. `Response` is the JSON of a response: an object is the
record of its members, built by the operators that stand for `to_json`,
`to_result_json`, `tool_error_result`, `success_response` and the rest.
`Write` is one `write_all`; a message is two of them, and the flush belongs to
the second. `WriteFails` is an error in either, with part of it written or none.
`Break` stands for a peer that is gone and for a process that has been told to
stop; in the latter case the task is dropped where it waits (`Dropped`). `fault` is
the error `pump` returns: a refusal that cannot be written leaves it as it was.

`Understood` is a client that reads a response back into the kinds of
`Session`; with it `Converses` says that `Stdio`, whose replies are JSON in
pieces, implements the same `Conversation` that `Connections` does.

Abstractions. Names, schemas, texts and values are model values. The order of an
object's members is not modelled. What a framing error says is left out: that it
is a parse error with a null id is not.

### Configuration, Auth, Admission and Websocket

`Websocket` starts with `features`, what the build has of `websocket` and `auth`,
and a `config` that `Configure` changes by one builder call at a time. `Serve` is
`serve` and what `serve_websocket` does up to its first await; `Discover` and
`DiscoveryFails` are the answers of the identity provider; `Bind` is
`TcpListener::bind`. Then every client makes one request, a task of its own.
`Check` runs up to the first point where it can wait: without keys to fetch that
is the whole check; otherwise the request goes on with the verifier that is
there (`verifying`), or with one it has built and not yet stored (`storing`,
where it waits for the write lock). `Verify` is the key fetch and
what is decided by it. `Leave` drops the handler at any of these points.

`Admission` knows none of this: while a server listens it has a policy, and a
request is decided in one step by the policy and its own header, or, where keys
are needed, fails for want of them. Under the refinement the policy is
computed from the configuration and the discovered issuer, not from
the authenticator, so that every way from the one to the other is checked.

Abstractions. A token is what the libraries and `check_claim_bindings` look at:
whether its signature is good, its lifetime, its issuer, its audiences. `Trimmed` is
what `trim_end_matches('/')` makes of an issuer. A key cache that expires is a
`Verify` that fetches again. The `jsonwebtoken` defaults (a bound claim is compared if present;
`nbf` is not looked at) and those of `jwtk` (`exp` and `nbf`, if
present) are modelled as external.

### Lifecycle

`phase` is where `run` is, `build` the future it races against the signals,
`busy` the tool calls in flight, and `recorded`, `buffered`, `exported` and
`lost` follow the counts of ended calls. Over stdio the connection is part of the
serve loop and stops with it. Over unix and websocket the connections are tasks
of their own and run, and count, until the process is gone. A poll of `run` looks
at the serve loop and, if that is pending (`FindPending`), at the signals (`Stop`
or `Await`): that is what `biased` means, and what happens elsewhere may
happen between the two looks. `FailureIsReported` is about a failure that is there when
a poll begins; one that comes between the looks may lose to a signal.
When the guard drops, buffered counts are exported: that the collector takes them is
the library's affair.

### UnixSocket

`node` is what is at the path and `private` the nodes with mode 0600. Each of
the four system calls of `serve_unix` is a step, and other servers, other
programs (`FileAppears`) and crashes (`Down`) come in between. Each call may fail:
because the node is gone or there (`io`), because it is somebody else's (`not
permitted`: a socket records the `user` who bound it), or because the system
refuses it whatever is there (`denied`: a directory that is missing or may not be
searched or written, a path that is too long). A server listens from its `Bind` on.
`stranger` is the connection of another local user: `Connect` puts it into the
queue of a listening server if the path leads to its socket and the mode allows it,
which before `Restrict` is the umask's affair (`OpenUmask`), and `Accept` takes it
out. Directories and symbolic links are, for the code, files.

## 3. Runs

Passing runs:

| Run | Instance | Shows |
|---|---|---|
| `MCFrames` | 8 atoms of 4 kinds (newline, text, not UTF-8, a header), chunks of 1 or 2, cap 2, one header line | `ReadsFrames`: the reader implements `MessageStream`; `IInv`; `BoundedFrame`; `BoundedReads`; `PoisonIsForever` |
| `MCLineText` | 5 atoms of 7 kinds, one at a time, among them CR, space, an empty body, unusable and oversize headers; cap 3, two header lines; fair | `TypeOK`; `ReadsFrames`; `ReadsSettle`: a read returns or waits for its peer; `RefusedOnlyIfHopeless`: for no refused frame is there a continuation (of up to two atoms) that makes it one |
| `MCTwoClients` | a websocket client with 3 frames of every kind that matters to a session, and a framed one with 1; a call that succeeds, is declined, fails or never returns; clients that take their replies or do not; reads are fair | `TypeOK`; `AnswersOnceInOrder`; `HandshakeGuardsTools`; `CountersAgree`; `OwnCallOnly`; `Converses`: both loops implement `Conversation` |
| `MCStdio` | a peer in either framing; 3 frames of 17 kinds, 8 results, a toolbox that changes; any read or write fails | `TypeOK`; `WholeReplies`: replies can be told from one another, in the peer's framing; `LastWord`: a stream that is given up ends with the reason; `FaultIsFinal`: nothing is taken from, or said after, half a frame, and the error stays what it was; `SaysWhatHappened`: the JSON is what the tool returned; `Converses` |
| `MCWebsocket` | three builds, every sequence of builder calls over three issuers and an audience; two requests, one with every header and token, one with a good token; fair | `TypeOK`, with "what a build lacks is not started"; `Admits`: the listener implements `Admission`; `VerifierIsKept`; `DefaultStaysServed`; `NobodyIsHeldUp` |
| `MCLifecycle` | every transport, also one the server does not allow and unix without a path; two clients, two counted calls, both signals; fair | `IInv`; `KilledOnlyBeforeBuild`; `EveryEndExports`; `SignalEndsProcess`; `FailureIsReported`; `ClientEndsStdio` |
| `MCSockets` | three servers, two starts each as either of two users, a crash or a failure anywhere, files appear, strangers connect, an umask that lets them; symmetric | `LatecomersKeptOut`: nobody new gets in once a server accepts; `LeftoversDoNoHarm` and `KeepsFiles`, where only one server was ever started |

Runs that end in a counterexample, each a disagreement between the code and what
the repository says of it:

| Run | Property | The disagreement |
|---|---|---|
| `MCUncapped` | `ReadsSettle` | a cap of `usize::MAX` makes the budget of `read_line` (233) wrap to 0: the read spins |
| `MCAutoHeader` | `UndecodableHeaderEndsStream` | an undecodable first header line (281) does not end the stream, as the module comment says it does |
| `MCSocketTaken` | `ListenersStayReachable` | a live server's socket is unlinked as if it were stale (`runner.rs:138`) |
| `MCSocketWindow` | `StrangersKeptOut` | the socket listens from `bind` on (`runner.rs:168`), under the umask's mode; "so other local users can't connect" (150-151) holds from the chmod (169) on, and who came before it is still served |
| `MCIssuerSlash` | `IssuersTokensAdmitted` | an issuer that ends in a slash is bound trimmed (`auth.rs:208`) and its own tokens, compared as they are (261), are refused |

Other disagreements that the models show and no run is kept for: over unix and
websocket a client's close does not make `run` return, as the repository's README
(262-264) says it does: the accept loops (`runner.rs:171`) go on, and without a signal
the process never ends; an io error
inside a newline-delimited line does not end the stream either
(`transport.rs:275`; `pump` ends anyway); `initialized` with an id is never
answered (`server.rs:231`); a tool that declines with `ToolReply::error` counts
as `ok`, not `tool_error` (`server.rs:337`, README 142); a second `initialize`
renegotiates the version (`server.rs:229`, ADR 0001 decision 2); the two
strategies with a secret and with keys treat a token whose `nbf` lies ahead
differently (`auth.rs:71`, 227), which `Policy` spells out; an expected issuer or
audience does nothing with `WsAuth::None`, though it "applies to every strategy"
(`config.rs:273-275`); and with two
servers on a path the check for a socket and its removal can have a file appear
in between, which is deleted (`runner.rs:137-139`), so `KeepsFiles` is checked
where one server has the path to itself.

### Bounds

- `MaxInput`, `MaxChunk`: the atoms that arrive, in all and at once. A frame
  with a header, the end of its block and a body of one atom is four atoms, so
  eight hold two frames, or a refused frame and bytes behind it; an empty body
  and a second header line fit into five. Chunks of one or two make a cut happen
  between any two atoms, and leave text in the buffer behind a line.
- `MaxLen`, `MaxHeaderLines`: 2 and 1 in `MCFrames`, whose inputs are longer than
  the bound on a frame, so that it is met and not only obeyed; 3 and 2 in
  `MCLineText`, so that a header line may end in CR and newline.
- `Continuations`: up to two atoms sent on behind a refused frame complete a line or the end
  of a block, and its shortest body.
- `UsizeMax`: 7, out of the caps' way, except in `MCUncapped`, where it is the cap.
- `MaxSent`: three frames are enough to open a session, close it and use it, and
  for any three kinds of message to follow one another; one frame of a second
  client meets every state of the first. In `MCTwoClients` the websocket client
  sends what changes or uses the session. `MaxAhead` (1, in `MCStdio`): the peer has at
  most one frame under way; that more may wait in the pipe is in `Connections`.
- `Setups`, `Results`, `Toolboxes`: each framing once; each constructor and each
  error once; two lists of tools, of different length.
- `Clients`, `Sends` of `MCWebsocket`: two first requests are enough to race for
  the verifier. One client sends every kind of header, so that each check
  and each way to fail happens; the other a good token, which shows what the first
  does to it.
- `Issuers`, `Audiences`: an issuer, the same with a slash, and another; an
  audience that a token has or has not.
- `MaxRecords`, `Clients`: two calls of two clients, so that one can be counted
  before the flush and one after it.
- `Servers`, `MaxStarts`: what two servers do to each other is visible to a third;
  a second start meets what the first left.
- `Users`, `OpenUmask`: two users, so that a leftover is one's own or another's; the
  umask that lets strangers in, as with the other one none ever connects. One
  stranger for each server: a second would find the same socket.

`CHECK_DEADLOCK FALSE` is set where the system stops: the process ends, or every
client has closed, or the bounded starts are used up.

### Fairness

`FramedTransport`: `WF(Step)`; the runtime polls the reader's task when it can go
on, and the peer owes nothing. `Connections`: `WF(Reads(c))` for every connection,
which the runtime schedules independently: a task that awaits its next frame gets
it when it is there. Services and clients owe nothing: a call need not return,
and neither need a write, which waits for the client to read (`write_message` and
`send`, `runner.rs:113` and 314). `OwnCallOnly` asks only of those connections that
their clients take the replies (`Takes`), and says that neither a call nor a
client that takes none keeps another connection's frames from being read. `Lifecycle`: weak fairness of the start, of each poll of
`run`, of the guard's drop (the exporters' shutdown has a time budget) and of the
exit; the build, clients, tools and signals owe nothing. `Websocket`:
`WF(Handler(c))` for every request, which the runtime polls when it can go on;
the provider of the keys owes nothing, so `Verify` has no fairness, and `NobodyIsHeldUp`
is about the crate's own lock, not about waiting inside the key library's cache.
`Stdio` and `UnixSocket` state only safety.

## 4. What is proved

With TLAPS, for every value of the constants that satisfies the modules'
assumptions (an alphabet with a newline and disjoint kinds, natural caps, at least one
header line, any texts as `Continuations`; any finite or infinite set of clients, connections, frames,
servers, users, issuers or audiences; any list of versions, none of them named like another
answer; any replies of a service, each of a kind `call_tool` can return, and any
lists of tools, of which it has one to begin with):

| Theorem | Statement |
|---|---|
| `TransportInvariant` | `FramedTransport!Spec => []IInv` |
| `TransportTypeCorrect` | `=> []TypeOK` |
| `ReadsBounded` | `=> BoundedReads`, an action property |
| `FrameCostBounded` | `=> []BoundedFrame` |
| `PoisonedForEver` | `=> PoisonIsForever`, an action property |
| `ReadsWholeFrames` | `=> ReadsFrames`: `FramedTransport` implements `MessageStream` |
| `RefusedForGood` | `=> []RefusedOnlyIfHopeless` |
| `LifecycleInvariant` | `Lifecycle!Spec => []IInv` |
| `SignalsAreNotFatal` | `=> []KilledOnlyBeforeBuild` |
| `EndsExport` | `=> []EveryEndExports` |
| `SocketTypeCorrect` | `UnixSocket!Spec => []TypeOK` |
| `AcceptedInPrivate`, `NobodyGetsInLate` | `=> []AcceptsInPrivate`, `=> LatecomersKeptOut`, an action property |
| `LeftoversHarmless`, `FilesKept` | `=> []LeftoversDoNoHarm`, `=> KeepsFiles`, an action property |
| `WebsocketTypeCorrect` | `Websocket!Spec => []TypeOK` |
| `VerifierKept` | `=> VerifierIsKept`, an action property |
| `DefaultServed` | `=> DefaultStaysServed`, an action property |
| `AdmitsByPolicy` | `=> Admits`: `Websocket` implements `Admission` |
| `InFlightIsLastRead`, `ConnectionsTypeCorrect` | `Connections!Spec => []Typed`, `=> []TypeOK` |
| `EachConverses` | `=> Converses`: `Connections` implements `Conversation` |
| `PromisesKept` | `=> []Promises`, the inductive form of the next two |
| `AnsweredOnceInOrder` | `=> []AnswersOnceInOrder` |
| `HandshakeFirst` | `=> []HandshakeGuardsTools` |
| `CountersRight` | `=> []CountersAgree` |
| `PumpIInv`, `StdioTypeCorrect` | `Stdio!Spec => []IInv`, `=> []TypeOK` |
| `WrittenWhole` | `=> []WholeReplies` |
| `NothingAfterFault` | `=> FaultIsFinal`, an action property |
| `RefusedIsTold` | `=> []LastWord` |
| `PipeConverses` | `=> Converses`: `Stdio`, with its JSON in pieces, implements `Conversation` |
| `SaidAsHappened` | `=> []SaysWhatHappened` |

**The reader.** `BoundedFrame` alone is not inductive: that a frame costs at most
`(MaxHeaderLines + 2) * MaxLen + 1` says nothing of how much of it a state that is in
the middle of a header has already used. `IInv` adds `BoundedBuffer` (a line
that is being collected is within the cap between two pieces, a body within its declared
length) and `Spent` (with n header lines counted, at most n times the cap is
spent; before the body, at most the limit plus one, the empty line included). The proof
goes action by action: how a read ends (`ReturnKeepsIInv`, `RefuseKeepsIInv`,
`FinishKeepsIInv`), then what is done with a complete line, then one piece of a
line (`BudgetBound`: budget and buffer together never pass the cap plus one,
also where the budget wraps), the body, and the peer.

**Frames.** `MessageStream` reads a frame at once: it says where a line ends, and which
lines are a header block, of the text as a whole. The reader finds this out piece by
piece, and `Scanned` is what it knows so far: no newline in the line it is collecting
(so a line ends where it first finds one); as many good lines, none of them empty, since
the frame began as it has counted (`HeaderLines`); the block it has read and the length
that was declared. The lemmas about a text (`OneLine`, `LastLine`, `OneBlock`: one line
has one end, a block ends at its last line, and a frame has one block; `OneMoreHeader`,
`EmptyLineEnds`: what one more line makes of the count) need no model. Where a frame is
refused there is none: `NoNextLine`, `NoLength` and `NoBody` take the three reasons. And none of
what was scanned is undone when the peer sends more or closes (`SameLine`, `SameHeaders`),
so that the same lemmas, asked of any longer text, show that a refused stream is `Hopeless`,
which `RefusedOnlyIfHopeless` says for the continuations that it is given.

**The process.** `IInv` is `TypeOK`, `Guarded` (at each phase, which handlers
are installed and who holds the guard) and `Accounted` (each counted call is
buffered, exported or lost). The two properties follow from it at the end.

**The socket.** `LatecomersKeptOut` rests on `AcceptsInPrivate`: a server that accepts,
and that its path still leads to, is behind a private socket. That is inductive given
the types: a server becomes accepting only by its own `Restrict`, which sets the mode of
the node that is there, and a node of an earlier bind never comes back. It says
nothing of a server between its bind and its `Restrict`, which listens already; that is where
`StrangersKeptOut` fails. The other two
need to know what a server finds at each step when it has the path to itself:
`Undisturbed` says that between its check and its removal the node is still a socket,
that before its bind the path is free unless a file has appeared, that between its
bind and its `Restrict` the node is the socket of its own user, and that
a call only fails because of somebody else's node (`NotOurs`) or is denied. `FailureLeaves`
is the lemma about each way to fail.

**The websocket.** `VerifierIsKept` is about single steps and needs of the state before only
`OwnVerifier`: a request that is about to store a verifier has built it itself. That each request is decided by the policy is not inductive:
it needs `AuthFits`, which ties the authenticator to the configuration it was built
from at each phase (its kind to the strategy, its bindings to the configured
ones or, after discovery, to the trimmed issuer) and says of each request that it
has a header, and a token once it verifies. With it, the refinement goes step by step:
builder calls, `Serve`, discovery and a failing bind are stutters of `Admission`, a bind
that succeeds is its `Listen`, a check that ends is its `Decide`, and building and storing a
verifier are stutters again. The decision itself is two lemmas about one token,
`SecretMeets` and `KeysMeet`: each library, with what the code adds to it,
accepts exactly the tokens that meet the policy.

**The connections.** The types are not inductive alone: when a call returns, its
answer is a frame only if what was awaited is a message. `InFlight` says that a task in the
service awaits the answer to the frame it read last, that this is a call with the
session open or a shutdown, and that only a framed connection is told why it
is ended; `Typed` is the two together. `EachConverses` then maps the state (a frame is
handled when the service has answered; what was said is `wire` and `outbox` together) and
takes the actions one by one: a frame that is answered at once is a
`Handle` or a `Reject`, one that is left to the service a stutter, its return the `Handle`; a write is
a stutter, an error of one a `Lose` of what is left.

What a client may conclude is proved of `Conversation`, whose steps are few, and comes
to `Connections` through the refinement. `Kept` is the invariant, for one client: the session
is open exactly if a frame opened it and none has closed it since (`Opened`,
with `OpenedStep` for the next frame); answers come with rising ids, to frames handled
that are owed one, and, to the tools, with a refusal exactly while the session was
not open; unless the client stopped reading, no request is left out. Rising ids and
nothing left out give both "once" and "in order"; that an answer was right when it
was given has to be in the invariant because the session may have changed
since. `CountersAgree` counts frames of all connections, a sum that is over a
finite set only because finitely many frames were ever handled; `Counted` therefore carries that
finiteness with it, and each step either adds one frame to one label
(`Counts`) or moves none (`Quiet`).

**One pipe.** Each part of `Stdio`'s `IInv` is there because another needs it:
`WholeReplies` needs `AllPaired` (two writes are one message, unless the second is the last of
all), whose step for the second write needs `HalfWritten` (the first write was the first
half of the message at the head of the outbox), which is undisturbed only because of
`Awaited` and `Faulted` (a task that awaits the service, or has an error, has
nothing half written); the refusal of a frame in a framing nobody knows yet needs `Unheard`
(before the framing is settled nothing but that refusal is written), and
`LastWord` needs `Told`. The refinement of `Conversation` reads the JSON back
(`Understood`): that it is unambiguous, so that no response is taken for another,
is most of the proof, and the reason why no version may be named like one of the `Labels`: with one
that is, the client of the model could not tell a version from an error. (The strings are the
model's; in JSON the two are in different places, so the code needs no such
assumption.)

`FaultIsFinal` and `LastWord` meet in a refusal that cannot be written: the error stays
`framing` (`Faulted`), and only a peer that still listens has been told (`Told`).

`SaysWhatHappened` speaks of messages long gone, so its invariant `History` is one more
induction over `IInv`: it says of each reply, in the outbox or written, that it was
`Answered`, by its id, with what the service returned for that message and with the
tools the service had at the time. `ToolSays` and `ResponseSays` are the lemmas about one reply.

## 5. What is only model-checked, and what is not modelled

Model-checked only: the liveness properties (`ReadsSettle`, `OwnCallOnly`, `NobodyIsHeldUp`,
and `SignalEndsProcess`, `FailureIsReported` and `ClientEndsStdio` of `Lifecycle`); liveness
under fairness is out of the prover's reach. Every other property of a passing run is proved.

Not modelled: spans and trace context (`caller_trace_parent`, `join_caller_trace`:
they label what is logged and change nothing that is answered), durations and tool
names in metrics, the texts of errors, the exporters of telemetry, cryptography, the
size cap of websocket messages (a library enforces it; to the connection it is an
io error), directories and symbolic links on the socket path apart from files,
the crate root, the example and the tests.

## 6. Plan

1. *Done*: `FrameText`, `MessageStream`, `FramedTransport` and the proofs of its
   bounds; `Session`, `Conversation`, `Connections`; `Lifecycle` with its proofs;
   `UnixSocket` with its proofs; `Configuration`, `Auth`, `Admission` and `Websocket` with
   its proofs and the proved refinement; `Service` and `Stdio`.
2. *Done*: the proofs about `Connections` and `Stdio`, with both refinements of
   `Conversation` and what follows from them.
3. *Done*: the refinement of `MessageStream`, and that a refused frame is hopeless.
4. The safety facts that the liveness properties rest on, where they can be said without
   `ENABLED`: with a cap below `usize::MAX`, a reader that has text left has some budget for
   it, so that only a wrapping cap can make it spin; each frame taken by `pump` shortens what
   is left to do.
