--------------------------- MODULE FramedTransport ---------------------------
(***************************************************************************)
(* The reading half of FramedTransport (src/src/transport.rs), step by     *)
(* step: one action per piece of text the buffered reader hands over.      *)
(* `input` only grows and `pos` only advances, so what BufReader holds is  *)
(* input beyond pos, and the line or body being collected (`buf` in the    *)
(* code) is the interval from `start` to pos.                              *)
(***************************************************************************)
EXTENDS FrameText

CONSTANTS
  UsizeMax,     \* usize::MAX
  MaxInput,     \* bound: no more than this many atoms arrive
  MaxChunk,     \* bound: no more than this many arrive at once
  Continuations \* texts the peer might have sent on, for RefusedOnlyIfHopeless

ASSUME BoundAssumption ==
  /\ UsizeMax \in Nat /\ MaxLen =< UsizeMax
  /\ MaxInput \in Nat /\ MaxChunk \in Nat
  /\ Continuations \subseteq Text

VARIABLES
  input, eof,   \* the peer's bytes, and whether the reader has seen the end
  pos,          \* how much of input is consumed
  framing,      \* field framing
  desync,       \* field desync: "None", or the first reason
  pc,           \* where the read is: idle, the line it is after, or the body
  start,        \* where that line or body starts
  lines,        \* header lines of the frame so far
  declared,     \* the length its header declared
  out,          \* what the last read_message returned
  base          \* ghost: where the frame being read, or next, starts

peer == <<input, eof>>
vars == <<input, eof, pos, framing, desync, pc, start, lines, declared, out, base>>

\* The lines read_line is called for: by read_auto, by read_newline, as the
\* first of a later Content-Length frame, and as one of its headers.
LineGoals == {"auto", "newline", "opening", "header"}

Message(text) == [kind |-> "message", text |-> text]
Outcome(kind) == [kind |-> kind, text |-> <<>>]

Init ==
  /\ input = <<>> /\ eof = FALSE /\ pos = 0
  /\ framing = "Auto" /\ desync = "None"
  /\ pc = "idle" /\ start = 0 /\ lines = 0 /\ declared = 0
  /\ out = Outcome("none") /\ base = 0

-----------------------------------------------------------------------------
(* How a read ends *)

Return(result, e) ==
  /\ pc' = "idle" /\ pos' = e /\ out' = result
  /\ start' = e /\ lines' = 0 /\ declared' = 0

\* The frame was consumed in full, up to e; what it yields may still be an
\* error.
Finish(result, e) ==
  /\ Return(result, e) /\ base' = e
  /\ UNCHANGED desync

Deliver(text, result, e) ==
  Finish(IF IsUtf8(text) THEN result ELSE Outcome("invalid"), e)

\* desync_error and poison: the first reason is kept.
Desync(reason, result, e) ==
  /\ Return(result, e)
  /\ desync' = IF desync = "None" THEN reason ELSE desync
  /\ UNCHANGED base

Refuse(reason, e) == Desync(reason, Outcome("invalid"), e)

\* Mutant of OverCap: a line exactly at the cap is refused.
OverCapAtCap(n) == n >= MaxLen

\* check_len
OverCap(n) == n > MaxLen

-----------------------------------------------------------------------------
(* read_message: which read it is. *)

\* Mutant of ReadMessage: a desynchronised transport is read on.
ReadMessageRegardless ==
  /\ pc = "idle"
  /\ pc' = CASE framing = "Auto" -> "auto"
             [] framing = "Newline" -> "newline"
             [] framing = "ContentLength" -> "opening"
  /\ UNCHANGED <<peer, pos, framing, desync, start, lines, declared, out, base>>

ReadMessage ==
  /\ pc = "idle"
  /\ IF desync # "None"
       THEN out' = Outcome("invalid") /\ UNCHANGED pc
       ELSE /\ pc' = CASE framing = "Auto" -> "auto"
                       [] framing = "Newline" -> "newline"
                       [] framing = "ContentLength" -> "opening"
            /\ UNCHANGED out
  /\ UNCHANGED <<peer, pos, framing, desync, start, lines, declared, base>>

-----------------------------------------------------------------------------
(* The buffered reader: nothing is buffered, so it asks the stream. *)

BodyComplete == pc = "body" /\ pos - start = declared

AwaitingPeer == pc # "idle" /\ ~BodyComplete /\ pos = Len(input) /\ ~eof

Fill ==
  /\ AwaitingPeer
  /\ \E n \in 1 .. MaxChunk :
       /\ Len(input) + n =< MaxInput
       /\ \E chunk \in [1 .. n -> Bytes] : input' = input \o chunk
  /\ UNCHANGED <<eof, pos, framing, desync, pc, start, lines, declared, out, base>>

FillEof ==
  /\ AwaitingPeer
  /\ eof' = TRUE
  /\ UNCHANGED <<input, pos, framing, desync, pc, start, lines, declared, out, base>>

\* An io error.  read_line hands it up; read_frame_line and the body read
\* poison the transport first.
FillFail ==
  /\ AwaitingPeer
  /\ IF pc \in {"auto", "newline"}
       THEN Finish(Outcome("io"), pos)
       ELSE Desync("io", Outcome("io"), pos)
  /\ UNCHANGED <<peer, framing>>

-----------------------------------------------------------------------------
(* What is done with a line once it is complete: (start, e].              *)

OpenFrame(line, e) ==
  \/ /\ DeclaredLengths(line) = {} /\ Refuse("bad length", e)
  \/ /\ declared' \in DeclaredLengths(line)
     /\ pc' = "header" /\ lines' = 1 /\ start' = e /\ pos' = e
     /\ UNCHANGED <<desync, out, base>>

AutoLine(line, e) ==
  \/ /\ IsBlank(line)
     /\ start' = e /\ pos' = e /\ base' = e
     /\ UNCHANGED <<framing, desync, pc, lines, declared, out>>
  \/ /\ IsHeader(line)
     /\ framing' = "ContentLength" /\ OpenFrame(line, e)
  \/ /\ ~IsBlank(line) /\ ~IsHeader(line)
     /\ framing' = "Newline" /\ Finish(Message(TrimCrlf(line)), e)

OpeningLine(line, e) ==
  /\ UNCHANGED framing
  /\ IF IsHeader(line) THEN OpenFrame(line, e) ELSE Refuse("no header", e)

\* Mutant of LinesSeen: the header lines are not counted.
LinesUncounted == lines

LinesSeen == lines + 1

HeaderLine(line, e) ==
  /\ UNCHANGED framing
  /\ \/ /\ IsEmpty(line)
        /\ pc' = "body" /\ start' = e /\ pos' = e
        /\ UNCHANGED <<desync, lines, declared, out, base>>
     \/ /\ ~IsEmpty(line) /\ LinesSeen > MaxHeaderLines
        /\ Refuse("header lines", e)
     \/ /\ ~IsEmpty(line) /\ LinesSeen =< MaxHeaderLines
        /\ lines' = LinesSeen /\ start' = e /\ pos' = e
        /\ UNCHANGED <<desync, pc, declared, out, base>>

\* Mutant of InsideFrame: read_line is called where read_frame_line should be.
InsideFrameUnnoticed == FALSE

\* The line is read by read_frame_line, which poisons the transport on failure.
InsideFrame == pc \in {"opening", "header"}

\* read_line after its loop, and the caller it returns to.
LineRead(e) ==
  LET line == Between(input, start, e)
  IN  \/ /\ OverCap(e - start)
         /\ Refuse("line length", e) /\ UNCHANGED framing
      \/ /\ ~OverCap(e - start) /\ ~IsUtf8(line)
         /\ IF InsideFrame
              THEN Refuse("undecodable header", e)
              ELSE Finish(Outcome("invalid"), e)
         /\ UNCHANGED framing
      \/ /\ ~OverCap(e - start) /\ IsUtf8(line)
         /\ \/ pc = "auto" /\ AutoLine(line, e)
            \/ pc = "newline" /\ Finish(Message(TrimCrlf(line)), e) /\ UNCHANGED framing
            \/ pc = "opening" /\ OpeningLine(line, e)
            \/ pc = "header" /\ HeaderLine(line, e)

-----------------------------------------------------------------------------
(* read_line: one piece of buffered text. *)

\* Mutants of Budget: what is already buffered is forgotten; the byte that tells
\* an oversize line from a full one is forgotten.
BudgetPerChunk == MaxLen + 1
BudgetToCap == IF pos - start > MaxLen THEN 0 ELSE MaxLen - (pos - start)

\* self.max_len.saturating_sub(buf.len()) + 1, in usize arithmetic as a release
\* build does it
Budget ==
  ((IF pos - start > MaxLen THEN 0 ELSE MaxLen - (pos - start)) + 1)
    % (UsizeMax + 1)

Take(available, budget) == IF available < budget THEN available ELSE budget

TakeLine ==
  /\ pc \in LineGoals /\ pos < Len(input)
  /\ \E to \in pos .. Len(input) :
       /\ to = pos + Take(Len(input) - pos, Budget)
       /\ \/ \E nl \in pos + 1 .. to :
               /\ input[nl] = Newline
               /\ \A i \in pos + 1 .. nl - 1 : input[i] # Newline
               /\ LineRead(nl)
          \/ /\ \A i \in pos + 1 .. to : input[i] # Newline
             /\ IF OverCap(to - start)
                  THEN Refuse("line length", to)
                  ELSE /\ pos' = to
                       /\ UNCHANGED <<desync, pc, start, lines, declared, out, base>>
             /\ UNCHANGED framing
  /\ UNCHANGED peer

LineAtEof ==
  /\ pc \in LineGoals /\ pos = Len(input) /\ eof
  /\ IF pos = start
       THEN Finish(Outcome("closed"), pos) /\ UNCHANGED framing
       ELSE LineRead(pos)
  /\ UNCHANGED peer

-----------------------------------------------------------------------------
(* The body: (&mut self.reader).take(declared).read_to_end(&mut buf). *)

TakeBody ==
  /\ pc = "body" /\ ~BodyComplete /\ pos < Len(input)
  /\ pos' = pos + Take(Len(input) - pos, declared - (pos - start))
  /\ UNCHANGED <<peer, framing, desync, pc, start, lines, declared, out, base>>

BodyRead ==
  /\ BodyComplete
  /\ LET text == Between(input, start, pos)
     IN  Deliver(text, Message(text), pos)
  /\ UNCHANGED <<peer, framing>>

BodyAtEof ==
  /\ pc = "body" /\ ~BodyComplete /\ pos = Len(input) /\ eof
  /\ Refuse("short body", pos)
  /\ UNCHANGED <<peer, framing>>

-----------------------------------------------------------------------------

Step == ReadMessage \/ TakeLine \/ LineAtEof \/ TakeBody \/ BodyRead \/ BodyAtEof

Next == Step \/ Fill \/ FillEof \/ FillFail

Spec == Init /\ [][Next]_vars

\* The reader's task is polled while it can go on; the peer owes nothing.
FairSpec == Spec /\ WF_vars(Step)
-----------------------------------------------------------------------------
(* What must hold *)

Reasons == {"line length", "bad length", "no header", "header lines",
            "undecodable header", "short body", "io"}

IsResult(r) ==
  /\ r \in [kind : {"none", "message", "invalid", "closed", "io"}, text : Text]
  /\ r.kind # "message" => r.text = <<>>

\* The type invariant.
TypeOK ==
  /\ input \in Text /\ eof \in BOOLEAN
  /\ base \in Nat /\ start \in base .. Len(input) /\ pos \in start .. Len(input)
  /\ framing \in {"Auto", "Newline", "ContentLength"}
  /\ desync \in Reasons \cup {"None"}
  /\ pc \in LineGoals \cup {"idle", "body"}
  /\ lines \in 0 .. MaxHeaderLines
  /\ declared \in 0 .. MaxLen
  /\ IsResult(out)

\* "rejected after at most max_len + 1 bytes" (transport.rs:8-13): no step takes
\* more of one line than that, or more of a body than was declared, however the
\* peer cuts its bytes up.
BoundedReads ==
  [][/\ pc \in LineGoals => pos' - start =< MaxLen + 1
     /\ pc = "body" => pos' - start =< declared]_vars

\* "one frame cannot cost unbounded reads" (transport.rs:12-13): the bytes
\* spent on one frame, finished or refused, are bounded by the two caps.
FrameBound == (MaxHeaderLines + 2) * MaxLen + 1

BoundedFrame == pos - base =< FrameBound

\* The inductive invariant behind the four bounds: what is collected never
\* passes the cap between two reads, and what was spent on the frame so far is
\* covered by the lines counted so far.
BoundedBuffer ==
  /\ pc \in LineGoals => pos - start =< MaxLen
  /\ pc = "body" => pos - start =< declared

Spent ==
  /\ pc \in {"auto", "newline", "opening"} => start = base
  /\ pc = "header" => lines > 0 /\ start - base =< lines * MaxLen
  /\ pc = "body" => start - base =< (MaxHeaderLines + 1) * MaxLen
  /\ pc = "idle" => /\ start = pos
                    /\ IF desync = "None" THEN base = pos ELSE BoundedFrame

\* TypeOK, the buffer bound and the spending bound, as one (read_line,
\* read_content_length): what every step keeps.
IInv == TypeOK /\ BoundedBuffer /\ Spent

\* "Set by the first violation and never cleared; while set, every read fails"
\* (transport.rs:94-96): once framing is lost no byte is consumed, the first
\* reason stays, and no read returns anything but an error.
PoisonIsForever ==
  [][desync # "None" =>
       /\ UNCHANGED <<input, pos, framing, desync, pc>>
       /\ out' \in {out, Outcome("invalid")}]_vars

\* A stream is not ended for nothing: unless the read itself failed, no way the
\* peer could go on (with one of the Continuations) makes a frame of what
\* it sent (declared_length, the header count, the cap, the short body).
RefusedOnlyIfHopeless ==
  desync \notin {"None", "io"} =>
    \A more \in (IF eof THEN {<<>>} ELSE Continuations), closed \in {eof, TRUE} :
      ~HasFrame(input \o more, closed, framing, base)

Stream == INSTANCE MessageStream
            WITH at <- base, mode <- framing, dead <- desync # "None", result <- out

\* The module comment's promise (transport.rs:15-28): every message is the frame
\* that starts where the last one ended, complete and unaltered, in whatever
\* pieces it arrives; and nothing behind an abandoned frame is delivered.
ReadsFrames == Stream!Spec

\* A read returns or waits for the peer; it never spins on bytes it holds
\* (transport.rs:214-217 "we stop and error after at most `max_len + 1` bytes").
ReadsSettle == (pc # "idle") ~> (pc = "idle" \/ AwaitingPeer)

-----------------------------------------------------------------------------
(* What the code or its docs say, and a run refutes *)

\* "given up on part-way through (an undecodable header ...)" ends the stream
\* (transport.rs:15-23): so does one in the frame that opens it.
UndecodableHeaderEndsStream ==
  [][(/\ pc \in LineGoals /\ pc' = "idle" /\ out'.kind = "invalid"
      /\ IsHeader(Between(input, start, pos'))) => desync' # "None"]_vars
=============================================================================
