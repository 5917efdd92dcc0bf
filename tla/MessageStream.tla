---------------------------- MODULE MessageStream ----------------------------
(***************************************************************************)
(* What src/src/transport.rs promises its caller (module comment, lines    *)
(* 1-28): a byte stream is cut into frames, each read hands over the frame *)
(* that starts where the last one ended, whole, and a frame that cannot be *)
(* finished ends the stream.  A read is one step here, whatever pieces the *)
(* bytes arrive in; FramedTransport is shown to implement it.              *)
(***************************************************************************)
EXTENDS FrameText

VARIABLES
  input,    \* the bytes the peer has sent, as far as the reader has seen them
  eof,      \* the reader has seen the peer close
  at,       \* where the next frame starts
  mode,     \* "Auto", "Newline" or "ContentLength"
  dead,     \* the stream is desynchronised
  result    \* what the last read returned

vars == <<input, eof, at, mode, dead, result>>

Message(text) == [kind |-> "message", text |-> text]
Outcome(kind) == [kind |-> kind, text |-> <<>>]

\* What a frame that was consumed in full yields.
Decoded(text) == IF IsUtf8(text) THEN Message(text) ELSE Outcome("invalid")

Init ==
  /\ input = <<>> /\ eof = FALSE
  /\ at = 0 /\ mode = "Auto" /\ dead = FALSE
  /\ result = Outcome("none")

-----------------------------------------------------------------------------
(* The peer *)

Arrive ==
  /\ ~eof
  /\ Len(input') > Len(input)
  /\ SubSeq(input', 1, Len(input)) = input
  /\ UNCHANGED <<eof, at, mode, dead, result>>

Close ==
  /\ ~eof /\ eof'
  /\ UNCHANGED <<input, at, mode, dead, result>>

-----------------------------------------------------------------------------
(* The reader.  Line(to) is the line that starts at `at`. *)

Live == ~dead /\ UNCHANGED <<input, eof>>

Line(to) == IsLine(input, eof, at, to) /\ to - at =< MaxLen

\* Before the first message: blank lines are passed over ...
SkipBlankLine ==
  /\ Live /\ mode = "Auto"
  /\ \E to \in at + 1 .. Len(input) :
       /\ Line(to) /\ IsBlank(Between(input, at, to))
       /\ at' = to
  /\ UNCHANGED <<mode, dead, result>>

\* ... and the first other line settles the mode for good.
OpensContentLength ==
  /\ mode = "Auto"
  /\ \E to \in at + 1 .. Len(input) :
       LET line == Between(input, at, to)
       IN  Line(to) /\ IsUtf8(line) /\ IsHeader(line)

ChooseContentLength ==
  /\ Live /\ OpensContentLength
  /\ mode' = "ContentLength"
  /\ UNCHANGED <<at, dead, result>>

ReadLine ==
  /\ Live /\ mode # "ContentLength"
  /\ \E to \in at + 1 .. Len(input) :
       LET line == Between(input, at, to)
       IN  /\ Line(to)
           /\ mode = "Auto" => ~IsBlank(line) /\ ~(IsUtf8(line) /\ IsHeader(line))
           /\ at' = to
           /\ mode' = IF IsUtf8(line) THEN "Newline" ELSE mode
           /\ result' = IF IsUtf8(line) THEN Message(TrimCrlf(line))
                                        ELSE Outcome("invalid")
  /\ UNCHANGED dead

ReadFrame ==
  /\ Live /\ mode = "ContentLength"
  /\ \E body \in at + 1 .. Len(input), to \in at + 1 .. Len(input) :
       /\ IsFrame(input, eof, at, body, to)
       /\ at' = to
       /\ result' = Decoded(Between(input, body, to))
  /\ UNCHANGED <<mode, dead>>

\* A frame is refused only if none starts here, and that is the end.
Refuse ==
  /\ Live
  /\ mode' = mode \/ (OpensContentLength /\ mode' = "ContentLength")
  /\ ~HasFrame(input, eof, mode', at)
  /\ dead' = TRUE /\ result' = Outcome("invalid")
  /\ UNCHANGED at

\* The peer is gone, and left no frame behind.
Ended ==
  /\ Live /\ eof /\ ~HasFrame(input, eof, mode, at)
  /\ at' = Len(input) /\ result' = Outcome("closed")
  /\ UNCHANGED <<mode, dead>>

\* The read itself failed.  A Content-Length stream is then dead; a stream of
\* lines goes on, wherever the failure left it.
Fail ==
  /\ Live /\ result' = Outcome("io")
  /\ \/ dead' = TRUE /\ at' = at /\ mode = "ContentLength"
     \/ dead' = FALSE /\ at' \in at .. Len(input) /\ mode # "ContentLength"
  /\ UNCHANGED mode

ReadDead ==
  /\ dead /\ result' = Outcome("invalid")
  /\ UNCHANGED <<input, eof, at, mode, dead>>

Next ==
  \/ Arrive \/ Close
  \/ SkipBlankLine \/ ChooseContentLength \/ ReadLine \/ ReadFrame
  \/ Refuse \/ Ended \/ Fail \/ ReadDead

Spec == Init /\ [][Next]_vars
=============================================================================
