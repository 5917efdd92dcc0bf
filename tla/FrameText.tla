------------------------------ MODULE FrameText ------------------------------
(***************************************************************************)
(* The wire text of src/src/transport.rs: what the transport asks of a     *)
(* line, and which prefix of a text is one frame.  Constant operators      *)
(* only: the reader that finds these answers piece by piece is in          *)
(* FramedTransport, and what it promises is in MessageStream.              *)
(*                                                                         *)
(* An atom of Bytes stands for the bytes the reader tells apart.  One atom *)
(* of DOMAIN LengthOf stands for the text `Content-Length: n`, and one of  *)
(* BadHeaders for `Content-Length:` followed by no value, by something     *)
(* that is not a byte count, or by a count usize cannot hold.  Every       *)
(* length below counts atoms.                                              *)
(***************************************************************************)
EXTENDS Naturals, Sequences, FiniteSets

CONSTANTS Bytes, Newline, CarriageReturn,
          WhiteSpace,       \* what str::trim removes
          NotUtf8,          \* atoms that no UTF-8 text contains
          LengthOf,         \* header atom -> the length it declares
          BadHeaders,       \* header atoms with an unusable value
          MaxLen,           \* max_len, the cap on a line and on a body
          MaxHeaderLines    \* MAX_HEADER_LINES

Headers == BadHeaders \cup DOMAIN LengthOf

ASSUME BytesAssumption ==
  /\ Newline # CarriageReturn
  /\ {Newline, CarriageReturn} \subseteq WhiteSpace
  /\ {Newline} \cup NotUtf8 \cup Headers \subseteq Bytes
  /\ WhiteSpace \cap (NotUtf8 \cup Headers) = {}
  /\ NotUtf8 \cap Headers = {}
  /\ LengthOf \in [DOMAIN LengthOf -> Nat]

ASSUME LimitAssumption == MaxLen \in Nat /\ MaxHeaderLines \in Nat \ {0}

Text == Seq(Bytes)

-----------------------------------------------------------------------------
(* Questions about one line. *)

\* content_length_value: the name before the first ':' of the trimmed line.
IsHeader(line) ==
  \E i \in DOMAIN line : /\ line[i] \in Headers
                         /\ \A j \in 1 .. i - 1 : line[j] \in WhiteSpace

\* Mutant of DeclaredLengths: the cap is not applied to a declared length.
DeclaredLengthsUncapped(line) ==
  LET isOnlyInk(i) == /\ line[i] \in DOMAIN LengthOf
                      /\ \A j \in DOMAIN line \ {i} : line[j] \in WhiteSpace
  IN  { LengthOf[line[i]] : i \in {k \in DOMAIN line : isOnlyInk(k)} }

\* declared_length: the lengths it accepts for a line - one, or none when the
\* value is unusable or past the cap.
DeclaredLengths(line) ==
  LET isOnlyInk(i) == /\ line[i] \in DOMAIN LengthOf
                      /\ \A j \in DOMAIN line \ {i} : line[j] \in WhiteSpace
  IN  { LengthOf[line[i]] : i \in {k \in DOMAIN line : isOnlyInk(k)} }
        \cap 0 .. MaxLen

\* String::from_utf8 succeeds.
IsUtf8(line) == \A i \in DOMAIN line : line[i] \notin NotUtf8

\* str::trim leaves nothing (read_auto) ...
IsBlank(line) == \A i \in DOMAIN line : line[i] \in WhiteSpace

LineEnds == {Newline, CarriageReturn}

\* ... and trim_crlf leaves nothing: the line that ends a header block.
IsEmpty(line) == \A i \in DOMAIN line : line[i] \in LineEnds

\* trim_crlf: what is left ends with the last atom that is not a line end.
TrimCrlf(line) ==
  LET kept == {i \in DOMAIN line : \E j \in DOMAIN line :
                 i =< j /\ line[j] \notin LineEnds}
  IN  SubSeq(line, 1, Cardinality(kept))

-----------------------------------------------------------------------------
(* Lines and frames of a text t, which is final if the peer has closed.  A *)
(* line or a frame is named by the positions around it: (from, to] is      *)
(* t[from+1] ... t[to].                                                    *)

Between(t, from, to) == SubSeq(t, from + 1, to)

\* read_line: up to a newline, or up to the end of a final text.
IsLine(t, closed, from, to) ==
  /\ from < to /\ to =< Len(t)
  /\ t[to] = Newline \/ (closed /\ to = Len(t))
  /\ \A i \in from + 1 .. to - 1 : t[i] # Newline

IsGoodLine(t, closed, from, to) ==
  /\ IsLine(t, closed, from, to)
  /\ to - from =< MaxLen
  /\ IsUtf8(Between(t, from, to))

\* Where the lines of (from, to] start.
LineStarts(t, from, to) == {i \in from .. to - 1 : i = from \/ t[i] = Newline}

\* The header block (from, to]: at most MaxHeaderLines lines, and the first empty
\* line, which ends the block.
IsHeaderBlock(t, closed, from, to) ==
  /\ from < to
  /\ Cardinality(LineStarts(t, from, to)) =< MaxHeaderLines + 1
  /\ \A a \in LineStarts(t, from, to) : \E b \in a + 1 .. to :
       /\ IsGoodLine(t, closed, a, b)
       /\ IsEmpty(Between(t, a, b)) <=> b = to

\* The block starts with a line that declares a body of n atoms.
Declares(t, closed, from, to, n) ==
  \E l \in from + 1 .. to : /\ IsLine(t, closed, from, l)
                            /\ n \in DeclaredLengths(Between(t, from, l))

\* The frame (from, to] of a Content-Length stream, whose body is (body, to].
IsFrame(t, closed, from, body, to) ==
  /\ IsHeaderBlock(t, closed, from, body)
  /\ to =< Len(t)
  /\ Declares(t, closed, from, body, to - body)

\* Some frame of a stream in the given mode starts at `from`.
HasFrame(t, closed, mode, from) ==
  IF mode = "ContentLength"
    THEN \E body \in from + 1 .. Len(t), to \in from + 1 .. Len(t) :
           IsFrame(t, closed, from, body, to)
    ELSE \E to \in from + 1 .. Len(t) :
           IsLine(t, closed, from, to) /\ to - from =< MaxLen
=============================================================================
