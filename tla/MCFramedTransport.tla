------------------------- MODULE MCFramedTransport -------------------------
(* Instances of FramedTransport for TLC. *)
EXTENDS FramedTransport, SequencesExt

\* nl, cr, sp: newline, carriage return, space.  x: any other text.
\* bad: not UTF-8.  h0, h1, h9: Content-Length headers, h9 past every cap
\* used here.  junk: a Content-Length header with no usable value.
MCLengthOf ==
  [h \in {"h0", "h1", "h9"} \cap Bytes |->
     CASE h = "h0" -> 0 [] h = "h1" -> 1 [] h = "h9" -> 9]

\* What the peer could still send after a refused frame.
MCContinuations == BoundedSeq(Bytes, 2)
=============================================================================
