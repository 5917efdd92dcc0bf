----------------------- MODULE FramedTransport_proofs -----------------------
(***************************************************************************)
(* Proofs about FramedTransport, for every alphabet, cap and header limit: *)
(* IInv is inductive, and the bounds on what a read takes follow from it;  *)
(* Scanned says what a read has found of the text so far, and with it the  *)
(* reader implements MessageStream and refuses only what is hopeless.      *)
(***************************************************************************)
EXTENDS FramedTransport, FiniteSetTheorems, SequenceTheorems,
        WellFoundedInduction, TLAPS

-----------------------------------------------------------------------------
(* The text operators *)

\* A piece of a text is a text.
LEMMA BetweenType ==
  ASSUME NEW t \in Text, NEW from \in Nat, NEW to \in Nat, to =< Len(t)
  PROVE  Between(t, from, to) \in Text
<1>1. \A i \in from + 1 .. to : t[i] \in Bytes
  BY DEF Text
<1> QED
  BY <1>1, SubSeqProperties DEF Between, Text

\* What trim_crlf leaves of a text is a text.
LEMMA TrimCrlfType ==
  ASSUME NEW t \in Text
  PROVE  TrimCrlf(t) \in Text
<1> DEFINE kept == {i \in DOMAIN t : \E j \in DOMAIN t : i =< j /\ t[j] \notin LineEnds}
<1>1. Len(t) \in Nat /\ DOMAIN t = 1 .. Len(t)
  BY LenProperties DEF Text
<1>2. kept \in SUBSET (1 .. Len(t))
  BY <1>1
<1>3. IsFiniteSet(1 .. Len(t)) /\ Cardinality(1 .. Len(t)) = Len(t)
  <2>1. /\ IsFiniteSet(1 .. Len(t))
        /\ Cardinality(1 .. Len(t)) = IF 1 > Len(t) THEN 0 ELSE Len(t) - 1 + 1
    BY <1>1, FS_Interval
  <2> QED
    BY <1>1, <2>1
<1>4. Cardinality(kept) \in Nat /\ Cardinality(kept) =< Len(t)
  BY <1>2, <1>3, FS_Subset, FS_CardinalityType
<1>5. \A i \in 1 .. Cardinality(kept) : t[i] \in Bytes
  BY <1>1, <1>4 DEF Text
<1>6. SubSeq(t, 1, Cardinality(kept)) \in Text
  BY <1>4, <1>5, SubSeqProperties DEF Text
<1> QED
  BY <1>6 DEF TrimCrlf

\* declared_length accepts no length past the cap.
LEMMA DeclaredLengthsType ==
  ASSUME NEW t
  PROVE  DeclaredLengths(t) \subseteq 0 .. MaxLen
BY DEF DeclaredLengths

-----------------------------------------------------------------------------
(* Arithmetic of the frame bound *)

\* The frame bound and the limits it is made of are numbers.
LEMMA FrameBoundType ==
  FrameBound \in Nat /\ MaxLen \in Nat /\ MaxHeaderLines \in Nat /\ MaxHeaderLines > 0
<1>1. MaxLen \in Nat /\ MaxHeaderLines \in Nat /\ MaxHeaderLines > 0
  BY LimitAssumption
<1>2. \A m, n \in Nat : (m + 2) * n + 1 \in Nat
  OBVIOUS
<1> QED
  BY <1>1, <1>2 DEF FrameBound

\* One more line on top of n counted ones.
LEMMA OneMoreLine ==
  ASSUME NEW n \in Nat, n + 1 =< MaxHeaderLines + 1
  PROVE  /\ (n + 1) * MaxLen = n * MaxLen + MaxLen
         /\ n * MaxLen \in Nat
         /\ (n + 1) * MaxLen =< (MaxHeaderLines + 1) * MaxLen
         /\ (MaxHeaderLines + 1) * MaxLen + MaxLen + 1 = FrameBound
<1>1. \A a, b, c \in Nat : a =< b => a * c =< b * c
  OBVIOUS
<1>2. \A a, c \in Nat : (a + 1) * c = a * c + c /\ a * c \in Nat
  OBVIOUS
<1>3. (MaxHeaderLines + 1) * MaxLen + MaxLen + 1 = FrameBound
  BY FrameBoundType DEF FrameBound
<1> QED
  BY <1>1, <1>2, <1>3, FrameBoundType

-----------------------------------------------------------------------------
(* How a read ends *)

Modes == {"Auto", "Newline", "ContentLength"}

\* Every way to end a read leaves the invariant: the frame is consumed up to e,
\* or it is abandoned at e and the transport desynchronised.
LEMMA ReturnKeepsIInv ==
  ASSUME IInv, UNCHANGED peer, framing' \in Modes,
         NEW result, IsResult(result),
         NEW e \in start .. Len(input),
         Return(result, e),
         desync' \in Reasons \cup {"None"},
         \/ base' = e
         \/ base' = base /\ desync' # "None" /\ e - base =< FrameBound
  PROVE  IInv'
<1>1. Len(input) \in Nat /\ base \in Nat /\ start \in Nat /\ e \in Nat /\ base =< e
  BY LenProperties DEF IInv, TypeOK, Text
<1>2. TypeOK'
  BY <1>1, FrameBoundType DEF IInv, TypeOK, Return, peer, Modes, IsResult
<1>3. BoundedBuffer' /\ Spent'
  BY <1>1, FrameBoundType DEF Return, BoundedBuffer, Spent, BoundedFrame, FrameBound, LineGoals
<1> QED
  BY <1>2, <1>3 DEF IInv

\* A frame abandoned at e (desync_error, poison) is one way to end a read.
LEMMA RefuseKeepsIInv ==
  ASSUME IInv, UNCHANGED peer, framing' \in Modes,
         NEW reason \in Reasons, NEW result, IsResult(result),
         NEW e \in start .. Len(input), e - base =< FrameBound,
         Desync(reason, result, e)
  PROVE  IInv'
<1>1. desync' \in Reasons /\ desync' # "None"
  BY DEF Desync, IInv, TypeOK, Reasons
<1> QED
  BY <1>1, ReturnKeepsIInv DEF Desync

\* A frame consumed in full up to e is the other.
LEMMA FinishKeepsIInv ==
  ASSUME IInv, UNCHANGED peer, framing' \in Modes,
         NEW result, IsResult(result),
         NEW e \in start .. Len(input),
         Finish(result, e)
  PROVE  IInv'
BY ReturnKeepsIInv DEF Finish, IInv, TypeOK

\* What read_message returns has the type of `out`.
LEMMA ResultTypes ==
  /\ \A t \in Text : IsResult(Message(t))
  /\ \A k \in {"none", "invalid", "closed", "io"} : IsResult(Outcome(k))
BY DEF IsResult, Message, Outcome, Text

\* What a frame has cost once the line being read is complete, or refused.
LEMMA LineCost ==
  ASSUME IInv, pc \in LineGoals, NEW e \in Nat, start =< e, e - start =< MaxLen + 1
  PROVE  e - base =< FrameBound
<1>1. base \in Nat /\ start \in Nat /\ lines \in Nat /\ lines =< MaxHeaderLines
  BY LenProperties, FrameBoundType DEF IInv, TypeOK, Text
<1>2. start - base =< lines * MaxLen \/ start = base
  BY DEF IInv, Spent, LineGoals
<1>3. /\ (lines + 1) * MaxLen = lines * MaxLen + MaxLen
      /\ lines * MaxLen \in Nat
      /\ (lines + 1) * MaxLen =< (MaxHeaderLines + 1) * MaxLen
      /\ (MaxHeaderLines + 1) * MaxLen + MaxLen + 1 = FrameBound
  BY <1>1, OneMoreLine, FrameBoundType
<1> DEFINE spent == lines * MaxLen
           all == (MaxHeaderLines + 1) * MaxLen
<1>4. spent \in Nat /\ spent + MaxLen =< all /\ all + MaxLen + 1 = FrameBound /\ all \in Int
  BY <1>3, FrameBoundType
<1>5. start - base =< spent \/ start = base
  BY <1>2
<1> HIDE DEF spent, all
<1> QED
  BY <1>1, <1>4, <1>5, FrameBoundType

-----------------------------------------------------------------------------
(* A complete line *)

\* read_content_length with its first line: a frame is opened or refused.
LEMMA OpenFrameKeepsIInv ==
  ASSUME IInv, UNCHANGED peer, framing' \in Modes,
         pc \in {"auto", "opening"},
         NEW line, NEW e \in start .. Len(input), e - start =< MaxLen,
         OpenFrame(line, e)
  PROVE  IInv'
<1>1. Len(input) \in Nat /\ base \in Nat /\ start \in Nat /\ e \in Nat /\ base = start
  BY LenProperties DEF IInv, TypeOK, Text, Spent
<1>2. CASE Refuse("bad length", e)
  <2>1. e - start =< MaxLen + 1 /\ start =< e /\ pc \in LineGoals
    BY <1>1, FrameBoundType DEF LineGoals
  <2>2. e - base =< FrameBound
    BY <1>1, <2>1, LineCost
  <2> QED
    BY <1>2, <2>2, RefuseKeepsIInv, ResultTypes DEF Refuse, Reasons
<1>3. CASE /\ declared' \in DeclaredLengths(line)
           /\ pc' = "header" /\ lines' = 1 /\ start' = e /\ pos' = e
           /\ UNCHANGED <<desync, out, base>>
  <2>1. declared' \in 0 .. MaxLen
    BY <1>3, DeclaredLengthsType
  <2>2. TypeOK'
    BY <1>1, <1>3, <2>1, FrameBoundType DEF IInv, TypeOK, peer, Modes, LineGoals
  <2>3. lines' * MaxLen = MaxLen
    BY <1>3, FrameBoundType
  <2>4. BoundedBuffer' /\ Spent'
    BY <1>1, <1>3, <2>3, FrameBoundType DEF BoundedBuffer, Spent, LineGoals
  <2> QED
    BY <2>2, <2>4 DEF IInv
<1> QED
  BY <1>2, <1>3 DEF OpenFrame

\* One more header line: the block ends, is too long, or goes on one line dearer.
LEMMA HeaderLineKeepsIInv ==
  ASSUME IInv, UNCHANGED peer, pc = "header",
         NEW line, NEW e \in start .. Len(input), e - start =< MaxLen,
         HeaderLine(line, e)
  PROVE  IInv'
<1>1. /\ Len(input) \in Nat /\ base \in Nat /\ start \in Nat /\ e \in Nat
      /\ base =< start /\ lines \in Nat /\ 0 < lines /\ lines =< MaxHeaderLines
  BY LenProperties, FrameBoundType DEF IInv, TypeOK, Text, Spent
<1> DEFINE spent == lines * MaxLen
           next == (lines + 1) * MaxLen
           all == (MaxHeaderLines + 1) * MaxLen
<1>2. spent \in Nat /\ next = spent + MaxLen /\ next =< all
  BY <1>1, OneMoreLine, FrameBoundType
<1>3. start - base =< spent
  BY DEF IInv, Spent
<1>4. e - base =< next /\ e - base =< all /\ base =< e
  <2> HIDE DEF spent, next, all
  <2>1. all \in Int
    BY FrameBoundType DEF all
  <2> QED
    BY <1>1, <1>2, <1>3, <2>1, FrameBoundType
<1>5. framing' \in Modes
  BY DEF HeaderLine, IInv, TypeOK, Modes
<1>6. CASE Refuse("header lines", e)
  <2>1. e - start =< MaxLen + 1 /\ start =< e /\ pc \in LineGoals
    BY <1>1, FrameBoundType DEF LineGoals
  <2>2. e - base =< FrameBound
    BY <1>1, <2>1, LineCost
  <2> QED
    BY <1>5, <1>6, <2>2, RefuseKeepsIInv, ResultTypes DEF Refuse, Reasons
<1>7. CASE /\ pc' = "body" /\ start' = e /\ pos' = e
           /\ UNCHANGED <<desync, lines, declared, out, base>>
  <2>1. TypeOK'
    BY <1>1, <1>4, <1>5, <1>7 DEF IInv, TypeOK, peer, Modes
  <2>2. BoundedBuffer'
    BY <1>1, <1>7 DEF IInv, TypeOK, BoundedBuffer, LineGoals
  <2>3. Spent'
    BY <1>4, <1>7 DEF Spent
  <2> QED
    BY <2>1, <2>2, <2>3 DEF IInv
<1>8. CASE /\ LinesSeen =< MaxHeaderLines
           /\ lines' = LinesSeen /\ start' = e /\ pos' = e
           /\ UNCHANGED <<desync, pc, declared, out, base>>
  <2>1. TypeOK'
    BY <1>1, <1>4, <1>5, <1>8, FrameBoundType DEF IInv, TypeOK, peer, Modes, LinesSeen
  <2>2. BoundedBuffer'
    BY <1>1, <1>8, FrameBoundType DEF BoundedBuffer
  <2>3. Spent'
    BY <1>1, <1>4, <1>8 DEF Spent, LinesSeen
  <2> QED
    BY <2>1, <2>2, <2>3 DEF IInv
<1> QED
  BY <1>6, <1>7, <1>8 DEF HeaderLine

\* read_auto: a blank line costs nothing, any other settles the framing.
LEMMA AutoLineKeepsIInv ==
  ASSUME IInv, UNCHANGED peer, pc = "auto",
         NEW line \in Text, NEW e \in start .. Len(input), e - start =< MaxLen,
         AutoLine(line, e)
  PROVE  IInv'
<1>1. Len(input) \in Nat /\ start \in Nat /\ e \in Nat /\ base = start
  BY LenProperties DEF IInv, TypeOK, Text, Spent
<1>2. CASE /\ start' = e /\ pos' = e /\ base' = e
           /\ UNCHANGED <<framing, desync, pc, lines, declared, out>>
  <2>1. TypeOK'
    BY <1>1, <1>2 DEF IInv, TypeOK, peer
  <2>2. BoundedBuffer' /\ Spent'
    BY <1>1, <1>2, FrameBoundType DEF BoundedBuffer, Spent, LineGoals
  <2> QED
    BY <2>1, <2>2 DEF IInv
<1>3. CASE framing' = "ContentLength" /\ OpenFrame(line, e)
  BY <1>3, OpenFrameKeepsIInv DEF Modes
<1>4. CASE framing' = "Newline" /\ Finish(Message(TrimCrlf(line)), e)
  BY <1>4, FinishKeepsIInv, ResultTypes, TrimCrlfType DEF Modes
<1> QED
  BY <1>2, <1>3, <1>4 DEF AutoLine

\* The first line of a later Content-Length frame (read_content_length).
LEMMA OpeningLineKeepsIInv ==
  ASSUME IInv, UNCHANGED peer, pc = "opening",
         NEW line, NEW e \in start .. Len(input), e - start =< MaxLen,
         OpeningLine(line, e)
  PROVE  IInv'
<1>1. Len(input) \in Nat /\ start \in Nat /\ e \in Nat
  BY LenProperties DEF IInv, TypeOK, Text
<1>2. framing' \in Modes
  BY DEF OpeningLine, IInv, TypeOK, Modes
<1>3. e - base =< FrameBound
  BY <1>1, LineCost, FrameBoundType DEF LineGoals
<1>4. CASE Refuse("no header", e)
  BY <1>2, <1>3, <1>4, RefuseKeepsIInv, ResultTypes DEF Refuse, Reasons
<1>5. CASE OpenFrame(line, e)
  BY <1>2, <1>5, OpenFrameKeepsIInv
<1> QED
  BY <1>4, <1>5 DEF OpeningLine

\* read_line after its loop, for every caller.
LEMMA LineReadKeepsIInv ==
  ASSUME IInv, UNCHANGED peer, pc \in LineGoals,
         NEW e \in start .. Len(input), e - start =< MaxLen + 1,
         LineRead(e)
  PROVE  IInv'
<1> DEFINE line == Between(input, start, e)
<1>1. Len(input) \in Nat /\ start \in Nat /\ e \in Nat /\ MaxLen \in Nat /\ input \in Text
  BY LenProperties, FrameBoundType DEF IInv, TypeOK, Text
<1>2. line \in Text
  BY <1>1, BetweenType
<1>3. e - base =< FrameBound
  BY <1>1, LineCost
<1>4. framing \in Modes
  BY DEF IInv, TypeOK, Modes
<1>5. CASE Refuse("line length", e) /\ UNCHANGED framing
  BY <1>3, <1>4, <1>5, RefuseKeepsIInv, ResultTypes DEF Refuse, Reasons
<1>6. CASE Refuse("undecodable header", e) /\ UNCHANGED framing
  BY <1>3, <1>4, <1>6, RefuseKeepsIInv, ResultTypes DEF Refuse, Reasons
<1>7. CASE Finish(Outcome("invalid"), e) /\ UNCHANGED framing
  BY <1>4, <1>7, FinishKeepsIInv, ResultTypes
<1>8. CASE ~OverCap(e - start) /\ pc = "auto" /\ AutoLine(line, e)
  <2>1. e - start =< MaxLen
    BY <1>1, <1>8 DEF OverCap
  <2> QED
    BY <1>2, <1>8, <2>1, AutoLineKeepsIInv
<1>9. CASE pc = "newline" /\ Finish(Message(TrimCrlf(line)), e) /\ UNCHANGED framing
  BY <1>2, <1>4, <1>9, FinishKeepsIInv, ResultTypes, TrimCrlfType
<1>10. CASE ~OverCap(e - start) /\ pc = "opening" /\ OpeningLine(line, e)
  <2>1. e - start =< MaxLen
    BY <1>1, <1>10 DEF OverCap
  <2> QED
    BY <1>10, <2>1, OpeningLineKeepsIInv
<1>11. CASE ~OverCap(e - start) /\ pc = "header" /\ HeaderLine(line, e)
  <2>1. e - start =< MaxLen
    BY <1>1, <1>11 DEF OverCap
  <2> QED
    BY <1>11, <2>1, HeaderLineKeepsIInv
<1> QED
  BY <1>5, <1>6, <1>7, <1>8, <1>9, <1>10, <1>11 DEF LineRead

-----------------------------------------------------------------------------
(* The steps of the reader *)

\* One piece of a line is at most what is left of max_len + 1.
LEMMA BudgetBound ==
  ASSUME IInv, pc \in LineGoals
  PROVE  Budget \in Nat /\ Budget + (pos - start) =< MaxLen + 1
<1>1. /\ pos \in Nat /\ start \in Nat /\ start =< pos /\ pos - start =< MaxLen
      /\ UsizeMax \in Nat /\ MaxLen \in Nat
  BY LenProperties, FrameBoundType, BoundAssumption DEF IInv, TypeOK, BoundedBuffer, Text
<1> DEFINE room == (IF pos - start > MaxLen THEN 0 ELSE MaxLen - (pos - start)) + 1
<1>2. room = MaxLen - (pos - start) + 1 /\ room \in Nat
  BY <1>1
<1>3. \A a, b \in Nat : b > 0 => a % b \in Nat /\ a % b =< a
  OBVIOUS
<1>4. Budget \in Nat /\ Budget =< room
  <2>1. Budget = room % (UsizeMax + 1)
    BY DEF Budget
  <2> HIDE DEF room
  <2> QED
    BY <1>1, <1>2, <1>3, <2>1
<1> QED
  BY <1>1, <1>2, <1>4

\* What is taken of the buffered bytes is within the budget and within the bytes.
LEMMA TakeBound ==
  ASSUME NEW a \in Nat, NEW b \in Nat
  PROVE  Take(a, b) \in Nat /\ Take(a, b) =< a /\ Take(a, b) =< b
BY DEF Take

\* One round of the loop of read_line: the budget leaves the line within the cap
\* plus one, and a line past the cap is refused.
LEMMA TakeLineKeepsIInv ==
  ASSUME IInv, TakeLine
  PROVE  IInv'
<1>1. /\ Len(input) \in Nat /\ start \in Nat /\ pos \in Nat /\ start =< pos
      /\ pos < Len(input) /\ pc \in LineGoals /\ MaxLen \in Nat
      /\ framing \in Modes /\ UNCHANGED peer
  <2>1. TypeOK /\ pos < Len(input) /\ pc \in LineGoals /\ UNCHANGED peer
    BY DEF IInv, TakeLine
  <2>2. Len(input) \in Nat
    BY <2>1, LenProperties DEF TypeOK, Text
  <2> QED
    BY <2>1, <2>2, FrameBoundType DEF TypeOK, Modes
<1> DEFINE to == pos + Take(Len(input) - pos, Budget)
<1>2. /\ to \in pos .. Len(input) /\ to \in Nat /\ to - start =< MaxLen + 1
  <2>1. Budget \in Nat /\ Budget + (pos - start) =< MaxLen + 1
    BY <1>1, BudgetBound
  <2>2. Len(input) - pos \in Nat
    BY <1>1
  <2>3. /\ Take(Len(input) - pos, Budget) \in Nat
        /\ Take(Len(input) - pos, Budget) =< Len(input) - pos
        /\ Take(Len(input) - pos, Budget) =< Budget
    BY <2>1, <2>2, TakeBound
  <2> QED
    BY <1>1, <2>1, <2>3
<1> HIDE DEF to
<1>3. CASE \E nl \in pos + 1 .. to : LineRead(nl)
  <2>1. PICK nl \in pos + 1 .. to : LineRead(nl)
    BY <1>3
  <2>2. nl \in start .. Len(input) /\ nl - start =< MaxLen + 1
    BY <1>1, <1>2
  <2> QED
    BY <1>1, <2>1, <2>2, LineReadKeepsIInv
<1>4. CASE Refuse("line length", to) /\ UNCHANGED framing
  <2>1. to - base =< FrameBound
    BY <1>1, <1>2, LineCost
  <2>2. to \in start .. Len(input)
    BY <1>1, <1>2
  <2> QED
    BY <1>1, <1>4, <2>1, <2>2, RefuseKeepsIInv, ResultTypes DEF Refuse, Reasons
<1>5. CASE /\ ~OverCap(to - start) /\ pos' = to
           /\ UNCHANGED <<desync, pc, start, lines, declared, out, base, framing>>
  <2>1. TypeOK'
    BY <1>1, <1>2, <1>5 DEF IInv, TypeOK, peer
  <2>2. BoundedBuffer'
    BY <1>1, <1>2, <1>5 DEF OverCap, BoundedBuffer, LineGoals
  <2>3. Spent'
    BY <1>1, <1>5 DEF IInv, Spent, LineGoals
  <2> QED
    BY <2>1, <2>2, <2>3 DEF IInv
<1> QED
  BY <1>3, <1>4, <1>5 DEF TakeLine, to

\* read_line at the end of the stream.
LEMMA LineAtEofKeepsIInv ==
  ASSUME IInv, LineAtEof
  PROVE  IInv'
<1>1. /\ Len(input) \in Nat /\ start \in Nat /\ pos \in start .. Len(input)
      /\ pc \in LineGoals /\ MaxLen \in Nat /\ pos - start =< MaxLen + 1
      /\ framing \in Modes /\ UNCHANGED peer
  BY LenProperties, FrameBoundType
     DEF IInv, TypeOK, Text, LineAtEof, Modes, BoundedBuffer
<1>2. CASE Finish(Outcome("closed"), pos) /\ UNCHANGED framing
  BY <1>1, <1>2, FinishKeepsIInv, ResultTypes
<1>3. CASE LineRead(pos)
  BY <1>1, <1>3, LineReadKeepsIInv
<1> QED
  BY <1>2, <1>3 DEF LineAtEof

\* What a body has cost when it is complete, or abandoned.
LEMMA BodyCost ==
  ASSUME IInv, pc = "body"
  PROVE  pos - base =< FrameBound
<1>1. /\ base \in Nat /\ start \in Nat /\ pos \in Nat /\ declared \in Nat
      /\ MaxLen \in Nat /\ pos - start =< declared /\ declared =< MaxLen
  BY LenProperties, FrameBoundType DEF IInv, TypeOK, Text, BoundedBuffer
<1> DEFINE all == (MaxHeaderLines + 1) * MaxLen
<1>2. start - base =< all
  BY DEF IInv, Spent
<1>3. all + MaxLen + 1 = FrameBound /\ all \in Nat
  BY OneMoreLine, FrameBoundType
<1> HIDE DEF all
<1> QED
  BY <1>1, <1>2, <1>3

\* The body read (read_content_length) takes no more than was declared.
LEMMA BodyKeepsIInv ==
  ASSUME IInv, TakeBody \/ BodyRead \/ BodyAtEof
  PROVE  IInv'
<1>1. /\ Len(input) \in Nat /\ start \in Nat /\ pos \in start .. Len(input)
      /\ declared \in Nat /\ input \in Text /\ framing \in Modes
  BY LenProperties, FrameBoundType DEF IInv, TypeOK, Text, Modes
<1>2. CASE TakeBody
  <2>1. /\ pc = "body" /\ pos - start # declared /\ pos - start =< declared
        /\ pos < Len(input)
    BY <1>2 DEF TakeBody, BodyComplete, IInv, BoundedBuffer
  <2>2. /\ Len(input) - pos \in Nat /\ declared - (pos - start) \in Nat
    BY <1>1, <2>1
  <2>3. /\ pos' \in pos .. Len(input) /\ pos' - start =< declared
    <3> DEFINE taken == Take(Len(input) - pos, declared - (pos - start))
    <3>1. pos' = pos + taken
      BY <1>2 DEF TakeBody
    <3>2. /\ taken \in Nat /\ taken =< Len(input) - pos
          /\ taken =< declared - (pos - start)
      BY <2>2, TakeBound
    <3> HIDE DEF taken
    <3> QED
      BY <1>1, <3>1, <3>2
  <2>4. TypeOK'
    BY <1>1, <1>2, <2>3 DEF IInv, TypeOK, TakeBody, peer
  <2>5. BoundedBuffer' /\ Spent'
    BY <1>2, <2>1, <2>3 DEF IInv, BoundedBuffer, Spent, TakeBody, LineGoals
  <2> QED
    BY <2>4, <2>5 DEF IInv
<1>3. CASE BodyRead
  <2> DEFINE text == Between(input, start, pos)
  <2>1. text \in Text
    BY <1>1, BetweenType
  <2>2. PICK result : IsResult(result) /\ Finish(result, pos)
    BY <1>3, <2>1, ResultTypes DEF BodyRead, Deliver
  <2> QED
    BY <1>1, <1>3, <2>2, FinishKeepsIInv DEF BodyRead
<1>4. CASE BodyAtEof
  BY <1>1, <1>4, BodyCost, RefuseKeepsIInv, ResultTypes DEF BodyAtEof, Refuse, Reasons
<1> QED
  BY <1>2, <1>3, <1>4

\* read_message starts a read, or fails at once.
LEMMA ReadMessageKeepsIInv ==
  ASSUME IInv, ReadMessage
  PROVE  IInv'
<1>1. /\ Len(input) \in Nat /\ pc = "idle" /\ pos \in Nat /\ start = pos
  BY LenProperties DEF IInv, TypeOK, Text, ReadMessage, Spent
<1>2. CASE desync # "None"
  <2>1. TypeOK'
    BY <1>2, ResultTypes DEF IInv, TypeOK, ReadMessage, peer, IsResult
  <2>2. BoundedBuffer' /\ Spent'
    BY <1>2 DEF IInv, BoundedBuffer, Spent, BoundedFrame, FrameBound, ReadMessage
  <2> QED
    BY <2>1, <2>2 DEF IInv
<1>3. CASE desync = "None"
  <2>1. pc' \in {"auto", "newline", "opening"} /\ UNCHANGED out
    BY <1>3 DEF ReadMessage, IInv, TypeOK
  <2>2. TypeOK'
    BY <2>1 DEF IInv, TypeOK, ReadMessage, peer, LineGoals
  <2>3. BoundedBuffer' /\ Spent'
    BY <1>1, <1>3, <2>1, FrameBoundType
       DEF IInv, BoundedBuffer, Spent, ReadMessage, LineGoals
  <2> QED
    BY <2>2, <2>3 DEF IInv
<1> QED
  BY <1>2, <1>3

\* The buffered reader is filled, ends or fails.
LEMMA PeerKeepsIInv ==
  ASSUME IInv, Fill \/ FillEof \/ FillFail
  PROVE  IInv'
<1>1. /\ Len(input) \in Nat /\ start \in Nat /\ pos \in start .. Len(input)
      /\ input \in Text /\ framing \in Modes
  BY LenProperties DEF IInv, TypeOK, Text, Modes
<1>2. CASE Fill
  <2>1. PICK n \in 1 .. MaxChunk :
          \E chunk \in [1 .. n -> Bytes] : input' = input \o chunk
    BY <1>2 DEF Fill
  <2>2. PICK chunk \in [1 .. n -> Bytes] : input' = input \o chunk
    BY <2>1
  <2>3. chunk \in Text
    BY BoundAssumption, <2>1, <2>2 DEF Text
  <2>4. input' \in Text /\ Len(input') \in Nat /\ Len(input) =< Len(input')
    BY <1>1, <2>2, <2>3, ConcatProperties, LenProperties DEF Text
  <2>5. TypeOK'
    BY <1>1, <1>2, <2>4 DEF IInv, TypeOK, Fill
  <2>6. BoundedBuffer' /\ Spent'
    BY <1>2 DEF IInv, BoundedBuffer, Spent, BoundedFrame, FrameBound, Fill
  <2> QED
    BY <2>5, <2>6 DEF IInv
<1>3. CASE FillEof
  BY <1>3 DEF IInv, TypeOK, BoundedBuffer, Spent, BoundedFrame, FrameBound, FillEof
<1>4. CASE FillFail
  <2>1. IsResult(Outcome("io")) /\ UNCHANGED peer /\ framing' \in Modes
    BY <1>1, <1>4, ResultTypes DEF FillFail
  <2>2. CASE Finish(Outcome("io"), pos)
    BY <1>1, <2>1, <2>2, FinishKeepsIInv
  <2>3. CASE pc \notin {"auto", "newline"} /\ Desync("io", Outcome("io"), pos)
    <3>1. pc \in {"opening", "header", "body"}
      BY <1>4, <2>3 DEF FillFail, AwaitingPeer, IInv, TypeOK, LineGoals
    <3>2. pc # "body" => pos - start =< MaxLen + 1
      BY <1>1, <3>1, FrameBoundType DEF IInv, BoundedBuffer, LineGoals
    <3>3. pos - base =< FrameBound
      BY <1>1, <3>1, <3>2, LineCost, BodyCost DEF LineGoals
    <3> QED
      BY <1>1, <2>1, <2>3, <3>3, RefuseKeepsIInv DEF Reasons
  <2> QED
    BY <1>4, <2>2, <2>3 DEF FillFail
<1> QED
  BY <1>2, <1>3, <1>4

-----------------------------------------------------------------------------
(* The theorems *)

\* A new transport has spent nothing.
LEMMA InitIInv == Init => IInv
<1> SUFFICES ASSUME Init PROVE IInv
  OBVIOUS
<1>1. input \in Text /\ Len(input) = 0
  BY DEF Init, Text
<1>2. IsResult(out)
  BY ResultTypes DEF Init
<1>3. TypeOK
  <2>1. eof \in BOOLEAN
    BY DEF Init
  <2>2. base = 0 /\ start = 0 /\ pos = 0 /\ lines = 0 /\ declared = 0
    BY DEF Init
  <2>3. framing = "Auto" /\ desync = "None" /\ pc = "idle"
    BY DEF Init
  <2> QED
    BY <1>1, <1>2, <2>1, <2>2, <2>3, FrameBoundType DEF TypeOK
<1>4. BoundedBuffer /\ Spent
  BY DEF Init, BoundedBuffer, Spent, LineGoals
<1> QED
  BY <1>3, <1>4 DEF IInv

\* Every step of the transport keeps the invariant.
LEMMA NextIInv == IInv /\ [Next]_vars => IInv'
<1> SUFFICES ASSUME IInv, [Next]_vars PROVE IInv'
  OBVIOUS
<1>1. CASE ReadMessage
  BY <1>1, ReadMessageKeepsIInv
<1>2. CASE TakeLine
  BY <1>2, TakeLineKeepsIInv
<1>3. CASE LineAtEof
  BY <1>3, LineAtEofKeepsIInv
<1>4. CASE TakeBody \/ BodyRead \/ BodyAtEof
  BY <1>4, BodyKeepsIInv
<1>5. CASE Fill \/ FillEof \/ FillFail
  BY <1>5, PeerKeepsIInv
<1>6. CASE UNCHANGED vars
  BY <1>6 DEF vars, IInv, TypeOK, BoundedBuffer, Spent, BoundedFrame, FrameBound
<1> QED
  BY <1>1, <1>2, <1>3, <1>4, <1>5, <1>6 DEF Next, Step

\* The inductive invariant of the reader (read_message and all it calls).
THEOREM TransportInvariant == Spec => []IInv
BY InitIInv, NextIInv, PTL DEF Spec

\* Every variable of the reader keeps its type: positions never pass each other
\* or the input, and an accepted length never passes the cap.
THEOREM TransportTypeCorrect == Spec => []TypeOK
<1>1. IInv => TypeOK
  BY DEF IInv
<1> QED
  BY <1>1, TransportInvariant, PTL

\* One frame costs a bounded number of bytes, for every cap and header limit
\* (read_line, read_content_length).
THEOREM FrameCostBounded == Spec => []BoundedFrame
<1>1. IInv => BoundedFrame
  <2> SUFFICES ASSUME IInv PROVE pos - base =< FrameBound
    BY DEF BoundedFrame
  <2>1. Len(input) \in Nat /\ start \in Nat /\ pos \in Nat /\ start =< pos
    BY LenProperties DEF IInv, TypeOK, Text
  <2>2. CASE pc \in LineGoals
    <3>1. pos - start =< MaxLen + 1
      BY <2>1, <2>2, FrameBoundType DEF IInv, BoundedBuffer
    <3> QED
      BY <2>1, <2>2, <3>1, LineCost
  <2>3. CASE pc = "body"
    BY <2>3, BodyCost
  <2>4. CASE pc = "idle"
    BY <2>1, <2>4, FrameBoundType DEF IInv, Spent, BoundedFrame
  <2> QED
    BY <2>2, <2>3, <2>4 DEF IInv, TypeOK
<1> QED
  BY <1>1, TransportInvariant, PTL

\* A line that was read is consumed exactly, whatever is made of it.
LEMMA LineReadConsumes ==
  ASSUME NEW e, LineRead(e)
  PROVE  pos' = e
BY DEF LineRead, AutoLine, OpeningLine, HeaderLine, OpenFrame, Finish, Refuse, Desync, Return

\* No step takes more of a line than max_len + 1, nor more of a body than was
\* declared (read_line, read_content_length).
THEOREM ReadsBounded == Spec => BoundedReads
<1> DEFINE A == /\ pc \in LineGoals => pos' - start =< MaxLen + 1
                /\ pc = "body" => pos' - start =< declared
<1>1. IInv /\ [Next]_vars => [A]_vars
  <2> SUFFICES ASSUME IInv, Next PROVE A
    BY DEF vars
  <2>1. /\ Len(input) \in Nat /\ start \in Nat /\ pos \in Nat /\ start =< pos
        /\ MaxLen \in Nat /\ pos =< Len(input) /\ declared \in Nat
    BY LenProperties, FrameBoundType DEF IInv, TypeOK, Text
  <2>2. /\ pc \in LineGoals => pos - start =< MaxLen
        /\ pc = "body" => pos - start =< declared
    BY DEF IInv, BoundedBuffer
  <2>3. CASE pos' = pos
    BY <2>1, <2>2, <2>3
  <2>4. CASE TakeLine
    <3>1. pc \in LineGoals /\ pc # "body" /\ pos < Len(input)
      BY <2>4 DEF TakeLine, LineGoals
    <3> DEFINE to == pos + Take(Len(input) - pos, Budget)
    <3>2. Budget \in Nat /\ Budget + (pos - start) =< MaxLen + 1
      BY <3>1, BudgetBound
    <3>3. Len(input) - pos \in Nat
      BY <2>1, <3>1
    <3>4. Take(Len(input) - pos, Budget) \in Nat /\ Take(Len(input) - pos, Budget) =< Budget
      BY <3>2, <3>3, TakeBound
    <3>5. to \in Nat /\ to - start =< MaxLen + 1
      BY <2>1, <3>2, <3>4
    <3> HIDE DEF to
    <3>6. pos' = to \/ \E nl \in pos + 1 .. to : pos' = nl
      BY <2>4, LineReadConsumes DEF TakeLine, Refuse, Desync, Return, to
    <3> QED
      BY <2>1, <3>1, <3>5, <3>6
  <2>5. CASE LineAtEof
    BY <2>3, <2>5, LineReadConsumes DEF LineAtEof, Finish, Return
  <2>6. CASE TakeBody
    <3>1. pc = "body" /\ pc \notin LineGoals /\ pos < Len(input)
      BY <2>6 DEF TakeBody, LineGoals
    <3>2. Len(input) - pos \in Nat /\ declared - (pos - start) \in Nat
      BY <2>1, <2>2, <3>1
    <3> DEFINE taken == Take(Len(input) - pos, declared - (pos - start))
    <3>3. taken \in Nat /\ taken =< declared - (pos - start)
      BY <3>2, TakeBound
    <3>4. pos' = pos + taken
      BY <2>6 DEF TakeBody
    <3> HIDE DEF taken
    <3> QED
      BY <2>1, <3>1, <3>3, <3>4
  <2>7. CASE ReadMessage \/ BodyRead \/ BodyAtEof \/ Fill \/ FillEof \/ FillFail
    BY <2>3, <2>7 DEF ReadMessage, BodyRead, BodyAtEof, Fill, FillEof, FillFail,
                      Deliver, Finish, Refuse, Desync, Return
  <2> QED
    BY <2>4, <2>5, <2>6, <2>7 DEF Next, Step
<1> QED
  BY <1>1, TransportInvariant, PTL DEF Spec, BoundedReads

\* A desynchronised transport consumes nothing, forgets nothing and returns only
\* errors, for ever (read_message, desync_error, poison).
THEOREM PoisonedForEver == Spec => PoisonIsForever
<1> DEFINE A == desync # "None" =>
                  /\ UNCHANGED <<input, pos, framing, desync, pc>>
                  /\ out' \in {out, Outcome("invalid")}
           Quiet == desync # "None" => pc = "idle"
<1>1. Init => Quiet
  BY DEF Init
<1>2. Quiet /\ [Next]_vars => Quiet' /\ [A]_vars
  <2> SUFFICES ASSUME Quiet, [Next]_vars PROVE Quiet' /\ [A]_vars
    OBVIOUS
  <2>1. CASE desync # "None"
    BY <2>1 DEF Next, Step, vars, peer, ReadMessage, TakeLine, LineAtEof, TakeBody,
                BodyRead, BodyComplete, BodyAtEof, Fill, FillEof, FillFail,
                AwaitingPeer, LineGoals
  <2>2. CASE desync = "None"
    <3>1. desync' = "None" \/ pc' = "idle"
      BY <2>2 DEF Next, Step, vars, ReadMessage, TakeLine, LineAtEof, TakeBody, BodyRead,
                  BodyAtEof, Fill, FillEof, FillFail, LineRead, AutoLine, OpeningLine,
                  HeaderLine, OpenFrame, Deliver, Finish, Refuse, Desync, Return
    <3> QED
      BY <2>2, <3>1
  <2> QED
    BY <2>1, <2>2
<1> QED
  BY <1>1, <1>2, PTL DEF Spec, PoisonIsForever

-----------------------------------------------------------------------------
(* Lines and header blocks of a text *)

\* Among positions up to n there is a last one.
LEMMA LastPosition ==
  ASSUME NEW n \in Nat, NEW S \in SUBSET (0 .. n), S # {}
  PROVE  \E m \in S : \A k \in S : k =< m
<1> DEFINE R == StrictSubsetOrdering(Nat)
           T == {m .. n : m \in S}
<1>1. IsWellFoundedOn(R, FiniteSubsetsOf(Nat))
  BY FS_StrictSubsetOrderingWellFounded
<1>2. T \subseteq FiniteSubsetsOf(Nat)
  <2>1. \A m \in S : IsFiniteSet(m .. n)
    BY FS_Interval
  <2> QED BY <2>1 DEF FiniteSubsetsOf
<1>3. T # {}
  OBVIOUS
<1> HIDE DEF T, R
<1>4. PICK x \in T : \A y \in T : ~(<<y, x>> \in R)
  BY <1>1, <1>2, <1>3, WFMin
<1>5. PICK m \in S : x = m .. n
  BY <1>4 DEF T
<1>6. ASSUME NEW k \in S, m < k PROVE FALSE
  <2>1. k .. n \in T /\ k .. n \in SUBSET Nat /\ x \in SUBSET Nat
    BY <1>5 DEF T
  <2>2. k .. n \subseteq x /\ m \in x /\ m \notin k .. n
    BY <1>5, <1>6
  <2>3. <<k .. n, x>> \in R
    BY <2>1, <2>2 DEF R, StrictSubsetOrdering
  <2> QED BY <1>4, <2>1, <2>3
<1> QED BY <1>6

\* A line has one end (read_line).
LEMMA OneLine ==
  ASSUME NEW t \in Text, NEW closed, NEW from \in Nat,
         NEW a \in Nat, IsLine(t, closed, from, a),
         NEW b \in Nat, IsLine(t, closed, from, b)
  PROVE  a = b
<1>1. Len(t) \in Nat
  BY LenProperties DEF Text
<1>2. ASSUME NEW x \in Nat, NEW y \in Nat, IsLine(t, closed, from, x),
             IsLine(t, closed, from, y), x < y
      PROVE  FALSE
  <2>1. from < x /\ y =< Len(t) /\ (t[x] = Newline \/ x = Len(t)) /\ x \in from + 1 .. y - 1
    BY <1>1, <1>2 DEF IsLine
  <2>2. t[x] # Newline
    BY <1>2, <2>1 DEF IsLine
  <2> QED BY <1>1, <1>2, <2>1, <2>2
<1>3. ~(a < b) /\ ~(b < a)
  BY <1>2
<1> QED BY <1>3

\* A line declares at most one length (declared_length), and one that does is a header
\* and not empty.
LEMMA OneLength ==
  ASSUME NEW line, NEW m \in DeclaredLengths(line)
  PROVE  /\ \A n \in DeclaredLengths(line) : n = m
         /\ line \in Text => IsHeader(line) /\ ~IsEmpty(line)
<1> DEFINE isOnlyInk(i) == /\ line[i] \in DOMAIN LengthOf
                           /\ \A j \in DOMAIN line \ {i} : line[j] \in WhiteSpace
<1>1. PICK i \in DOMAIN line : isOnlyInk(i) /\ m = LengthOf[line[i]]
  BY DEF DeclaredLengths
<1>2. line[i] \in Headers /\ line[i] \notin WhiteSpace
  BY <1>1, BytesAssumption DEF Headers
<1>3. ASSUME NEW n \in DeclaredLengths(line) PROVE n = m
  <2>1. PICK k \in DOMAIN line : isOnlyInk(k) /\ n = LengthOf[line[k]]
    BY DEF DeclaredLengths
  <2>2. k = i
    BY <1>1, <1>2, <2>1
  <2> QED BY <1>1, <2>1, <2>2
<1>4. ASSUME line \in Text PROVE IsHeader(line) /\ ~IsEmpty(line)
  <2>1. DOMAIN line = 1 .. Len(line) /\ Len(line) \in Nat
    BY <1>4, LenProperties DEF Text
  <2>2. \A j \in 1 .. i - 1 : j \in DOMAIN line \ {i}
    BY <2>1
  <2>3. IsHeader(line)
    BY <1>1, <1>2, <2>2 DEF IsHeader
  <2>4. line[i] \notin LineEnds
    BY <1>2, BytesAssumption DEF LineEnds
  <2> QED BY <2>3, <2>4 DEF IsEmpty
<1> QED BY <1>3, <1>4

\* A blank line is text and no header (read_auto).
LEMMA BlankLine ==
  ASSUME NEW line, IsBlank(line)
  PROVE  IsUtf8(line) /\ ~IsHeader(line)
BY BytesAssumption DEF IsBlank, IsUtf8, IsHeader, Headers

\* There are finitely many lines.
LEMMA LineStartsFinite ==
  ASSUME NEW t, NEW from \in Nat, NEW to \in Nat
  PROVE  /\ LineStarts(t, from, to) \subseteq 0 .. to
         /\ IsFiniteSet(LineStarts(t, from, to))
         /\ Cardinality(LineStarts(t, from, to)) \in Nat
<1>1. LineStarts(t, from, to) \subseteq 0 .. to
  BY DEF LineStarts
<1>2. IsFiniteSet(0 .. to)
  BY FS_Interval
<1>3. IsFiniteSet(LineStarts(t, from, to))
  BY <1>1, <1>2, FS_Subset
<1> QED BY <1>1, <1>3, FS_CardinalityType

\* The line that ends a header block (read_content_length).
LEMMA LastLine ==
  ASSUME NEW t \in Text, NEW closed, NEW from \in Nat, NEW to \in 0 .. Len(t),
         IsHeaderBlock(t, closed, from, to)
  PROVE  \E a \in LineStarts(t, from, to) : /\ IsLine(t, closed, a, to)
                                            /\ IsEmpty(Between(t, a, to))
<1> DEFINE starts == LineStarts(t, from, to)
<1>1. Len(t) \in Nat /\ to \in Nat /\ from < to
  BY LenProperties DEF Text, IsHeaderBlock
<1>2. starts # {} /\ starts \in SUBSET (0 .. to)
  <2>1. from \in starts
    BY <1>1 DEF LineStarts
  <2> QED BY <1>1, <2>1, LineStartsFinite
<1>3. PICK a \in starts : \A k \in starts : k =< a
  <2> HIDE DEF starts
  <2> QED BY <1>1, <1>2, LastPosition
<1>4. PICK b \in a + 1 .. to : /\ IsGoodLine(t, closed, a, b)
                               /\ IsEmpty(Between(t, a, b)) <=> b = to
  BY <1>3 DEF IsHeaderBlock
<1>5. a \in Nat /\ from =< a
  BY <1>3 DEF LineStarts
<1>6. b = to
  <2> SUFFICES ASSUME b < to PROVE FALSE
    BY <1>1, <1>5
  <2>1. t[b] = Newline
    BY <1>1, <1>4, <1>5 DEF IsGoodLine, IsLine
  <2>2. b \in starts
    BY <1>5, <2>1 DEF LineStarts
  <2> QED BY <1>3, <1>5, <2>2
<1> QED BY <1>3, <1>4, <1>6 DEF IsGoodLine

\* A block has one end.
LEMMA OneBlock ==
  ASSUME NEW t \in Text, NEW closed, NEW from \in Nat,
         NEW x \in 0 .. Len(t), IsHeaderBlock(t, closed, from, x),
         NEW y \in 0 .. Len(t), IsHeaderBlock(t, closed, from, y)
  PROVE  x = y
<1>1. ASSUME NEW a \in 0 .. Len(t), NEW b \in 0 .. Len(t), a < b,
             IsHeaderBlock(t, closed, from, a), IsHeaderBlock(t, closed, from, b)
      PROVE  FALSE
  <2>1. PICK l \in LineStarts(t, from, a) : /\ IsLine(t, closed, l, a)
                                            /\ IsEmpty(Between(t, l, a))
    BY <1>1, LastLine
  <2>2. l \in LineStarts(t, from, b) /\ l \in Nat
    BY <1>1, <2>1 DEF LineStarts
  <2>3. PICK e \in l + 1 .. b : /\ IsGoodLine(t, closed, l, e)
                                /\ IsEmpty(Between(t, l, e)) <=> e = b
    BY <1>1, <2>2 DEF IsHeaderBlock
  <2>4. e = a
    BY <1>1, <2>1, <2>2, <2>3, OneLine DEF IsGoodLine
  <2> QED BY <1>1, <2>1, <2>3, <2>4
<1>2. Len(t) \in Nat
  BY LenProperties DEF Text
<1> QED BY <1>1, <1>2

-----------------------------------------------------------------------------
(* A header block so far *)

\* The n lines of (from, to] are all there is up to `to`, and none ends the block.
HeaderLines(t, closed, from, to, n) ==
  /\ Cardinality(LineStarts(t, from, to)) = n
  /\ \A a \in LineStarts(t, from, to) : \E b \in a + 1 .. to :
       IsGoodLine(t, closed, a, b) /\ ~IsEmpty(Between(t, a, b))
  /\ to = from \/ t[to] = Newline \/ (closed /\ to = Len(t))

\* Before the first line there are none.
LEMMA NoLines ==
  ASSUME NEW t, NEW closed, NEW from \in Nat
  PROVE  HeaderLines(t, closed, from, from, 0)
<1>1. LineStarts(t, from, from) = {}
  BY DEF LineStarts
<1> QED BY <1>1, FS_EmptySet DEF HeaderLines

\* A header block that starts like this goes on with a line of its own, its last if
\* there is no room for more.
LEMMA NextLine ==
  ASSUME NEW t \in Text, NEW closed, NEW from \in Nat, NEW s \in from .. Len(t),
         NEW n \in Nat, HeaderLines(t, closed, from, s, n),
         NEW to \in 0 .. Len(t), IsHeaderBlock(t, closed, from, to)
  PROVE  \E e \in s + 1 .. to :
           /\ IsGoodLine(t, closed, s, e)
           /\ IsEmpty(Between(t, s, e)) <=> e = to
           /\ n < MaxHeaderLines \/ e = to
<1>1. Len(t) \in Nat /\ from < to /\ MaxHeaderLines \in Nat
  BY LenProperties, LimitAssumption DEF Text, IsHeaderBlock
<1>2. s < to
  <2> SUFFICES ASSUME to =< s PROVE FALSE
    BY <1>1
  <2>1. PICK a \in LineStarts(t, from, to) : /\ IsLine(t, closed, a, to)
                                             /\ IsEmpty(Between(t, a, to))
    BY LastLine
  <2>2. a \in LineStarts(t, from, s) /\ a \in Nat
    BY <1>1, <2>1 DEF LineStarts
  <2>3. PICK b \in a + 1 .. s : IsGoodLine(t, closed, a, b) /\ ~IsEmpty(Between(t, a, b))
    BY <2>2 DEF HeaderLines
  <2>4. b = to
    BY <1>1, <2>1, <2>2, <2>3, OneLine DEF IsGoodLine
  <2> QED BY <2>1, <2>3, <2>4
<1>3. s \in LineStarts(t, from, to)
  BY <1>1, <1>2 DEF HeaderLines, LineStarts
<1>4. PICK e \in s + 1 .. to : /\ IsGoodLine(t, closed, s, e)
                               /\ IsEmpty(Between(t, s, e)) <=> e = to
  BY <1>3 DEF IsHeaderBlock
<1>5. ASSUME e < to PROVE n < MaxHeaderLines
  <2> DEFINE before == LineStarts(t, from, s)
             all == LineStarts(t, from, to)
  <2>1. t[e] = Newline
    BY <1>1, <1>4, <1>5 DEF IsGoodLine, IsLine
  <2>2. e \in all /\ s \in all /\ before \subseteq all
    <3>1. e \in from .. to - 1 /\ from .. s - 1 \subseteq from .. to - 1
      BY <1>1, <1>2, <1>4, <1>5
    <3> QED BY <1>3, <2>1, <3>1 DEF LineStarts
  <2>3. s \notin before /\ e \notin before \cup {s}
    BY <1>4 DEF LineStarts
  <2>4. /\ IsFiniteSet(before) /\ IsFiniteSet(all) /\ Cardinality(all) \in Nat
        /\ Cardinality(before) = n /\ Cardinality(all) =< MaxHeaderLines + 1
    BY <1>1, LineStartsFinite DEF HeaderLines, IsHeaderBlock
  <2> HIDE DEF before, all
  <2>5. /\ IsFiniteSet(before \cup {s}) /\ Cardinality(before \cup {s}) = n + 1
    BY <2>3, <2>4, FS_AddElement
  <2>6. Cardinality((before \cup {s}) \cup {e}) = (n + 1) + 1
    BY <2>3, <2>5, FS_AddElement
  <2>7. Cardinality((before \cup {s}) \cup {e}) =< Cardinality(all)
    BY <2>2, <2>4, FS_Subset
  <2> QED BY <1>1, <2>4, <2>6, <2>7
<1> QED BY <1>1, <1>4, <1>5

\* One more line has one more start.
LEMMA OneMoreStart ==
  ASSUME NEW t \in Text, NEW closed, NEW from \in Nat, NEW s \in from .. Len(t),
         NEW n \in Nat, HeaderLines(t, closed, from, s, n),
         NEW e \in 0 .. Len(t), IsLine(t, closed, s, e)
  PROVE  /\ LineStarts(t, from, e) = LineStarts(t, from, s) \cup {s}
         /\ Cardinality(LineStarts(t, from, e)) = n + 1
<1>1. Len(t) \in Nat /\ s < e
  BY LenProperties DEF Text, IsLine
<1>2. LineStarts(t, from, e) = LineStarts(t, from, s) \cup {s}
  <2>1. s = from \/ t[s] = Newline
    BY <1>1 DEF HeaderLines
  <2>2. \A i \in s + 1 .. e - 1 : t[i] # Newline
    BY DEF IsLine
  <2>3. from .. e - 1 = (from .. s - 1) \cup {s} \cup (s + 1 .. e - 1)
    BY <1>1
  <2>4. \A i \in s + 1 .. e - 1 : i # from
    OBVIOUS
  <2> QED BY <2>1, <2>2, <2>3, <2>4 DEF LineStarts
<1>3. s \notin LineStarts(t, from, s) /\ IsFiniteSet(LineStarts(t, from, s))
  BY LineStartsFinite DEF LineStarts
<1>4. Cardinality(LineStarts(t, from, e)) = n + 1
  BY <1>2, <1>3, FS_AddElement DEF HeaderLines
<1> QED BY <1>2, <1>4

\* One more header line.
LEMMA OneMoreHeader ==
  ASSUME NEW t \in Text, NEW closed, NEW from \in Nat, NEW s \in from .. Len(t),
         NEW n \in Nat, HeaderLines(t, closed, from, s, n),
         NEW e \in 0 .. Len(t), IsGoodLine(t, closed, s, e), ~IsEmpty(Between(t, s, e))
  PROVE  HeaderLines(t, closed, from, e, n + 1)
<1>1. Len(t) \in Nat /\ s < e
  BY LenProperties DEF Text, IsGoodLine, IsLine
<1>2. /\ LineStarts(t, from, e) = LineStarts(t, from, s) \cup {s}
      /\ Cardinality(LineStarts(t, from, e)) = n + 1
  BY OneMoreStart DEF IsGoodLine
<1>3. ASSUME NEW a \in LineStarts(t, from, e)
      PROVE  \E b \in a + 1 .. e : IsGoodLine(t, closed, a, b) /\ ~IsEmpty(Between(t, a, b))
  <2>1. CASE a = s
    BY <1>1, <2>1
  <2>2. CASE a \in LineStarts(t, from, s)
    <3>1. PICK b \in a + 1 .. s : IsGoodLine(t, closed, a, b) /\ ~IsEmpty(Between(t, a, b))
      BY <2>2 DEF HeaderLines
    <3>2. b \in a + 1 .. e
      BY <1>1
    <3> QED BY <3>1, <3>2
  <2> QED BY <1>2, <2>1, <2>2
<1>4. t[e] = Newline \/ (closed /\ e = Len(t))
  BY DEF IsGoodLine, IsLine
<1> QED BY <1>2, <1>3, <1>4 DEF HeaderLines

\* The empty line makes a block of them.
LEMMA EmptyLineEnds ==
  ASSUME NEW t \in Text, NEW closed, NEW from \in Nat, NEW s \in from .. Len(t),
         NEW n \in 0 .. MaxHeaderLines, HeaderLines(t, closed, from, s, n),
         NEW e \in 0 .. Len(t), IsGoodLine(t, closed, s, e), IsEmpty(Between(t, s, e))
  PROVE  IsHeaderBlock(t, closed, from, e)
<1>1. Len(t) \in Nat /\ s < e
  BY LenProperties DEF Text, IsGoodLine, IsLine
<1>2. /\ LineStarts(t, from, e) = LineStarts(t, from, s) \cup {s}
      /\ Cardinality(LineStarts(t, from, e)) = n + 1
  BY OneMoreStart DEF IsGoodLine
<1>3. ASSUME NEW a \in LineStarts(t, from, e)
      PROVE  \E b \in a + 1 .. e : /\ IsGoodLine(t, closed, a, b)
                                   /\ IsEmpty(Between(t, a, b)) <=> b = e
  <2>1. CASE a = s
    BY <1>1, <2>1
  <2>2. CASE a \in LineStarts(t, from, s)
    <3>1. PICK b \in a + 1 .. s : IsGoodLine(t, closed, a, b) /\ ~IsEmpty(Between(t, a, b))
      BY <2>2 DEF HeaderLines
    <3>2. b \in a + 1 .. e /\ b # e
      BY <1>1, <2>2 DEF LineStarts
    <3> QED BY <3>1, <3>2
  <2> QED BY <1>2, <2>1, <2>2
<1>4. n + 1 =< MaxHeaderLines + 1 /\ from < e
  BY <1>1, LimitAssumption
<1> QED BY <1>2, <1>3, <1>4 DEF IsHeaderBlock
-----------------------------------------------------------------------------
(* More of a text *)

\* u is t with more behind it; once the peer has closed there is no more.
Extends(t, closed, u, last) ==
  /\ Len(t) =< Len(u) /\ \A i \in 1 .. Len(t) : u[i] = t[i]
  /\ closed => last /\ u = t

\* The text that is there stays what it is (read_line).
LEMMA SameBetween ==
  ASSUME NEW t \in Text, NEW u \in Text, NEW closed, NEW last, Extends(t, closed, u, last),
         NEW from \in Nat, NEW to \in 0 .. Len(t)
  PROVE  /\ Between(u, from, to) = Between(t, from, to)
         /\ LineStarts(u, from, to) = LineStarts(t, from, to)
<1>1. Len(t) \in Nat /\ Len(u) \in Nat /\ Len(t) =< Len(u)
  BY LenProperties DEF Text, Extends
<1>2. \A i \in from + 1 .. to : u[i] = t[i]
  BY <1>1 DEF Extends
<1>3. Between(u, from, to) = Between(t, from, to)
  <2>1. \A i \in from + 1 .. to : t[i] \in Bytes /\ u[i] \in Bytes
    BY <1>1 DEF Text
  <2>2. /\ Between(t, from, to) \in Seq(Bytes) /\ Between(u, from, to) \in Seq(Bytes)
        /\ Len(Between(t, from, to)) = IF from + 1 <= to THEN to - (from + 1) + 1 ELSE 0
        /\ Len(Between(u, from, to)) = IF from + 1 <= to THEN to - (from + 1) + 1 ELSE 0
        /\ \A i \in 1 .. to - (from + 1) + 1 :
             /\ Between(t, from, to)[i] = t[from + 1 + i - 1]
             /\ Between(u, from, to)[i] = u[from + 1 + i - 1]
    BY <1>1, <2>1, SubSeqProperties DEF Between, Text
  <2>3. ASSUME NEW i \in 1 .. Len(Between(t, from, to))
        PROVE  Between(t, from, to)[i] = Between(u, from, to)[i]
    <3>1. i \in 1 .. to - (from + 1) + 1
      BY <2>2
    <3>2. u[from + 1 + i - 1] = t[from + 1 + i - 1]
      BY <1>2, <3>1
    <3> QED BY <2>2, <3>1, <3>2
  <2>4. Len(Between(t, from, to)) = Len(Between(u, from, to))
    BY <2>2
  <2> QED BY <2>2, <2>3, <2>4, SeqEqual
<1>4. LineStarts(u, from, to) = LineStarts(t, from, to)
  BY <1>1 DEF LineStarts, Extends
<1> QED BY <1>3, <1>4

\* A line that is complete stays one.
LEMMA SameLine ==
  ASSUME NEW t \in Text, NEW u \in Text, NEW closed, NEW last, Extends(t, closed, u, last),
         NEW from \in Nat, NEW to \in Nat, IsLine(t, closed, from, to)
  PROVE  /\ IsLine(u, last, from, to)
         /\ IsGoodLine(t, closed, from, to) => IsGoodLine(u, last, from, to)
<1>1. Len(t) \in Nat /\ Len(u) \in Nat /\ Len(t) =< Len(u) /\ to \in 0 .. Len(t)
  BY LenProperties DEF Text, Extends, IsLine
<1>2. IsLine(u, last, from, to)
  BY <1>1 DEF IsLine, Extends
<1> QED BY <1>1, <1>2, SameBetween DEF IsGoodLine

\* So do the headers read.
LEMMA SameHeaders ==
  ASSUME NEW t \in Text, NEW u \in Text, NEW closed, NEW last, Extends(t, closed, u, last),
         NEW from \in Nat, NEW to \in from .. Len(t), NEW n
  PROVE  /\ HeaderLines(t, closed, from, to, n) => HeaderLines(u, last, from, to, n)
         /\ IsHeaderBlock(t, closed, from, to) => IsHeaderBlock(u, last, from, to)
         /\ Declares(t, closed, from, to, n) => Declares(u, last, from, to, n)
<1>1. Len(t) \in Nat /\ Len(u) \in Nat /\ Len(t) =< Len(u) /\ to \in 0 .. Len(t)
  BY LenProperties DEF Text, Extends
<1>2. LineStarts(u, from, to) = LineStarts(t, from, to)
  BY <1>1, SameBetween
<1>3. ASSUME NEW a \in Nat, NEW b \in 0 .. to
      PROVE  /\ Between(u, a, b) = Between(t, a, b)
             /\ IsLine(t, closed, a, b) => IsLine(u, last, a, b)
             /\ IsGoodLine(t, closed, a, b) => IsGoodLine(u, last, a, b)
  <2>1. b \in 0 .. Len(t) /\ b \in Nat
    BY <1>1
  <2>2. Between(u, a, b) = Between(t, a, b)
    BY <2>1, SameBetween
  <2>3. IsGoodLine(t, closed, a, b) => IsLine(t, closed, a, b)
    BY DEF IsGoodLine
  <2> QED BY <2>1, <2>2, <2>3, SameLine
<1>4. \A a \in LineStarts(t, from, to) : a \in Nat /\ a + 1 .. to \subseteq 0 .. to
  BY DEF LineStarts
<1>5. HeaderLines(t, closed, from, to, n) => HeaderLines(u, last, from, to, n)
  <2> SUFFICES ASSUME HeaderLines(t, closed, from, to, n)
               PROVE  HeaderLines(u, last, from, to, n)
    OBVIOUS
  <2>1. \A a \in LineStarts(t, from, to) : \E b \in a + 1 .. to :
          IsGoodLine(t, closed, a, b) /\ ~IsEmpty(Between(t, a, b))
    BY DEF HeaderLines
  <2>2. \A a \in LineStarts(u, from, to) : \E b \in a + 1 .. to :
          IsGoodLine(u, last, a, b) /\ ~IsEmpty(Between(u, a, b))
    BY <1>2, <1>3, <1>4, <2>1
  <2>3. to = from \/ u[to] = Newline \/ (last /\ to = Len(u))
    <3>1. to = from \/ to \in 1 .. Len(t)
      BY <1>1
    <3> QED BY <3>1 DEF HeaderLines, Extends
  <2> QED BY <1>2, <2>2, <2>3 DEF HeaderLines
<1>6. IsHeaderBlock(t, closed, from, to) => IsHeaderBlock(u, last, from, to)
  <2> SUFFICES ASSUME IsHeaderBlock(t, closed, from, to)
               PROVE  IsHeaderBlock(u, last, from, to)
    OBVIOUS
  <2>1. \A a \in LineStarts(t, from, to) : \E b \in a + 1 .. to :
          /\ IsGoodLine(t, closed, a, b)
          /\ IsEmpty(Between(t, a, b)) <=> b = to
    BY DEF IsHeaderBlock
  <2>2. \A a \in LineStarts(u, from, to) : \E b \in a + 1 .. to :
          /\ IsGoodLine(u, last, a, b)
          /\ IsEmpty(Between(u, a, b)) <=> b = to
    BY <1>2, <1>3, <1>4, <2>1
  <2> QED BY <1>2, <2>2 DEF IsHeaderBlock
<1>7. Declares(t, closed, from, to, n) => Declares(u, last, from, to, n)
  <2>1. from + 1 .. to \subseteq 0 .. to
    OBVIOUS
  <2> QED BY <1>3, <2>1 DEF Declares
<1> QED BY <1>5, <1>6, <1>7

-----------------------------------------------------------------------------
(* Why there is no frame *)

\* The line that comes next is none of a header block (read_frame_line,
\* read_content_length).
LEMMA NoNextLine ==
  ASSUME NEW t \in Text, NEW closed, NEW from \in Nat, NEW s \in from .. Len(t),
         NEW n \in Nat, HeaderLines(t, closed, from, s, n),
         \A e \in s + 1 .. Len(t) :
           IsGoodLine(t, closed, s, e) => ~IsEmpty(Between(t, s, e)) /\ n >= MaxHeaderLines
  PROVE  ~HasFrame(t, closed, "ContentLength", from)
<1>1. Len(t) \in Nat /\ MaxHeaderLines \in Nat
  BY LenProperties, LimitAssumption DEF Text
<1> SUFFICES ASSUME NEW body \in from + 1 .. Len(t), IsHeaderBlock(t, closed, from, body)
             PROVE  FALSE
  BY DEF HasFrame, IsFrame
<1>2. PICK e \in s + 1 .. body : /\ IsGoodLine(t, closed, s, e)
                                 /\ IsEmpty(Between(t, s, e)) <=> e = body
                                 /\ n < MaxHeaderLines \/ e = body
  <2>1. body \in 0 .. Len(t)
    BY <1>1
  <2> QED BY <2>1, NextLine
<1>3. e \in s + 1 .. Len(t)
  BY <1>1, <1>2
<1> QED BY <1>1, <1>2, <1>3

\* The first line declares no length (declared_length).
LEMMA NoLength ==
  ASSUME NEW t \in Text, NEW closed, NEW from \in Nat,
         NEW e \in 0 .. Len(t), IsLine(t, closed, from, e),
         DeclaredLengths(Between(t, from, e)) = {}
  PROVE  ~HasFrame(t, closed, "ContentLength", from)
<1>1. Len(t) \in Nat /\ e \in Nat
  BY LenProperties DEF Text
<1> SUFFICES ASSUME NEW body \in from + 1 .. Len(t), NEW n, Declares(t, closed, from, body, n)
             PROVE  FALSE
  BY DEF HasFrame, IsFrame
<1>2. PICK l \in from + 1 .. body : /\ IsLine(t, closed, from, l)
                                    /\ n \in DeclaredLengths(Between(t, from, l))
  BY DEF Declares
<1>3. l = e
  BY <1>1, <1>2, OneLine
<1> QED BY <1>2, <1>3

\* The body that was declared does not fit (read_content_length).
LEMMA NoBody ==
  ASSUME NEW t \in Text, NEW closed, NEW from \in Nat, NEW s \in from .. Len(t),
         NEW n \in Nat, IsHeaderBlock(t, closed, from, s), Declares(t, closed, from, s, n),
         Len(t) - s < n
  PROVE  ~HasFrame(t, closed, "ContentLength", from)
<1>1. Len(t) \in Nat
  BY LenProperties DEF Text
<1> SUFFICES ASSUME NEW body \in from + 1 .. Len(t), NEW to \in from + 1 .. Len(t),
                    IsFrame(t, closed, from, body, to)
             PROVE  FALSE
  BY DEF HasFrame
<1>2. body = s
  BY <1>1, OneBlock DEF IsFrame
<1>3. PICK l \in from + 1 .. s : /\ IsLine(t, closed, from, l)
                                 /\ n \in DeclaredLengths(Between(t, from, l))
  BY DEF Declares
<1>4. PICK k \in from + 1 .. s : /\ IsLine(t, closed, from, k)
                                 /\ to - s \in DeclaredLengths(Between(t, from, k))
  BY <1>2 DEF IsFrame, Declares
<1>5. k = l
  BY <1>1, <1>3, <1>4, OneLine
<1>6. to - s = n
  BY <1>3, <1>4, <1>5, OneLength
<1> QED BY <1>1, <1>6

-----------------------------------------------------------------------------
(* What a read has found so far *)

\* No way the peer could go on makes a frame of what it has sent.
Hopeless(mode) ==
  \A u \in Text, last \in BOOLEAN :
    Extends(input, eof, u, last) => ~HasFrame(u, last, mode, base)

\* The read goes on as the framing says, on a live stream; no line has ended in what
\* it has collected; what it has counted and noted is there to be read; and what it
\* has refused is hopeless.
Scanned ==
  /\ pc # "idle" => desync = "None"
  /\ pc = "auto" => framing = "Auto"
  /\ pc = "newline" => framing = "Newline"
  /\ pc \in {"opening", "header", "body"} => framing = "ContentLength"
  /\ pc \in LineGoals => \A i \in start + 1 .. pos : input[i] # Newline
  /\ pc = "header" => HeaderLines(input, eof, base, start, lines)
  /\ pc = "body" => IsHeaderBlock(input, eof, base, start)
  /\ pc \in {"header", "body"} => Declares(input, eof, base, start, declared)
  /\ desync \notin {"None", "io"} => Hopeless(framing)

\* A step of the reader is one of the stream, or none.
Reads == [Stream!Next]_(Stream!vars)

\* Both modules count alike.
LEMMA SameCount == \A S : Stream!Cardinality(S) = Cardinality(S)
BY DEF Stream!Cardinality, Cardinality

\* Both modules read the same text.
LEMMA SameText ==
  /\ \A t, closed, from, to : Stream!IsLine(t, closed, from, to) <=> IsLine(t, closed, from, to)
  /\ \A t, from, to : Stream!Between(t, from, to) = Between(t, from, to)
  /\ \A line : /\ Stream!IsBlank(line) <=> IsBlank(line)
               /\ Stream!IsUtf8(line) <=> IsUtf8(line)
               /\ Stream!IsHeader(line) <=> IsHeader(line)
               /\ Stream!IsEmpty(line) <=> IsEmpty(line)
               /\ Stream!TrimCrlf(line) = TrimCrlf(line)
               /\ Stream!DeclaredLengths(line) = DeclaredLengths(line)
               /\ Stream!Message(line) = Message(line)
  /\ \A kind : Stream!Outcome(kind) = Outcome(kind)
<1>1. \A t, closed, from, to : Stream!IsLine(t, closed, from, to) <=> IsLine(t, closed, from, to)
  BY DEF Stream!IsLine, IsLine
<1>2. \A t, from, to : Stream!Between(t, from, to) = Between(t, from, to)
  BY DEF Stream!Between, Between
<1>3. \A line : /\ Stream!IsBlank(line) <=> IsBlank(line)
                /\ Stream!IsUtf8(line) <=> IsUtf8(line)
  BY DEF Stream!IsBlank, IsBlank, Stream!IsUtf8, IsUtf8
<1>4. \A line : Stream!IsHeader(line) <=> IsHeader(line)
  BY DEF Stream!IsHeader, IsHeader, Stream!Headers, Headers
<1>5. \A line : /\ Stream!IsEmpty(line) <=> IsEmpty(line)
                /\ Stream!TrimCrlf(line) = TrimCrlf(line)
  <2>1. Stream!LineEnds = LineEnds
    BY DEF Stream!LineEnds, LineEnds
  <2>2. ASSUME NEW line
        PROVE  (Stream!IsEmpty(line) <=> IsEmpty(line))
    BY <2>1 DEF Stream!IsEmpty, IsEmpty
  <2>3. ASSUME NEW line
        PROVE  Stream!TrimCrlf(line) = TrimCrlf(line)
    <3>1. {i \in DOMAIN line : \E j \in DOMAIN line : i =< j /\ line[j] \notin Stream!LineEnds}
            = {i \in DOMAIN line : \E j \in DOMAIN line : i =< j /\ line[j] \notin LineEnds}
      BY <2>1
    <3> QED BY <3>1, SameCount DEF Stream!TrimCrlf, TrimCrlf
  <2> QED BY <2>2, <2>3
<1>6. \A line : Stream!DeclaredLengths(line) = DeclaredLengths(line)
  BY DEF Stream!DeclaredLengths, DeclaredLengths
<1>7. /\ \A line : Stream!Message(line) = Message(line)
      /\ \A kind : Stream!Outcome(kind) = Outcome(kind)
  BY DEF Stream!Message, Message, Stream!Outcome, Outcome
<1> QED BY <1>1, <1>2, <1>3, <1>4, <1>5, <1>6, <1>7

\* And the same frames.
LEMMA SameFrames ==
  /\ \A t, closed, from, body, to :
       Stream!IsFrame(t, closed, from, body, to) <=> IsFrame(t, closed, from, body, to)
  /\ \A t, closed, mode, from :
       Stream!HasFrame(t, closed, mode, from) <=> HasFrame(t, closed, mode, from)
<1>1. \A t, closed, from, to :
        Stream!IsGoodLine(t, closed, from, to) <=> IsGoodLine(t, closed, from, to)
  BY SameText DEF Stream!IsGoodLine, IsGoodLine
<1>2. \A t, from, to : Stream!LineStarts(t, from, to) = LineStarts(t, from, to)
  BY DEF Stream!LineStarts, LineStarts
<1>3. \A t, closed, from, to :
        Stream!IsHeaderBlock(t, closed, from, to) <=> IsHeaderBlock(t, closed, from, to)
  <2> SUFFICES ASSUME NEW t, NEW closed, NEW from, NEW to
               PROVE  Stream!IsHeaderBlock(t, closed, from, to)
                        <=> IsHeaderBlock(t, closed, from, to)
    OBVIOUS
  <2> DEFINE There(a, b) == /\ Stream!IsGoodLine(t, closed, a, b)
                            /\ Stream!IsEmpty(Stream!Between(t, a, b)) <=> b = to
             Here(a, b) == /\ IsGoodLine(t, closed, a, b)
                           /\ IsEmpty(Between(t, a, b)) <=> b = to
  <2>1. \A a, b : There(a, b) <=> Here(a, b)
    BY SameText, <1>1
  <2>2. /\ Stream!IsHeaderBlock(t, closed, from, to) <=>
             /\ from < to
             /\ Cardinality(LineStarts(t, from, to)) =< MaxHeaderLines + 1
             /\ \A a \in LineStarts(t, from, to) : \E b \in a + 1 .. to : There(a, b)
        /\ IsHeaderBlock(t, closed, from, to) <=>
             /\ from < to
             /\ Cardinality(LineStarts(t, from, to)) =< MaxHeaderLines + 1
             /\ \A a \in LineStarts(t, from, to) : \E b \in a + 1 .. to : Here(a, b)
    BY <1>2, SameCount DEF Stream!IsHeaderBlock, IsHeaderBlock
  <2> HIDE DEF There, Here
  <2> QED BY <2>1, <2>2
<1>4. \A t, closed, from, to, n :
        Stream!Declares(t, closed, from, to, n) <=> Declares(t, closed, from, to, n)
  BY SameText DEF Stream!Declares, Declares
<1>5. \A t, closed, from, body, to :
        Stream!IsFrame(t, closed, from, body, to) <=> IsFrame(t, closed, from, body, to)
  BY <1>3, <1>4 DEF Stream!IsFrame, IsFrame
<1>6. \A t, closed, mode, from :
        Stream!HasFrame(t, closed, mode, from) <=> HasFrame(t, closed, mode, from)
  BY SameText, <1>5 DEF Stream!HasFrame, HasFrame
<1> QED BY <1>5, <1>6

\* The numbers of a state.
LEMMA Positions ==
  ASSUME IInv
  PROVE  /\ input \in Text /\ Len(input) \in Nat
         /\ base \in Nat /\ start \in Nat /\ pos \in Nat
         /\ base =< start /\ start =< pos /\ pos =< Len(input)
         /\ start \in base .. Len(input)
         /\ lines \in Nat /\ lines =< MaxHeaderLines /\ declared \in Nat
         /\ MaxLen \in Nat /\ MaxHeaderLines \in Nat
         /\ pc \in {"auto", "newline", "opening"} => start = base
BY LenProperties, LimitAssumption DEF IInv, TypeOK, Text, Spent

\* Between two reads there is nothing to know, but why a frame was refused.
LEMMA IdleScanned ==
  ASSUME pc' = "idle", desync' \in {"None", "io"} \/ Hopeless(framing)'
  PROVE  Scanned'
BY DEF Scanned, LineGoals

\* A read that is given up on, where there is no frame (desync_error, poison).
LEMMA Refused ==
  ASSUME Scanned, pc # "idle", UNCHANGED peer,
         NEW reason \in Reasons, NEW e, Refuse(reason, e),
         \/ framing' = framing
         \/ Stream!OpensContentLength /\ framing' = "ContentLength",
         IInv, Hopeless(framing')
  PROVE  Scanned' /\ Reads
<1>1. /\ pc' = "idle" /\ out' = Outcome("invalid") /\ UNCHANGED <<input, eof, base>>
      /\ desync = "None" /\ desync' # "None"
  BY DEF Refuse, Desync, Return, peer, Scanned, Reasons
<1>2. ~HasFrame(input, eof, framing', base)
  <2>1. input \in Text /\ eof \in BOOLEAN /\ Len(input) =< Len(input)
    BY Positions DEF IInv, TypeOK
  <2> QED BY <2>1 DEF Hopeless, Extends
<1>3. Hopeless(framing)'
  BY <1>1 DEF Hopeless
<1>4. Stream!Refuse
  BY <1>1, <1>2, SameText, SameFrames DEF Stream!Refuse, Stream!Live
<1> QED BY <1>1, <1>3, <1>4, IdleScanned DEF Reads, Stream!Next

\* The line that is read can be no line of a frame (read_line, read_frame_line).
LEMMA NoLine ==
  ASSUME IInv, Scanned, pc \in LineGoals, NEW u \in Text, NEW last \in BOOLEAN,
         Extends(input, eof, u, last),
         \A e \in start + 1 .. Len(u) :
           IsLine(u, last, start, e) =>
             e - start > MaxLen \/ (InsideFrame /\ ~IsUtf8(Between(u, start, e)))
  PROVE  ~HasFrame(u, last, framing, base)
<1>1. Len(u) \in Nat /\ start \in base .. Len(u)
  BY Positions, LenProperties DEF Extends, Text
<1>2. CASE ~InsideFrame
  <2>1. pc \in {"auto", "newline"} /\ framing # "ContentLength" /\ start = base
    BY <1>2, Positions DEF InsideFrame, LineGoals, Scanned
  <2>2. \A e \in base + 1 .. Len(u) : IsLine(u, last, base, e) => ~(e - base =< MaxLen)
    BY <1>1, <1>2, <2>1, Positions
  <2> QED BY <2>1, <2>2 DEF HasFrame
<1>3. CASE InsideFrame
  <2>1. framing = "ContentLength"
    BY <1>3 DEF InsideFrame, Scanned
  <2>2. \A e \in start + 1 .. Len(u) : ~IsGoodLine(u, last, start, e)
    BY <1>1, <1>3, Positions DEF IsGoodLine
  <2>3. PICK n \in Nat : HeaderLines(u, last, base, start, n)
    <3>1. CASE pc = "header"
      BY <3>1, Positions, SameHeaders DEF Scanned
    <3>2. CASE pc = "opening"
      BY <3>2, Positions, NoLines
    <3> QED BY <1>3, <3>1, <3>2 DEF InsideFrame
  <2> QED BY <1>1, <2>1, <2>2, <2>3, Positions, NoNextLine
<1> QED BY <1>2, <1>3

\* A complete line stays the one that starts there, whatever follows.
LEMMA SoleLine ==
  ASSUME IInv, NEW e \in start + 1 .. Len(input), IsLine(input, eof, start, e),
         NEW u \in Text, NEW last \in BOOLEAN, Extends(input, eof, u, last)
  PROVE  /\ e \in Nat /\ e \in 0 .. Len(u) /\ IsLine(u, last, start, e)
         /\ Between(u, start, e) = Between(input, start, e)
         /\ \A k \in start + 1 .. Len(u) : IsLine(u, last, start, k) => k = e
<1>1. e \in Nat /\ e \in 0 .. Len(input) /\ Len(u) \in Nat /\ Len(input) =< Len(u)
  BY Positions, LenProperties DEF Extends, Text
<1>2. IsLine(u, last, start, e)
  BY <1>1, Positions, SameLine
<1>3. Between(u, start, e) = Between(input, start, e)
  BY <1>1, Positions, SameBetween
<1>4. \A k \in start + 1 .. Len(u) : IsLine(u, last, start, k) => k = e
  BY <1>1, <1>2, Positions, OneLine
<1> QED BY <1>1, <1>2, <1>3, <1>4, Positions

\* A complete line outside of a frame is a message, or undecodable (read_line,
\* read_auto, read_newline).
LEMMA LineIsRead ==
  ASSUME IInv, Scanned, pc \in {"auto", "newline"}, UNCHANGED peer,
         NEW e \in start + 1 .. Len(input), IsLine(input, eof, start, e), e - start =< MaxLen,
         NEW line, line = Between(input, start, e),
         \/ ~IsUtf8(line) /\ Finish(Outcome("invalid"), e) /\ UNCHANGED framing
         \/ /\ IsUtf8(line) /\ Finish(Message(TrimCrlf(line)), e) /\ framing' = "Newline"
            /\ pc = "auto" => ~IsBlank(line) /\ ~IsHeader(line)
  PROVE  Scanned' /\ Reads
<1>1. /\ pc' = "idle" /\ base' = e /\ UNCHANGED <<input, eof, desync>>
      /\ desync = "None" /\ framing # "ContentLength" /\ start = base
      /\ framing = "Auto" <=> pc = "auto"
      /\ out' = IF IsUtf8(line) THEN Message(TrimCrlf(line)) ELSE Outcome("invalid")
      /\ framing' = IF IsUtf8(line) THEN "Newline" ELSE framing
  BY Positions DEF Finish, Return, peer, Scanned
<1>2. framing = "Auto" => ~IsBlank(line) /\ ~(IsUtf8(line) /\ IsHeader(line))
  BY <1>1, BlankLine
<1>3. Stream!ReadLine
  BY <1>1, <1>2, SameText DEF Stream!ReadLine, Stream!Live, Stream!Line
<1> QED BY <1>1, <1>3, IdleScanned DEF Reads, Stream!Next

\* The first line of a frame opens it, or is refused (read_content_length).
LEMMA FrameIsOpened ==
  ASSUME IInv, Scanned, pc \in {"auto", "opening"}, UNCHANGED peer,
         NEW e \in start + 1 .. Len(input), IsLine(input, eof, start, e), e - start =< MaxLen,
         NEW line \in Text, line = Between(input, start, e), IsUtf8(line), IsHeader(line),
         framing' = "ContentLength", OpenFrame(line, e)
  PROVE  Scanned' /\ Reads
<1>1. /\ start = base /\ e \in Nat /\ e \in base + 1 .. Len(input) /\ e \in 0 .. Len(input)
      /\ UNCHANGED <<input, eof>> /\ desync = "None"
  BY Positions DEF peer, Scanned
<1>2. pc = "auto" => Stream!OpensContentLength
  BY <1>1, SameText DEF Stream!OpensContentLength, Stream!Line, Scanned
<1>3. pc = "opening" => framing = "ContentLength"
  BY DEF Scanned
<1>4. CASE DeclaredLengths(line) = {} /\ Refuse("bad length", e)
  <2>1. ASSUME NEW u \in Text, NEW last \in BOOLEAN, Extends(input, eof, u, last)
        PROVE  ~HasFrame(u, last, "ContentLength", base)
    <3>1. e \in 0 .. Len(u) /\ IsLine(u, last, base, e) /\ Between(u, base, e) = line
      BY <1>1, <2>1, SoleLine
    <3>2. DeclaredLengths(Between(u, base, e)) = {}
      BY <1>4, <3>1
    <3> QED BY <3>1, <3>2, Positions, NoLength
  <2>2. Hopeless("ContentLength")
    BY <2>1 DEF Hopeless
  <2>3. pc # "idle"
    OBVIOUS
  <2> QED BY <1>2, <1>3, <1>4, <2>2, <2>3, Refused DEF Reasons
<1>5. CASE /\ declared' \in DeclaredLengths(line)
           /\ pc' = "header" /\ lines' = 1 /\ start' = e /\ pos' = e
           /\ UNCHANGED <<desync, out, base>>
  <2>1. IsGoodLine(input, eof, base, e) /\ ~IsEmpty(line)
    BY <1>1, <1>5, OneLength DEF IsGoodLine
  <2>2. HeaderLines(input, eof, base, e, 1)
    <3>1. HeaderLines(input, eof, base, base, 0) /\ base \in base .. Len(input)
      BY Positions, NoLines
    <3>2. HeaderLines(input, eof, base, e, 0 + 1)
      BY <1>1, <2>1, <3>1, Positions, OneMoreHeader
    <3>3. 0 + 1 = 1
      OBVIOUS
    <3> QED BY <3>2, <3>3
  <2>3. \A d : d \in DeclaredLengths(line) => Declares(input, eof, base, e, d)
    BY <1>1 DEF Declares
  <2>4. \A i \in start' + 1 .. pos' : FALSE
    BY <1>1, <1>5
  <2>5. Scanned'
    BY <1>1, <1>5, <2>2, <2>3, <2>4 DEF Scanned, LineGoals
  <2>6. CASE pc = "auto"
    <3>1. Stream!ChooseContentLength
      BY <1>1, <1>2, <1>5, <2>6 DEF Stream!ChooseContentLength, Stream!Live
    <3> QED BY <2>5, <3>1 DEF Reads, Stream!Next
  <2>7. CASE pc = "opening"
    BY <1>1, <1>3, <1>5, <2>5, <2>7 DEF Reads, Stream!vars
  <2> QED BY <2>6, <2>7
<1> QED BY <1>4, <1>5 DEF OpenFrame

\* A header line ends the block, is one too many, or is counted (read_content_length).
LEMMA HeaderIsRead ==
  ASSUME IInv, Scanned, pc = "header", UNCHANGED peer,
         NEW e \in start + 1 .. Len(input), IsLine(input, eof, start, e), e - start =< MaxLen,
         NEW line, line = Between(input, start, e), IsUtf8(line), HeaderLine(line, e)
  PROVE  Scanned' /\ Reads
<1>1. /\ e \in Nat /\ e \in 0 .. Len(input) /\ base =< start /\ start < e
      /\ UNCHANGED <<input, eof, framing>>
      /\ framing = "ContentLength" /\ desync = "None"
      /\ HeaderLines(input, eof, base, start, lines)
      /\ IsGoodLine(input, eof, start, e)
  <2>1. e \in Nat /\ e \in 0 .. Len(input) /\ base =< start /\ start < e
    BY Positions
  <2> QED BY <2>1 DEF peer, Scanned, HeaderLine, IsGoodLine
<1>2. \A d : Declares(input, eof, base, start, d) => Declares(input, eof, base, e, d)
  <2>1. base + 1 .. start \subseteq base + 1 .. e
    BY <1>1, Positions
  <2> QED BY <2>1 DEF Declares
<1>3. CASE /\ IsEmpty(line) /\ pc' = "body" /\ start' = e /\ pos' = e
           /\ UNCHANGED <<desync, lines, declared, out, base>>
  <2>1. IsHeaderBlock(input, eof, base, e)
    BY <1>1, <1>3, Positions, EmptyLineEnds
  <2>2. Scanned'
    BY <1>1, <1>2, <1>3, <2>1 DEF Scanned, LineGoals
  <2> QED BY <1>1, <1>3, <2>2 DEF Reads, Stream!vars
<1>4. CASE ~IsEmpty(line) /\ LinesSeen > MaxHeaderLines /\ Refuse("header lines", e)
  <2>1. lines >= MaxHeaderLines
    <3>1. LinesSeen > MaxHeaderLines /\ lines \in Nat /\ MaxHeaderLines \in Nat
      BY <1>4, Positions
    <3> QED BY <3>1 DEF LinesSeen
  <2>2. ASSUME NEW u \in Text, NEW last \in BOOLEAN, Extends(input, eof, u, last)
        PROVE  ~HasFrame(u, last, "ContentLength", base)
    <3>1. /\ Between(u, start, e) = Between(input, start, e)
          /\ \A k \in start + 1 .. Len(u) : IsGoodLine(u, last, start, k) => k = e
      BY <2>2, SoleLine DEF IsGoodLine
    <3>2. HeaderLines(u, last, base, start, lines)
      BY <1>1, <2>2, Positions, SameHeaders
    <3>3. start \in base .. Len(u)
      BY <2>2, Positions, LenProperties DEF Extends, Text
    <3> QED BY <1>4, <2>1, <3>1, <3>2, <3>3, Positions, NoNextLine
  <2>3. Hopeless("ContentLength")
    BY <2>2 DEF Hopeless
  <2> QED BY <1>1, <1>4, <2>3, Refused DEF Reasons
<1>5. CASE /\ ~IsEmpty(line) /\ lines' = LinesSeen /\ start' = e /\ pos' = e
           /\ UNCHANGED <<desync, pc, declared, out, base>>
  <2>1. HeaderLines(input, eof, base, e, lines + 1)
    BY <1>1, <1>5, Positions, OneMoreHeader
  <2>2. \A i \in start' + 1 .. pos' : FALSE
    BY <1>1, <1>5
  <2>3. Scanned'
    BY <1>1, <1>2, <1>5, <2>1, <2>2 DEF Scanned, LineGoals, LinesSeen
  <2> QED BY <1>1, <1>5, <2>3 DEF Reads, Stream!vars
<1> QED BY <1>3, <1>4, <1>5 DEF HeaderLine

\* What is done with a complete line, for every caller of read_line.
LEMMA LineReadReads ==
  ASSUME IInv, Scanned, pc \in LineGoals, UNCHANGED peer,
         NEW e \in start + 1 .. Len(input), IsLine(input, eof, start, e), LineRead(e)
  PROVE  Scanned' /\ Reads
<1> PICK line : line = Between(input, start, e)
  OBVIOUS
<1>1. line \in Text /\ e \in Nat
  BY Positions, BetweenType
<1>2. ASSUME \/ e - start > MaxLen
             \/ InsideFrame /\ ~IsUtf8(line)
      PROVE  Hopeless(framing)
  <2>1. ASSUME NEW u \in Text, NEW last \in BOOLEAN, Extends(input, eof, u, last)
        PROVE  ~HasFrame(u, last, framing, base)
    <3>1. /\ Between(u, start, e) = line
          /\ \A k \in start + 1 .. Len(u) : IsLine(u, last, start, k) => k = e
      BY <2>1, SoleLine
    <3> QED BY <1>2, <2>1, <3>1, NoLine
  <2> QED BY <2>1 DEF Hopeless
<1>3. pc # "idle"
  BY DEF LineGoals
<1>4. CASE OverCap(e - start) /\ Refuse("line length", e) /\ UNCHANGED framing
  <2>1. Hopeless(framing)
    BY <1>2, <1>4 DEF OverCap
  <2> QED BY <1>3, <1>4, <2>1, Refused DEF Reasons
<1>5. CASE /\ ~OverCap(e - start) /\ ~IsUtf8(line) /\ UNCHANGED framing
           /\ IF InsideFrame THEN Refuse("undecodable header", e)
                             ELSE Finish(Outcome("invalid"), e)
  <2>1. CASE InsideFrame
    <3>1. Hopeless(framing)
      BY <1>2, <1>5, <2>1
    <3> QED BY <1>3, <1>5, <2>1, <3>1, Refused DEF Reasons
  <2>2. CASE ~InsideFrame
    <3>1. pc \in {"auto", "newline"} /\ e - start =< MaxLen
      BY <1>1, <1>5, <2>2, Positions DEF InsideFrame, LineGoals, OverCap
    <3> QED BY <1>5, <2>2, <3>1, LineIsRead
  <2> QED BY <2>1, <2>2
<1>6. ASSUME ~OverCap(e - start), IsUtf8(line),
             \/ pc = "auto" /\ AutoLine(line, e)
             \/ pc = "newline" /\ Finish(Message(TrimCrlf(line)), e) /\ UNCHANGED framing
             \/ pc = "opening" /\ OpeningLine(line, e)
             \/ pc = "header" /\ HeaderLine(line, e)
      PROVE  Scanned' /\ Reads
  <2>1. e - start =< MaxLen
    BY <1>1, <1>6, Positions DEF OverCap
  <2>2. CASE pc = "auto" /\ IsBlank(line) /\ start' = e /\ pos' = e /\ base' = e
             /\ UNCHANGED <<framing, desync, pc, lines, declared, out>>
    <3>1. /\ desync = "None" /\ framing = "Auto" /\ start = base
          /\ UNCHANGED <<input, eof>>
      BY <2>2, Positions DEF Scanned, peer
    <3>2. Stream!SkipBlankLine
      BY <2>1, <2>2, <3>1, SameText DEF Stream!SkipBlankLine, Stream!Live, Stream!Line
    <3>3. \A i \in start' + 1 .. pos' : FALSE
      BY <1>1, <2>2
    <3>4. Scanned'
      BY <2>2, <3>1, <3>3 DEF Scanned, LineGoals
    <3> QED BY <3>2, <3>4 DEF Reads, Stream!Next
  <2>3. CASE pc = "auto" /\ IsHeader(line) /\ framing' = "ContentLength" /\ OpenFrame(line, e)
    BY <1>1, <1>6, <2>1, <2>3, FrameIsOpened
  <2>4. CASE /\ pc = "auto" /\ ~IsBlank(line) /\ ~IsHeader(line)
             /\ framing' = "Newline" /\ Finish(Message(TrimCrlf(line)), e)
    BY <1>6, <2>1, <2>4, LineIsRead
  <2>5. CASE pc = "newline" /\ Finish(Message(TrimCrlf(line)), e) /\ UNCHANGED framing
    <3>1. framing' = "Newline"
      BY <2>5 DEF Scanned
    <3> QED BY <1>6, <2>1, <2>5, <3>1, LineIsRead
  <2>6. CASE pc = "opening" /\ IsHeader(line) /\ UNCHANGED framing /\ OpenFrame(line, e)
    <3>1. framing' = "ContentLength"
      BY <2>6 DEF Scanned
    <3> QED BY <1>1, <1>6, <2>1, <2>6, <3>1, FrameIsOpened
  <2>7. CASE pc = "opening" /\ ~IsHeader(line) /\ UNCHANGED framing /\ Refuse("no header", e)
    <3>1. DeclaredLengths(line) = {}
      BY <1>1, <2>7, OneLength
    <3>2. start = base /\ framing = "ContentLength"
      BY <2>7, Positions DEF Scanned
    <3>3. ASSUME NEW u \in Text, NEW last \in BOOLEAN, Extends(input, eof, u, last)
          PROVE  ~HasFrame(u, last, "ContentLength", base)
      BY <3>1, <3>2, <3>3, Positions, SoleLine, NoLength
    <3>4. Hopeless(framing)
      BY <3>2, <3>3 DEF Hopeless
    <3> QED BY <1>3, <2>7, <3>4, Refused DEF Reasons
  <2>8. CASE pc = "header" /\ HeaderLine(line, e)
    BY <1>6, <2>1, <2>8, HeaderIsRead
  <2> QED BY <1>6, <2>2, <2>3, <2>4, <2>5, <2>6, <2>7, <2>8 DEF AutoLine, OpeningLine
<1> QED BY <1>4, <1>5, <1>6 DEF LineRead

\* One round of the loop of read_line.
LEMMA TakeLineReads ==
  ASSUME IInv, Scanned, TakeLine
  PROVE  Scanned' /\ Reads
<1>1. /\ pc \in LineGoals /\ pc # "idle" /\ pos < Len(input) /\ UNCHANGED peer
      /\ \A i \in start + 1 .. pos : input[i] # Newline
  BY DEF TakeLine, Scanned, LineGoals
<1>2. PICK to \in pos .. Len(input) :
        \/ \E nl \in pos + 1 .. to :
             /\ input[nl] = Newline
             /\ \A i \in pos + 1 .. nl - 1 : input[i] # Newline
             /\ LineRead(nl)
        \/ /\ \A i \in pos + 1 .. to : input[i] # Newline
           /\ IF OverCap(to - start)
                THEN Refuse("line length", to)
                ELSE /\ pos' = to
                     /\ UNCHANGED <<desync, pc, start, lines, declared, out, base>>
           /\ UNCHANGED framing
  BY DEF TakeLine
<1>3. ASSUME NEW nl \in pos + 1 .. to, input[nl] = Newline,
             \A i \in pos + 1 .. nl - 1 : input[i] # Newline, LineRead(nl)
      PROVE  Scanned' /\ Reads
  <2>1. nl \in start + 1 .. Len(input) /\ start < nl /\ nl =< Len(input)
    BY Positions
  <2>2. \A i \in start + 1 .. nl - 1 : i \in start + 1 .. pos \/ i \in pos + 1 .. nl - 1
    BY Positions
  <2>3. IsLine(input, eof, start, nl)
    BY <1>1, <1>3, <2>1, <2>2 DEF IsLine
  <2> QED BY <1>1, <1>3, <2>1, <2>3, LineReadReads
<1>4. ASSUME \A i \in pos + 1 .. to : input[i] # Newline
      PROVE  \A i \in start + 1 .. to : input[i] # Newline
  <2>1. \A i \in start + 1 .. to : i \in start + 1 .. pos \/ i \in pos + 1 .. to
    BY Positions
  <2> QED BY <1>1, <1>4, <2>1
<1>5. ASSUME \A i \in pos + 1 .. to : input[i] # Newline,
             OverCap(to - start), Refuse("line length", to), UNCHANGED framing
      PROVE  Scanned' /\ Reads
  <2>1. to - start > MaxLen
    BY <1>5 DEF OverCap
  <2>2. ASSUME NEW u \in Text, NEW last \in BOOLEAN, Extends(input, eof, u, last),
               NEW e \in start + 1 .. Len(u), IsLine(u, last, start, e)
        PROVE  e - start > MaxLen
    <3>1. u[e] = Newline \/ e = Len(u)
      BY <2>2 DEF IsLine
    <3>2. /\ start \in Nat /\ pos \in Nat /\ Len(input) \in Nat /\ MaxLen \in Nat
          /\ to \in Nat /\ to =< Len(input) /\ Len(input) =< Len(u) /\ Len(u) \in Nat
          /\ e \in Nat /\ start < e
      BY <2>2, Positions, LenProperties DEF Extends, Text
    <3>3. \A i \in start + 1 .. to : u[i] # Newline
      <4>1. \A i \in start + 1 .. to : i \in 1 .. Len(input)
        BY <3>2
      <4> QED BY <1>4, <1>5, <2>2, <4>1 DEF Extends
    <3>4. e \notin start + 1 .. to \/ e = Len(u)
      BY <3>1, <3>3
    <3>5. to =< e
      BY <3>2, <3>4
    <3> QED BY <2>1, <3>2, <3>5
  <2>3. Hopeless(framing)
    BY <1>1, <2>2, NoLine DEF Hopeless
  <2> QED BY <1>1, <1>5, <2>3, Refused DEF Reasons
<1>6. ASSUME \A i \in pos + 1 .. to : input[i] # Newline, pos' = to,
             UNCHANGED <<desync, pc, start, lines, declared, out, base, framing>>
      PROVE  Scanned' /\ Reads
  <2>1. Scanned'
    BY <1>1, <1>4, <1>6 DEF Scanned, peer, LineGoals
  <2> QED BY <1>1, <1>6, <2>1 DEF Reads, Stream!vars, peer
<1> QED BY <1>2, <1>3, <1>5, <1>6

\* read_line at the end of the stream.
LEMMA LineAtEofReads ==
  ASSUME IInv, Scanned, LineAtEof
  PROVE  Scanned' /\ Reads
<1>1. /\ pc \in LineGoals /\ pc # "idle" /\ pos = Len(input) /\ eof /\ UNCHANGED peer
      /\ \A i \in start + 1 .. pos : input[i] # Newline
  BY DEF LineAtEof, Scanned, LineGoals
<1>2. CASE pos = start /\ Finish(Outcome("closed"), pos) /\ UNCHANGED framing
  <2>1. start + 1 .. Len(input) = {}
    BY <1>1, <1>2, Positions
  <2>2. ~HasFrame(input, eof, framing, base)
    <3>1. Extends(input, eof, input, eof) /\ input \in Text /\ eof \in BOOLEAN
      BY Positions DEF Extends, IInv, TypeOK
    <3> QED BY <1>1, <2>1, <3>1, NoLine
  <2>3. /\ pc' = "idle" /\ base' = Len(input) /\ out' = Outcome("closed")
        /\ UNCHANGED <<input, eof, desync>> /\ desync = "None"
    BY <1>1, <1>2 DEF Finish, Return, peer, Scanned
  <2>4. Stream!Ended
    BY <1>1, <1>2, <2>2, <2>3, SameText, SameFrames DEF Stream!Ended, Stream!Live
  <2> QED BY <2>3, <2>4, IdleScanned DEF Reads, Stream!Next
<1>3. CASE pos # start /\ LineRead(pos)
  <2>1. pos \in start + 1 .. Len(input) /\ start < pos
    BY <1>1, <1>3, Positions
  <2>2. \A i \in start + 1 .. pos - 1 : i \in start + 1 .. pos
    BY Positions
  <2>3. IsLine(input, eof, start, pos)
    BY <1>1, <2>1, <2>2, Positions DEF IsLine
  <2> QED BY <1>1, <1>3, <2>1, <2>3, LineReadReads
<1> QED BY <1>1, <1>2, <1>3 DEF LineAtEof

\* The body (read_content_length).
LEMMA BodyReads ==
  ASSUME IInv, Scanned, TakeBody \/ BodyRead \/ BodyAtEof
  PROVE  Scanned' /\ Reads
<1>1. /\ pc = "body" /\ UNCHANGED <<input, eof, framing>>
      /\ desync = "None" /\ framing = "ContentLength"
      /\ IsHeaderBlock(input, eof, base, start)
      /\ Declares(input, eof, base, start, declared)
  BY DEF TakeBody, BodyRead, BodyAtEof, BodyComplete, Scanned, peer
<1>2. base < start
  BY <1>1 DEF IsHeaderBlock
<1>3. CASE TakeBody
  <2>1. UNCHANGED <<input, eof, framing, desync, pc, start, lines, declared, out, base>>
    BY <1>3 DEF TakeBody, peer
  <2>2. Scanned'
    BY <1>1, <2>1 DEF Scanned, LineGoals
  <2> QED BY <2>1, <2>2 DEF Reads, Stream!vars
<1>4. CASE BodyRead
  <2> DEFINE text == Between(input, start, pos)
  <2>1. pos - start = declared
    BY <1>4 DEF BodyRead, BodyComplete
  <2>2. /\ IsFrame(input, eof, base, start, pos)
        /\ start \in base + 1 .. Len(input) /\ pos \in base + 1 .. Len(input)
    BY <1>1, <1>2, <2>1, Positions DEF IsFrame
  <2>3. Finish(IF IsUtf8(text) THEN Message(text) ELSE Outcome("invalid"), pos)
    BY <1>4 DEF BodyRead, Deliver
  <2>4. /\ pc' = "idle" /\ base' = pos /\ UNCHANGED desync
        /\ out' = IF IsUtf8(text) THEN Message(text) ELSE Outcome("invalid")
    BY <2>3 DEF Finish, Return
  <2>5. Stream!ReadFrame
    BY <1>1, <2>2, <2>4, SameText, SameFrames
       DEF Stream!ReadFrame, Stream!Live, Stream!Decoded
  <2>6. desync' = "None"
    BY <1>1, <2>4
  <2> QED BY <2>4, <2>5, <2>6, IdleScanned DEF Reads, Stream!Next
<1>5. CASE BodyAtEof
  <2>1. pos - start # declared /\ pos = Len(input)
    BY <1>5 DEF BodyAtEof, BodyComplete
  <2>2. pos - start =< declared
    BY <1>1 DEF IInv, BoundedBuffer
  <2>3. Len(input) - start < declared
    <3>1. pos \in Nat /\ start \in Nat /\ declared \in Nat
      BY Positions
    <3> QED BY <2>1, <2>2, <3>1
  <2>4. Hopeless(framing)
    <3>1. ~HasFrame(input, eof, "ContentLength", base) /\ eof = TRUE
      BY <1>1, <1>5, <2>3, Positions, NoBody DEF BodyAtEof, IInv, TypeOK
    <3> QED BY <1>1, <3>1 DEF Hopeless, Extends
  <2>5. Refuse("short body", pos) /\ UNCHANGED peer
    BY <1>5 DEF BodyAtEof
  <2> QED BY <1>1, <2>4, <2>5, Refused DEF Reasons
<1> QED BY <1>3, <1>4, <1>5

\* read_message starts a read, or repeats that the stream is dead.
LEMMA ReadMessageReads ==
  ASSUME IInv, Scanned, ReadMessage
  PROVE  Scanned' /\ Reads
<1>1. pc = "idle" /\ UNCHANGED <<input, eof, pos, framing, desync, start, lines, declared, base>>
  BY DEF ReadMessage, peer
<1>2. CASE desync # "None" /\ out' = Outcome("invalid") /\ UNCHANGED pc
  <2>1. Stream!ReadDead
    BY <1>1, <1>2, SameText DEF Stream!ReadDead
  <2>2. desync' \in {"None", "io"} \/ Hopeless(framing)'
    BY <1>1 DEF Scanned, Hopeless
  <2> QED BY <1>1, <1>2, <2>1, <2>2, IdleScanned DEF Reads, Stream!Next
<1>3. CASE /\ desync = "None" /\ UNCHANGED out
           /\ pc' = CASE framing = "Auto" -> "auto"
                      [] framing = "Newline" -> "newline"
                      [] framing = "ContentLength" -> "opening"
  <2>1. \/ framing = "Auto" /\ pc' = "auto"
        \/ framing = "Newline" /\ pc' = "newline"
        \/ framing = "ContentLength" /\ pc' = "opening"
    BY <1>3 DEF IInv, TypeOK
  <2>2. start + 1 .. pos = {}
    BY <1>1, <1>3, Positions DEF IInv, Spent
  <2>3. Scanned'
    BY <1>1, <1>3, <2>1, <2>2 DEF Scanned
  <2> QED BY <1>1, <1>3, <2>3 DEF Reads, Stream!vars
<1> QED BY <1>2, <1>3 DEF ReadMessage

\* What was scanned is still so when the peer sends more, or closes.
LEMMA ScannedByMore ==
  ASSUME IInv, Scanned, pc # "idle", input' \in Text, Extends(input, eof, input', eof'),
         UNCHANGED <<pos, framing, desync, pc, start, lines, declared, base>>
  PROVE  Scanned'
<1>1. /\ HeaderLines(input, eof, base, start, lines)
           => HeaderLines(input', eof', base, start, lines)
      /\ IsHeaderBlock(input, eof, base, start) => IsHeaderBlock(input', eof', base, start)
      /\ Declares(input, eof, base, start, declared)
           => Declares(input', eof', base, start, declared)
  BY Positions, SameHeaders
<1>2. \A i \in start + 1 .. pos : input'[i] = input[i]
  <2>1. \A i \in start + 1 .. pos : i \in 1 .. Len(input)
    BY Positions
  <2> QED BY <2>1 DEF Extends
<1> QED BY <1>1, <1>2 DEF Scanned

\* The buffered reader is filled, ends or fails.
LEMMA PeerReads ==
  ASSUME IInv, Scanned, Fill \/ FillEof \/ FillFail
  PROVE  Scanned' /\ Reads
<1>1. /\ pc # "idle" /\ pos = Len(input) /\ eof = FALSE /\ desync = "None"
      /\ input \in Text /\ Len(input) \in Nat /\ base \in Nat /\ base =< pos
  <2>1. pc # "idle" /\ pos = Len(input) /\ ~eof
    BY DEF Fill, FillEof, FillFail, AwaitingPeer
  <2> QED BY <2>1, Positions DEF IInv, TypeOK, Scanned
<1>2. CASE Fill
  <2>1. PICK n \in 1 .. MaxChunk :
          \E chunk \in [1 .. n -> Bytes] : input' = input \o chunk
    BY <1>2 DEF Fill
  <2>2. PICK chunk \in [1 .. n -> Bytes] : input' = input \o chunk
    BY <2>1
  <2>3. chunk \in Seq(Bytes) /\ Len(chunk) = n /\ n \in Nat /\ n > 0
    BY BoundAssumption, <2>1, <2>2
  <2>4. /\ input' \in Seq(Bytes) /\ Len(input') = Len(input) + n
        /\ \A i \in 1 .. Len(input) : input'[i] = input[i]
    <3>1. /\ input \o chunk \in Seq(Bytes) /\ Len(input \o chunk) = Len(input) + Len(chunk)
          /\ \A i \in 1 .. Len(input) + Len(chunk) :
               (input \o chunk)[i] = IF i <= Len(input) THEN input[i]
                                                        ELSE chunk[i - Len(input)]
      BY <1>1, <2>3, ConcatProperties DEF Text
    <3> QED BY <1>1, <2>2, <2>3, <3>1
  <2>5. UNCHANGED <<eof, pos, framing, desync, pc, start, lines, declared, out, base>>
    BY <1>2 DEF Fill
  <2>6. Scanned'
    <3>1. Extends(input, eof, input', eof') /\ input' \in Text
      BY <1>1, <2>3, <2>4 DEF Extends, Text
    <3> QED BY <1>1, <2>5, <3>1, ScannedByMore
  <2>7. SubSeq(input', 1, Len(input)) = input
    <3>1. input' \in Text /\ Extends(input, eof, input', eof') /\ Len(input) \in 0 .. Len(input)
      BY <1>1, <2>3, <2>4 DEF Extends, Text
    <3>2. Between(input', 0, Len(input)) = Between(input, 0, Len(input))
      BY <1>1, <3>1, SameBetween
    <3>3. SubSeq(input', 0 + 1, Len(input)) = SubSeq(input, 0 + 1, Len(input))
      BY <3>2 DEF Between
    <3>4. SubSeq(input, 1, Len(input)) = input
      BY <1>1, SubSeqFull DEF Text
    <3>5. 0 + 1 = 1
      OBVIOUS
    <3> QED BY <3>3, <3>4, <3>5
  <2>8. Stream!Arrive
    BY <1>1, <2>3, <2>4, <2>5, <2>7 DEF Stream!Arrive
  <2> QED BY <2>6, <2>8 DEF Reads, Stream!Next
<1>3. CASE FillEof
  <2>1. /\ eof' = TRUE
        /\ UNCHANGED <<input, pos, framing, desync, pc, start, lines, declared, out, base>>
    BY <1>3 DEF FillEof
  <2>2. Scanned'
    <3>1. Extends(input, eof, input', eof') /\ input' \in Text
      BY <1>1, <2>1 DEF Extends
    <3> QED BY <1>1, <2>1, <3>1, ScannedByMore
  <2>3. Stream!Close
    BY <1>1, <2>1 DEF Stream!Close
  <2> QED BY <2>2, <2>3 DEF Reads, Stream!Next
<1>4. CASE FillFail
  <2>1. UNCHANGED <<input, eof, framing>>
    BY <1>4 DEF FillFail, peer
  <2>2. CASE pc \in {"auto", "newline"} /\ Finish(Outcome("io"), pos)
    <3>1. /\ framing # "ContentLength" /\ pc' = "idle" /\ base' = pos
          /\ out' = Outcome("io") /\ desync' = "None"
      BY <1>1, <2>2 DEF Scanned, Finish, Return
    <3>2. pos \in base .. Len(input)
      BY <1>1
    <3>3. Stream!Fail
      BY <1>1, <2>1, <3>1, <3>2, SameText DEF Stream!Fail, Stream!Live
    <3> QED BY <3>1, <3>3, IdleScanned DEF Reads, Stream!Next
  <2>3. CASE pc \notin {"auto", "newline"} /\ Desync("io", Outcome("io"), pos)
    <3>1. /\ framing = "ContentLength" /\ pc' = "idle" /\ base' = base
          /\ out' = Outcome("io") /\ desync' = "io"
      BY <1>1, <2>3 DEF Scanned, Desync, Return, IInv, TypeOK, LineGoals
    <3>2. Stream!Fail
      BY <1>1, <2>1, <3>1, SameText DEF Stream!Fail, Stream!Live
    <3> QED BY <3>1, <3>2, IdleScanned DEF Reads, Stream!Next
  <2> QED BY <1>4, <2>2, <2>3 DEF FillFail
<1> QED BY <1>2, <1>3, <1>4

\* A new transport.
LEMMA InitReads == Init => Scanned /\ Stream!Init
BY SameText DEF Init, Scanned, LineGoals, Stream!Init

\* Every step.
LEMMA NextReads == IInv /\ Scanned /\ [Next]_vars => Scanned' /\ Reads
<1> SUFFICES ASSUME IInv, Scanned, [Next]_vars
             PROVE  Scanned' /\ Reads
  OBVIOUS
<1>1. CASE ReadMessage
  BY <1>1, ReadMessageReads
<1>2. CASE TakeLine
  BY <1>2, TakeLineReads
<1>3. CASE LineAtEof
  BY <1>3, LineAtEofReads
<1>4. CASE TakeBody \/ BodyRead \/ BodyAtEof
  BY <1>4, BodyReads
<1>5. CASE Fill \/ FillEof \/ FillFail
  BY <1>5, PeerReads
<1>6. CASE UNCHANGED vars
  BY <1>6 DEF vars, peer, Scanned, Hopeless, Reads, Stream!vars
<1> QED BY <1>1, <1>2, <1>3, <1>4, <1>5, <1>6 DEF Next, Step

\* Every read hands over the frame that starts where the last one ended, whole, and a
\* frame is refused only where there is none: FramedTransport implements MessageStream
\* (read_message, transport.rs:15-28).
THEOREM ReadsWholeFrames == Spec => ReadsFrames
<1>1. IInv /\ Scanned /\ [Next]_vars => Scanned' /\ [Stream!Next]_(Stream!vars)
  BY NextReads DEF Reads
<1> QED BY <1>1, InitReads, TransportInvariant, PTL DEF Spec, ReadsFrames, Stream!Spec

\* A stream that was refused has no frame left, whichever of the given texts its peer
\* had sent on (declared_length, read_line, read_content_length).
LEMMA ScannedRefuses == IInv /\ Scanned => RefusedOnlyIfHopeless
<1> SUFFICES ASSUME IInv, Scanned, desync \notin {"None", "io"},
                    NEW more \in (IF eof THEN {<<>>} ELSE Continuations),
                    NEW closed \in {eof, TRUE}
             PROVE  ~HasFrame(input \o more, closed, framing, base)
  BY DEF RefusedOnlyIfHopeless
<1>1. input \in Text /\ eof \in BOOLEAN /\ closed \in BOOLEAN /\ more \in Text
      /\ (eof => more = <<>> /\ closed = eof)
  BY BoundAssumption, EmptySeq DEF IInv, TypeOK, Text
<1>2. /\ input \o more \in Text
      /\ Len(input \o more) = Len(input) + Len(more)
      /\ Len(input) \in Nat /\ Len(more) \in Nat
      /\ \A i \in 1 .. Len(input) : (input \o more)[i] = input[i]
  <2>1. /\ input \o more \in Seq(Bytes) /\ Len(input \o more) = Len(input) + Len(more)
        /\ Len(input) \in Nat /\ Len(more) \in Nat
        /\ \A i \in 1 .. Len(input) + Len(more) :
             (input \o more)[i] = IF i <= Len(input) THEN input[i] ELSE more[i - Len(input)]
    BY <1>1, ConcatProperties, LenProperties DEF Text
  <2> QED BY <2>1 DEF Text
<1>3. eof => input \o more = input
  BY <1>1, ConcatEmptySeq DEF Text
<1>4. Extends(input, eof, input \o more, closed)
  BY <1>1, <1>2, <1>3 DEF Extends
<1>5. Hopeless(framing)
  BY DEF Scanned
<1> QED BY <1>1, <1>2, <1>4, <1>5 DEF Hopeless

\* A stream is only ended when nothing its peer could send on would make a frame of what
\* it sent, unless the read itself failed (declared_length, read_line,
\* read_content_length).
THEOREM RefusedForGood == Spec => []RefusedOnlyIfHopeless
<1>1. IInv /\ Scanned /\ [Next]_vars => Scanned'
  BY NextReads
<1> QED BY <1>1, InitReads, ScannedRefuses, TransportInvariant, PTL DEF Spec
=============================================================================
