--------------------------- MODULE HttpParserProofs ---------------------------
(***************************************************************************)
(* The two request parsers, for any input, any size of the buffer and      *)
(* however the bytes are cut into reads.                                   *)
(*                                                                         *)
(* ScanOrder is inductive with the types: the scanner stops at the first   *)
(* line end at or after checked_index, so all it has passed are bytes that *)
(* end no line, and it never passes a CR without the LF that follows.      *)
(*                                                                         *)
(* ChunkingIrrelevant compares the answer with Verdict, which looks at all *)
(* that was received at once.  Its invariant (Answers) says what of the    *)
(* definition the parser has settled: in each state of the automaton which *)
(* line ends lie before start_line (Stage), why it waits (Waits), and why  *)
(* it gave its answer (Accepted, Rejected), all in terms of positions in   *)
(* what was received and so of no particular cut.  More bytes leave these  *)
(* positions where they are (Extends), and each turn of the loop finds the *)
(* next one.                                                               *)
(***************************************************************************)
EXTENDS HttpParser, WellFoundedInduction, SequenceTheorems, TLAPS

(* A set of natural numbers that is not empty has a least element. *)
LEMMA MinNat ==
  ASSUME NEW T \in SUBSET Nat, T # {}
  PROVE  Min(T) \in T /\ \A y \in T : Min(T) <= y
<1> DEFINE R == {ss \in Nat \X Nat : ss[1] < ss[2]}
<1>1. IsWellFoundedOn(R, Nat)
  BY NatLessThanWellFounded DEF OpToRel
<1> HIDE DEF R
<1>2. PICK x \in T : \A y \in T : ~(<<y, x>> \in R)
  BY <1>1, WFMin
<1>3. ASSUME NEW y \in T PROVE x <= y
  <2>1. x \in Nat /\ y \in Nat
    OBVIOUS
  <2>2. <<y, x>> \in R <=> y < x
    BY <2>1 DEF R
  <2>3. <<y, x>> \notin R
    BY <1>2
  <2> QED  BY <2>1, <2>2, <2>3
<1>4. \E z \in T : \A y \in T : z <= y
  BY <1>3
<1> QED  BY <1>4, Zenon DEF Min

LEMMA Sizes == BufferSize \in Nat \ {0} /\ BodyLength \in Nat \ {0}
BY SizesAssumption

LEMMA WordsReceived == ASSUME NEW s \in Inputs PROVE s \in Seq(Bytes)
<1>1. s \in Seq(Words)
  BY InputsAssumption
<1> QED  BY <1>1 DEF Bytes

Statuses == {"LINE_OK", "LINE_BAD", "LINE_OPEN"}
States   == {"REQUESTLINE", "HEADER", "CONTENT"}
Results  == {"NO_REQUEST", "GET_REQUEST", "BAD_REQUEST", "closed", "full", "failed"}

(* The buffer and the indices into it. *)
Window ==
  /\ input \in Inputs
  /\ buf \in Seq(Bytes) /\ Len(buf) <= BufferSize /\ Len(buf) <= Len(input)
  /\ start_line \in Nat /\ checked_index \in Nat
  /\ start_line <= checked_index /\ checked_index <= Len(buf)
  /\ checked_index > 0 => buf[checked_index] # "CR"

Rest ==
  /\ who \in {"demo", "conn"}
  /\ check_state \in States /\ line_status \in Statuses
  /\ pc \in {"recv", "parse", "done"} /\ result \in Results
  /\ body \in -1 .. BufferSize /\ text \in -1 .. BufferSize

LEMMA InitWindow == Init => Window /\ Rest
<1> SUFFICES ASSUME Init PROVE Window /\ Rest
  OBVIOUS
<1>1. input \in Seq(Bytes)
  BY WordsReceived DEF Init
<1>2. Window
  BY <1>1, Sizes DEF Init, Window
<1>3. Rest
  BY Sizes DEF Init, Rest, States, Statuses, Results
<1> QED  BY <1>2, <1>3

(* The first line end at or after checked_index. *)
LEMMA StopFirst ==
  ASSUME Window
  PROVE  /\ Stop \in Nat /\ checked_index <= Stop /\ Stop <= Len(buf)
         /\ Stop < Len(buf) => buf[Stop + 1] \in {"CR", "LF"}
         /\ \A k \in Nat : checked_index <= k /\ k < Stop => buf[k + 1] \notin {"CR", "LF"}
<1> DEFINE T == {k \in checked_index .. read_index - 1 : Byte(k) \in {"CR", "LF"}} \cup {read_index}
<1>1. read_index \in Nat /\ checked_index \in Nat /\ checked_index <= read_index
  BY DEF Window, read_index
<1>2. T \in SUBSET Nat /\ T # {}
  BY <1>1
<1>3. Stop \in T /\ \A y \in T : Stop <= y
  <2>1. Stop = Min(T)
    BY DEF Stop
  <2> HIDE DEF T
  <2> QED  BY <1>2, <2>1, MinNat
<1>4. Stop \in Nat /\ checked_index <= Stop /\ Stop <= read_index
  BY <1>1, <1>3
<1>5. Stop < read_index => Byte(Stop) \in {"CR", "LF"}
  BY <1>1, <1>3
<1>6. ASSUME NEW k \in Nat, checked_index <= k, k < Stop
      PROVE  Byte(k) \notin {"CR", "LF"}
  <2>1. k \in checked_index .. read_index - 1
    BY <1>1, <1>4, <1>6
  <2>2. k \notin T
    <3> HIDE DEF T
    <3> QED  BY <1>3, <1>4, <1>6
  <2> QED  BY <2>1, <2>2
<1> QED  BY <1>4, <1>5, <1>6 DEF read_index, Byte

(* No CR lies just before the place where the scanner stops. *)
LEMMA NoCRBehind ==
  ASSUME Window, Stop > 0
  PROVE  buf[Stop] # "CR"
<1>1. Stop \in Nat /\ checked_index \in Nat /\ checked_index <= Stop
  BY StopFirst DEF Window
<1>2. CASE Stop = checked_index
  BY <1>2 DEF Window
<1>3. CASE Stop # checked_index
  <2>1. Stop - 1 \in Nat /\ checked_index <= Stop - 1 /\ Stop - 1 < Stop /\ (Stop - 1) + 1 = Stop
    BY <1>1, <1>3
  <2>2. buf[(Stop - 1) + 1] \notin {"CR", "LF"}
    BY <2>1, StopFirst
  <2> QED  BY <2>1, <2>2
<1> QED  BY <1>2, <1>3

(* What a turn of the loop finds.  The branch of parse_line for an LF whose
   CR an earlier call has left behind is never taken. *)
LEMMA TurnFinds ==
  ASSUME Window, Rest
  PROVE  \/ Turn = Scan("LINE_OK", checked_index, {})
         \/ Stop + 1 < Len(buf) /\ Turn = Scan("LINE_OK", Stop + 2, {Stop, Stop + 1})
         \/ Turn = Scan("LINE_OPEN", Stop, {})
         \/ Turn = Scan("LINE_BAD", Stop, {})
<1>1. CASE InBody
  BY <1>1 DEF Turn
<1>2. CASE ~InBody
  <2>1. Turn = parse_line
    BY <1>2 DEF Turn
  <2>2. /\ Stop \in Nat /\ Stop <= Len(buf) /\ Len(buf) \in Nat
        /\ Stop < Len(buf) => buf[Stop + 1] \in {"CR", "LF"}
    BY StopFirst DEF Window
  <2>3. CASE Stop = read_index
    BY <2>1, <2>2, <2>3 DEF parse_line, read_index
  <2>4. CASE Stop < read_index /\ Byte(Stop) = "CR"
    <3>1. parse_line = IF Stop + 1 = read_index THEN Unfinished
                       ELSE IF Byte(Stop + 1) = "LF" THEN Scan("LINE_OK", Stop + 2, {Stop, Stop + 1})
                       ELSE Scan("LINE_BAD", Stop, {})
      BY <2>2, <2>4 DEF parse_line, read_index
    <3>2. Stop + 1 # read_index => Stop + 1 < Len(buf)
      BY <2>2, <2>4 DEF read_index
    <3> QED  BY <2>1, <3>1, <3>2 DEF Unfinished
  <2>5. CASE Stop < read_index /\ Byte(Stop) # "CR"
    <3>1. ~(Stop > 1 /\ Byte(Stop - 1) = "CR")
      <4> SUFFICES ASSUME Stop > 1 PROVE Byte(Stop - 1) # "CR"
        OBVIOUS
      <4>1. Stop > 0 /\ (Stop - 1) + 1 = Stop
        BY <2>2
      <4> QED  BY <4>1, NoCRBehind DEF Byte
    <3>2. parse_line = IF ~(Stop > 1 /\ Byte(Stop - 1) = "CR") THEN Scan("LINE_BAD", Stop, {})
                       ELSE IF who = "demo" THEN Scan("LINE_OK", Stop + 2, {Stop, Stop + 1})
                       ELSE Scan("LINE_OK", Stop + 1, {Stop - 1, Stop})
      BY <2>2, <2>5 DEF parse_line, read_index
    <3> QED  BY <2>1, <3>1, <3>2
  <2> QED  BY <2>2, <2>3, <2>4, <2>5 DEF read_index
<1> QED  BY <1>1, <1>2

(* The bytes that Nul leaves alone. *)
LEMMA NulBytes ==
  ASSUME buf \in Seq(Bytes), NEW P
  PROVE  /\ Nul(P) \in Seq(Bytes) /\ Len(Nul(P)) = Len(buf)
         /\ \A k \in 1 .. Len(buf) : Nul(P)[k] = IF k - 1 \in P THEN "NUL" ELSE buf[k]
<1>1. Len(buf) \in Nat /\ \A k \in 1 .. Len(buf) : buf[k] \in Bytes
  OBVIOUS
<1>2. "NUL" \in Bytes
  BY DEF Bytes
<1>3. Nul(P) = [k \in 1 .. Len(buf) |-> IF k - 1 \in P THEN "NUL" ELSE buf[k]]
  BY DEF Nul
<1>4. Nul(P) \in [1 .. Len(buf) -> Bytes]
  BY <1>1, <1>2, <1>3
<1> HIDE DEF Nul
<1>5. Nul(P) \in Seq(Bytes) /\ Len(Nul(P)) = Len(buf)
  BY <1>1, <1>4
<1> QED  BY <1>3, <1>5

(* A turn that finds a line leaves checked_index behind the line. *)
LEMMA FoundLine ==
  ASSUME Window, Rest, Turn.status = "LINE_OK"
  PROVE  /\ Turn.buf \in Seq(Bytes) /\ Len(Turn.buf) = Len(buf)
         /\ Turn.index \in Nat /\ start_line <= Turn.index /\ Turn.index <= Len(buf)
         /\ Turn.index > 0 => Turn.buf[Turn.index] # "CR"
<1>1. buf \in Seq(Bytes) /\ start_line \in Nat /\ checked_index \in Nat /\ Len(buf) \in Nat
      /\ start_line <= checked_index /\ checked_index <= Len(buf)
  BY DEF Window
<1>2. CASE Turn = Scan("LINE_OK", checked_index, {})
  <2>1. Turn.buf = Nul({}) /\ Turn.index = checked_index
    BY <1>2 DEF Scan
  <2>2. \A k \in 1 .. Len(buf) : Nul({})[k] = buf[k]
    BY <1>1, NulBytes
  <2>3. checked_index > 0 => Nul({})[checked_index] # "CR"
    BY <1>1, <2>2 DEF Window
  <2> QED  BY <1>1, <2>1, <2>3, NulBytes
<1>3. CASE Stop + 1 < Len(buf) /\ Turn = Scan("LINE_OK", Stop + 2, {Stop, Stop + 1})
  <2> DEFINE P == {Stop, Stop + 1}
  <2>1. Turn.buf = Nul(P) /\ Turn.index = Stop + 2
    BY <1>3 DEF Scan
  <2>2. Stop \in Nat /\ checked_index <= Stop
    BY StopFirst
  <2>3. Stop + 2 \in 1 .. Len(buf) /\ (Stop + 2) - 1 \in P
    BY <1>1, <1>3, <2>2
  <2>4. Nul(P)[Stop + 2] = "NUL"
    <3> HIDE DEF P
    <3> QED  BY <1>1, <2>3, NulBytes
  <2>5. start_line <= Stop + 2 /\ Stop + 2 <= Len(buf) /\ Stop + 2 \in Nat
    BY <1>1, <2>2, <2>3
  <2>6. Nul(P) \in Seq(Bytes) /\ Len(Nul(P)) = Len(buf)
    <3> HIDE DEF P
    <3> QED  BY <1>1, NulBytes
  <2> QED  BY <2>1, <2>4, <2>5, <2>6
<1>4. ASSUME Turn = Scan("LINE_OPEN", Stop, {}) \/ Turn = Scan("LINE_BAD", Stop, {}) PROVE FALSE
  BY <1>4 DEF Scan
<1> QED  BY <1>2, <1>3, <1>4, TurnFinds

(* A turn that finds none stops in front of a line end or of nothing. *)
LEMMA FoundNone ==
  ASSUME Window, Rest, Turn.status # "LINE_OK"
  PROVE  Turn.status \in {"LINE_OPEN", "LINE_BAD"} /\ Turn.index = Stop
<1>1. Turn = Scan("LINE_OPEN", Stop, {}) \/ Turn = Scan("LINE_BAD", Stop, {})
  BY TurnFinds DEF Scan
<1> QED  BY <1>1 DEF Scan

LEMMA RoomBound ==
  ASSUME Window, NEW n \in 1 .. Room
  PROVE  n \in Nat /\ Len(buf) + n <= BufferSize /\ Len(buf) + n <= Len(input) /\ input \in Seq(Bytes)
<1>1. input \in Seq(Bytes) /\ Len(input) \in Nat /\ Len(buf) \in Nat /\ BufferSize \in Nat
  BY WordsReceived, Sizes DEF Window
<1>2. {BufferSize, Len(input)} \in SUBSET Nat /\ {BufferSize, Len(input)} # {}
  BY <1>1
<1>3. /\ Min({BufferSize, Len(input)}) <= BufferSize /\ Min({BufferSize, Len(input)}) <= Len(input)
      /\ Min({BufferSize, Len(input)}) \in Nat
  BY <1>1, <1>2, MinNat
<1> DEFINE M == Min({BufferSize, Len(input)})
<1>4. n \in 1 .. (M - Len(buf))
  BY DEF Room, read_index
<1> HIDE DEF M
<1>5. M <= BufferSize /\ M <= Len(input) /\ M \in Nat
  BY <1>3 DEF M
<1> QED  BY <1>1, <1>4, <1>5

LEMMA NextWindow == Window /\ Rest /\ [Next]_vars => Window'
<1> SUFFICES ASSUME Window, Rest, [Next]_vars PROVE Window'
  OBVIOUS
<1>1. CASE Receive
  <2>1. PICK n \in 1 .. Room : buf' = buf \o SubSeq(input, read_index + 1, read_index + n)
    BY <1>1 DEF Receive
  <2>2. /\ n \in Nat /\ Len(buf) + n <= BufferSize /\ Len(buf) + n <= Len(input)
        /\ input \in Seq(Bytes) /\ n >= 1
    BY RoomBound
  <2>3. buf \in Seq(Bytes) /\ Len(buf) \in Nat
    BY DEF Window
  <2> DEFINE new == SubSeq(input, Len(buf) + 1, Len(buf) + n)
  <2>4. new \in Seq(Bytes) /\ Len(new) = n
    BY <2>2, <2>3
  <2>5. buf' = buf \o new
    BY <2>1 DEF read_index
  <2> HIDE DEF new
  <2>6. /\ buf' \in Seq(Bytes) /\ Len(buf') = Len(buf) + n
        /\ \A k \in 1 .. Len(buf) : buf'[k] = buf[k]
    BY <2>3, <2>4, <2>5, ConcatProperties
  <2>7. UNCHANGED <<input, start_line, checked_index>>
    BY <1>1 DEF Receive
  <2>8. checked_index \in Nat /\ checked_index <= Len(buf) /\ start_line \in Nat
        /\ start_line <= checked_index /\ input \in Inputs
        /\ (checked_index > 0 => buf[checked_index] # "CR")
    BY DEF Window
  <2>9. checked_index > 0 => buf'[checked_index] # "CR"
    BY <2>3, <2>6, <2>8
  <2>10. checked_index <= Len(buf') /\ Len(buf') <= BufferSize /\ Len(buf') <= Len(input)
    BY <2>2, <2>3, <2>6, <2>8
  <2> QED  BY <2>6, <2>7, <2>8, <2>9, <2>10 DEF Window
<1>2. CASE TakeLine
  <2>1. /\ Turn.status = "LINE_OK" /\ buf' = Turn.buf /\ checked_index' = Turn.index
        /\ start_line' = Turn.index /\ input' = input
    BY <1>2 DEF TakeLine
  <2>2. /\ buf' \in Seq(Bytes) /\ Len(buf') = Len(buf) /\ checked_index' \in Nat
        /\ checked_index' <= Len(buf) /\ (checked_index' > 0 => buf'[checked_index'] # "CR")
    BY <2>1, FoundLine
  <2>3. start_line' = checked_index' /\ start_line' <= checked_index'
    BY <2>1, <2>2
  <2> QED  BY <2>1, <2>2, <2>3 DEF Window
<1>3. CASE NoLine
  <2>1. Turn.status # "LINE_OK" /\ checked_index' = Turn.index /\ UNCHANGED <<input, buf, start_line>>
    BY <1>3 DEF NoLine
  <2>2. checked_index' = Stop
    BY <2>1, FoundNone
  <2>3. Stop \in Nat /\ checked_index <= Stop /\ Stop <= Len(buf) /\ (Stop > 0 => buf[Stop] # "CR")
    BY StopFirst, NoCRBehind
  <2>4. start_line <= Stop
    BY <2>3 DEF Window
  <2> QED  BY <2>1, <2>2, <2>3, <2>4 DEF Window
<1>4. CASE ReceiveFull \/ ReceiveFails \/ Finished \/ Silent \/ UNCHANGED vars
  BY <1>4 DEF ReceiveFull, ReceiveFails, Finished, Silent, vars, parserVars, Window
<1> QED  BY <1>1, <1>2, <1>3, <1>4 DEF Next, ServerStep

LEMMA NextRest == Window /\ Rest /\ [Next]_vars => Rest'
<1> SUFFICES ASSUME Window, Rest, [Next]_vars PROVE Rest'
  OBVIOUS
<1>1. CASE Receive
  BY <1>1 DEF Receive, Rest, Statuses
<1>2. CASE TakeLine
  <2>1. /\ Turn.status = "LINE_OK" /\ start_line' = Turn.index /\ who' = who
        /\ line_status' \in Statuses /\ pc' \in {"recv", "parse", "done"}
        /\ \E l : Line(l, Turn.buf)
    BY <1>2 DEF TakeLine, Statuses
  <2>2. start_line \in -1 .. BufferSize /\ start_line' \in -1 .. BufferSize
    <3>1. /\ Turn.index \in Nat /\ Turn.index <= Len(buf) /\ Len(buf) <= BufferSize
          /\ start_line \in Nat /\ start_line <= Turn.index /\ Len(buf) \in Nat
      BY <2>1, FoundLine DEF Window
    <3> QED  BY <2>1, <3>1, Sizes
  <2>3. PICK l : Line(l, Turn.buf)
    BY <2>1
  <2>4. CASE check_state = "REQUESTLINE"
    BY <2>1, <2>3, <2>4 DEF Line, Rest, States, Results
  <2>5. CASE check_state = "HEADER"
    BY <2>1, <2>2, <2>3, <2>5 DEF Line, Rest, States, Results
  <2>6. CASE check_state = "CONTENT"
    BY <2>1, <2>2, <2>3, <2>6 DEF Line, Rest, States, Results
  <2> QED  BY <2>4, <2>5, <2>6 DEF Rest, States
<1>3. CASE NoLine
  <2>1. Turn.status \in {"LINE_OPEN", "LINE_BAD"}
    BY <1>3, FoundNone DEF NoLine
  <2> QED  BY <1>3, <2>1 DEF NoLine, BadLine, Rest, Statuses, Results
<1>4. CASE ReceiveFull \/ ReceiveFails \/ Finished \/ Silent \/ UNCHANGED vars
  BY <1>4 DEF ReceiveFull, ReceiveFails, Finished, Silent, vars, parserVars, Rest, Results
<1> QED  BY <1>1, <1>2, <1>3, <1>4 DEF Next, ServerStep

LEMMA Inductive == Spec => [](Window /\ Rest)
BY InitWindow, NextWindow, NextRest, PTL DEF Spec

(* start_line, checked_index and read_index keep their order, and the byte
   before checked_index is never a CR: for every input and every way of
   receiving it, the branch of parse_line for an LF at the start of a call,
   where httprequest.cpp skips a byte too many, is dead. *)
THEOREM ScanOrderHolds == Spec => []ScanOrder
<1>1. Window => ScanOrder
  <2> SUFFICES ASSUME Window PROVE ScanOrder
    OBVIOUS
  <2>1. checked_index > 0 => buf[(checked_index - 1) + 1] # "CR"
    <3>1. (checked_index - 1) + 1 = checked_index
      BY DEF Window
    <3> QED  BY <3>1 DEF Window
  <2> QED  BY <2>1 DEF Window, ScanOrder, read_index, Byte
<1> QED  BY <1>1, Inductive, PTL

(* The parsers have their types; in particular neither reads more into the
   buffer than it has room for, and the body starts inside it. *)
THEOREM TypesHold == Spec => []TypeOK
<1>1. Window /\ Rest => TypeOK
  BY DEF Window, Rest, TypeOK, read_index, States, Statuses, Results
<1> QED  BY <1>1, Inductive, PTL

-----------------------------------------------------------------------------
(* The definition of a request.  First(T) is the least position in T. *)

Positions == SUBSET (1 .. BufferSize)

LEMMA FirstOf ==
  ASSUME NEW T \in Positions
  PROVE  /\ First(T) \in Nat /\ First(T) \in T \cup {BufferSize + 1}
         /\ \A y \in T : First(T) <= y
<1> DEFINE U == T \cup {BufferSize + 1}
<1>1. U \in SUBSET Nat /\ U # {}
  BY Sizes DEF Positions
<1>2. First(T) = Min(U)
  BY DEF First
<1> HIDE DEF U
<1>3. First(T) \in U /\ \A y \in U : First(T) <= y
  BY <1>1, <1>2, MinNat
<1> QED  BY <1>1, <1>3 DEF U

LEMMA FirstLeast ==
  ASSUME NEW T \in Positions, NEW x \in T, \A y \in T : x <= y
  PROVE  First(T) = x
<1>1. x \in Nat /\ x <= BufferSize /\ BufferSize \in Nat
  BY Sizes DEF Positions
<1>2. First(T) \in Nat /\ First(T) \in T \cup {BufferSize + 1} /\ First(T) <= x
  BY FirstOf
<1>3. First(T) \in T
  BY <1>1, <1>2
<1>4. x <= First(T)
  BY <1>3
<1> QED  BY <1>1, <1>2, <1>4

(* Where the lines of s end, and where they do so in the wrong way. *)
LEMMA LineEndsOf ==
  ASSUME NEW s \in Seq(Bytes), Len(s) <= BufferSize
  PROVE  /\ Pairs(s) \in Positions /\ Strays(s) \in Positions
         /\ {k \in Pairs(s) : k - 2 \in Pairs(s)} \in Positions
         /\ Len(s) \in Nat
         /\ \A k \in Pairs(s) \cup Strays(s) : k \in 1 .. Len(s)
<1>1. Len(s) \in Nat /\ BufferSize \in Nat
  BY Sizes
<1>2. \A k \in Pairs(s) : k \in 1 .. Len(s)
  BY <1>1 DEF Pairs
<1>3. \A k \in Strays(s) : k \in 1 .. Len(s)
  BY <1>1 DEF Strays
<1>4. \A k \in 1 .. Len(s) : k \in 1 .. BufferSize
  BY <1>1
<1> QED  BY <1>1, <1>2, <1>3, <1>4 DEF Positions

Wants(s, k) == IF HasLength(SubSeq(s, 1, k)) THEN BodyLength ELSE 0

Blanks(s) == {k \in Pairs(s) : k - 2 \in Pairs(s)}

LEMMA VerdictIs ==
  ASSUME NEW s \in Seq(Bytes)
  PROVE  /\ Eol(s) = First(Pairs(s)) /\ Stray(s) = First(Strays(s)) /\ Blank(s) = First(Blanks(s))
         /\ Verdict(s) =
              IF LineEndBad(s) \/ RequestLineBad(s) THEN "BAD_REQUEST"
              ELSE IF Blank(s) <= BufferSize /\ Len(s) >= Blank(s) + 1 + Wants(s, Blank(s))
                THEN "GET_REQUEST" ELSE "NO_REQUEST"
BY Zenon DEF Eol, Stray, Blank, Verdict, EndOf, Wants, Blanks

LEMMA FirstNone == First({}) = BufferSize + 1
<1>1. {} \in Positions
  BY DEF Positions
<1> QED  BY <1>1, FirstOf

LEMMA FirstAbove ==
  ASSUME NEW T \in Positions, NEW x \in 1 .. BufferSize, \A k \in T : x < k
  PROVE  x < First(T)
<1>1. First(T) \in Nat /\ First(T) \in T \cup {BufferSize + 1}
  BY FirstOf
<1> QED  BY <1>1, Sizes

(* e ends the first line, b ends the empty line after the head, x is the first
   stray line end. *)
LineAt(s, e)  == e \in Pairs(s) /\ (\A k \in Pairs(s) : e <= k) /\ (\A k \in Strays(s) : e < k)
HeadAt(s, b)  == b \in Blanks(s) /\ (\A k \in Blanks(s) : b <= k) /\ (\A k \in Strays(s) : b < k)
StrayAt(s, x) == x \in Strays(s) /\ \A k \in Strays(s) : x <= k

LineOk(s, e) == LineAt(s, e) /\ RequestLineOk(SubSeq(s, 1, e - 1))

LEMMA FirstOfLine ==
  ASSUME NEW s \in Seq(Bytes), Len(s) <= BufferSize, NEW e, LineAt(s, e)
  PROVE  /\ First(Pairs(s)) = e /\ e \in 1 .. BufferSize
         /\ ~(First(Pairs(s)) > BufferSize \/ First(Strays(s)) < First(Pairs(s)))
<1>1. Pairs(s) \in Positions /\ Strays(s) \in Positions
  BY LineEndsOf
<1>2. e \in 1 .. BufferSize
  BY <1>1 DEF LineAt, Positions
<1>3. First(Pairs(s)) = e
  BY <1>1, FirstLeast DEF LineAt
<1>4. e < First(Strays(s)) /\ First(Strays(s)) \in Nat
  BY <1>1, <1>2, FirstAbove, FirstOf DEF LineAt
<1> QED  BY <1>2, <1>3, <1>4, Sizes

LEMMA VerdictEmpty ==
  ASSUME NEW s \in Seq(Bytes), Pairs(s) = {}, Strays(s) = {}
  PROVE  Verdict(s) = "NO_REQUEST"
<1>1. Blanks(s) = {}
  BY DEF Blanks
<1>2. Eol(s) = First({}) /\ Stray(s) = First({}) /\ Blank(s) = First({})
  BY <1>1, VerdictIs
<1>3. ~(Eol(s) <= BufferSize) /\ ~(Stray(s) <= BufferSize) /\ ~(Blank(s) <= BufferSize)
  BY <1>2, FirstNone, Sizes
<1> QED  BY <1>3, VerdictIs DEF LineEndBad, RequestLineBad

LEMMA VerdictStray ==
  ASSUME NEW s \in Seq(Bytes), Len(s) <= BufferSize, NEW x, StrayAt(s, x), \A k \in Pairs(s) : x < k
  PROVE  LineEndBad(s) /\ Verdict(s) = "BAD_REQUEST"
<1>1. Pairs(s) \in Positions /\ Strays(s) \in Positions /\ Blanks(s) \in Positions
  BY LineEndsOf DEF Blanks
<1>2. x \in 1 .. BufferSize /\ First(Strays(s)) = x
  BY <1>1, FirstLeast DEF StrayAt, Positions
<1>3. x < First(Pairs(s))
  BY <1>1, <1>2, FirstAbove
<1>4. \A k \in Blanks(s) : x < k
  BY DEF Blanks
<1>5. x < First(Blanks(s))
  BY <1>1, <1>2, <1>4, FirstAbove
<1>6. Stray(s) <= BufferSize /\ Stray(s) < Blank(s) /\ Stray(s) < Eol(s)
  BY <1>2, <1>3, <1>5, VerdictIs
<1> QED  BY <1>6, VerdictIs DEF LineEndBad

LEMMA VerdictLine ==
  ASSUME NEW s \in Seq(Bytes), Len(s) <= BufferSize, NEW e, LineAt(s, e),
         ~RequestLineOk(SubSeq(s, 1, e - 1))
  PROVE  Verdict(s) = "BAD_REQUEST"
<1>1. Eol(s) = e /\ Eol(s) <= BufferSize
  BY FirstOfLine, VerdictIs, Sizes
<1> QED  BY <1>1, VerdictIs DEF RequestLineBad

LEMMA VerdictLineOk ==
  ASSUME NEW s \in Seq(Bytes), Len(s) <= BufferSize, NEW e, LineOk(s, e)
  PROVE  /\ First(Strays(s)) < First(Blanks(s)) => LineEndBad(s)
         /\ Verdict(s) = IF First(Strays(s)) < First(Blanks(s)) THEN "BAD_REQUEST"
                         ELSE IF /\ First(Blanks(s)) <= BufferSize
                                 /\ Len(s) >= First(Blanks(s)) + 1 + Wants(s, First(Blanks(s)))
                           THEN "GET_REQUEST" ELSE "NO_REQUEST"
<1>1. Eol(s) = e
  BY FirstOfLine, VerdictIs DEF LineOk
<1>2. ~RequestLineBad(s)
  BY <1>1 DEF LineOk, RequestLineBad
<1>3. First(Strays(s)) \in Nat /\ First(Blanks(s)) \in Nat /\ First(Blanks(s)) <= BufferSize + 1
  <2>1. Blanks(s) \in Positions /\ Strays(s) \in Positions
    BY LineEndsOf DEF Blanks
  <2>2. \A k \in Blanks(s) : k <= BufferSize
    BY <2>1 DEF Positions
  <2> QED  BY <2>1, <2>2, FirstOf, Sizes
<1>4. First(Strays(s)) < First(Blanks(s)) => First(Strays(s)) <= BufferSize
  BY <1>3, Sizes
<1>5. LineEndBad(s) <=> First(Strays(s)) < First(Blanks(s))
  BY <1>2, <1>4, VerdictIs DEF LineEndBad
<1> QED  BY <1>2, <1>5, VerdictIs

LEMMA VerdictOpen ==
  ASSUME NEW s \in Seq(Bytes), Len(s) <= BufferSize, NEW e, LineOk(s, e),
         Blanks(s) = {}, Strays(s) = {}
  PROVE  Verdict(s) = "NO_REQUEST"
<1>1. First(Blanks(s)) = BufferSize + 1 /\ First(Strays(s)) = BufferSize + 1
  BY FirstNone
<1>2. ~(First(Strays(s)) < First(Blanks(s))) /\ ~(First(Blanks(s)) <= BufferSize)
  BY <1>1, Sizes
<1> QED  BY <1>2, VerdictLineOk

LEMMA VerdictHeadStray ==
  ASSUME NEW s \in Seq(Bytes), Len(s) <= BufferSize, NEW e, LineOk(s, e),
         NEW x, StrayAt(s, x), \A k \in Blanks(s) : x < k
  PROVE  LineEndBad(s) /\ Verdict(s) = "BAD_REQUEST"
<1>1. Blanks(s) \in Positions /\ Strays(s) \in Positions
  BY LineEndsOf DEF Blanks
<1>2. x \in 1 .. BufferSize /\ First(Strays(s)) = x
  BY <1>1, FirstLeast DEF StrayAt, Positions
<1>3. x < First(Blanks(s))
  BY <1>1, <1>2, FirstAbove
<1>4. First(Strays(s)) < First(Blanks(s))
  BY <1>2, <1>3
<1> QED  BY <1>4, VerdictLineOk

LEMMA VerdictHead ==
  ASSUME NEW s \in Seq(Bytes), Len(s) <= BufferSize, NEW e, LineOk(s, e),
         NEW b, HeadAt(s, b), Len(s) >= b + 1 + Wants(s, b)
  PROVE  Verdict(s) = "GET_REQUEST"
<1>1. Blanks(s) \in Positions /\ Strays(s) \in Positions
  BY LineEndsOf DEF Blanks
<1>2. b \in 1 .. BufferSize /\ First(Blanks(s)) = b
  BY <1>1, FirstLeast DEF HeadAt, Positions
<1>3. b < First(Strays(s)) /\ First(Strays(s)) \in Nat
  BY <1>1, <1>2, FirstAbove, FirstOf DEF HeadAt
<1>4. ~(First(Strays(s)) < First(Blanks(s))) /\ First(Blanks(s)) <= BufferSize
  BY <1>2, <1>3, Sizes
<1> QED  BY <1>2, <1>4, VerdictLineOk

-----------------------------------------------------------------------------
(* What more bytes do to the line ends: those of the shorter sequence stay,
   and the new ones come after them. *)

Extends(t, s) ==
  /\ s \in Seq(Bytes) /\ t \in Seq(Bytes) /\ Len(s) <= Len(t)
  /\ \A k \in 1 .. Len(s) : t[k] = s[k]

LEMMA PairsStay ==
  ASSUME NEW s, NEW t, Extends(t, s)
  PROVE  /\ \A k \in Pairs(s) : k \in Pairs(t) /\ k < Len(s)
         /\ \A k \in Pairs(t) : k < Len(s) => k \in Pairs(s)
<1>1. Len(s) \in Nat /\ Len(t) \in Nat /\ Len(s) <= Len(t) /\ \A k \in 1 .. Len(s) : t[k] = s[k]
  BY DEF Extends
<1>2. ASSUME NEW k \in Pairs(s) PROVE k \in Pairs(t) /\ k < Len(s)
  <2>1. k \in 1 .. Len(s) - 1 /\ s[k] = "CR" /\ s[k + 1] = "LF"
    BY DEF Pairs
  <2>2. k \in 1 .. Len(s) /\ k + 1 \in 1 .. Len(s) /\ k \in 1 .. Len(t) - 1 /\ k < Len(s)
    BY <1>1, <2>1
  <2> QED  BY <1>1, <2>1, <2>2 DEF Pairs
<1>3. ASSUME NEW k \in Pairs(t), k < Len(s) PROVE k \in Pairs(s)
  <2>1. k \in 1 .. Len(t) - 1 /\ t[k] = "CR" /\ t[k + 1] = "LF"
    BY DEF Pairs
  <2>2. k \in 1 .. Len(s) /\ k + 1 \in 1 .. Len(s) /\ k \in 1 .. Len(s) - 1
    BY <1>1, <1>3, <2>1
  <2> QED  BY <1>1, <2>1, <2>2 DEF Pairs
<1> QED  BY <1>2, <1>3

LEMMA StraysStay ==
  ASSUME NEW s, NEW t, Extends(t, s)
  PROVE  /\ \A k \in Strays(s) : k \in Strays(t)
         /\ \A k \in Strays(t) : k \in Strays(s) \/ k > Len(s) \/ (k = Len(s) /\ s[k] = "CR")
<1>1. Len(s) \in Nat /\ Len(t) \in Nat /\ Len(s) <= Len(t) /\ \A k \in 1 .. Len(s) : t[k] = s[k]
  BY DEF Extends
<1>2. ASSUME NEW k \in Strays(s) PROVE k \in Strays(t)
  <2>1. k \in 1 .. Len(s) /\ k \in 1 .. Len(t)
    BY <1>1 DEF Strays
  <2>2. CASE s[k] = "CR" /\ k < Len(s) /\ s[k + 1] # "LF"
    <3>1. k + 1 \in 1 .. Len(s) /\ k < Len(t)
      BY <1>1, <2>1, <2>2
    <3> QED  BY <1>1, <2>1, <2>2, <3>1 DEF Strays
  <2>3. CASE s[k] = "LF" /\ (k = 1 \/ s[k - 1] # "CR")
    <3>1. k = 1 \/ k - 1 \in 1 .. Len(s)
      BY <1>1, <2>1
    <3> QED  BY <1>1, <2>1, <2>3, <3>1 DEF Strays
  <2> QED  BY <2>2, <2>3 DEF Strays
<1>3. ASSUME NEW k \in Strays(t), k <= Len(s), ~(k = Len(s) /\ s[k] = "CR") PROVE k \in Strays(s)
  <2>1. k \in 1 .. Len(t) /\ k \in 1 .. Len(s)
    BY <1>1, <1>3 DEF Strays
  <2>2. CASE t[k] = "CR" /\ k < Len(t) /\ t[k + 1] # "LF"
    <3>1. s[k] = "CR" /\ k < Len(s)
      BY <1>1, <1>3, <2>1, <2>2
    <3>2. k + 1 \in 1 .. Len(s)
      BY <1>1, <2>1, <3>1
    <3> QED  BY <1>1, <2>1, <2>2, <3>1, <3>2 DEF Strays
  <2>3. CASE t[k] = "LF" /\ (k = 1 \/ t[k - 1] # "CR")
    <3>1. k = 1 \/ k - 1 \in 1 .. Len(s)
      BY <1>1, <2>1
    <3> QED  BY <1>1, <2>1, <2>3, <3>1 DEF Strays
  <2> QED  BY <2>2, <2>3 DEF Strays
<1>4. \A k \in Strays(t) : k \in Nat
  BY DEF Strays
<1> QED  BY <1>1, <1>2, <1>3, <1>4

LEMMA PrefixStays ==
  ASSUME NEW s, NEW t, Extends(t, s), NEW j \in Nat, j <= Len(s)
  PROVE  SubSeq(t, 1, j) = SubSeq(s, 1, j)
<1>1. Len(s) \in Nat /\ Len(t) \in Nat /\ Len(s) <= Len(t) /\ \A k \in 1 .. Len(s) : t[k] = s[k]
      /\ s \in Seq(Bytes) /\ t \in Seq(Bytes)
  BY DEF Extends
<1>2. SubSeq(s, 1, j) = [k \in 1 .. j |-> s[k]] /\ SubSeq(t, 1, j) = [k \in 1 .. j |-> t[k]]
  BY <1>1
<1>3. \A k \in 1 .. j : t[k] = s[k]
  BY <1>1
<1> QED  BY <1>2, <1>3

LEMMA BlanksStay ==
  ASSUME NEW s, NEW t, Extends(t, s)
  PROVE  /\ \A k \in Blanks(s) : k \in Blanks(t)
         /\ \A k \in Blanks(t) : k \in Pairs(t) /\ (k < Len(s) => k \in Blanks(s))
<1>1. Len(s) \in Nat /\ \A k \in Pairs(t) : k \in Nat /\ k - 2 < k
  BY DEF Extends, Pairs
<1>2. \A k \in Blanks(s) : k \in Blanks(t)
  BY PairsStay DEF Blanks
<1>3. ASSUME NEW k \in Blanks(t), k < Len(s) PROVE k \in Blanks(s)
  <2>1. k \in Pairs(t) /\ k - 2 \in Pairs(t)
    BY DEF Blanks
  <2>2. k \in Nat /\ k - 2 < Len(s)
    BY <1>1, <1>3, <2>1
  <2> QED  BY <1>3, <2>1, <2>2, PairsStay DEF Blanks
<1> QED  BY <1>2, <1>3 DEF Blanks

LEMMA LineStays ==
  ASSUME NEW s, NEW t, Extends(t, s), NEW e, LineAt(s, e)
  PROVE  LineAt(t, e) /\ SubSeq(t, 1, e - 1) = SubSeq(s, 1, e - 1)
<1>1. e \in Pairs(s) /\ e \in Nat /\ e >= 1 /\ e < Len(s) /\ Len(s) \in Nat
  BY PairsStay DEF LineAt, Pairs, Extends
<1>2. \A k \in Pairs(t) \cup Strays(t) : k \in Nat
  BY DEF Pairs, Strays
<1>3. e \in Pairs(t)
  BY <1>1, PairsStay
<1>4. ASSUME NEW k \in Pairs(t) PROVE e <= k
  BY <1>1, <1>2, PairsStay DEF LineAt
<1>5. ASSUME NEW k \in Strays(t) PROVE e < k
  <2>1. k \in Strays(s) \/ k > Len(s) \/ k = Len(s)
    BY StraysStay
  <2>2. k \in Nat
    BY <1>2
  <2>3. k \in Strays(s) => e < k
    BY DEF LineAt
  <2> QED  BY <1>1, <2>1, <2>2, <2>3
<1>6. e - 1 \in Nat /\ e - 1 <= Len(s)
  BY <1>1
<1> QED  BY <1>3, <1>4, <1>5, <1>6, PrefixStays DEF LineAt

LEMMA HeadStays ==
  ASSUME NEW s, NEW t, Extends(t, s), NEW b, HeadAt(s, b)
  PROVE  HeadAt(t, b) /\ SubSeq(t, 1, b) = SubSeq(s, 1, b)
<1>1. b \in Blanks(s) /\ b \in Nat /\ b < Len(s) /\ Len(s) \in Nat /\ b <= Len(s)
  BY PairsStay DEF HeadAt, Blanks, Pairs, Extends
<1>2. \A k \in Pairs(t) \cup Strays(t) : k \in Nat
  BY DEF Pairs, Strays
<1>3. b \in Blanks(t)
  BY <1>1, BlanksStay
<1>4. ASSUME NEW k \in Blanks(t) PROVE b <= k
  BY <1>1, <1>2, BlanksStay DEF HeadAt
<1>5. ASSUME NEW k \in Strays(t) PROVE b < k
  <2>1. k \in Strays(s) \/ k > Len(s) \/ k = Len(s)
    BY StraysStay
  <2>2. k \in Nat
    BY <1>2
  <2>3. k \in Strays(s) => b < k
    BY DEF HeadAt
  <2> QED  BY <1>1, <2>1, <2>2, <2>3
<1> QED  BY <1>1, <1>3, <1>4, <1>5, PrefixStays DEF HeadAt

-----------------------------------------------------------------------------
(* How far the parser has come in what was received, r. *)

LineEnds == {"CR", "LF"}

(* The bytes sent, with NUL for the line ends before start_line; no line ends
   between start_line and checked_index, and no stray one before. *)
Copied(r) ==
  \A k \in 1 .. Len(buf) : \/ buf[k] = r[k]
                           \/ k <= start_line /\ buf[k] = "NUL" /\ r[k] \in LineEnds
Passed(r) ==
  /\ \A k \in start_line + 1 .. checked_index : r[k] \notin LineEnds
  /\ \A k \in Strays(r) : k > checked_index
Scanning(r) == Copied(r) /\ Passed(r) /\ (start_line > 0 => start_line - 1 \in Pairs(r))

InHeader(r)  == (\E e : LineOk(r, e)) /\ start_line > 0 /\ \A k \in Blanks(r) : k > start_line
InContent(r) ==
  /\ who = "conn" /\ \E e : LineOk(r, e)
  /\ \E b : HeadAt(r, b) /\ HasLength(SubSeq(r, 1, b)) /\ b < start_line

Stage(r) ==
  /\ check_state = "CONTENT" => InContent(r)
  /\ check_state # "CONTENT" => Scanning(r)
  /\ check_state = "HEADER" => InHeader(r)
  /\ check_state = "REQUESTLINE" => start_line = 0

(* Why the parser waits for more. *)
Waits(r) ==
  \/ checked_index = Len(r)
  \/ checked_index = Len(r) - 1 /\ r[Len(r)] = "CR"
  \/ who = "conn" /\ checked_index + 1 \in Strays(r)

(* Why it gave its answer. *)
Rejected(r) ==
  \/ \E e : LineAt(r, e) /\ ~RequestLineOk(SubSeq(r, 1, e - 1))
  \/ /\ who = "demo"
     /\ \E x : StrayAt(r, x) /\ \/ \A k \in Pairs(r) : x < k
                                \/ (\E e : LineOk(r, e)) /\ \A k \in Blanks(r) : x < k
Accepted(r) ==
  (\E e : LineOk(r, e)) /\ \E b : HeadAt(r, b) /\ Len(r) >= b + 1 + Wants(r, b)

(* A client that sends no NUL. *)
NoNul == \A k \in 1 .. Len(input) : input[k] # "NUL"

Answers ==
  /\ pc # "done" => result = "NO_REQUEST"
  /\ result \in {"NO_REQUEST", "full"} => Stage(Received)
  /\ (pc = "recv" \/ result = "full") /\ check_state # "CONTENT" => Waits(Received)
  /\ result = "BAD_REQUEST" => Rejected(Received)
  /\ result = "GET_REQUEST" => Accepted(Received)

LEMMA ReceivedIs ==
  ASSUME Window
  PROVE  /\ Received \in Seq(Bytes) /\ Len(Received) = Len(buf) /\ Len(buf) \in Nat
         /\ Len(Received) <= BufferSize
         /\ \A k \in 1 .. Len(buf) : Received[k] = input[k]
         /\ NoNul => \A k \in 1 .. Len(buf) : Received[k] # "NUL"
<1>1. input \in Seq(Bytes) /\ Len(buf) \in Nat /\ Len(buf) <= Len(input) /\ Len(buf) <= BufferSize
      /\ Len(input) \in Nat
  BY WordsReceived DEF Window
<1>2. Received = SubSeq(input, 1, Len(buf))
  BY DEF Received, read_index
<1>3. /\ Received \in Seq(Bytes) /\ Len(Received) = Len(buf)
      /\ \A k \in 1 .. Len(buf) : Received[k] = input[k]
  BY <1>1, <1>2
<1>4. \A k \in 1 .. Len(buf) : k \in 1 .. Len(input)
  BY <1>1
<1> QED  BY <1>1, <1>3, <1>4 DEF NoNul

(* The answers given, and the silence kept, are what the definition says. *)
LEMMA AnswersRight == Window /\ Rest /\ Answers => ChunkingIrrelevant
<1> SUFFICES ASSUME Window, Rest, Answers PROVE ChunkingIrrelevant
  OBVIOUS
<1> DEFINE r == Received
<1>1. r \in Seq(Bytes) /\ Len(r) <= BufferSize /\ Len(r) = Len(buf) /\ Len(r) \in Nat
  BY ReceivedIs
<1>2. /\ result = "BAD_REQUEST" => Rejected(r)
      /\ result = "GET_REQUEST" => Accepted(r)
      /\ pc # "done" => result = "NO_REQUEST"
      /\ result \in {"NO_REQUEST", "full"} => Stage(r)
      /\ (pc = "recv" \/ result = "full") /\ check_state # "CONTENT" => Waits(r)
  BY DEF Answers
<1>3. start_line \in Nat /\ checked_index \in Nat /\ start_line <= checked_index /\ checked_index <= Len(r)
  BY <1>1 DEF Window
<1>4. Verdict(Received) = Verdict(r) /\ (LineEndBad(Received) <=> LineEndBad(r))
  OBVIOUS
<1> HIDE DEF r
<1>5. ASSUME result = "GET_REQUEST" PROVE Verdict(r) = "GET_REQUEST"
  BY <1>1, <1>2, <1>5, VerdictHead DEF Accepted
<1>6. ASSUME result = "BAD_REQUEST" PROVE Verdict(r) = "BAD_REQUEST"
  <2>1. CASE \E e : LineAt(r, e) /\ ~RequestLineOk(SubSeq(r, 1, e - 1))
    BY <1>1, <2>1, VerdictLine
  <2>2. CASE /\ who = "demo"
             /\ \E x : StrayAt(r, x) /\ \/ \A k \in Pairs(r) : x < k
                                        \/ (\E e : LineOk(r, e)) /\ \A k \in Blanks(r) : x < k
    BY <1>1, <2>2, VerdictStray, VerdictHeadStray
  <2> QED  BY <1>2, <1>6, <2>1, <2>2 DEF Rejected
<1>7. ASSUME pc = "recv" \/ result = "full", check_state # "CONTENT"
      PROVE  Verdict(r) = "NO_REQUEST" \/ (who = "conn" /\ LineEndBad(r))
  <2>1. Stage(r) /\ Waits(r) /\ Passed(r)
    BY <1>2, <1>7 DEF Rest, Stage, Scanning
  <2>2. ASSUME NEW k \in Pairs(r), k > start_line
        PROVE  /\ k > checked_index /\ k < Len(r) /\ k \notin Strays(r) /\ k \in Nat
               /\ r[k] = "CR"
    <3>1. k \in 1 .. Len(r) - 1 /\ r[k] = "CR" /\ r[k + 1] = "LF"
      BY DEF Pairs
    <3>2. k > checked_index
      BY <1>3, <2>1, <2>2, <3>1 DEF Passed, LineEnds
    <3>3. k \notin Strays(r)
      BY <3>1 DEF Strays
    <3> QED  BY <1>1, <3>1, <3>2, <3>3
  <2>3. CASE who = "conn" /\ checked_index + 1 \in Strays(r)
    <3> DEFINE x == checked_index + 1
    <3>1. StrayAt(r, x) /\ x \in Nat
      <4>1. \A k \in Strays(r) : k \in Nat /\ k > checked_index
        BY <2>1 DEF Passed, Strays
      <4> QED  BY <1>3, <2>3, <4>1 DEF StrayAt
    <3>2. ASSUME NEW k \in Pairs(r), k > start_line PROVE x < k
      BY <1>3, <2>2, <2>3, <3>2
    <3> HIDE DEF x
    <3>3. CASE check_state = "REQUESTLINE"
      <4>1. \A k \in Pairs(r) : k > start_line
        BY <2>1, <3>3 DEF Stage, Pairs
      <4> QED  BY <1>1, <2>3, <3>1, <3>2, <4>1, VerdictStray
    <3>4. CASE check_state = "HEADER"
      <4>1. PICK e : LineOk(r, e)
        BY <2>1, <3>4 DEF Stage, InHeader
      <4>2. \A k \in Blanks(r) : k \in Pairs(r) /\ k > start_line
        BY <2>1, <3>4 DEF Stage, InHeader, Blanks
      <4> QED  BY <1>1, <2>3, <3>1, <3>2, <4>1, <4>2, VerdictHeadStray
    <3> QED  BY <1>7, <3>3, <3>4 DEF Rest, States
  <2>4. CASE checked_index = Len(r) \/ (checked_index = Len(r) - 1 /\ r[Len(r)] = "CR")
    <3>1. Strays(r) = {}
      <4> SUFFICES ASSUME NEW k \in Strays(r) PROVE FALSE
        OBVIOUS
      <4>1. k \in 1 .. Len(r) /\ k > checked_index
        BY <2>1 DEF Strays, Passed
      <4>2. k = Len(r) /\ r[k] = "CR"
        BY <1>1, <1>3, <2>4, <4>1
      <4> QED  BY <4>2 DEF Strays
    <3>2. \A k \in Pairs(r) : ~(k > start_line)
      <4> SUFFICES ASSUME NEW k \in Pairs(r), k > start_line PROVE FALSE
        OBVIOUS
      <4>1. k > checked_index /\ k < Len(r) /\ k \in Nat
        BY <2>2
      <4> QED  BY <1>1, <1>3, <2>4, <4>1
    <3>3. CASE check_state = "REQUESTLINE"
      <4>1. Pairs(r) = {}
        BY <2>1, <3>2, <3>3 DEF Stage, Pairs
      <4> QED  BY <1>1, <3>1, <4>1, VerdictEmpty
    <3>4. CASE check_state = "HEADER"
      <4>1. PICK e : LineOk(r, e)
        BY <2>1, <3>4 DEF Stage, InHeader
      <4>2. \A k \in Blanks(r) : k \in Pairs(r) /\ k > start_line
        BY <2>1, <3>4 DEF Stage, InHeader, Blanks
      <4>3. Blanks(r) = {}
        BY <3>2, <4>2
      <4> QED  BY <1>1, <3>1, <4>1, <4>3, VerdictOpen
    <3> QED  BY <1>7, <3>3, <3>4 DEF Rest, States
  <2> QED  BY <2>1, <2>3, <2>4 DEF Waits
<1>8. ASSUME pc = "recv" \/ result = "full", check_state = "CONTENT" PROVE who = "conn"
  BY <1>2, <1>8 DEF Rest, Stage, InContent
<1> QED  BY <1>4, <1>5, <1>6, <1>7, <1>8 DEF ChunkingIrrelevant

(* What lies between start_line and the place where the scanner stops. *)
LEMMA Unread ==
  ASSUME Window, Scanning(Received)
  PROVE  /\ \A k \in 1 .. Len(buf) : k > start_line => buf[k] = Received[k]
         /\ \A k \in 1 .. Len(buf) : k > start_line /\ k <= Stop => Received[k] \notin LineEnds
         /\ Stop < Len(buf) => Received[Stop + 1] \in LineEnds
         /\ Stop > 0 => Received[Stop] # "CR"
         /\ \A k \in Strays(Received) : k > Stop
         /\ start_line <= Stop
<1> DEFINE r == Received
<1>1. /\ Len(r) = Len(buf) /\ Len(buf) \in Nat /\ start_line \in Nat /\ checked_index \in Nat
      /\ start_line <= checked_index /\ checked_index <= Len(buf)
  BY ReceivedIs DEF Window
<1>2. /\ Stop \in Nat /\ checked_index <= Stop /\ Stop <= Len(buf)
      /\ Stop < Len(buf) => buf[Stop + 1] \in LineEnds
      /\ \A k \in Nat : checked_index <= k /\ k < Stop => buf[k + 1] \notin LineEnds
  BY StopFirst DEF LineEnds
<1>3. Copied(r) /\ Passed(r) /\ (start_line > 0 => start_line - 1 \in Pairs(r))
  BY DEF Scanning
<1> HIDE DEF r
<1>4. ASSUME NEW k \in 1 .. Len(buf), k > start_line PROVE buf[k] = r[k]
  BY <1>1, <1>3, <1>4 DEF Copied
<1>5. ASSUME NEW k \in 1 .. Len(buf), k > start_line, k <= Stop PROVE r[k] \notin LineEnds
  <2>1. CASE k <= checked_index
    <3>1. k \in start_line + 1 .. checked_index
      BY <1>1, <1>5, <2>1
    <3> QED  BY <1>3, <3>1 DEF Passed
  <2>2. CASE k > checked_index
    <3>1. k - 1 \in Nat /\ checked_index <= k - 1 /\ k - 1 < Stop /\ (k - 1) + 1 = k
      BY <1>1, <1>2, <1>5, <2>2
    <3>2. buf[(k - 1) + 1] \notin LineEnds
      BY <1>2, <3>1
    <3> QED  BY <1>4, <1>5, <3>1, <3>2
  <2> QED  BY <1>1, <2>1, <2>2
<1>6. Stop < Len(buf) => r[Stop + 1] \in LineEnds
  <2> SUFFICES ASSUME Stop < Len(buf) PROVE r[Stop + 1] \in LineEnds
    OBVIOUS
  <2>1. Stop + 1 \in 1 .. Len(buf) /\ Stop + 1 > start_line
    BY <1>1, <1>2
  <2> QED  BY <1>2, <1>4, <2>1
<1>7. Stop > 0 => r[Stop] # "CR"
  <2> SUFFICES ASSUME Stop > 0 PROVE r[Stop] # "CR"
    OBVIOUS
  <2>1. Stop \in 1 .. Len(buf)
    BY <1>1, <1>2
  <2>2. CASE Stop > start_line
    BY <1>1, <1>2, <1>5, <2>1, <2>2 DEF LineEnds
  <2>3. CASE Stop = start_line
    <3>1. start_line - 1 \in Pairs(r) /\ (start_line - 1) + 1 = start_line
      BY <1>1, <1>3, <2>3
    <3>2. r[(start_line - 1) + 1] = "LF"
      BY <3>1 DEF Pairs
    <3> QED  BY <2>3, <3>1, <3>2
  <2> QED  BY <1>1, <1>2, <2>2, <2>3
<1>8. ASSUME NEW k \in Strays(r) PROVE k > Stop
  <2>1. k \in 1 .. Len(r) /\ k > checked_index /\ r[k] \in LineEnds
    BY <1>3 DEF Passed, Strays, LineEnds
  <2> QED  BY <1>1, <1>2, <1>5, <2>1
<1>9. start_line <= Stop
  BY <1>1, <1>2
<1> QED  BY <1>4, <1>5, <1>6, <1>7, <1>8, <1>9 DEF r

(* What a turn of the loop tells about what was received. *)
LEMMA TurnTells ==
  ASSUME Window, Rest, Scanning(Received), check_state # "CONTENT"
  PROVE  /\ Turn.status = "LINE_OK" =>
              /\ Stop + 1 < Len(buf) /\ Received[Stop + 1] = "CR" /\ Received[Stop + 2] = "LF"
              /\ Turn.index = Stop + 2 /\ Turn.buf = Nul({Stop, Stop + 1})
         /\ Turn.status = "LINE_OPEN" => Stop = Len(buf) \/ (Stop + 1 = Len(buf) /\ Received[Len(buf)] = "CR")
         /\ Turn.status = "LINE_BAD" => Stop + 1 \in Strays(Received)
<1> DEFINE r == Received
<1>1. Turn = parse_line
  BY DEF Turn, InBody
<1>2. Stop \in Nat /\ Stop <= Len(buf) /\ Len(buf) \in Nat /\ Len(r) = Len(buf) /\ start_line \in Nat
  BY StopFirst, ReceivedIs DEF Window
<1>3. /\ \A k \in 1 .. Len(buf) : k > start_line => buf[k] = r[k]
      /\ Stop < Len(buf) => r[Stop + 1] \in LineEnds
      /\ Stop > 0 => r[Stop] # "CR"
      /\ start_line <= Stop
  BY Unread
<1> HIDE DEF r
<1>4. CASE Stop = read_index
  <2>1. Turn = Scan("LINE_OPEN", Stop, {})
    BY <1>1, <1>2, <1>4 DEF parse_line, read_index
  <2> QED  BY <1>4, <2>1 DEF Scan, read_index
<1>5. CASE Stop < read_index
  <2>1. Stop + 1 \in 1 .. Len(buf) /\ Stop + 1 > start_line /\ Stop < Len(buf)
    BY <1>2, <1>3, <1>5 DEF read_index
  <2>2. Byte(Stop) = r[Stop + 1] /\ r[Stop + 1] \in {"CR", "LF"}
    BY <1>3, <2>1 DEF Byte, LineEnds
  <2>3. CASE r[Stop + 1] = "CR"
    <3>1. parse_line = IF Stop + 1 = read_index THEN Unfinished
                       ELSE IF Byte(Stop + 1) = "LF" THEN Scan("LINE_OK", Stop + 2, {Stop, Stop + 1})
                       ELSE Scan("LINE_BAD", Stop, {})
      BY <1>2, <1>5, <2>2, <2>3 DEF parse_line, read_index
    <3>2. CASE Stop + 1 = Len(buf)
      <4>1. Turn = Scan("LINE_OPEN", Stop, {})
        BY <1>1, <3>1, <3>2 DEF Unfinished, read_index
      <4>2. Turn.status = "LINE_OPEN" /\ r[Len(buf)] = "CR"
        BY <2>3, <3>2, <4>1 DEF Scan
      <4> QED  BY <3>2, <4>2 DEF r
    <3>3. CASE Stop + 1 # Len(buf)
      <4>1. /\ Stop + 1 < Len(buf) /\ (Stop + 1) + 1 \in 1 .. Len(buf) /\ (Stop + 1) + 1 > start_line
            /\ (Stop + 1) + 1 = Stop + 2 /\ Stop + 1 < Len(r) /\ Stop + 1 \in 1 .. Len(r)
        BY <1>2, <2>1, <3>3
      <4>2. Byte(Stop + 1) = r[Stop + 2]
        BY <1>3, <4>1 DEF Byte
      <4>3. CASE r[Stop + 2] = "LF"
        <5>1. Turn = Scan("LINE_OK", Stop + 2, {Stop, Stop + 1})
          BY <1>1, <3>1, <3>3, <4>2, <4>3 DEF read_index
        <5>2. Turn.status = "LINE_OK" /\ Turn.index = Stop + 2 /\ Turn.buf = Nul({Stop, Stop + 1})
          BY <5>1 DEF Scan
        <5> QED  BY <2>3, <4>1, <4>3, <5>2 DEF r
      <4>4. CASE r[Stop + 2] # "LF"
        <5>1. Turn = Scan("LINE_BAD", Stop, {})
          BY <1>1, <3>1, <3>3, <4>2, <4>4 DEF read_index
        <5>2. Stop + 1 \in Strays(r)
          BY <2>3, <4>1, <4>4 DEF Strays
        <5>3. Turn.status = "LINE_BAD"
          BY <5>1 DEF Scan
        <5> QED  BY <5>2, <5>3 DEF r
      <4> QED  BY <4>3, <4>4
    <3> QED  BY <3>2, <3>3
  <2>4. CASE r[Stop + 1] = "LF"
    <3>1. Stop + 1 \in Strays(r)
      <4>1. Stop + 1 = 1 \/ (Stop > 0 /\ (Stop + 1) - 1 = Stop)
        BY <1>2
      <4> QED  BY <1>2, <1>3, <2>1, <2>4, <4>1 DEF Strays
    <3>2. ASSUME Stop > 1 PROVE Byte(Stop - 1) # "CR"
      <4>1. Stop > 0 /\ (Stop - 1) + 1 = Stop
        BY <1>2, <3>2
      <4> QED  BY <4>1, NoCRBehind DEF Byte
    <3>3. parse_line = IF ~(Stop > 1 /\ Byte(Stop - 1) = "CR") THEN Scan("LINE_BAD", Stop, {})
                       ELSE IF who = "demo" THEN Scan("LINE_OK", Stop + 2, {Stop, Stop + 1})
                       ELSE Scan("LINE_OK", Stop + 1, {Stop - 1, Stop})
      BY <1>2, <1>5, <2>2, <2>4 DEF parse_line, read_index
    <3>4. Turn = Scan("LINE_BAD", Stop, {})
      BY <1>1, <3>2, <3>3
    <3>5. Turn.status = "LINE_BAD"
      BY <3>4 DEF Scan
    <3> QED  BY <3>1, <3>5 DEF r
  <2> QED  BY <2>2, <2>3, <2>4
<1> QED  BY <1>2, <1>4, <1>5 DEF read_index

(* The buffer after a turn that finds a line. *)
LEMMA BufferAfter ==
  ASSUME Window, Rest, Scanning(Received), check_state # "CONTENT", Turn.status = "LINE_OK"
  PROVE  /\ Turn.buf \in Seq(Bytes) /\ Len(Turn.buf) = Len(buf)
         /\ Turn.buf[Stop + 1] = "NUL"
         /\ \A k \in 1 .. Len(buf) : k > start_line /\ k <= Stop => Turn.buf[k] = Received[k]
         /\ \A k \in 1 .. Len(buf) : \/ Turn.buf[k] = Received[k]
                                     \/ k <= Stop + 2 /\ Turn.buf[k] = "NUL" /\ Received[k] \in LineEnds
<1> DEFINE r == Received
<1>1. /\ Stop + 1 < Len(buf) /\ r[Stop + 1] = "CR" /\ r[Stop + 2] = "LF"
      /\ Turn.buf = Nul({Stop, Stop + 1})
  BY TurnTells
<1>2. Stop \in Nat /\ Len(buf) \in Nat /\ start_line \in Nat /\ start_line <= Stop /\ buf \in Seq(Bytes)
  BY StopFirst, Unread DEF Window
<1>3. /\ Turn.buf \in Seq(Bytes) /\ Len(Turn.buf) = Len(buf)
      /\ \A k \in 1 .. Len(buf) : Turn.buf[k] = IF k - 1 \in {Stop, Stop + 1} THEN "NUL" ELSE buf[k]
  BY <1>1, <1>2, NulBytes
<1>4. /\ \A k \in 1 .. Len(buf) : k > start_line => buf[k] = r[k]
      /\ \A k \in 1 .. Len(buf) : \/ buf[k] = r[k]
                                  \/ k <= start_line /\ buf[k] = "NUL" /\ r[k] \in LineEnds
  BY Unread DEF Scanning, Copied
<1> HIDE DEF r
<1>5. Turn.buf[Stop + 1] = "NUL"
  <2>1. Stop + 1 \in 1 .. Len(buf) /\ (Stop + 1) - 1 = Stop
    BY <1>1, <1>2
  <2> QED  BY <1>3, <2>1
<1>6. ASSUME NEW k \in 1 .. Len(buf), k > start_line, k <= Stop PROVE Turn.buf[k] = r[k]
  <2>1. k - 1 \notin {Stop, Stop + 1}
    BY <1>2, <1>6
  <2> QED  BY <1>3, <1>4, <1>6, <2>1
<1>7. ASSUME NEW k \in 1 .. Len(buf)
      PROVE  \/ Turn.buf[k] = r[k]
             \/ k <= Stop + 2 /\ Turn.buf[k] = "NUL" /\ r[k] \in LineEnds
  <2>1. CASE k - 1 \in {Stop, Stop + 1}
    <3>1. (k = Stop + 1 \/ k = Stop + 2) /\ k <= Stop + 2
      BY <1>2, <2>1
    <3> QED  BY <1>1, <1>3, <2>1, <3>1 DEF LineEnds
  <2>2. CASE k - 1 \notin {Stop, Stop + 1}
    <3>1. Turn.buf[k] = buf[k]
      BY <1>3, <2>2
    <3>2. k <= start_line => k <= Stop + 2
      BY <1>2
    <3> QED  BY <1>4, <3>1, <3>2
  <2> QED  BY <2>1, <2>2
<1> QED  BY <1>3, <1>5, <1>6, <1>7 DEF r

(* The C string handed to the automaton is the line. *)
LEMMA LineString ==
  ASSUME Window, Rest, NoNul, Scanning(Received), check_state # "CONTENT", Turn.status = "LINE_OK"
  PROVE  /\ StringAt(Turn.buf, start_line) = <<>> <=> Stop = start_line
         /\ start_line = 0 => StringAt(Turn.buf, start_line) = SubSeq(Received, 1, Stop)
<1> DEFINE r == Received
           b == Turn.buf
           T == {j \in start_line .. Len(b) - 1 : b[j + 1] = "NUL"} \cup {Len(b)}
<1>1. /\ Stop + 1 < Len(buf) /\ Stop \in Nat /\ Len(buf) \in Nat /\ start_line \in Nat
      /\ start_line <= Stop
  BY StopFirst, Unread, TurnTells DEF Window
<1>2. /\ b \in Seq(Bytes) /\ Len(b) = Len(buf) /\ b[Stop + 1] = "NUL"
      /\ \A k \in 1 .. Len(buf) : k > start_line /\ k <= Stop => b[k] = r[k]
  BY BufferAfter
<1>3. r \in Seq(Bytes) /\ Len(r) = Len(buf) /\ \A k \in 1 .. Len(buf) : r[k] # "NUL"
  BY ReceivedIs
<1>4. StringAt(Turn.buf, start_line) = SubSeq(b, start_line + 1, Min(T))
  BY DEF StringAt
<1> HIDE DEF r, b
<1>5. T \in SUBSET Nat /\ T # {} /\ Stop \in T
  BY <1>1, <1>2
<1>6. ASSUME NEW y \in T PROVE Stop <= y
  <2>1. CASE y = Len(b)
    BY <1>1, <1>2, <2>1
  <2>2. CASE y \in start_line .. Len(b) - 1 /\ b[y + 1] = "NUL"
    <3>1. y + 1 \in 1 .. Len(buf) /\ y + 1 > start_line
      BY <1>1, <1>2, <2>2
    <3>2. ~(y + 1 <= Stop)
      BY <1>2, <1>3, <2>2, <3>1
    <3> QED  BY <1>1, <2>2, <3>2
  <2> QED  BY <2>1, <2>2
<1> HIDE DEF T
<1>7. Min(T) = Stop
  <2>1. Min(T) \in T /\ Min(T) <= Stop
    BY <1>5, MinNat
  <2>2. Stop <= Min(T) /\ Min(T) \in Nat
    BY <1>5, <1>6, <2>1
  <2> QED  BY <1>1, <2>1, <2>2
<1> DEFINE l == SubSeq(b, start_line + 1, Stop)
<1>8. StringAt(Turn.buf, start_line) = l
  BY <1>4, <1>7
<1>9. l = <<>> <=> Stop = start_line
  <2>1. Len(l) = Stop - start_line
    BY <1>1, <1>2
  <2>2. l \in Seq(Bytes)
    BY <1>1, <1>2
  <2> HIDE DEF l
  <2>3. l = <<>> <=> Len(l) = 0
    BY <2>2, EmptySeq
  <2> QED  BY <1>1, <2>1, <2>3
<1>10. ASSUME start_line = 0 PROVE l = SubSeq(r, 1, Stop)
  <2>1. l = SubSeq(b, 1, Stop)
    BY <1>10
  <2>2. SubSeq(b, 1, Stop) = [k \in 1 .. Stop |-> b[k]] /\ SubSeq(r, 1, Stop) = [k \in 1 .. Stop |-> r[k]]
    BY <1>1, <1>2, <1>3
  <2>3. \A k \in 1 .. Stop : b[k] = r[k]
    BY <1>1, <1>2, <1>10
  <2> QED  BY <2>1, <2>2, <2>3
<1> QED  BY <1>8, <1>9, <1>10 DEF r

(* A header in the buffer is one of the request. *)
LEMMA HeaderSeen ==
  ASSUME Window, Rest, Scanning(Received), check_state # "CONTENT", Turn.status = "LINE_OK",
         Stop = start_line
  PROVE  HasLength(SubSeq(Turn.buf, 1, start_line)) <=> HasLength(SubSeq(Received, 1, start_line + 1))
<1> DEFINE r == Received
           b == Turn.buf
           u == SubSeq(b, 1, start_line)
           v == SubSeq(r, 1, start_line + 1)
<1>1. /\ Stop + 1 < Len(buf) /\ Stop \in Nat /\ Len(buf) \in Nat /\ start_line \in Nat
      /\ r[start_line + 1] = "CR"
  BY StopFirst, TurnTells DEF Window
<1>2. /\ b \in Seq(Bytes) /\ Len(b) = Len(buf)
      /\ \A k \in 1 .. Len(buf) : b[k] = r[k] \/ (b[k] = "NUL" /\ r[k] \in LineEnds)
  BY BufferAfter
<1>3. r \in Seq(Bytes) /\ Len(r) = Len(buf)
  BY ReceivedIs
<1> HIDE DEF r, b
<1>4. /\ Len(u) = start_line /\ Len(v) = start_line + 1
      /\ \A k \in 1 .. start_line : u[k] = b[k]
      /\ \A k \in 1 .. start_line + 1 : v[k] = r[k]
  BY <1>1, <1>2, <1>3
<1> HIDE DEF u, v
<1>5. \A k \in 1 .. start_line : k \in 1 .. Len(buf) /\ k \in 1 .. start_line + 1
  BY <1>1
<1>6. \A k \in 1 .. start_line + 1 : k \in 1 .. start_line \/ k = start_line + 1
  BY <1>1
<1>7. \A k \in 1 .. start_line : u[k] = "Content-length" <=> v[k] = "Content-length"
  BY <1>2, <1>4, <1>5 DEF LineEnds
<1>8. v[start_line + 1] # "Content-length"
  BY <1>1, <1>4
<1>9. HasLength(u) <=> HasLength(v)
  BY <1>4, <1>5, <1>6, <1>7, <1>8 DEF HasLength
<1> QED  BY <1>9 DEF r, b, u, v

-----------------------------------------------------------------------------
(* The steps. *)

LEMMA SameLine == ASSUME who' = who, NEW s PROVE RequestLineOk(s)' <=> RequestLineOk(s)
BY DEF RequestLineOk, Methods

LEMMA SameLength == ASSUME who' = who, NEW s PROVE HasLength(s)' <=> HasLength(s)
BY DEF HasLength

LEMMA SameWants == ASSUME who' = who, NEW s, NEW k PROVE Wants(s, k)' = Wants(s, k)
BY SameLength DEF Wants

LEMMA LineOkStays ==
  ASSUME NEW s, NEW t, Extends(t, s), who' = who, \E e : LineOk(s, e)
  PROVE  \E e : LineOk(t, e)'
<1>1. PICK e : LineOk(s, e)
  OBVIOUS
<1>2. LineAt(t, e) /\ SubSeq(t, 1, e - 1) = SubSeq(s, 1, e - 1)
  BY <1>1, LineStays DEF LineOk
<1>3. RequestLineOk(SubSeq(s, 1, e - 1))'
  BY <1>1, SameLine DEF LineOk
<1>4. RequestLineOk(SubSeq(t, 1, e - 1))'
  BY <1>2, <1>3
<1> QED  BY <1>2, <1>4 DEF LineOk

(* recv gives more of the input. *)
LEMMA ReceivedGrows ==
  ASSUME Window, Receive
  PROVE  /\ Extends(Received', Received) /\ Len(Received') = Len(buf')
         /\ \A k \in 1 .. Len(buf) : buf'[k] = buf[k]
         /\ \A k \in 1 .. Len(buf') : k \in Nat /\ (k > Len(buf) => buf'[k] = Received'[k])
<1>1. PICK m \in 1 .. Room : buf' = buf \o SubSeq(input, read_index + 1, read_index + m)
  BY DEF Receive
<1>2. /\ m \in Nat /\ Len(buf) + m <= Len(input) /\ input \in Seq(Bytes) /\ m >= 1
      /\ buf \in Seq(Bytes) /\ Len(buf) \in Nat /\ Len(input) \in Nat
  BY RoomBound DEF Window
<1> DEFINE new == SubSeq(input, Len(buf) + 1, Len(buf) + m)
<1>3. /\ new \in Seq(Bytes) /\ Len(new) = m
      /\ \A k \in 1 .. m : new[k] = input[Len(buf) + k]
  <2>1. Len(buf) + 1 \in 1 .. Len(input) + 1 /\ Len(buf) + m \in Len(buf) .. Len(input)
    BY <1>2
  <2>2. new \in Seq(Bytes) /\ Len(new) = m
    BY <1>2, <2>1
  <2>3. ASSUME NEW k \in 1 .. m PROVE new[k] = input[Len(buf) + k]
    <3>1. k \in 1 .. Len(new) /\ (Len(buf) + 1) + k - 1 = Len(buf) + k
      BY <1>2, <2>2
    <3>2. new[k] = input[(Len(buf) + 1) + k - 1]
      BY <1>2, <2>1, <3>1
    <3> QED  BY <3>1, <3>2
  <2> QED  BY <2>2, <2>3
<1>4. buf' = buf \o new
  BY <1>1 DEF read_index
<1> HIDE DEF new
<1>5. /\ buf' \in Seq(Bytes) /\ Len(buf') = Len(buf) + m
      /\ \A k \in 1 .. Len(buf) : buf'[k] = buf[k]
      /\ \A k \in Len(buf) + 1 .. Len(buf) + m : buf'[k] = new[k - Len(buf)]
  <2>1. /\ buf' \in Seq(Bytes) /\ Len(buf') = Len(buf) + m
        /\ \A k \in 1 .. Len(buf) + m : buf'[k] = IF k <= Len(buf) THEN buf[k] ELSE new[k - Len(buf)]
    BY <1>2, <1>3, <1>4, ConcatProperties
  <2>2. \A k \in 1 .. Len(buf) : k \in 1 .. Len(buf) + m /\ k <= Len(buf)
    BY <1>2
  <2>3. \A k \in Len(buf) + 1 .. Len(buf) + m : k \in 1 .. Len(buf) + m /\ ~(k <= Len(buf))
    BY <1>2
  <2> QED  BY <2>1, <2>2, <2>3
<1>6. Received' = SubSeq(input, 1, Len(buf) + m)
  BY <1>5 DEF Received, read_index, Receive
<1>7. /\ Received' \in Seq(Bytes) /\ Len(Received') = Len(buf) + m
      /\ \A k \in 1 .. Len(buf) + m : Received'[k] = input[k]
  BY <1>2, <1>6
<1>8. /\ Received \in Seq(Bytes) /\ Len(Received) = Len(buf)
      /\ \A k \in 1 .. Len(buf) : Received[k] = input[k]
  BY ReceivedIs
<1>9. \A k \in 1 .. Len(buf) : k \in 1 .. Len(buf) + m
  BY <1>2
<1>10. Len(Received) <= Len(Received')
  BY <1>2, <1>7, <1>8
<1>11. Extends(Received', Received)
  BY <1>7, <1>8, <1>9, <1>10 DEF Extends
<1>12. ASSUME NEW k \in 1 .. Len(buf'), k > Len(buf) PROVE buf'[k] = Received'[k]
  <2>1. /\ k \in Len(buf) + 1 .. Len(buf) + m /\ k - Len(buf) \in 1 .. m
        /\ Len(buf) + (k - Len(buf)) = k /\ k \in 1 .. Len(buf) + m
    BY <1>2, <1>5, <1>12
  <2>2. buf'[k] = input[k]
    BY <1>3, <1>5, <2>1
  <2> QED  BY <1>7, <2>1, <2>2
<1> QED  BY <1>5, <1>7, <1>11, <1>12

LEMMA ReceiveScanning ==
  ASSUME Window, Rest, Receive, Scanning(Received)
  PROVE  Scanning(Received)' /\ ((\A k \in Blanks(Received) : k > start_line)
                                   => \A k \in Blanks(Received') : k > start_line \/ start_line = 0)
<1>1. PICK s : s = Received
  OBVIOUS
<1>2. PICK t : t = Received'
  OBVIOUS
<1>3. /\ Extends(t, s) /\ Len(t) = Len(buf') /\ \A k \in 1 .. Len(buf) : buf'[k] = buf[k]
      /\ \A k \in 1 .. Len(buf') : k \in Nat /\ (k > Len(buf) => buf'[k] = t[k])
  BY <1>1, <1>2, ReceivedGrows
<1>4. /\ Len(s) = Len(buf) /\ Len(buf) \in Nat /\ start_line \in Nat /\ checked_index \in Nat
      /\ start_line <= checked_index /\ checked_index <= Len(buf)
  BY <1>1, ReceivedIs DEF Window
<1>5. Copied(s) /\ Passed(s) /\ (start_line > 0 => start_line - 1 \in Pairs(s))
  BY <1>1 DEF Scanning
<1>6. UNCHANGED <<start_line, checked_index>>
  BY DEF Receive
<1>7. /\ Len(s) <= Len(t) /\ \A k \in 1 .. Len(s) : t[k] = s[k]
  BY <1>3 DEF Extends
<1>8. ASSUME NEW k \in 1 .. Len(buf')
      PROVE  buf'[k] = t[k] \/ (k <= start_line /\ buf'[k] = "NUL" /\ t[k] \in LineEnds)
  <2>1. CASE k <= Len(buf)
    <3>1. k \in 1 .. Len(buf)
      BY <1>3, <1>4, <2>1
    <3> QED  BY <1>3, <1>4, <1>5, <1>7, <3>1 DEF Copied
  <2>2. CASE k > Len(buf)
    BY <1>3, <2>2
  <2> QED  BY <1>3, <1>4, <2>1, <2>2
<1>9. ASSUME NEW k \in start_line + 1 .. checked_index PROVE t[k] \notin LineEnds
  <2>1. k \in 1 .. Len(s)
    BY <1>4
  <2> QED  BY <1>5, <1>7, <2>1 DEF Passed
<1>10. start_line > 0 => s[start_line] = "LF"
  <2>1. start_line > 0 => (start_line - 1) + 1 = start_line
    BY <1>4
  <2> QED  BY <1>5, <2>1 DEF Pairs
<1>11. ASSUME NEW k \in Strays(t) PROVE k > checked_index
  <2>1. k \in Nat /\ k >= 1
    BY DEF Strays
  <2>2. k \in Strays(s) \/ k > Len(s) \/ (k = Len(s) /\ s[k] = "CR")
    BY <1>3, StraysStay
  <2>3. CASE k \in Strays(s)
    BY <1>5, <2>3 DEF Passed
  <2>4. CASE k > Len(s)
    BY <1>4, <2>1, <2>4
  <2>5. CASE k = Len(s) /\ s[k] = "CR" /\ k = checked_index
    <3>1. start_line = checked_index \/ k \in start_line + 1 .. checked_index
      BY <1>4, <2>1, <2>5
    <3>2. start_line # checked_index
      BY <1>10, <2>1, <2>5
    <3>3. s[k] \notin LineEnds
      BY <1>5, <3>1, <3>2 DEF Passed
    <3> QED  BY <2>5, <3>3 DEF LineEnds
  <2> QED  BY <1>4, <2>1, <2>2, <2>3, <2>4, <2>5
<1>12. start_line > 0 => start_line - 1 \in Pairs(t)
  BY <1>3, <1>5, PairsStay
<1>13. ASSUME \A k \in Blanks(s) : k > start_line, NEW k \in Blanks(t), start_line # 0 PROVE k > start_line
  <2>1. k \in Pairs(t) /\ (k < Len(s) => k \in Blanks(s))
    BY <1>3, BlanksStay
  <2>2. k \in Nat /\ k >= 1 /\ t[k] = "CR"
    BY <2>1 DEF Pairs
  <2>3. CASE k = start_line
    <3>1. k \in 1 .. Len(s) /\ start_line > 0
      BY <1>4, <2>2, <2>3
    <3> QED  BY <1>7, <1>10, <2>2, <2>3, <3>1
  <2>4. CASE k < Len(s)
    BY <1>13, <2>1, <2>4
  <2> QED  BY <1>4, <2>1, <2>2, <2>3, <2>4
<1>14. Copied(t)'
  BY <1>6, <1>8 DEF Copied
<1>15. Passed(t)'
  BY <1>6, <1>9, <1>11 DEF Passed
<1>16. Scanning(t)'
  BY <1>6, <1>12, <1>14, <1>15 DEF Scanning
<1>17. Scanning(Received)'
  BY <1>2, <1>16 DEF Scanning, Copied, Passed
<1> QED  BY <1>1, <1>2, <1>13, <1>17

LEMMA ReceiveAnswers ==
  ASSUME Window, Rest, Answers, Receive
  PROVE  Answers'
<1>1. PICK s : s = Received
  OBVIOUS
<1>2. PICK t : t = Received'
  OBVIOUS
<1>3. Extends(t, s)
  BY <1>1, <1>2, ReceivedGrows
<1>4. UNCHANGED <<who, start_line, checked_index, check_state, result>> /\ pc' = "parse" /\ pc = "recv"
  BY DEF Receive
<1>5. result = "NO_REQUEST" /\ Stage(s)
  BY <1>1, <1>4 DEF Answers
<1>6. check_state = "CONTENT" => InContent(t)'
  <2> SUFFICES ASSUME check_state = "CONTENT" PROVE InContent(t)'
    OBVIOUS
  <2>1. /\ who = "conn" /\ \E e : LineOk(s, e)
        /\ \E b : HeadAt(s, b) /\ HasLength(SubSeq(s, 1, b)) /\ b < start_line
    BY <1>5 DEF Stage, InContent
  <2>2. \E e : LineOk(t, e)'
    BY <1>3, <1>4, <2>1, LineOkStays
  <2>3. PICK b : HeadAt(s, b) /\ HasLength(SubSeq(s, 1, b)) /\ b < start_line
    BY <2>1
  <2>4. HeadAt(t, b) /\ SubSeq(t, 1, b) = SubSeq(s, 1, b)
    BY <1>3, <2>3, HeadStays
  <2>5. HasLength(SubSeq(s, 1, b))'
    BY <1>4, <2>3, SameLength
  <2>6. HasLength(SubSeq(t, 1, b))'
    BY <2>4, <2>5
  <2> QED  BY <1>4, <2>1, <2>2, <2>3, <2>4, <2>6 DEF InContent
<1>7. check_state # "CONTENT" => Scanning(t)'
  <2>1. check_state # "CONTENT" => Scanning(Received)
    BY <1>1, <1>5 DEF Stage
  <2>2. check_state # "CONTENT" => Scanning(Received)'
    BY <2>1, ReceiveScanning
  <2> QED  BY <1>2, <2>2 DEF Scanning, Copied, Passed
<1>8. check_state = "HEADER" => InHeader(t)'
  <2> SUFFICES ASSUME check_state = "HEADER" PROVE InHeader(t)'
    OBVIOUS
  <2>1. Scanning(s) /\ (\E e : LineOk(s, e)) /\ start_line > 0 /\ \A k \in Blanks(s) : k > start_line
    BY <1>5 DEF Stage, InHeader
  <2>2. \E e : LineOk(t, e)'
    BY <1>3, <1>4, <2>1, LineOkStays
  <2>3. \A k \in Blanks(t) : k > start_line \/ start_line = 0
    BY <1>1, <1>2, <2>1, ReceiveScanning
  <2>4. start_line # 0
    BY <2>1 DEF Window
  <2> QED  BY <1>4, <2>1, <2>2, <2>3, <2>4 DEF InHeader
<1>9. check_state = "REQUESTLINE" => start_line' = 0
  BY <1>4, <1>5 DEF Stage
<1>10. Stage(t)'
  BY <1>4, <1>6, <1>7, <1>8, <1>9 DEF Stage
<1>11. Stage(Received)'
  BY <1>2, <1>10 DEF Stage, InContent, InHeader, Scanning, Copied, Passed
<1> QED  BY <1>4, <1>5, <1>11 DEF Answers

(* A step that neither reads nor changes what was received. *)
LEMMA SameReceived ==
  ASSUME UNCHANGED <<who, input>>, Len(buf') = Len(buf)
  PROVE  Received' = Received
BY DEF Received, read_index

LEMMA LineOkSame ==
  ASSUME NEW s, who' = who, NEW e, LineOk(s, e)
  PROVE  LineOk(s, e)'
BY SameLine DEF LineOk

LEMMA NoLineAnswers ==
  ASSUME Window, Rest, Answers, NoLine
  PROVE  Answers'
<1>1. PICK s : s = Received
  OBVIOUS
<1>2. /\ pc = "parse" /\ Turn.status # "LINE_OK" /\ checked_index' = Turn.index
      /\ result' = IF Turn.status = "LINE_OPEN" THEN "NO_REQUEST" ELSE BadLine
      /\ pc' = IF result' = "NO_REQUEST" THEN "recv" ELSE "done"
      /\ UNCHANGED <<who, input, buf, start_line, check_state>>
  BY DEF NoLine
<1>3. Received' = s
  BY <1>1, <1>2, SameReceived
<1>4. result = "NO_REQUEST" /\ Stage(s)
  BY <1>1, <1>2 DEF Answers
<1>5. Turn.status \in {"LINE_OPEN", "LINE_BAD"} /\ checked_index' = Stop
  BY <1>2, FoundNone
<1>6. /\ Len(s) = Len(buf) /\ Len(buf) \in Nat /\ start_line \in Nat /\ Stop \in Nat /\ Stop <= Len(buf)
  BY <1>1, ReceivedIs, StopFirst DEF Window
<1>7. CASE check_state = "CONTENT"
  <2>1. InContent(s)
    BY <1>4, <1>7 DEF Stage
  <2>2. result' = "NO_REQUEST" /\ pc' = "recv"
    BY <1>2, <1>5, <2>1 DEF BadLine, InContent
  <2>3. InContent(s)'
    <3>1. PICK e : LineOk(s, e)
      BY <2>1 DEF InContent
    <3>2. PICK b : HeadAt(s, b) /\ HasLength(SubSeq(s, 1, b)) /\ b < start_line
      BY <2>1 DEF InContent
    <3>3. LineOk(s, e)' /\ HasLength(SubSeq(s, 1, b))'
      BY <1>2, <3>1, <3>2, LineOkSame, SameLength
    <3> QED  BY <1>2, <2>1, <3>2, <3>3 DEF InContent
  <2>4. Stage(s)'
    BY <1>2, <1>7, <2>3 DEF Stage
  <2>5. Stage(Received)'
    BY <1>3, <2>4 DEF Stage, InContent, InHeader, Scanning, Copied, Passed
  <2> QED  BY <1>2, <1>7, <2>2, <2>5 DEF Answers
<1>8. CASE check_state # "CONTENT"
  <2>1. Scanning(s) /\ Copied(s) /\ (start_line > 0 => start_line - 1 \in Pairs(s))
    BY <1>4, <1>8 DEF Stage, Scanning
  <2>2. /\ \A k \in 1 .. Len(buf) : k > start_line /\ k <= Stop => s[k] \notin LineEnds
        /\ \A k \in Strays(s) : k > Stop
        /\ start_line <= Stop
    BY <1>1, <2>1, Unread
  <2>3. /\ Turn.status = "LINE_OPEN" => Stop = Len(buf) \/ (Stop + 1 = Len(buf) /\ s[Len(buf)] = "CR")
        /\ Turn.status = "LINE_BAD" => Stop + 1 \in Strays(s)
    BY <1>1, <1>8, <2>1, TurnTells
  <2>4. \A k \in start_line + 1 .. Stop : k \in 1 .. Len(buf) /\ k > start_line /\ k <= Stop
    BY <1>6
  <2>5. Passed(s)'
    BY <1>2, <1>5, <2>2, <2>4 DEF Passed
  <2>6. Copied(s)'
    BY <1>2, <2>1 DEF Copied
  <2>7. Scanning(s)'
    BY <1>2, <2>1, <2>5, <2>6 DEF Scanning
  <2>8. check_state = "HEADER" => InHeader(s)'
    <3> SUFFICES ASSUME check_state = "HEADER" PROVE InHeader(s)'
      OBVIOUS
    <3>1. InHeader(s)
      BY <1>4 DEF Stage
    <3>2. PICK e : LineOk(s, e)
      BY <3>1 DEF InHeader
    <3>3. LineOk(s, e)'
      BY <1>2, <3>2, LineOkSame
    <3> QED  BY <1>2, <3>1, <3>3 DEF InHeader
  <2>9. Stage(s)'
    BY <1>2, <1>4, <1>8, <2>7, <2>8 DEF Stage
  <2>10. Stage(Received)'
    BY <1>3, <2>9 DEF Stage, InContent, InHeader, Scanning, Copied, Passed
  <2>11. ASSUME NEW k \in Pairs(s), k > start_line, Stop + 1 \in Strays(s) PROVE Stop + 1 < k
    <3>1. k \in 1 .. Len(s) - 1 /\ s[k] = "CR" /\ s[k + 1] = "LF"
      BY DEF Pairs
    <3>2. ~(k <= Stop)
      BY <1>6, <2>2, <2>11, <3>1 DEF LineEnds
    <3>3. k # Stop + 1
      BY <1>6, <2>11, <3>1 DEF Strays
    <3> QED  BY <1>6, <3>1, <3>2, <3>3
  <2>12. CASE Turn.status = "LINE_OPEN"
    <3>1. Waits(s)'
      BY <1>5, <1>6, <2>3, <2>12 DEF Waits
    <3>2. Waits(Received)'
      BY <1>3, <3>1 DEF Waits
    <3>3. result' = "NO_REQUEST" /\ pc' = "recv"
      BY <1>2, <2>12
    <3> QED  BY <2>10, <3>2, <3>3 DEF Answers
  <2>13. CASE Turn.status = "LINE_BAD" /\ who # "demo"
    <3>1. who = "conn"
      BY <2>13 DEF Rest
    <3>2. Waits(s)'
      BY <1>2, <1>5, <2>3, <2>13, <3>1 DEF Waits
    <3>3. Waits(Received)'
      BY <1>3, <3>2 DEF Waits
    <3>4. result' = "NO_REQUEST" /\ pc' = "recv"
      BY <1>2, <2>13 DEF BadLine
    <3> QED  BY <2>10, <3>3, <3>4 DEF Answers
  <2>14. CASE Turn.status = "LINE_BAD" /\ who = "demo"
    <3>1. result' = "BAD_REQUEST" /\ pc' = "done"
      BY <1>2, <2>14 DEF BadLine
    <3>2. StrayAt(s, Stop + 1)
      <4>1. \A k \in Strays(s) : k \in Nat
        BY DEF Strays
      <4> QED  BY <1>6, <2>2, <2>3, <2>14, <4>1 DEF StrayAt
    <3>3. Stop + 1 \in Strays(s)
      BY <2>3, <2>14
    <3>4. CASE check_state = "REQUESTLINE"
      <4>1. \A k \in Pairs(s) : k > start_line
        BY <1>4, <3>4 DEF Stage, Pairs
      <4>2. \A k \in Pairs(s) : Stop + 1 < k
        BY <2>11, <3>3, <4>1
      <4> QED  BY <1>2, <1>3, <2>14, <3>1, <3>2, <4>2 DEF Answers, Rejected
    <3>5. CASE check_state = "HEADER"
      <4>1. InHeader(s)
        BY <1>4, <3>5 DEF Stage
      <4>2. PICK e : LineOk(s, e)
        BY <4>1 DEF InHeader
      <4>3. LineOk(s, e)'
        BY <1>2, <4>2, LineOkSame
      <4>4. \A k \in Blanks(s) : k \in Pairs(s) /\ k > start_line
        BY <4>1 DEF InHeader, Blanks
      <4>5. \A k \in Blanks(s) : Stop + 1 < k
        BY <2>11, <3>3, <4>4
      <4>6. Rejected(s)'
        BY <1>2, <2>14, <3>2, <4>3, <4>5 DEF Rejected
      <4>7. Rejected(Received)'
        BY <1>3, <4>6 DEF Rejected
      <4> QED  BY <3>1, <4>7 DEF Answers
    <3> QED  BY <1>8, <3>4, <3>5 DEF Rest, States
  <2> QED  BY <1>5, <2>12, <2>13, <2>14
<1> QED  BY <1>7, <1>8

(* The next line ends at Stop + 1. *)
LEMMA NextLine ==
  ASSUME Window, Rest, check_state # "CONTENT", Scanning(Received), Turn.status = "LINE_OK"
  PROVE  /\ Stop \in Nat /\ start_line \in Nat /\ start_line <= Stop /\ Stop + 2 <= Len(Received)
         /\ Stop + 1 \in Pairs(Received)
         /\ \A k \in Pairs(Received) : k > start_line => Stop + 1 <= k
         /\ \A k \in Strays(Received) : k > Stop + 2
<1>1. PICK s : s = Received
  OBVIOUS
<1>2. Stop + 1 < Len(buf) /\ s[Stop + 1] = "CR" /\ s[Stop + 2] = "LF"
  BY <1>1, TurnTells
<1>3. /\ Stop \in Nat /\ Len(buf) \in Nat /\ start_line \in Nat /\ Len(s) = Len(buf)
  BY <1>1, StopFirst, ReceivedIs DEF Window
<1>4. /\ \A k \in 1 .. Len(buf) : k > start_line /\ k <= Stop => s[k] \notin LineEnds
      /\ \A k \in Strays(s) : k > Stop
      /\ start_line <= Stop
  BY <1>1, Unread
<1>5. Stop + 2 <= Len(s) /\ Stop + 1 \in 1 .. Len(s) - 1 /\ (Stop + 1) + 1 = Stop + 2
  BY <1>2, <1>3
<1>6. Stop + 1 \in Pairs(s)
  BY <1>2, <1>5 DEF Pairs
<1>7. ASSUME NEW k \in Pairs(s), k > start_line PROVE Stop + 1 <= k
  <2>1. k \in 1 .. Len(s) - 1 /\ s[k] \in LineEnds
    BY DEF Pairs, LineEnds
  <2>2. ~(k <= Stop)
    BY <1>3, <1>4, <1>7, <2>1
  <2> QED  BY <1>3, <2>1, <2>2
<1>8. ASSUME NEW k \in Strays(s) PROVE k > Stop + 2
  <2>1. k \in Nat /\ k > Stop
    BY <1>4 DEF Strays
  <2>2. k # Stop + 1
    BY <1>2, <1>5 DEF Strays
  <2>3. k # Stop + 2
    <3>1. (Stop + 2) - 1 = Stop + 1 /\ Stop + 2 # 1
      BY <1>3
    <3> QED  BY <1>2, <3>1 DEF Strays
  <2> QED  BY <1>3, <2>1, <2>2, <2>3
<1> QED  BY <1>1, <1>3, <1>4, <1>5, <1>6, <1>7, <1>8

(* Once the line is taken, the scanner is behind it. *)
LEMMA TakeScanning ==
  ASSUME Window, Rest, check_state # "CONTENT", Scanning(Received), TakeLine
  PROVE  /\ Scanning(Received)' /\ start_line' = Stop + 2 /\ Received' = Received
<1>1. PICK s : s = Received
  OBVIOUS
<1>2. /\ Turn.status = "LINE_OK" /\ buf' = Turn.buf /\ checked_index' = Turn.index
      /\ start_line' = Turn.index /\ UNCHANGED <<who, input>>
  BY DEF TakeLine
<1>3. /\ Len(buf') = Len(buf)
      /\ \A k \in 1 .. Len(buf) : \/ buf'[k] = s[k]
                                  \/ k <= Stop + 2 /\ buf'[k] = "NUL" /\ s[k] \in LineEnds
  BY <1>1, <1>2, BufferAfter
<1>4. Received' = s
  BY <1>1, <1>2, <1>3, SameReceived
<1>5. Turn.index = Stop + 2
  BY <1>2, TurnTells
<1>6. start_line' = Stop + 2 /\ checked_index' = Stop + 2
  BY <1>2, <1>5
<1>7. Stop \in Nat /\ Stop + 1 \in Pairs(s) /\ \A k \in Strays(s) : k > Stop + 2
  BY <1>1, <1>2, NextLine
<1>8. Copied(s)'
  BY <1>3, <1>6 DEF Copied
<1>9. Passed(s)'
  <2>1. (Stop + 2) + 1 .. Stop + 2 = {}
    BY <1>7
  <2> QED  BY <1>6, <1>7, <2>1 DEF Passed
<1>10. start_line' - 1 = Stop + 1
  BY <1>6, <1>7
<1>11. Scanning(s)'
  BY <1>7, <1>8, <1>9, <1>10 DEF Scanning
<1>12. Scanning(Received)'
  BY <1>4, <1>11 DEF Scanning, Copied, Passed
<1> QED  BY <1>1, <1>4, <1>6, <1>12

LEMMA TakeRequestLine ==
  ASSUME Window, Rest, NoNul, Answers, TakeLine, check_state = "REQUESTLINE"
  PROVE  Answers'
<1>1. PICK s : s = Received
  OBVIOUS
<1>2. pc = "parse" /\ Turn.status = "LINE_OK" /\ who' = who
      /\ pc' = (IF result' = "NO_REQUEST" THEN "parse" ELSE "done")
  BY DEF TakeLine
<1>3. Stage(s) /\ Scanning(s) /\ start_line = 0
  BY <1>1, <1>2 DEF Answers, Stage
<1> PICK j : j = Stop
  OBVIOUS
<1>4. Line(StringAt(Turn.buf, start_line), Turn.buf)
  BY DEF TakeLine
<1>5. StringAt(Turn.buf, start_line) = SubSeq(s, 1, j)
  BY <1>1, <1>2, <1>3, LineString
<1>6. /\ check_state' = IF RequestLineOk(SubSeq(s, 1, j)) THEN "HEADER" ELSE check_state
      /\ result' = IF RequestLineOk(SubSeq(s, 1, j)) THEN "NO_REQUEST" ELSE "BAD_REQUEST"
  BY <1>4, <1>5 DEF Line
<1>7. Scanning(Received)' /\ start_line' = j + 2 /\ Received' = s
  BY <1>1, <1>3, TakeScanning
<1>8. /\ j \in Nat /\ j + 1 \in Pairs(s)
      /\ \A k \in Pairs(s) : k > start_line => j + 1 <= k
      /\ \A k \in Strays(s) : k > j + 2
  BY <1>1, <1>2, <1>3, NextLine
<1>9. \A k \in Pairs(s) \cup Strays(s) : k \in Nat /\ k > 0
  BY DEF Pairs, Strays
<1>10. LineAt(s, j + 1) /\ (j + 1) - 1 = j
  BY <1>3, <1>8, <1>9 DEF LineAt
<1>11. CASE RequestLineOk(SubSeq(s, 1, j))
  <2>1. LineOk(s, j + 1)
    BY <1>10, <1>11 DEF LineOk
  <2>2. LineOk(s, j + 1)'
    BY <1>2, <2>1, LineOkSame
  <2>3. ASSUME NEW k \in Blanks(s) PROVE k > j + 2
    <3>1. k \in Pairs(s) /\ k - 2 \in Pairs(s)
      BY DEF Blanks
    <3>2. k \in Nat /\ j + 1 <= k - 2
      BY <1>3, <1>8, <1>9, <3>1
    <3> QED  BY <1>8, <3>2
  <2>4. start_line' > 0
    BY <1>7, <1>8
  <2>5. InHeader(s)'
    BY <1>7, <2>2, <2>3, <2>4 DEF InHeader
  <2>6. InHeader(Received)'
    BY <1>7, <2>5 DEF InHeader
  <2>7. check_state' = "HEADER" /\ result' = "NO_REQUEST" /\ pc' = "parse"
    BY <1>2, <1>6, <1>11
  <2>8. Stage(Received)'
    BY <1>7, <2>6, <2>7 DEF Stage
  <2> QED  BY <2>7, <2>8 DEF Answers
<1>12. CASE ~RequestLineOk(SubSeq(s, 1, j))
  <2>1. ~RequestLineOk(SubSeq(s, 1, j))'
    BY <1>2, <1>12, SameLine
  <2>2. result' = "BAD_REQUEST" /\ pc' = "done"
    BY <1>2, <1>6, <1>12
  <2>3. PICK e : e = j + 1
    OBVIOUS
  <2>4. LineAt(s, e) /\ ~RequestLineOk(SubSeq(s, 1, e - 1))'
    BY <1>10, <2>1, <2>3
  <2>5. Rejected(s)'
    BY <2>4 DEF Rejected
  <2>6. Rejected(Received)'
    BY <1>7, <2>5 DEF Rejected
  <2> QED  BY <2>2, <2>6 DEF Answers
<1> QED  BY <1>11, <1>12

LEMMA TakeHeader ==
  ASSUME Window, Rest, NoNul, Answers, TakeLine, check_state = "HEADER"
  PROVE  Answers'
<1>1. PICK s : s = Received
  OBVIOUS
<1>2. PICK j : j = Stop
  OBVIOUS
<1>3. PICK i : i = start_line
  OBVIOUS
<1>4. pc = "parse" /\ Turn.status = "LINE_OK" /\ who' = who
      /\ pc' = (IF result' = "NO_REQUEST" THEN "parse" ELSE "done")
  BY DEF TakeLine
<1>5. Stage(s) /\ Scanning(s) /\ InHeader(s)
  BY <1>1, <1>4 DEF Answers, Stage
<1>6. Line(StringAt(Turn.buf, start_line), Turn.buf)
  BY DEF TakeLine
<1>7. StringAt(Turn.buf, start_line) = <<>> <=> j = i
  BY <1>1, <1>2, <1>3, <1>4, <1>5, LineString
<1>8. /\ result' = IF j = i /\ ~HasLength(SubSeq(Turn.buf, 1, start_line)) THEN "GET_REQUEST" ELSE "NO_REQUEST"
      /\ check_state' = IF j = i /\ HasLength(SubSeq(Turn.buf, 1, start_line)) THEN "CONTENT" ELSE check_state
  BY <1>6, <1>7 DEF Line
<1>9. Scanning(Received)' /\ start_line' = j + 2 /\ Received' = s
  BY <1>1, <1>2, <1>5, TakeScanning
<1>10. /\ j \in Nat /\ i \in Nat /\ i <= j /\ j + 2 <= Len(s) /\ j + 1 \in Pairs(s)
       /\ \A k \in Pairs(s) : k > i => j + 1 <= k
       /\ \A k \in Strays(s) : k > j + 2
  BY <1>1, <1>2, <1>3, <1>4, <1>5, NextLine
<1>11. PICK e : LineOk(s, e)
  BY <1>5 DEF InHeader
<1>12. LineOk(s, e)'
  BY <1>4, <1>11, LineOkSame
<1>13. i > 0 /\ i - 1 \in Pairs(s) /\ \A k \in Blanks(s) : k > i
  BY <1>3, <1>5 DEF InHeader, Scanning
<1>14. s[i] = "LF"
  <2>1. (i - 1) + 1 = i
    BY <1>10
  <2> QED  BY <1>13, <2>1 DEF Pairs
<1>15. CASE j # i
  <2>1. check_state' = "HEADER" /\ result' = "NO_REQUEST" /\ pc' = "parse"
    BY <1>4, <1>8, <1>15
  <2>2. ASSUME NEW k \in Blanks(s) PROVE k > j + 2
    <3>1. k \in Pairs(s) /\ k - 2 \in Pairs(s) /\ k > i
      BY <1>13 DEF Blanks
    <3>2. k \in Nat /\ k - 2 \in Nat /\ s[k] = "CR" /\ s[k - 2] = "CR"
      BY <3>1 DEF Pairs
    <3>3. k - 2 # i
      BY <1>14, <3>2
    <3>4. j + 1 <= k
      BY <1>10, <3>1
    <3>5. CASE k - 2 > i
      BY <1>10, <3>1, <3>2, <3>5
    <3>6. CASE k - 2 < i
      <4>1. k = i + 1 /\ j = i
        BY <1>10, <3>1, <3>2, <3>4, <3>6
      <4> QED  BY <1>15, <4>1
    <3> QED  BY <1>10, <3>2, <3>3, <3>5, <3>6
  <2>3. start_line' > 0
    BY <1>9, <1>10
  <2>4. InHeader(s)'
    BY <1>9, <1>12, <2>2, <2>3 DEF InHeader
  <2>5. InHeader(Received)'
    BY <1>9, <2>4 DEF InHeader
  <2>6. Stage(Received)'
    BY <1>9, <2>1, <2>5 DEF Stage
  <2> QED  BY <2>1, <2>6 DEF Answers
<1>16. CASE j = i
  <2>1. PICK b : b = j + 1
    OBVIOUS
  <2>2. b \in Nat /\ b - 2 = i - 1 /\ b = i + 1 /\ b + 1 = j + 2 /\ b < j + 2
    BY <1>10, <1>16, <2>1
  <2>3. HeadAt(s, b)
    <3>1. b \in Blanks(s)
      BY <1>10, <1>13, <2>1, <2>2 DEF Blanks
    <3>2. \A k \in Blanks(s) \cup Strays(s) : k \in Nat
      BY DEF Blanks, Pairs, Strays
    <3>3. \A k \in Blanks(s) : b <= k
      BY <1>10, <1>13, <2>2, <3>2
    <3>4. \A k \in Strays(s) : b < k
      BY <1>10, <2>2, <3>2
    <3> QED  BY <3>1, <3>3, <3>4 DEF HeadAt
  <2>4. HasLength(SubSeq(Turn.buf, 1, start_line)) <=> HasLength(SubSeq(s, 1, b))
    BY <1>1, <1>2, <1>3, <1>4, <1>5, <1>16, <2>2, HeaderSeen
  <2>5. CASE HasLength(SubSeq(s, 1, b))
    <3>1. check_state' = "CONTENT" /\ result' = "NO_REQUEST" /\ pc' = "parse"
      BY <1>4, <1>8, <1>16, <2>4, <2>5
    <3>2. HasLength(SubSeq(s, 1, b))'
      BY <1>4, <2>5, SameLength
    <3>3. who' = "conn"
      BY <1>4, <2>5 DEF HasLength
    <3>4. InContent(s)'
      BY <1>9, <1>12, <2>2, <2>3, <3>2, <3>3 DEF InContent
    <3>5. InContent(Received)'
      BY <1>9, <3>4 DEF InContent
    <3>6. Stage(Received)'
      BY <3>1, <3>5 DEF Stage
    <3> QED  BY <3>1, <3>6 DEF Answers
  <2>6. CASE ~HasLength(SubSeq(s, 1, b))
    <3>1. result' = "GET_REQUEST" /\ pc' = "done"
      BY <1>4, <1>8, <1>16, <2>4, <2>6
    <3>2. Wants(s, b) = 0
      BY <2>6 DEF Wants
    <3>3. Wants(s, b)' = 0
      BY <1>4, <3>2, SameWants
    <3>4. Len(s) >= b + 1 + 0
      BY <1>10, <2>2
    <3>5. Accepted(s)'
      BY <1>12, <2>3, <3>3, <3>4 DEF Accepted
    <3>6. Accepted(Received)'
      BY <1>9, <3>5 DEF Accepted
    <3> QED  BY <3>1, <3>6 DEF Answers
  <2> QED  BY <2>5, <2>6
<1> QED  BY <1>15, <1>16

LEMMA TakeContent ==
  ASSUME Window, Rest, Answers, TakeLine, check_state = "CONTENT"
  PROVE  Answers'
<1>1. PICK s : s = Received
  OBVIOUS
<1>2. /\ pc = "parse" /\ Turn.status = "LINE_OK" /\ UNCHANGED <<who, input>>
      /\ pc' = (IF result' = "NO_REQUEST" THEN "parse" ELSE "done")
      /\ buf' = Turn.buf /\ start_line' = Turn.index
  BY DEF TakeLine
<1>3. InContent(s)
  BY <1>1, <1>2 DEF Answers, Stage
<1>4. PICK e : LineOk(s, e)
  BY <1>3 DEF InContent
<1>5. PICK b : HeadAt(s, b) /\ HasLength(SubSeq(s, 1, b)) /\ b < start_line
  BY <1>3 DEF InContent
<1>6. /\ Len(buf') = Len(buf) /\ start_line' \in Nat /\ start_line <= start_line'
      /\ start_line \in Nat /\ Len(buf) \in Nat /\ Len(Turn.buf) = Len(buf)
  BY <1>2, FoundLine DEF Window
<1>7. Received' = s /\ Len(s) = Len(buf)
  BY <1>1, <1>2, <1>6, SameReceived, ReceivedIs
<1>8. b \in Nat
  BY <1>5 DEF HeadAt, Blanks, Pairs
<1>9. Line(StringAt(Turn.buf, start_line), Turn.buf)
  BY DEF TakeLine
<1>10. /\ result' = IF Len(buf) - start_line' >= BodyLength THEN "GET_REQUEST" ELSE "NO_REQUEST"
       /\ check_state' = "CONTENT"
  BY <1>6, <1>9 DEF Line
<1>11. LineOk(s, e)' /\ HasLength(SubSeq(s, 1, b))' /\ Wants(s, b)' = BodyLength
  <2>1. Wants(s, b) = BodyLength
    BY <1>5 DEF Wants
  <2> QED  BY <1>2, <1>4, <1>5, <2>1, LineOkSame, SameLength, SameWants
<1>12. CASE Len(buf) - start_line' >= BodyLength
  <2>1. Len(s) >= b + 1 + BodyLength
    BY <1>5, <1>6, <1>7, <1>8, <1>12, Sizes
  <2>2. Accepted(s)'
    BY <1>5, <1>11, <2>1 DEF Accepted
  <2>3. Accepted(Received)'
    BY <1>7, <2>2 DEF Accepted
  <2>4. result' = "GET_REQUEST" /\ pc' = "done"
    BY <1>2, <1>10, <1>12
  <2> QED  BY <2>3, <2>4 DEF Answers
<1>13. CASE ~(Len(buf) - start_line' >= BodyLength)
  <2>1. b < start_line'
    BY <1>5, <1>6, <1>8
  <2>2. who' = "conn"
    BY <1>2, <1>3 DEF InContent
  <2>3. InContent(s)'
    BY <1>5, <1>11, <2>1, <2>2 DEF InContent
  <2>4. InContent(Received)'
    BY <1>7, <2>3 DEF InContent
  <2>5. result' = "NO_REQUEST" /\ pc' = "parse"
    BY <1>2, <1>10, <1>13
  <2>6. Stage(Received)'
    BY <1>10, <2>4 DEF Stage
  <2> QED  BY <1>10, <2>5, <2>6 DEF Answers
<1> QED  BY <1>12, <1>13

(* Nothing of what Answers is about changes but pc and the result. *)
LEMMA OtherAnswers ==
  ASSUME Window, Rest, Answers, ReceiveFull \/ ReceiveFails \/ Finished \/ Silent \/ UNCHANGED vars
  PROVE  Answers'
<1>1. PICK s : s = Received
  OBVIOUS
<1>2. UNCHANGED <<who, input, buf, start_line, checked_index, check_state>>
  BY DEF ReceiveFull, ReceiveFails, Finished, Silent, vars, parserVars
<1>3. Received' = s
  BY <1>1, <1>2, SameReceived
<1>4. ASSUME Stage(s) PROVE Stage(Received)'
  <2>1. ASSUME NEW e, LineOk(s, e) PROVE LineOk(s, e)'
    BY <1>2, <2>1, LineOkSame
  <2>2. ASSUME NEW b PROVE HasLength(SubSeq(s, 1, b)) => HasLength(SubSeq(s, 1, b))'
    BY <1>2, SameLength
  <2>3. InContent(s) => InContent(s)'
    BY <1>2, <2>1, <2>2 DEF InContent
  <2>4. InHeader(s) => InHeader(s)'
    BY <1>2, <2>1 DEF InHeader
  <2>5. Scanning(s) => Scanning(s)'
    BY <1>2 DEF Scanning, Copied, Passed
  <2>6. Stage(s)'
    BY <1>2, <1>4, <2>3, <2>4, <2>5 DEF Stage
  <2> QED  BY <1>3, <2>6 DEF Stage, InContent, InHeader, Scanning, Copied, Passed
<1>5. Waits(s) => Waits(Received)'
  BY <1>2, <1>3 DEF Waits
<1>6. ASSUME Rejected(s) PROVE Rejected(Received)'
  <2>1. ASSUME NEW e, LineOk(s, e) PROVE LineOk(s, e)'
    BY <1>2, <2>1, LineOkSame
  <2>2. ASSUME NEW e PROVE RequestLineOk(SubSeq(s, 1, e - 1)) <=> RequestLineOk(SubSeq(s, 1, e - 1))'
    BY <1>2, SameLine
  <2>3. Rejected(s)'
    BY <1>2, <1>6, <2>1, <2>2 DEF Rejected
  <2> QED  BY <1>3, <2>3 DEF Rejected
<1>7. ASSUME Accepted(s) PROVE Accepted(Received)'
  <2>1. PICK e : LineOk(s, e)
    BY <1>7 DEF Accepted
  <2>2. PICK b : HeadAt(s, b) /\ Len(s) >= b + 1 + Wants(s, b)
    BY <1>7 DEF Accepted
  <2>3. LineOk(s, e)' /\ Wants(s, b)' = Wants(s, b)
    BY <1>2, <2>1, LineOkSame, SameWants
  <2>4. PICK w : w = Wants(s, b)
    OBVIOUS
  <2>5. Len(s) >= b + 1 + w /\ Wants(s, b)' = w
    BY <2>2, <2>3, <2>4
  <2>6. Accepted(s)'
    BY <2>2, <2>3, <2>5 DEF Accepted
  <2> QED  BY <1>3, <2>6 DEF Accepted
<1>8. CASE ReceiveFull
  <2>1. pc = "recv" /\ result' = "full" /\ pc' = "done"
    BY <1>8 DEF ReceiveFull
  <2>2. Stage(s) /\ (check_state # "CONTENT" => Waits(s))
    BY <1>1, <2>1 DEF Answers
  <2> QED  BY <1>2, <1>4, <1>5, <2>1, <2>2 DEF Answers
<1>9. CASE ReceiveFails
  <2>1. pc' = "done" /\ result' \in {"closed", "failed"}
    BY <1>9 DEF ReceiveFails
  <2> QED  BY <2>1 DEF Answers
<1>10. CASE Finished \/ Silent \/ UNCHANGED vars
  <2>1. UNCHANGED <<pc, result>>
    BY <1>10 DEF Finished, Silent, vars
  <2> QED  BY <1>1, <1>2, <1>4, <1>5, <1>6, <1>7, <2>1 DEF Answers
<1> QED  BY <1>8, <1>9, <1>10

LEMMA InitAnswers == Init => Answers
<1> SUFFICES ASSUME Init PROVE Answers
  OBVIOUS
<1>1. /\ buf = <<>> /\ checked_index = 0 /\ start_line = 0 /\ check_state = "REQUESTLINE"
      /\ pc = "recv" /\ result = "NO_REQUEST"
  BY DEF Init
<1>2. PICK s : s = Received
  OBVIOUS
<1>3. Len(s) = 0 /\ Len(buf) = 0
  BY <1>1, <1>2, InitWindow, ReceivedIs
<1>4. Strays(s) = {}
  BY <1>3 DEF Strays
<1>5. Copied(s)
  BY <1>3 DEF Copied
<1>6. Passed(s)
  <2>1. start_line + 1 .. checked_index = {}
    BY <1>1
  <2> QED  BY <1>4, <2>1 DEF Passed
<1>7. Stage(s)
  BY <1>1, <1>5, <1>6 DEF Stage, Scanning
<1>8. Waits(s)
  BY <1>1, <1>3 DEF Waits
<1> QED  BY <1>1, <1>2, <1>7, <1>8 DEF Answers

LEMMA NextAnswers == Window /\ Rest /\ (NoNul => Answers) /\ [Next]_vars => (NoNul => Answers)'
<1> SUFFICES ASSUME Window, Rest, NoNul => Answers, [Next]_vars, NoNul' PROVE Answers'
  OBVIOUS
<1>1. input' = input
  BY DEF Next, ServerStep, Receive, ReceiveFull, ReceiveFails, TakeLine, NoLine, Finished, Silent, vars
<1>2. NoNul /\ Answers
  BY <1>1 DEF NoNul
<1>3. CASE Receive
  BY <1>2, <1>3, ReceiveAnswers
<1>4. CASE TakeLine
  BY <1>2, <1>4, TakeRequestLine, TakeHeader, TakeContent DEF Rest, States
<1>5. CASE NoLine
  BY <1>2, <1>5, NoLineAnswers
<1>6. CASE ReceiveFull \/ ReceiveFails \/ Finished \/ Silent \/ UNCHANGED vars
  BY <1>2, <1>6, OtherAnswers
<1> QED  BY <1>3, <1>4, <1>5, <1>6 DEF Next, ServerStep

(* However the bytes of a client that sends no NUL are cut into reads, both
   parsers answer what the request as a whole deserves, and they wait for more,
   or give up for a full buffer, only while it deserves no answer, with the two
   exceptions of process_read (a wrong line end, and a body): for every input
   and every size of the buffer. *)
THEOREM ChunkingIrrelevantHolds == Spec => [](NoNul => ChunkingIrrelevant)
<1>1. Init => (NoNul => Answers)
  BY InitAnswers
<1>2. Window /\ Rest /\ (NoNul => Answers) => (NoNul => ChunkingIrrelevant)
  BY AnswersRight
<1> QED  BY <1>1, <1>2, NextAnswers, Inductive, PTL DEF Spec
=============================================================================
