------------------------------ MODULE HttpParser ------------------------------
(***************************************************************************)
(* The two request parsers of the repository, reading from a connection    *)
(* whose bytes arrive in pieces:                                           *)
(*   "demo"  httprequest.cpp                                               *)
(*   "conn"  http_conn::parse_line and http_conn::process_read             *)
(* A line scanner (parse_line) hands complete lines to an automaton; what  *)
(* is received so far stays in one buffer, and three indices into it       *)
(* survive from one read to the next.                                      *)
(*                                                                         *)
(* A byte is CR, LF, NUL or one of the words a request line is made of,    *)
(* each taken as one byte: the places where a read may end inside a word   *)
(* are no different from the places around it.  Positions count from 0,    *)
(* as in the code.                                                         *)
(***************************************************************************)
EXTENDS Integers, Sequences, FiniteSetsExt

CONSTANTS
  Words,         \* the bytes a client may send
  Inputs,        \* what it may send, each a sequence of them
  BufferSize,    \* BUFFER_SIZE
  BodyLength     \* the value of the Content-length header

ASSUME SizesAssumption == BufferSize \in Nat \ {0} /\ BodyLength \in Nat \ {0}
ASSUME InputsAssumption == \A s \in Inputs : s \in Seq(Words)

VARIABLES
  who,           \* which of the two parsers
  input,         \* what the client sends
  buf,           \* the buffer up to read_index
  checked_index, start_line, check_state, line_status,
  pc,            \* "recv", "parse" or "done"
  result,        \* how it ended, "NO_REQUEST" before
  body,          \* position of the first byte after the empty line, -1 before
  text           \* position of the text given to parse_content last, -1 before

parserVars == <<buf, checked_index, start_line, check_state, line_status, body, text>>
vars       == <<who, input, parserVars, pc, result>>

Bytes      == Words \cup {"NUL"}
read_index == Len(buf)
Byte(k)    == buf[k + 1]

TypeOK ==
  /\ who \in {"demo", "conn"} /\ input \in Inputs
  /\ buf \in Seq(Bytes) /\ read_index <= BufferSize /\ read_index <= Len(input)
  /\ check_state \in {"REQUESTLINE", "HEADER", "CONTENT"}
  /\ line_status \in {"LINE_OK", "LINE_BAD", "LINE_OPEN"}
  /\ pc \in {"recv", "parse", "done"}
  /\ result \in {"NO_REQUEST", "GET_REQUEST", "BAD_REQUEST", "closed", "full", "failed"}
  /\ {body, text} \subseteq -1 .. BufferSize

\* The locals of main, and the fields of http_conn, at the start of a connection.
Init ==
  /\ who \in {"demo", "conn"} /\ input \in Inputs
  /\ buf = <<>> /\ checked_index = 0 /\ start_line = 0
  /\ check_state = "REQUESTLINE" /\ line_status = "LINE_OK"
  /\ pc = "recv" /\ result = "NO_REQUEST" /\ body = -1 /\ text = -1

-----------------------------------------------------------------------------
(* Reading. *)

\* Mutant of Room: the buffer is taken to be always empty.
RoomUnbounded == Len(input) - read_index

\* How much recv may return: what was sent, at most BUFFER_SIZE - read_index.
Room == Min({BufferSize, Len(input)}) - read_index

\* recv returns some of it.
Receive ==
  /\ pc = "recv"
  /\ \E n \in 1 .. Room :
       buf' = buf \o SubSeq(input, read_index + 1, read_index + n)
  /\ pc' = "parse"
  /\ line_status' = "LINE_OK"
  /\ UNCHANGED <<who, input, checked_index, start_line, check_state, result, body, text>>

\* recv returns -1, or 0 because the client is gone.
ReceiveFails ==
  /\ pc = "recv"
  /\ result' \in {"closed", "failed"}
  /\ pc' = "done"
  /\ UNCHANGED <<who, input, parserVars>>

\* With a full buffer recv is asked for no bytes and returns 0, as for a client
\* that is gone.
ReceiveFull ==
  /\ pc = "recv"
  /\ read_index = BufferSize
  /\ result' = "full"
  /\ pc' = "done"
  /\ UNCHANGED <<who, input, parserVars>>

-----------------------------------------------------------------------------
(* The line scanner. *)

Nul(positions) == [k \in 1 .. Len(buf) |-> IF k - 1 \in positions THEN "NUL" ELSE buf[k]]

Scan(status, index, positions) ==
  [status |-> status, index |-> index, buf |-> Nul(positions)]

\* The first line end at or after checked_index, read_index if there is none.
Stop == Min({k \in checked_index .. read_index - 1 : Byte(k) \in {"CR", "LF"}} \cup {read_index})

\* Mutant of Unfinished: the CR counts as checked.
UnfinishedPastCR == Scan("LINE_OPEN", Stop + 1, {})

\* A CR is the last byte so far: the next call begins with it again.
Unfinished == Scan("LINE_OPEN", Stop, {})

\* parse_line.  For an LF after a CR that an earlier call has left behind,
\* httprequest.cpp clears and skips the LF and the byte after it, http_conn the
\* CR and the LF.
parse_line ==
  CASE Stop = read_index -> Scan("LINE_OPEN", Stop, {})
    [] Stop < read_index /\ Byte(Stop) = "CR" ->
         IF Stop + 1 = read_index THEN Unfinished
         ELSE IF Byte(Stop + 1) = "LF" THEN Scan("LINE_OK", Stop + 2, {Stop, Stop + 1})
         ELSE Scan("LINE_BAD", Stop, {})
    [] OTHER ->
         IF ~(Stop > 1 /\ Byte(Stop - 1) = "CR") THEN Scan("LINE_BAD", Stop, {})
         ELSE IF who = "demo" THEN Scan("LINE_OK", Stop + 2, {Stop, Stop + 1})
         ELSE Scan("LINE_OK", Stop + 1, {Stop - 1, Stop})

\* The C string at position k.
StringAt(b, k) ==
  LET end == Min({j \in k .. Len(b) - 1 : b[j + 1] = "NUL"} \cup {Len(b)})
  IN  SubSeq(b, k + 1, end)

-----------------------------------------------------------------------------
(* The automaton. *)

\* The methods parse_requestline knows; http_conn also takes POST.
Methods == IF who = "demo" THEN {"GET"} ELSE {"GET", "POST"}

\* The words of a line, as strpbrk and strspn over blanks find them.
WordsOf(s) == SelectSeq(s, LAMBDA b : b # " ")

\* parse_requestline: three words with blanks between them and none around.
\* An absolute url must have a path.
RequestLineOk(s) ==
  LET words == WordsOf(s)
  IN  /\ Len(words) = 3
      /\ words[1] \in Methods /\ words[2] \in {"/", "http://h/"} /\ words[3] = "HTTP/1.1"
      /\ s[1] # " " /\ s[Len(s)] # " "
      /\ \A k \in 1 .. Len(s) - 1 : " " \in {s[k], s[k + 1]}

\* Has a Content-length header been seen (http_conn, external)?
HasLength(s) == who = "conn" /\ \E k \in 1 .. Len(s) : s[k] = "Content-length"

\* A line was found: the case of the switch for it.  parse_headers of
\* httprequest.cpp ends the request at the empty line; the one of http_conn
\* (external) goes on with the body when a header so far gave a length, and
\* parse_content (external) wants as many bytes after m_checked_idx, which is
\* m_start_line by then.
Line(line, b) ==
  CASE check_state = "REQUESTLINE" ->
         /\ check_state' = IF RequestLineOk(line) THEN "HEADER" ELSE check_state
         /\ result' = IF RequestLineOk(line) THEN "NO_REQUEST" ELSE "BAD_REQUEST"
         /\ UNCHANGED <<body, text>>
    [] check_state = "HEADER" ->
         /\ result' = IF line = <<>> /\ ~HasLength(SubSeq(b, 1, start_line)) THEN "GET_REQUEST" ELSE "NO_REQUEST"
         /\ check_state' = IF line = <<>> /\ HasLength(SubSeq(b, 1, start_line)) THEN "CONTENT" ELSE check_state
         /\ body' = IF line = <<>> THEN start_line' ELSE body
         /\ UNCHANGED text
    [] check_state = "CONTENT" ->
         /\ text' = start_line
         /\ result' = IF Len(b) - start_line' >= BodyLength THEN "GET_REQUEST" ELSE "NO_REQUEST"
         /\ UNCHANGED <<check_state, body>>

\* The body of a POST: the first condition of the loop of process_read.
InBody == who = "conn" /\ check_state = "CONTENT" /\ line_status = "LINE_OK"

\* The condition of the loop: in the body there is no line to look for.
Turn == IF InBody THEN Scan("LINE_OK", checked_index, {}) ELSE parse_line

\* One turn of the loop.  After a look at the body line_status is LINE_OPEN.
TakeLine ==
  /\ pc = "parse"
  /\ \E turn \in {Turn} :
       /\ turn.status = "LINE_OK"
       /\ buf' = turn.buf
       /\ checked_index' = turn.index
       /\ start_line' = turn.index
       /\ line_status' = IF check_state = "CONTENT" THEN "LINE_OPEN" ELSE "LINE_OK"
       /\ \E line \in {StringAt(turn.buf, start_line)} : Line(line, turn.buf)
  /\ pc' = IF result' = "NO_REQUEST" THEN "parse" ELSE "done"
  /\ UNCHANGED <<who, input>>

\* Mutant of BadLine: the demo, too, waits for more after a bad line.
BadLineIgnored == "NO_REQUEST"

\* The answer to a line that ends in the wrong way: process_read ends its loop
\* and returns NO_REQUEST.
BadLine == IF who = "demo" THEN "BAD_REQUEST" ELSE "NO_REQUEST"

\* No complete line: the loop ends, and with it the call.
NoLine ==
  /\ pc = "parse"
  /\ \E turn \in {Turn} :
       /\ turn.status # "LINE_OK"
       /\ checked_index' = turn.index
       /\ line_status' = turn.status
       /\ result' = IF turn.status = "LINE_OPEN" THEN "NO_REQUEST" ELSE BadLine
  /\ pc' = IF result' = "NO_REQUEST" THEN "recv" ELSE "done"
  /\ UNCHANGED <<who, input, buf, start_line, check_state, body, text>>

-----------------------------------------------------------------------------
Finished == pc = "done" /\ UNCHANGED vars

\* The client has nothing more to say and keeps the connection.
Silent == pc = "recv" /\ read_index = Len(input) /\ UNCHANGED vars

ServerStep == Receive \/ ReceiveFull \/ TakeLine \/ NoLine

Next == ServerStep \/ ReceiveFails \/ Finished \/ Silent

Spec == Init /\ [][Next]_vars

\* What a client has sent arrives and the server goes on with it.
FairSpec == Spec /\ WF_vars(ServerStep)

-----------------------------------------------------------------------------
(* What a request is, told from the whole of what was received. *)

Pairs(s)  == {k \in 1 .. Len(s) - 1 : s[k] = "CR" /\ s[k + 1] = "LF"}
Strays(s) == {k \in 1 .. Len(s) : \/ s[k] = "CR" /\ k < Len(s) /\ s[k + 1] # "LF"
                                  \/ s[k] = "LF" /\ (k = 1 \/ s[k - 1] # "CR")}
First(S)  == Min(S \cup {BufferSize + 1})

\* The ends of the request line and of the head, and the first wrong line end.
Eol(s)    == First(Pairs(s))
Blank(s)  == First({k \in Pairs(s) : k - 2 \in Pairs(s)})
Stray(s)  == First(Strays(s))

RequestLineBad(s) == Eol(s) <= BufferSize /\ ~RequestLineOk(SubSeq(s, 1, Eol(s) - 1))

\* A line of the head ends in the wrong way, and what comes before is right.
LineEndBad(s) ==
  /\ Stray(s) <= BufferSize /\ Stray(s) < Blank(s)
  /\ Stray(s) < Eol(s) \/ ~RequestLineBad(s)

\* Where a request ends: after its head, or its body if it has one.
EndOf(s) == Blank(s) + 1 + IF HasLength(SubSeq(s, 1, Blank(s))) THEN BodyLength ELSE 0

Verdict(s) ==
  IF LineEndBad(s) \/ RequestLineBad(s) THEN "BAD_REQUEST"
  ELSE IF Blank(s) <= BufferSize /\ Len(s) >= EndOf(s) THEN "GET_REQUEST"
  ELSE "NO_REQUEST"

Received == SubSeq(input, 1, read_index)

-----------------------------------------------------------------------------
(* Properties. *)

\* The indices keep their order, and a CR never lies just behind
\* checked_index: the scanner waits on it.  So the branch of parse_line for an
\* LF whose CR was seen earlier, which httprequest.cpp gets wrong, is dead.
ScanOrder ==
  /\ start_line <= checked_index /\ checked_index <= read_index
  /\ checked_index > 0 => Byte(checked_index - 1) # "CR"

\* However the bytes were cut into reads, the answer is the one the request as
\* a whole deserves, and the parser waits for more, or gives up for a full
\* buffer, only while what it has received deserves none.  The exceptions are
\* those of process_read: after LINE_BAD it returns NO_REQUEST, where webserve.md
\* has BAD_REQUEST, and in a body its answer may be late (BodyFromItsStart).
ChunkingIrrelevant ==
  /\ result \in {"GET_REQUEST", "BAD_REQUEST"} => Verdict(Received) = result
  /\ pc = "recv" \/ result = "full" =>
       \/ Verdict(Received) = "NO_REQUEST"
       \/ who = "conn" /\ (LineEndBad(Received) \/ check_state = "CONTENT")

\* A request without a body that fits into the buffer is answered, or its
\* client is gone.  http_conn does not answer a wrong line end.
RequestAnswered ==
  ( /\ Verdict(input) # "NO_REQUEST" /\ Len(input) <= BufferSize /\ ~HasLength(input)
    /\ who = "conn" => ~LineEndBad(input) )
    ~> (pc = "done")

\* What process_read gives to parse_content is the body of the request.
BodyFromItsStart == text # -1 => text = body

=============================================================================
