----------------------------- MODULE ParseLoop ------------------------------
(***************************************************************************)
(* HttpContext::parseRequest as the loop it is: one operator per branch of *)
(* an iteration, on the value of the loop's variables.  The operator       *)
(* ParseRequest of module HttpContext says the same in closed form; it is  *)
(* what the proofs use.                                                    *)
(***************************************************************************)
EXTENDS HttpContext

Locals(context, buf) ==
  [context |-> context, buf |-> buf, ok |-> FALSE, hasMore |-> TRUE, aborted |-> FALSE]

(* findStr(CRLF), and the line in front of it.                             *)
Crlf(buf) == CHOOSE i \in Ends(buf) : \A j \in Ends(buf) : i <= j
Line(buf) == SubSeq(buf, 1, Crlf(buf) - 1)
AfterLine(buf) == Consumed(buf, Crlf(buf))

(* processHeaders finds a colon.                                           *)
HasColon(line) == line # <<>> /\ line[Len(line)] \in Header

NoLine(s) == [s EXCEPT !.hasMore = FALSE]

RequestLine(s) ==
  LET line == Line(s.buf)
      good == HasThreeWords(line)
  IN  [s EXCEPT !.ok = good,
                !.hasMore = good,
                !.context.state_ = IF good THEN "kExpectHeaders" ELSE @,
                !.context.url = IF good THEN UrlOf(line) ELSE @,
                !.buf = AfterLine(@)]

NoHeaderLineStays(s) == NoLine(s)
NoHeaderLine(s) == [NoLine(s) EXCEPT !.context.state_ = "kGotAll"]

HeaderLine(s) ==
  LET line == Line(s.buf)
  IN  [s EXCEPT !.context.dict = @ \cup (IF Len(line) = 1 THEN {line[1]} ELSE {}),
                !.buf = AfterLine(@)]

HeadersEnd(s) ==
  LET body == "Content-Length" \in s.context.dict
  IN  [s EXCEPT !.context.state_ = IF body THEN "kExpectBody" ELSE "kGotAll",
                !.hasMore = body,
                !.buf = AfterLine(@)]

BodyPart(s) ==
  IF Len(s.buf) < BodySize
    THEN [s EXCEPT !.aborted = TRUE]
    ELSE [s EXCEPT !.buf = Consumed(@, BodySize), !.hasMore = FALSE]

(* In kGotAll an iteration changes nothing.                                *)
Iteration(s) ==
  LET empty == Ends(s.buf) = {} IN
  CASE ~s.hasMore \/ s.aborted                  -> s
    [] OTHER ->
       CASE s.context.state_ = "kExpectRequestLine" ->
              IF empty THEN NoLine(s) ELSE RequestLine(s)
         [] s.context.state_ = "kExpectHeaders" ->
              IF empty THEN NoHeaderLine(s)
              ELSE IF HasColon(Line(s.buf)) THEN HeaderLine(s) ELSE HeadersEnd(s)
         [] s.context.state_ = "kExpectBody" -> BodyPart(s)
         [] s.context.state_ = "kGotAll" -> s

(* Each iteration takes a line or ends the loop, but for one that goes on  *)
(* from the headers to the body; when the loop has not ended after so many *)
(* it never does.                                                          *)
Loop(context, buf) ==
  LET after[n \in 0 .. Len(buf) + 2] ==
        IF n = 0 THEN Locals(context, buf) ELSE Iteration(after[n - 1])
      end == after[Len(buf) + 2]
  IN  IF end.aborted THEN Result("aborts", end.ok, end.context, end.buf)
      ELSE Result(IF end.hasMore THEN "loops" ELSE "returns", end.ok, end.context, end.buf)

=============================================================================
