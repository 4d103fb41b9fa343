---------------------------- MODULE HttpContext -----------------------------
(***************************************************************************)
(* utils/HttpContext.{h,cpp} and utils/Request.h: the request parser, as   *)
(* operators on the value of a context.  Module ParseLoop has the loop of  *)
(* parseRequest iteration by iteration and shows that ParseRequest is what *)
(* the loop computes.                                                      *)
(*                                                                         *)
(* Text is cut where the parser can tell a difference: a line is one token *)
(* followed by CRLF, an empty line is CRLF alone, a piece of a body is a   *)
(* token of its own.  A piece of a body in front of a line becomes part of *)
(* its first word.  Data can be divided between any two tokens; the length *)
(* of data is its number of tokens.                                        *)
(***************************************************************************)
EXTENDS Naturals, Sequences, FiniteSetsExt

CONSTANTS
  Url,       \* request lines (three words), named for what they ask for
  BodySize   \* the number that a "Content-Length" line gives

(* Lines with a colon; "agent" stands for those that have three words.     *)
Header == {"Content-Length", "keep-alive", "agent"}
CRLF == "CRLF"
Body == "body"
Token == Url \cup Header \cup {CRLF, Body}

(* Text is followed by the end of its line or by nothing yet.              *)
IsText(buf) ==
  \A i \in 1 .. Len(buf) - 1 : buf[i] \in Url \cup Header => buf[i + 1] = CRLF

ASSUME HttpContextAssumption ==
  /\ Url \cap (Header \cup {CRLF, Body, "unknown"}) = {}
  /\ BodySize \in Nat

ParseState == {"kExpectRequestLine", "kExpectHeaders", "kExpectBody", "kGotAll"}

(* The url is that of a GET request, or "unknown" with other methods.      *)
Context == [state_ : ParseState, url : Url \cup {"unknown"}, dict : SUBSET Header]

NewContext == [state_ |-> "kExpectRequestLine", url |-> "unknown", dict |-> {}]

(* reset: Request::swap takes the body and the headers, not the request    *)
(* line.                                                                   *)
ResetNothing(context) == context
ResetState(context) == [context EXCEPT !.state_ = "kExpectRequestLine"]
ResetContext(context) == [context EXCEPT !.state_ = "kExpectRequestLine", !.dict = {}]

-----------------------------------------------------------------------------

Ends(buf) == {i \in DOMAIN buf : buf[i] = CRLF}

(* What a call has done to the context and the buffer: it returned ok, or  *)
(* an assertion of Buffer failed ("aborts"), or the loop goes on for ever  *)
(* ("loops").                                                              *)
Result(how, ok, context, buf) == [how |-> how, ok |-> ok, context |-> context, buf |-> buf]

Consumed(buf, i) == SubSeq(buf, i + 1, Len(buf))

(* The line is good when it has three words.  With a piece of a body in    *)
(* front of it, or a header's name, its method is not GET.                 *)
HasThreeWords(line) == line # <<>> /\ line[Len(line)] \in Url \cup {"agent"}
UrlOf(line) == IF Len(line) = 1 /\ line[1] \in Url THEN line[1] ELSE "unknown"

(* kExpectBody: retrieveAsString asserts that there are so many bytes.     *)
(* The state is not left, and setBody assigns its parameter to itself.     *)
ParseBodyStrictly(ok, context, buf) ==
  IF Len(buf) <= BodySize
    THEN Result("aborts", ok, context, buf)
    ELSE Result("returns", ok, context, Consumed(buf, BodySize))

ParseBody(ok, context, buf) ==
  IF Len(buf) < BodySize
    THEN Result("aborts", ok, context, buf)
    ELSE Result("returns", ok, context, Consumed(buf, BodySize))

(* processHeaders of the lines that end at or before last.                 *)
Headers(buf, last) ==
  {h \in Header : \E i \in 1 .. last : buf[i] = h /\ (i = 1 \/ buf[i - 1] = CRLF)}

(* kExpectHeaders: all lines up to the first one without a colon.  When    *)
(* there is no such line yet, what has been read passes for the whole      *)
(* request.                                                                *)
ParseHeaders(context, buf) ==
  LET others == {i \in Ends(buf) : i = 1 \/ buf[i - 1] \notin Header}
      last == IF others # {} THEN Min(others)
              ELSE IF Ends(buf) # {} THEN Max(Ends(buf)) ELSE 0
      read == [context EXCEPT !.dict = @ \cup Headers(buf, last)]
      rest == Consumed(buf, last)
  IN  IF others # {} /\ "Content-Length" \in read.dict
        THEN ParseBody(TRUE, [read EXCEPT !.state_ = "kExpectBody"], rest)
        ELSE Result("returns", TRUE, [read EXCEPT !.state_ = "kGotAll"], rest)

(* kExpectRequestLine.                                                     *)
ParseRequestLine(context, buf) ==
  LET end == Min(Ends(buf))
      line == SubSeq(buf, 1, end - 1)
  IN  IF Ends(buf) = {} THEN Result("returns", FALSE, context, buf)
      ELSE IF HasThreeWords(line)
        THEN ParseHeaders([context EXCEPT !.state_ = "kExpectHeaders", !.url = UrlOf(line)],
                          Consumed(buf, end))
        ELSE Result("returns", FALSE, context, Consumed(buf, end))

ParseRequest(context, buf) ==
  CASE context.state_ = "kExpectRequestLine" -> ParseRequestLine(context, buf)
    [] context.state_ = "kExpectHeaders"     -> ParseHeaders(context, buf)
    [] context.state_ = "kExpectBody"        -> ParseBody(FALSE, context, buf)
    [] context.state_ = "kGotAll"            -> Result("loops", FALSE, context, buf)

=============================================================================
