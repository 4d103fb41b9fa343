--------------------------- MODULE HttpConnProofs ---------------------------
(***************************************************************************)
(* Theorems about one connection, for every set of requests, however they  *)
(* are cut and however many are sent at once: what http_go leaves in the   *)
(* parser, which request line each answer belongs to, that the loop of     *)
(* parseRequest computes what ParseRequest says, when an assertion fails,  *)
(* that module HylChan describes a read as it is, and that a client that   *)
(* waits gets each of its answers, with the file that belongs to it.       *)
(***************************************************************************)
EXTENDS HttpConn, FiniteSetTheorems, SequenceTheorems, WellFoundedInduction, TLAPS

(* Types, as far as the parser, the response and what was sent go.  At     *)
(* rest the parser is never in the middle of the headers.                  *)
TypeInv ==
  /\ state \in {"kStart", "kClose", "aborted", "spins"}
  /\ context \in Context
  /\ context.state_ # "kExpectHeaders"
  /\ fileSize_ \in {0, 1}
  /\ writeBuffer_ \in Seq(Response)
  /\ filer \in Url \cup {None}
  /\ wire \in Seq(Response \cup File)

IInv == TypeInv /\ NoInheritedHeaders /\ LoopsOnlyAfterEmptyRead

-----------------------------------------------------------------------------
(* The parser.                                                             *)

(* A call that returns leaves a context in one of three states: the one it *)
(* was called with when it still expects a request line, and when it has   *)
(* got all it says so.                                                     *)
LEMMA ParsedContext ==
  ASSUME NEW c \in Context, NEW buf, c.state_ # "kExpectHeaders",
         ParseRequest(c, buf).how = "returns"
  PROVE  LET parsed == ParseRequest(c, buf).context
         IN  /\ parsed \in Context
             /\ parsed.state_ # "kExpectHeaders"
             /\ parsed.state_ = "kExpectRequestLine" => parsed = c
             /\ parsed.state_ = "kGotAll" => ParseRequest(c, buf).ok
             /\ ParseRequest(c, buf).ok \in BOOLEAN
<1>1. ASSUME NEW d \in Context, NEW b, d.state_ = "kExpectHeaders"
      PROVE  LET read == ParseHeaders(d, b).context
             IN  /\ read \in Context
             /\ read.state_ \in {"kExpectBody", "kGotAll"}
             /\ ParseHeaders(d, b).ok = TRUE
  <2> DEFINE others == {i \in Ends(b) : i = 1 \/ b[i - 1] \notin Header}
             last == IF others # {} THEN Min(others)
                     ELSE IF Ends(b) # {} THEN Max(Ends(b)) ELSE 0
             read == [d EXCEPT !.dict = @ \cup Headers(b, last)]
             rest == Consumed(b, last)
  <2>1. read \in Context
    BY DEF Context, Headers
  <2>2. /\ [read EXCEPT !.state_ = "kExpectBody"] \in Context
        /\ [read EXCEPT !.state_ = "kGotAll"] \in Context
        /\ [read EXCEPT !.state_ = "kExpectBody"].state_ = "kExpectBody"
        /\ [read EXCEPT !.state_ = "kGotAll"].state_ = "kGotAll"
    <3> HIDE DEF read
    <3> QED BY <2>1 DEF Context, ParseState
  <2>3. /\ ParseHeaders(d, b).ok = TRUE
        /\ ParseHeaders(d, b).context \in
             {[read EXCEPT !.state_ = "kExpectBody"], [read EXCEPT !.state_ = "kGotAll"]}
    <3>1. ParseHeaders(d, b) =
            IF others # {} /\ "Content-Length" \in read.dict
              THEN ParseBody(TRUE, [read EXCEPT !.state_ = "kExpectBody"], rest)
              ELSE Result("returns", TRUE, [read EXCEPT !.state_ = "kGotAll"], rest)
      BY DEF ParseHeaders
    <3> HIDE DEF read, rest, others
    <3> QED BY <3>1 DEF ParseBody, Result
  <2> QED BY <2>2, <2>3
<1>2. CASE c.state_ = "kExpectRequestLine"
  <2> DEFINE end == Min(Ends(buf))
             line == SubSeq(buf, 1, end - 1)
             next == [c EXCEPT !.state_ = "kExpectHeaders", !.url = UrlOf(line)]
             rest == Consumed(buf, end)
  <2>1. next \in Context /\ next.state_ = "kExpectHeaders"
    <3>1. UrlOf(line) \in Url \cup {"unknown"}
      BY DEF UrlOf
    <3> HIDE DEF line
    <3> QED BY <3>1 DEF Context, ParseState
  <2>2. ParseRequest(c, buf) =
          IF Ends(buf) = {} THEN Result("returns", FALSE, c, buf)
          ELSE IF HasThreeWords(line) THEN ParseHeaders(next, rest)
          ELSE Result("returns", FALSE, c, rest)
    BY <1>2 DEF ParseRequest, ParseRequestLine
  <2> HIDE DEF next, rest, line, end
  <2>3. \/ ParseRequest(c, buf).context = c /\ ParseRequest(c, buf).ok = FALSE
        \/ ParseRequest(c, buf) = ParseHeaders(next, rest)
    BY <2>2 DEF Result
  <2> QED BY <1>1, <1>2, <2>1, <2>3
<1>3. CASE c.state_ = "kExpectBody"
  <2>1. ParseRequest(c, buf) = ParseBody(FALSE, c, buf)
    BY <1>3 DEF ParseRequest
  <2> QED BY <1>3, <2>1 DEF ParseBody, Result
<1>4. CASE c.state_ = "kGotAll"
  BY <1>4 DEF ParseRequest, Result
<1> QED BY <1>2, <1>3, <1>4 DEF Context, ParseState

(* reset makes the context that of a new connection, but for the url.      *)
LEMMA ResetIsFresh ==
  ASSUME NEW c \in Context
  PROVE  LET fresh == ResetContext(c)
         IN  fresh \in Context /\ fresh.state_ = "kExpectRequestLine" /\ fresh.dict = {}
BY DEF ResetContext, Context, ParseState

(* What is answered is a response, and leaves a size that is one.          *)
LEMMA AnswerIsResponse ==
  ASSUME NEW c \in Context, TypeInv
  PROVE  AnswerTo(c) \in Response /\ FileSize(c.url) \in {0, 1}
<1>1. c.url \in Url \cup {"unknown"}
  BY DEF Context
<1>2. FileSize(c.url) \in {0, 1}
  BY DEF FileSize, TypeInv
<1> QED BY <1>1, <1>2 DEF AnswerTo, Response

LEMMA ErrorPageIsResponse ==
  ErrorPage("400") \in Response /\ ErrorPage("503") \in Response
BY DEF ErrorPage, Response

LEMMA ErrorPagesAreResponses ==
  ASSUME NEW nothing \in BOOLEAN, NEW ok \in BOOLEAN
  PROVE  /\ ErrorPages(nothing, ok) \in Seq(Response)
         /\ nothing => /\ ErrorPages(nothing, ok)[1] = ErrorPage("503")
                       /\ Len(ErrorPages(nothing, ok)) > 0
<1> DEFINE first == IF nothing THEN <<ErrorPage("503")>> ELSE <<>>
           second == IF ok THEN <<>> ELSE <<ErrorPage("400")>>
           third == <<ErrorPage("400")>>
<1>1. first \in Seq(Response) /\ second \in Seq(Response) /\ third \in Seq(Response)
  BY ErrorPageIsResponse
<1>2. nothing => Len(first) = 1 /\ first[1] = ErrorPage("503")
  OBVIOUS
<1>3. ErrorPages(nothing, ok) = first \o second \o third
  BY DEF ErrorPages
<1> HIDE DEF first, second, third
<1> QED BY <1>1, <1>2, <1>3

-----------------------------------------------------------------------------
(* The steps.                                                              *)

LEMMA InitIInv == Init => IInv
<1> SUFFICES ASSUME Init PROVE IInv
  OBVIOUS
<1>1. NewContext \in Context
  BY DEF NewContext, Context, ParseState
<1>2. TypeInv
  BY <1>1 DEF Init, TypeInv, NewContext
<1> QED BY <1>2 DEF Init, IInv, NewContext, NoInheritedHeaders, LoopsOnlyAfterEmptyRead

(* What has been answered stays answered: with the buffer or on the wire.  *)
LEMMA AnswersStay ==
  ASSUME TypeInv,
         \A r \in ToSet(wire) \cup ToSet(writeBuffer_) :
           r \in ToSet(wire') \cup ToSet(writeBuffer_'),
         LoopsOnlyAfterEmptyRead, UNCHANGED context
  PROVE  LoopsOnlyAfterEmptyRead'
BY DEF LoopsOnlyAfterEmptyRead

LEMMA HttpGoIInv ==
  ASSUME IInv, HttpGo
  PROVE  IInv'
<1> DEFINE result == ParseRequest(context, readBuffer_ \o rx)
           parsed == result.context
<1>1. /\ result.how = "returns"
      /\ IF rx # <<>> /\ result.ok /\ parsed.state_ = "kGotAll"
           THEN OnRequest(parsed)
           ELSE ClientErrors(rx = <<>>, result.ok) /\ context' = parsed
      /\ UNCHANGED <<state, wire>>
  BY DEF HttpGo
<1>2. context \in Context /\ context.state_ # "kExpectHeaders"
  BY DEF IInv, TypeInv
<1>3. /\ parsed \in Context
      /\ parsed.state_ # "kExpectHeaders"
      /\ parsed.state_ = "kExpectRequestLine" => parsed = context
      /\ parsed.state_ = "kGotAll" => result.ok
      /\ result.ok \in BOOLEAN
  BY <1>1, <1>2, ParsedContext
<1> HIDE DEF result, parsed
<1>4. CASE OnRequest(parsed)
  <2>1. /\ context' \in Context
        /\ context'.state_ = "kExpectRequestLine"
        /\ context'.dict = {}
    BY <1>3, <1>4, ResetIsFresh DEF OnRequest
  <2>2. fileSize_' \in {0, 1} /\ writeBuffer_' \in Seq(Response)
    <3>1. AnswerTo(parsed) \in Response /\ FileSize(parsed.url) \in {0, 1}
      BY <1>3, AnswerIsResponse DEF IInv
    <3> QED BY <1>4, <3>1 DEF OnRequest, IInv, TypeInv
  <2>3. filer' \in Url \cup {None}
    <3>1. parsed.url \in Url \cup {"unknown"} /\ filer \in Url \cup {None}
      BY <1>3 DEF Context, IInv, TypeInv
    <3>2. Answer[parsed.url] \in {"file", "empty"} => parsed.url \in Url
      BY <3>1, HttpConnAssumption
    <3> QED BY <1>4, <3>1, <3>2 DEF OnRequest
  <2>4. TypeInv'
    BY <1>1, <2>1, <2>2, <2>3 DEF IInv, TypeInv
  <2> QED BY <2>1, <2>4 DEF IInv, NoInheritedHeaders, LoopsOnlyAfterEmptyRead
<1>5. CASE /\ ~(rx # <<>> /\ result.ok /\ parsed.state_ = "kGotAll")
           /\ ClientErrors(rx = <<>>, result.ok)
           /\ context' = parsed
  <2> DEFINE pages == ErrorPages(rx = <<>>, result.ok)
  <2>1. pages \in Seq(Response)
    BY <1>3, ErrorPagesAreResponses
  <2>2. writeBuffer_ \in Seq(Response)
    BY DEF IInv, TypeInv
  <2>3. writeBuffer_' = writeBuffer_ \o pages
    BY <1>5 DEF ClientErrors
  <2>4. TypeInv'
    <3>1. writeBuffer_' \in Seq(Response)
      BY <2>1, <2>2, <2>3
    <3>2. UNCHANGED <<fileSize_, filer>>
      BY <1>5 DEF ClientErrors, responseVars
    <3> HIDE DEF pages
    <3> QED BY <1>1, <1>3, <1>5, <3>1, <3>2 DEF IInv, TypeInv
  <2>5. NoInheritedHeaders'
    BY <1>3, <1>5 DEF IInv, NoInheritedHeaders
  <2>6. LoopsOnlyAfterEmptyRead'
    <3> SUFFICES ASSUME parsed.state_ = "kGotAll"
                 PROVE  \E r \in ToSet(wire') \cup ToSet(writeBuffer_') :
                          IsResponse(r) /\ r.status = "503"
      BY <1>5 DEF LoopsOnlyAfterEmptyRead
    <3>1. rx = <<>> /\ result.ok
      BY <1>3, <1>5
    <3>2. pages[1] = ErrorPage("503") /\ Len(pages) > 0
      BY <3>1, ErrorPagesAreResponses
    <3>3. /\ writeBuffer_'[Len(writeBuffer_) + 1] = ErrorPage("503")
          /\ Len(writeBuffer_) + 1 \in DOMAIN writeBuffer_'
      <4> HIDE DEF pages
      <4> QED BY <2>1, <2>2, <2>3, <3>2
    <3>4. IsResponse(ErrorPage("503")) /\ ErrorPage("503").status = "503"
      BY DEF IsResponse, ErrorPage
    <3> QED BY <3>3, <3>4 DEF ToSet
  <2> QED BY <2>4, <2>5, <2>6 DEF IInv
<1> QED BY <1>1, <1>4, <1>5

LEMMA SendPartIInv ==
  ASSUME IInv, NEW n \in 0 .. Len(writeBuffer_), SendPart(n)
  PROVE  IInv'
<1> DEFINE sent == SubSeq(writeBuffer_, 1, n)
           rest == SubSeq(writeBuffer_, n + 1, Len(writeBuffer_))
<1>1. /\ wire' = wire \o sent
      /\ writeBuffer_' = rest
      /\ UNCHANGED <<state, context, fileSize_, filer>>
  BY DEF SendPart, Consumed, responseVars
<1>2. writeBuffer_ \in Seq(Response) /\ wire \in Seq(Response \cup File)
  BY DEF IInv, TypeInv
<1>3. sent \in Seq(Response) /\ rest \in Seq(Response)
  BY <1>2
<1>4. TypeInv'
  BY <1>1, <1>2, <1>3 DEF IInv, TypeInv
<1>5. ASSUME NEW r \in ToSet(wire) \cup ToSet(writeBuffer_)
      PROVE  r \in ToSet(wire') \cup ToSet(writeBuffer_')
  <2>1. CASE r \in ToSet(wire)
    <3>1. PICK i \in 1 .. Len(wire) : r = wire[i]
      BY <1>2, <2>1 DEF ToSet
    <3>2. r = (wire \o sent)[i] /\ i \in DOMAIN (wire \o sent)
      BY <1>2, <1>3, <3>1
    <3> QED BY <1>1, <3>2 DEF ToSet
  <2>2. CASE r \in ToSet(writeBuffer_)
    <3>1. PICK i \in 1 .. Len(writeBuffer_) : r = writeBuffer_[i]
      BY <1>2, <2>2 DEF ToSet
    <3>2. CASE i <= n
      <4>1. r = (wire \o sent)[Len(wire) + i] /\ Len(wire) + i \in DOMAIN (wire \o sent)
        BY <1>2, <1>3, <3>1, <3>2
      <4> QED BY <1>1, <4>1 DEF ToSet
    <3>3. CASE i > n
      <4>1. r = rest[i - n] /\ i - n \in DOMAIN rest
        BY <1>2, <3>1, <3>3
      <4> QED BY <1>1, <4>1 DEF ToSet
    <3> QED BY <3>2, <3>3
  <2> QED BY <2>1, <2>2
<1>6. LoopsOnlyAfterEmptyRead'
  BY <1>1, <1>5, AnswersStay DEF IInv
<1> QED BY <1>1, <1>4, <1>6 DEF IInv, NoInheritedHeaders

LEMMA SendAllIInv ==
  ASSUME IInv, SendAll
  PROVE  IInv'
<1> DEFINE sent == wire \o writeBuffer_
           file == [file |-> filer]
<1>1. /\ writeBuffer_' = <<>>
      /\ state' \in {state, "kClose"}
      /\ UNCHANGED <<context, fileSize_, filer>>
  BY DEF SendAll, responseVars
<1>2. /\ wire' \in {sent, Append(sent, file)}
      /\ filer \in Url \/ wire' = sent
  <2>1. filer # None => filer \in Url
    BY DEF IInv, TypeInv
  <2> QED BY <2>1 DEF SendAll, SendBody
<1>3. writeBuffer_ \in Seq(Response) /\ wire \in Seq(Response \cup File)
  BY DEF IInv, TypeInv
<1>4. sent \in Seq(Response \cup File)
  BY <1>3
<1>5. filer \in Url => file \in File
  BY DEF File
<1>6. wire' \in Seq(Response \cup File)
  <2> HIDE DEF sent, file
  <2> QED BY <1>2, <1>4, <1>5
<1>7. TypeInv'
  BY <1>1, <1>6 DEF IInv, TypeInv
<1>8. ASSUME NEW r \in ToSet(wire) \cup ToSet(writeBuffer_)
      PROVE  r \in ToSet(wire') \cup ToSet(writeBuffer_')
  <2>1. PICK i \in DOMAIN sent : r = sent[i]
    <3>1. CASE r \in ToSet(wire)
      BY <1>3, <3>1 DEF ToSet
    <3>2. CASE r \in ToSet(writeBuffer_)
      <4>1. PICK j \in 1 .. Len(writeBuffer_) : r = writeBuffer_[j]
        BY <1>3, <3>2 DEF ToSet
      <4>2. r = sent[Len(wire) + j] /\ Len(wire) + j \in DOMAIN sent
        BY <1>3, <4>1
      <4> QED BY <4>2
    <3> QED BY <3>1, <3>2
  <2> HIDE DEF sent, file
  <2>2. r = wire'[i] /\ i \in DOMAIN wire'
    BY <1>2, <1>4, <2>1
  <2> QED BY <2>2 DEF ToSet
<1>9. LoopsOnlyAfterEmptyRead'
  BY <1>1, <1>8, AnswersStay DEF IInv
<1> QED BY <1>1, <1>7, <1>9 DEF IInv, NoInheritedHeaders

LEMMA NextIInv ==
  ASSUME IInv, [Next]_vars
  PROVE  IInv'
<1> DEFINE Kept == UNCHANGED <<state, context, fileSize_, writeBuffer_, filer, wire>>
<1>1. CASE Kept
  BY <1>1 DEF IInv, TypeInv, NoInheritedHeaders, LoopsOnlyAfterEmptyRead
<1>2. ASSUME NEW r, Ask(r) PROVE Kept
  BY <1>2 DEF Ask, responseVars
<1>3. ASSUME NEW n, Arrive(n) PROVE Kept
  BY <1>3 DEF Arrive, responseVars
<1>4. CASE Enqueue \/ EnqueueRejected
  BY <1>1, <1>4 DEF Enqueue, EnqueueRejected, Report, responseVars
<1>5. CASE HttpGo
  BY <1>5, HttpGoIInv
<1>6. CASE HttpGoFails
  BY <1>6 DEF HttpGoFails, responseVars, IInv, TypeInv, NoInheritedHeaders,
              LoopsOnlyAfterEmptyRead
<1>7. ASSUME NEW n \in 0 .. Len(writeBuffer_), SendPart(n) PROVE IInv'
  BY <1>7, SendPartIInv
<1>8. CASE SendAll
  BY <1>8, SendAllIInv
<1>9. CASE UNCHANGED vars
  BY <1>1, <1>9 DEF vars, responseVars
<1> HIDE DEF Kept
<1> QED BY <1>1, <1>2, <1>3, <1>4, <1>5, <1>6, <1>7, <1>8, <1>9 DEF Next, Client, Server

-----------------------------------------------------------------------------

(* However requests are cut and whatever was answered before, the parser   *)
(* expects a request line only with the headers of earlier requests gone   *)
(* (HttpConn.cpp:135, HttpContext.h:42-45).                                *)
THEOREM HeadersAreNotInherited == Spec => []NoInheritedHeaders
<1>1. IInv /\ [Next]_vars => IInv'
  BY NextIInv
<1>2. IInv => NoInheritedHeaders
  BY DEF IInv
<1> QED BY InitIInv, <1>1, <1>2, PTL DEF Spec

(* Only a read that finds nothing, and is answered with a 503 page, leaves *)
(* the parser where its next call does not return (HttpConn.cpp:117-137,   *)
(* HttpContext.cpp:55-57).                                                 *)
THEOREM OnlyEmptyReadsLoop == Spec => []LoopsOnlyAfterEmptyRead
<1>1. IInv /\ [Next]_vars => IInv'
  BY NextIInv
<1>2. IInv => LoopsOnlyAfterEmptyRead
  BY DEF IInv
<1> QED BY InitIInv, <1>1, <1>2, PTL DEF Spec

-----------------------------------------------------------------------------
(* Numbers and sequences.                                                  *)

LEMMA LeastNumber ==
  ASSUME NEW S, S \subseteq Nat, S # {}
  PROVE  \E n \in S : \A m \in S : n <= m
<1> DEFINE R == OpToRel(<, Nat)
<1>1. IsWellFoundedOn(R, Nat)
  BY NatLessThanWellFounded
<1>2. \A m, n \in Nat : m < n => <<m, n>> \in R
  BY DEF OpToRel
<1> HIDE DEF R
<1>3. PICK n \in S : \A m \in S : <<m, n>> \notin R
  BY <1>1, WFMin
<1>4. \A m \in S : m \in Nat /\ ~ (m < n)
  BY <1>2, <1>3
<1>5. n \in Nat /\ \A m \in S : n <= m
  BY <1>4
<1> QED BY <1>5

LEMMA MinIsLeast ==
  ASSUME NEW S, S \subseteq Nat, S # {}
  PROVE  Min(S) \in S /\ \A m \in S : Min(S) <= m
<1>1. \E n \in S : \A m \in S : n <= m
  BY LeastNumber
<1> QED BY <1>1 DEF Min

LEMMA MaxIsGreatest ==
  ASSUME NEW b \in Nat, NEW S, S \subseteq 0 .. b, S # {}
  PROVE  Max(S) \in S /\ \A m \in S : m <= Max(S)
<1> DEFINE above == {n \in 0 .. b : \A m \in S : m <= n}
<1>1. b \in above /\ above \subseteq Nat
  OBVIOUS
<1>2. PICK n \in above : \A m \in above : n <= m
  <2> HIDE DEF above
  <2> QED BY <1>1, LeastNumber
<1>3. n \in 0 .. b /\ \A m \in S : m <= n
  BY <1>2
<1>4. n \in S
  <2> SUFFICES ASSUME n \notin S PROVE FALSE
    OBVIOUS
  <2>1. \A m \in S : m \in 0 .. b /\ m < n
    BY <1>3
  <2>2. n - 1 \in 0 .. b /\ \A m \in S : m <= n - 1
    <3>1. PICK m \in S : TRUE
      OBVIOUS
    <3>2. m \in 0 .. b /\ m < n /\ n \in 0 .. b
      BY <1>3, <2>1
    <3>3. n - 1 \in 0 .. b
      BY <3>2
    <3>4. \A k \in S : k <= n - 1
      BY <1>3, <2>1
    <3> QED BY <3>3, <3>4
  <2>3. n - 1 \in above
    BY <2>2
  <2> HIDE DEF above
  <2> QED BY <1>2, <1>3, <2>3
<1>5. \E x \in S : \A y \in S : x >= y
  BY <1>3, <1>4
<1>6. Max(S) \in S /\ \A y \in S : Max(S) >= y
  BY <1>5 DEF Max
<1> QED BY <1>6

(* What is left of a sequence.                                             *)
LEMMA ConsumedIs ==
  ASSUME NEW S, NEW s \in Seq(S), NEW m \in 0 .. Len(s)
  PROVE  /\ Consumed(s, m) \in Seq(S)
         /\ Len(Consumed(s, m)) = Len(s) - m
         /\ \A i \in 1 .. Len(s) - m : Consumed(s, m)[i] = s[m + i]
BY DEF Consumed

LEMMA ConsumedTwice ==
  ASSUME NEW S, NEW s \in Seq(S), NEW m \in 0 .. Len(s), NEW n \in 0 .. Len(s) - m
  PROVE  Consumed(Consumed(s, m), n) = Consumed(s, m + n)
<1> DEFINE t == Consumed(s, m)
           u == Consumed(t, n)
           v == Consumed(s, m + n)
<1>1. t \in Seq(S) /\ Len(t) = Len(s) - m /\ \A i \in 1 .. Len(s) - m : t[i] = s[m + i]
  BY ConsumedIs
<1>2. m + n \in 0 .. Len(s) /\ Len(s) - (m + n) = Len(s) - m - n
  OBVIOUS
<1>3. v \in Seq(S) /\ Len(v) = Len(s) - (m + n)
      /\ \A i \in 1 .. Len(s) - (m + n) : v[i] = s[m + n + i]
  BY <1>2, ConsumedIs
<1> HIDE DEF t, v
<1>4. u \in Seq(S) /\ Len(u) = Len(t) - n /\ \A i \in 1 .. Len(t) - n : u[i] = t[n + i]
  <2>1. t \in Seq(S) /\ n \in 0 .. Len(t)
    BY <1>1
  <2>2. \A x \in Seq(S) : \A k \in 0 .. Len(x) :
           /\ Consumed(x, k) \in Seq(S)
           /\ Len(Consumed(x, k)) = Len(x) - k
           /\ \A i \in 1 .. Len(x) - k : Consumed(x, k)[i] = x[k + i]
    BY ONLY ConsumedIs
  <2> QED BY ONLY <2>1, <2>2
<1> HIDE DEF u
<1>5. ASSUME NEW i \in 1 .. Len(u) PROVE u[i] = v[i]
  <2>1. i \in 1 .. Len(s) - (m + n) /\ n + i \in 1 .. Len(s) - m /\ m + (n + i) = m + n + i
    BY <1>1, <1>2, <1>4
  <2>2. u[i] = s[m + (n + i)]
    BY <1>1, <1>4, <2>1
  <2> QED BY <1>3, <2>1, <2>2
<1>6. Len(u) = Len(v)
  BY <1>1, <1>2, <1>3, <1>4
<1>7. u = v
  BY <1>3, <1>4, <1>5, <1>6, SeqEqual
<1> QED BY <1>7 DEF u, v, t

LEMMA ConcatIs ==
  ASSUME NEW S, NEW s \in Seq(S), NEW t \in Seq(S)
  PROVE  /\ s \o t \in Seq(S)
         /\ Len(s \o t) = Len(s) + Len(t)
         /\ \A i \in 1 .. Len(s) : (s \o t)[i] = s[i]
         /\ \A i \in 1 .. Len(t) : (s \o t)[Len(s) + i] = t[i]
OBVIOUS

LEMMA ConsumedOfConcat ==
  ASSUME NEW S, NEW s \in Seq(S), NEW t \in Seq(S), NEW m \in 0 .. Len(s)
  PROVE  Consumed(s \o t, m) = Consumed(s, m) \o t
<1> DEFINE st == s \o t
           u == Consumed(st, m)
           r == Consumed(s, m)
           v == r \o t
<1>1. st \in Seq(S) /\ Len(st) = Len(s) + Len(t)
      /\ (\A i \in 1 .. Len(s) : st[i] = s[i])
      /\ (\A i \in 1 .. Len(t) : st[Len(s) + i] = t[i])
  BY ConcatIs
<1>2. r \in Seq(S) /\ Len(r) = Len(s) - m /\ \A i \in 1 .. Len(s) - m : r[i] = s[m + i]
  BY ConsumedIs
<1> HIDE DEF st, r
<1>3. m \in 0 .. Len(st)
  BY <1>1
<1>4. u \in Seq(S) /\ Len(u) = Len(st) - m /\ \A i \in 1 .. Len(st) - m : u[i] = st[m + i]
  BY <1>1, <1>3, ConsumedIs
<1>5. v \in Seq(S) /\ Len(v) = Len(r) + Len(t)
      /\ (\A i \in 1 .. Len(r) : v[i] = r[i])
      /\ (\A i \in 1 .. Len(t) : v[Len(r) + i] = t[i])
  <2>1. r \in Seq(S)
    BY <1>2
  <2>2. /\ r \o t \in Seq(S)
        /\ Len(r \o t) = Len(r) + Len(t)
        /\ \A i \in 1 .. Len(r) : (r \o t)[i] = r[i]
        /\ \A i \in 1 .. Len(t) : (r \o t)[Len(r) + i] = t[i]
    BY ONLY <2>1, t \in Seq(S)
  <2> QED BY <2>2
<1> HIDE DEF u, v
<1>6. Len(u) = Len(v)
  BY <1>1, <1>2, <1>4, <1>5
<1>7. ASSUME NEW i \in 1 .. Len(u) PROVE u[i] = v[i]
  <2>1. u[i] = st[m + i]
    BY <1>4
  <2>2. CASE i <= Len(r)
    <3>1. m + i \in 1 .. Len(s) /\ i \in 1 .. Len(r)
      BY <1>2, <2>2
    <3> QED BY <1>1, <1>2, <1>5, <2>1, <3>1
  <2>3. CASE i > Len(r)
    <3>1. /\ i - Len(r) \in 1 .. Len(t)
          /\ Len(r) + (i - Len(r)) = i
          /\ Len(s) + (i - Len(r)) = m + i
      BY <1>1, <1>2, <1>4, <2>3
    <3>2. st[Len(s) + (i - Len(r))] = t[i - Len(r)]
      BY <1>1, <3>1
    <3>3. v[Len(r) + (i - Len(r))] = t[i - Len(r)]
      BY <1>5, <3>1
    <3> QED BY <2>1, <3>1, <3>2, <3>3
  <2> QED BY <1>2, <2>2, <2>3
<1>8. u = v
  BY <1>4, <1>5, <1>6, <1>7, SeqEqual
<1> QED BY <1>8 DEF u, v, st, r

-----------------------------------------------------------------------------
(* What a call of the parser takes from the buffer.                        *)

(* The lines of b without a colon, and the last token that processHeaders  *)
(* takes.                                                                  *)
Others(b) == {i \in Ends(b) : i = 1 \/ b[i - 1] \notin Header}
LastRead(b) ==
  IF Others(b) # {} THEN Min(Others(b)) ELSE IF Ends(b) # {} THEN Max(Ends(b)) ELSE 0

LEMMA EndsAre ==
  ASSUME NEW b \in Seq(Token)
  PROVE  Ends(b) \subseteq 1 .. Len(b) /\ Others(b) \subseteq Ends(b)
BY DEF Ends, Others

LEMMA LastReadIs ==
  ASSUME NEW b \in Seq(Token)
  PROVE  /\ LastRead(b) \in 0 .. Len(b)
         /\ Others(b) # {} => /\ LastRead(b) \in Others(b)
                              /\ \A i \in Others(b) : LastRead(b) <= i
         /\ Others(b) = {} => \A i \in Ends(b) : i <= LastRead(b)
<1>1. /\ Ends(b) \subseteq 1 .. Len(b) /\ Others(b) \subseteq Ends(b)
      /\ Len(b) \in Nat
  BY EndsAre
<1>2. CASE Others(b) # {}
  <2>1. Others(b) \subseteq Nat
    BY <1>1
  <2>2. Min(Others(b)) \in Others(b) /\ \A i \in Others(b) : Min(Others(b)) <= i
    BY <1>2, <2>1, MinIsLeast
  <2>3. LastRead(b) = Min(Others(b))
    BY <1>2 DEF LastRead
  <2> QED BY <1>1, <1>2, <2>2, <2>3
<1>3. CASE Others(b) = {} /\ Ends(b) # {}
  <2>1. Ends(b) \subseteq 0 .. Len(b)
    BY <1>1
  <2>2. Max(Ends(b)) \in Ends(b) /\ \A i \in Ends(b) : i <= Max(Ends(b))
    BY <1>1, <1>3, <2>1, MaxIsGreatest
  <2>3. LastRead(b) = Max(Ends(b))
    BY <1>3 DEF LastRead
  <2> QED BY <1>1, <1>3, <2>2, <2>3
<1>4. CASE Others(b) = {} /\ Ends(b) = {}
  BY <1>1, <1>4 DEF LastRead
<1> QED BY <1>2, <1>3, <1>4

LEMMA ParseHeadersIs ==
  ASSUME NEW d, NEW b
  PROVE  LET read == [d EXCEPT !.dict = @ \cup Headers(b, LastRead(b))]
             rest == Consumed(b, LastRead(b))
         IN  ParseHeaders(d, b) =
               IF Others(b) # {} /\ "Content-Length" \in read.dict
                 THEN ParseBody(TRUE, [read EXCEPT !.state_ = "kExpectBody"], rest)
                 ELSE Result("returns", TRUE, [read EXCEPT !.state_ = "kGotAll"], rest)
BY DEF ParseHeaders, Others, LastRead

LEMMA BodyTakes ==
  ASSUME NEW ok, NEW c, NEW b \in Seq(Token)
  PROVE  \E m \in 0 .. Len(b) : ParseBody(ok, c, b).buf = Consumed(b, m)
<1>1. CASE Len(b) < BodySize
  <2>1. ParseBody(ok, c, b).buf = b
    BY <1>1 DEF ParseBody, Result
  <2>2. Consumed(b, 0) = b
    BY DEF Consumed
  <2> QED BY <2>1, <2>2
<1>2. CASE ~(Len(b) < BodySize)
  <2>1. ParseBody(ok, c, b).buf = Consumed(b, BodySize)
    BY <1>2 DEF ParseBody, Result
  <2>2. BodySize \in 0 .. Len(b)
    BY <1>2, HttpContextAssumption
  <2> QED BY <2>1, <2>2
<1> QED BY <1>1, <1>2

LEMMA HeadersTake ==
  ASSUME NEW d, NEW b \in Seq(Token)
  PROVE  \E m \in 0 .. Len(b) : ParseHeaders(d, b).buf = Consumed(b, m)
<1> DEFINE read == [d EXCEPT !.dict = @ \cup Headers(b, LastRead(b))]
           next == [read EXCEPT !.state_ = "kExpectBody"]
           rest == Consumed(b, LastRead(b))
<1>1. LastRead(b) \in 0 .. Len(b)
  BY LastReadIs
<1>2. rest \in Seq(Token) /\ Len(rest) = Len(b) - LastRead(b)
  BY <1>1, ConsumedIs
<1>3. \/ ParseHeaders(d, b).buf = rest
      \/ ParseHeaders(d, b).buf = ParseBody(TRUE, next, rest).buf
  BY ParseHeadersIs DEF Result
<1> HIDE DEF rest, next
<1>4. CASE ParseHeaders(d, b).buf = ParseBody(TRUE, next, rest).buf
  <2>1. PICK m \in 0 .. Len(rest) : ParseHeaders(d, b).buf = Consumed(rest, m)
    BY <1>2, <1>4, BodyTakes
  <2>2. m \in 0 .. Len(b) - LastRead(b) /\ LastRead(b) + m \in 0 .. Len(b)
    BY <1>1, <1>2
  <2>3. Consumed(rest, m) = Consumed(b, LastRead(b) + m)
    BY <1>1, <2>2, ConsumedTwice DEF rest
  <2> QED BY <2>1, <2>2, <2>3
<1> QED BY <1>1, <1>3, <1>4 DEF rest

(* A call takes a part of the buffer from its front.  It is only ok when   *)
(* it began with a request line; when the url is one that is known, that   *)
(* line is the first token.                                                *)
LEMMA ParseTakes ==
  ASSUME NEW c \in Context, c.state_ # "kExpectHeaders", NEW buf \in Seq(Token)
  PROVE  LET result == ParseRequest(c, buf)
         IN  \E m \in 0 .. Len(buf) :
               /\ result.buf = Consumed(buf, m)
               /\ result.ok =>
                    /\ c.state_ = "kExpectRequestLine"
                    /\ result.context.url \in Url => m >= 1 /\ buf[1] = result.context.url
<1>1. CASE c.state_ = "kExpectRequestLine"
  <2> DEFINE end == Min(Ends(buf))
             line == SubSeq(buf, 1, end - 1)
             next == [c EXCEPT !.state_ = "kExpectHeaders", !.url = UrlOf(line)]
             rest == Consumed(buf, end)
  <2>1. ParseRequest(c, buf) =
          IF Ends(buf) = {} THEN Result("returns", FALSE, c, buf)
          ELSE IF HasThreeWords(line) THEN ParseHeaders(next, rest)
          ELSE Result("returns", FALSE, c, rest)
    BY <1>1 DEF ParseRequest, ParseRequestLine
  <2>2. CASE Ends(buf) = {}
    <3>1. ParseRequest(c, buf).buf = buf /\ ParseRequest(c, buf).ok = FALSE
      BY <2>1, <2>2 DEF Result
    <3>2. Consumed(buf, 0) = buf
      BY DEF Consumed
    <3> QED BY <3>1, <3>2
  <2>3. CASE Ends(buf) # {}
    <3>1. end \in Ends(buf) /\ end \in 1 .. Len(buf)
      <4>1. Ends(buf) \subseteq Nat /\ Ends(buf) \subseteq 1 .. Len(buf)
        BY EndsAre
      <4> QED BY <2>3, <4>1, MinIsLeast
    <3>2. rest \in Seq(Token) /\ Len(rest) = Len(buf) - end
      <4>1. end \in 0 .. Len(buf)
        BY <3>1
      <4> HIDE DEF end
      <4> QED BY <4>1, ConsumedIs
    <3>3. CASE HasThreeWords(line)
      <4>1. ParseRequest(c, buf) = ParseHeaders(next, rest)
        BY <2>1, <2>3, <3>3
      <4>2. PICK k \in 0 .. Len(rest) : ParseHeaders(next, rest).buf = Consumed(rest, k)
        <5> HIDE DEF rest, next
        <5> QED BY <3>2, HeadersTake
      <4>3. end + k \in 0 .. Len(buf) /\ end + k >= 1 /\ k \in 0 .. Len(buf) - end
        <5> HIDE DEF end, rest
        <5> QED BY <3>1, <3>2
      <4>4. Consumed(rest, k) = Consumed(buf, end + k)
        <5>1. end \in 0 .. Len(buf)
          BY <3>1
        <5> HIDE DEF end
        <5> QED BY <4>3, <5>1, ConsumedTwice
      <4>5. ParseHeaders(next, rest).context.url = next.url
        <5>1. next \in Context
          <6>1. UrlOf(line) \in Url \cup {"unknown"}
            BY DEF UrlOf
          <6> HIDE DEF line
          <6> QED BY <6>1 DEF Context, ParseState
        <5> HIDE DEF next, rest
        <5> DEFINE read == [next EXCEPT !.dict = @ \cup Headers(rest, LastRead(rest))]
        <5>2. read \in Context /\ read.url = next.url
          BY <5>1 DEF Context, Headers
        <5>3. ParseHeaders(next, rest).context \in
                {[read EXCEPT !.state_ = "kExpectBody"], [read EXCEPT !.state_ = "kGotAll"]}
          BY ParseHeadersIs DEF ParseBody, Result
        <5> HIDE DEF read
        <5>4. /\ [read EXCEPT !.state_ = "kExpectBody"].url = read.url
              /\ [read EXCEPT !.state_ = "kGotAll"].url = read.url
          BY <5>2 DEF Context
        <5> QED BY <5>2, <5>3, <5>4
      <4>6. next.url \in Url => buf[1] = next.url
        <5>1. next.url = UrlOf(line)
          BY DEF Context
        <5>2. UrlOf(line) \in Url => Len(line) = 1 /\ UrlOf(line) = line[1]
          BY HttpContextAssumption DEF UrlOf
        <5>3. Len(line) = 1 => line[1] = buf[1]
          <6> HIDE DEF end
          <6> QED BY <3>1
        <5> HIDE DEF next, line
        <5> QED BY <5>1, <5>2, <5>3
      <4> HIDE DEF end, next, rest
      <4> QED BY <1>1, <4>1, <4>2, <4>3, <4>4, <4>5, <4>6
    <3>4. CASE ~HasThreeWords(line)
      <4>1. ParseRequest(c, buf).buf = rest /\ ParseRequest(c, buf).ok = FALSE
        BY <2>1, <2>3, <3>4 DEF Result
      <4>2. end \in 0 .. Len(buf)
        BY <3>1
      <4> HIDE DEF end
      <4> QED BY <4>1, <4>2
    <3> QED BY <3>3, <3>4
  <2> QED BY <2>2, <2>3
<1>2. CASE c.state_ = "kExpectBody"
  <2>1. ParseRequest(c, buf) = ParseBody(FALSE, c, buf)
    BY <1>2 DEF ParseRequest
  <2>2. ParseBody(FALSE, c, buf).ok = FALSE
    BY DEF ParseBody, Result
  <2> QED BY <2>1, <2>2, BodyTakes
<1>3. CASE c.state_ = "kGotAll"
  <2>1. ParseRequest(c, buf).buf = buf /\ ParseRequest(c, buf).ok = FALSE
    BY <1>3 DEF ParseRequest, Result
  <2>2. Consumed(buf, 0) = buf
    BY DEF Consumed
  <2> QED BY <2>1, <2>2
<1> QED BY <1>1, <1>2, <1>3 DEF Context, ParseState

-----------------------------------------------------------------------------
(* Types of everything else.                                               *)

TypeRest ==
  /\ asked \in Seq(Request)
  /\ unsent \in Seq(Token)
  /\ cuts \in 0 .. MaxCuts
  /\ patient \in BOOLEAN
  /\ rx \in Seq(Token)
  /\ interest \in {"first", "IN", "OUT", "none"}
  /\ edge \in BOOLEAN
  /\ tasks \in Seq({"read", "write"})
  /\ dropped \in BOOLEAN
  /\ readBuffer_ \in Seq(Token)
  /\ closing \in BOOLEAN

LEMMA HttpGoTakes ==
  ASSUME IInv, TypeRest, HttpGo
  PROVE  LET data == readBuffer_ \o rx
             parsed == ParseRequest(context, data).context
         IN  \E m \in 0 .. Len(data) :
               /\ readBuffer_' = Consumed(data, m)
               /\ \/ /\ OnRequest(parsed)
                     /\ parsed \in Context
                     /\ parsed.url \in Url => m >= 1 /\ data[1] = parsed.url
                  \/ \E nothing, ok \in BOOLEAN : ClientErrors(nothing, ok)
<1> DEFINE data == readBuffer_ \o rx
           result == ParseRequest(context, data)
           parsed == result.context
<1>1. /\ result.how = "returns"
      /\ readBuffer_' = result.buf
      /\ IF rx # <<>> /\ result.ok /\ parsed.state_ = "kGotAll"
           THEN OnRequest(parsed)
           ELSE ClientErrors(rx = <<>>, result.ok) /\ context' = parsed
  BY DEF HttpGo, Left
<1>2. context \in Context /\ context.state_ # "kExpectHeaders"
  BY DEF IInv, TypeInv
<1>3. data \in Seq(Token)
  BY DEF TypeRest
<1> HIDE DEF data
<1>4. result.ok \in BOOLEAN /\ parsed \in Context
  BY <1>1, <1>2, ParsedContext
<1>5. PICK m \in 0 .. Len(data) :
        /\ result.buf = Consumed(data, m)
        /\ result.ok =>
             /\ context.state_ = "kExpectRequestLine"
             /\ parsed.url \in Url => m >= 1 /\ data[1] = parsed.url
  BY <1>2, <1>3, ParseTakes
<1> HIDE DEF result, parsed
<1>6. \/ result.ok /\ OnRequest(parsed)
      \/ \E nothing, ok \in BOOLEAN : ClientErrors(nothing, ok)
  BY <1>1, <1>4
<1> QED BY <1>1, <1>4, <1>5, <1>6 DEF parsed, result, data

LEMMA TypeRestIsInvariant ==
  ASSUME IInv, TypeRest, [Next]_vars
  PROVE  TypeRest'
<1>0. tasks # <<>> => Tail(tasks) \in Seq({"read", "write"})
  BY DEF TypeRest
<1>1. ASSUME NEW r \in Request, Ask(r) PROVE TypeRest'
  <2>1. /\ asked' = Append(asked, r)
        /\ unsent' = r
        /\ patient' = (patient /\ Cardinality(Responses(wire)) >= Len(asked))
        /\ UNCHANGED <<cuts, rx, interest, edge, tasks, dropped, readBuffer_, closing>>
    BY <1>1 DEF Ask, taskVars, responseVars
  <2>2. r \in Seq(Token)
    BY HttpConnAssumption
  <2>3. patient' \in BOOLEAN
    BY <2>1
  <2> QED BY <2>1, <2>2, <2>3 DEF TypeRest
<1>2. ASSUME NEW n \in 1 .. Len(unsent), Arrive(n) PROVE TypeRest'
  <2>1. /\ cuts' \in {cuts, cuts + 1}
        /\ cuts' = cuts \/ cuts < MaxCuts
        /\ rx' = rx \o SubSeq(unsent, 1, n)
        /\ unsent' = Consumed(unsent, n)
        /\ edge' = (interest = "first")
        /\ UNCHANGED <<asked, patient, interest, tasks, dropped, readBuffer_, closing>>
    BY <1>2 DEF Arrive, responseVars
  <2>2. unsent' \in Seq(Token) /\ SubSeq(unsent, 1, n) \in Seq(Token)
    BY <2>1 DEF TypeRest, Consumed
  <2>3. rx' \in Seq(Token)
    BY <2>1, <2>2 DEF TypeRest
  <2>4. cuts' \in 0 .. MaxCuts
    BY <2>1, HttpConnAssumption DEF TypeRest
  <2> QED BY <2>1, <2>2, <2>3, <2>4 DEF TypeRest
<1>3. CASE Enqueue \/ EnqueueRejected
  <2>1. /\ tasks' = tasks \/ \E task \in {"read", "write"} : tasks' = Append(tasks, task)
        /\ interest' \in {"first", "none"}
        /\ edge' = FALSE
        /\ dropped' \in {dropped, TRUE}
        /\ UNCHANGED <<asked, unsent, cuts, patient, rx, readBuffer_, closing>>
    BY <1>3 DEF Enqueue, EnqueueRejected, Report, clientVars, responseVars
  <2>2. tasks' \in Seq({"read", "write"})
    <3>1. tasks \in Seq({"read", "write"})
      BY DEF TypeRest
    <3>2. \A task \in {"read", "write"} : Append(tasks, task) \in Seq({"read", "write"})
      BY <3>1
    <3> QED BY ONLY <2>1, <3>1, <3>2
  <2>3. edge' \in BOOLEAN /\ dropped' \in BOOLEAN
    BY <2>1 DEF TypeRest
  <2> QED BY <2>1, <2>2, <2>3 DEF TypeRest
<1>4. CASE HttpGo
  <2>1. /\ rx' = <<>>
        /\ tasks' = Tail(tasks)
        /\ tasks # <<>>
        /\ interest' = "OUT"
        /\ edge' = FALSE /\ dropped' = FALSE
        /\ UNCHANGED <<asked, unsent, cuts, patient>>
    BY <1>4 DEF HttpGo, Runs, ModifyListen, clientVars
  <2>2. readBuffer_' \in Seq(Token)
    <3>1. readBuffer_ \o rx \in Seq(Token)
      BY DEF TypeRest
    <3> QED BY <1>4, <3>1, HttpGoTakes, ConsumedIs
  <2>3. closing' \in BOOLEAN
    BY <1>4, HttpGoTakes DEF OnRequest, ClientErrors, responseVars, TypeRest
  <2>4. rx' \in Seq(Token)
    BY <2>1
  <2>5. edge' \in BOOLEAN
    BY <2>1
  <2>6. tasks' \in Seq({"read", "write"})
    BY <1>0, <2>1
  <2> QED BY <2>1, <2>2, <2>3, <2>4, <2>5, <2>6 DEF TypeRest
<1>5. CASE HttpGoFails
  BY <1>5 DEF HttpGoFails, clientVars, taskVars, responseVars, TypeRest
<1>6. ASSUME NEW n, SendPart(n) PROVE TypeRest'
  <2>1. /\ tasks' = Tail(tasks)
        /\ tasks # <<>>
        /\ interest' = "OUT"
        /\ edge' = FALSE /\ dropped' = FALSE
        /\ UNCHANGED <<asked, unsent, cuts, patient, rx, readBuffer_, closing>>
    BY <1>6 DEF SendPart, Runs, ModifyListen, clientVars, responseVars
  <2> QED BY <1>0, <2>1 DEF TypeRest
<1>7. CASE SendAll
  <2>1. /\ tasks' = Tail(tasks)
        /\ tasks # <<>>
        /\ interest' \in {interest, NextEvents}
        /\ edge' \in {edge, FALSE} /\ dropped' \in {dropped, FALSE}
        /\ UNCHANGED <<asked, unsent, cuts, patient, rx, readBuffer_, closing>>
    BY <1>7 DEF SendAll, Runs, ModifyListen, clientVars, responseVars
  <2>2. NextEvents \in {"IN", "OUT", "none"}
    BY DEF NextEvents
  <2> QED BY <1>0, <2>1, <2>2 DEF TypeRest
<1>8. CASE UNCHANGED vars
  BY <1>8 DEF vars, clientVars, taskVars, responseVars, TypeRest
<1> QED BY <1>1, <1>2, <1>3, <1>4, <1>5, <1>6, <1>7, <1>8 DEF Next, Client, Server

LEMMA InitTypeRest == Init => TypeRest
<1> SUFFICES ASSUME Init PROVE TypeRest
  OBVIOUS
<1>1. /\ patient \in BOOLEAN /\ edge \in BOOLEAN
      /\ closing \in BOOLEAN /\ dropped \in BOOLEAN
  BY DEF Init
<1>2. cuts \in 0 .. MaxCuts
  BY HttpConnAssumption DEF Init
<1> QED BY <1>1, <1>2 DEF Init, TypeRest

(* Every variable keeps its type, for all requests and answers: the types  *)
(* that the members of HttpConn, HttpContext and Response are declared     *)
(* with, and a parser that never rests in the middle of the headers.       *)
THEOREM TypeCorrect == Spec => []TypeOK
<1>1. IInv /\ TypeRest /\ [Next]_vars => IInv' /\ TypeRest'
  BY NextIInv, TypeRestIsInvariant
<1>2. IInv /\ TypeRest => TypeOK
  BY DEF IInv, TypeInv, TypeRest, TypeOK
<1> QED BY InitIInv, InitTypeRest, <1>1, <1>2, PTL DEF Spec

-----------------------------------------------------------------------------
(* The answers follow the request lines.                                   *)

Known(out) == {i \in Responses(out) : out[i].status \in {"200", "page"}}
Lines(data) == {p \in DOMAIN data : data[p] \in Url}

(* The pages and files of out, and behind them the request lines that are  *)
(* left in data, are those of some of the requests, in their order.        *)
Follows(out, data, requests) ==
  \E f \in [Known(out) -> DOMAIN requests], g \in [Lines(data) -> DOMAIN requests] :
    /\ \A i \in Known(out) : out[i].url = Head(requests[f[i]])
    /\ \A i, j \in Known(out) : j < i => f[j] < f[i]
    /\ \A p \in Lines(data) : data[p] = Head(requests[g[p]])
    /\ \A p, q \in Lines(data) : q < p => g[q] < g[p]
    /\ \A i \in Known(out), p \in Lines(data) : f[i] < g[p]

(* A request has one request line, its first token.                        *)
LEMMA RequestLineIsFirst ==
  ASSUME NEW r \in Request
  PROVE  /\ r \in Seq(Token)
         /\ Len(r) >= 3
         /\ \A i \in 2 .. Len(r) : r[i] \notin Url
<1>1. r \in Seq(Token)
  BY HttpConnAssumption
<1>2. PICK n \in 0 .. Len(r) :
        /\ r[1] \in Url \cup Header
        /\ \A k \in 1 .. n : r[2 * k + 1] \in Header
        /\ \A k \in 1 .. n + 1 : r[2 * k] = CRLF
        /\ r[2 * n + 3] = CRLF
        /\ \A i \in 2 * n + 4 .. Len(r) : r[i] = Body
        /\ Len(r) = 2 * n + 3 + (IF "Content-Length" \in ToSet(r) THEN BodySize ELSE 0)
  BY RequestAssumption DEF IsRequest
<1>3. Len(r) \in Nat /\ n \in Nat
  BY <1>1
<1>4. Len(r) >= 3
  BY <1>2, <1>3, HttpContextAssumption
<1>5. ASSUME NEW i \in 2 .. Len(r) PROVE r[i] \notin Url
  <2>1. r[i] \in Header \cup {CRLF, Body}
    <3>1. CASE i > 2 * n + 3
      BY <1>2, <1>3, <3>1
    <3>2. CASE i = 2 * n + 3
      BY <1>2, <3>2
    <3>3. CASE i < 2 * n + 3
      <4>1. PICK k \in 1 .. n + 1 : i = 2 * k \/ i = 2 * k + 1
        <5>1. i \div 2 \in 1 .. n + 1 /\ (i = 2 * (i \div 2) \/ i = 2 * (i \div 2) + 1)
          BY <1>3, <3>3
        <5> QED BY <5>1
      <4>2. CASE i = 2 * k
        BY <1>2, <4>2
      <4>3. CASE i = 2 * k + 1
        <5>1. k \in 1 .. n
          BY <1>3, <3>3, <4>3
        <5> QED BY <1>2, <4>3, <5>1
      <4> QED BY <4>1, <4>2, <4>3
    <3> QED BY <1>3, <3>1, <3>2, <3>3
  <2> QED BY <2>1, HttpContextAssumption
<1> QED BY <1>1, <1>4, <1>5

LEMMA FollowsAsk ==
  ASSUME NEW out, NEW data \in Seq(Token), NEW requests \in Seq(Request), NEW r \in Request,
         Follows(out, data, requests)
  PROVE  Follows(out, data \o r, Append(requests, r))
<1> DEFINE d == data \o r
           rs == Append(requests, r)
<1>1. PICK f \in [Known(out) -> DOMAIN requests], g \in [Lines(data) -> DOMAIN requests] :
        /\ \A i \in Known(out) : out[i].url = Head(requests[f[i]])
        /\ \A i, j \in Known(out) : j < i => f[j] < f[i]
        /\ \A p \in Lines(data) : data[p] = Head(requests[g[p]])
        /\ \A p, q \in Lines(data) : q < p => g[q] < g[p]
        /\ \A i \in Known(out), p \in Lines(data) : f[i] < g[p]
  BY DEF Follows
<1>2. r \in Seq(Token) /\ Len(r) >= 3 /\ \A i \in 2 .. Len(r) : r[i] \notin Url
  BY RequestLineIsFirst
<1>3. /\ d \in Seq(Token)
      /\ Len(d) = Len(data) + Len(r)
      /\ \A i \in 1 .. Len(data) : d[i] = data[i]
      /\ \A i \in 1 .. Len(r) : d[Len(data) + i] = r[i]
  BY <1>2, ConcatIs
<1>4. /\ rs \in Seq(Request)
      /\ Len(rs) = Len(requests) + 1
      /\ \A k \in 1 .. Len(requests) : rs[k] = requests[k]
      /\ rs[Len(requests) + 1] = r
  OBVIOUS
<1> HIDE DEF d, rs
<1>5. DOMAIN requests = 1 .. Len(requests) /\ DOMAIN rs = 1 .. Len(requests) + 1
      /\ DOMAIN data = 1 .. Len(data) /\ DOMAIN d = 1 .. Len(d)
      /\ Len(data) \in Nat /\ Len(requests) \in Nat /\ Len(r) \in Nat
  BY <1>2, <1>3, <1>4
<1>6. ASSUME NEW p \in Lines(d)
      PROVE  p \in Lines(data) \/ p = Len(data) + 1
  <2>1. p \in 1 .. Len(data) + Len(r) /\ d[p] \in Url
    BY <1>3, <1>5 DEF Lines
  <2>2. CASE p <= Len(data)
    BY <1>3, <1>5, <2>1, <2>2 DEF Lines
  <2>3. CASE p > Len(data)
    <3>1. p - Len(data) \in 1 .. Len(r) /\ Len(data) + (p - Len(data)) = p
      BY <1>5, <2>1, <2>3
    <3>2. r[p - Len(data)] \in Url
      BY <1>3, <2>1, <3>1
    <3>3. p - Len(data) = 1
      BY <1>2, <1>5, <3>1, <3>2
    <3> QED BY <1>5, <2>1, <3>3
  <2> QED BY <1>5, <2>1, <2>2, <2>3
<1>7. Lines(data) \subseteq 1 .. Len(data)
  BY <1>5 DEF Lines
<1> DEFINE h == [p \in Lines(d) |-> IF p \in Lines(data) THEN g[p] ELSE Len(requests) + 1]
<1>8. \A p \in Lines(data) : g[p] \in 1 .. Len(requests)
  BY <1>5
<1>9. \A i \in Known(out) : f[i] \in 1 .. Len(requests)
  BY <1>5
<1>10. h \in [Lines(d) -> DOMAIN rs] /\ f \in [Known(out) -> DOMAIN rs]
  BY <1>5, <1>8
<1>11. \A p \in Lines(d) : \/ p \in Lines(data) /\ h[p] = g[p] /\ p <= Len(data)
                           \/ p = Len(data) + 1 /\ h[p] = Len(requests) + 1 /\ p \notin Lines(data)
  <2>1. Len(data) + 1 \notin Lines(data) /\ \A p \in Lines(data) : p <= Len(data)
    BY <1>5, <1>7
  <2> QED BY <1>6, <2>1
<1>12. \A i \in Known(out) : out[i].url = Head(rs[f[i]])
  BY <1>1, <1>4, <1>9
<1>13. ASSUME NEW p \in Lines(d) PROVE d[p] = Head(rs[h[p]])
  <2>1. CASE p \in Lines(data) /\ h[p] = g[p]
    BY <1>1, <1>3, <1>4, <1>7, <1>8, <2>1
  <2>2. CASE p = Len(data) + 1 /\ h[p] = Len(requests) + 1
    <3>1. d[p] = r[1]
      BY <1>2, <1>3, <1>5, <2>2
    <3> QED BY <1>2, <1>4, <2>2, <3>1
  <2> QED BY <1>11, <2>1, <2>2
<1>14. \A p, q \in Lines(d) : q < p => h[q] < h[p]
  <2> HIDE DEF h
  <2>1. TAKE p, q \in Lines(d)
  <2>2. HAVE q < p
  <2>3. CASE p \in Lines(data)
    <3>1. q \in Lines(data)
      BY <1>5, <1>7, <1>11, <2>2, <2>3
    <3> QED BY <1>1, <1>11, <1>5, <1>7, <2>2, <2>3, <3>1
  <2>4. CASE p = Len(data) + 1 /\ h[p] = Len(requests) + 1
    <3>1. q \in Lines(data) /\ h[q] = g[q]
      BY <1>5, <1>11, <2>2, <2>4
    <3> QED BY <1>5, <1>8, <2>4, <3>1
  <2> QED BY <1>11, <2>3, <2>4
<1>15. \A i \in Known(out), p \in Lines(d) : f[i] < h[p]
  <2> HIDE DEF h
  <2> QED BY <1>1, <1>5, <1>9, <1>11
<1> HIDE DEF h
<1>16. Follows(out, d, rs)
  BY <1>1, <1>10, <1>12, <1>13, <1>14, <1>15, ZenonT(30) DEF Follows
<1> QED BY <1>16 DEF d, rs

LEMMA FollowsTake ==
  ASSUME NEW out, NEW data \in Seq(Token), NEW requests, NEW m \in 0 .. Len(data),
         Follows(out, data, requests)
  PROVE  Follows(out, Consumed(data, m), requests)
<1> DEFINE d == Consumed(data, m)
<1>1. PICK f \in [Known(out) -> DOMAIN requests], g \in [Lines(data) -> DOMAIN requests] :
        /\ \A i \in Known(out) : out[i].url = Head(requests[f[i]])
        /\ \A i, j \in Known(out) : j < i => f[j] < f[i]
        /\ \A p \in Lines(data) : data[p] = Head(requests[g[p]])
        /\ \A p, q \in Lines(data) : q < p => g[q] < g[p]
        /\ \A i \in Known(out), p \in Lines(data) : f[i] < g[p]
  BY DEF Follows
<1>2. d \in Seq(Token) /\ Len(d) = Len(data) - m /\ \A i \in 1 .. Len(data) - m : d[i] = data[m + i]
  BY ConsumedIs
<1> HIDE DEF d
<1>3. ASSUME NEW p \in Lines(d)
      PROVE  m + p \in Lines(data) /\ d[p] = data[m + p] /\ p \in Nat
  <2>1. p \in 1 .. Len(data) - m /\ d[p] \in Url
    BY <1>2 DEF Lines
  <2> QED BY <1>2, <2>1 DEF Lines
<1> DEFINE h == [p \in Lines(d) |-> g[m + p]]
<1>4. h \in [Lines(d) -> DOMAIN requests]
  BY <1>3
<1>5. \A p \in Lines(d) : h[p] = g[m + p]
  OBVIOUS
<1> HIDE DEF h
<1>6. \A p \in Lines(d) : d[p] = Head(requests[h[p]])
  BY <1>1, <1>3, <1>5
<1>7. \A p, q \in Lines(d) : q < p => h[q] < h[p]
  <2>1. \A p, q \in Lines(d) : q < p => m + q < m + p
    BY <1>3
  <2> QED BY <1>1, <1>3, <1>5, <2>1
<1>8. \A i \in Known(out), p \in Lines(d) : f[i] < h[p]
  BY <1>1, <1>3, <1>5
<1>9. Follows(out, d, requests)
  BY <1>1, <1>4, <1>6, <1>7, <1>8, ZenonT(30) DEF Follows
<1> QED BY <1>9 DEF d

(* The answer to the line in front of the data.                            *)
LEMMA FollowsAnswer ==
  ASSUME NEW out \in Seq(Response \cup File), NEW data \in Seq(Token), NEW requests \in Seq(Request),
         NEW m \in 1 .. Len(data), NEW a \in Response,
         data[1] \in Url, a.url = data[1],
         Follows(out, data, requests)
  PROVE  Follows(Append(out, a), Consumed(data, m), requests)
<1> DEFINE d == Consumed(data, m)
           o == Append(out, a)
           last == Len(out) + 1
<1>1. PICK f \in [Known(out) -> DOMAIN requests], g \in [Lines(data) -> DOMAIN requests] :
        /\ \A i \in Known(out) : out[i].url = Head(requests[f[i]])
        /\ \A i, j \in Known(out) : j < i => f[j] < f[i]
        /\ \A p \in Lines(data) : data[p] = Head(requests[g[p]])
        /\ \A p, q \in Lines(data) : q < p => g[q] < g[p]
        /\ \A i \in Known(out), p \in Lines(data) : f[i] < g[p]
  BY DEF Follows
<1>2. d \in Seq(Token) /\ Len(d) = Len(data) - m /\ \A i \in 1 .. Len(data) - m : d[i] = data[m + i]
  <2>1. m \in 0 .. Len(data)
    OBVIOUS
  <2> QED BY <2>1, ConsumedIs
<1>3. 1 \in Lines(data)
  BY DEF Lines
<1>4. /\ DOMAIN o = 1 .. last
      /\ \A i \in 1 .. Len(out) : o[i] = out[i]
      /\ o[last] = a
      /\ DOMAIN out = 1 .. Len(out) /\ Len(out) \in Nat
  OBVIOUS
<1> HIDE DEF d, o
<1>5. ASSUME NEW p \in Lines(d)
      PROVE  m + p \in Lines(data) /\ d[p] = data[m + p] /\ p \in Nat /\ 1 < m + p
  <2>1. p \in 1 .. Len(data) - m /\ d[p] \in Url
    BY <1>2 DEF Lines
  <2> QED BY <1>2, <2>1 DEF Lines
<1>6. ASSUME NEW i \in Known(o)
      PROVE  i \in Known(out) \/ i = last
  <2>1. i \in 1 .. last /\ IsResponse(o[i]) /\ o[i].status \in {"200", "page"}
    BY <1>4 DEF Known, Responses
  <2>2. CASE i \in 1 .. Len(out)
    BY <1>4, <2>1, <2>2 DEF Known, Responses
  <2> QED BY <1>4, <2>1, <2>2
<1>7. \A i \in Known(out) : i \in 1 .. Len(out)
  BY <1>4 DEF Known, Responses
<1> DEFINE e == [i \in Known(o) |-> IF i \in Known(out) THEN f[i] ELSE g[1]]
           h == [p \in Lines(d) |-> g[m + p]]
<1>8. h \in [Lines(d) -> DOMAIN requests] /\ \A p \in Lines(d) : h[p] = g[m + p]
  BY <1>5
<1>9. e \in [Known(o) -> DOMAIN requests]
  BY <1>3
<1>10. \A i \in Known(o) : \/ i \in Known(out) /\ e[i] = f[i] /\ i <= Len(out) /\ i \in Nat
                           \/ i = last /\ e[i] = g[1]
  <2>1. last \notin Known(out) /\ \A i \in Known(out) : i <= Len(out) /\ i \in Nat
    BY <1>4, <1>7
  <2> QED BY <1>6, <2>1
<1> HIDE DEF e, h
<1>11. ASSUME NEW i \in Known(o) PROVE o[i].url = Head(requests[e[i]])
  <2>1. CASE i \in Known(out) /\ e[i] = f[i]
    BY <1>1, <1>4, <1>7, <2>1
  <2>2. CASE i = last /\ e[i] = g[1]
    BY <1>1, <1>3, <1>4, <2>2
  <2> QED BY <1>10, <2>1, <2>2
<1>12. \A i \in Known(out) : f[i] < g[1]
  BY <1>1, <1>3
<1>13. \A i, j \in Known(o) : j < i => e[j] < e[i]
  <2>1. TAKE i, j \in Known(o)
  <2>2. HAVE j < i
  <2>3. CASE i \in Known(out) /\ e[i] = f[i] /\ i <= Len(out) /\ i \in Nat
    <3>1. ~ (Len(out) + 1 < i)
      BY <1>4, <2>3
    <3>2. j # last
      BY <2>2, <3>1
    <3>3. j \in Known(out) /\ e[j] = f[j]
      BY <1>10, <3>2
    <3> QED BY <1>1, <2>2, <2>3, <3>3
  <2>4. CASE i = last /\ e[i] = g[1]
    <3>1. j \in Known(out) /\ e[j] = f[j]
      BY <1>4, <1>10, <2>2, <2>4
    <3> QED BY <1>12, <2>4, <3>1
  <2> QED BY <1>10, <2>3, <2>4
<1>14. \A p \in Lines(d) : d[p] = Head(requests[h[p]])
  BY <1>1, <1>5, <1>8
<1>15. \A p, q \in Lines(d) : q < p => h[q] < h[p]
  <2>1. \A p, q \in Lines(d) : q < p => m + q < m + p
    BY <1>5
  <2> QED BY <1>1, <1>5, <1>8, <2>1
<1>16. \A i \in Known(o), p \in Lines(d) : e[i] < h[p]
  <2>1. \A p \in Lines(d) : g[1] < g[m + p]
    BY <1>1, <1>3, <1>5
  <2>2. \A i \in Known(out), p \in Lines(d) : f[i] < g[m + p]
    BY <1>1, <1>5
  <2> SUFFICES ASSUME NEW i \in Known(o), NEW p \in Lines(d) PROVE e[i] < g[m + p]
    BY <1>8
  <2> QED BY <1>10, <2>1, <2>2
<1>17. Follows(o, d, requests)
  BY <1>1, <1>8, <1>9, <1>11, <1>13, <1>14, <1>15, <1>16 DEF Follows
<1> QED BY <1>17 DEF o, d

(* What is no page and no file of a known url changes nothing.             *)
LEMMA FollowsMore ==
  ASSUME NEW out \in Seq(Response \cup File), NEW more \in Seq(Response \cup File),
         NEW data, NEW requests,
         Known(more) = {}, Follows(out, data, requests)
  PROVE  Follows(out \o more, data, requests)
<1> DEFINE o == out \o more
<1>1. /\ o \in Seq(Response \cup File)
      /\ Len(o) = Len(out) + Len(more)
      /\ \A i \in 1 .. Len(out) : o[i] = out[i]
      /\ \A i \in 1 .. Len(more) : o[Len(out) + i] = more[i]
  BY ConcatIs
<1>2. /\ DOMAIN o = 1 .. Len(o) /\ DOMAIN out = 1 .. Len(out) /\ DOMAIN more = 1 .. Len(more)
      /\ Len(out) \in Nat /\ Len(more) \in Nat
  BY <1>1
<1> HIDE DEF o
<1>3. ASSUME NEW i \in Known(o) PROVE i \in Known(out)
  <2>1. i \in 1 .. Len(o) /\ IsResponse(o[i]) /\ o[i].status \in {"200", "page"}
    BY <1>2 DEF Known, Responses
  <2>2. CASE i <= Len(out)
    <3>1. i \in 1 .. Len(out)
      BY <1>2, <2>1, <2>2
    <3> QED BY <1>1, <1>2, <2>1, <3>1 DEF Known, Responses
  <2>3. CASE i > Len(out)
    <3>1. i - Len(out) \in 1 .. Len(more) /\ Len(out) + (i - Len(out)) = i
      BY <1>1, <1>2, <2>1, <2>3
    <3>2. more[i - Len(out)] = o[i]
      BY <1>1, <3>1
    <3>3. i - Len(out) \in Known(more)
      BY <1>2, <2>1, <3>1, <3>2 DEF Known, Responses
    <3> QED BY <3>3
  <2> QED BY <1>2, <2>1, <2>2, <2>3
<1>4. \A i \in Known(out) : i \in Known(o) /\ o[i] = out[i]
  <2>1. \A i \in Known(out) : i \in 1 .. Len(o) /\ o[i] = out[i]
    BY <1>1, <1>2 DEF Known, Responses
  <2> QED BY <1>2, <2>1 DEF Known, Responses
<1>5. Known(o) = Known(out)
  BY <1>3, <1>4
<1>6. Follows(o, data, requests)
  BY <1>4, <1>5 DEF Follows
<1> QED BY <1>6 DEF o

-----------------------------------------------------------------------------
(* What each step does to what is coming and what is going.                *)

(* All that the server has not yet taken of what the client asked.         *)
Coming == (readBuffer_ \o rx) \o unsent

LinesAnswered == Follows(Output, Coming, asked)

LEMMA EmptyConcat ==
  ASSUME NEW S, NEW s \in Seq(S)
  PROVE  s \o <<>> = s /\ <<>> \o s = s
BY ConcatEmptySeq

LEMMA PartsOf ==
  ASSUME NEW S, NEW s \in Seq(S), NEW n \in 0 .. Len(s)
  PROVE  /\ SubSeq(s, 1, n) \in Seq(S)
         /\ Len(SubSeq(s, 1, n)) = n
         /\ SubSeq(s, 1, n) \o Consumed(s, n) = s
<1> DEFINE a == SubSeq(s, 1, n)
           b == Consumed(s, n)
           c == a \o b
<1>1. a \in Seq(S) /\ Len(a) = n /\ \A i \in 1 .. n : a[i] = s[i]
  OBVIOUS
<1>2. b \in Seq(S) /\ Len(b) = Len(s) - n /\ \A i \in 1 .. Len(s) - n : b[i] = s[n + i]
  BY ConsumedIs
<1> HIDE DEF a, b
<1>3. /\ c \in Seq(S)
      /\ Len(c) = Len(a) + Len(b)
      /\ \A i \in 1 .. Len(a) : c[i] = a[i]
      /\ \A i \in 1 .. Len(b) : c[Len(a) + i] = b[i]
  BY <1>1, <1>2, ConcatIs
<1> HIDE DEF c
<1>4. Len(c) = Len(s)
  BY <1>1, <1>2, <1>3
<1>5. ASSUME NEW i \in 1 .. Len(c) PROVE c[i] = s[i]
  <2>1. CASE i <= n
    BY <1>1, <1>3, <2>1
  <2>2. CASE i > n
    <3>1. i - n \in 1 .. Len(b) /\ n + (i - n) = i /\ i - n \in 1 .. Len(s) - n
      BY <1>2, <1>4, <2>2
    <3>2. c[n + (i - n)] = b[i - n]
      BY <1>1, <1>3, <3>1
    <3> QED BY <1>2, <3>1, <3>2
  <2> QED BY <2>1, <2>2
<1>6. c = s
  BY <1>3, <1>4, <1>5, SeqEqual
<1> QED BY <1>1, <1>6 DEF a, b, c

LEMMA AskComes ==
  ASSUME TypeRest, NEW r \in Request, Ask(r)
  PROVE  Coming \in Seq(Token) /\ Coming' = Coming \o r /\ UNCHANGED Output
<1>1. unsent = <<>> /\ unsent' = r /\ UNCHANGED <<readBuffer_, rx, wire, writeBuffer_>>
  BY DEF Ask
<1>2. readBuffer_ \o rx \in Seq(Token)
  BY DEF TypeRest
<1>3. Coming = readBuffer_ \o rx
  BY <1>1, <1>2, EmptyConcat DEF Coming
<1>4. Coming' = (readBuffer_ \o rx) \o r
  BY <1>1 DEF Coming
<1> QED BY <1>1, <1>2, <1>3, <1>4 DEF Output

LEMMA ArriveComes ==
  ASSUME TypeRest, NEW n \in 1 .. Len(unsent), Arrive(n)
  PROVE  UNCHANGED <<Coming, Output>>
<1> DEFINE a == SubSeq(unsent, 1, n)
           b == Consumed(unsent, n)
<1>1. rx' = rx \o a /\ unsent' = b /\ UNCHANGED <<readBuffer_, wire, writeBuffer_>>
  BY DEF Arrive
<1>2. rx \in Seq(Token) /\ readBuffer_ \in Seq(Token) /\ unsent \in Seq(Token)
  BY DEF TypeRest
<1>3. n \in 0 .. Len(unsent)
  BY <1>2
<1>4. a \in Seq(Token) /\ b \in Seq(Token)
  BY <1>2, <1>3, PartsOf, ConsumedIs
<1>0. a \o b = unsent
  BY <1>2, <1>3, PartsOf
<1> HIDE DEF a, b
<1> DEFINE front == readBuffer_ \o rx
<1>5. front \o a = readBuffer_ \o (rx \o a)
  <2>1. rx \in Seq(Token) /\ readBuffer_ \in Seq(Token) /\ a \in Seq(Token)
    BY <1>2, <1>4
  <2> QED BY ONLY <2>1, ConcatAssociative, SMTT(30)
<1>6. front \in Seq(Token)
  BY <1>2
<1> HIDE DEF front
<1>7. (front \o a) \o b = front \o (a \o b)
  <2>1. front \in Seq(Token) /\ a \in Seq(Token) /\ b \in Seq(Token)
    BY <1>4, <1>6
  <2> QED BY ONLY <2>1, ConcatAssociative, SMTT(30)
<1>8. Coming' = Coming
  BY <1>0, <1>1, <1>5, <1>7 DEF Coming, front
<1> QED BY <1>1, <1>8 DEF Output

LEMMA OutputType ==
  ASSUME TypeInv
  PROVE  Output \in Seq(Response \cup File)
BY DEF TypeInv, Output

LEMMA ResponseOrFile ==
  /\ \A r \in Response : IsResponse(r)
  /\ \A f \in File : ~IsResponse(f)
BY DEF IsResponse, Response, File

LEMMA ErrorPagesAreUnknown ==
  ASSUME NEW nothing \in BOOLEAN, NEW ok \in BOOLEAN
  PROVE  Known(ErrorPages(nothing, ok)) = {}
<1> DEFINE first == IF nothing THEN <<ErrorPage("503")>> ELSE <<>>
           second == IF ok THEN <<>> ELSE <<ErrorPage("400")>>
           third == <<ErrorPage("400")>>
           E == {ErrorPage("400"), ErrorPage("503")}
<1>1. first \in Seq(E) /\ second \in Seq(E) /\ third \in Seq(E)
  <2>1. ErrorPage("400") \in E /\ ErrorPage("503") \in E
    OBVIOUS
  <2> HIDE DEF E
  <2> QED BY <2>1
<1>2. ErrorPages(nothing, ok) = first \o second \o third
  BY DEF ErrorPages
<1> HIDE DEF first, second, third, E
<1>3. ErrorPages(nothing, ok) \in Seq(E)
  BY <1>1, <1>2
<1>4. \A e \in E : e.status \notin {"200", "page"}
  BY DEF E, ErrorPage
<1>5. \A i \in DOMAIN ErrorPages(nothing, ok) : ErrorPages(nothing, ok)[i] \in E
  BY <1>3
<1> QED BY <1>4, <1>5 DEF Known, Responses

(* The data at hand is cut at its front, and the responses get longer.     *)
LEMMA HttpGoComes ==
  ASSUME IInv, TypeRest, HttpGo
  PROVE  LET data == readBuffer_ \o rx
             parsed == ParseRequest(context, data).context
         IN  \E m \in 0 .. Len(data) :
               /\ Coming' = Consumed(Coming, m)
               /\ \/ /\ Output' = Append(Output, AnswerTo(parsed))
                     /\ parsed \in Context
                     /\ parsed.url \in Url => m >= 1 /\ Coming[1] = parsed.url
                  \/ \E nothing, ok \in BOOLEAN : Output' = Output \o ErrorPages(nothing, ok)
<1> DEFINE data == readBuffer_ \o rx
           parsed == ParseRequest(context, data).context
<1>1. PICK m \in 0 .. Len(data) :
        /\ readBuffer_' = Consumed(data, m)
        /\ \/ /\ OnRequest(parsed)
              /\ parsed \in Context
              /\ parsed.url \in Url => m >= 1 /\ data[1] = parsed.url
           \/ \E nothing, ok \in BOOLEAN : ClientErrors(nothing, ok)
  BY HttpGoTakes
<1>2. rx' = <<>> /\ UNCHANGED <<unsent, wire>>
  BY DEF HttpGo, clientVars
<1>3. data \in Seq(Token) /\ unsent \in Seq(Token)
  BY DEF TypeRest
<1>4. Coming = data \o unsent
  BY DEF Coming
<1> HIDE DEF data, parsed
<1>5. Coming' = Consumed(Coming, m)
  <2>1. Consumed(data, m) \in Seq(Token)
    BY <1>3, ConsumedIs
  <2>2. Coming' = (Consumed(data, m) \o <<>>) \o unsent
    BY <1>1, <1>2 DEF Coming
  <2>3. Coming' = Consumed(data, m) \o unsent
    BY <2>1, <2>2, EmptyConcat
  <2> QED BY <1>3, <1>4, <2>3, ConsumedOfConcat
<1>6. m >= 1 => Coming[1] = data[1]
  <2>1. m >= 1 => 1 \in 1 .. Len(data)
    BY <1>3
  <2> QED BY <1>3, <1>4, <2>1, ConcatIs
<1>7. wire \in Seq(Response \cup File) /\ writeBuffer_ \in Seq(Response \cup File)
  BY DEF IInv, TypeInv
<1>8. CASE /\ OnRequest(parsed)
           /\ parsed \in Context
           /\ parsed.url \in Url => m >= 1 /\ data[1] = parsed.url
  <2>1. writeBuffer_' = Append(writeBuffer_, AnswerTo(parsed))
    BY <1>8 DEF OnRequest
  <2>2. AnswerTo(parsed) \in Response \cup File
    BY <1>8, AnswerIsResponse DEF IInv
  <2> DEFINE a == AnswerTo(parsed)
  <2> HIDE DEF a
  <2>3. wire \o Append(writeBuffer_, a) = Append(wire \o writeBuffer_, a)
    BY ONLY <1>7, <2>2 DEF a
  <2>4. Output' = Append(Output, a)
    BY <1>2, <2>1, <2>3 DEF Output, a
  <2> QED BY <1>5, <1>6, <1>8, <2>4 DEF a, parsed, data
<1>9. CASE \E nothing, ok \in BOOLEAN : ClientErrors(nothing, ok)
  <2>1. PICK nothing \in BOOLEAN, ok \in BOOLEAN : ClientErrors(nothing, ok)
    BY <1>9
  <2> DEFINE pages == ErrorPages(nothing, ok)
  <2>2. writeBuffer_' = writeBuffer_ \o pages
    BY <2>1 DEF ClientErrors
  <2>3. pages \in Seq(Response \cup File)
    BY ErrorPagesAreResponses
  <2> HIDE DEF pages
  <2>4. wire \o (writeBuffer_ \o pages) = (wire \o writeBuffer_) \o pages
    <3>1. /\ wire \in Seq(Response \cup File) /\ writeBuffer_ \in Seq(Response \cup File)
          /\ pages \in Seq(Response \cup File)
      BY <1>7, <2>3
    <3> QED BY ONLY <3>1, ConcatAssociative, SMTT(30)
  <2>5. Output' = Output \o pages
    BY <1>2, <2>2, <2>4 DEF Output
  <2> QED BY <1>5, <2>5 DEF pages, data, parsed
<1> QED BY <1>1, <1>8, <1>9

LEMMA SendPartComes ==
  ASSUME IInv, TypeRest, NEW n \in 0 .. Len(writeBuffer_), SendPart(n)
  PROVE  UNCHANGED <<Coming, Output>>
<1> DEFINE a == SubSeq(writeBuffer_, 1, n)
           b == Consumed(writeBuffer_, n)
<1>1. /\ wire' = wire \o a /\ writeBuffer_' = b
      /\ UNCHANGED <<readBuffer_, rx, unsent>>
  BY DEF SendPart, clientVars
<1>2. wire \in Seq(Response \cup File) /\ writeBuffer_ \in Seq(Response \cup File)
  BY DEF IInv, TypeInv
<1>3. a \in Seq(Response \cup File) /\ b \in Seq(Response \cup File)
  BY <1>2, PartsOf, ConsumedIs
<1>0. a \o b = writeBuffer_
  BY <1>2, PartsOf
<1> HIDE DEF a, b
<1>4. (wire \o a) \o b = wire \o (a \o b)
  BY <1>2, <1>3, ConcatAssociative
<1> QED BY <1>0, <1>1, <1>4 DEF Coming, Output

LEMMA SendAllComes ==
  ASSUME IInv, TypeRest, SendAll
  PROVE  /\ UNCHANGED Coming
         /\ \/ UNCHANGED Output
            \/ \E f \in File : Output' = Append(Output, f)
<1>1. /\ SendBody
      /\ writeBuffer_' = <<>>
      /\ UNCHANGED <<readBuffer_, rx, unsent>>
  BY DEF SendAll, clientVars
<1>2. Output \in Seq(Response \cup File)
  BY OutputType DEF IInv
<1>3. \/ wire' = Output
      \/ \E f \in File : wire' = Append(Output, f)
  <2>1. filer # None => [file |-> filer] \in File
    BY DEF IInv, TypeInv, File
  <2> QED BY <1>1, <2>1 DEF SendBody, Output
<1>4. wire' \in Seq(Response \cup File)
  BY <1>2, <1>3
<1>5. Output' = wire'
  BY <1>1, <1>4, EmptyConcat DEF Output
<1> QED BY <1>1, <1>3, <1>5 DEF Coming

LEMMA LinesAnsweredIsInvariant ==
  ASSUME IInv, TypeRest, LinesAnswered, [Next]_vars
  PROVE  LinesAnswered'
<1>1. /\ Output \in Seq(Response \cup File)
      /\ asked \in Seq(Request)
      /\ Coming \in Seq(Token)
      /\ Follows(Output, Coming, asked)
  <2>1. Coming \in Seq(Token)
    <3>1. readBuffer_ \o rx \in Seq(Token) /\ unsent \in Seq(Token)
      BY DEF TypeRest
    <3> QED BY <3>1, ConcatIs DEF Coming
  <2> QED BY <2>1, OutputType DEF IInv, TypeRest, LinesAnswered
<1>2. CASE UNCHANGED <<Coming, Output, asked>>
  BY <1>2 DEF LinesAnswered
<1>3. ASSUME NEW r \in Request, Ask(r) PROVE LinesAnswered'
  <2>1. Coming' = Coming \o r /\ UNCHANGED Output /\ asked' = Append(asked, r)
    BY <1>3, AskComes DEF Ask
  <2>2. Follows(Output, Coming \o r, Append(asked, r))
    BY <1>1, FollowsAsk
  <2> QED BY <2>1, <2>2 DEF LinesAnswered
<1>4. ASSUME NEW n \in 1 .. Len(unsent), Arrive(n) PROVE LinesAnswered'
  BY <1>2, <1>4, ArriveComes DEF Arrive
<1>5. CASE Enqueue \/ EnqueueRejected
  BY <1>2, <1>5 DEF Enqueue, EnqueueRejected, Report, clientVars, Coming, Output
<1>6. CASE HttpGo
  <2> DEFINE parsed == ParseRequest(context, readBuffer_ \o rx).context
             a == AnswerTo(parsed)
  <2>1. UNCHANGED asked
    BY <1>6 DEF HttpGo, clientVars
  <2>2. PICK m \in 0 .. Len(readBuffer_ \o rx) :
          /\ Coming' = Consumed(Coming, m)
          /\ \/ /\ Output' = Append(Output, a)
                /\ parsed \in Context
                /\ parsed.url \in Url => m >= 1 /\ Coming[1] = parsed.url
             \/ \E nothing, ok \in BOOLEAN : Output' = Output \o ErrorPages(nothing, ok)
    BY <1>6, HttpGoComes
  <2>3. m \in 0 .. Len(Coming)
    <3>1. readBuffer_ \o rx \in Seq(Token) /\ unsent \in Seq(Token)
      BY DEF TypeRest
    <3>2. Len(Coming) = Len(readBuffer_ \o rx) + Len(unsent)
      BY <3>1, ConcatIs DEF Coming
    <3> QED BY <3>1, <3>2
  <2> DEFINE rest == Consumed(Coming, m)
  <2>4. Follows(Output, rest, asked)
    BY <1>1, <2>3, FollowsTake
  <2>5. CASE /\ Output' = Append(Output, a)
             /\ parsed \in Context
             /\ parsed.url \in Url => m >= 1 /\ Coming[1] = parsed.url
    <3>1. a \in Response /\ a.url = parsed.url
      BY <2>5, AnswerIsResponse DEF IInv, AnswerTo
    <3>2. CASE a.status \in {"200", "page"}
      <4>1. parsed.url \in Url
        <5>1. parsed.url \in Url \cup {"unknown"}
          BY <2>5 DEF Context
        <5>2. Answer[parsed.url] \in {"file", "empty", "page"}
          BY <3>2 DEF AnswerTo
        <5> QED BY <5>1, <5>2, HttpConnAssumption
      <4> HIDE DEF parsed, a
      <4>2. m \in 1 .. Len(Coming) /\ Coming[1] \in Url /\ a.url = Coming[1]
        BY <2>3, <2>5, <3>1, <4>1
      <4>3. Follows(Append(Output, a), rest, asked)
        BY <1>1, <3>1, <4>2, FollowsAnswer
      <4> QED BY <2>1, <2>2, <2>5, <4>3 DEF LinesAnswered
    <3>3. CASE a.status \notin {"200", "page"}
      <4> HIDE DEF parsed, a
      <4>1. <<a>> \in Seq(Response \cup File) /\ Known(<<a>>) = {}
        BY <3>1, <3>3 DEF Known, Responses
      <4>2. Append(Output, a) = Output \o <<a>>
        BY <1>1, <3>1, AppendIsConcat
      <4> HIDE DEF rest
      <4>3. Follows(Output \o <<a>>, rest, asked)
        BY <1>1, <2>4, <4>1, FollowsMore
      <4> QED BY <2>1, <2>2, <2>5, <4>2, <4>3 DEF LinesAnswered, rest
    <3> QED BY <3>2, <3>3
  <2>6. CASE \E nothing, ok \in BOOLEAN : Output' = Output \o ErrorPages(nothing, ok)
    <3>1. PICK nothing \in BOOLEAN, ok \in BOOLEAN : Output' = Output \o ErrorPages(nothing, ok)
      BY <2>6
    <3> DEFINE pages == ErrorPages(nothing, ok)
    <3>2. pages \in Seq(Response \cup File) /\ Known(pages) = {}
      BY ErrorPagesAreResponses, ErrorPagesAreUnknown
    <3> HIDE DEF pages, rest
    <3>3. Follows(Output \o pages, rest, asked)
      BY <1>1, <2>4, <3>2, FollowsMore
    <3> QED BY <2>1, <2>2, <3>1, <3>3 DEF LinesAnswered, pages, rest
  <2> QED BY <2>2, <2>5, <2>6
<1>7. CASE HttpGoFails
  BY <1>2, <1>7 DEF HttpGoFails, clientVars, Coming, Output
<1>8. ASSUME NEW n \in 0 .. Len(writeBuffer_), SendPart(n) PROVE LinesAnswered'
  BY <1>2, <1>8, SendPartComes DEF SendPart, clientVars
<1>9. CASE SendAll
  <2>1. UNCHANGED asked
    BY <1>9 DEF SendAll, clientVars
  <2>2. CASE UNCHANGED <<Coming, Output>>
    BY <1>2, <2>1, <2>2
  <2>3. CASE \E f \in File : Output' = Append(Output, f)
    <3>1. PICK f \in File : Output' = Append(Output, f)
      BY <2>3
    <3>2. <<f>> \in Seq(Response \cup File) /\ Known(<<f>>) = {}
      BY ResponseOrFile DEF Known, Responses
    <3>3. Append(Output, f) = Output \o <<f>>
      BY <1>1, AppendIsConcat
    <3>4. Follows(Output \o <<f>>, Coming, asked)
      BY <1>1, <3>2, FollowsMore
    <3> QED BY <1>9, <2>1, <3>1, <3>3, <3>4, SendAllComes DEF LinesAnswered
  <2> QED BY <1>9, <2>2, <2>3, SendAllComes
<1>10. CASE UNCHANGED vars
  BY <1>2, <1>10 DEF vars, clientVars, Coming, Output
<1> QED BY <1>3, <1>4, <1>5, <1>6, <1>7, <1>8, <1>9, <1>10 DEF Next, Client, Server

LEMMA InitLinesAnswered == Init => LinesAnswered
<1> SUFFICES ASSUME Init PROVE LinesAnswered
  OBVIOUS
<1>1. Output = <<>> /\ Coming = <<>> /\ asked = <<>>
  BY DEF Init, Output, Coming
<1>2. Known(<<>>) = {} /\ Lines(<<>>) = {}
  BY DEF Known, Responses, Lines
<1>3. \E f \in [{} -> DOMAIN asked] : TRUE
  <2>1. [x \in {} |-> x] \in [{} -> DOMAIN asked]
    OBVIOUS
  <2> QED BY <2>1
<1> QED BY <1>1, <1>2, <1>3 DEF LinesAnswered, Follows

(* However requests are cut, however many arrive at once and whatever they *)
(* are, no request line is answered twice or before an earlier one         *)
(* (Buffer.h:124-174, HttpContext.cpp:19-25): the lines that are left in   *)
(* the buffers stand behind all that were answered.                        *)
THEOREM NoLineIsAnsweredTwice == Spec => []AnswersFollowLines
<1>1. IInv /\ TypeRest /\ LinesAnswered /\ [Next]_vars => IInv' /\ TypeRest' /\ LinesAnswered'
  BY NextIInv, TypeRestIsInvariant, LinesAnsweredIsInvariant
<1>2. LinesAnswered => AnswersFollowLines
  <2> SUFFICES ASSUME LinesAnswered PROVE AnswersFollowLines
    OBVIOUS
  <2>1. PICK f \in [Known(Output) -> DOMAIN asked] :
          /\ \A i \in Known(Output) : Output[i].url = Head(asked[f[i]])
          /\ \A i, j \in Known(Output) : j < i => f[j] < f[i]
    BY DEF LinesAnswered, Follows
  <2> QED BY <2>1 DEF AnswersFollowLines, Known
<1> QED BY InitIInv, InitTypeRest, InitLinesAnswered, <1>1, <1>2, PTL DEF Spec

-----------------------------------------------------------------------------
(* The loop of parseRequest.                                               *)

LEMMA TextAfter ==
  ASSUME NEW b \in Seq(Token), IsText(b), NEW m \in 0 .. Len(b)
  PROVE  IsText(Consumed(b, m))
<1> DEFINE d == Consumed(b, m)
<1>1. d \in Seq(Token) /\ Len(d) = Len(b) - m /\ \A i \in 1 .. Len(b) - m : d[i] = b[m + i]
  BY ConsumedIs
<1> HIDE DEF d
<1>2. ASSUME NEW i \in 1 .. Len(d) - 1, d[i] \in Url \cup Header
      PROVE  d[i + 1] = CRLF
  <2>1. m + i \in 1 .. Len(b) - 1 /\ i \in 1 .. Len(b) - m /\ i + 1 \in 1 .. Len(b) - m
        /\ m + (i + 1) = (m + i) + 1
    BY <1>1
  <2>2. b[m + i] \in Url \cup Header
    BY <1>1, <1>2, <2>1
  <2>3. b[(m + i) + 1] = CRLF
    BY <2>1, <2>2 DEF IsText
  <2> QED BY <1>1, <2>1, <2>3, SMTT(30)
<1>3. IsText(d)
  BY <1>2 DEF IsText
<1> QED BY <1>3 DEF d

(* The first line, when there is one.                                      *)
LEMMA FirstLine ==
  ASSUME NEW b \in Seq(Token), Ends(b) # {}
  PROVE  /\ Crlf(b) \in 1 .. Len(b)
         /\ Crlf(b) = Min(Ends(b))
         /\ b[Crlf(b)] = CRLF
         /\ \A i \in 1 .. Crlf(b) - 1 : b[i] # CRLF
         /\ Line(b) \in Seq(Token)
         /\ Len(Line(b)) = Crlf(b) - 1
         /\ \A i \in 1 .. Crlf(b) - 1 : Line(b)[i] = b[i]
         /\ AfterLine(b) \in Seq(Token)
         /\ Len(AfterLine(b)) = Len(b) - Crlf(b)
         /\ \A i \in 1 .. Len(b) - Crlf(b) : AfterLine(b)[i] = b[Crlf(b) + i]
<1>1. Ends(b) \subseteq Nat /\ Ends(b) \subseteq 1 .. Len(b)
  BY EndsAre
<1>2. Min(Ends(b)) \in Ends(b) /\ \A j \in Ends(b) : Min(Ends(b)) <= j
  BY <1>1, MinIsLeast
<1>3. Crlf(b) \in Ends(b) /\ \A j \in Ends(b) : Crlf(b) <= j
  BY <1>2 DEF Crlf
<1>4. Crlf(b) \in 1 .. Len(b) /\ Crlf(b) = Min(Ends(b)) /\ b[Crlf(b)] = CRLF
  <2>1. Crlf(b) \in Nat /\ Min(Ends(b)) \in Nat
    BY <1>1, <1>2, <1>3
  <2>2. Crlf(b) <= Min(Ends(b)) /\ Min(Ends(b)) <= Crlf(b)
    BY <1>2, <1>3
  <2> QED BY <1>1, <1>3, <2>1, <2>2 DEF Ends
<1>5. \A i \in 1 .. Crlf(b) - 1 : b[i] # CRLF
  <2> SUFFICES ASSUME NEW i \in 1 .. Crlf(b) - 1, b[i] = CRLF PROVE FALSE
    OBVIOUS
  <2>1. i \in Ends(b)
    BY <1>4 DEF Ends
  <2> QED BY <1>3, <1>4, <2>1
<1>6. /\ Line(b) \in Seq(Token)
      /\ Len(Line(b)) = Crlf(b) - 1
      /\ \A i \in 1 .. Crlf(b) - 1 : Line(b)[i] = b[i]
  BY <1>4 DEF Line
<1>7. /\ AfterLine(b) \in Seq(Token)
      /\ Len(AfterLine(b)) = Len(b) - Crlf(b)
      /\ \A i \in 1 .. Len(b) - Crlf(b) : AfterLine(b)[i] = b[Crlf(b) + i]
  <2>1. Crlf(b) \in 0 .. Len(b)
    BY <1>4
  <2> QED BY <2>1, ConsumedIs DEF AfterLine
<1> QED BY <1>4, <1>5, <1>6, <1>7

(* A header of the first line is all of that line.                         *)
LEMMA FirstHeader ==
  ASSUME NEW b \in Seq(Token), IsText(b), Ends(b) # {}, b[1] \in Header
  PROVE  Crlf(b) = 2
<1> DEFINE e == Crlf(b)
<1>1. e \in 1 .. Len(b) /\ b[e] = CRLF /\ \A i \in 1 .. e - 1 : b[i] # CRLF
  BY FirstLine
<1> HIDE DEF e
<1>2. b[1] # CRLF
  BY DEF Header, CRLF
<1>3. e # 1 /\ Len(b) \in Nat
  BY <1>1, <1>2
<1>4. 1 \in 1 .. Len(b) - 1
  BY <1>1, <1>3
<1>5. b[1 + 1] = CRLF
  BY <1>4 DEF IsText
<1>6. ~ (2 <= e - 1)
  BY <1>1, <1>3, <1>5
<1>7. e = 2
  BY <1>1, <1>3, <1>6
<1> QED BY <1>7 DEF e

(* The lines of what is behind the first line.                             *)
LEMMA EndsAfterLine ==
  ASSUME NEW b \in Seq(Token), Ends(b) # {}
  PROVE  LET e == Crlf(b)
         IN  /\ \A i \in Ends(AfterLine(b)) : e + i \in Ends(b)
             /\ \A i \in Others(AfterLine(b)) : e + i \in Others(b)
             /\ \A j \in Ends(b) : j = e \/ j - e \in Ends(AfterLine(b))
             /\ \A j \in Others(b) : j = e \/ j - e \in Others(AfterLine(b))
<1> DEFINE e == Crlf(b)
           r == AfterLine(b)
<1>1. /\ e \in 1 .. Len(b)
      /\ b[e] = CRLF
      /\ \A i \in 1 .. e - 1 : b[i] # CRLF
      /\ r \in Seq(Token)
      /\ Len(r) = Len(b) - e
      /\ \A i \in 1 .. Len(b) - e : r[i] = b[e + i]
  BY FirstLine
<1> HIDE DEF e, r
<1>2. Len(b) \in Nat /\ DOMAIN b = 1 .. Len(b) /\ DOMAIN r = 1 .. Len(b) - e
  BY <1>1
<1>3. CRLF \notin Header
  BY DEF CRLF, Header
<1>4. ASSUME NEW i \in Ends(r)
      PROVE  /\ e + i \in Ends(b)
             /\ i \in 1 .. Len(b) - e
             /\ i # 1 => r[i - 1] = b[(e + i) - 1]
             /\ i = 1 => b[(e + i) - 1] = CRLF
  <2>1. i \in 1 .. Len(b) - e /\ r[i] = CRLF
    BY <1>2 DEF Ends
  <2>2. e + i \in 1 .. Len(b) /\ b[e + i] = CRLF
    BY <1>1, <2>1
  <2>3. i # 1 => i - 1 \in 1 .. Len(b) - e /\ e + (i - 1) = (e + i) - 1
    BY <1>1, <2>1
  <2>4. i = 1 => (e + i) - 1 = e
    BY <1>1
  <2> QED BY <1>1, <1>2, <2>1, <2>2, <2>3, <2>4 DEF Ends
<1>5. ASSUME NEW i \in Others(r) PROVE e + i \in Others(b)
  <2>1. i \in Ends(r) /\ (i = 1 \/ r[i - 1] \notin Header)
    BY DEF Others
  <2> QED BY <1>3, <1>4, <2>1 DEF Others
<1>6. ASSUME NEW j \in Ends(b)
      PROVE  j = e \/ (j - e \in Ends(r) /\ e + (j - e) = j)
  <2>1. j \in 1 .. Len(b) /\ b[j] = CRLF
    BY <1>2 DEF Ends
  <2>2. j >= e
    BY <1>1, <2>1
  <2>3. CASE j > e
    <3>1. j - e \in 1 .. Len(b) - e /\ e + (j - e) = j
      BY <1>1, <2>1, <2>3
    <3> QED BY <1>1, <1>2, <2>1, <3>1 DEF Ends
  <2> QED BY <1>1, <2>1, <2>2, <2>3
<1>7. ASSUME NEW j \in Others(b) PROVE j = e \/ j - e \in Others(r)
  <2>1. j \in Ends(b) /\ (j = 1 \/ b[j - 1] \notin Header)
    BY DEF Others
  <2>2. CASE j - e \in Ends(r) /\ e + (j - e) = j
    <3> DEFINE i == j - e
    <3>1. i # 1 => r[i - 1] = b[j - 1]
      BY <1>4, <2>2
    <3>2. i # 1 => j # 1
      BY <1>1, <1>4, <2>2
    <3> QED BY <2>1, <2>2, <3>1, <3>2 DEF Others
  <2> QED BY <1>6, <2>1, <2>2
<1> QED BY <1>4, <1>5, <1>6, <1>7 DEF e, r

(* A line with a colon, or none, in front: what processHeaders does.       *)
LEMMA ColonIs ==
  ASSUME NEW b \in Seq(Token), Ends(b) # {}
  PROVE  HasColon(Line(b)) <=> Crlf(b) \notin Others(b)
<1> DEFINE e == Crlf(b)
           line == Line(b)
<1>1. /\ e \in 1 .. Len(b)
      /\ b[e] = CRLF
      /\ line \in Seq(Token)
      /\ Len(line) = e - 1
      /\ \A i \in 1 .. e - 1 : line[i] = b[i]
  BY FirstLine
<1>2. e \in Ends(b)
  BY <1>1 DEF Ends
<1> HIDE DEF e, line
<1>3. HasColon(line) <=> e # 1 /\ b[e - 1] \in Header
  <2>1. line = <<>> <=> e = 1
    BY <1>1
  <2>2. e # 1 => e - 1 \in 1 .. e - 1
    BY <1>1
  <2>3. e # 1 => line[Len(line)] = b[e - 1]
    BY <1>1, <2>2
  <2> QED BY <2>1, <2>3 DEF HasColon
<1>4. e \notin Others(b) <=> e # 1 /\ b[e - 1] \in Header
  BY <1>2 DEF Others
<1> QED BY <1>3, <1>4 DEF e, line

LEMMA HeadersOfLine ==
  ASSUME NEW b \in Seq(Token), IsText(b), Ends(b) # {}, NEW l \in 0 .. Len(AfterLine(b))
  PROVE  Headers(b, Crlf(b) + l) =
           Headers(AfterLine(b), l) \cup
             (IF Len(Line(b)) = 1 /\ Line(b)[1] \in Header THEN {Line(b)[1]} ELSE {})
<1> DEFINE e == Crlf(b)
           r == AfterLine(b)
           line == Line(b)
           L == IF Len(line) = 1 /\ line[1] \in Header THEN {line[1]} ELSE {}
<1>1. /\ e \in 1 .. Len(b)
      /\ b[e] = CRLF
      /\ \A i \in 1 .. e - 1 : b[i] # CRLF
      /\ Len(line) = e - 1
      /\ \A i \in 1 .. e - 1 : line[i] = b[i]
      /\ Len(r) = Len(b) - e
      /\ \A i \in 1 .. Len(b) - e : r[i] = b[e + i]
  BY FirstLine
<1>2. b[1] \in Header => e = 2
  BY FirstHeader
<1>3. CRLF \notin Header
  BY DEF CRLF, Header
<1>0. l \in 0 .. Len(b) - e /\ Len(b) \in Nat
  BY <1>1
<1> HIDE DEF e, r, line
<1>4. ASSUME NEW h \in Headers(b, e + l) PROVE h \in Headers(r, l) \cup L
  <2>1. PICK i \in 1 .. e + l : b[i] = h /\ (i = 1 \/ b[i - 1] = CRLF)
    BY DEF Headers
  <2>2. h \in Header
    BY DEF Headers
  <2>3. CASE i < e
    <3>1. i - 1 \notin 1 .. e - 1 \/ b[i - 1] # CRLF
      BY <1>1
    <3>2. i = 1
      BY <1>1, <2>1, <2>3, <3>1
    <3>3. e = 2
      BY <1>2, <2>1, <2>2, <3>2
    <3>4. Len(line) = 1 /\ line[1] = h
      BY <1>1, <2>1, <3>2, <3>3
    <3> QED BY <2>2, <3>4
  <2>4. CASE i = e
    BY <1>1, <1>3, <2>1, <2>2, <2>4
  <2>5. CASE i > e
    <3>1. i - e \in 1 .. l /\ i - e \in 1 .. Len(b) - e /\ e + (i - e) = i
      BY <1>0, <1>1, <2>5
    <3>2. r[i - e] = h
      BY <1>1, <2>1, <3>1
    <3>3. i - e # 1 => r[(i - e) - 1] = CRLF
      <4> SUFFICES ASSUME i - e # 1 PROVE r[(i - e) - 1] = CRLF
        OBVIOUS
      <4>1. (i - e) - 1 \in 1 .. Len(b) - e /\ e + ((i - e) - 1) = i - 1 /\ i # 1
        BY <1>1, <2>5, <3>1
      <4> QED BY <1>1, <2>1, <4>1
    <3> QED BY <2>2, <3>1, <3>2, <3>3 DEF Headers
  <2> QED BY <1>1, <2>3, <2>4, <2>5
<1>5. ASSUME NEW h \in Headers(r, l) PROVE h \in Headers(b, e + l)
  <2>1. PICK i \in 1 .. l : r[i] = h /\ (i = 1 \/ r[i - 1] = CRLF)
    BY DEF Headers
  <2>2. h \in Header
    BY DEF Headers
  <2>3. e + i \in 1 .. e + l /\ i \in 1 .. Len(b) - e
    BY <1>0, <1>1
  <2>4. b[e + i] = h
    BY <1>1, <2>1, <2>3
  <2>5. b[(e + i) - 1] = CRLF
    <3>1. CASE i = 1
      <4>1. (e + i) - 1 = e
        BY <1>1, <3>1
      <4> QED BY <1>1, <4>1
    <3>2. CASE i # 1
      <4>1. i - 1 \in 1 .. Len(b) - e /\ e + (i - 1) = (e + i) - 1
        BY <1>1, <2>3, <3>2
      <4> QED BY <1>1, <2>1, <3>2, <4>1
    <3> QED BY <3>1, <3>2
  <2> QED BY <2>2, <2>3, <2>4, <2>5 DEF Headers
<1>6. ASSUME NEW h \in L PROVE h \in Headers(b, e + l)
  <2>1. Len(line) = 1 /\ h = line[1] /\ h \in Header
    OBVIOUS
  <2>2. e = 2 /\ b[1] = h
    BY <1>1, <2>1
  <2>3. 1 \in 1 .. e + l
    BY <1>1, <2>2
  <2> QED BY <2>1, <2>2, <2>3 DEF Headers
<1> HIDE DEF L
<1>7. Headers(b, e + l) = Headers(r, l) \cup L
  BY <1>4, <1>5, <1>6
<1> QED BY <1>7 DEF e, r, line, L

LEMMA LastReadOfLine ==
  ASSUME NEW b \in Seq(Token), Ends(b) # {}, HasColon(Line(b))
  PROVE  /\ LastRead(b) = Crlf(b) + LastRead(AfterLine(b))
         /\ Others(b) # {} <=> Others(AfterLine(b)) # {}
<1> DEFINE e == Crlf(b)
           r == AfterLine(b)
<1>1. e \in 1 .. Len(b) /\ b[e] = CRLF /\ r \in Seq(Token) /\ Len(r) = Len(b) - e
  BY FirstLine
<1>2. /\ \A i \in Ends(r) : e + i \in Ends(b)
      /\ \A i \in Others(r) : e + i \in Others(b)
      /\ \A j \in Ends(b) : j = e \/ j - e \in Ends(r)
      /\ \A j \in Others(b) : j = e \/ j - e \in Others(r)
  BY EndsAfterLine
<1>3. e \notin Others(b) /\ e \in Ends(b)
  BY <1>1, ColonIs DEF Ends
<1> HIDE DEF e, r
<1>4. /\ LastRead(b) \in 0 .. Len(b)
      /\ Others(b) # {} => /\ LastRead(b) \in Others(b)
                           /\ \A i \in Others(b) : LastRead(b) <= i
      /\ Others(b) = {} => \A i \in Ends(b) : i <= LastRead(b)
  BY LastReadIs
<1>5. /\ LastRead(r) \in 0 .. Len(r)
      /\ Others(r) # {} => /\ LastRead(r) \in Others(r)
                           /\ \A i \in Others(r) : LastRead(r) <= i
      /\ Others(r) = {} => \A i \in Ends(r) : i <= LastRead(r)
  BY <1>1, LastReadIs
<1>6. Others(b) # {} <=> Others(r) # {}
  BY <1>2, <1>3
<1>7. Len(b) \in Nat
  OBVIOUS
<1>8. CASE Others(r) # {}
  <2>1. LastRead(b) <= e + LastRead(r)
    BY <1>2, <1>4, <1>5, <1>6, <1>8
  <2>2. LastRead(b) - e \in Others(r)
    BY <1>2, <1>3, <1>4, <1>6, <1>8
  <2>3. LastRead(r) <= LastRead(b) - e
    BY <1>5, <1>8, <2>2
  <2> QED BY <1>1, <1>4, <1>5, <1>6, <1>7, <2>1, <2>3, SMTT(30) DEF e, r
<1>9. CASE Others(r) = {}
  <2>1. Others(b) = {}
    BY <1>6, <1>9
  <2>2. LastRead(b) = Max(Ends(b)) /\ LastRead(b) \in Ends(b)
    <3>1. Ends(b) \subseteq 0 .. Len(b)
      BY <1>7, EndsAre
    <3>2. Max(Ends(b)) \in Ends(b)
      BY <1>3, <1>7, <3>1, MaxIsGreatest
    <3> QED BY <1>3, <2>1, <3>2 DEF LastRead
  <2>3. CASE Ends(r) = {}
    <3>1. LastRead(r) = 0
      BY <1>9, <2>3 DEF LastRead
    <3>2. LastRead(b) = e
      BY <1>2, <2>2, <2>3
    <3> QED BY <1>1, <1>6, <3>1, <3>2 DEF e, r
  <2>4. CASE Ends(r) # {}
    <3>1. LastRead(r) = Max(Ends(r)) /\ LastRead(r) \in Ends(r)
      <4>1. Ends(r) \subseteq 0 .. Len(r) /\ Len(r) \in Nat
        BY <1>1, <1>7, EndsAre
      <4>2. Max(Ends(r)) \in Ends(r)
        BY <2>4, <4>1, MaxIsGreatest
      <4> QED BY <1>9, <2>4, <4>2 DEF LastRead
    <3>2. e + LastRead(r) <= LastRead(b)
      BY <1>2, <1>4, <2>1, <3>1
    <3>3. LastRead(r) >= 1
      BY <1>1, <3>1, EndsAre
    <3>4. LastRead(b) - e \in Ends(r)
      <4>1. LastRead(b) # e
        BY <1>1, <1>4, <1>5, <1>7, <3>2, <3>3
      <4> QED BY <1>2, <2>2, <4>1
    <3>5. LastRead(b) - e <= LastRead(r)
      BY <1>5, <1>9, <3>4
    <3> QED BY <1>1, <1>4, <1>5, <1>6, <1>7, <3>2, <3>5, SMTT(30) DEF e, r
  <2> QED BY <2>3, <2>4
<1> QED BY <1>8, <1>9

(* The loop's variables, what makes them good, what the loop will come to  *)
(* from there, and a bound of the iterations it will take.                 *)
LoopState ==
  [context : Context, buf : Seq(Token), ok : BOOLEAN, hasMore : BOOLEAN, aborted : BOOLEAN]

GoodLoop(s) ==
  /\ s \in LoopState
  /\ IsText(s.buf)
  /\ s.context.state_ = "kExpectRequestLine" /\ s.hasMore => s.ok = FALSE
  /\ s.context.state_ = "kExpectHeaders" => s.ok = TRUE

Ended(s) == s.aborted \/ ~s.hasMore

Outcome(s) ==
  IF s.aborted THEN Result("aborts", s.ok, s.context, s.buf)
  ELSE IF ~s.hasMore THEN Result("returns", s.ok, s.context, s.buf)
  ELSE IF s.context.state_ = "kExpectRequestLine" THEN ParseRequestLine(s.context, s.buf)
  ELSE IF s.context.state_ = "kExpectHeaders" THEN ParseHeaders(s.context, s.buf)
  ELSE IF s.context.state_ = "kExpectBody" THEN ParseBody(s.ok, s.context, s.buf)
  ELSE Result("loops", s.ok, s.context, s.buf)

LeftToDo(s) ==
  IF Ended(s) \/ s.context.state_ = "kGotAll" THEN 0
  ELSE IF s.context.state_ = "kExpectBody" THEN 1 ELSE Len(s.buf) + 2

(* One iteration changes nothing of the outcome, and leaves less to do.    *)
Progress(s, t) ==
  /\ GoodLoop(t)
  /\ Outcome(t) = Outcome(s)
  /\ LeftToDo(t) \in Nat
  /\ LeftToDo(s) > 0 => LeftToDo(t) < LeftToDo(s)
  /\ LeftToDo(s) = 0 => LeftToDo(t) = 0

LEMMA RestIteration ==
  ASSUME NEW s, GoodLoop(s), Ended(s) \/ s.context.state_ = "kGotAll"
  PROVE  Progress(s, Iteration(s))
<1>1. Iteration(s) = s
  BY DEF Iteration, Ended
<1>2. LeftToDo(s) = 0
  BY DEF LeftToDo
<1> QED BY <1>1, <1>2 DEF Progress

LEMMA NoLineIteration ==
  ASSUME NEW s, GoodLoop(s), ~Ended(s), s.context.state_ = "kExpectRequestLine", Ends(s.buf) = {}
  PROVE  Progress(s, Iteration(s))
<1> DEFINE t == Iteration(s)
<1>1. t = [s EXCEPT !.hasMore = FALSE]
  BY DEF Iteration, NoLine, Ended
<1>2. s \in LoopState /\ s.ok = FALSE /\ IsText(s.buf) /\ s.aborted = FALSE /\ s.hasMore = TRUE
  BY DEF GoodLoop, Ended, LoopState
<1>3. /\ t \in LoopState
      /\ t.context = s.context /\ t.buf = s.buf /\ t.ok = s.ok
      /\ t.hasMore = FALSE /\ t.aborted = s.aborted
  BY <1>1, <1>2 DEF LoopState
<1> HIDE DEF t
<1>4. GoodLoop(t)
  BY <1>2, <1>3 DEF GoodLoop
<1>5. Outcome(s) = Outcome(t)
  BY <1>2, <1>3 DEF Outcome, ParseRequestLine
<1>6. LeftToDo(t) = 0 /\ LeftToDo(s) > 0
  BY <1>2, <1>3 DEF LeftToDo, Ended, LoopState
<1> QED BY <1>4, <1>5, <1>6 DEF Progress, t

LEMMA RequestLineIteration ==
  ASSUME NEW s, GoodLoop(s), ~Ended(s), s.context.state_ = "kExpectRequestLine", Ends(s.buf) # {}
  PROVE  Progress(s, Iteration(s))
<1> DEFINE t == Iteration(s)
           line == Line(s.buf)
           rest == AfterLine(s.buf)
           next == [s.context EXCEPT !.state_ = "kExpectHeaders", !.url = UrlOf(line)]
<1>1. t = RequestLine(s)
  BY DEF Iteration, Ended
<1>2. /\ s \in LoopState /\ s.ok = FALSE /\ IsText(s.buf) /\ s.aborted = FALSE /\ s.hasMore = TRUE
      /\ s.buf \in Seq(Token) /\ s.context \in Context
  BY DEF GoodLoop, Ended, LoopState
<1>3. HasThreeWords(line) \in BOOLEAN
  BY DEF HasThreeWords
<1>4. next \in Context /\ next.state_ = "kExpectHeaders"
  <2>1. UrlOf(line) \in Url \cup {"unknown"}
    BY DEF UrlOf
  <2> HIDE DEF line
  <2> QED BY <1>2, <2>1 DEF Context, ParseState
<1>5. /\ Crlf(s.buf) \in 1 .. Len(s.buf)
      /\ Crlf(s.buf) = Min(Ends(s.buf))
      /\ rest \in Seq(Token)
      /\ Len(rest) = Len(s.buf) - Crlf(s.buf)
      /\ IsText(rest)
  <2>1. Crlf(s.buf) \in 1 .. Len(s.buf)
    BY <1>2, FirstLine
  <2>2. IsText(rest)
    <3>1. Crlf(s.buf) \in 0 .. Len(s.buf)
      BY <2>1
    <3> QED BY <1>2, <3>1, TextAfter DEF AfterLine
  <2> QED BY <1>2, <2>1, <2>2, FirstLine
<1>6. Outcome(s) = IF HasThreeWords(line) THEN ParseHeaders(next, rest)
                   ELSE Result("returns", FALSE, s.context, rest)
  BY <1>2, <1>5 DEF Outcome, ParseRequestLine, Line, AfterLine
<1>7. /\ t \in LoopState
      /\ t.buf = rest
      /\ t.ok = HasThreeWords(line) /\ t.hasMore = HasThreeWords(line)
      /\ t.aborted = FALSE
      /\ t.context = IF HasThreeWords(line) THEN next ELSE s.context
  <2>1. CASE HasThreeWords(line)
    <3>1. t = [s EXCEPT !.ok = HasThreeWords(line), !.hasMore = HasThreeWords(line),
                        !.context = next, !.buf = rest]
      BY <1>1, <1>2, <2>1 DEF RequestLine, LoopState, Context
    <3> HIDE DEF next, rest, line, t
    <3> QED BY <1>2, <1>3, <1>4, <1>5, <2>1, <3>1 DEF LoopState
  <2>2. CASE ~HasThreeWords(line)
    <3> DEFINE same == [s.context EXCEPT !.state_ = s.context.state_, !.url = s.context.url]
    <3>0. same = s.context
      BY <1>2 DEF Context
    <3>1. t = [s EXCEPT !.ok = HasThreeWords(line), !.hasMore = HasThreeWords(line),
                        !.context = same, !.buf = rest]
      BY <1>1, <1>2, <2>2 DEF RequestLine, LoopState, Context
    <3> HIDE DEF next, rest, line, t
    <3> HIDE DEF same
    <3> QED BY <1>2, <1>3, <1>4, <1>5, <2>2, <3>0, <3>1 DEF LoopState
  <2> QED BY <2>1, <2>2
<1> HIDE DEF t, next, rest, line
<1>8. CASE HasThreeWords(line)
  <2>1. t.context = next /\ t.hasMore = TRUE /\ t.ok = TRUE
    BY <1>3, <1>7, <1>8
  <2>2. GoodLoop(t)
    BY <1>4, <1>5, <1>7, <2>1 DEF GoodLoop
  <2>3. Outcome(t) = Outcome(s)
    BY <1>4, <1>6, <1>7, <1>8, <2>1 DEF Outcome
  <2>4. LeftToDo(t) = Len(rest) + 2 /\ LeftToDo(s) = Len(s.buf) + 2
    BY <1>2, <1>4, <1>7, <2>1 DEF LeftToDo, Ended
  <2>5. LeftToDo(t) \in Nat /\ LeftToDo(t) < LeftToDo(s) /\ LeftToDo(s) > 0
    BY <1>2, <1>5, <2>4
  <2> QED BY <2>2, <2>3, <2>5 DEF Progress, t
<1>9. CASE ~HasThreeWords(line)
  <2>1. t.context = s.context /\ t.hasMore = FALSE /\ t.ok = FALSE
    BY <1>3, <1>7, <1>9
  <2>2. GoodLoop(t)
    BY <1>5, <1>7, <2>1 DEF GoodLoop
  <2>3. Outcome(t) = Outcome(s)
    BY <1>6, <1>7, <1>9, <2>1 DEF Outcome
  <2>4. LeftToDo(t) = 0 /\ LeftToDo(s) = Len(s.buf) + 2
    BY <1>2, <1>7, <2>1 DEF LeftToDo, Ended
  <2> QED BY <1>2, <2>2, <2>3, <2>4 DEF Progress, t
<1> QED BY <1>8, <1>9

LEMMA NoHeaderLineIteration ==
  ASSUME NEW s, GoodLoop(s), ~Ended(s), s.context.state_ = "kExpectHeaders", Ends(s.buf) = {}
  PROVE  Progress(s, Iteration(s))
<1> DEFINE t == Iteration(s)
           b == s.buf
           next == [s.context EXCEPT !.state_ = "kGotAll"]
           read == [s.context EXCEPT !.dict = @ \cup Headers(b, LastRead(b))]
<1>1. t = NoHeaderLine(s)
  BY DEF Iteration, Ended
<1>2. /\ s \in LoopState /\ s.ok = TRUE /\ IsText(b) /\ s.aborted = FALSE /\ s.hasMore = TRUE
      /\ b \in Seq(Token) /\ s.context \in Context
  BY DEF GoodLoop, Ended, LoopState
<1>3. next \in Context /\ next.state_ = "kGotAll"
  BY <1>2 DEF Context, ParseState
<1>4. Others(b) = {} /\ LastRead(b) = 0
  BY <1>2, EndsAre DEF LastRead
<1>5. Headers(b, 0) = {} /\ Consumed(b, 0) = b
  BY <1>2 DEF Headers, Consumed
<1>6. read = s.context
  BY <1>2, <1>4, <1>5 DEF Context
<1>7. ParseHeaders(s.context, b) = Result("returns", TRUE, next, b)
  BY <1>4, <1>5, <1>6, ParseHeadersIs
<1>8. /\ t \in LoopState
      /\ t.context = next /\ t.buf = b /\ t.ok = TRUE
      /\ t.hasMore = FALSE /\ t.aborted = FALSE
  <2>1. t = [s EXCEPT !.hasMore = FALSE, !.context = next]
    BY <1>1, <1>2 DEF NoHeaderLine, NoLine, LoopState, Context
  <2> HIDE DEF t, next
  <2> QED BY <1>2, <1>3, <2>1 DEF LoopState
<1> HIDE DEF t, next, read
<1>9. GoodLoop(t)
  BY <1>2, <1>3, <1>8 DEF GoodLoop
<1>10. Outcome(s) = Outcome(t)
  BY <1>2, <1>7, <1>8 DEF Outcome
<1>11. LeftToDo(t) = 0 /\ LeftToDo(s) = Len(b) + 2
  BY <1>2, <1>8 DEF LeftToDo, Ended
<1> QED BY <1>2, <1>9, <1>10, <1>11 DEF Progress, t

LEMMA HeaderLineIteration ==
  ASSUME NEW s, GoodLoop(s), ~Ended(s), s.context.state_ = "kExpectHeaders", Ends(s.buf) # {},
         HasColon(Line(s.buf))
  PROVE  Progress(s, Iteration(s))
<1> DEFINE t == Iteration(s)
           b == s.buf
           r == AfterLine(b)
           line == Line(b)
           header == IF Len(line) = 1 THEN {line[1]} ELSE {}
           next == [s.context EXCEPT !.dict = @ \cup header]
           read == [s.context EXCEPT !.dict = @ \cup Headers(b, LastRead(b))]
           readNext == [next EXCEPT !.dict = @ \cup Headers(r, LastRead(r))]
<1>1. t = HeaderLine(s)
  BY DEF Iteration, Ended
<1>2. /\ s \in LoopState /\ s.ok = TRUE /\ IsText(b) /\ s.aborted = FALSE /\ s.hasMore = TRUE
      /\ b \in Seq(Token) /\ s.context \in Context /\ s.context.state_ = "kExpectHeaders"
  BY DEF GoodLoop, Ended, LoopState
<1>3. header = (IF Len(line) = 1 /\ line[1] \in Header THEN {line[1]} ELSE {})
      /\ header \subseteq Header
  BY DEF HasColon
<1>4. next \in Context /\ next.state_ = "kExpectHeaders" /\ next.dict = s.context.dict \cup header
  <2> HIDE DEF header
  <2> QED BY <1>2, <1>3 DEF Context
<1>5. /\ Crlf(b) \in 1 .. Len(b)
      /\ r \in Seq(Token)
      /\ Len(r) = Len(b) - Crlf(b)
      /\ IsText(r)
      /\ r = Consumed(b, Crlf(b))
  <2>1. Crlf(b) \in 1 .. Len(b)
    BY <1>2, FirstLine
  <2>2. IsText(r)
    <3>1. Crlf(b) \in 0 .. Len(b)
      BY <2>1
    <3> QED BY <1>2, <3>1, TextAfter DEF AfterLine
  <2> QED BY <1>2, <2>1, <2>2, FirstLine DEF AfterLine
<1>6. /\ LastRead(b) = Crlf(b) + LastRead(r)
      /\ Others(b) # {} <=> Others(r) # {}
  BY <1>2, LastReadOfLine
<1>7. LastRead(r) \in 0 .. Len(r)
  BY <1>5, LastReadIs
<1>8. Headers(b, LastRead(b)) = Headers(r, LastRead(r)) \cup header
  BY <1>2, <1>3, <1>6, <1>7, HeadersOfLine
<1>9. Consumed(r, LastRead(r)) = Consumed(b, LastRead(b))
  <2>1. Crlf(b) \in 0 .. Len(b) /\ LastRead(r) \in 0 .. Len(b) - Crlf(b)
    BY <1>5, <1>7
  <2> QED BY <1>2, <1>5, <1>6, <2>1, ConsumedTwice
<1> HIDE DEF r, header, line
<1>10. read = readNext
  <2>1. readNext.dict = (s.context.dict \cup header) \cup Headers(r, LastRead(r))
    BY <1>4 DEF Context
  <2>2. read.dict = readNext.dict
    <3>1. read.dict = s.context.dict \cup Headers(b, LastRead(b))
      BY <1>2 DEF Context
    <3> QED BY <1>8, <2>1, <3>1
  <2>3. read = [s.context EXCEPT !.dict = read.dict]
    BY <1>2 DEF Context
  <2>4. readNext = [s.context EXCEPT !.dict = readNext.dict]
    BY <1>2, <1>4 DEF Context
  <2> QED BY <2>2, <2>3, <2>4
<1>11. ParseHeaders(s.context, b) = ParseHeaders(next, r)
  <2>1. ParseHeaders(s.context, b) =
          IF Others(b) # {} /\ "Content-Length" \in read.dict
            THEN ParseBody(TRUE, [read EXCEPT !.state_ = "kExpectBody"], Consumed(b, LastRead(b)))
            ELSE Result("returns", TRUE, [read EXCEPT !.state_ = "kGotAll"], Consumed(b, LastRead(b)))
    BY ParseHeadersIs
  <2>2. ParseHeaders(next, r) =
          IF Others(r) # {} /\ "Content-Length" \in readNext.dict
            THEN ParseBody(TRUE, [readNext EXCEPT !.state_ = "kExpectBody"], Consumed(r, LastRead(r)))
            ELSE Result("returns", TRUE, [readNext EXCEPT !.state_ = "kGotAll"], Consumed(r, LastRead(r)))
    BY ParseHeadersIs
  <2> HIDE DEF read, readNext, next
  <2> DEFINE body == Others(r) # {} /\ "Content-Length" \in readNext.dict
             rest == Consumed(r, LastRead(r))
  <2>3. ParseHeaders(s.context, b) =
          IF body THEN ParseBody(TRUE, [readNext EXCEPT !.state_ = "kExpectBody"], rest)
          ELSE Result("returns", TRUE, [readNext EXCEPT !.state_ = "kGotAll"], rest)
    <3>1. body <=> Others(b) # {} /\ "Content-Length" \in read.dict
      BY <1>6, <1>10
    <3>2. CASE body
      BY <1>9, <1>10, <2>1, <3>1, <3>2
    <3>3. CASE ~body
      BY <1>9, <1>10, <2>1, <3>1, <3>3
    <3> QED BY <3>2, <3>3
  <2> QED BY <2>2, <2>3
<1>12. /\ t \in LoopState
       /\ t.context = next /\ t.buf = r /\ t.ok = TRUE
       /\ t.hasMore = TRUE /\ t.aborted = FALSE
  <2>1. t = [s EXCEPT !.context = next, !.buf = r]
    BY <1>1, <1>2 DEF HeaderLine, LoopState, Context, r, header, line
  <2> HIDE DEF t, next
  <2> QED BY <1>2, <1>4, <1>5, <2>1 DEF LoopState
<1> HIDE DEF t, next, read, readNext
<1>13. GoodLoop(t)
  BY <1>4, <1>5, <1>12 DEF GoodLoop
<1>14. Outcome(s) = Outcome(t)
  BY <1>2, <1>4, <1>11, <1>12 DEF Outcome
<1>15. LeftToDo(t) = Len(r) + 2 /\ LeftToDo(s) = Len(b) + 2
  BY <1>2, <1>4, <1>12 DEF LeftToDo, Ended
<1>16. LeftToDo(t) \in Nat /\ LeftToDo(t) < LeftToDo(s) /\ LeftToDo(s) > 0
  BY <1>2, <1>5, <1>15
<1> QED BY <1>13, <1>14, <1>16 DEF Progress, t

LEMMA HeadersEndIteration ==
  ASSUME NEW s, GoodLoop(s), ~Ended(s), s.context.state_ = "kExpectHeaders", Ends(s.buf) # {},
         ~HasColon(Line(s.buf))
  PROVE  Progress(s, Iteration(s))
<1> DEFINE t == Iteration(s)
           b == s.buf
           r == AfterLine(b)
           body == "Content-Length" \in s.context.dict
           next == [s.context EXCEPT !.state_ = IF body THEN "kExpectBody" ELSE "kGotAll"]
           read == [s.context EXCEPT !.dict = @ \cup Headers(b, LastRead(b))]
<1>1. t = HeadersEnd(s)
  BY DEF Iteration, Ended
<1>2. /\ s \in LoopState /\ s.ok = TRUE /\ IsText(b) /\ s.aborted = FALSE /\ s.hasMore = TRUE
      /\ b \in Seq(Token) /\ s.context \in Context /\ s.context.state_ = "kExpectHeaders"
  BY DEF GoodLoop, Ended, LoopState
<1>3. body \in BOOLEAN
  OBVIOUS
<1>4. next \in Context /\ next.state_ = (IF body THEN "kExpectBody" ELSE "kGotAll")
  <2> HIDE DEF body
  <2> QED BY <1>2 DEF Context, ParseState
<1>5. /\ Crlf(b) \in 1 .. Len(b)
      /\ r \in Seq(Token)
      /\ Len(r) = Len(b) - Crlf(b)
      /\ IsText(r)
      /\ r = Consumed(b, Crlf(b))
  <2>1. Crlf(b) \in 1 .. Len(b)
    BY <1>2, FirstLine
  <2>2. IsText(r)
    <3>1. Crlf(b) \in 0 .. Len(b)
      BY <2>1
    <3> QED BY <1>2, <3>1, TextAfter DEF AfterLine
  <2> QED BY <1>2, <2>1, <2>2, FirstLine DEF AfterLine
<1>6. Others(b) # {} /\ LastRead(b) = Crlf(b)
  <2>1. Crlf(b) \in Others(b)
    BY <1>2, ColonIs
  <2>2. LastRead(b) \in Others(b) /\ LastRead(b) <= Crlf(b) /\ LastRead(b) \in 0 .. Len(b)
    BY <1>2, <2>1, LastReadIs
  <2>3. LastRead(b) \in Ends(b)
    BY <1>2, <2>2, EndsAre
  <2>4. LastRead(b) \in 1 .. Len(b) /\ b[LastRead(b)] = CRLF
    BY <2>3 DEF Ends
  <2>5. ~ (LastRead(b) < Crlf(b))
    <3> SUFFICES ASSUME LastRead(b) < Crlf(b) PROVE FALSE
      OBVIOUS
    <3>1. LastRead(b) \in 1 .. Crlf(b) - 1
      BY <1>5, <2>4
    <3> QED BY <1>2, <2>4, <3>1, FirstLine
  <2> QED BY <1>5, <2>1, <2>2, <2>5
<1>7. Headers(b, Crlf(b)) = {}
  <2>1. Headers(b, Crlf(b) + 0) =
          Headers(r, 0) \cup
            (IF Len(Line(b)) = 1 /\ Line(b)[1] \in Header THEN {Line(b)[1]} ELSE {})
    <3>1. 0 \in 0 .. Len(AfterLine(b))
      BY <1>5
    <3> QED BY <1>2, <3>1, HeadersOfLine
  <2>2. ~ (Len(Line(b)) = 1 /\ Line(b)[1] \in Header)
    BY DEF HasColon
  <2>3. Headers(r, 0) = {}
    BY DEF Headers
  <2>4. Crlf(b) + 0 = Crlf(b)
    BY <1>5
  <2> HIDE DEF r
  <2> QED BY <2>1, <2>2, <2>3, <2>4
<1>8. read = s.context
  <2>1. s.context.dict \cup Headers(b, LastRead(b)) = s.context.dict
    BY <1>6, <1>7
  <2> QED BY <1>2, <2>1 DEF Context
<1> HIDE DEF r
<1>9. ParseHeaders(s.context, b) = IF body THEN ParseBody(TRUE, next, r)
                                   ELSE Result("returns", TRUE, next, r)
  <2>1. ParseHeaders(s.context, b) =
          IF Others(b) # {} /\ "Content-Length" \in read.dict
            THEN ParseBody(TRUE, [read EXCEPT !.state_ = "kExpectBody"], Consumed(b, LastRead(b)))
            ELSE Result("returns", TRUE, [read EXCEPT !.state_ = "kGotAll"], Consumed(b, LastRead(b)))
    BY ParseHeadersIs
  <2> HIDE DEF read
  <2> QED BY <1>5, <1>6, <1>8, <2>1
<1>10. /\ t \in LoopState
       /\ t.context = next /\ t.buf = r /\ t.ok = TRUE
       /\ t.hasMore = body /\ t.aborted = FALSE
  <2>1. t = [s EXCEPT !.context = next, !.hasMore = body, !.buf = r]
    BY <1>1, <1>2 DEF HeadersEnd, LoopState, Context, r
  <2> HIDE DEF t, next, body
  <2> QED BY <1>2, <1>3, <1>4, <1>5, <2>1 DEF LoopState
<1> HIDE DEF t, next, read, body
<1>11. GoodLoop(t)
  BY <1>4, <1>5, <1>10 DEF GoodLoop
<1>12. CASE body
  <2>1. next.state_ = "kExpectBody" /\ t.hasMore = TRUE
    BY <1>3, <1>4, <1>10, <1>12
  <2>2. Outcome(s) = Outcome(t)
    BY <1>2, <1>9, <1>10, <1>12, <2>1 DEF Outcome
  <2>3. LeftToDo(t) = 1 /\ LeftToDo(s) = Len(b) + 2
    BY <1>2, <1>10, <2>1 DEF LeftToDo, Ended
  <2> QED BY <1>2, <1>11, <2>2, <2>3 DEF Progress, t
<1>13. CASE ~body
  <2>1. t.hasMore = FALSE
    BY <1>3, <1>10, <1>13
  <2>2. Outcome(s) = Outcome(t)
    BY <1>2, <1>9, <1>10, <1>13, <2>1 DEF Outcome
  <2>3. LeftToDo(t) = 0 /\ LeftToDo(s) = Len(b) + 2
    BY <1>2, <1>10, <2>1 DEF LeftToDo, Ended
  <2> QED BY <1>2, <1>11, <2>2, <2>3 DEF Progress, t
<1> QED BY <1>12, <1>13

LEMMA BodyIteration ==
  ASSUME NEW s, GoodLoop(s), ~Ended(s), s.context.state_ = "kExpectBody"
  PROVE  Progress(s, Iteration(s))
<1> DEFINE t == Iteration(s)
           b == s.buf
<1>1. t = BodyPart(s)
  BY DEF Iteration, Ended
<1>2. /\ s \in LoopState /\ IsText(b) /\ s.aborted = FALSE /\ s.hasMore = TRUE
      /\ b \in Seq(Token) /\ s.context \in Context /\ s.ok \in BOOLEAN
  BY DEF GoodLoop, Ended, LoopState
<1>3. LeftToDo(s) = 1
  BY <1>2 DEF LeftToDo, Ended
<1>4. Outcome(s) = ParseBody(s.ok, s.context, b)
  BY <1>2 DEF Outcome
<1>5. CASE Len(b) < BodySize
  <2>1. /\ t \in LoopState
        /\ t.context = s.context /\ t.buf = b /\ t.ok = s.ok
        /\ t.hasMore = TRUE /\ t.aborted = TRUE
    BY <1>1, <1>2, <1>5 DEF BodyPart, LoopState
  <2> HIDE DEF t
  <2>2. GoodLoop(t)
    BY <1>2, <2>1 DEF GoodLoop
  <2>3. Outcome(t) = Outcome(s)
    BY <1>4, <1>5, <2>1 DEF Outcome, ParseBody
  <2>4. LeftToDo(t) = 0
    BY <2>1 DEF LeftToDo, Ended
  <2> QED BY <1>3, <2>2, <2>3, <2>4 DEF Progress, t
<1>6. CASE ~ (Len(b) < BodySize)
  <2> DEFINE r == Consumed(b, BodySize)
  <2>1. r \in Seq(Token) /\ IsText(r)
    <3>1. BodySize \in 0 .. Len(b)
      BY <1>2, <1>6, HttpContextAssumption
    <3> QED BY <1>2, <3>1, ConsumedIs, TextAfter
  <2>2. t = [s EXCEPT !.buf = r, !.hasMore = FALSE]
    BY <1>1, <1>2, <1>6 DEF BodyPart, LoopState
  <2> HIDE DEF t, r
  <2>3. /\ t \in LoopState
        /\ t.context = s.context /\ t.buf = r /\ t.ok = s.ok
        /\ t.hasMore = FALSE /\ t.aborted = FALSE
    BY <1>2, <2>1, <2>2 DEF LoopState
  <2>4. GoodLoop(t)
    BY <1>2, <2>1, <2>3 DEF GoodLoop
  <2>5. Outcome(t) = Outcome(s)
    BY <1>4, <1>6, <2>3 DEF Outcome, ParseBody, r
  <2>6. LeftToDo(t) = 0
    BY <2>3 DEF LeftToDo, Ended
  <2> QED BY <1>3, <2>4, <2>5, <2>6 DEF Progress, t
<1> QED BY <1>5, <1>6

LEMMA IterationProgresses ==
  ASSUME NEW s, GoodLoop(s)
  PROVE  Progress(s, Iteration(s))
<1>1. s.context.state_ \in ParseState
  BY DEF GoodLoop, LoopState, Context
<1> QED BY <1>1, RestIteration, NoLineIteration, RequestLineIteration, NoHeaderLineIteration,
           HeaderLineIteration, HeadersEndIteration, BodyIteration DEF ParseState

(* The function after of Loop: what it must be, and that there is one.     *)
IsLoop(f, c, b) ==
  f = [n \in 0 .. Len(b) + 2 |-> IF n = 0 THEN Locals(c, b) ELSE Iteration(f[n - 1])]

LEMMA LoopIsDefined ==
  ASSUME NEW c, NEW b \in Seq(Token)
  PROVE  \E f : IsLoop(f, c, b)
<1> DEFINE Upto(k, f) ==
             f = [n \in 0 .. k |-> IF n = 0 THEN Locals(c, b) ELSE Iteration(f[n - 1])]
           Bad == {k \in Nat : ~ \E f : Upto(k, f)}
<1>1. 0 \notin Bad
  <2> DEFINE f == [n \in 0 .. 0 |-> Locals(c, b)]
  <2>1. f = [n \in 0 .. 0 |-> IF n = 0 THEN Locals(c, b) ELSE Iteration(f[n - 1])]
    OBVIOUS
  <2> QED BY <2>1
<1>2. ASSUME NEW k \in Nat, k \notin Bad PROVE k + 1 \notin Bad
  <2>1. PICK f : Upto(k, f)
    BY <1>2
  <2> DEFINE g == [n \in 0 .. k + 1 |-> IF n = k + 1 THEN Iteration(f[k]) ELSE f[n]]
  <2>2. \A n \in 0 .. k : g[n] = f[n]
    OBVIOUS
  <2>3. ASSUME NEW n \in 0 .. k + 1
        PROVE  g[n] = IF n = 0 THEN Locals(c, b) ELSE Iteration(g[n - 1])
    <3>1. CASE n = k + 1
      <4>1. g[n - 1] = f[k] /\ g[n] = Iteration(f[k]) /\ n # 0
        BY <3>1
      <4> QED BY <4>1
    <3>2. CASE n # k + 1
      <4>1. n \in 0 .. k /\ g[n] = f[n] /\ (n # 0 => n - 1 \in 0 .. k)
        BY <3>2
      <4>2. f[n] = IF n = 0 THEN Locals(c, b) ELSE Iteration(f[n - 1])
        BY <2>1, <4>1
      <4> HIDE DEF g
      <4> QED BY <2>2, <4>1, <4>2
    <3> QED BY <3>1, <3>2
  <2>4. g = [n \in 0 .. k + 1 |-> g[n]]
    OBVIOUS
  <2> HIDE DEF g
  <2>5. Upto(k + 1, g)
    BY <2>3, <2>4
  <2> QED BY <2>5
<1>3. Bad = {}
  <2> SUFFICES ASSUME Bad # {} PROVE FALSE
    OBVIOUS
  <2>1. Bad \subseteq Nat
    OBVIOUS
  <2> HIDE DEF Bad
  <2>2. PICK k \in Bad : \A m \in Bad : k <= m
    BY <2>1, LeastNumber
  <2>3. k \in Nat /\ k # 0
    BY <1>1, <2>1, <2>2
  <2>4. k - 1 \in Nat /\ (k - 1) + 1 = k
    BY <2>3
  <2>5. k - 1 \notin Bad
    BY <2>2, <2>3
  <2> QED BY <1>2, <2>2, <2>4, <2>5
<1>4. Len(b) + 2 \in Nat
  OBVIOUS
<1>5. PICK f : Upto(Len(b) + 2, f)
  BY <1>3, <1>4
<1> QED BY <1>5 DEF IsLoop

LEMMA LoopIs ==
  ASSUME NEW c, NEW b
  PROVE  LET f == CHOOSE f : IsLoop(f, c, b)
             end == f[Len(b) + 2]
         IN  Loop(c, b) =
               IF end.aborted THEN Result("aborts", end.ok, end.context, end.buf)
               ELSE Result(IF end.hasMore THEN "loops" ELSE "returns",
                           end.ok, end.context, end.buf)
BY DEF Loop, IsLoop

LEMMA LoopIsParseRequest ==
  ASSUME NEW c \in Context, c.state_ # "kExpectHeaders", NEW b \in Seq(Token), IsText(b)
  PROVE  Loop(c, b) = ParseRequest(c, b)
<1> DEFINE f == CHOOSE f : IsLoop(f, c, b)
           N == Len(b) + 2
           end == f[N]
           start == Locals(c, b)
<1>1. IsLoop(f, c, b)
  BY LoopIsDefined
<1>2. N \in Nat /\ N >= 2
  OBVIOUS
<1> HIDE DEF f
<1>3. f[0] = start /\ \A n \in 1 .. N : f[n] = Iteration(f[n - 1])
  BY <1>1, <1>2 DEF IsLoop
<1>4. GoodLoop(start) /\ Outcome(start) = ParseRequest(c, b) /\ LeftToDo(start) <= N
  <2>1. /\ start \in LoopState /\ start.context = c /\ start.buf = b /\ start.ok = FALSE
        /\ start.hasMore = TRUE /\ start.aborted = FALSE
    BY DEF Locals, LoopState
  <2> HIDE DEF start
  <2>2. GoodLoop(start)
    BY <2>1 DEF GoodLoop
  <2>3. Outcome(start) = ParseRequest(c, b)
    BY <2>1 DEF Outcome, ParseRequest, Context, ParseState
  <2>4. LeftToDo(start) <= N
    BY <2>1 DEF LeftToDo, Ended
  <2> QED BY <2>2, <2>3, <2>4
<1> HIDE DEF start
<1> DEFINE Right(n) == /\ GoodLoop(f[n])
                       /\ Outcome(f[n]) = ParseRequest(c, b)
                       /\ LeftToDo(f[n]) = 0 \/ LeftToDo(f[n]) + n <= N
                       /\ LeftToDo(f[n]) \in Nat
           Wrong == {n \in 0 .. N : ~Right(n)}
<1>5. Right(0)
  <2>1. LeftToDo(start) \in Nat
    BY <1>4 DEF LeftToDo, GoodLoop, LoopState
  <2> QED BY <1>2, <1>3, <1>4, <2>1
<1>6. ASSUME NEW n \in 1 .. N, Right(n - 1) PROVE Right(n)
  <2> DEFINE s == f[n - 1]
             t == f[n]
  <2>1. Progress(s, t)
    BY <1>3, <1>6, IterationProgresses
  <2>2. LeftToDo(s) = 0 \/ LeftToDo(s) + (n - 1) <= N
    BY <1>6
  <2>3. LeftToDo(s) \in Nat /\ LeftToDo(t) \in Nat
    BY <1>6, <2>1 DEF Progress
  <2>4. LeftToDo(t) = 0 \/ LeftToDo(t) + n <= N
    BY <1>2, <2>1, <2>2, <2>3 DEF Progress
  <2>5. GoodLoop(t) /\ Outcome(t) = ParseRequest(c, b)
    BY <1>6, <2>1 DEF Progress
  <2> QED BY <2>3, <2>4, <2>5
<1>7. Wrong = {}
  <2> SUFFICES ASSUME Wrong # {} PROVE FALSE
    OBVIOUS
  <2>1. Wrong \subseteq Nat
    BY <1>2
  <2>2. PICK n \in Wrong : \A m \in Wrong : n <= m
    <3> HIDE DEF Wrong
    <3> QED BY <2>1, LeastNumber
  <2> HIDE DEF Right
  <2>3. n \in 1 .. N /\ n - 1 \in 0 .. N
    BY <1>2, <1>5, <2>2
  <2>4. n - 1 \notin Wrong
    <3> HIDE DEF Wrong
    <3> QED BY <2>2, <2>3
  <2>5. Right(n - 1)
    BY <2>3, <2>4
  <2> QED BY <1>6, <2>2, <2>3, <2>5
<1>8. Right(N)
  <2> HIDE DEF Right
  <2> QED BY <1>2, <1>7
<1>9. GoodLoop(end) /\ Outcome(end) = ParseRequest(c, b) /\ LeftToDo(end) = 0
  BY <1>2, <1>8
<1> HIDE DEF Right, Wrong
<1>10. Loop(c, b) = IF end.aborted THEN Result("aborts", end.ok, end.context, end.buf)
                    ELSE Result(IF end.hasMore THEN "loops" ELSE "returns",
                                end.ok, end.context, end.buf)
  BY LoopIs DEF f
<1> HIDE DEF end
<1>11. CASE Ended(end)
  BY <1>9, <1>10, <1>11 DEF Outcome, Ended
<1>12. CASE ~Ended(end)
  <2>1. end.context.state_ = "kGotAll"
    <3>1. LeftToDo(end) = 0 => end.context.state_ = "kGotAll"
      BY <1>9, <1>12 DEF LeftToDo, GoodLoop, LoopState
    <3> QED BY <1>9, <3>1
  <2> QED BY <1>9, <1>10, <1>12, <2>1 DEF Outcome, Ended
<1> QED BY <1>11, <1>12

(* Text is followed by the end of its line in all that the client sends.   *)
LEMMA RequestIsText ==
  ASSUME NEW r \in Request
  PROVE  IsText(r) /\ r[Len(r)] \notin Url \cup Header
<1>1. r \in Seq(Token)
  BY HttpConnAssumption
<1>2. PICK n \in 0 .. Len(r) :
        /\ r[1] \in Url \cup Header
        /\ \A k \in 1 .. n : r[2 * k + 1] \in Header
        /\ \A k \in 1 .. n + 1 : r[2 * k] = CRLF
        /\ r[2 * n + 3] = CRLF
        /\ \A i \in 2 * n + 4 .. Len(r) : r[i] = Body
        /\ Len(r) = 2 * n + 3 + (IF "Content-Length" \in ToSet(r) THEN BodySize ELSE 0)
  BY RequestAssumption DEF IsRequest
<1>3. Len(r) \in Nat /\ n \in Nat
  BY <1>1
<1>4. Len(r) >= 2 * n + 3
  BY <1>2, <1>3, HttpContextAssumption
<1>5. CRLF \notin Url \cup Header /\ Body \notin Url \cup Header
  BY HttpContextAssumption DEF CRLF, Body, Header
<1>6. ASSUME NEW i \in 1 .. Len(r), r[i] \in Url \cup Header
      PROVE  i < Len(r) /\ r[i + 1] = CRLF
  <2>1. i < 2 * n + 3
    <3>1. ~ (i > 2 * n + 3)
      BY <1>2, <1>3, <1>5, <1>6
    <3>2. i # 2 * n + 3
      BY <1>2, <1>5, <1>6
    <3> QED BY <1>3, <3>1, <3>2
  <2>2. PICK k \in 1 .. n + 1 : i = 2 * k \/ i = 2 * k - 1
    <3>1. (i + 1) \div 2 \in 1 .. n + 1
          /\ (i = 2 * ((i + 1) \div 2) \/ i = 2 * ((i + 1) \div 2) - 1)
      BY <1>3, <2>1
    <3> QED BY <3>1
  <2>3. r[2 * k] = CRLF
    BY <1>2
  <2>4. i = 2 * k - 1
    BY <1>5, <1>6, <2>2, <2>3
  <2>5. i + 1 = 2 * k
    BY <2>4
  <2> QED BY <1>3, <1>4, <2>1, <2>3, <2>5
<1>7. IsText(r)
  BY <1>6 DEF IsText
<1>8. r[Len(r)] \notin Url \cup Header
  <2>1. Len(r) \in 1 .. Len(r)
    BY <1>3, <1>4
  <2> QED BY <1>3, <1>6, <2>1
<1> QED BY <1>7, <1>8

(* All that is coming is text, and no line is open at its end.             *)
WholeText(b) ==
  /\ IsText(b)
  /\ b # <<>> => b[Len(b)] \notin Url \cup Header

LEMMA TextConcat ==
  ASSUME NEW b \in Seq(Token), WholeText(b), NEW r \in Request
  PROVE  WholeText(b \o r)
<1> DEFINE d == b \o r
<1>1. r \in Seq(Token) /\ IsText(r) /\ r[Len(r)] \notin Url \cup Header /\ Len(r) >= 3
  BY RequestIsText, RequestLineIsFirst
<1>2. /\ d \in Seq(Token) /\ Len(d) = Len(b) + Len(r)
      /\ \A i \in 1 .. Len(b) : d[i] = b[i]
      /\ \A i \in 1 .. Len(r) : d[Len(b) + i] = r[i]
  BY <1>1, ConcatIs
<1> HIDE DEF d
<1>3. Len(b) \in Nat /\ Len(r) \in Nat
  BY <1>1
<1>4. ASSUME NEW i \in 1 .. Len(d) - 1, d[i] \in Url \cup Header PROVE d[i + 1] = CRLF
  <2>1. CASE i < Len(b)
    <3>1. i \in 1 .. Len(b) - 1 /\ i \in 1 .. Len(b) /\ i + 1 \in 1 .. Len(b)
      BY <1>3, <2>1
    <3>2. b[i + 1] = CRLF
      BY <1>2, <1>4, <3>1 DEF WholeText, IsText
    <3> QED BY <1>2, <3>1, <3>2
  <2>2. CASE i = Len(b)
    <3>1. i \in 1 .. Len(b) /\ b # <<>>
      BY <1>3, <2>2
    <3> QED BY <1>2, <1>4, <2>2, <3>1 DEF WholeText
  <2>3. CASE i > Len(b)
    <3> DEFINE j == i - Len(b)
    <3>1. /\ j \in 1 .. Len(r) - 1 /\ j \in 1 .. Len(r) /\ j + 1 \in 1 .. Len(r)
          /\ Len(b) + j = i /\ Len(b) + (j + 1) = i + 1
      BY <1>2, <1>3, <2>3
    <3> HIDE DEF j
    <3>2. r[j] \in Url \cup Header
      BY <1>2, <1>4, <3>1
    <3>3. r[j + 1] = CRLF
      BY <1>1, <3>1, <3>2 DEF IsText
    <3> QED BY <1>2, <3>1, <3>3
  <2> QED BY <1>3, <2>1, <2>2, <2>3
<1>5. d[Len(d)] \notin Url \cup Header
  <2>1. Len(r) \in 1 .. Len(r)
    BY <1>1, <1>3
  <2> QED BY <1>1, <1>2, <2>1
<1>6. WholeText(d)
  BY <1>4, <1>5 DEF WholeText, IsText
<1> QED BY <1>6 DEF d

LEMMA TextTake ==
  ASSUME NEW b \in Seq(Token), WholeText(b), NEW m \in 0 .. Len(b)
  PROVE  WholeText(Consumed(b, m))
<1> DEFINE d == Consumed(b, m)
<1>1. d \in Seq(Token) /\ Len(d) = Len(b) - m /\ \A i \in 1 .. Len(b) - m : d[i] = b[m + i]
  BY ConsumedIs
<1>2. IsText(d)
  BY TextAfter DEF WholeText
<1> HIDE DEF d
<1>3. d # <<>> => d[Len(d)] \notin Url \cup Header
  <2> SUFFICES ASSUME d # <<>> PROVE d[Len(d)] \notin Url \cup Header
    OBVIOUS
  <2>1. Len(d) \in 1 .. Len(b) - m /\ m + Len(d) = Len(b) /\ b # <<>>
    BY <1>1
  <2>2. d[Len(d)] = b[Len(b)]
    BY <1>1, <2>1
  <2> QED BY <2>1, <2>2 DEF WholeText
<1>4. WholeText(d)
  BY <1>2, <1>3 DEF WholeText
<1> QED BY <1>4 DEF d

LEMMA TextPrefix ==
  ASSUME NEW b \in Seq(Token), NEW c \in Seq(Token), IsText(b \o c)
  PROVE  IsText(b)
<1> DEFINE d == b \o c
<1>1. /\ Len(d) = Len(b) + Len(c)
      /\ \A i \in 1 .. Len(b) : d[i] = b[i]
      /\ Len(b) \in Nat /\ Len(c) \in Nat
  BY ConcatIs
<1>2. IsText(d)
  OBVIOUS
<1> HIDE DEF d
<1>3. ASSUME NEW i \in 1 .. Len(b) - 1, b[i] \in Url \cup Header PROVE b[i + 1] = CRLF
  <2>1. i \in 1 .. Len(d) - 1 /\ i \in 1 .. Len(b) /\ i + 1 \in 1 .. Len(b)
    BY <1>1
  <2>2. d[i + 1] = CRLF
    BY <1>1, <1>2, <1>3, <2>1 DEF IsText
  <2> QED BY <1>1, <2>1, <2>2
<1> QED BY <1>3 DEF IsText

LEMMA ComingType ==
  ASSUME TypeRest
  PROVE  /\ Coming \in Seq(Token)
         /\ readBuffer_ \o rx \in Seq(Token)
         /\ unsent \in Seq(Token)
         /\ Coming = (readBuffer_ \o rx) \o unsent
         /\ Len(Coming) = Len(readBuffer_ \o rx) + Len(unsent)
<1>1. readBuffer_ \o rx \in Seq(Token) /\ unsent \in Seq(Token)
  BY DEF TypeRest
<1> QED BY <1>1, ConcatIs DEF Coming

LEMMA WholeTextIsInvariant ==
  ASSUME IInv, TypeRest, WholeText(Coming), [Next]_vars
  PROVE  WholeText(Coming)'
<1>1. Coming \in Seq(Token) /\ Len(Coming) = Len(readBuffer_ \o rx) + Len(unsent)
      /\ readBuffer_ \o rx \in Seq(Token) /\ unsent \in Seq(Token)
  BY ComingType
<1>2. CASE UNCHANGED Coming
  BY <1>2 DEF WholeText, IsText
<1>3. ASSUME NEW r \in Request, Ask(r) PROVE WholeText(Coming)'
  <2>1. Coming' = Coming \o r
    BY <1>3, AskComes
  <2>2. WholeText(Coming \o r)
    BY <1>1, TextConcat
  <2> QED BY <2>1, <2>2 DEF WholeText, IsText
<1>4. ASSUME NEW n \in 1 .. Len(unsent), Arrive(n) PROVE WholeText(Coming)'
  BY <1>2, <1>4, ArriveComes
<1>5. CASE HttpGo
  <2>1. PICK m \in 0 .. Len(readBuffer_ \o rx) : Coming' = Consumed(Coming, m)
    BY <1>5, HttpGoComes
  <2>2. m \in 0 .. Len(Coming)
    BY <1>1
  <2>3. WholeText(Consumed(Coming, m))
    BY <1>1, <2>2, TextTake
  <2> QED BY <2>1, <2>3 DEF WholeText, IsText
<1>6. ASSUME NEW n \in 0 .. Len(writeBuffer_), SendPart(n) PROVE WholeText(Coming)'
  BY <1>2, <1>6, SendPartComes
<1>7. CASE SendAll
  BY <1>2, <1>7, SendAllComes
<1>8. CASE Enqueue \/ EnqueueRejected \/ HttpGoFails \/ UNCHANGED vars
  BY <1>2, <1>8 DEF Enqueue, EnqueueRejected, Report, HttpGoFails, vars, clientVars, Coming
<1> QED BY <1>3, <1>4, <1>5, <1>6, <1>7, <1>8 DEF Next, Client, Server

LEMMA InitWholeText == Init => WholeText(Coming)
<1> SUFFICES ASSUME Init PROVE WholeText(Coming)
  OBVIOUS
<1>1. Coming = <<>>
  BY DEF Init, Coming
<1> QED BY <1>1 DEF WholeText, IsText

(* In every state, and however long the data is, the loop of parseRequest  *)
(* would end after at most two iterations more than there are tokens, in   *)
(* what ParseRequest says, or it is in kGotAll and never ends              *)
(* (HttpContext.cpp:13-58).                                                *)
THEOREM LoopEndsAsSaid == Spec => []LoopComputes
<1>1. IInv /\ TypeRest /\ WholeText(Coming) /\ [Next]_vars
        => IInv' /\ TypeRest' /\ WholeText(Coming)'
  BY NextIInv, TypeRestIsInvariant, WholeTextIsInvariant
<1>2. IInv /\ TypeRest /\ WholeText(Coming) => LoopComputes
  <2> SUFFICES ASSUME IInv, TypeRest, WholeText(Coming) PROVE LoopComputes
    OBVIOUS
  <2> DEFINE data == readBuffer_ \o rx
  <2>1. data \in Seq(Token) /\ unsent \in Seq(Token) /\ Coming = data \o unsent
    BY ComingType
  <2>2. IsText(data)
    <3>1. IsText(data \o unsent)
      BY <2>1 DEF WholeText
    <3> QED BY <2>1, <3>1, TextPrefix
  <2>3. context \in Context /\ context.state_ # "kExpectHeaders"
    BY DEF IInv, TypeInv
  <2> HIDE DEF data
  <2>4. Loop(context, data) = ParseRequest(context, data)
    BY <2>1, <2>2, <2>3, LoopIsParseRequest
  <2> QED BY <2>4 DEF LoopComputes, data
<1> QED BY InitIInv, InitTypeRest, InitWholeText, <1>1, <1>2, PTL DEF Spec

-----------------------------------------------------------------------------
(* Bodies, and the empty lines that close the headers.                     *)

LEMMA RequestLineIs ==
  ASSUME NEW c \in Context, c.state_ = "kExpectRequestLine", NEW b \in Seq(Token)
  PROVE  /\ Ends(b) = {} => ParseRequest(c, b) = Result("returns", FALSE, c, b)
         /\ Ends(b) # {} /\ ~HasThreeWords(Line(b)) =>
              ParseRequest(c, b) = Result("returns", FALSE, c, AfterLine(b))
         /\ Ends(b) # {} /\ HasThreeWords(Line(b)) =>
              \E next \in Context :
                /\ next.state_ = "kExpectHeaders"
                /\ next.dict = c.dict
                /\ next.url = UrlOf(Line(b))
                /\ ParseRequest(c, b) = ParseHeaders(next, AfterLine(b))
<1>1. Ends(b) # {} => Crlf(b) = Min(Ends(b))
  BY FirstLine
<1> DEFINE next == [c EXCEPT !.state_ = "kExpectHeaders", !.url = UrlOf(Line(b))]
<1>2. ParseRequest(c, b) =
        IF Ends(b) = {} THEN Result("returns", FALSE, c, b)
        ELSE IF HasThreeWords(Line(b)) THEN ParseHeaders(next, AfterLine(b))
        ELSE Result("returns", FALSE, c, AfterLine(b))
  <2>1. CASE Ends(b) = {}
    BY <2>1 DEF ParseRequest, ParseRequestLine
  <2>2. CASE Ends(b) # {}
    BY <1>1, <2>2 DEF ParseRequest, ParseRequestLine, Line, AfterLine
  <2> QED BY <2>1, <2>2
<1>3. /\ next \in Context
      /\ next.state_ = "kExpectHeaders"
      /\ next.dict = c.dict
      /\ next.url = UrlOf(Line(b))
  <2>1. UrlOf(Line(b)) \in Url \cup {"unknown"}
    BY DEF UrlOf
  <2> QED BY <2>1 DEF Context, ParseState
<1> HIDE DEF next
<1> QED BY <1>2, <1>3

(* What ParseHeaders does, for a context as it was read.                   *)
LEMMA ReadHeaders ==
  ASSUME NEW d \in Context, d.state_ = "kExpectHeaders", NEW b \in Seq(Token)
  PROVE  \E body, all \in Context :
           /\ body.state_ = "kExpectBody" /\ all.state_ = "kGotAll"
           /\ body.dict = d.dict \cup Headers(b, LastRead(b))
           /\ all.dict = body.dict
           /\ body.url = d.url /\ all.url = d.url
           /\ ParseHeaders(d, b) =
                IF Others(b) # {} /\ "Content-Length" \in body.dict
                  THEN ParseBody(TRUE, body, Consumed(b, LastRead(b)))
                  ELSE Result("returns", TRUE, all, Consumed(b, LastRead(b)))
<1> DEFINE read == [d EXCEPT !.dict = @ \cup Headers(b, LastRead(b))]
           body == [read EXCEPT !.state_ = "kExpectBody"]
           all == [read EXCEPT !.state_ = "kGotAll"]
<1>1. read \in Context /\ read.dict = d.dict \cup Headers(b, LastRead(b)) /\ read.url = d.url
  BY DEF Context, Headers
<1>2. ParseHeaders(d, b) =
        IF Others(b) # {} /\ "Content-Length" \in read.dict
          THEN ParseBody(TRUE, body, Consumed(b, LastRead(b)))
          ELSE Result("returns", TRUE, all, Consumed(b, LastRead(b)))
  BY ParseHeadersIs
<1> HIDE DEF read
<1>3. /\ body \in Context /\ all \in Context
      /\ body.state_ = "kExpectBody" /\ all.state_ = "kGotAll"
      /\ body.dict = read.dict /\ all.dict = read.dict
      /\ body.url = read.url /\ all.url = read.url
  BY <1>1 DEF Context, ParseState
<1> HIDE DEF body, all
<1> QED BY <1>1, <1>2, <1>3

(* No body, and none announced.                                            *)
NoBody(b) == \A i \in 1 .. Len(b) : b[i] # "Content-Length" /\ b[i] # Body

LEMMA NoBodyReturns ==
  ASSUME NEW c \in Context, c.state_ = "kExpectRequestLine", "Content-Length" \notin c.dict,
         NEW b \in Seq(Token), NoBody(b)
  PROVE  LET result == ParseRequest(c, b)
         IN  /\ result.how = "returns"
             /\ \/ result.ok = TRUE /\ result.context.state_ = "kGotAll"
                \/ result.ok = FALSE /\ result.context = c
             /\ "Content-Length" \notin result.context.dict
<1>1. CASE Ends(b) = {}
  <2>1. ParseRequest(c, b) = Result("returns", FALSE, c, b)
    BY <1>1, RequestLineIs
  <2> QED BY <2>1 DEF Result
<1>2. CASE Ends(b) # {} /\ ~HasThreeWords(Line(b))
  <2>1. ParseRequest(c, b) = Result("returns", FALSE, c, AfterLine(b))
    BY <1>2, RequestLineIs
  <2> QED BY <2>1 DEF Result
<1>3. CASE Ends(b) # {} /\ HasThreeWords(Line(b))
  <2> DEFINE r == AfterLine(b)
  <2>1. PICK next \in Context :
          /\ next.state_ = "kExpectHeaders"
          /\ next.dict = c.dict
          /\ ParseRequest(c, b) = ParseHeaders(next, r)
    BY <1>3, RequestLineIs
  <2>2. /\ r \in Seq(Token)
        /\ \A i \in 1 .. Len(r) : r[i] # "Content-Length"
    <3>1. /\ r \in Seq(Token)
          /\ Len(r) = Len(b) - Crlf(b)
          /\ \A i \in 1 .. Len(b) - Crlf(b) : r[i] = b[Crlf(b) + i]
          /\ Crlf(b) \in 1 .. Len(b)
      BY <1>3, FirstLine
    <3>2. ASSUME NEW i \in 1 .. Len(r) PROVE r[i] # "Content-Length"
      <4>1. i \in 1 .. Len(b) - Crlf(b) /\ Crlf(b) + i \in 1 .. Len(b)
        BY <3>1
      <4> QED BY <3>1, <4>1 DEF NoBody
    <3> QED BY <3>1, <3>2
  <2> HIDE DEF r
  <2>3. PICK body \in Context, all \in Context :
          /\ body.state_ = "kExpectBody" /\ all.state_ = "kGotAll"
          /\ body.dict = next.dict \cup Headers(r, LastRead(r))
          /\ all.dict = body.dict
          /\ body.url = next.url /\ all.url = next.url
          /\ ParseHeaders(next, r) =
               IF Others(r) # {} /\ "Content-Length" \in body.dict
                 THEN ParseBody(TRUE, body, Consumed(r, LastRead(r)))
                 ELSE Result("returns", TRUE, all, Consumed(r, LastRead(r)))
    BY <2>1, <2>2, ReadHeaders
  <2>4. "Content-Length" \notin Headers(r, LastRead(r))
    <3>1. LastRead(r) \in 0 .. Len(r)
      BY <2>2, LastReadIs
    <3> QED BY <2>2, <3>1 DEF Headers
  <2>5. ParseRequest(c, b) = Result("returns", TRUE, all, Consumed(r, LastRead(r)))
    BY <2>1, <2>3, <2>4
  <2>6. "Content-Length" \notin all.dict
    BY <2>1, <2>3, <2>4
  <2> QED BY <2>3, <2>5, <2>6 DEF Result
<1> QED BY <1>1, <1>2, <1>3

(* Behind each line of text there are only headers, up to an empty line;   *)
(* behind that, the body that the text announces.                          *)
Text == Url \cup Header
ClosedAt(b, i, j) ==
  /\ b[j] = CRLF /\ b[j - 1] = CRLF
  /\ \A k \in i + 1 .. j - 1 : b[k] \in Header \/ (b[k] = CRLF /\ b[k - 1] \in Text)
  /\ b[i] = "Content-Length" => j + BodySize <= Len(b)
Closed(b) == \A i \in 1 .. Len(b) : b[i] \in Text => \E j \in i + 2 .. Len(b) : ClosedAt(b, i, j)

LEMMA ClosedTake ==
  ASSUME NEW b \in Seq(Token), Closed(b), NEW m \in 0 .. Len(b)
  PROVE  Closed(Consumed(b, m))
<1> DEFINE d == Consumed(b, m)
<1>1. d \in Seq(Token) /\ Len(d) = Len(b) - m /\ \A i \in 1 .. Len(b) - m : d[i] = b[m + i]
  BY ConsumedIs
<1> HIDE DEF d
<1>2. ASSUME NEW i \in 1 .. Len(d), d[i] \in Text
      PROVE  \E j \in i + 2 .. Len(d) : ClosedAt(d, i, j)
  <2>1. m + i \in 1 .. Len(b) /\ d[i] = b[m + i] /\ Len(b) \in Nat
    BY <1>1
  <2>2. PICK j \in (m + i) + 2 .. Len(b) : ClosedAt(b, m + i, j)
    BY <1>2, <2>1 DEF Closed
  <2>3. j - m \in i + 2 .. Len(d) /\ (j - m) - 1 \in 1 .. Len(b) - m
        /\ m + (j - m) = j /\ m + ((j - m) - 1) = j - 1 /\ j - m \in 1 .. Len(b) - m
    BY <1>1, <2>1
  <2>4. d[j - m] = CRLF /\ d[(j - m) - 1] = CRLF
    BY <1>1, <2>2, <2>3 DEF ClosedAt
  <2>5. ASSUME NEW k \in i + 1 .. (j - m) - 1
        PROVE  d[k] \in Header \/ (d[k] = CRLF /\ d[k - 1] \in Text)
    <3>1. /\ k \in 1 .. Len(b) - m /\ k - 1 \in 1 .. Len(b) - m
          /\ m + k \in (m + i) + 1 .. j - 1
          /\ m + (k - 1) = (m + k) - 1
      BY <1>1, <2>1, <2>3
    <3>2. d[k] = b[m + k] /\ d[k - 1] = b[(m + k) - 1]
      BY <1>1, <3>1
    <3> QED BY <2>2, <3>1, <3>2 DEF ClosedAt
  <2>6. d[i] = "Content-Length" => (j - m) + BodySize <= Len(d)
    BY <1>1, <2>1, <2>2, HttpContextAssumption DEF ClosedAt
  <2> QED BY <2>3, <2>4, <2>5, <2>6 DEF ClosedAt
<1>3. Closed(d)
  BY <1>2 DEF Closed
<1> QED BY <1>3 DEF d

LEMMA ClosedConcat ==
  ASSUME NEW b \in Seq(Token), Closed(b), NEW c \in Seq(Token), Closed(c)
  PROVE  Closed(b \o c)
<1> DEFINE d == b \o c
<1>1. /\ d \in Seq(Token) /\ Len(d) = Len(b) + Len(c)
      /\ \A i \in 1 .. Len(b) : d[i] = b[i]
      /\ \A i \in 1 .. Len(c) : d[Len(b) + i] = c[i]
  BY ConcatIs
<1> HIDE DEF d
<1>2. Len(b) \in Nat /\ Len(c) \in Nat
  OBVIOUS
<1>3. ASSUME NEW i \in 1 .. Len(d), d[i] \in Text
      PROVE  \E j \in i + 2 .. Len(d) : ClosedAt(d, i, j)
  <2>1. CASE i <= Len(b)
    <3>1. i \in 1 .. Len(b)
      BY <2>1
    <3>2. PICK j \in i + 2 .. Len(b) : ClosedAt(b, i, j)
      BY <1>1, <1>3, <3>1 DEF Closed
    <3>3. j \in i + 2 .. Len(d) /\ j \in 1 .. Len(b) /\ j - 1 \in 1 .. Len(b)
      BY <1>1, <1>2, <3>1
    <3>4. ASSUME NEW k \in i + 1 .. j - 1
          PROVE  d[k] \in Header \/ (d[k] = CRLF /\ d[k - 1] \in Text)
      <4>1. k \in 1 .. Len(b) /\ k - 1 \in 1 .. Len(b)
        BY <3>1, <3>3
      <4>2. d[k] = b[k] /\ d[k - 1] = b[k - 1]
        BY <1>1, <4>1
      <4> QED BY <3>2, <4>2 DEF ClosedAt
    <3>5. d[i] = "Content-Length" => j + BodySize <= Len(d)
      <4>1. d[i] = b[i]
        BY <1>1, <3>1
      <4> QED BY <1>1, <1>2, <3>2, <4>1, HttpContextAssumption DEF ClosedAt
    <3>6. d[j] = CRLF /\ d[j - 1] = CRLF
      BY <1>1, <3>2, <3>3 DEF ClosedAt
    <3> QED BY <3>3, <3>4, <3>5, <3>6 DEF ClosedAt
  <2>2. CASE i > Len(b)
    <3> DEFINE h == i - Len(b)
    <3>1. h \in 1 .. Len(c) /\ Len(b) + h = i
      BY <1>1, <1>2, <2>2
    <3> HIDE DEF h
    <3>2. d[i] = c[h]
      BY <1>1, <3>1
    <3>3. PICK j \in h + 2 .. Len(c) : ClosedAt(c, h, j)
      BY <1>3, <3>1, <3>2 DEF Closed
    <3>4. Len(b) + j \in i + 2 .. Len(d) /\ j \in 1 .. Len(c) /\ j - 1 \in 1 .. Len(c)
          /\ (Len(b) + j) - 1 = Len(b) + (j - 1)
      BY <1>1, <1>2, <3>1
    <3>5. ASSUME NEW k \in i + 1 .. (Len(b) + j) - 1
          PROVE  d[k] \in Header \/ (d[k] = CRLF /\ d[k - 1] \in Text)
      <4>1. /\ k - Len(b) \in h + 1 .. j - 1
            /\ k - Len(b) \in 1 .. Len(c) /\ (k - Len(b)) - 1 \in 1 .. Len(c)
            /\ Len(b) + (k - Len(b)) = k
            /\ Len(b) + ((k - Len(b)) - 1) = k - 1
        BY <1>2, <3>1, <3>4
      <4>2. d[k] = c[k - Len(b)] /\ d[k - 1] = c[(k - Len(b)) - 1]
        BY <1>1, <4>1
      <4> QED BY <3>3, <4>1, <4>2 DEF ClosedAt
    <3>6. d[i] = "Content-Length" => (Len(b) + j) + BodySize <= Len(d)
      BY <1>1, <1>2, <3>2, <3>3, HttpContextAssumption DEF ClosedAt
    <3>7. d[Len(b) + j] = CRLF /\ d[(Len(b) + j) - 1] = CRLF
      BY <1>1, <3>3, <3>4 DEF ClosedAt
    <3> QED BY <3>4, <3>5, <3>6, <3>7 DEF ClosedAt
  <2> QED BY <1>1, <1>2, <2>1, <2>2
<1>4. Closed(d)
  BY <1>3 DEF Closed
<1> QED BY <1>4 DEF d

LEMMA RequestIsClosed ==
  ASSUME NEW r \in Request
  PROVE  /\ Closed(r)
         /\ r[1] \in Text
         /\ "Content-Length" \notin ToSet(r) => NoBody(r)
<1>1. r \in Seq(Token)
  BY HttpConnAssumption
<1>2. PICK n \in 0 .. Len(r) :
        /\ r[1] \in Url \cup Header
        /\ \A k \in 1 .. n : r[2 * k + 1] \in Header
        /\ \A k \in 1 .. n + 1 : r[2 * k] = CRLF
        /\ r[2 * n + 3] = CRLF
        /\ \A i \in 2 * n + 4 .. Len(r) : r[i] = Body
        /\ Len(r) = 2 * n + 3 + (IF "Content-Length" \in ToSet(r) THEN BodySize ELSE 0)
  BY RequestAssumption DEF IsRequest
<1>3. Len(r) \in Nat /\ n \in Nat
  BY <1>1
<1>4. Len(r) >= 2 * n + 3
  BY <1>2, <1>3, HttpContextAssumption
<1>5. CRLF \notin Text /\ Body \notin Text /\ "Content-Length" \notin {CRLF, Body}
      /\ Body # CRLF
  BY HttpContextAssumption DEF CRLF, Body, Header, Text
<1>6. ASSUME NEW i \in 1 .. 2 * n + 2
      PROVE  \/ i # 1 /\ r[i] = CRLF /\ r[i - 1] \in Text
             \/ i = 1 /\ r[i] \in Text
             \/ i # 1 /\ r[i] \in Header
  <2>1. PICK k \in 1 .. n + 1 : i = 2 * k \/ i = 2 * k - 1
    <3>1. (i + 1) \div 2 \in 1 .. n + 1
          /\ (i = 2 * ((i + 1) \div 2) \/ i = 2 * ((i + 1) \div 2) - 1)
      BY <1>3
    <3> QED BY <3>1
  <2>2. k # 1 => k - 1 \in 1 .. n /\ 2 * (k - 1) + 1 = 2 * k - 1
    BY <1>3
  <2>3. k # 1 => r[2 * k - 1] \in Header
    BY <1>2, <2>2
  <2>4. k = 1 => 2 * k - 1 = 1
    OBVIOUS
  <2>5. r[2 * k - 1] \in Text
    BY <1>2, <2>3, <2>4 DEF Text
  <2>6. CASE i = 2 * k
    <3>1. i - 1 = 2 * k - 1 /\ i # 1
      BY <2>6
    <3> QED BY <1>2, <2>5, <2>6, <3>1
  <2>7. CASE i = 2 * k - 1
    <3>1. CASE k = 1
      BY <2>4, <2>5, <2>7, <3>1
    <3>2. CASE k # 1
      <4>1. 2 * k - 1 # 1
        BY <3>2
      <4> QED BY <2>3, <2>7, <3>2, <4>1
    <3> QED BY <3>1, <3>2
  <2> QED BY <2>1, <2>6, <2>7
<1>7. ASSUME NEW i \in 1 .. Len(r), r[i] \in Text
      PROVE  \E j \in i + 2 .. Len(r) : ClosedAt(r, i, j)
  <2>1. i <= 2 * n + 2
    BY <1>2, <1>3, <1>5, <1>7
  <2>2. i # 2 * n + 2
    <3>1. 2 * (n + 1) = 2 * n + 2 /\ n + 1 \in 1 .. n + 1
      BY <1>3
    <3>2. r[2 * n + 2] = CRLF
      BY <1>2, <3>1
    <3> QED BY <1>5, <1>7, <3>2
  <2> DEFINE j == 2 * n + 3
  <2>3. j \in i + 2 .. Len(r)
    BY <1>3, <1>4, <2>1, <2>2
  <2>4. r[j] = CRLF /\ r[j - 1] = CRLF
    <3>1. j - 1 = 2 * (n + 1) /\ n + 1 \in 1 .. n + 1
      BY <1>3
    <3> QED BY <1>2, <3>1
  <2>5. \A k \in i + 1 .. j - 1 : r[k] \in Header \/ (r[k] = CRLF /\ r[k - 1] \in Text)
    <3>1. \A k \in i + 1 .. j - 1 : k \in 1 .. 2 * n + 2 /\ k # 1
      BY <1>3
    <3>2. ASSUME NEW k \in i + 1 .. j - 1
          PROVE  r[k] \in Header \/ (r[k] = CRLF /\ r[k - 1] \in Text)
      <4>1. k \in 1 .. 2 * n + 2 /\ k # 1
        BY <3>1
      <4> QED BY <1>6, <4>1
    <3> QED BY <3>2
  <2>6. r[i] = "Content-Length" => j + BodySize <= Len(r)
    <3>1. r[i] = "Content-Length" => "Content-Length" \in ToSet(r)
      BY <1>1 DEF ToSet
    <3> QED BY <1>2, <1>3, <3>1, HttpContextAssumption
  <2> QED BY <2>3, <2>4, <2>5, <2>6 DEF ClosedAt
<1>8. ASSUME "Content-Length" \notin ToSet(r) PROVE NoBody(r)
  <2>1. Len(r) = 2 * n + 3
    BY <1>2, <1>3, <1>8
  <2>2. ASSUME NEW i \in 1 .. Len(r) PROVE r[i] # "Content-Length" /\ r[i] # Body
    <3>1. r[i] # "Content-Length"
      BY <1>1, <1>8 DEF ToSet
    <3>2. r[i] # Body
      <4>1. CASE i = 2 * n + 3
        BY <1>2, <1>5, <4>1
      <4>2. CASE i # 2 * n + 3
        <5>1. i \in 1 .. 2 * n + 2
          BY <1>3, <2>1, <4>2
        <5> QED BY <1>5, <1>6, <5>1 DEF Text
      <4> QED BY <4>1, <4>2
    <3> QED BY <3>1, <3>2
  <2> QED BY <2>2 DEF NoBody
<1> QED BY <1>2, <1>7, <1>8 DEF Closed, Text

(* Where a request line stands in front, processHeaders takes all up to    *)
(* the empty line that closes it, which is the first.                      *)
LEMMA LineIsClosed ==
  ASSUME NEW b \in Seq(Token), Closed(b), Ends(b) # {}, HasThreeWords(Line(b))
  PROVE  LET e == Crlf(b)
             r == AfterLine(b)
             j == e + LastRead(r)
         IN  /\ Others(r) # {}
             /\ j \in e + 1 .. Len(b)
             /\ b[j] = CRLF /\ b[j - 1] = CRLF
             /\ \A k \in e + 1 .. j - 1 : b[k] = CRLF => b[k - 1] # CRLF
             /\ e >= 2 /\ b[e - 1] \in Text
             /\ \A i \in 1 .. LastRead(r) : r[i] = "Content-Length" => j + BodySize <= Len(b)
<1> DEFINE e == Crlf(b)
           r == AfterLine(b)
           line == Line(b)
           j == e + LastRead(r)
<1>1. /\ e \in 1 .. Len(b)
      /\ b[e] = CRLF
      /\ Len(line) = e - 1
      /\ line \in Seq(Token)
      /\ \A i \in 1 .. e - 1 : line[i] = b[i]
      /\ r \in Seq(Token)
      /\ Len(r) = Len(b) - e
      /\ \A i \in 1 .. Len(b) - e : r[i] = b[e + i]
  BY FirstLine
<1>2. line # <<>> /\ line[Len(line)] \in Url \cup {"agent"}
  BY DEF HasThreeWords
<1>3. CRLF \notin Text /\ "agent" \in Text /\ Url \cap Header = {} /\ Header \subseteq Text
      /\ CRLF \notin Header
  BY HttpContextAssumption DEF CRLF, Header, Text
<1> HIDE DEF e, r, line
<1>4. Len(b) \in Nat
  OBVIOUS
<1>5. e >= 2 /\ b[e - 1] \in Text /\ e - 1 \in 1 .. Len(b)
  <2>1. e # 1
    BY <1>1, <1>2
  <2>2. e - 1 \in 1 .. e - 1 /\ e >= 2
    BY <1>1, <2>1
  <2>3. b[e - 1] \in Url \cup {"agent"}
    BY <1>1, <1>2, <2>2
  <2> QED BY <1>1, <1>3, <2>2, <2>3 DEF Text
<1>6. PICK q \in (e - 1) + 2 .. Len(b) : ClosedAt(b, e - 1, q)
  BY <1>5 DEF Closed
<1>7. /\ b[q] = CRLF /\ b[q - 1] = CRLF
      /\ \A k \in e .. q - 1 : b[k] \in Header \/ (b[k] = CRLF /\ b[k - 1] \in Text)
      /\ q \in e + 1 .. Len(b)
  <2>1. (e - 1) + 1 = e /\ (e - 1) + 2 = e + 1
    BY <1>1
  <2> QED BY <1>6, <2>1 DEF ClosedAt
<1>8. ASSUME NEW p \in e + 1 .. Len(b), b[p] = CRLF, b[p - 1] = CRLF
      PROVE  p - e \in Others(r)
  <2>1. p - e \in 1 .. Len(b) - e /\ e + (p - e) = p
    BY <1>1, <1>4
  <2>2. p - e \in Ends(r)
    BY <1>1, <1>8, <2>1 DEF Ends
  <2>3. p - e # 1 => r[(p - e) - 1] = b[p - 1]
    <3> SUFFICES ASSUME p - e # 1 PROVE r[(p - e) - 1] = b[p - 1]
      OBVIOUS
    <3>1. (p - e) - 1 \in 1 .. Len(b) - e /\ e + ((p - e) - 1) = p - 1
      BY <1>1, <2>1
    <3> QED BY <1>1, <3>1
  <2> QED BY <1>3, <1>8, <2>2, <2>3 DEF Others
<1>9. q - e \in Others(r)
  BY <1>7, <1>8
<1>10. LastRead(r) \in Others(r) /\ LastRead(r) \in 1 .. Len(r)
       /\ \A i \in Others(r) : LastRead(r) <= i
  <2>1. /\ LastRead(r) \in Others(r)
        /\ \A i \in Others(r) : LastRead(r) <= i
    BY <1>1, <1>9, LastReadIs
  <2>2. Others(r) \subseteq 1 .. Len(r)
    BY <1>1, EndsAre
  <2> QED BY <2>1, <2>2
<1>11. LastRead(r) = q - e
  <2> DEFINE p == e + LastRead(r)
  <2>1. LastRead(r) <= q - e
    BY <1>9, <1>10
  <2>2. p \in e + 1 .. q /\ LastRead(r) \in 1 .. Len(b) - e
    BY <1>1, <1>4, <1>7, <1>10, <2>1
  <2>3. r[LastRead(r)] = CRLF /\ (LastRead(r) = 1 \/ r[LastRead(r) - 1] \notin Header)
    BY <1>10 DEF Others, Ends
  <2>0. e + LastRead(r) = q => LastRead(r) = q - e
    BY <1>1, <1>4, <2>2
  <2>4. SUFFICES ASSUME p # q PROVE FALSE
    BY <2>0
  <2>5. p \in e .. q - 1 /\ p \in Nat /\ p > e
    BY <1>1, <1>7, <2>2, <2>4
  <2>6. b[p] = CRLF
    BY <1>1, <2>2, <2>3
  <2>7. b[p - 1] \in Text
    BY <1>3, <1>7, <2>5, <2>6
  <2>8. LastRead(r) # 1
    <3>1. LastRead(r) = 1 => p - 1 = e
      BY <1>1
    <3> QED BY <1>1, <1>3, <2>7, <3>1
  <2>9. LastRead(r) - 1 \in 1 .. Len(b) - e /\ e + (LastRead(r) - 1) = p - 1
    BY <1>1, <2>2, <2>8, SMTT(30)
  <2>10. b[p - 1] \notin Header
    BY <1>1, <2>3, <2>8, <2>9
  <2>11. p - 1 \in e .. q - 1
    BY <1>1, <2>5
  <2>12. b[p - 1] = CRLF
    BY <1>7, <2>10, <2>11
  <2> QED BY <1>3, <2>7, <2>12
<1>12. j = q
  BY <1>1, <1>7, <1>11
<1>13. \A k \in e + 1 .. j - 1 : b[k] = CRLF => b[k - 1] # CRLF
  <2>1. \A k \in e + 1 .. q - 1 : k \in e .. q - 1
    BY <1>1, <1>7
  <2> QED BY <1>3, <1>7, <1>12, <2>1
<1>14. ASSUME NEW i \in 1 .. LastRead(r), r[i] = "Content-Length" PROVE j + BodySize <= Len(b)
  <2>1. e + i \in 1 .. Len(b) /\ i \in 1 .. Len(b) - e
    BY <1>1, <1>4, <1>10, SMTT(30)
  <2>2. b[e + i] = "Content-Length" /\ b[e + i] \in Text
    BY <1>1, <1>14, <2>1 DEF Text, Header
  <2>3. PICK p \in (e + i) + 2 .. Len(b) : ClosedAt(b, e + i, p)
    BY <2>1, <2>2 DEF Closed
  <2>4. p \in e + 1 .. Len(b) /\ b[p] = CRLF /\ b[p - 1] = CRLF /\ p + BodySize <= Len(b)
    BY <1>1, <2>1, <2>2, <2>3 DEF ClosedAt
  <2>5. p - e >= LastRead(r)
    BY <1>8, <1>10, <2>4
  <2> QED BY <1>1, <1>4, <1>10, <2>4, <2>5, HttpContextAssumption, SMTT(30)
<1> HIDE DEF j
<1>15. /\ Others(r) # {}
       /\ j \in e + 1 .. Len(b)
       /\ b[j] = CRLF /\ b[j - 1] = CRLF
  BY <1>7, <1>9, <1>12
<1> QED BY <1>5, <1>13, <1>14, <1>15 DEF e, r, j

LEMMA ClosedReturns ==
  ASSUME NEW c \in Context, c.state_ = "kExpectRequestLine", c.dict = {},
         NEW b \in Seq(Token), Closed(b)
  PROVE  ParseRequest(c, b).how = "returns"
<1>1. CASE Ends(b) = {}
  BY <1>1, RequestLineIs DEF Result
<1>2. CASE Ends(b) # {} /\ ~HasThreeWords(Line(b))
  BY <1>2, RequestLineIs DEF Result
<1>3. CASE Ends(b) # {} /\ HasThreeWords(Line(b))
  <2> DEFINE r == AfterLine(b)
             rest == Consumed(r, LastRead(r))
  <2>1. PICK next \in Context :
          /\ next.state_ = "kExpectHeaders"
          /\ next.dict = c.dict
          /\ ParseRequest(c, b) = ParseHeaders(next, r)
    BY <1>3, RequestLineIs
  <2>2. r \in Seq(Token) /\ Len(r) = Len(b) - Crlf(b) /\ Crlf(b) \in 1 .. Len(b)
    BY <1>3, FirstLine
  <2>3. /\ Crlf(b) + LastRead(r) \in Crlf(b) + 1 .. Len(b)
        /\ \A i \in 1 .. LastRead(r) :
             r[i] = "Content-Length" => (Crlf(b) + LastRead(r)) + BodySize <= Len(b)
    BY <1>3, LineIsClosed
  <2> HIDE DEF r
  <2>4. PICK body \in Context, all \in Context :
          /\ body.state_ = "kExpectBody" /\ all.state_ = "kGotAll"
          /\ body.dict = next.dict \cup Headers(r, LastRead(r))
          /\ all.dict = body.dict
          /\ body.url = next.url /\ all.url = next.url
          /\ ParseHeaders(next, r) =
               IF Others(r) # {} /\ "Content-Length" \in body.dict
                 THEN ParseBody(TRUE, body, rest)
                 ELSE Result("returns", TRUE, all, rest)
    BY <2>1, <2>2, ReadHeaders
  <2>5. LastRead(r) \in 0 .. Len(r)
    BY <2>2, LastReadIs
  <2>6. Len(rest) = Len(r) - LastRead(r)
    BY <2>2, <2>5, ConsumedIs
  <2> HIDE DEF rest
  <2>7. CASE "Content-Length" \in body.dict
    <3>1. "Content-Length" \in Headers(r, LastRead(r))
      BY <2>1, <2>4, <2>7
    <3>2. (Crlf(b) + LastRead(r)) + BodySize <= Len(b)
      BY <2>3, <3>1 DEF Headers
    <3>3. ~ (Len(rest) < BodySize)
      BY <2>2, <2>5, <2>6, <3>2, HttpContextAssumption
    <3> QED BY <2>1, <2>4, <3>3 DEF ParseBody, Result
  <2>8. CASE "Content-Length" \notin body.dict
    BY <2>1, <2>4, <2>8 DEF Result
  <2> QED BY <2>7, <2>8
<1> QED BY <1>1, <1>2, <1>3

(* With requests that have no body nothing expects one; when they are sent *)
(* whole, what has arrived is closed, and begins with text.                *)
BeginsWithText(b) == b # <<>> => b[1] \in Text

BodyInv ==
  /\ NoBodies => /\ NoBody(Coming)
                 /\ "Content-Length" \notin context.dict
                 /\ context.state_ # "kExpectBody"
  /\ Whole => /\ Closed(readBuffer_ \o rx) /\ Closed(unsent)
              /\ BeginsWithText(rx) /\ BeginsWithText(unsent)
  /\ AbortsOnlyForLateBody

LEMMA NoBodyTake ==
  ASSUME NEW b \in Seq(Token), NoBody(b), NEW m \in 0 .. Len(b)
  PROVE  NoBody(Consumed(b, m))
<1> DEFINE d == Consumed(b, m)
<1>1. Len(d) = Len(b) - m /\ \A i \in 1 .. Len(b) - m : d[i] = b[m + i]
  BY ConsumedIs
<1> HIDE DEF d
<1>2. \A i \in 1 .. Len(d) : i \in 1 .. Len(b) - m /\ m + i \in 1 .. Len(b)
  BY <1>1
<1>3. NoBody(d)
  BY <1>1, <1>2 DEF NoBody
<1> QED BY <1>3 DEF d

LEMMA NoBodyConcat ==
  ASSUME NEW b \in Seq(Token), NEW c \in Seq(Token)
  PROVE  NoBody(b \o c) <=> NoBody(b) /\ NoBody(c)
<1> DEFINE d == b \o c
<1>1. /\ Len(d) = Len(b) + Len(c)
      /\ \A i \in 1 .. Len(b) : d[i] = b[i]
      /\ \A i \in 1 .. Len(c) : d[Len(b) + i] = c[i]
      /\ Len(b) \in Nat /\ Len(c) \in Nat
  BY ConcatIs
<1> HIDE DEF d
<1>2. ASSUME NoBody(d) PROVE NoBody(b) /\ NoBody(c)
  <2>1. \A i \in 1 .. Len(b) : i \in 1 .. Len(d)
    BY <1>1
  <2>2. \A i \in 1 .. Len(c) : Len(b) + i \in 1 .. Len(d)
    BY <1>1
  <2> QED BY <1>1, <1>2, <2>1, <2>2 DEF NoBody
<1>3. ASSUME NoBody(b), NoBody(c) PROVE NoBody(d)
  <2>1. ASSUME NEW i \in 1 .. Len(d) PROVE d[i] # "Content-Length" /\ d[i] # Body
    <3>1. CASE i <= Len(b)
      <4>1. i \in 1 .. Len(b)
        BY <1>1, <3>1
      <4> QED BY <1>1, <1>3, <4>1 DEF NoBody
    <3>2. CASE i > Len(b)
      <4>1. i - Len(b) \in 1 .. Len(c) /\ Len(b) + (i - Len(b)) = i
        BY <1>1, <3>2
      <4>2. d[i] = c[i - Len(b)]
        BY <1>1, <4>1
      <4> QED BY <1>3, <4>1, <4>2 DEF NoBody
    <3> QED BY <1>1, <3>1, <3>2
  <2> QED BY <2>1 DEF NoBody
<1> QED BY <1>2, <1>3 DEF d

LEMMA ComingNoBody ==
  ASSUME TypeRest, BodyInv, NoBodies
  PROVE  NoBody(readBuffer_ \o rx) /\ NoBody(unsent)
BY ComingType, NoBodyConcat DEF BodyInv

LEMMA AskBody ==
  ASSUME IInv, TypeRest, BodyInv, NEW r \in Request, Ask(r)
  PROVE  BodyInv'
<1>1. /\ asked' = Append(asked, r)
      /\ unsent' = r
      /\ UNCHANGED <<cuts, rx, state, readBuffer_, context>>
  BY DEF Ask
<1>2. NoBodies' => NoBodies /\ "Content-Length" \notin ToSet(r)
  <2> SUFFICES ASSUME NoBodies' PROVE NoBodies /\ "Content-Length" \notin ToSet(r)
    OBVIOUS
  <2>1. asked \in Seq(Request)
    BY DEF TypeRest
  <2>2. /\ \A k \in DOMAIN asked : k \in DOMAIN asked' /\ asked'[k] = asked[k]
        /\ Len(asked) + 1 \in DOMAIN asked' /\ asked'[Len(asked) + 1] = r
    BY <1>1, <2>1
  <2> QED BY <2>2 DEF NoBodies
<1>3. Closed(r) /\ r[1] \in Text /\ ("Content-Length" \notin ToSet(r) => NoBody(r))
      /\ r \in Seq(Token)
  BY RequestIsClosed, RequestLineIsFirst
<1>4. NoBodies' => NoBody(Coming)'
  <2> SUFFICES ASSUME NoBodies' PROVE NoBody(Coming)'
    OBVIOUS
  <2>1. Coming \in Seq(Token) /\ Coming' = Coming \o r /\ NoBody(Coming) /\ NoBody(r)
    BY <1>2, <1>3, AskComes DEF BodyInv
  <2>2. NoBody(Coming \o r)
    BY <1>3, <2>1, NoBodyConcat
  <2> QED BY <2>1, <2>2 DEF NoBody
<1>5. (NoBodies => NoBody(Coming) /\ "Content-Length" \notin context.dict
                   /\ context.state_ # "kExpectBody")'
  BY <1>1, <1>2, <1>4 DEF BodyInv
<1>6. (Whole => /\ Closed(readBuffer_ \o rx) /\ Closed(unsent)
                /\ BeginsWithText(rx) /\ BeginsWithText(unsent))'
  BY <1>1, <1>3 DEF BodyInv, Whole, BeginsWithText
<1>7. AbortsOnlyForLateBody'
  BY <1>1, <1>2 DEF BodyInv, AbortsOnlyForLateBody, Whole
<1> QED BY <1>5, <1>6, <1>7 DEF BodyInv

LEMMA ArriveBody ==
  ASSUME IInv, TypeRest, BodyInv, NEW n \in 1 .. Len(unsent), Arrive(n)
  PROVE  BodyInv'
<1>1. /\ IF n = Len(unsent) THEN UNCHANGED cuts ELSE cuts' = cuts + 1
      /\ rx' = rx \o SubSeq(unsent, 1, n)
      /\ unsent' = Consumed(unsent, n)
      /\ UNCHANGED <<asked, state, readBuffer_, context>>
  BY DEF Arrive
<1>2. rx \in Seq(Token) /\ readBuffer_ \in Seq(Token) /\ unsent \in Seq(Token)
      /\ readBuffer_ \o rx \in Seq(Token)
  BY ComingType DEF TypeRest
<1>3. NoBodies' <=> NoBodies
  BY <1>1 DEF NoBodies
<1>4. NoBody(Coming)' <=> NoBody(Coming)
  BY ArriveComes DEF NoBody
<1>5. (NoBodies => NoBody(Coming) /\ "Content-Length" \notin context.dict
                   /\ context.state_ # "kExpectBody")'
  BY <1>1, <1>3, <1>4 DEF BodyInv
<1>6. Whole' => Whole /\ n = Len(unsent)
  BY <1>1 DEF Whole, TypeRest
<1>7. (Whole => /\ Closed(readBuffer_ \o rx) /\ Closed(unsent)
                /\ BeginsWithText(rx) /\ BeginsWithText(unsent))'
  <2> SUFFICES ASSUME Whole'
               PROVE  /\ Closed(readBuffer_' \o rx') /\ Closed(unsent')
                      /\ BeginsWithText(rx') /\ BeginsWithText(unsent')
    OBVIOUS
  <2>1. /\ Whole /\ n = Len(unsent)
        /\ Closed(readBuffer_ \o rx) /\ Closed(unsent)
        /\ BeginsWithText(rx) /\ BeginsWithText(unsent)
    BY <1>6 DEF BodyInv
  <2>2. n \in 0 .. Len(unsent)
    BY <1>2
  <2>3. unsent' = <<>>
    <3>1. Consumed(unsent, n) \in Seq(Token) /\ Len(Consumed(unsent, n)) = 0
      BY <1>2, <2>1, <2>2, ConsumedIs
    <3> HIDE DEF Whole
    <3> QED BY <1>1, <3>1
  <2>4. SubSeq(unsent, 1, n) = unsent
    <3>1. /\ SubSeq(unsent, 1, n) \in Seq(Token)
          /\ SubSeq(unsent, 1, n) \o Consumed(unsent, n) = unsent
      BY <1>2, <2>2, PartsOf
    <3>2. Consumed(unsent, n) = <<>>
      BY <1>1, <2>3
    <3> QED BY <3>1, <3>2, EmptyConcat
  <2>5. rx' = rx \o unsent
    BY <1>1, <2>4
  <2>6. (readBuffer_ \o rx) \o unsent = readBuffer_ \o (rx \o unsent)
    <3>1. readBuffer_ \in Seq(Token) /\ rx \in Seq(Token) /\ unsent \in Seq(Token)
      BY <1>2
    <3> QED BY ONLY <3>1, ConcatAssociative, SMTT(30)
  <2>7. Closed((readBuffer_ \o rx) \o unsent)
    BY <1>2, <2>1, ClosedConcat
  <2>8. Closed(readBuffer_' \o rx')
    BY <1>1, <2>5, <2>6, <2>7
  <2>9. BeginsWithText(rx \o unsent)
    <3>1. CASE rx = <<>>
      <4>1. rx \o unsent = unsent
        BY <1>2, <3>1, EmptyConcat
      <4> QED BY <2>1, <4>1
    <3>2. CASE rx # <<>>
      <4>1. 1 \in 1 .. Len(rx)
        BY <1>2, <3>2
      <4>2. (rx \o unsent)[1] = rx[1]
        BY <1>2, <4>1, ConcatIs
      <4> QED BY <2>1, <3>2, <4>2 DEF BeginsWithText
    <3> QED BY <3>1, <3>2
  <2> QED BY <2>3, <2>5, <2>8, <2>9 DEF Closed, BeginsWithText
<1>8. AbortsOnlyForLateBody'
  <2>1. Whole' => Whole
    BY <1>6
  <2> QED BY <1>1, <1>3, <2>1 DEF BodyInv, AbortsOnlyForLateBody
<1> QED BY <1>5, <1>7, <1>8 DEF BodyInv

LEMMA HttpGoBody ==
  ASSUME IInv, TypeRest, BodyInv, HttpGo
  PROVE  BodyInv'
<1> DEFINE data == readBuffer_ \o rx
           result == ParseRequest(context, data)
           parsed == result.context
<1>1. /\ result.how = "returns"
      /\ \/ OnRequest(parsed)
         \/ ClientErrors(rx = <<>>, result.ok) /\ context' = parsed
      /\ rx' = <<>>
      /\ state = "kStart"
      /\ UNCHANGED <<asked, unsent, cuts, state>>
  BY DEF HttpGo, clientVars, Runs
<1>2. context \in Context /\ context.state_ # "kExpectHeaders"
  BY DEF IInv, TypeInv
<1>3. data \in Seq(Token)
  BY ComingType
<1>4. PICK m \in 0 .. Len(data) : readBuffer_' = Consumed(data, m)
  BY HttpGoTakes
<1>5. (NoBodies' <=> NoBodies) /\ (Whole' <=> Whole)
  BY <1>1 DEF NoBodies, Whole
<1>6. NoBodies => NoBody(Coming)'
  <2> SUFFICES ASSUME NoBodies PROVE NoBody(Coming)'
    OBVIOUS
  <2>1. PICK k \in 0 .. Len(data) : Coming' = Consumed(Coming, k)
    BY HttpGoComes
  <2>2. k \in 0 .. Len(Coming) /\ Coming \in Seq(Token)
    BY ComingType
  <2>3. NoBody(Consumed(Coming, k))
    BY <2>2, NoBodyTake DEF BodyInv
  <2> QED BY <2>1, <2>3 DEF NoBody
<1>7. parsed \in Context
  BY <1>1, <1>2, ParsedContext
<1>8. NoBodies => /\ "Content-Length" \notin parsed.dict
                  /\ parsed.state_ # "kExpectBody"
  <2> SUFFICES ASSUME NoBodies
               PROVE  "Content-Length" \notin parsed.dict /\ parsed.state_ # "kExpectBody"
    OBVIOUS
  <2>1. NoBody(data)
    BY ComingNoBody
  <2>2. context.state_ # "kGotAll"
    BY <1>1 DEF ParseRequest, Result
  <2>3. context.state_ = "kExpectRequestLine" /\ "Content-Length" \notin context.dict
    BY <1>2, <2>2 DEF BodyInv, Context, ParseState
  <2> HIDE DEF data
  <2>4. /\ \/ result.ok = TRUE /\ parsed.state_ = "kGotAll"
           \/ result.ok = FALSE /\ parsed = context
        /\ "Content-Length" \notin parsed.dict
    BY <1>2, <1>3, <2>1, <2>3, NoBodyReturns
  <2> HIDE DEF result, parsed
  <2> QED BY <2>3, <2>4
<1> HIDE DEF data, result, parsed
<1>9. NoBodies => /\ "Content-Length" \notin context'.dict
                  /\ context'.state_ # "kExpectBody"
  <2>1. CASE OnRequest(parsed)
    <3>1. context' = ResetContext(parsed)
      BY <2>1 DEF OnRequest
    <3> QED BY <1>7, <3>1, ResetIsFresh
  <2>2. CASE context' = parsed
    BY <1>8, <2>2
  <2> QED BY <1>1, <2>1, <2>2
<1>10. Whole => /\ Closed(readBuffer_' \o rx') /\ Closed(unsent')
                /\ BeginsWithText(rx') /\ BeginsWithText(unsent')
  <2> SUFFICES ASSUME Whole
               PROVE  /\ Closed(readBuffer_' \o rx') /\ Closed(unsent')
                      /\ BeginsWithText(rx') /\ BeginsWithText(unsent')
    OBVIOUS
  <2>1. Closed(data) /\ Closed(unsent) /\ BeginsWithText(unsent)
    BY DEF BodyInv, data
  <2>2. Closed(Consumed(data, m)) /\ Consumed(data, m) \in Seq(Token)
    BY <1>3, <2>1, ClosedTake, ConsumedIs
  <2>3. readBuffer_' \o rx' = Consumed(data, m)
    <3>1. readBuffer_' \o rx' = Consumed(data, m) \o <<>>
      BY <1>1, <1>4
    <3> QED BY <2>2, <3>1, EmptyConcat
  <2> QED BY <1>1, <2>1, <2>2, <2>3 DEF BeginsWithText
<1>11. AbortsOnlyForLateBody'
  BY <1>1 DEF AbortsOnlyForLateBody
<1> QED BY <1>5, <1>6, <1>9, <1>10, <1>11 DEF BodyInv

LEMMA FailsBody ==
  ASSUME IInv, TypeRest, BodyInv, HttpGoFails
  PROVE  /\ Whole /\ NoBodies => context.state_ = "kGotAll" /\ state' = "spins"
         /\ BodyInv'
<1> DEFINE data == readBuffer_ \o rx
           result == ParseRequest(context, data)
<1>1. /\ result.how # "returns"
      /\ state' = IF result.how = "aborts" THEN "aborted" ELSE "spins"
      /\ UNCHANGED <<asked, unsent, cuts, rx, readBuffer_, context>>
  BY DEF HttpGoFails, clientVars
<1>2. context \in Context /\ context.state_ # "kExpectHeaders"
      /\ (context.state_ = "kExpectRequestLine" => context.dict = {})
  BY DEF IInv, TypeInv, NoInheritedHeaders
<1>3. data \in Seq(Token)
  BY ComingType
<1>4. NoBodies => context.state_ = "kGotAll"
  <2> SUFFICES ASSUME NoBodies, context.state_ # "kGotAll" PROVE FALSE
    OBVIOUS
  <2>1. context.state_ = "kExpectRequestLine" /\ "Content-Length" \notin context.dict
    BY <1>2 DEF BodyInv, Context, ParseState
  <2>2. NoBody(data)
    BY ComingNoBody
  <2> HIDE DEF data
  <2> QED BY <1>1, <1>2, <1>3, <2>1, <2>2, NoBodyReturns
<1>5. Whole => context.state_ # "kExpectRequestLine"
  <2> SUFFICES ASSUME Whole, context.state_ = "kExpectRequestLine" PROVE FALSE
    OBVIOUS
  <2>1. Closed(data)
    BY DEF BodyInv
  <2> HIDE DEF data
  <2> QED BY <1>1, <1>2, <1>3, <2>1, ClosedReturns
<1>6. context.state_ = "kGotAll" => state' = "spins"
  BY <1>1 DEF ParseRequest, Result
<1> HIDE DEF data, result
<1>7. (NoBodies' <=> NoBodies) /\ (Whole' <=> Whole) /\ Coming' = Coming
  BY <1>1 DEF NoBodies, Whole, Coming
<1>8. AbortsOnlyForLateBody'
  <2> SUFFICES ASSUME state' = "aborted"
               PROVE  ~NoBodies /\ (~Whole \/ context.state_ = "kExpectBody")
    BY <1>1, <1>7 DEF AbortsOnlyForLateBody
  <2>1. context.state_ # "kGotAll"
    BY <1>6
  <2> QED BY <1>2, <1>4, <1>5, <2>1 DEF Context, ParseState
<1>9. BodyInv'
  BY <1>1, <1>7, <1>8 DEF BodyInv
<1> QED BY <1>4, <1>6, <1>9

LEMMA BodyInvIsInvariant ==
  ASSUME IInv, TypeRest, BodyInv, [Next]_vars
  PROVE  BodyInv'
<1>1. CASE /\ UNCHANGED <<asked, unsent, cuts, rx, readBuffer_, context>>
           /\ state' \in {state, "kClose"}
  <2>1. (NoBodies' <=> NoBodies) /\ (Whole' <=> Whole) /\ Coming' = Coming
    BY <1>1 DEF NoBodies, Whole, Coming
  <2>2. AbortsOnlyForLateBody'
    BY <1>1, <2>1 DEF BodyInv, AbortsOnlyForLateBody
  <2>3. /\ NoBodies' => NoBody(Coming)'
        /\ context' = context
    BY <1>1, <2>1 DEF BodyInv, NoBody
  <2>4. Whole' => Closed(readBuffer_ \o rx)' /\ Closed(unsent)'
    BY <1>1, <2>1 DEF BodyInv
  <2>5. Whole' => BeginsWithText(rx)' /\ BeginsWithText(unsent)'
    BY <1>1, <2>1 DEF BodyInv, BeginsWithText
  <2> QED BY <2>1, <2>2, <2>3, <2>4, <2>5 DEF BodyInv
<1>2. CASE Enqueue \/ EnqueueRejected \/ UNCHANGED vars
  BY <1>1, <1>2 DEF Enqueue, EnqueueRejected, Report, vars, clientVars
<1>3. ASSUME NEW n, SendPart(n) PROVE BodyInv'
  BY <1>1, <1>3 DEF SendPart, clientVars
<1>4. CASE SendAll
  BY <1>1, <1>4 DEF SendAll, clientVars
<1> QED BY <1>2, <1>3, <1>4, AskBody, ArriveBody, HttpGoBody, FailsBody DEF Next, Client, Server

LEMMA InitBodyInv == Init => BodyInv
<1> SUFFICES ASSUME Init PROVE BodyInv
  OBVIOUS
<1>1. Coming = <<>> /\ readBuffer_ \o rx = <<>> /\ rx = <<>> /\ unsent = <<>>
      /\ context = NewContext /\ state = "kStart"
  BY DEF Init, Coming
<1>2. NoBody(<<>>) /\ Closed(<<>>) /\ BeginsWithText(<<>>)
  BY DEF NoBody, Closed, BeginsWithText
<1>3. context.dict = {} /\ context.state_ = "kExpectRequestLine"
  BY <1>1 DEF NewContext
<1> QED BY <1>1, <1>2, <1>3 DEF BodyInv, AbortsOnlyForLateBody

(* The assertion of retrieveAsString (Buffer.h:129) holds as long as each  *)
(* body arrives with its head, for requests of any number and length,      *)
(* whatever of them was answered with an error page; when it has failed    *)
(* all the same, the parser took the data behind a body for another one    *)
(* (HttpContext.cpp:53).                                                   *)
THEOREM AbortsForLateBody == Spec => []AbortsOnlyForLateBody
<1>1. IInv /\ TypeRest /\ BodyInv /\ [Next]_vars => IInv' /\ TypeRest' /\ BodyInv'
  BY NextIInv, TypeRestIsInvariant, BodyInvIsInvariant
<1>2. BodyInv => AbortsOnlyForLateBody
  BY DEF BodyInv
<1> QED BY InitIInv, InitTypeRest, InitBodyInv, <1>1, <1>2, PTL DEF Spec

-----------------------------------------------------------------------------
(* The empty lines in a buffer.                                            *)

LEMMA ShiftedCardinality ==
  ASSUME NEW m \in Nat, NEW S \in SUBSET Nat, NEW T \in SUBSET Nat, IsFiniteSet(S),
         \A i \in S : m + i \in T,
         \A j \in T : j - m \in S
  PROVE  IsFiniteSet(T) /\ Cardinality(T) = Cardinality(S)
<1> DEFINE f == [i \in S |-> m + i]
<1>1. f \in [S -> T] /\ \A i \in S : f[i] = m + i
  OBVIOUS
<1> HIDE DEF f
<1>2. \A a, b \in S : f[a] = f[b] => a = b
  <2> SUFFICES ASSUME NEW a \in S, NEW b \in S, f[a] = f[b] PROVE a = b
    OBVIOUS
  <2>1. a \in Nat /\ b \in Nat /\ m + a = m + b
    BY <1>1
  <2> QED BY ONLY <2>1, m \in Nat
<1>3. \A t \in T : \E i \in S : f[i] = t
  <2> SUFFICES ASSUME NEW t \in T PROVE \E i \in S : f[i] = t
    OBVIOUS
  <2>1. t - m \in S /\ t \in Nat /\ m + (t - m) = t
    OBVIOUS
  <2>2. f[t - m] = t
    BY <1>1, <2>1
  <2> QED BY <2>1, <2>2
<1>4. f \in Bijection(S, T)
  BY <1>1, <1>2, <1>3 DEF Bijection, Injection, Surjection, IsInjective
<1>5. ExistsBijection(S, T)
  BY <1>4 DEF ExistsBijection
<1> QED BY <1>5, FS_Bijection

LEMMA SplitCardinality ==
  ASSUME NEW m \in Nat, NEW W \in SUBSET Nat, IsFiniteSet(W),
         NEW U \in SUBSET Nat, IsFiniteSet(U),
         \A u \in U : u >= 1 /\ m + u \in W,
         \A w \in W : w > m => w - m \in U
  PROVE  Cardinality(W) = Cardinality({w \in W : w <= m}) + Cardinality(U)
<1> DEFINE low == {w \in W : w <= m}
           high == {w \in W : w > m}
<1>1. IsFiniteSet(low) /\ IsFiniteSet(high)
  BY FS_Subset
<1>0. \A w \in Nat : (w <= m \/ w > m) /\ ~ (w <= m /\ w > m)
  OBVIOUS
<1>2. low \cup high = W /\ low \cap high = {}
  BY <1>0
<1>3. high \in SUBSET Nat /\ (\A i \in U : m + i \in high) /\ (\A j \in high : j - m \in U)
  <2>1. \A i \in U : m + i > m
    <3> SUFFICES ASSUME NEW i \in U PROVE m + i > m
      OBVIOUS
    <3>1. i \in Nat /\ i >= 1
      OBVIOUS
    <3> QED BY ONLY <3>1, m \in Nat
  <2> QED BY <2>1
<1> HIDE DEF low, high
<1>4. Cardinality(high) = Cardinality(U)
  BY <1>3, ShiftedCardinality
<1>5. Cardinality(low \cup high)
        = Cardinality(low) + Cardinality(high) - Cardinality(low \cap high)
  BY <1>1, FS_Union
<1>6. Cardinality(low \cap high) = 0
  BY <1>2, FS_EmptySet
<1>7. Cardinality(low) \in Nat /\ Cardinality(high) \in Nat
  BY <1>1, FS_CardinalityType
<1>8. Cardinality(W) = Cardinality(low) + Cardinality(high)
  <2>1. Cardinality(W) = Cardinality(low) + Cardinality(high) - Cardinality(low \cap high)
    BY <1>2, <1>5
  <2>2. Cardinality(W) = Cardinality(low) + (Cardinality(high) - 0)
    BY ONLY <2>1, <1>6
  <2> QED BY ONLY <2>2, <1>7
<1> QED BY <1>4, <1>8 DEF low

EmptyLines(b) == {i \in Ends(b) : i = 1 \/ b[i - 1] = CRLF}

LEMMA EmptyLinesAre ==
  ASSUME NEW b \in Seq(Token)
  PROVE  /\ EmptyLines(b) \in SUBSET (1 .. Len(b))
         /\ EmptyLines(b) \in SUBSET Nat
         /\ IsFiniteSet(EmptyLines(b))
         /\ Blanks(b) = Cardinality(EmptyLines(b))
         /\ Blanks(b) \in Nat
<1>1. EmptyLines(b) \in SUBSET (1 .. Len(b))
  BY EndsAre DEF EmptyLines
<1>2. IsFiniteSet(1 .. Len(b))
  <2>1. 1 \in Int /\ Len(b) \in Int
    OBVIOUS
  <2> QED BY <2>1, FS_Interval
<1>3. IsFiniteSet(EmptyLines(b))
  BY <1>1, <1>2, FS_Subset
<1>4. Blanks(b) = Cardinality(EmptyLines(b))
  BY DEF Blanks, EmptyLines
<1> QED BY <1>1, <1>3, <1>4, FS_CardinalityType

(* A buffer whose front is taken, up to the end of a line.                 *)
LEMMA BlanksTake ==
  ASSUME NEW b \in Seq(Token), NEW m \in 0 .. Len(b), m = 0 \/ b[m] = CRLF
  PROVE  Blanks(b) = Cardinality({i \in EmptyLines(b) : i <= m}) + Blanks(Consumed(b, m))
<1> DEFINE d == Consumed(b, m)
           W == EmptyLines(b)
           U == EmptyLines(d)
<1>1. d \in Seq(Token) /\ Len(d) = Len(b) - m /\ \A i \in 1 .. Len(b) - m : d[i] = b[m + i]
  BY ConsumedIs
<1> HIDE DEF d
<1>2. /\ W \in SUBSET Nat /\ IsFiniteSet(W) /\ Blanks(b) = Cardinality(W)
      /\ W \in SUBSET (1 .. Len(b))
  BY EmptyLinesAre
<1>3. /\ U \in SUBSET Nat /\ IsFiniteSet(U) /\ Blanks(d) = Cardinality(U)
      /\ U \in SUBSET (1 .. Len(d))
  BY <1>1, EmptyLinesAre
<1>4. m \in Nat /\ Len(b) \in Nat /\ DOMAIN b = 1 .. Len(b) /\ DOMAIN d = 1 .. Len(d)
  BY <1>1
<1>5. ASSUME NEW u \in U PROVE u >= 1 /\ m + u \in W
  <2>1. u \in 1 .. Len(b) - m /\ d[u] = CRLF /\ (u = 1 \/ d[u - 1] = CRLF)
    BY <1>1, <1>3, <1>4 DEF EmptyLines, Ends
  <2>2. m + u \in 1 .. Len(b) /\ b[m + u] = CRLF
    BY <1>1, <1>4, <2>1
  <2>3. m + u = 1 \/ b[(m + u) - 1] = CRLF
    <3>1. CASE u = 1
      <4>1. (m + u) - 1 = m
        BY <1>4, <3>1
      <4>2. m = 0 => m + u = 1
        BY <3>1
      <4> QED BY <4>1, <4>2
    <3>2. CASE u # 1
      <4>1. u - 1 \in 1 .. Len(b) - m /\ m + (u - 1) = (m + u) - 1
        BY <1>4, <2>1, <3>2
      <4> QED BY <1>1, <2>1, <3>2, <4>1
    <3> QED BY <3>1, <3>2
  <2> QED BY <1>4, <2>1, <2>2, <2>3 DEF EmptyLines, Ends
<1>6. ASSUME NEW w \in W, w > m PROVE w - m \in U
  <2>1. w \in 1 .. Len(b) /\ b[w] = CRLF /\ (w = 1 \/ b[w - 1] = CRLF)
    BY <1>2, <1>4 DEF EmptyLines, Ends
  <2>2. w - m \in 1 .. Len(b) - m /\ m + (w - m) = w
    BY <1>4, <1>6, <2>1
  <2>3. d[w - m] = CRLF
    BY <1>1, <2>1, <2>2
  <2>4. w - m = 1 \/ d[(w - m) - 1] = CRLF
    <3> SUFFICES ASSUME w - m # 1 PROVE d[(w - m) - 1] = CRLF
      OBVIOUS
    <3>1. (w - m) - 1 \in 1 .. Len(b) - m /\ m + ((w - m) - 1) = w - 1 /\ w # 1
      BY <1>4, <1>6, <2>1, <2>2
    <3> QED BY <1>1, <2>1, <3>1
  <2> QED BY <1>1, <1>4, <2>2, <2>3, <2>4 DEF EmptyLines, Ends
<1> HIDE DEF W, U
<1>7. Cardinality(W) = Cardinality({w \in W : w <= m}) + Cardinality(U)
  BY <1>2, <1>3, <1>4, <1>5, <1>6, SplitCardinality
<1> QED BY <1>2, <1>3, <1>7 DEF W, d

(* Two buffers, the second of which begins with no line end.               *)
LEMMA BlanksConcat ==
  ASSUME NEW b \in Seq(Token), NEW c \in Seq(Token), BeginsWithText(c)
  PROVE  Blanks(b \o c) = Blanks(b) + Blanks(c)
<1> DEFINE d == b \o c
           m == Len(b)
           W == EmptyLines(d)
           U == EmptyLines(c)
           V == EmptyLines(b)
<1>1. /\ d \in Seq(Token) /\ Len(d) = m + Len(c)
      /\ \A i \in 1 .. m : d[i] = b[i]
      /\ \A i \in 1 .. Len(c) : d[m + i] = c[i]
      /\ m \in Nat /\ Len(c) \in Nat
      /\ DOMAIN b = 1 .. m /\ DOMAIN c = 1 .. Len(c)
  BY ConcatIs
<1>2. CRLF \notin Text
  BY HttpContextAssumption DEF CRLF, Header, Text
<1> HIDE DEF d, m
<1>3. /\ W \in SUBSET Nat /\ IsFiniteSet(W) /\ Blanks(d) = Cardinality(W)
      /\ W \in SUBSET (1 .. Len(d)) /\ DOMAIN d = 1 .. Len(d)
  BY <1>1, EmptyLinesAre
<1>4. /\ U \in SUBSET Nat /\ IsFiniteSet(U) /\ Blanks(c) = Cardinality(U)
      /\ U \in SUBSET (1 .. Len(c))
  BY EmptyLinesAre
<1>5. Blanks(b) = Cardinality(V) /\ V \in SUBSET (1 .. m)
  BY EmptyLinesAre DEF m
<1>6. ASSUME NEW u \in U PROVE u >= 1 /\ m + u \in W
  <2>1. u \in 1 .. Len(c) /\ c[u] = CRLF /\ (u = 1 \/ c[u - 1] = CRLF)
    BY <1>1, <1>4 DEF EmptyLines, Ends
  <2>2. u # 1
    <3>1. c # <<>>
      BY <2>1
    <3> QED BY <1>2, <2>1, <3>1 DEF BeginsWithText
  <2>3. m + u \in 1 .. Len(d) /\ u - 1 \in 1 .. Len(c) /\ m + (u - 1) = (m + u) - 1
    BY <1>1, <2>1, <2>2
  <2>4. d[m + u] = CRLF /\ d[(m + u) - 1] = CRLF
    BY <1>1, <2>1, <2>2, <2>3
  <2> QED BY <1>3, <2>1, <2>3, <2>4 DEF EmptyLines, Ends
<1>7. ASSUME NEW w \in W, w > m PROVE w - m \in U
  <2>1. w \in 1 .. Len(d) /\ d[w] = CRLF /\ (w = 1 \/ d[w - 1] = CRLF)
    BY <1>3 DEF EmptyLines, Ends
  <2>2. w - m \in 1 .. Len(c) /\ m + (w - m) = w
    BY <1>1, <1>7, <2>1
  <2>3. c[w - m] = CRLF
    BY <1>1, <2>1, <2>2
  <2>4. w - m = 1 \/ c[(w - m) - 1] = CRLF
    <3> SUFFICES ASSUME w - m # 1 PROVE c[(w - m) - 1] = CRLF
      OBVIOUS
    <3>1. (w - m) - 1 \in 1 .. Len(c) /\ m + ((w - m) - 1) = w - 1 /\ w # 1
      BY <1>1, <1>7, <2>1, <2>2
    <3> QED BY <1>1, <2>1, <3>1
  <2> QED BY <1>1, <2>2, <2>3, <2>4 DEF EmptyLines, Ends
<1>8. {w \in W : w <= m} = V
  <2>1. ASSUME NEW i \in 1 .. m PROVE i \in W <=> i \in V
    <3>1. i \in 1 .. Len(d) /\ d[i] = b[i] /\ (i # 1 => i - 1 \in 1 .. m)
      BY <1>1
    <3>2. i # 1 => d[i - 1] = b[i - 1]
      BY <1>1, <3>1
    <3> QED BY <1>1, <1>3, <3>1, <3>2 DEF EmptyLines, Ends
  <2> HIDE DEF W, V
  <2>2. \A w \in W : w <= m => w \in 1 .. m
    BY <1>1, <1>3
  <2>3. \A v \in V : v \in 1 .. m /\ v <= m
    BY <1>1, <1>5
  <2> QED BY <2>1, <2>2, <2>3
<1> HIDE DEF W, U, V
<1>9. Cardinality(W) = Cardinality({w \in W : w <= m}) + Cardinality(U)
  BY <1>1, <1>3, <1>4, <1>6, <1>7, SplitCardinality
<1> QED BY <1>3, <1>4, <1>5, <1>8, <1>9 DEF d

(* One call, on data that is closed and without bodies: it takes nothing,  *)
(* a line, or a request with the empty line at its end.                    *)
LEMMA OneBlankIsTaken ==
  ASSUME NEW c \in Context, c.state_ = "kExpectRequestLine", "Content-Length" \notin c.dict,
         NEW b \in Seq(Token), NoBody(b), Closed(b)
  PROVE  LET result == ParseRequest(c, b)
         IN  \/ /\ result.ok = TRUE
                /\ result.context.state_ = "kGotAll"
                /\ Blanks(result.buf) = Blanks(b) - 1
             \/ /\ result.ok = FALSE
                /\ result.context = c
                /\ Blanks(result.buf) \in {Blanks(b), Blanks(b) - 1}
<1>0. Blanks(b) \in Nat
  BY EmptyLinesAre
<1>1. CASE Ends(b) = {}
  <2>1. ParseRequest(c, b) = Result("returns", FALSE, c, b)
    BY <1>1, RequestLineIs
  <2> QED BY <2>1 DEF Result
<1>2. ASSUME Ends(b) # {} PROVE 
        /\ Crlf(b) \in 0 .. Len(b)
        /\ b[Crlf(b)] = CRLF
        /\ AfterLine(b) = Consumed(b, Crlf(b))
        /\ Crlf(b) \in 1 .. Len(b)
        /\ \A i \in 1 .. Crlf(b) - 1 : i \notin EmptyLines(b)
  <2>1. /\ Crlf(b) \in 1 .. Len(b)
        /\ b[Crlf(b)] = CRLF
        /\ \A i \in 1 .. Crlf(b) - 1 : b[i] # CRLF
    BY <1>2, FirstLine
  <2>2. Crlf(b) \in 0 .. Len(b)
    BY <2>1
  <2> QED BY <2>1, <2>2 DEF AfterLine, EmptyLines, Ends
<1>3. CASE Ends(b) # {} /\ ~HasThreeWords(Line(b))
  <2> DEFINE e == Crlf(b)
             low == {i \in EmptyLines(b) : i <= e}
  <2>1. ParseRequest(c, b) = Result("returns", FALSE, c, AfterLine(b))
    BY <1>3, RequestLineIs
  <2>2. Blanks(b) = Cardinality(low) + Blanks(AfterLine(b))
    BY <1>2, <1>3, BlanksTake
  <2>3. Blanks(AfterLine(b)) \in Nat
    BY <1>3, FirstLine, EmptyLinesAre
  <2>4. low = {} \/ low = {e}
    BY <1>2, <1>3, EmptyLinesAre
  <2>5. Cardinality(low) \in {0, 1}
    BY <2>4, FS_EmptySet, FS_Singleton
  <2> HIDE DEF low, e
  <2>6. Blanks(AfterLine(b)) \in {Blanks(b), Blanks(b) - 1}
    BY <1>0, <2>2, <2>3, <2>5
  <2> QED BY <2>1, <2>6 DEF Result
<1>4. CASE Ends(b) # {} /\ HasThreeWords(Line(b))
  <2> DEFINE e == Crlf(b)
             r == AfterLine(b)
             j == e + LastRead(r)
             low == {i \in EmptyLines(b) : i <= j}
  <2>1. PICK next \in Context :
          /\ next.state_ = "kExpectHeaders"
          /\ next.dict = c.dict
          /\ ParseRequest(c, b) = ParseHeaders(next, r)
    BY <1>4, RequestLineIs
  <2>2. /\ r \in Seq(Token) /\ Len(r) = Len(b) - e /\ e \in 1 .. Len(b) /\ b[e] = CRLF
    BY <1>4, FirstLine
  <2>3. /\ j \in e + 1 .. Len(b)
        /\ b[j] = CRLF /\ b[j - 1] = CRLF
        /\ \A k \in e + 1 .. j - 1 : b[k] = CRLF => b[k - 1] # CRLF
        /\ e >= 2 /\ b[e - 1] \in Text
    BY <1>4, LineIsClosed
  <2>4. PICK body \in Context, all \in Context :
          /\ body.state_ = "kExpectBody" /\ all.state_ = "kGotAll"
          /\ body.dict = next.dict \cup Headers(r, LastRead(r))
          /\ all.dict = body.dict
          /\ body.url = next.url /\ all.url = next.url
          /\ ParseHeaders(next, r) =
               IF Others(r) # {} /\ "Content-Length" \in body.dict
                 THEN ParseBody(TRUE, body, Consumed(r, LastRead(r)))
                 ELSE Result("returns", TRUE, all, Consumed(r, LastRead(r)))
    <3> HIDE DEF r
    <3> QED BY <2>1, <2>2, ReadHeaders
  <2>5. LastRead(r) \in 0 .. Len(r)
    BY <2>2, LastReadIs
  <2>6. "Content-Length" \notin Headers(r, LastRead(r))
    <3>1. \A i \in 1 .. LastRead(r) : e + i \in 1 .. Len(b) /\ i \in 1 .. Len(b) - e
      <4> HIDE DEF e, r
      <4> QED BY <2>2, <2>5
    <3>2. \A i \in 1 .. LastRead(r) : r[i] = b[e + i]
      BY <1>4, <3>1, FirstLine
    <3> QED BY <3>1, <3>2 DEF Headers, NoBody
  <2>7. ParseRequest(c, b) = Result("returns", TRUE, all, Consumed(r, LastRead(r)))
    <3> HIDE DEF r, e
    <3> QED BY <2>1, <2>4, <2>6
  <2>8. Consumed(r, LastRead(r)) = Consumed(b, j)
    <3>1. e \in 0 .. Len(b) /\ LastRead(r) \in 0 .. Len(b) - e /\ r = Consumed(b, e)
      BY <2>2, <2>5 DEF AfterLine
    <3> HIDE DEF r, e
    <3> QED BY <3>1, ConsumedTwice
  <2>9. j \in 0 .. Len(b)
    <3> HIDE DEF j, e
    <3> QED BY <2>2, <2>3
  <2>10. Blanks(b) = Cardinality(low) + Blanks(Consumed(b, j))
    <3> HIDE DEF j
    <3> QED BY <2>3, <2>9, BlanksTake
  <2>11. low = {j}
    <3> HIDE DEF j, e, r
    <3>1. j \in EmptyLines(b)
      <4>1. j \in 1 .. Len(b)
        BY <2>2, <2>3
      <4> QED BY <2>3, <4>1 DEF EmptyLines, Ends
    <3>2. ASSUME NEW i \in EmptyLines(b), i <= j, i # j PROVE FALSE
      <4>1. i \in 1 .. Len(b) /\ b[i] = CRLF /\ (i = 1 \/ b[i - 1] = CRLF)
        BY EmptyLinesAre DEF EmptyLines, Ends
      <4>2. ~ (i \in 1 .. e - 1)
        BY <1>2, <1>4 DEF e
      <4>3. i # e
        <5>1. CRLF \notin Text
          BY HttpContextAssumption DEF CRLF, Header, Text
        <5> QED BY <2>2, <2>3, <4>1, <5>1
      <4>4. i \in e + 1 .. j - 1 /\ i # 1
        BY <2>2, <2>3, <3>2, <4>1, <4>2, <4>3
      <4> QED BY <2>3, <4>1, <4>4
    <3>3. \A i \in low : i = j
      BY <3>2
    <3>4. j \in low
      <4>1. j <= j
        BY <2>9
      <4> QED BY <3>1, <4>1
    <3> QED BY <3>3, <3>4
  <2>12. Cardinality(low) = 1
    BY <2>11, FS_Singleton
  <2>13. Blanks(Consumed(b, j)) \in Nat
    <3> HIDE DEF j
    <3> QED BY <2>9, ConsumedIs, EmptyLinesAre
  <2> HIDE DEF low, j, e, r
  <2>14. Blanks(Consumed(b, j)) = Blanks(b) - 1
    BY <1>0, <2>10, <2>12, <2>13
  <2> QED BY <2>4, <2>7, <2>8, <2>14 DEF Result, r
<1> QED BY <1>1, <1>3, <1>4

-----------------------------------------------------------------------------
(* What module HylChan says of a read.                                     *)

LEMMA HttpGoMatches ==
  ASSUME IInv, TypeRest, BodyInv, HttpGo, Whole, NoBodies
  PROVE  LET old == Blanks(readBuffer_)
             all == old + Blanks(rx)
             new == Blanks(readBuffer_')
         IN  /\ context.state_ = "kExpectRequestLine"
             /\ rx # <<>> =>
                  /\ context'.state_ = "kExpectRequestLine"
                  /\ \/ new = all - 1
                     \/ new = all /\ UNCHANGED <<filer, closing>>
             /\ rx = <<>> =>
                  /\ UNCHANGED <<filer, closing>>
                  /\ \/ new \in {old, old - 1} /\ UNCHANGED context
                     \/ new = old - 1 /\ context'.state_ = "kGotAll"
<1> DEFINE data == readBuffer_ \o rx
           result == ParseRequest(context, data)
           parsed == result.context
           old == Blanks(readBuffer_)
           all == old + Blanks(rx)
           new == Blanks(readBuffer_')
<1>1. /\ result.how = "returns"
      /\ readBuffer_' = result.buf
      /\ IF rx # <<>> /\ result.ok /\ parsed.state_ = "kGotAll"
           THEN OnRequest(parsed)
           ELSE ClientErrors(rx = <<>>, result.ok) /\ context' = parsed
  BY DEF HttpGo, Left
<1>2. /\ context \in Context /\ context.state_ # "kExpectHeaders"
      /\ readBuffer_ \in Seq(Token) /\ rx \in Seq(Token)
  BY DEF IInv, TypeInv, TypeRest
<1>3. data \in Seq(Token)
  BY ComingType
<1>4. NoBody(data) /\ Closed(data)
  BY ComingNoBody DEF BodyInv
<1>5. context.state_ = "kExpectRequestLine" /\ "Content-Length" \notin context.dict
  <2>1. context.state_ # "kGotAll"
    BY <1>1 DEF ParseRequest, Result
  <2> QED BY <1>2, <2>1 DEF BodyInv, Context, ParseState
<1>6. Blanks(data) = all
  BY <1>2, BlanksConcat DEF BodyInv
<1>7. rx = <<>> => all = old
  <2> SUFFICES ASSUME rx = <<>> PROVE all = old
    OBVIOUS
  <2>1. data = readBuffer_
    BY <1>2, EmptyConcat
  <2> QED BY <1>6, <2>1
<1> HIDE DEF data
<1>8. \/ /\ result.ok = TRUE
         /\ parsed.state_ = "kGotAll"
         /\ Blanks(result.buf) = Blanks(data) - 1
      \/ /\ result.ok = FALSE
         /\ parsed = context
         /\ Blanks(result.buf) \in {Blanks(data), Blanks(data) - 1}
  BY <1>2, <1>3, <1>4, <1>5, OneBlankIsTaken
<1> HIDE DEF result, parsed, old, all
<1>9. parsed \in Context
  BY <1>1, <1>2, ParsedContext DEF result, parsed, data
<1>10. CASE result.ok = TRUE /\ parsed.state_ = "kGotAll" /\ rx # <<>>
  <2>1. context' = ResetContext(parsed)
    BY <1>1, <1>10 DEF OnRequest
  <2>2. context'.state_ = "kExpectRequestLine"
    BY <1>9, <2>1, ResetIsFresh
  <2>3. new = all - 1
    BY <1>1, <1>5, <1>6, <1>8, <1>10
  <2> QED BY <1>5, <1>10, <2>2, <2>3 DEF old, all
<1>11. CASE ~(result.ok = TRUE /\ parsed.state_ = "kGotAll" /\ rx # <<>>)
  <2>1. ClientErrors(rx = <<>>, result.ok) /\ context' = parsed
    BY <1>1, <1>8, <1>11
  <2>2. UNCHANGED <<filer, closing>>
    BY <2>1 DEF ClientErrors, responseVars
  <2>3. new \in {all, all - 1}
    BY <1>1, <1>6, <1>8
  <2>4. parsed = context \/ (rx = <<>> /\ parsed.state_ = "kGotAll" /\ new = all - 1)
    BY <1>1, <1>6, <1>8, <1>11
  <2> HIDE DEF new
  <2> QED BY <1>5, <1>7, <2>1, <2>2, <2>3, <2>4 DEF old, all, new
<1> QED BY <1>10, <1>11 DEF old, all

(* With whole requests that have no body, a read does to a connection what *)
(* module HylChan says of it: it takes one of the requests at hand, for an *)
(* empty line is the end of each, or, when it answers an error page,       *)
(* perhaps none; a read that finds nothing may leave the parser in         *)
(* kGotAll, and only then does a later one not return (HttpConn.cpp:117-   *)
(* 156, HttpContext.cpp:13-58).                                            *)
THEOREM ReadsAreAsInHylChan == Spec => MatchesHylChan
<1>1. IInv /\ TypeRest /\ BodyInv /\ [Next]_vars => IInv' /\ TypeRest' /\ BodyInv'
  BY NextIInv, TypeRestIsInvariant, BodyInvIsInvariant
<1>2. IInv /\ TypeRest /\ BodyInv /\ [Next]_vars
        => [LET old == Blanks(readBuffer_)
                all == old + Blanks(rx)
                new == Blanks(readBuffer_')
            IN  Whole /\ NoBodies =>
                /\ HttpGo => context.state_ = "kExpectRequestLine"
                /\ HttpGo /\ rx # <<>> =>
                     /\ context'.state_ = "kExpectRequestLine"
                     /\ \/ new = all - 1
                        \/ new = all /\ UNCHANGED <<filer, closing>>
                /\ HttpGo /\ rx = <<>> =>
                     /\ UNCHANGED <<filer, closing>>
                     /\ \/ new \in {old, old - 1} /\ UNCHANGED context
                        \/ new = old - 1 /\ context'.state_ = "kGotAll"
                /\ HttpGoFails => context.state_ = "kGotAll" /\ state' = "spins"]_vars
  BY HttpGoMatches, FailsBody
<1> QED BY InitIInv, InitTypeRest, InitBodyInv, <1>1, <1>2, PTL DEF Spec, MatchesHylChan

-----------------------------------------------------------------------------
(* A client that waits: what is made of its request.                       *)

LEMMA RequestShape ==
  ASSUME NEW r \in Request, r[1] \in Url, "Content-Length" \notin ToSet(r)
  PROVE  /\ r \in Seq(Token) /\ Len(r) >= 3
         /\ r[2] = CRLF
         /\ \A i \in 1 .. Len(r) - 1 : r[i] = CRLF => i # 1 /\ r[i - 1] \in Text
         /\ \A i \in 2 .. Len(r) : r[i] \in Header => r[i - 1] = CRLF
<1>1. r \in Seq(Token)
  BY HttpConnAssumption
<1>2. PICK n \in 0 .. Len(r) :
        /\ r[1] \in Url \cup Header
        /\ \A k \in 1 .. n : r[2 * k + 1] \in Header
        /\ \A k \in 1 .. n + 1 : r[2 * k] = CRLF
        /\ r[2 * n + 3] = CRLF
        /\ \A i \in 2 * n + 4 .. Len(r) : r[i] = Body
        /\ Len(r) = 2 * n + 3 + (IF "Content-Length" \in ToSet(r) THEN BodySize ELSE 0)
  BY RequestAssumption DEF IsRequest
<1>3. Len(r) \in Nat /\ n \in Nat /\ Len(r) = 2 * n + 3
  BY <1>1, <1>2
<1>4. CRLF \notin Text /\ Header \subseteq Text
  BY HttpContextAssumption DEF CRLF, Header, Text
<1>5. r[2] = CRLF
  <2>1. 1 \in 1 .. n + 1 /\ 2 * 1 = 2
    BY <1>3
  <2> QED BY <1>2, <2>1
<1>6. ASSUME NEW i \in 1 .. 2 * n + 2
      PROVE  \/ i # 1 /\ r[i] = CRLF /\ r[i - 1] \in Text
             \/ r[i] \in Text /\ (i # 1 => r[i - 1] = CRLF)
  <2>1. PICK k \in 1 .. n + 1 : i = 2 * k \/ i = 2 * k - 1
    <3>1. (i + 1) \div 2 \in 1 .. n + 1
          /\ (i = 2 * ((i + 1) \div 2) \/ i = 2 * ((i + 1) \div 2) - 1)
      BY <1>3
    <3> QED BY <3>1
  <2>2. k # 1 => k - 1 \in 1 .. n /\ 2 * (k - 1) + 1 = 2 * k - 1
    BY <1>3
  <2>3. r[2 * k - 1] \in Text
    <3>1. k = 1 => 2 * k - 1 = 1
      OBVIOUS
    <3> QED BY <1>2, <2>2, <3>1 DEF Text
  <2>4. CASE i = 2 * k
    <3>1. i - 1 = 2 * k - 1 /\ i # 1
      BY <2>4
    <3> QED BY <1>2, <2>3, <2>4, <3>1
  <2>5. CASE i = 2 * k - 1
    <3>1. i # 1 => k # 1
      BY <2>5
    <3>2. k # 1 => k - 1 \in 1 .. n + 1 /\ i - 1 = 2 * (k - 1)
      BY <1>3, <2>5
    <3>3. i # 1 => r[i - 1] = CRLF
      BY <1>2, <3>1, <3>2
    <3> QED BY <2>3, <2>5, <3>3
  <2> QED BY <2>1, <2>4, <2>5
<1>7. ASSUME NEW i \in 1 .. Len(r) - 1, r[i] = CRLF PROVE i # 1 /\ r[i - 1] \in Text
  <2>1. i \in 1 .. 2 * n + 2
    BY <1>3
  <2> QED BY <1>4, <1>6, <1>7, <2>1
<1>8. ASSUME NEW i \in 2 .. Len(r), r[i] \in Header PROVE r[i - 1] = CRLF
  <2>1. i # 2 * n + 3
    BY <1>2, <1>4, <1>8
  <2>2. i \in 1 .. 2 * n + 2 /\ i # 1
    BY <1>3, <2>1
  <2> QED BY <1>4, <1>6, <1>8, <2>2
<1> QED BY <1>1, <1>3, <1>5, <1>7, <1>8

(* A whole request that begins with a request line and has no body, and    *)
(* nothing else: it is taken, and its url and headers are found.           *)
LEMMA WholeRequestIsRead ==
  ASSUME NEW r \in Request, r[1] \in Url, "Content-Length" \notin ToSet(r),
         NEW c \in Context, c.state_ = "kExpectRequestLine", c.dict = {}
  PROVE  LET result == ParseRequest(c, r)
         IN  /\ result.how = "returns"
             /\ result.ok = TRUE
             /\ result.buf = <<>>
             /\ result.context \in Context
             /\ result.context.state_ = "kGotAll"
             /\ result.context.url = r[1]
             /\ "keep-alive" \in result.context.dict <=> "keep-alive" \in ToSet(r)
<1> DEFINE b == AfterLine(r)
           last == LastRead(b)
<1>1. /\ r \in Seq(Token) /\ Len(r) >= 3 /\ Len(r) \in Nat
      /\ r[2] = CRLF
      /\ \A i \in 1 .. Len(r) - 1 : r[i] = CRLF => i # 1 /\ r[i - 1] \in Text
      /\ \A i \in 2 .. Len(r) : r[i] \in Header => r[i - 1] = CRLF
  BY RequestShape
<1>2. CRLF \notin Text /\ r[1] \in Text /\ r[1] \notin Header /\ CRLF \notin Header
  BY HttpContextAssumption DEF CRLF, Header, Text
<1>3. Ends(r) # {}
  <2>1. 2 \in DOMAIN r
    BY <1>1
  <2> QED BY <1>1, <2>1 DEF Ends
<1>4. /\ Crlf(r) \in 1 .. Len(r)
      /\ r[Crlf(r)] = CRLF
      /\ \A i \in 1 .. Crlf(r) - 1 : r[i] # CRLF
      /\ Line(r) \in Seq(Token)
      /\ Len(Line(r)) = Crlf(r) - 1
      /\ \A i \in 1 .. Crlf(r) - 1 : Line(r)[i] = r[i]
      /\ b \in Seq(Token)
      /\ Len(b) = Len(r) - Crlf(r)
      /\ \A i \in 1 .. Len(r) - Crlf(r) : b[i] = r[Crlf(r) + i]
  BY <1>1, <1>3, FirstLine
<1>5. Crlf(r) = 2
  <2>1. Crlf(r) # 1
    BY <1>2, <1>4
  <2>2. Crlf(r) > 2 => 2 \in 1 .. Crlf(r) - 1
    BY <1>4
  <2>3. ~ (Crlf(r) > 2)
    BY <1>1, <1>4, <2>2
  <2>4. Crlf(r) \in Nat /\ Crlf(r) >= 1
    BY <1>4
  <2> QED BY ONLY <2>1, <2>3, <2>4
<1>6. Len(Line(r)) = 1 /\ Line(r)[1] = r[1] /\ Line(r) # <<>>
  <2>1. 1 \in 1 .. Crlf(r) - 1 /\ Len(Line(r)) = 1
    BY <1>4, <1>5
  <2>2. Line(r)[1] = r[1]
    BY <1>4, <2>1
  <2> QED BY <2>1, <2>2
<1>7. HasThreeWords(Line(r)) /\ UrlOf(Line(r)) = r[1]
  BY <1>6 DEF HasThreeWords, UrlOf
<1>8. PICK next \in Context :
        /\ next.state_ = "kExpectHeaders"
        /\ next.dict = c.dict
        /\ next.url = UrlOf(Line(r))
        /\ ParseRequest(c, r) = ParseHeaders(next, b)
  BY <1>1, <1>3, <1>7, RequestLineIs
<1>9. PICK body \in Context, all \in Context :
        /\ body.state_ = "kExpectBody" /\ all.state_ = "kGotAll"
        /\ body.dict = next.dict \cup Headers(b, last)
        /\ all.dict = body.dict
        /\ body.url = next.url /\ all.url = next.url
        /\ ParseHeaders(next, b) =
             IF Others(b) # {} /\ "Content-Length" \in body.dict
               THEN ParseBody(TRUE, body, Consumed(b, last))
               ELSE Result("returns", TRUE, all, Consumed(b, last))
  <2> HIDE DEF b
  <2> QED BY <1>4, <1>8, ReadHeaders
<1>10. LET j == Crlf(r) + last
       IN  j \in Crlf(r) + 1 .. Len(r) /\ r[j] = CRLF /\ r[j - 1] = CRLF
  BY <1>1, <1>3, <1>7, RequestIsClosed, LineIsClosed
<1> HIDE DEF last, b
<1>11. last \in 0 .. Len(b)
  BY <1>4, LastReadIs DEF last
<1>12. last = Len(b)
  <2>1. (2 + last) \in 3 .. Len(r) /\ r[2 + last] = CRLF /\ r[(2 + last) - 1] = CRLF
    BY <1>5, <1>10
  <2>2. 2 + last \notin 1 .. Len(r) - 1
    BY <1>1, <1>2, <2>1
  <2>3. 2 + last = Len(r)
    BY <1>1, <1>11, <2>1, <2>2
  <2> QED BY <1>1, <1>4, <1>5, <1>11, <2>3
<1>13. Consumed(b, last) = <<>>
  <2>1. Consumed(b, last) \in Seq(Token) /\ Len(Consumed(b, last)) = Len(b) - last
    BY <1>4, <1>11, ConsumedIs
  <2>2. Len(Consumed(b, last)) = 0
    BY <1>4, <1>12, <2>1
  <2> QED BY <2>1, <2>2
<1>14. ASSUME NEW h \in Header PROVE h \in Headers(b, last) <=> h \in ToSet(r)
  <2>1. ASSUME h \in Headers(b, last) PROVE h \in ToSet(r)
    <3>1. PICK i \in 1 .. last : b[i] = h
      BY <2>1 DEF Headers
    <3>2. i \in 1 .. Len(r) - Crlf(r) /\ Crlf(r) + i \in 1 .. Len(r)
      BY <1>1, <1>4, <1>5, <1>11, <1>12
    <3>3. b[i] = r[Crlf(r) + i]
      BY <1>4, <3>2
    <3> QED BY <1>1, <3>1, <3>2, <3>3 DEF ToSet
  <2>2. ASSUME h \in ToSet(r) PROVE h \in Headers(b, last)
    <3>1. PICK i \in 1 .. Len(r) : r[i] = h
      BY <1>1, <2>2 DEF ToSet
    <3>2. i # 1 /\ i # 2
      BY <1>1, <1>2, <3>1
    <3>3. i - 2 \in 1 .. last /\ i \in 2 .. Len(r) /\ 2 + (i - 2) = i
          /\ i - 2 \in 1 .. Len(r) - Crlf(r)
      BY <1>1, <1>4, <1>5, <1>12, <3>1, <3>2
    <3>4. b[i - 2] = h
      BY <1>4, <1>5, <3>1, <3>3
    <3>5. i - 2 # 1 => b[(i - 2) - 1] = CRLF
      <4> SUFFICES ASSUME i - 2 # 1 PROVE b[(i - 2) - 1] = CRLF
        OBVIOUS
      <4>1. (i - 2) - 1 \in 1 .. Len(r) - Crlf(r) /\ 2 + ((i - 2) - 1) = i - 1
        BY <1>1, <1>5, <3>1, <3>2, <3>3, SMTT(30)
      <4>2. r[i - 1] = CRLF
        BY <1>1, <3>1, <3>3
      <4> QED BY <1>4, <1>5, <4>1, <4>2
    <3> QED BY <3>3, <3>4, <3>5 DEF Headers
  <2> QED BY <2>1, <2>2
<1>15. "Content-Length" \in Header /\ "keep-alive" \in Header
  BY DEF Header
<1>16. "Content-Length" \notin body.dict
  BY <1>8, <1>9, <1>14, <1>15
<1>17. "keep-alive" \in all.dict <=> "keep-alive" \in ToSet(r)
  BY <1>8, <1>9, <1>14, <1>15
<1>18. ParseRequest(c, r) = Result("returns", TRUE, all, <<>>)
  BY <1>8, <1>9, <1>13, <1>16
<1>19. /\ ParseRequest(c, r).how = "returns" /\ ParseRequest(c, r).ok = TRUE
       /\ ParseRequest(c, r).buf = <<>> /\ ParseRequest(c, r).context = all
  BY <1>18 DEF Result
<1>20. all.url = r[1]
  BY <1>7, <1>8, <1>9
<1> HIDE DEF Result
<1> QED BY <1>9, <1>17, <1>19, <1>20

-----------------------------------------------------------------------------
(* Counting responses.                                                     *)

NumberIn(out, i) == Cardinality(Responses(out) \cap 1 .. i)

LEMMA ResponsesAre ==
  ASSUME NEW S, NEW out \in Seq(S)
  PROVE  /\ Responses(out) \subseteq 1 .. Len(out)
         /\ IsFiniteSet(Responses(out))
         /\ Cardinality(Responses(out)) \in Nat
         /\ \A i \in Responses(out) : NumberIn(out, i) \in 1 .. Cardinality(Responses(out))
<1> DEFINE all == Responses(out)
<1>1. all \subseteq 1 .. Len(out)
  BY DEF Responses
<1>2. IsFiniteSet(1 .. Len(out))
  <2>1. 1 \in Int /\ Len(out) \in Int
    OBVIOUS
  <2> QED BY <2>1, FS_Interval
<1> HIDE DEF all
<1>3. IsFiniteSet(all) /\ Cardinality(all) \in Nat
  <2>1. IsFiniteSet(all)
    BY <1>1, <1>2, FS_Subset
  <2> QED BY <2>1, FS_CardinalityType
<1>4. ASSUME NEW i \in all PROVE Cardinality(all \cap 1 .. i) \in 1 .. Cardinality(all)
  <2> DEFINE some == all \cap 1 .. i
  <2>1. some \in SUBSET all /\ i \in some
    BY <1>1
  <2> HIDE DEF some
  <2>2. IsFiniteSet(some) /\ Cardinality(some) <= Cardinality(all)
    BY <1>3, <2>1, FS_Subset
  <2>3. Cardinality(some) \in Nat
    BY <2>2, FS_CardinalityType
  <2>4. Cardinality(some) # 0
    BY <2>1, <2>2, FS_EmptySet
  <2>5. Cardinality(some) \in 1 .. Cardinality(all)
    BY <1>3, <2>2, <2>3, <2>4
  <2> QED BY <2>5 DEF some
<1> QED BY <1>1, <1>3, <1>4 DEF all, NumberIn

LEMMA ResponsesAppend ==
  ASSUME NEW out \in Seq(Response \cup File), NEW item \in Response \cup File
  PROVE  LET more == Append(out, item)
             n == Len(out) + 1
         IN  /\ \A i \in 1 .. Len(out) : more[i] = out[i] /\ NumberIn(more, i) = NumberIn(out, i)
             /\ item \in Response =>
                  /\ Responses(more) = Responses(out) \cup {n}
                  /\ Cardinality(Responses(more)) = Cardinality(Responses(out)) + 1
                  /\ NumberIn(more, n) = Cardinality(Responses(out)) + 1
             /\ item \in File => Responses(more) = Responses(out)
<1> DEFINE more == Append(out, item)
           n == Len(out) + 1
<1>1. /\ Len(out) \in Nat /\ DOMAIN out = 1 .. Len(out)
      /\ DOMAIN more = 1 .. n
      /\ \A i \in 1 .. Len(out) : more[i] = out[i]
      /\ more[n] = item
      /\ n \notin 1 .. Len(out)
      /\ 1 .. n = 1 .. Len(out) \cup {n}
  OBVIOUS
<1> HIDE DEF more
<1>2. Responses(out) \subseteq 1 .. Len(out) /\ IsFiniteSet(Responses(out))
  BY ResponsesAre
<1>3. ASSUME NEW i \in 1 .. Len(out) PROVE i \in Responses(more) <=> i \in Responses(out)
  BY <1>1 DEF Responses
<1>4. item \in Response => n \in Responses(more)
  BY <1>1, ResponseOrFile DEF Responses
<1>5. item \in File => n \notin Responses(more)
  BY <1>1, ResponseOrFile DEF Responses
<1>6. Responses(more) \subseteq 1 .. Len(out) \cup {n}
  BY <1>1 DEF Responses
<1> HIDE DEF n
<1>7. item \in Response => Responses(more) = Responses(out) \cup {n}
  BY <1>2, <1>3, <1>4, <1>6
<1>8. item \in File => Responses(more) = Responses(out)
  BY <1>2, <1>3, <1>5, <1>6
<1>9. item \in Response => Cardinality(Responses(more)) = Cardinality(Responses(out)) + 1
  <2>1. n \notin Responses(out)
    BY <1>1, <1>2
  <2>2. Cardinality(Responses(out) \cup {n}) = Cardinality(Responses(out)) + 1
    BY <1>2, <2>1, FS_AddElement
  <2> QED BY <1>7, <2>2
<1>10. item \in Response => NumberIn(more, n) = Cardinality(Responses(out)) + 1
  <2> SUFFICES ASSUME item \in Response PROVE NumberIn(more, n) = Cardinality(Responses(out)) + 1
    OBVIOUS
  <2>1. Responses(more) \cap 1 .. n = Responses(more)
    BY <1>1, <1>6
  <2> QED BY <1>9, <2>1 DEF NumberIn
<1>11. ASSUME NEW i \in 1 .. Len(out) PROVE NumberIn(more, i) = NumberIn(out, i)
  <2>1. 1 .. i \subseteq 1 .. Len(out)
    OBVIOUS
  <2>2. Responses(more) \cap 1 .. i = Responses(out) \cap 1 .. i
    BY <1>3, <2>1
  <2> QED BY <2>2 DEF NumberIn
<1> QED BY <1>1, <1>7, <1>8, <1>9, <1>10, <1>11 DEF more, n

(* When no response is waiting to be sent, nothing is.                     *)
LEMMA AllSent ==
  ASSUME NEW a \in Seq(Response \cup File), NEW b \in Seq(Response)
  PROVE  /\ Cardinality(Responses(a)) <= Cardinality(Responses(a \o b))
         /\ Cardinality(Responses(a)) = Cardinality(Responses(a \o b)) => b = <<>>
<1> DEFINE c == a \o b
<1>1. /\ c \in Seq(Response \cup File)
      /\ Len(c) = Len(a) + Len(b)
      /\ \A i \in 1 .. Len(a) : c[i] = a[i]
      /\ \A i \in 1 .. Len(b) : c[Len(a) + i] = b[i]
      /\ Len(a) \in Nat /\ Len(b) \in Nat
  <2>1. b \in Seq(Response \cup File)
    OBVIOUS
  <2> QED BY <2>1, ConcatIs
<1> HIDE DEF c
<1>2. /\ Responses(a) \subseteq 1 .. Len(a)
      /\ IsFiniteSet(Responses(c))
  BY <1>1, ResponsesAre
<1>3. Responses(a) \in SUBSET Responses(c)
  <2>1. ASSUME NEW i \in Responses(a) PROVE i \in Responses(c)
    <3>1. i \in 1 .. Len(a) /\ i \in 1 .. Len(c)
      BY <1>1, <1>2
    <3> QED BY <1>1, <3>1 DEF Responses
  <2> QED BY <2>1
<1>4. b # <<>> => \E i \in Responses(c) : i \notin Responses(a)
  <2> SUFFICES ASSUME b # <<>> PROVE \E i \in Responses(c) : i \notin Responses(a)
    OBVIOUS
  <2>1. 1 \in 1 .. Len(b) /\ b[1] \in Response
    OBVIOUS
  <2>2. Len(a) + 1 \in 1 .. Len(c) /\ c[Len(a) + 1] = b[1] /\ Len(a) + 1 \notin 1 .. Len(a)
    BY <1>1, <2>1
  <2>3. Len(a) + 1 \in Responses(c)
    BY <1>1, <2>1, <2>2, ResponseOrFile DEF Responses
  <2> QED BY <1>2, <2>2, <2>3
<1>5. /\ Cardinality(Responses(a)) <= Cardinality(Responses(c))
      /\ Cardinality(Responses(c)) = Cardinality(Responses(a)) => Responses(c) = Responses(a)
  BY <1>2, <1>3, FS_Subset
<1> QED BY <1>4, <1>5 DEF c

-----------------------------------------------------------------------------
(* The connection of a client that sends whole requests without bodies and *)
(* waits for each response.                                                *)

(* The last request is on its way or in the socket, or it was answered.    *)
Pending ==
  /\ asked # <<>>
  /\ writeBuffer_ = <<>>
  /\ Cardinality(Responses(Output)) = Len(asked) - 1
  /\ \/ unsent = asked[Len(asked)] /\ rx = <<>>
     \/ unsent = <<>> /\ rx = asked[Len(asked)]

Answered ==
  unsent = <<>> /\ rx = <<>> /\ Cardinality(Responses(Output)) = Len(asked)

OneTask ==
  /\ tasks \in {<<>>, <<"read">>, <<"write">>}
  /\ tasks # <<>> => interest = "none" \/ (interest = "first" /\ tasks = <<"read">>)
  /\ tasks = <<"read">> => rx # <<>> /\ edge = FALSE
  /\ edge = TRUE => interest = "first" /\ rx # <<>>

(* The connection has come to a file, which is never finished.             *)
Sending == filer # None /\ Answer[filer] = "file"

HeadsOnly(out, n) == \A i \in 1 .. n : IsResponse(out[i]) /\ out[i].announced = 0

(* The response number m is the one that announces the file.               *)
Announces(out, m) ==
  /\ m = Len(out) \/ (m + 1 = Len(out) /\ out[m + 1] = [file |-> filer])
  /\ IsResponse(out[m])
  /\ out[m].status = "200"
  /\ out[m].url = filer
  /\ out[m].announced = 1
  /\ HeadsOnly(out, m - 1)

Framed(out) ==
  /\ Sending => /\ interest \in {"OUT", "none"}
                /\ tasks # <<"read">>
                /\ \E m \in 1 .. Len(out) : Announces(out, m)
  /\ ~Sending => fileSize_ = 0 /\ HeadsOnly(out, Len(out))

WellInv ==
  WellBehaved =>
    /\ readBuffer_ = <<>>
    /\ context.state_ = "kExpectRequestLine"
    /\ Pending \/ Answered
    /\ OneTask
    /\ Framed(Output)
    /\ AnswersInOrder

LEMMA InitWellInv == Init => WellInv
<1> SUFFICES ASSUME Init PROVE WellInv
  OBVIOUS
<1>1. Output = <<>> /\ Responses(<<>>) = {} /\ Cardinality({}) = 0 /\ Len(<<>>) = 0
  BY FS_EmptySet DEF Init, Output, Responses
<1>2. Answered
  BY <1>1 DEF Init, Answered
<1>3. OneTask
  BY DEF Init, OneTask
<1>4. ~Sending /\ HeadsOnly(<<>>, 0) /\ fileSize_ = 0
  BY DEF Init, Sending, HeadsOnly
<1>5. AnswersInOrder
  BY <1>1 DEF AnswersInOrder
<1>6. readBuffer_ = <<>> /\ context.state_ = "kExpectRequestLine"
  BY DEF Init, NewContext
<1> QED BY <1>1, <1>2, <1>3, <1>4, <1>5, <1>6 DEF WellInv, Framed

(* Who behaves now has always done so.                                     *)
LEMMA AlwaysWellBehaved ==
  ASSUME TypeRest, [Next]_vars, WellBehaved'
  PROVE  WellBehaved
<1>1. CASE UNCHANGED clientVars
  BY <1>1 DEF clientVars, WellBehaved, Whole, NoBodies
<1>2. ASSUME NEW r \in Request, Ask(r) PROVE WellBehaved
  <2>1. /\ asked' = Append(asked, r) /\ cuts' = cuts
        /\ patient' => patient
        /\ asked \in Seq(Request)
    BY <1>2 DEF Ask, TypeRest
  <2>2. /\ DOMAIN asked \subseteq DOMAIN asked'
        /\ \A k \in DOMAIN asked : asked'[k] = asked[k]
    <3>1. DOMAIN asked = 1 .. Len(asked) /\ DOMAIN Append(asked, r) = 1 .. Len(asked) + 1
      BY <2>1
    <3>2. Len(asked) \in Nat
      BY <2>1
    <3>3. \A k \in 1 .. Len(asked) : k \in 1 .. Len(asked) + 1 /\ Append(asked, r)[k] = asked[k]
      BY <2>1, <3>2
    <3> QED BY <2>1, <3>1, <3>3
  <2>3. NoBodies' => NoBodies
    BY <2>2 DEF NoBodies
  <2>4. (\A k \in DOMAIN asked' : Head(asked'[k]) \in Url)
          => \A k \in DOMAIN asked : Head(asked[k]) \in Url
    BY <2>2
  <2> QED BY <2>1, <2>3, <2>4 DEF WellBehaved, Whole
<1>3. ASSUME NEW n \in 1 .. Len(unsent), Arrive(n) PROVE WellBehaved
  <2>1. /\ asked' = asked /\ patient' = patient
        /\ cuts' = cuts \/ cuts' = cuts + 1
        /\ cuts \in Nat
    BY <1>3, HttpConnAssumption DEF Arrive, TypeRest
  <2>2. cuts' = 0 => cuts = 0
    BY <2>1
  <2> QED BY <2>1, <2>2 DEF WellBehaved, Whole, NoBodies
<1>4. CASE Server
  BY <1>1, <1>4 DEF Server, Enqueue, EnqueueRejected, Report, HttpGo, HttpGoFails, SendPart, SendAll
<1>5. CASE UNCHANGED vars
  BY <1>1, <1>5 DEF vars
<1> QED BY <1>2, <1>3, <1>4, <1>5 DEF Next, Client

(* AnswersInOrder, with the numbers of the responses written out.          *)
LEMMA AnswersInOrderIs ==
  AnswersInOrder <=>
    (WellBehaved =>
       \A i \in Responses(Output) :
         /\ NumberIn(Output, i) <= Len(asked)
         /\ Output[i].url = Head(asked[NumberIn(Output, i)])
         /\ Output[i].close <=> "keep-alive" \notin ToSet(asked[NumberIn(Output, i)]))
BY DEF AnswersInOrder, Number, NumberIn

LEMMA AskWell ==
  ASSUME IInv, TypeRest, WellInv, WellBehaved, NEW r \in Request, Ask(r), WellBehaved'
  PROVE  WellInv'
<1>1. /\ unsent = <<>> /\ asked' = Append(asked, r) /\ unsent' = r
      /\ patient' = (patient /\ Cardinality(Responses(wire)) >= Len(asked))
      /\ UNCHANGED <<rx, interest, edge, tasks, readBuffer_, context, fileSize_,
                     writeBuffer_, filer, wire>>
  BY DEF Ask, taskVars, responseVars
<1>2. /\ asked \in Seq(Request) /\ Len(asked) \in Nat
      /\ wire \in Seq(Response \cup File) /\ writeBuffer_ \in Seq(Response)
      /\ Output \in Seq(Response \cup File)
  BY OutputType DEF IInv, TypeInv, TypeRest
<1>3. /\ Cardinality(Responses(wire)) \in Nat
      /\ Cardinality(Responses(Output)) \in Nat
      /\ \A i \in Responses(Output) : NumberIn(Output, i) \in 1 .. Cardinality(Responses(Output))
  BY <1>2, ResponsesAre
<1>4. Cardinality(Responses(wire)) >= Len(asked)
  BY <1>1 DEF WellBehaved
<1>5. /\ Cardinality(Responses(wire)) <= Cardinality(Responses(Output))
      /\ Cardinality(Responses(wire)) = Cardinality(Responses(Output)) => writeBuffer_ = <<>>
  BY <1>2, AllSent DEF Output
<1>6. Answered
  <2>1. ~Pending
    BY <1>2, <1>3, <1>4, <1>5 DEF Pending
  <2> QED BY <2>1 DEF WellInv
<1>7. /\ Cardinality(Responses(Output)) = Len(asked) /\ rx = <<>>
      /\ Cardinality(Responses(wire)) = Cardinality(Responses(Output))
  BY <1>2, <1>3, <1>4, <1>5, <1>6 DEF Answered
<1>8. Output' = Output
  BY <1>1 DEF Output
<1>9. /\ Len(asked') = Len(asked) + 1 /\ asked' # <<>> /\ asked'[Len(asked')] = r
      /\ \A k \in 1 .. Len(asked) : asked'[k] = asked[k]
  BY <1>1, <1>2, SMTT(30)
<1>10. Pending'
  BY <1>1, <1>2, <1>5, <1>7, <1>8, <1>9 DEF Pending
<1>11. OneTask'
  BY <1>1 DEF WellInv, OneTask
<1>12. Framed(Output)'
  BY <1>1, <1>8 DEF WellInv, Framed, Sending, HeadsOnly, Announces
<1>13. ASSUME NEW i \in Responses(Output)
       PROVE  /\ NumberIn(Output, i) <= Len(asked')
              /\ Output[i].url = Head(asked'[NumberIn(Output, i)])
              /\ Output[i].close <=> "keep-alive" \notin ToSet(asked'[NumberIn(Output, i)])
  <2>1. NumberIn(Output, i) \in 1 .. Len(asked)
    BY <1>3, <1>7
  <2>2. asked'[NumberIn(Output, i)] = asked[NumberIn(Output, i)]
    BY <1>9, <2>1
  <2>3. NumberIn(Output, i) <= Len(asked')
    BY <1>2, <1>9, <2>1
  <2> QED BY <2>2, <2>3, AnswersInOrderIs DEF WellInv
<1>14. AnswersInOrder'
  BY <1>8, <1>13 DEF AnswersInOrder, Number, NumberIn
<1> QED BY <1>1, <1>10, <1>11, <1>12, <1>14 DEF WellInv

LEMMA ArriveWell ==
  ASSUME IInv, TypeRest, WellInv, WellBehaved, NEW n \in 1 .. Len(unsent), Arrive(n), WellBehaved'
  PROVE  WellInv'
<1>1. /\ IF n = Len(unsent) THEN UNCHANGED cuts ELSE cuts' = cuts + 1
      /\ rx' = rx \o SubSeq(unsent, 1, n)
      /\ unsent' = Consumed(unsent, n)
      /\ edge' = (interest = "first")
      /\ UNCHANGED <<asked, interest, tasks, readBuffer_, context, fileSize_,
                     writeBuffer_, filer, wire>>
  BY DEF Arrive, responseVars
<1>2. unsent \in Seq(Token) /\ cuts = 0 /\ cuts' = 0
  BY DEF TypeRest, WellBehaved, Whole
<1>3. n = Len(unsent)
  BY <1>1, <1>2
<1>4. unsent # <<>>
  BY <1>2
<1>5. Pending /\ unsent = asked[Len(asked)] /\ rx = <<>>
  BY <1>4 DEF WellInv, Pending, Answered
<1>6. SubSeq(unsent, 1, n) = unsent
  BY <1>2, <1>3
<1>7. rx' = unsent
  BY <1>1, <1>2, <1>5, <1>6, EmptyConcat
<1>8. unsent' = <<>>
  BY <1>1, <1>2, <1>3 DEF Consumed
<1>9. Output' = Output
  BY <1>1 DEF Output
<1>10. Pending'
  BY <1>1, <1>5, <1>7, <1>8, <1>9 DEF Pending
<1>11. OneTask'
  <2>1. tasks # <<"read">> /\ rx' # <<>>
    BY <1>4, <1>5, <1>7 DEF WellInv, OneTask
  <2> QED BY <1>1, <2>1 DEF WellInv, OneTask
<1>12. Framed(Output)'
  BY <1>1, <1>9 DEF WellInv, Framed, Sending, HeadsOnly, Announces
<1>13. AnswersInOrder'
  BY <1>1, <1>9 DEF WellInv, AnswersInOrder, Number
<1> QED BY <1>1, <1>10, <1>11, <1>12, <1>13 DEF WellInv

LEMMA EnqueueWell ==
  ASSUME WellInv, WellBehaved, Enqueue \/ EnqueueRejected
  PROVE  WellInv'
<1>1. /\ \/ interest = "first" /\ edge
         \/ interest = "IN" /\ rx # <<>>
         \/ interest = "OUT"
      /\ \/ tasks' = tasks
         \/ tasks' = Append(tasks, IF interest = "OUT" THEN "write" ELSE "read")
      /\ interest' = IF interest = "first" THEN "first" ELSE "none"
      /\ edge' = FALSE
      /\ UNCHANGED <<asked, unsent, rx, readBuffer_, context, fileSize_,
                     writeBuffer_, filer, wire>>
  BY DEF Enqueue, EnqueueRejected, Report, clientVars, responseVars
<1>2. Output' = Output
  BY <1>1 DEF Output
<1>3. tasks = <<>> /\ OneTask
  BY <1>1 DEF WellInv, OneTask
<1>4. tasks' = <<>> \/ tasks' = IF interest = "OUT" THEN <<"write">> ELSE <<"read">>
  BY <1>1, <1>3
<1>5. <<"write">> # <<"read">> /\ <<"write">> # <<>> /\ <<"read">> # <<>>
  <2>1. <<"write">>[1] # <<"read">>[1]
    OBVIOUS
  <2> QED BY <2>1
<1>6. interest # "OUT" => rx # <<>>
  BY <1>1, <1>3 DEF OneTask
<1>7. OneTask'
  BY <1>1, <1>4, <1>5, <1>6 DEF OneTask
<1>8. Framed(Output)'
  <2>1. Sending => interest \in {"OUT", "none"}
    BY DEF WellInv, Framed
  <2>2. Sending => interest = "OUT"
    BY <1>1, <2>1
  <2>3. Sending => tasks' # <<"read">> /\ interest' \in {"OUT", "none"}
    BY <1>1, <1>4, <1>5, <2>2
  <2> QED BY <1>1, <1>2, <2>3 DEF WellInv, Framed, Sending, HeadsOnly, Announces
<1>9. (Pending \/ Answered)' /\ AnswersInOrder'
  BY <1>1, <1>2 DEF WellInv, Pending, Answered, AnswersInOrder, Number
<1> QED BY <1>1, <1>7, <1>8, <1>9 DEF WellInv

LEMMA HttpGoWell ==
  ASSUME IInv, TypeRest, WellInv, WellBehaved, HttpGo
  PROVE  WellInv'
<1> DEFINE data == readBuffer_ \o rx
           result == ParseRequest(context, data)
           parsed == result.context
           r == asked[Len(asked)]
           a == AnswerTo(parsed)
           n == Len(Output) + 1
<1>1. /\ readBuffer_' = result.buf
      /\ IF rx # <<>> /\ result.ok /\ parsed.state_ = "kGotAll"
           THEN OnRequest(parsed)
           ELSE ClientErrors(rx = <<>>, result.ok) /\ context' = parsed
      /\ rx' = <<>>
      /\ tasks # <<>> /\ Head(tasks) = "read" /\ tasks' = Tail(tasks)
      /\ interest' = "OUT" /\ edge' = FALSE
      /\ UNCHANGED <<asked, unsent, cuts, patient, wire>>
  BY DEF HttpGo, Left, Runs, ModifyListen, clientVars
<1>2. OneTask /\ readBuffer_ = <<>> /\ Framed(Output) /\ AnswersInOrder
      /\ context.state_ = "kExpectRequestLine"
  BY DEF WellInv
<1>3. tasks = <<"read">>
  <2>1. tasks # <<"write">>
    BY <1>1
  <2> QED BY <1>1, <1>2, <2>1 DEF OneTask
<1>4. tasks' = <<>> /\ <<>> # <<"read">>
  BY <1>1, <1>3
<1>5. rx # <<>>
  BY <1>2, <1>3 DEF OneTask
<1>6. /\ asked # <<>> /\ writeBuffer_ = <<>> /\ unsent = <<>> /\ rx = r
      /\ Cardinality(Responses(Output)) = Len(asked) - 1
  BY <1>5 DEF WellInv, Pending, Answered
<1>7. /\ r \in Request /\ r \in Seq(Token)
      /\ Len(asked) \in 1 .. Len(asked) /\ Len(asked) \in DOMAIN asked /\ Len(asked) \in Nat
  BY <1>6, HttpConnAssumption DEF TypeRest
<1>8. r[1] \in Url /\ Head(r) = r[1] /\ "Content-Length" \notin ToSet(r)
  <2>1. Head(r) = r[1]
    BY <1>5, <1>6, <1>7
  <2> QED BY <1>7, <2>1 DEF WellBehaved, NoBodies
<1>9. data = r
  BY <1>2, <1>6, <1>7, EmptyConcat
<1>10. /\ context \in Context /\ context.dict = {}
       /\ wire \in Seq(Response \cup File) /\ Output \in Seq(Response \cup File)
       /\ filer \in Url \cup {None}
  BY <1>2, OutputType DEF IInv, TypeInv, NoInheritedHeaders
<1> HIDE DEF r
<1>11. /\ result.ok = TRUE
       /\ result.buf = <<>>
       /\ parsed \in Context
       /\ parsed.state_ = "kGotAll"
       /\ parsed.url = r[1]
       /\ "keep-alive" \in parsed.dict <=> "keep-alive" \in ToSet(r)
  <2>1. LET x == ParseRequest(context, r)
        IN  /\ x.how = "returns"
            /\ x.ok = TRUE
            /\ x.buf = <<>>
            /\ x.context \in Context
            /\ x.context.state_ = "kGotAll"
            /\ x.context.url = r[1]
            /\ "keep-alive" \in x.context.dict <=> "keep-alive" \in ToSet(r)
    BY <1>2, <1>7, <1>8, <1>10, WholeRequestIsRead
  <2> QED BY <1>9, <2>1
<1> HIDE DEF result, parsed, data
<1>12. /\ writeBuffer_' = Append(writeBuffer_, a)
       /\ fileSize_' = FileSize(parsed.url)
       /\ filer' = IF Answer[parsed.url] \in {"file", "empty"} THEN parsed.url ELSE filer
       /\ context' = ResetContext(parsed)
  BY <1>1, <1>5, <1>11 DEF OnRequest
<1>13. a \in Response /\ a \in Response \cup File
  BY <1>11, AnswerIsResponse DEF IInv
<1>14. /\ a.url = r[1]
       /\ a.status = (IF Answer[r[1]] \in {"file", "empty"} THEN "200"
                      ELSE IF Answer[r[1]] = "page" THEN "page" ELSE "0")
       /\ a.close <=> "keep-alive" \notin ToSet(r)
       /\ a.announced = (IF Answer[r[1]] = "page" THEN 0 ELSE FileSize(r[1]))
  BY <1>11 DEF AnswerTo
<1> HIDE DEF a
<1>15. Output' = Append(Output, a)
  <2>1. Output = wire
    BY <1>6, <1>10, EmptyConcat DEF Output
  <2>2. writeBuffer_' = <<a>>
    BY <1>6, <1>12
  <2>3. wire \o <<a>> = Append(wire, a)
    BY <1>10, <1>13
  <2> QED BY <1>1, <2>1, <2>2, <2>3 DEF Output
<1>16. /\ Len(Output') = n /\ Output'[n] = a
       /\ n \in Nat /\ Len(Output) \in Nat /\ n \in 1 .. n
       /\ \A i \in 1 .. Len(Output) : Output'[i] = Output[i] /\ NumberIn(Output', i) = NumberIn(Output, i)
       /\ Responses(Output') = Responses(Output) \cup {n}
       /\ Cardinality(Responses(Output')) = Len(asked)
       /\ NumberIn(Output', n) = Len(asked)
  <2>1. LET more == Append(Output, a)
        IN  /\ \A i \in 1 .. Len(Output) :
                 more[i] = Output[i] /\ NumberIn(more, i) = NumberIn(Output, i)
            /\ Responses(more) = Responses(Output) \cup {n}
            /\ Cardinality(Responses(more)) = Cardinality(Responses(Output)) + 1
            /\ NumberIn(more, n) = Cardinality(Responses(Output)) + 1
    BY <1>10, <1>13, ResponsesAppend
  <2>2. Len(Append(Output, a)) = n /\ Append(Output, a)[n] = a /\ n \in Nat /\ Len(Output) \in Nat
        /\ n \in 1 .. n
    BY <1>10
  <2>3. Cardinality(Responses(Output)) + 1 = Len(asked)
    BY <1>6, <1>7
  <2> HIDE DEF n
  <2> QED BY <1>15, <2>1, <2>2, <2>3
<1>17. Responses(Output) \subseteq 1 .. Len(Output)
  BY <1>10, ResponsesAre
<1>18. n - 1 = Len(Output)
  BY <1>16
<1> HIDE DEF n
<1>19. readBuffer_' = <<>> /\ (context.state_)' = "kExpectRequestLine"
  BY <1>1, <1>11, <1>12, ResetIsFresh
<1>20. Answered'
  BY <1>1, <1>6, <1>16 DEF Answered
<1>21. OneTask'
  BY <1>1, <1>4 DEF OneTask
<1>22. ~Sending /\ fileSize_ = 0 /\ HeadsOnly(Output, Len(Output))
  BY <1>2, <1>3 DEF Framed
<1>23. HeadsOnly(Output', Len(Output)) /\ HeadsOnly(Output', n - 1)
  BY <1>16, <1>18, <1>22 DEF HeadsOnly
<1>24. IsResponse(a)
  BY <1>13, ResponseOrFile
<1>25. Answer[r[1]] \in {"file", "empty", "page", "nothing"} /\ r[1] # None
  BY <1>8, HttpConnAssumption
<1>26. ASSUME Answer[r[1]] = "file" PROVE Framed(Output)'
  <2>1. filer' = r[1] /\ a.status = "200" /\ a.announced = 1
    BY <1>11, <1>12, <1>14, <1>26 DEF FileSize
  <2>2. Sending'
    BY <1>25, <1>26, <2>1 DEF Sending
  <2>3. PICK m \in Nat : m = n
    BY <1>16
  <2>4. Announces(Output, m)'
    BY <1>14, <1>16, <1>23, <1>24, <2>1, <2>3 DEF Announces, HeadsOnly
  <2>5. m \in 1 .. Len(Output')
    BY <1>16, <2>3
  <2> QED BY <1>1, <1>4, <2>2, <2>4, <2>5 DEF Framed, Announces, HeadsOnly
<1>27. ASSUME Answer[r[1]] # "file" PROVE Framed(Output)'
  <2>1. fileSize_' = 0 /\ a.announced = 0
    BY <1>11, <1>12, <1>14, <1>22, <1>25, <1>27 DEF FileSize
  <2>2. ~Sending'
    BY <1>11, <1>12, <1>22, <1>27 DEF Sending
  <2>3. \A i \in 1 .. n : i \in 1 .. Len(Output) \/ i = n
    BY <1>16 DEF n
  <2>4. HeadsOnly(Output', Len(Output'))
    BY <1>16, <1>23, <1>24, <2>1, <2>3 DEF HeadsOnly
  <2> QED BY <2>1, <2>2, <2>4 DEF Framed, HeadsOnly
<1>28. ASSUME NEW i \in Responses(Output')
       PROVE  /\ NumberIn(Output', i) <= Len(asked)
              /\ Output'[i].url = Head(asked[NumberIn(Output', i)])
              /\ Output'[i].close <=> "keep-alive" \notin ToSet(asked[NumberIn(Output', i)])
  <2>1. CASE i \in Responses(Output)
    <3>1. i \in 1 .. Len(Output)
      BY <1>17, <2>1
    <3> QED BY <1>2, <1>16, <2>1, <3>1, AnswersInOrderIs
  <2>2. CASE i = n
    BY <1>7, <1>8, <1>14, <1>16, <2>2 DEF r
  <2> QED BY <1>16, <2>1, <2>2
<1>29. AnswersInOrder'
  BY <1>1, <1>28 DEF AnswersInOrder, Number, NumberIn
<1> QED BY <1>19, <1>20, <1>21, <1>26, <1>27, <1>29 DEF WellInv

LEMMA SendPartWell ==
  ASSUME IInv, TypeRest, WellInv, WellBehaved, NEW n \in 0 .. Len(writeBuffer_), SendPart(n)
  PROVE  WellInv'
<1>1. /\ n < Len(writeBuffer_)
      /\ tasks # <<>> /\ tasks' = Tail(tasks)
      /\ interest' = "OUT" /\ edge' = FALSE
      /\ UNCHANGED <<asked, unsent, cuts, patient, rx, readBuffer_, context, fileSize_, filer>>
  BY DEF SendPart, Runs, ModifyListen, clientVars, responseVars
<1>2. Output' = Output
  BY SendPartComes
<1>3. writeBuffer_ # <<>>
  BY <1>1
<1>4. Answered'
  BY <1>1, <1>2, <1>3 DEF WellInv, Pending, Answered
<1>5. tasks' = <<>> /\ <<>> # <<"read">>
  <2>1. tasks = <<"read">> \/ tasks = <<"write">>
    BY <1>1 DEF WellInv, OneTask
  <2>2. Tail(<<"read">>) = <<>> /\ Tail(<<"write">>) = <<>> /\ <<>> # <<"read">>
    OBVIOUS
  <2> QED BY <1>1, <2>1, <2>2
<1>6. OneTask'
  BY <1>1, <1>5 DEF OneTask
<1>7. Framed(Output)'
  BY <1>1, <1>2, <1>5 DEF WellInv, Framed, Sending, HeadsOnly, Announces
<1>8. AnswersInOrder'
  BY <1>1, <1>2 DEF WellInv, AnswersInOrder, Number
<1> QED BY <1>1, <1>4, <1>6, <1>7, <1>8 DEF WellInv

LEMMA SendAllWell ==
  ASSUME IInv, TypeRest, WellInv, WellBehaved, SendAll
  PROVE  WellInv'
<1> DEFINE f == [file |-> filer]
           n == Len(Output) + 1
<1>1. /\ SendBody /\ writeBuffer_' = <<>>
      /\ tasks # <<>> /\ Head(tasks) = "write" /\ tasks' = Tail(tasks)
      /\ IF NextEvents = "none" THEN UNCHANGED <<interest, edge>> ELSE ModifyListen(NextEvents)
      /\ UNCHANGED <<asked, unsent, cuts, patient, rx, readBuffer_, context, fileSize_, filer>>
  BY DEF SendAll, Runs, clientVars, responseVars
<1>2. OneTask /\ Framed(Output) /\ AnswersInOrder
  BY DEF WellInv
<1>3. tasks = <<"write">>
  <2>1. tasks # <<"read">>
    BY <1>1
  <2> QED BY <1>1, <1>2, <2>1 DEF OneTask
<1>4. tasks' = <<>> /\ <<>> # <<"read">>
  BY <1>1, <1>3
<1>5. interest = "none" /\ edge = FALSE
  <2>1. <<"write">> # <<"read">> /\ <<"write">> # <<>>
    <3>1. <<"write">>[1] # <<"read">>[1]
      OBVIOUS
    <3> QED BY <3>1
  <2>2. edge \in BOOLEAN
    BY DEF TypeRest
  <2>3. interest = "none"
    BY <1>2, <1>3, <2>1 DEF OneTask
  <2> QED BY <1>2, <2>2, <2>3 DEF OneTask
<1>6. /\ edge' = FALSE
      /\ interest' \in {"none", "OUT", "IN"}
      /\ Sending => interest' = "OUT"
  BY <1>1, <1>5 DEF NextEvents, ModifyListen, Sending
<1>7. OneTask'
  BY <1>4, <1>6 DEF OneTask
<1>8. Output \in Seq(Response \cup File) /\ filer \in Url \cup {None}
  BY OutputType DEF IInv, TypeInv
<1>9. Output' = wire'
  <2>1. wire' \in Seq(Response \cup File)
    BY NextIInv DEF IInv, TypeInv, Next, Server
  <2> QED BY <1>1, <2>1, EmptyConcat DEF Output
<1>10. \/ Output' = Output
       \/ /\ Sending
          /\ Output' = Append(Output, f)
          /\ Output # <<>> => Output[Len(Output)] # f
  <2>1. Output # <<>> => Last(Output) = Output[Len(Output)]
    BY DEF Last
  <2> QED BY <1>1, <1>9, <2>1 DEF SendBody, Sending, Output
<1>11. CASE Output' = Output
  <2>1. (Pending \/ Answered)'
    BY <1>1, <1>11 DEF WellInv, Pending, Answered
  <2>2. Framed(Output)'
    BY <1>1, <1>2, <1>4, <1>6, <1>11 DEF Framed, Sending, HeadsOnly, Announces
  <2>3. AnswersInOrder'
    BY <1>1, <1>2, <1>11 DEF AnswersInOrder, Number
  <2> QED BY <1>1, <1>7, <2>1, <2>2, <2>3 DEF WellInv
<1>12. CASE /\ Sending
            /\ Output' = Append(Output, f)
            /\ Output # <<>> => Output[Len(Output)] # f
  <2>1. f \in File /\ f \in Response \cup File
    BY <1>8, <1>12 DEF File, Sending
  <2> HIDE DEF f
  <2>2. /\ Len(Output') = n /\ Output'[n] = f
        /\ n \in Nat /\ Len(Output) \in Nat /\ Len(Output) + 1 = n
    BY <1>8, <1>12
  <2>3. /\ \A i \in 1 .. Len(Output) : Output'[i] = Output[i] /\ NumberIn(Output', i) = NumberIn(Output, i)
        /\ Responses(Output') = Responses(Output)
    BY <1>8, <1>12, <2>1, ResponsesAppend
  <2>4. Responses(Output) \subseteq 1 .. Len(Output)
    BY <1>8, ResponsesAre
  <2>5. (Pending \/ Answered)'
    BY <1>1, <2>3 DEF WellInv, Pending, Answered
  <2>6. PICK m \in 1 .. Len(Output) : Announces(Output, m)
    BY <1>2, <1>12 DEF Framed
  <2>7. m = Len(Output)
    <3>1. CASE m + 1 = Len(Output) /\ Output[m + 1] = [file |-> filer]
      <4>1. Output # <<>>
        BY <2>6
      <4> QED BY <1>12, <3>1, <4>1 DEF f
    <3> QED BY <2>6, <3>1 DEF Announces
  <2>8. \A i \in 1 .. m - 1 : i \in 1 .. Len(Output)
    BY <2>2, <2>7
  <2> HIDE DEF n
  <2>9. HeadsOnly(Output', m - 1)
    BY <2>3, <2>6, <2>8 DEF Announces, HeadsOnly
  <2>10. /\ m + 1 = Len(Output') /\ Output'[m + 1] = [file |-> filer]
         /\ Output'[m] = Output[m]
         /\ m \in 1 .. Len(Output')
    BY <2>2, <2>3, <2>6, <2>7 DEF f, n
  <2>11. Announces(Output, m)'
    BY <1>1, <2>6, <2>9, <2>10 DEF Announces, HeadsOnly
  <2>12. Framed(Output)'
    BY <1>1, <1>4, <1>6, <1>12, <2>10, <2>11 DEF Framed, Sending, Announces, HeadsOnly
  <2>13. ASSUME NEW i \in Responses(Output')
         PROVE  /\ NumberIn(Output', i) <= Len(asked)
                /\ Output'[i].url = Head(asked[NumberIn(Output', i)])
                /\ Output'[i].close <=> "keep-alive" \notin ToSet(asked[NumberIn(Output', i)])
    <3>1. i \in 1 .. Len(Output) /\ i \in Responses(Output)
      BY <2>3, <2>4
    <3> QED BY <1>2, <2>3, <3>1, AnswersInOrderIs
  <2>14. AnswersInOrder'
    BY <1>1, <2>13 DEF AnswersInOrder, Number, NumberIn
  <2> QED BY <1>1, <1>7, <2>5, <2>12, <2>14 DEF WellInv
<1> QED BY <1>10, <1>11, <1>12

LEMMA WellInvIsInvariant ==
  ASSUME IInv, TypeRest, BodyInv, WellInv, [Next]_vars
  PROVE  WellInv'
<1> SUFFICES ASSUME WellBehaved' PROVE WellInv'
  BY DEF WellInv
<1>1. WellBehaved
  BY AlwaysWellBehaved
<1>2. CASE HttpGoFails
  <2>1. context.state_ = "kGotAll"
    BY <1>1, <1>2, FailsBody DEF WellBehaved
  <2> QED BY <1>1, <2>1 DEF WellInv
<1>3. CASE UNCHANGED vars
  <2>1. Output' = Output
    BY <1>3 DEF vars, Output
  <2>2. (Pending \/ Answered)' /\ OneTask' /\ AnswersInOrder'
    BY <1>1, <1>3, <2>1 DEF vars, clientVars, taskVars, WellInv, Pending, Answered, OneTask, AnswersInOrder, Number
  <2>3. Framed(Output)'
    BY <1>1, <1>3, <2>1 DEF vars, taskVars, responseVars, WellInv, Framed, Sending, HeadsOnly, Announces
  <2> QED BY <1>1, <1>3, <2>2, <2>3 DEF WellInv, vars
<1> QED BY <1>1, <1>2, <1>3, AskWell, ArriveWell, EnqueueWell, HttpGoWell, SendPartWell, SendAllWell
        DEF Next, Client, Server

(* A client that sends whole requests without bodies, one after another,   *)
(* gets one response for each, in order, with the url of its request line  *)
(* and open or closed as its own headers say, for any number of requests   *)
(* with any number of headers (HttpConn.cpp:131-150).                      *)
THEOREM EachGetsItsAnswer == Spec => []AnswersInOrder
<1>1. IInv /\ TypeRest /\ BodyInv /\ WellInv /\ [Next]_vars
        => IInv' /\ TypeRest' /\ BodyInv' /\ WellInv'
  BY NextIInv, TypeRestIsInvariant, BodyInvIsInvariant, WellInvIsInvariant
<1>2. WellInv => AnswersInOrder
  BY DEF WellInv, AnswersInOrder
<1> QED BY InitIInv, InitTypeRest, InitBodyInv, InitWellInv, <1>1, <1>2, PTL DEF Spec

(* What has been sent of it is framed as all of it is.                     *)
LEMMA FramedOnTheWire ==
  ASSUME TypeInv, Framed(Output), WellBehaved
  PROVE  Framing
<1>1. /\ wire \in Seq(Response \cup File) /\ writeBuffer_ \in Seq(Response \cup File)
      /\ Output \in Seq(Response \cup File)
  BY OutputType DEF TypeInv
<1>2. /\ Len(wire) \in Nat /\ Len(wire) <= Len(Output) /\ Len(Output) \in Nat
      /\ DOMAIN wire = 1 .. Len(wire)
      /\ \A i \in 1 .. Len(wire) : Output[i] = wire[i] /\ i \in 1 .. Len(Output)
  BY <1>1, ConcatIs DEF Output
<1>3. ~IsResponse([file |-> filer])
  BY DEF IsResponse
<1>4. CASE ~Sending
  <2>1. \A i \in 1 .. Len(wire) : IsResponse(wire[i]) /\ wire[i].announced = 0
    BY <1>2, <1>4 DEF Framed, HeadsOnly
  <2>2. wire # <<>> => 1 \in 1 .. Len(wire)
    BY <1>1
  <2>3. ASSUME NEW i \in 1 .. Len(wire), i < Len(wire) PROVE IsResponse(wire[i + 1])
    <3>1. i + 1 \in 1 .. Len(wire)
      BY <1>2, <2>3
    <3> QED BY <2>1, <3>1
  <2> QED BY <1>2, <2>1, <2>2, <2>3 DEF Framing
<1>5. CASE Sending
  <2>1. PICK m \in 1 .. Len(Output) : Announces(Output, m)
    BY <1>5 DEF Framed
  <2>2. /\ m = Len(Output) \/ (m + 1 = Len(Output) /\ Output[m + 1] = [file |-> filer])
        /\ IsResponse(Output[m])
        /\ Output[m].status = "200"
        /\ Output[m].url = filer
        /\ Output[m].announced = 1
        /\ \A i \in 1 .. m - 1 : IsResponse(Output[i]) /\ Output[i].announced = 0
    BY <2>1 DEF Announces, HeadsOnly
  <2>3. wire # <<>> => IsResponse(wire[1])
    <3> SUFFICES ASSUME wire # <<>> PROVE IsResponse(wire[1])
      OBVIOUS
    <3>1. 1 \in 1 .. Len(wire)
      BY <1>1
    <3>2. m = 1 \/ 1 \in 1 .. m - 1
      BY <1>2
    <3> QED BY <1>2, <2>2, <3>1, <3>2
  <2>4. ASSUME NEW i \in 1 .. Len(wire), i < Len(wire), IsResponse(wire[i])
        PROVE  \/ IsResponse(wire[i + 1]) /\ wire[i].announced = 0
               \/ /\ ~IsResponse(wire[i + 1])
                  /\ wire[i + 1] = [file |-> filer]
                  /\ wire[i].url = filer
                  /\ wire[i].status = "200"
                  /\ wire[i].announced = 1
    <3>1. i + 1 \in 1 .. Len(wire) /\ i \in Nat /\ i < Len(Output)
      BY <1>2, <2>4
    <3>2. wire[i] = Output[i] /\ wire[i + 1] = Output[i + 1]
      BY <1>2, <3>1
    <3>3. CASE i = m
      <4>1. m + 1 = Len(Output) /\ Output[m + 1] = [file |-> filer]
        BY <2>2, <3>1, <3>3
      <4> QED BY <1>3, <2>2, <3>2, <3>3, <4>1
    <3>4. CASE i < m
      <4>1. i \in 1 .. m - 1 /\ (i + 1 \in 1 .. m - 1 \/ i + 1 = m)
        BY <1>2, <3>1, <3>4
      <4> QED BY <2>2, <3>2, <4>1
    <3>5. CASE i > m
      <4>1. i = m + 1 /\ i = Len(Output)
        BY <1>2, <2>2, <3>1, <3>5
      <4> QED BY <3>1, <4>1
    <3> QED BY <1>2, <3>1, <3>3, <3>4, <3>5
  <2>5. ASSUME NEW i \in 1 .. Len(wire), IsResponse(wire[i])
        PROVE  LET followed == i < Len(wire) /\ ~IsResponse(wire[i + 1])
               IN  /\ followed => wire[i].status = "200" /\ wire[i + 1].file = wire[i].url
                   /\ i < Len(wire) /\ ~wire[i].close =>
                        wire[i].announced = (IF followed THEN 1 ELSE 0)
    <3>1. [file |-> filer].file = filer
      OBVIOUS
    <3> QED BY <2>4, <2>5, <3>1
  <2> QED BY <1>2, <2>3, <2>5 DEF Framing
<1> QED BY <1>4, <1>5

(* What such a client finds behind a response is the file that was         *)
(* announced, and nothing when none was (HttpConn.cpp:170, HylChan.cpp:    *)
(* 95-100): fileSize_ and the Filer, which are never reset, are those of   *)
(* an earlier response only after a file, and then no request is read.     *)
THEOREM FilesFollowTheirHeads == Spec => []Framing
<1>1. IInv /\ TypeRest /\ BodyInv /\ WellInv /\ [Next]_vars
        => IInv' /\ TypeRest' /\ BodyInv' /\ WellInv'
  BY NextIInv, TypeRestIsInvariant, BodyInvIsInvariant, WellInvIsInvariant
<1>2. IInv /\ WellInv => Framing
  <2>1. ~WellBehaved => Framing
    BY DEF Framing
  <2> QED BY <2>1, FramedOnTheWire DEF IInv, WellInv
<1> QED BY InitIInv, InitTypeRest, InitBodyInv, InitWellInv, <1>1, <1>2, PTL DEF Spec

=============================================================================
