----------------------------- MODULE MCHttpConn -----------------------------
(* Instance of HttpConn: the values of its constants for MCHttpConn.cfg.   *)
EXTENDS HttpConn

MCUrl == {"file", "empty", "missing", "post"}

MCAnswer ==
  [u \in MCUrl \cup {"unknown"} |->
     CASE u = "file"    -> "file"
       [] u = "empty"   -> "empty"
       [] u = "missing" -> "page"
       [] OTHER         -> "nothing"]

Closing(u) == <<u, CRLF, CRLF>>
Keeping(u) == <<u, CRLF, "keep-alive", CRLF, CRLF>>

MCRequest == {
  Keeping("file"), Closing("missing"),
  <<"empty", CRLF, "agent", CRLF, "keep-alive", CRLF, CRLF>>,
  <<"post", CRLF, "Content-Length", CRLF, CRLF, Body>>,
  <<"keep-alive", CRLF, CRLF>>}  \* malformed

=============================================================================
