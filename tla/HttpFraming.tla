---------------------------- MODULE HttpFraming ----------------------------
(***************************************************************************)
(* Http::message_length(): where the first request of a receive buffer     *)
(* ends.  A buffer is a sequence of tokens: the start of a header, the     *)
(* rest of it up to the blank line (what message_length() reads of it is   *)
(* the framing it announces), and pieces of a body.  The three pieces the  *)
(* function looks for are told apart: "last" is "0\r\n\r\n", "fin" is the  *)
(* closing boundary and "crlf" the line end that may follow it; whether    *)
(* such a piece stands in the middle of the data is up to the buffer.      *)
(***************************************************************************)
EXTENDS Integers, SequencesExt

Start == [t |-> "start"]
Piece(what) == [t |-> what]
Header(framing, length, does) ==
  [t |-> "header", framing |-> framing, length |-> length, does |-> does]

Token == [t : STRING] \cup [t : {"header"}, framing : STRING, length : Nat, does : STRING]

\* Positions of a token behind position p, and the first of a set of positions.
Behind(buf, p, what) == {i \in (p + 1)..Len(buf) : buf[i].t = what}
First(S) == Min(S)

\* Rule 1: the first terminal chunk pattern behind the header.
ChunkedEnd(buf, h) ==
  LET ends == Behind(buf, h, "last") IN IF ends = {} THEN 0 ELSE First(ends)

\* Rule 3: the closing boundary, with the line end behind it if that is there.
MultipartEnd(buf, h) ==
  LET ends == Behind(buf, h, "fin")
      fin == First(ends)
  IN  CASE ends = {} -> 0
        [] ends # {} /\ fin + 1 \in Behind(buf, h, "crlf") -> fin + 1
        [] OTHER -> fin

\* Mutant: a Content-Length that is not looked at.
MessageLengthHeaderOnly(buf) ==
  LET headers == Behind(buf, 0, "header")
      h == First(headers)
  IN  IF headers = {} THEN 0
      ELSE CASE buf[h].framing = "chunked" -> ChunkedEnd(buf, h)
             [] buf[h].framing = "multipart" -> MultipartEnd(buf, h)
             [] OTHER -> h

\* The number of tokens of the first request of buf, 0 when it cannot be told
\* yet (or, for a Content-Length that is no number, ever).
MessageLength(buf) ==
  LET headers == Behind(buf, 0, "header")
      h == First(headers)
  IN  IF headers = {} THEN 0
      ELSE CASE buf[h].framing = "chunked" -> ChunkedEnd(buf, h)
             [] buf[h].framing = "length" -> h + buf[h].length
             [] buf[h].framing = "unreadable" -> 0
             [] buf[h].framing = "multipart" -> MultipartEnd(buf, h)
             [] OTHER -> h

\* What the request asks for: process_request() and the upgrade test read it
\* from the header.
Does(request) == request[First(Behind(request, 0, "header"))].does

\* The requests it can tell apart: what follows the header is what that announces,
\* and the piece that ends a body is not in the middle of it.
IsRequest(request) ==
  \E h \in DOMAIN request :
    /\ request[1].t # "crlf"
    /\ request[h] \in [t : {"header"}, framing : STRING, length : Nat, does : STRING]
    /\ \A i \in 1..(h - 1) : request[i].t # "header"
    /\ CASE request[h].framing = "chunked"    -> Behind(request, h, "last") = {Len(request)}
         [] request[h].framing = "multipart"  -> Behind(request, h, "fin") = {Len(request)}
         [] request[h].framing = "length"     -> h + request[h].length = Len(request)
         [] request[h].framing = "unreadable" -> TRUE
         [] OTHER                             -> h = Len(request)
============================================================================
