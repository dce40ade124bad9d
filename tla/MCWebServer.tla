---------------------------- MODULE MCWebServer ----------------------------
EXTENDS WebServer

CONSTANTS c1, c2

Plain == <<Header("none", 0, "api")>>
Unknown == <<Header("none", 0, "unsupported")>>
Upgrade == <<Header("none", 0, "upgrade")>>
\* A header that comes in two pieces, and bodies that hold what would end the
\* body of another framing.
WithLength == <<Start, Header("length", 1, "api"), Piece("last")>>
Chunked == <<Header("chunked", 0, "api"), Piece("fin"), Piece("last")>>
Multipart == <<Header("multipart", 0, "api"), Piece("last"), Piece("fin")>>

Sends(requests) == [tokens |-> FlattenSeq(requests),
                    ends |-> [n \in DOMAIN requests |-> Len(FlattenSeq(SubSeq(requests, 1, n)))]]
Script(first, second) == [c \in Client |-> Sends(IF c = c1 THEN first ELSE second)]
MCScripts == {Script(<<WithLength>>, <<Plain>>),
              Script(<<Plain, Plain>>, <<Unknown>>),
              Script(<<Chunked, Upgrade>>, <<>>),
              Script(<<Multipart>>, <<Upgrade>>)}
============================================================================
