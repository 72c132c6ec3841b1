-------------------------- MODULE MCContentStream --------------------------
(***************************************************************************)
(* "L:" stands for "Content-Length: ".  The contents: one that looks like  *)
(* a message of one byte, one of twelve bytes (two digits), and the empty  *)
(* one.  Other output: bytes that are no header, a header without a        *)
(* length, a length no string can have, and one that wraps around to 1.    *)
(***************************************************************************)
EXTENDS ContentStream

MCHeader   == <<76, 58>>
Length(n)  == MCHeader \o Decimal[n] \o <<CR, LF, CR, LF>>
MCLikeHeader == Framed(<<120>>)
MCTwelve   == [i \in 1..12 |-> 120]
MCContents == {MCLikeHeader, MCTwelve}
MCContentsAndEmpty == {<<>>, MCTwelve}
MCStray    == {<<76>>, <<CR>>, MCHeader \o <<LF>>, Length(20), Length(33)}
=============================================================================
