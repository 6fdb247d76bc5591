------------------------------ MODULE MCParts ------------------------------
(***************************************************************************)
(* Small instances of the parts.                                           *)
(***************************************************************************)
EXTENDS Parts

\* A window in the corner of the chip, and one that does not fit.
CornerWindow == {<<0, 0, 1, 1>>, <<0, 0, 3, 1>>}

\* Within a second, to its last microsecond, over the end of a day of 24
\* seconds, and backwards.
Increments == {<<0, 1>>, <<0, 3>>, <<1, 0>>, <<2, 2>>, <<-12, 0>>, <<25, 0>>}

\* No argument, one, three with names, and four of which two have one name
\* and one has none.
SomePatterns == {<<>>, <<"a">>, <<"a", "b", "c">>, <<"b", None, "a", "b">>}
=============================================================================
