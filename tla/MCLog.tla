-------------------------------- MODULE MCLog -------------------------------
(* Formats of up to three pieces, "%%" and a last '%' among them, with numbers  *)
(* and strings in their slots.  Buffers in about the code's proportions: prefix *)
(* and text fit one by one and not always together.  The clock counts from zero *)
(* over the point where its stamp needs another digit.                          *)
EXTENDS Log

\* a, %q, %x, %s, %d (an unknown type) and a lone %.
Pieces == {<<>>, <<97>>, <<37, 113>>, <<37, 120>>, <<37, 115>>, <<37, 100>>, <<37>>}

Formats == {p \o q \o r : p, q, r \in Pieces}

Args ==
    <<[num |-> 0, str |-> <<>>], [num |-> 107, str |-> <<98, 99>>],
      [num |-> 30, str |-> <<100>>]>>

\* The slots hold Args in turn, from any of them on.
Calls ==
    {[format |-> f, args |-> [i \in 1 .. Len(f) |-> Args[1 + ((i + first) % 3)]]] :
        f \in Formats, first \in 0 .. 2}

\* Zeros, and garbage with a NULL at its end.
Stacks == {[i \in Address |-> IF i = MEMORY - 1 THEN 0 ELSE c] : c \in {0, 64}}

Frequencies == {6, 8}
Counts == {0, 38, 401}
=============================================================================
