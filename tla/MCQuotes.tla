------------------------------ MODULE MCQuotes ------------------------------
(* Quotes.tla on small sets, for TLC. *)
EXTENDS Quotes, TLC

CONSTANTS f1, q1, q2, q3, r1, r2

MCRfqs == {f1}
MCQuotes3 == {q1, q2, q3}
MCReqs2 == {r1, r2}

\* Ids of quotes are interchangeable, and so are request slots.
MCSymmetry == Permutations(MCQuotes3) \cup Permutations(MCReqs2)
=============================================================================
