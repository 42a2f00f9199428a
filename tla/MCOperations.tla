---------------------------- MODULE MCOperations ----------------------------
(* Operations.tla, with the quotes below it, on small sets, for TLC. *)
EXTENDS Operations, TLC

CONSTANTS f1, q1, r1, r2, s1, s2, b1, b2, o1, o2

MCRfqs == {f1}
MCQuotes == {q1}
MCQuoteReqs2 == {r1, r2}
MCQuoteReqs1 == {r1}
MCShipments2 == {s1, s2}
MCShipments1 == {s1}
MCBookings == {b1, b2}
MCOpReqs2 == {o1, o2}
MCOpReqs1 == {o1}

\* Ids of bookings are interchangeable, and so are request slots.
MCPipelineSymmetry ==
    Permutations(MCQuoteReqs2) \cup Permutations(MCBookings) \cup Permutations(MCOpReqs2)
=============================================================================
