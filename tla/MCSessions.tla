----------------------------- MODULE MCSessions -----------------------------
(* Sessions.tla on small sets, for TLC. *)
EXTENDS Sessions

CONSTANTS u1, u2, m1, m2, s1, t1, t2, t3, t4, r1, r2

MCUsers == {u1, u2}
MCMemberships == {m1, m2}
\* u1 works for two companies; u2 is a platform or portal user.
MCOwner == [m \in MCMemberships |-> u1]
MCSessions == {s1}
MCTokens3 == {t1, t2, t3}
MCTokens4 == {t1, t2, t3, t4}
MCReqs1 == {r1}
MCReqs2 == {r1, r2}
=============================================================================
