----------------------------- MODULE MCFinance -----------------------------
(* Finance.tla on small sets, for TLC. *)
EXTENDS Finance

CONSTANTS i1, i2, r1, r2, r3

MCInvoices1 == {i1}
MCInvoices2 == {i1, i2}
MCReqs1 == {r1}
MCReqs2 == {r1, r2}
MCReqs3 == {r1, r2, r3}
=============================================================================
