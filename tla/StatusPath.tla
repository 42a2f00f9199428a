----------------------------- MODULE StatusPath -----------------------------
(***************************************************************************)
(* What the status columns of the API promise when nothing serialises the  *)
(* requests that write them.  A handler reads a row, decides from the      *)
(* status it read whether the requested status may follow, and writes the  *)
(* new status without looking again.  The current status is therefore no   *)
(* guide to the next one, but the SET of statuses a row has ever held is:  *)
(* it only grows, and every status in it but the opening one follows some  *)
(* status that the row really held.                                        *)
(***************************************************************************)

EXTENDS TLAPS

CONSTANTS
    Entities,   \* the rows
    Opening,    \* the statuses a row may be created with
    Edges       \* the pairs <<from, to>> that the code permits

VARIABLE held   \* held[e]: the statuses row e has held, {} before creation

Init == held = [e \in Entities |-> {}]

Open(e, s) ==
    /\ held[e] = {}
    /\ held' = [held EXCEPT ![e] = {s}]

Reach(e, s) ==
    /\ \E p \in held[e] : <<p, s>> \in Edges
    /\ held' = [held EXCEPT ![e] = @ \cup {s}]

Targets == {edge[2] : edge \in Edges}

Next ==
    \E e \in Entities :
        \/ \E s \in Opening : Open(e, s)
        \/ \E s \in Targets : Reach(e, s)

Spec == Init /\ [][Next]_held

\* Every status a row has held is an opening status or was reached by a
\* permitted edge from another status the row has held.
Closed ==
    \A e \in Entities : \A s \in held[e] :
        \/ s \in Opening
        \/ \E p \in held[e] : <<p, s>> \in Edges

TypeOK == held \in [Entities -> SUBSET (Opening \cup Targets)]

\* No order of opening and reaching ever breaks the chain: Closed is inductive,
\* because histories only grow.
THEOREM StaysClosed == Spec => []Closed
<1> DEFINE Inv == TypeOK /\ Closed
<1>1. Init => Inv
  BY DEF Init, Closed, TypeOK
<1>2. ASSUME Inv, [Next]_held PROVE Inv'
  <2>1. CASE UNCHANGED held
    BY <1>2, <2>1 DEF TypeOK, Closed
  <2>2. ASSUME NEW e \in Entities, NEW s \in Opening, Open(e, s) PROVE Inv'
    BY <1>2, <2>2 DEF Open, TypeOK, Closed
  <2>3. ASSUME NEW e \in Entities, NEW s \in Targets, Reach(e, s) PROVE Inv'
    <3>1. TypeOK'
      BY <1>2, <2>3 DEF Reach, TypeOK
    <3>2. \A d \in Entities : held'[d] = IF d = e THEN held[d] \cup {s} ELSE held[d]
      BY <1>2, <2>3 DEF Reach, TypeOK
    <3>3. PICK p \in held[e] : <<p, s>> \in Edges
      BY <2>3 DEF Reach
    <3>4. Closed'
      BY <1>2, <3>2, <3>3 DEF Closed
    <3> QED BY <3>1, <3>4
  <2> QED BY <1>2, <2>1, <2>2, <2>3 DEF Next
<1> QED BY <1>1, <1>2, PTL DEF Spec
=============================================================================
