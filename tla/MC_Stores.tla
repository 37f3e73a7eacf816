----------------------------- MODULE MC_Stores -----------------------------
(***************************************************************************)
(* The stores with two agents and two of their configurations, of which    *)
(* the form can express one, and two sessions of which one is history.     *)
(***************************************************************************)
EXTENDS Stores

CONSTANTS a1, v1, v2, i1

\* What the form of the agents can express, and what a script puts.
Typed == {v1}
Scripted == {v2}

MCInit ==
  /\ Init
  /\ \A i \in Ids : phase[i] = "none" <=> i = i1
  /\ mem \in IF open = "history" THEN {Empty} ELSE {Empty, [Empty EXCEPT ![a1] = v1]}

MCSpec == MCInit /\ [][Next]_vars /\ Fairness
=============================================================================
