----------------------------- MODULE DurableMap -----------------------------
(***************************************************************************)
(* What a store of named values promises to those who ask it to change     *)
(* one: a change that was acknowledged is what everybody sees from then    *)
(* on, also after restarts; a change that was not, because it failed or    *)
(* its answer was lost, may or may not be seen, and a restart may decide   *)
(* it again; nobody sees a value that was not asked for.  A restart that   *)
(* cannot read what was saved may lose it.                                 *)
(***************************************************************************)
CONSTANTS Keys, Values, None

VARIABLES shown,   \* what is seen
          may      \* for every key, what an observer has to be prepared for

Init ==
  /\ shown \in [Keys -> Values \cup {None}]
  /\ may = [k \in Keys |-> {shown[k]}]

\* A change takes effect, and is not yet acknowledged.
Attempt(k, v) ==
  /\ shown' = [shown EXCEPT ![k] = v]
  /\ may' = [may EXCEPT ![k] = @ \cup {v}]

Acknowledge(k) ==
  /\ may' = [may EXCEPT ![k] = {shown[k]}]
  /\ UNCHANGED shown

Restart ==
  /\ shown' \in [Keys -> Values \cup {None}]
  /\ \A k \in Keys : shown'[k] \in may[k]
  /\ UNCHANGED may

Forget ==
  /\ shown' = [k \in Keys |-> None]
  /\ may' = [k \in Keys |-> may[k] \cup {None}]

Next ==
  \/ \E k \in Keys, v \in Values \cup {None} : Attempt(k, v)
  \/ \E k \in Keys : Acknowledge(k)
  \/ Restart
  \/ Forget

Spec == Init /\ [][Next]_<<shown, may>>
=============================================================================
