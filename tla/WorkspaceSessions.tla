------------------------- MODULE WorkspaceSessions -------------------------
(***************************************************************************)
(* What the session manager promises to its clients about sessions and     *)
(* their workspaces, as if a Create, a Stop, a Delete and a rename were    *)
(* done at once.  A session that asked for its workspace has it to itself: *)
(* none like it is opened there while it runs, and the workspace is not    *)
(* renamed under it.  While a rename is under way, no such session opens   *)
(* under either name.  A session that has stopped never runs again, and    *)
(* one that is gone never comes back.                                      *)
(***************************************************************************)
CONSTANTS Ids, Names, NoName

VARIABLES state,    \* of each session
          home,     \* the workspace of each session that is there
          alone,    \* the sessions that have their workspace to themselves
          moving    \* the renames under way: pairs of an old and a new name

vars == <<state, home, alone, moving>>

States == {"none", "running", "stopped", "gone"}

There(i) == state[i] \in {"running", "stopped"}

\* Nobody who has it to himself runs on workspace w.
Unused(w) == \A i \in alone : state[i] = "running" => home[i] # w

\* No rename is under way to or from w.
Settled(w) == \A m \in moving : w \notin {m[1], m[2]}

\* Two sessions that have their workspace to themselves never run on one.
Apart ==
  \A i, j \in alone : state[i] = "running" /\ state[j] = "running" /\ home[i] = home[j] => i = j

Init ==
  /\ state \in [Ids -> States]
  /\ home \in [Ids -> Names \cup {NoName}]
  /\ \A i \in Ids : There(i) <=> home[i] # NoName
  /\ alone = {i \in Ids : There(i)}
  /\ moving = {}
  /\ Apart

\* A session is opened; stopped ones of its workspace may go at the same time.
Open(i, w, mine, out) ==
  /\ state[i] = "none"
  /\ mine => Unused(w) /\ Settled(w)
  /\ \A j \in out : state[j] = "stopped" /\ home[j] = w
  /\ state' = [j \in Ids |-> IF j = i THEN "running" ELSE IF j \in out THEN "gone" ELSE state[j]]
  /\ home' = [j \in Ids |-> IF j = i THEN w ELSE IF j \in out THEN NoName ELSE home[j]]
  /\ alone' = (alone \ out) \cup (IF mine THEN {i} ELSE {})
  /\ UNCHANGED moving

Stop(i) ==
  /\ state[i] = "running"
  /\ state' = [state EXCEPT ![i] = "stopped"]
  /\ UNCHANGED <<home, alone, moving>>

Remove(out) ==
  /\ \A i \in out : There(i)
  /\ state' = [i \in Ids |-> IF i \in out THEN "gone" ELSE state[i]]
  /\ home' = [i \in Ids |-> IF i \in out THEN NoName ELSE home[i]]
  /\ alone' = alone \ out
  /\ UNCHANGED moving

BeginMove(old, new) ==
  /\ Unused(old) /\ Settled(old) /\ Settled(new)
  /\ moving' = moving \cup {<<old, new>>}
  /\ UNCHANGED <<state, home, alone>>

\* The sessions follow their workspace, as the end of a rename or at once.
Move(old, new) ==
  /\ Unused(old)
  /\ <<old, new>> \in moving \/ (Settled(old) /\ Settled(new))
  /\ home' = [i \in Ids |-> IF home[i] = old THEN new ELSE home[i]]
  /\ moving' = moving \ {<<old, new>>}
  /\ UNCHANGED <<state, alone>>

GiveUp(old, new) ==
  /\ moving' = moving \ {<<old, new>>}
  /\ UNCHANGED <<state, home, alone>>

Next ==
  \/ \E old, new \in Names : GiveUp(old, new) \/ BeginMove(old, new) \/ Move(old, new)
  \/ \E i \in Ids, w \in Names, mine \in BOOLEAN, out \in SUBSET Ids : Open(i, w, mine, out)
  \/ \E i \in Ids : Stop(i)
  \/ \E out \in SUBSET Ids : Remove(out)

Spec == Init /\ [][Next]_vars
=============================================================================
