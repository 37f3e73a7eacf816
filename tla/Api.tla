-------------------------------- MODULE Api --------------------------------
(***************************************************************************)
(* web/src/lib/api.ts, the console's calls, and the REST handlers of       *)
(* internal/server/sessions.go that answer them.                           *)
(*                                                                         *)
(* A call is sent, takes effect at the server in one or two steps and is   *)
(* answered; its answer is delivered later, in any order with the others,  *)
(* or lost.  The session manager is reduced to what the console can tell   *)
(* apart (SessionManager models it): Create, Restart and Rename take their *)
(* decisions in one step each.                                             *)
(***************************************************************************)
EXTENDS Naturals, FiniteSets

CONSTANTS Workspaces, NoWs, FirstWs,
          MaxSid,      \* bound: sessions ever created
          MaxCalls,    \* bound: calls in flight, but for the read of a navigation
          MaxActs,     \* bound: what the user does
          MaxOthers,   \* bound: what other tabs and the reaper do
          MaxFaults    \* bound: calls lost, creations and removals that fail

ASSUME ApiAssumption ==
  /\ FirstWs \in Workspaces /\ NoWs \notin Workspaces
  /\ MaxSid \in Nat \ {0}   \* there is a session to begin with
  /\ {MaxCalls, MaxActs, MaxOthers, MaxFaults} \subseteq Nat

Sids == 1..MaxSid
Here == MaxSid + 1   \* no navigation is pending

VARIABLES
  srv, wsOf,           \* the sessions: their states, their workspaces
  vols,                \* the workspace volumes
  calls,               \* the calls in flight
  route,               \* 0 for "/", i for "/workspace?id=i"
  nav,                 \* where router.push is about to go, or Here
  acts, others, faults \* spent of the bounds

server == <<srv, wsOf, vols>>
router == <<route, nav>>
bounds == <<acts, others, faults>>

Listed == {i \in Sids : srv[i] \in {"running", "stopped"}}
NoRow  == [id |-> 0, ws |-> NoWs, st |-> "none"]
Row(i) == IF i \in Listed THEN [id |-> i, ws |-> wsOf[i], st |-> srv[i]] ELSE NoRow

PageOps == {"load", "poll", "refetch", "page stop", "page restart", "page delete"}
ListOps == {"fetch", "stop", "restart", "delete", "resume", "deletews", "rename"}

\* n tells equal calls apart; live says that the component that sent the
\* call is still mounted; prev is what the handler's closure remembers.
Call(op, id, w) ==
  [op |-> op, id |-> id, ws |-> w, to |-> NoWs, prev |-> NoRow, n |-> 0, live |-> TRUE,
   at |-> "sent", ans |-> "none", row |-> NoRow, rows |-> {}, vols |-> {}]

With(cs, c) ==
  LET taken == {d.n : d \in {e \in cs : e.op = c.op}}
      n     == CHOOSE n \in 1..(Cardinality(taken) + 1) : n \notin taken
  IN  cs \cup {[c EXCEPT !.n = n]}

Send(c) == Cardinality(calls) < MaxCalls /\ calls' = With(calls, c)

Live(op) == {c \in calls : c.op = op /\ c.live}
InFlight(op, id) == {c \in calls : c.op = op /\ c.id = id}

ApiInit ==
  /\ srv \in {[i \in Sids |-> IF i = 1 THEN st ELSE "none"] : st \in {"running", "stopped"}}
  /\ wsOf = [i \in Sids |-> IF i = 1 THEN FirstWs ELSE NoWs]
  /\ vols = {FirstWs}
  /\ nav = Here /\ acts = 0 /\ others = 0 /\ faults = 0

Act == acts < MaxActs /\ acts' = acts + 1 /\ UNCHANGED <<others, faults>>

----------------------------------------------------------------------------
(* What the server does with a call.                                       *)

Becomes(c, d) == calls' = (calls \ {c}) \cup {d}
Answer(c, ans, row) == Becomes(c, [c EXCEPT !.at = "back", !.ans = ans, !.row = row])

\* GET /sessions/{id}: 404 once the session is gone.
ServeGet(c) ==
  /\ c.op \in {"load", "poll", "refetch"} /\ c.at = "sent"
  /\ Answer(c, IF c.id \in Listed THEN "ok" ELSE "missing", Row(c.id))
  /\ UNCHANGED <<server, faults>>

\* POST /sessions/{id}/stop marks a running session, and reads it again for
\* the answer: a session deleted in between is answered as null.
ServeStop(c) ==
  /\ c.op \in {"stop", "page stop"}
  /\ \/ /\ c.at = "sent" /\ srv[c.id] = "running"
        /\ srv' = [srv EXCEPT ![c.id] = "stopped"]
        /\ Becomes(c, [c EXCEPT !.at = "half"])
     \/ /\ c.at = "sent" /\ srv[c.id] # "running"
        /\ Answer(c, "failed", NoRow) /\ UNCHANGED srv
     \/ /\ c.at = "half"
        /\ Answer(c, "ok", Row(c.id)) /\ UNCHANGED srv
  /\ UNCHANGED <<wsOf, vols, faults>>

\* DELETE /sessions/{id}: the map forgets the session at once.
ServeDelete(c) ==
  /\ c.op \in {"delete", "page delete"} /\ c.at = "sent"
  /\ IF c.id \in Listed
     THEN srv' = [srv EXCEPT ![c.id] = "gone"] /\ Answer(c, "ok", NoRow)
     ELSE Answer(c, "missing", NoRow) /\ UNCHANGED srv
  /\ UNCHANGED <<wsOf, vols, faults>>

\* Manager.Create: the running session of the workspace if there is one;
\* else a stopped one is evicted, and a session is created or fails.
Create(c, w) ==
  LET of(st)  == {i \in Sids : wsOf[i] = w /\ srv[i] = st}
      free    == {i \in Sids : srv[i] = "none"}
      new     == CHOOSE i \in free : TRUE
      evicted == IF of("stopped") = {} THEN srv
                 ELSE [srv EXCEPT ![CHOOSE i \in of("stopped") : TRUE] = "gone"]
  IN IF of("running") # {}
     THEN /\ Answer(c, "ok", Row(CHOOSE i \in of("running") : TRUE))
          /\ UNCHANGED <<server, faults>>
     ELSE \/ /\ free # {}
             /\ srv' = [evicted EXCEPT ![new] = "running"]
             /\ wsOf' = [wsOf EXCEPT ![new] = w]
             /\ vols' = vols \cup {w}
             /\ Answer(c, "ok", [id |-> new, ws |-> w, st |-> "running"])
             /\ UNCHANGED faults
          \/ /\ free = {} \/ faults < MaxFaults
             /\ faults' = IF free = {} THEN faults ELSE faults + 1
             /\ srv' = evicted
             /\ Answer(c, "failed", NoRow)
             /\ UNCHANGED <<wsOf, vols>>

\* POST /sessions/{id}/restart: the old session leaves the map whatever its
\* status, then one is created from its spec.
ServeRestart(c) ==
  /\ c.op \in {"restart", "page restart"}
  /\ \/ /\ c.at = "sent" /\ c.id \in Listed
        /\ srv' = [srv EXCEPT ![c.id] = "gone"]
        /\ Becomes(c, [c EXCEPT !.at = "half"])
        /\ UNCHANGED <<wsOf, vols, faults>>
     \/ /\ c.at = "sent" /\ c.id \notin Listed
        /\ Answer(c, "failed", NoRow)
        /\ UNCHANGED <<server, faults>>
     \/ c.at = "half" /\ Create(c, wsOf[c.id])

\* POST /sessions
ServeResume(c) == c.op = "resume" /\ c.at = "sent" /\ Create(c, c.ws)

\* DELETE /workspaces/{id} asks nothing about sessions; a volume that cannot
\* be removed, as one that is in use, is answered with 500.
ServeDeleteWorkspace(c) ==
  /\ c.op = "deletews" /\ c.at = "sent"
  /\ \/ /\ vols' = vols \ {c.ws}
        /\ Answer(c, "ok", NoRow)
        /\ UNCHANGED faults
     \/ /\ faults < MaxFaults /\ faults' = faults + 1
        /\ Answer(c, "failed", NoRow)
        /\ UNCHANGED vols
  /\ UNCHANGED <<srv, wsOf>>

ServeRenameUnchecked(c) ==                                     \* mutant
  /\ c.op = "rename" /\ c.at = "sent"
  /\ IF c.to \in vols
     THEN Answer(c, "failed", NoRow) /\ UNCHANGED <<wsOf, vols>>
     ELSE /\ vols' = (vols \ {c.ws}) \cup {c.to}
          /\ wsOf' = [i \in Sids |-> IF wsOf[i] = c.ws THEN c.to ELSE wsOf[i]]
          /\ Answer(c, "ok", NoRow)
  /\ UNCHANGED <<srv, faults>>

\* PUT /workspaces/{id}: refused to a workspace with a running session and
\* to a name in use; the stopped sessions move along.
ServeRename(c) ==
  /\ c.op = "rename" /\ c.at = "sent"
  /\ IF c.to \in vols \/ \E i \in Sids : wsOf[i] = c.ws /\ srv[i] = "running"
     THEN Answer(c, "failed", NoRow) /\ UNCHANGED <<wsOf, vols>>
     ELSE /\ vols' = (vols \ {c.ws}) \cup {c.to}
          /\ wsOf' = [i \in Sids |-> IF wsOf[i] = c.ws /\ srv[i] = "stopped" THEN c.to ELSE wsOf[i]]
          /\ Answer(c, "ok", NoRow)
  /\ UNCHANGED <<srv, faults>>

\* GET /sessions and GET /workspaces, which Promise.all sends together: the
\* two answers are of two moments, in either order.
ServeFetch(c) ==
  /\ c.op = "fetch"
  /\ \/ /\ c.at \in {"sent", "vols"}
        /\ Becomes(c, [c EXCEPT !.rows = {Row(i) : i \in Listed},
                                !.at = IF c.at = "sent" THEN "rows" ELSE "back",
                                !.ans = IF c.at = "sent" THEN "none" ELSE "ok"])
     \/ /\ c.at \in {"sent", "rows"}
        /\ Becomes(c, [c EXCEPT !.vols = vols,
                                !.at = IF c.at = "sent" THEN "vols" ELSE "back",
                                !.ans = IF c.at = "sent" THEN "none" ELSE "ok"])
  /\ UNCHANGED <<server, faults>>

Serve(c) ==
  /\ \/ ServeGet(c) \/ ServeStop(c) \/ ServeDelete(c) \/ ServeRestart(c) \/ ServeResume(c)
     \/ ServeDeleteWorkspace(c) \/ ServeRename(c) \/ ServeFetch(c)
  /\ UNCHANGED <<router, acts, others>>

\* The request does not reach the server, or its answer not the browser:
\* fetch rejects either way.
Lost(c) ==
  /\ faults < MaxFaults /\ c.at \in {"sent", "back"} /\ c.ans # "failed"
  /\ faults' = faults + 1
  /\ Answer(c, "failed", NoRow)
  /\ UNCHANGED <<server, router, acts, others>>

\* Another tab or the timeout checker stops or deletes a session.
Elsewhere ==
  /\ others < MaxOthers /\ others' = others + 1
  /\ \E i \in Listed, st \in {"stopped", "gone"} :
       /\ st = "stopped" => srv[i] = "running"
       /\ srv' = [srv EXCEPT ![i] = st]
  /\ UNCHANGED <<wsOf, vols, calls, router, acts, faults>>

----------------------------------------------------------------------------
(* The reduced server against the promise of the session manager.          *)

WS == INSTANCE WorkspaceSessions WITH
        Ids    <- Sids,
        Names  <- Workspaces,
        NoName <- NoWs,
        state  <- srv,
        home   <- [i \in Sids |-> IF i \in Listed THEN wsOf[i] ELSE NoWs],
        alone  <- Listed,
        moving <- {}

\* The server as the console's model has it keeps the promise that
\* SessionManager keeps with all its interleavings (ImplementsSessions there):
\* what is shown of the console is shown of a server that manager.go can be.
ServesSessions == WS!Spec
=============================================================================
