--------------------------- MODULE WorkspacePage ---------------------------
(***************************************************************************)
(* web/src/app/workspace/page.tsx, the page of one session: its reads and  *)
(* polls, the Stop, Start and Remove handlers, and what its dialogs,       *)
(* buttons and overlay offer.  Next keeps the component, with its state,   *)
(* when only the id in the URL changes.                                    *)
(***************************************************************************)
EXTENDS Api

VARIABLES
  shown,                       \* the state "session"; NoRow for null
  loading,
  confirmStop, confirmDelete,  \* the dialogs that are open
  restarting,
  deleting                     \* with deletingRef, which is set and reset with it

page  == <<shown, loading, confirmStop, confirmDelete, restarting, deleting>>
flags == <<confirmStop, confirmDelete, restarting, deleting>>

PageBlank ==
  /\ shown = NoRow /\ loading = TRUE
  /\ confirmStop = FALSE /\ confirmDelete = FALSE
  /\ restarting = FALSE /\ deleting = FALSE

\* A component that is mounted anew, whose first effect sends a read.
PageFresh ==
  /\ shown' = NoRow /\ loading' = TRUE
  /\ confirmStop' = FALSE /\ confirmDelete' = FALSE
  /\ restarting' = FALSE /\ deleting' = FALSE

\* The effect of [id] starts; it resets neither session nor loading.
Effect(cs, i) == With(cs, Call("load", i, NoWs))

EffectCleanupKeepsReads(cs) == cs                              \* mutant

\* The cleanup of that effect: answers to its reads are ignored from now on.
EffectCleanup(cs) == {c \in cs : c.op \notin {"load", "poll"}}

\* The component goes: what its other handlers set from now on is ignored.
PageUnmount(cs) ==
  {IF c.op \in PageOps THEN [c EXCEPT !.live = FALSE] ELSE c :
     c \in {d \in EffectCleanup(cs) : d.op # "refetch"}}

----------------------------------------------------------------------------
(* Reads.                                                                  *)

\* The interval runs, but for a Remove.  Bound: one poll is under way.
PollPage ==
  /\ route \in Sids /\ ~deleting /\ InFlight("poll", route) = {}
  /\ Send(Call("poll", route, NoWs))
  /\ UNCHANGED <<server, router, bounds, page>>

\* Any failure of the first read shows "Session not found".
LoadDone(c) ==
  /\ c.op = "load"
  /\ shown' = c.row
  /\ loading' = FALSE
  /\ calls' = calls \ {c}
  /\ UNCHANGED <<server, router, bounds, flags>>

PollDoneKeeps404(c) ==                                         \* mutant
  /\ c.op = "poll"
  /\ shown' = IF c.ans \in {"failed", "missing"} THEN shown ELSE c.row
  /\ calls' = calls \ {c}
  /\ UNCHANGED <<server, router, bounds, loading, flags>>

\* Of the failures of a poll only a 404 changes what is shown.
PollDone(c) ==
  /\ c.op = "poll"
  /\ shown' = IF c.ans = "failed" THEN shown ELSE c.row
  /\ calls' = calls \ {c}
  /\ UNCHANGED <<server, router, bounds, loading, flags>>

----------------------------------------------------------------------------
(* What the user can do with the page.                                     *)

\* Past the skeleton and "Session not found".
Displayed == route \in Sids /\ ~loading /\ shown # NoRow
IsRunning == shown.st = "running"

\* A dialog that is open covers the page.
Uncovered == Displayed /\ ~confirmStop /\ ~confirmDelete

\* The buttons of the header, and those of the overlay on the terminal of a
\* session that does not run; its "Back" is a link like that of the header.
Start == IF restarting THEN {} ELSE {"start"}
HeaderOffers  == {"remove"} \cup (IF IsRunning THEN {"stop"} ELSE Start)
OverlayOffers == IF IsRunning THEN {} ELSE {"remove"} \cup Start
Offers(b) == Uncovered /\ b \in HeaderOffers \cup OverlayOffers

\* The dialogs ask before a Stop or a Remove.
AskStop == Offers("stop") /\ confirmStop' = TRUE
           /\ UNCHANGED <<shown, loading, confirmDelete, restarting, deleting,
                          server, router, calls, bounds>>

AskDelete == Offers("remove") /\ confirmDelete' = TRUE
             /\ UNCHANGED <<shown, loading, confirmStop, restarting, deleting,
                            server, router, calls, bounds>>

Cancel ==
  /\ Displayed /\ (confirmStop \/ confirmDelete)
  /\ confirmStop' = FALSE /\ confirmDelete' = FALSE
  /\ UNCHANGED <<shown, loading, restarting, deleting, server, router, calls, bounds>>

\* The page shows the session as stopped before it asks for it.
HandleStop ==
  /\ Displayed /\ confirmStop /\ Act
  /\ confirmStop' = FALSE
  /\ shown' = [shown EXCEPT !.st = "stopped"]
  /\ Send([Call("page stop", route, NoWs) EXCEPT !.prev = shown])
  /\ UNCHANGED <<loading, confirmDelete, restarting, deleting, server, router>>

StopDoneKeeps(c) ==                                            \* mutant
  /\ c.op = "page stop"
  /\ shown' = IF c.live /\ c.ans = "ok" THEN c.row ELSE shown
  /\ calls' = calls \ {c}
  /\ UNCHANGED <<loading, flags, server, router, bounds>>

\* A Stop that failed puts back the session of its closure.
StopDone(c) ==
  /\ c.op = "page stop"
  /\ shown' = IF ~c.live THEN shown ELSE IF c.ans = "ok" THEN c.row ELSE c.prev
  /\ calls' = calls \ {c}
  /\ UNCHANGED <<loading, flags, server, router, bounds>>

HandleRestart ==
  /\ Offers("start") /\ Act
  /\ restarting' = TRUE
  /\ Send(Call("page restart", route, NoWs))
  /\ UNCHANGED <<shown, loading, confirmStop, confirmDelete, deleting, server, router>>

RestartDoneNoFinally(c) ==                                     \* mutant
  /\ c.op = "page restart"
  /\ nav' = IF c.ans = "ok" THEN c.row.id ELSE nav
  /\ restarting' = IF c.live /\ c.ans = "ok" THEN FALSE ELSE restarting
  /\ calls' = calls \ {c}
  /\ UNCHANGED <<shown, loading, confirmStop, confirmDelete, deleting, server, route, bounds>>

\* The push goes out even when the page has been left.
RestartDone(c) ==
  /\ c.op = "page restart"
  /\ nav' = IF c.ans = "ok" THEN c.row.id ELSE nav
  /\ restarting' = (restarting /\ ~c.live)
  /\ calls' = calls \ {c}
  /\ UNCHANGED <<shown, loading, confirmStop, confirmDelete, deleting, server, route, bounds>>

HandleDelete ==
  /\ Displayed /\ confirmDelete /\ ~deleting /\ Act
  /\ confirmDelete' = FALSE
  /\ deleting' = TRUE
  /\ Send(Call("page delete", route, NoWs))
  /\ UNCHANGED <<shown, loading, confirmStop, restarting, server, router>>

\* A Remove that failed reads the session again before it lets go.
DeleteDone(c) ==
  /\ c.op = "page delete"
  /\ nav' = IF c.ans = "ok" THEN 0 ELSE nav
  /\ deleting' = (deleting /\ ~(c.live /\ c.ans = "ok"))
  /\ calls' = IF c.live /\ c.ans # "ok"
              THEN With(calls \ {c}, Call("refetch", c.id, NoWs)) ELSE calls \ {c}
  /\ UNCHANGED <<shown, loading, confirmStop, confirmDelete, restarting, server, route, bounds>>

RefetchDone(c) ==
  /\ c.op = "refetch"
  /\ shown' = IF c.ans = "ok" THEN c.row ELSE shown
  /\ deleting' = FALSE
  /\ calls' = calls \ {c}
  /\ UNCHANGED <<loading, confirmStop, confirmDelete, restarting, server, router, bounds>>

PageDone(c) == c.at = "back" /\ \/ LoadDone(c) \/ PollDone(c) \/ StopDone(c)
                                \/ RestartDone(c) \/ DeleteDone(c) \/ RefetchDone(c)
PageUser == AskStop \/ AskDelete \/ Cancel \/ HandleStop \/ HandleRestart \/ HandleDelete
=============================================================================
