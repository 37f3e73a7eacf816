--------------------------- MODULE WorkspaceList ---------------------------
(***************************************************************************)
(* web/src/components/workspace-list.tsx, the list of sessions and saved   *)
(* workspaces, with the actions its cards offer (workspace-card.tsx) and   *)
(* the rename dialog.  The search box and the status filter choose what of *)
(* the rows is drawn and are left out, as are the toasts.                  *)
(***************************************************************************)
EXTENDS Api

VARIABLES
  rows,           \* the state "sessions"
  saved,          \* the state "workspaces"
  listLoading,
  confirmAction,  \* <<"stop", id>>, <<"delete", id>>, or <<>>
  resumingId,     \* the workspace whose Resume button spins, or NoWs
  renameTarget,   \* the workspace of the rename dialog, or NoWs
  blank           \* rendering has failed: nothing is shown any more

list == <<rows, saved, listLoading, confirmAction, resumingId, renameTarget, blank>>
data == <<rows, saved, listLoading, blank>>
dialogs == <<confirmAction, resumingId, renameTarget>>

ListBlank ==
  /\ rows = {} /\ saved = {} /\ listLoading = TRUE /\ confirmAction = <<>>
  /\ resumingId = NoWs /\ renameTarget = NoWs /\ blank = FALSE

ListFresh ==
  /\ rows' = {} /\ saved' = {} /\ listLoading' = TRUE /\ confirmAction' = <<>>
  /\ resumingId' = NoWs /\ renameTarget' = NoWs /\ blank' = FALSE

Fetch(cs) == With(cs, Call("fetch", 0, NoWs))

\* The interval is cleared, and what its handlers set from now on ignored.
ListUnmount(cs) ==
  {IF c.op \in ListOps THEN [c EXCEPT !.live = FALSE] ELSE c :
     c \in {d \in cs : d.op # "fetch"}}

----------------------------------------------------------------------------
(* Reads.                                                                  *)

InList == route = 0 /\ ~blank

PollListWhileLoading ==                                        \* mutant
  /\ InList /\ listLoading /\ InFlight("fetch", 0) = {}
  /\ Cardinality(calls) < MaxCalls /\ calls' = Fetch(calls)
  /\ UNCHANGED <<server, router, bounds, list>>

\* Bound: one read of the list by the timer is under way.
PollList ==
  /\ InList /\ InFlight("fetch", 0) = {}
  /\ Cardinality(calls) < MaxCalls /\ calls' = Fetch(calls)
  /\ UNCHANGED <<server, router, bounds, list>>

\* A failed fetch keeps what is shown.
FetchDone(c) ==
  /\ c.op = "fetch"
  /\ IF c.ans = "ok" THEN rows' = c.rows /\ saved' = c.vols ELSE UNCHANGED <<rows, saved>>
  /\ listLoading' = FALSE
  /\ calls' = calls \ {c}
  /\ UNCHANGED <<blank, dialogs, server, router, bounds>>

----------------------------------------------------------------------------
(* The rows, their menus and the dialogs.                                  *)

Drawn == InList /\ ~listLoading

\* A dialog that is open covers the list.
ListUncovered == Drawn /\ confirmAction = <<>> /\ renameTarget = NoWs
SavedWorkspaces == {w \in saved : \A r \in rows : r.ws # w}

\* A card offers Start and Rename when it is stopped, Stop when it runs,
\* Remove always.
CardActions(r) == {"delete"} \cup (IF r.st = "running" THEN {"stop"} ELSE {"restart", "rename"})

AskAction ==
  /\ ListUncovered
  /\ \E r \in rows, a \in {"stop", "delete"} :
       a \in CardActions(r) /\ confirmAction' = <<a, r.id>>
  /\ UNCHANGED <<resumingId, renameTarget, data, server, router, calls, bounds>>

AskRename ==
  /\ ListUncovered
  /\ renameTarget' \in SavedWorkspaces \cup {r.ws : r \in {s \in rows : "rename" \in CardActions(s)}}
  /\ UNCHANGED <<confirmAction, resumingId, data, server, router, calls, bounds>>

CloseDialog ==
  /\ Drawn /\ (confirmAction # <<>> \/ renameTarget # NoWs)
  /\ confirmAction' = <<>> /\ renameTarget' = NoWs
  /\ UNCHANGED <<resumingId, data, server, router, calls, bounds>>

Replaced(id, r) == {IF s.id = id THEN r ELSE s : s \in rows}

ListStop ==
  /\ Drawn /\ confirmAction # <<>> /\ confirmAction[1] = "stop" /\ Act
  /\ confirmAction' = <<>>
  /\ rows' = {IF s.id = confirmAction[2] THEN [s EXCEPT !.st = "stopped"] ELSE s : s \in rows}
  /\ Send(Call("stop", confirmAction[2], NoWs))
  /\ UNCHANGED <<saved, listLoading, resumingId, renameTarget, blank, server, router>>

\* Whoever replaces a row by the null of an answer breaks the rendering,
\* which reads spec of every row.
Show(rs) == rows' = rs /\ blank' = (NoRow \in rs)

ListStopDone(c) ==
  /\ c.op = "stop"
  /\ IF c.live /\ c.ans = "ok" THEN Show(Replaced(c.id, c.row)) ELSE UNCHANGED <<rows, blank>>
  /\ calls' = IF c.live /\ c.ans # "ok" THEN Fetch(calls \ {c}) ELSE calls \ {c}
  /\ UNCHANGED <<saved, listLoading, dialogs, server, router, bounds>>

ListRestart ==
  /\ ListUncovered /\ Act
  /\ \E r \in rows : "restart" \in CardActions(r) /\ Send(Call("restart", r.id, NoWs))
  /\ UNCHANGED <<list, server, router>>

ListRestartDone(c) ==
  /\ c.op = "restart"
  /\ rows' = IF c.live /\ c.ans = "ok" THEN Replaced(c.id, c.row) ELSE rows
  /\ calls' = calls \ {c}
  /\ UNCHANGED <<saved, listLoading, blank, dialogs, server, router, bounds>>

ListDelete ==
  /\ Drawn /\ confirmAction # <<>> /\ confirmAction[1] = "delete" /\ Act
  /\ confirmAction' = <<>>
  /\ Send(Call("delete", confirmAction[2], NoWs))
  /\ UNCHANGED <<data, resumingId, renameTarget, server, router>>

ListDeleteDone(c) ==
  /\ c.op = "delete"
  /\ rows' = IF c.live /\ c.ans = "ok" THEN {r \in rows : r.id # c.id} ELSE rows
  /\ calls' = calls \ {c}
  /\ UNCHANGED <<saved, listLoading, blank, dialogs, server, router, bounds>>

HandleResume ==
  /\ ListUncovered /\ Act
  /\ \E w \in SavedWorkspaces \ {resumingId} :
       resumingId' = w /\ Send(Call("resume", 0, w))
  /\ UNCHANGED <<data, confirmAction, renameTarget, server, router>>

HandleResumeDone(c) ==
  /\ c.op = "resume"
  /\ nav' = IF c.ans = "ok" THEN c.row.id ELSE nav
  /\ resumingId' = IF c.live THEN NoWs ELSE resumingId
  /\ calls' = calls \ {c}
  /\ UNCHANGED <<data, confirmAction, renameTarget, server, route, bounds>>

HandleDeleteWorkspace ==
  /\ ListUncovered /\ Act
  /\ \E w \in SavedWorkspaces : Send(Call("deletews", 0, w))
  /\ UNCHANGED <<list, server, router>>

HandleDeleteWorkspaceDone(c) ==
  /\ c.op = "deletews"
  /\ saved' = IF c.live /\ c.ans = "ok" THEN saved \ {c.ws} ELSE saved
  /\ calls' = calls \ {c}
  /\ UNCHANGED <<rows, listLoading, blank, dialogs, server, router, bounds>>

\* The dialog takes a valid name other than the current one, and stays open
\* while the call is under way.
ValidNames(w) == Workspaces \ {w}

HandleRename ==
  /\ Drawn /\ renameTarget # NoWs /\ Act
  /\ \E w \in ValidNames(renameTarget) :
       Send([Call("rename", 0, renameTarget) EXCEPT !.to = w])
  /\ UNCHANGED <<list, server, router>>

\* Success closes the dialog that is open, whichever it is, and reads again.
HandleRenameDone(c) ==
  /\ c.op = "rename"
  /\ renameTarget' = IF c.live /\ c.ans = "ok" THEN NoWs ELSE renameTarget
  /\ calls' = IF c.live /\ c.ans = "ok" THEN Fetch(calls \ {c}) ELSE calls \ {c}
  /\ UNCHANGED <<data, confirmAction, resumingId, server, router, bounds>>

ListDone(c) == c.at = "back" /\ \/ FetchDone(c) \/ ListStopDone(c) \/ ListRestartDone(c)
                                \/ ListDeleteDone(c) \/ HandleResumeDone(c)
                                \/ HandleDeleteWorkspaceDone(c) \/ HandleRenameDone(c)
ListUser == \/ AskAction \/ AskRename \/ CloseDialog \/ ListStop \/ ListRestart \/ ListDelete
            \/ HandleResume \/ HandleDeleteWorkspace \/ HandleRename
=============================================================================
