----------------------------- MODULE Dashboard -----------------------------
(***************************************************************************)
(* The web console: the list at "/", the session page at "/workspace?id=", *)
(* the router between them and the server behind both.  One of the two is  *)
(* mounted at a time; what the other has sent is still under way.          *)
(***************************************************************************)
EXTENDS WorkspacePage, WorkspaceList

vars == <<server, calls, router, bounds, page, list>>

Init ==
  /\ ApiInit /\ PageBlank /\ ListBlank
  /\ \/ route = 0 /\ calls = Fetch({})
     \/ route = 1 /\ calls = Effect({}, 1)

\* The navigation that was pushed last takes place: from the list to a page
\* and back another component is mounted, from page to page the effect of
\* [id] runs again.
Route ==
  /\ nav # Here
  /\ nav' = Here /\ route' = nav
  /\ \/ nav = route /\ UNCHANGED <<calls, page, list>>
     \/ route = 0 /\ nav # 0 /\ PageFresh /\ ListFresh /\ calls' = Effect(ListUnmount(calls), nav)
     \/ route # 0 /\ nav = 0 /\ PageFresh /\ ListFresh /\ calls' = Fetch(PageUnmount(calls))
     \/ 0 \notin {route, nav} /\ nav # route
        /\ calls' = Effect(EffectCleanup(calls), nav) /\ UNCHANGED <<page, list>>
  /\ UNCHANGED <<server, bounds>>

\* The user follows a link: of a card, back to the list, or, in the browser's
\* history, to the page of another session.
Follow ==
  /\ ~blank /\ nav = Here /\ Act
  /\ \/ Drawn /\ nav' \in {r.id : r \in rows}
     \/ route # 0 /\ nav' = 0
     \/ route # 0 /\ nav' \in {i \in Sids \ {route} : srv[i] # "none"}
  /\ UNCHANGED <<server, calls, route, page, list>>

Next ==
  \/ PageUser /\ UNCHANGED list
  \/ PollPage /\ UNCHANGED list
  \/ ListUser /\ UNCHANGED page
  \/ PollList /\ UNCHANGED page
  \/ \E c \in calls : \/ PageDone(c) /\ UNCHANGED list
                      \/ ListDone(c) /\ UNCHANGED page
                      \/ Serve(c) /\ UNCHANGED <<page, list>>
                      \/ Lost(c) /\ UNCHANGED <<page, list>>
  \/ Elsewhere /\ UNCHANGED <<page, list>>
  \/ Route \/ Follow

Spec == Init /\ [][Next]_vars

\* The server answers every call and the event loop runs every answer,
\* every timer of the component that is mounted and every navigation.
FairSpec ==
  /\ Spec
  /\ WF_vars(PollPage /\ UNCHANGED list) /\ WF_vars(PollList /\ UNCHANGED page)
  /\ WF_vars(Route)
  /\ \A op \in PageOps \cup ListOps :
       WF_vars(\E c \in calls : /\ c.op = op
                                /\ \/ PageDone(c) /\ UNCHANGED list
                                   \/ ListDone(c) /\ UNCHANGED page
                                   \/ Serve(c) /\ UNCHANGED <<page, list>>)

----------------------------------------------------------------------------
RowType == [id : 0..MaxSid, ws : Workspaces \cup {NoWs}, st : {"none", "running", "stopped"}]

\* The types; the reads that will be listened to are those of the component
\* that is mounted.
TypeOK ==
  /\ srv \in [Sids -> {"none", "running", "stopped", "gone"}]
  /\ wsOf \in [Sids -> Workspaces \cup {NoWs}] /\ vols \subseteq Workspaces
  /\ route \in 0..MaxSid /\ nav \in 0..Here
  /\ \A c \in calls :
       /\ c.op \in PageOps \cup ListOps /\ c.at \in {"sent", "half", "rows", "vols", "back"}
       /\ c.id \in 0..MaxSid /\ c.n \in 1..(MaxCalls + 1) /\ c.live \in BOOLEAN
       /\ {c.ws, c.to} \subseteq Workspaces \cup {NoWs}
       /\ c.ans \in {"none", "ok", "missing", "failed"} /\ {c.prev, c.row} \cup c.rows \subseteq RowType
       /\ c.vols \subseteq Workspaces
       /\ c.op \in {"load", "poll"} => route # 0 /\ c.id = route
       /\ c.op = "fetch" => route = 0
  /\ Cardinality(calls) <= MaxCalls + 1
  /\ shown \in RowType
  /\ {loading, confirmStop, confirmDelete, restarting, deleting, listLoading, blank} \subseteq BOOLEAN
  /\ rows \subseteq RowType /\ saved \subseteq Workspaces
  /\ confirmAction = <<>> \/ confirmAction \in {"stop", "delete"} \X Sids
  /\ {resumingId, renameTarget} \subseteq Workspaces \cup {NoWs}
  /\ acts \in 0..MaxActs /\ others \in 0..MaxOthers /\ faults \in 0..MaxFaults

\* When the page shows as stopped a session that is still running, a Stop
\* of it is under way: the optimistic state never outlives its request
\* (page.tsx, lines 112-123).
StoppedIsBacked ==
  \A i \in Sids :
    shown.id = i /\ shown.st = "stopped" /\ srv[i] = "running" =>
      \E c \in calls : c.op = "page stop" /\ c.live /\ c.prev.id = i

\* A button spins exactly as long as a request of its page is under way
\* (lines 125-163), and Resume spins only while one is (workspace-list.tsx,
\* lines 104-119): no answer, failure or navigation leaves one stuck.
SpinnersAreTrue ==
  /\ restarting <=> Live("page restart") # {}
  /\ deleting <=> Live("page delete") \cup Live("refetch") # {}
  /\ resumingId # NoWs => \E c \in Live("resume") : c.ws = resumingId
  /\ Cardinality(Live("page restart")) <= 1 /\ Cardinality(Live("page delete")) <= 1

\* Only an answer to a Stop, or to the read after a failed Remove, can bring
\* back a session the page has left: reads of an earlier id are ignored
\* (lines 66-78, 90, 101-104).
NoForeignRead ==
  [][shown'.id \notin {0, shown.id, route'} =>
       \E c \in calls \ calls' : c.op \in {"page stop", "refetch"}]_vars

\* Whatever answers were late, lost or out of order, once the user and the
\* others rest the page comes to show its session as the server has it.
PageConverges ==
  <>[](route # 0 => ~loading /\ shown = Row(route))

\* And so does the list, unless its rendering has failed.
ListConverges ==
  <>[](InList => ~listLoading /\ rows = {Row(i) : i \in Listed} /\ saved = vols)
=============================================================================
