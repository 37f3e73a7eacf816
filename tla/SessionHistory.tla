--------------------------- MODULE SessionHistory ---------------------------
(***************************************************************************)
(* web/src/components/session-history.tsx, the list of past sessions under *)
(* the workspaces, and log-viewer.tsx, the dialog that shows the log of    *)
(* one.  The list is read once, when it is mounted: the status filter of   *)
(* the workspaces mounts and unmounts it.                                  *)
(***************************************************************************)
EXTENDS SessionLog

CONSTANT MaxMounts    \* bound: times it is mounted

ASSUME HistoryAssumption == MaxMounts \in Nat \ {0}

VARIABLES
  records,          \* ids listed, each with whether it has a log
  historyLoading,
  fetching,         \* the read of the list: "no", "asked", "ok" or "failed"
  fetched,          \* and what it has read
  logTarget,        \* the session whose log is open, or NoId
  viewing,          \* what the terminal of the viewer shows, or NoId
  logLoading,
  loads,            \* reads of logs under way
  mounts

viewer == <<logTarget, viewing, logLoading, loads>>
history == <<records, historyLoading, fetching, fetched, viewer, mounts>>

Listed == {<<i, rec[i] = "log">> : i \in Readable}

HistoryInit ==
  /\ records = {} /\ historyLoading = TRUE /\ fetching = "asked" /\ fetched = {}
  /\ logTarget = NoId /\ viewing = NoId /\ logLoading = FALSE /\ loads = {} /\ mounts = 1

\* List skips what cannot be read.
ServeHistory ==
  /\ Serving /\ fetching = "asked" /\ fetching' = "ok" /\ fetched' = Listed
  /\ UNCHANGED <<records, historyLoading, viewer, mounts, files>>

HistoryLost ==
  /\ fetching \in {"asked", "ok"} /\ fetching' = "failed" /\ fetched' = {}
  /\ Spend
  /\ UNCHANGED <<records, historyLoading, viewer, mounts, phase, save, rec, logged, del>>

FetchHistoryDone ==
  /\ fetching \in {"ok", "failed"} /\ fetching' = "no"
  /\ records' = IF fetching = "ok" THEN fetched ELSE records
  /\ historyLoading' = FALSE /\ fetched' = {}
  /\ UNCHANGED <<viewer, mounts, files>>

Rows == IF historyLoading THEN {} ELSE records

HandleDelete(i) ==
  /\ i \in {r[1] : r \in Rows} /\ logTarget = NoId
  /\ AskDelete("page", i)
  /\ UNCHANGED history

HandleDeleteDone(i) ==
  /\ DeleteAnswered(<<"page", i>>)
  /\ records' = IF del[<<"page", i>>] = "ok" THEN {r \in records : r[1] # i} ELSE records
  /\ UNCHANGED <<historyLoading, fetching, fetched, viewer, mounts>>

\* The cleanup of the viewer's effect.
Abandon == {[l EXCEPT !.mounted = FALSE] : l \in loads}

\* The button of a row sets the target, and the effect of the viewer reads
\* the log, also when an earlier read of it is under way.  Bound: two reads are.
OpenLog(i) ==
  /\ <<i, TRUE>> \in Rows /\ logTarget = NoId /\ logTarget' = i
  /\ logLoading' = TRUE
  /\ Cardinality(loads) < 2
  /\ loads' = Abandon \cup {[of |-> i, at |-> "asked", mounted |-> TRUE]}
  /\ UNCHANGED <<records, historyLoading, fetching, fetched, viewing, mounts, files>>

CloseLog ==
  /\ logTarget # NoId /\ logTarget' = NoId
  /\ loads' = Abandon /\ viewing' = NoId
  /\ UNCHANGED <<records, historyLoading, fetching, fetched, logLoading, mounts, files>>

LoadAt(l, p) == loads' = (loads \ {l}) \cup {[l EXCEPT !.at = p]}

\* A log that is not there is an answer, too.
ServeLog(l) ==
  /\ Serving /\ l.at = "asked" /\ LoadAt(l, "ok")
  /\ UNCHANGED <<records, historyLoading, fetching, fetched, logTarget, viewing, logLoading,
                 mounts, files>>

LogLost(l) ==
  /\ l.at # "failed" /\ LoadAt(l, "failed")
  /\ Spend
  /\ UNCHANGED <<records, historyLoading, fetching, fetched, logTarget, viewing, logLoading,
                 mounts, phase, save, rec, logged, del>>

LoadLogUnguarded(l) ==                                         \* mutant
  /\ l.at \in {"ok", "failed"} /\ loads' = loads \ {l}
  /\ viewing' = IF l.at = "ok" /\ logTarget # NoId THEN l.of ELSE viewing
  /\ logLoading' = FALSE
  /\ UNCHANGED <<records, historyLoading, fetching, fetched, logTarget, mounts, files>>

LoadLogUncaught(l) ==                                          \* mutant
  /\ l.at \in {"ok", "failed"} /\ loads' = loads \ {l}
  /\ viewing' = IF l.mounted /\ l.at = "ok" THEN l.of ELSE viewing
  /\ logLoading' = (logLoading /\ ~(l.mounted /\ l.at = "ok"))
  /\ UNCHANGED <<records, historyLoading, fetching, fetched, logTarget, mounts, files>>

\* An answer to a read whose effect was cleaned up is ignored; a failure
\* shows a message.
LoadLog(l) ==
  /\ l.at \in {"ok", "failed"} /\ loads' = loads \ {l}
  /\ viewing' = IF l.mounted /\ l.at = "ok" THEN l.of ELSE viewing
  /\ logLoading' = (logLoading /\ ~l.mounted)
  /\ UNCHANGED <<records, historyLoading, fetching, fetched, logTarget, mounts, files>>

\* Another filter and back, once the deletions asked for are answered: what
\* was read is forgotten, with the read of the list that may be under way.
Remount ==
  /\ mounts < MaxMounts /\ mounts' = mounts + 1 /\ logTarget = NoId
  /\ \A i \in Ids : del[<<"page", i>>] = "no"
  /\ records' = {} /\ historyLoading' = TRUE /\ fetching' = "asked" /\ fetched' = {}
  /\ logLoading' = FALSE
  /\ UNCHANGED <<logTarget, viewing, loads, files>>

HistoryNext ==
  \/ (ServeHistory \/ HistoryLost \/ FetchHistoryDone \/ CloseLog \/ Remount)
  \/ \E i \in Ids : HandleDelete(i) \/ HandleDeleteDone(i) \/ OpenLog(i)
  \/ \E l \in loads : ServeLog(l) \/ LogLost(l) \/ LoadLog(l)

----------------------------------------------------------------------------
HistoryTypeOK ==
  /\ records \subseteq Ids \X BOOLEAN /\ fetched \subseteq Ids \X BOOLEAN
  /\ fetching \in {"no", "asked", "ok", "failed"}
  /\ {historyLoading, logLoading} \subseteq BOOLEAN
  /\ {logTarget, viewing} \subseteq Ids \cup {NoId} /\ mounts \in 1..MaxMounts
  /\ \A l \in loads : l.of \in Ids /\ l.at \in {"asked", "ok", "failed"}

\* The log on the screen is that of the session the dialog was opened for,
\* however late the answers to earlier openings come, and one that is open
\* and spins has its own read under way (log-viewer.tsx, lines 26-95).
LogIsOfTarget ==
  /\ viewing # NoId => viewing = logTarget
  /\ logTarget # NoId /\ logLoading => \E l \in loads : l.mounted /\ l.of = logTarget
=============================================================================
