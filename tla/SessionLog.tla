----------------------------- MODULE SessionLog -----------------------------
(***************************************************************************)
(* internal/sessionlog/store.go: the records of past sessions and their    *)
(* terminal logs, two files each, and who changes them: a session, when it *)
(* begins and when it is over (internal/session/manager.go), the requests  *)
(* that delete one (internal/server/sessions.go), and the cleanup of old   *)
(* ones when the server starts (cmd/zynqel-core/main.go).  The server may  *)
(* crash between any two file operations; a file that is removed is taken  *)
(* to go.                                                                  *)
(***************************************************************************)
EXTENDS Naturals, FiniteSets

CONSTANTS Ids,          \* sessions
          NoId,
          MaxTroubles   \* bound: crashes, and answers lost

ASSUME LogAssumption == NoId \notin Ids /\ MaxTroubles \in Nat

VARIABLES
  phase,     \* of each session: "none", "running", "over" once it has a
             \* record, or "past", of an earlier run of the server
  save,      \* its saves: "no", what the Stat found, or "over"
  rec,       \* its record: "none", "torn", or whether it has a log
  logged,    \* its log file exists
  del,       \* removals under way, of a page, another tab or the cleanup
  troubles   \* spent of the bound

files == <<phase, save, rec, logged, del, troubles>>

\* A session is saved by the goroutine of a Stop, or by a Delete or the reaper
\* that found it running; by both, if the Stop has been faster.
Savers == {"first", "second"}
Deleters == {"page", "tab", "cleanup"}
Spend == troubles < MaxTroubles /\ troubles' = troubles + 1

Readable == {i \in Ids : rec[i] \in {"log", "no log"}}

\* Some sessions are history already.
LogInit ==
  /\ phase \in [Ids -> {"none", "past"}]
  /\ save = [k \in Savers \X Ids |-> "no"]
  /\ logged = [i \in Ids |-> phase[i] = "past"]
  /\ rec = [i \in Ids |-> IF logged[i] THEN "log" ELSE "none"]
  /\ del = [d \in Deleters \X Ids |-> "no"]
  /\ troubles = 0

\* The cleanup is over before the server takes requests.
Serving == \A i \in Ids : del[<<"cleanup", i>>] = "no"

\* Create opens the log, if logs are kept and the file can be made.
BeginSession(i) ==
  /\ Serving /\ phase[i] = "none" /\ phase' = [phase EXCEPT ![i] = "running"]
  /\ logged' \in {logged, [logged EXCEPT ![i] = TRUE]}
  /\ UNCHANGED <<save, rec, del, troubles>>

\* Save looks for the log ...
LookForLog(k) ==
  /\ phase[k[2]] \in {"running", "over"} /\ save[k] = "no"
  /\ k[1] = "second" => save[<<"first", k[2]>>] # "no"
  /\ save' = [save EXCEPT ![k] = IF logged[k[2]] THEN "log" ELSE "no log"]
  /\ UNCHANGED <<phase, rec, logged, del, troubles>>

\* ... and writes the record in place.
WriteRecord(k) ==
  /\ phase[k[2]] \in {"running", "over"} /\ save[k] \in {"log", "no log"}
  /\ \/ rec' = [rec EXCEPT ![k[2]] = "torn"] /\ UNCHANGED <<phase, save>>
     \/ /\ rec' = [rec EXCEPT ![k[2]] = save[k]]
        /\ phase' = [phase EXCEPT ![k[2]] = "over"]
        /\ save' = [save EXCEPT ![k] = "over"]
  /\ UNCHANGED <<logged, del, troubles>>

Step(d, p) == del' = [del EXCEPT ![d] = p]

\* The history lists a session once its record is written.  Bound: one
\* removal of a session is under way.
AskDelete(who, i) ==
  /\ phase[i] \in {"over", "past"}
  /\ \A d \in Deleters : del[<<d, i>>] = "no"
  /\ Step(<<who, i>>, "asked")
  /\ UNCHANGED <<phase, save, rec, logged, troubles>>

\* Another tab.  Bound: it asks for what can be read.
AskInTab(i) == i \in Readable /\ AskDelete("tab", i)

DeleteLogFirst(d) ==                                           \* mutant
  \/ /\ del[d] = "asked" /\ Step(d, "half")
     /\ logged' = [logged EXCEPT ![d[2]] = FALSE] /\ UNCHANGED rec
  \/ /\ del[d] = "half" /\ Step(d, IF d[1] = "page" THEN "ok" ELSE "no")
     /\ rec' = [rec EXCEPT ![d[2]] = "none"] /\ UNCHANGED logged

\* Delete removes the record, then the log; it never reports a failure.  Of
\* the answers those to the page matter.
DeleteFiles(d) ==
  \/ /\ del[d] = "asked" /\ Step(d, "half")
     /\ rec' = [rec EXCEPT ![d[2]] = "none"] /\ UNCHANGED logged
  \/ /\ del[d] = "half" /\ Step(d, IF d[1] = "page" THEN "ok" ELSE "no")
     /\ logged' = [logged EXCEPT ![d[2]] = FALSE] /\ UNCHANGED rec

HandleDeleteHistory(d) ==
  /\ d[1] = "cleanup" \/ Serving
  /\ DeleteFiles(d)
  /\ UNCHANGED <<phase, save, troubles>>

DeleteLost(d) ==
  /\ d[1] = "page" /\ del[d] \in {"asked", "ok"} /\ Step(d, "failed")
  /\ Spend
  /\ UNCHANGED <<phase, save, rec, logged>>

DeleteAnswered(d) ==
  /\ del[d] \in {"ok", "failed"} /\ Step(d, "no")
  /\ UNCHANGED <<phase, save, rec, logged, troubles>>

\* The sessions that ran are gone without a record.  Of the records that
\* can be read the cleanup removes those that are too old by now.
CrashAndCleanup ==
  /\ Spend
  /\ phase' = [i \in Ids |-> IF phase[i] = "none" THEN "none" ELSE "past"]
  /\ save' = [k \in Savers \X Ids |-> IF save[k] = "no" THEN "no" ELSE "over"]
  /\ \E old \in SUBSET Readable :
       del' = [d \in Deleters \X Ids |->
                 IF d[1] = "cleanup" THEN IF d[2] \in old THEN "asked" ELSE "no"
                 ELSE IF d[1] = "page" /\ del[d] # "no" THEN "failed" ELSE "no"]
  /\ UNCHANGED <<rec, logged>>

LogNext ==
  \/ \E i \in Ids : BeginSession(i) \/ AskInTab(i)
  \/ \E k \in Savers \X Ids : LookForLog(k) \/ WriteRecord(k)
  \/ \E d \in Deleters \X Ids : HandleDeleteHistory(d) \/ DeleteLost(d)
  \/ CrashAndCleanup

----------------------------------------------------------------------------
LogTypeOK ==
  /\ phase \in [Ids -> {"none", "running", "over", "past"}]
  /\ save \in [Savers \X Ids -> {"no", "log", "no log", "over"}]
  /\ rec \in [Ids -> {"none", "torn", "log", "no log"}]
  /\ logged \in [Ids -> BOOLEAN]
  /\ del \in [Deleters \X Ids -> {"no", "asked", "half", "ok", "failed"}]
  /\ troubles \in 0..MaxTroubles

\* A record that says it has a log has one, whoever deletes it, also after
\* a crash in the middle of a save, a deletion or the cleanup: the history
\* never offers a log that is gone (store.go, lines 75-100, 139-147).  Left
\* out is a session that is saved twice: a deletion between the two, or
\* between the Stat and the write of the second, leaves a record whose log
\* is gone (manager.go:346 and 398, store.go:87).
SavedTwice(i) == \A b \in Savers : save[<<b, i>>] # "no"
RecordHasItsLog == \A i \in Ids : rec[i] = "log" => logged[i] \/ SavedTwice(i)
=============================================================================
