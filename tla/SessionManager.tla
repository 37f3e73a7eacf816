--------------------------- MODULE SessionManager ---------------------------
(***************************************************************************)
(* internal/session/manager.go: the session map, the creating guard and    *)
(* every handler and goroutine that works on them.                         *)
(*                                                                         *)
(* A process of the model is one goroutine: a request (an HTTP handler,    *)
(* the reaper's tick, the shutdown) that makes one call of the manager, or *)
(* the goroutine that Create spawns to remove the container of a stopped   *)
(* session it evicts, which is named by that session.  A Stop request goes *)
(* on as the background goroutine it starts.  A section under m.mu is one  *)
(* step; every call of the sandbox, and every read or write of a session   *)
(* field outside the lock that another goroutine can race with, is a step  *)
(* of its own.                                                             *)
(*                                                                         *)
(* waitStopDone gives up after 35s, which is longer than the 30s after     *)
(* which the cleanup's calls fail: the model waits for the channel only.   *)
(* The first 8 digits of a session id, which name the workspace of a       *)
(* session created without one, are taken to be unique, like the id.       *)
(***************************************************************************)
EXTENDS Sandbox, FiniteSets, Naturals

CONSTANTS NoWs,         \* no workspace_id in the request
          Requests,     \* goroutines that call the manager
          NoSid,        \* no session at hand
          NoChan,       \* a nil stopDone
          Calls,        \* request -> the operations it may be
          Asked,        \* what Create requests give as workspace_id
          Repos,        \* what requests ask setupWorkspace for
          Workers,      \* sessions in whose containers work is done
          MaxSessions,  \* policy.MaxSessions; 0 is unlimited
          SandboxFaults \* may a sandbox call fail by itself?

Procs == Requests \cup Sids
Ops   == {"create", "stop", "restart", "delete", "reap", "shutdown",
          "rename", "deletews"}

ASSUME ConstantsAssumption ==
  /\ Requests \cap Sids = {}
  /\ NoWs \notin Names
  /\ NoSid \notin Sids
  /\ NoChan \notin Requests
  /\ Calls \in [Requests -> SUBSET Ops]
  /\ Asked \subseteq Workspaces \cup {NoWs}
  /\ Repos \subseteq {"none", "clone", "branch"}
  /\ Workers \subseteq Sids
  /\ MaxSessions \in Nat
  /\ SandboxFaults \in BOOLEAN

VARIABLES sessions,     \* keys of m.sessions
          creating,     \* m.creating
          obj,          \* the Session objects, in the map or not; guarded,
                        \* stops, replaced and late are history: whether its
                        \* Create held the guard, who passed Stop's status
                        \* check, whether a Restart took it out of the map, and
                        \* whether its container wrote on a volume that a
                        \* rename had copied already
          closed,       \* stopDone channels that were closed
          records,      \* session history: status saved with each id
          issued,       \* ids that generateID has returned
          panicked,     \* the process died of a runtime panic
          pc, loc       \* control point and locals of each process

managerVars == <<sessions, creating, obj, closed, records, issued, panicked>>
vars == <<managerVars, pc, loc, sandboxVars>>

Blank(p) == [op   |-> IF p \in Sids THEN "evict" ELSE "none",
             ws   |-> NoWs,    \* spec.WorkspaceID; oldID of a rename
             new  |-> NoWs,    \* newID of a rename
             held |-> {},      \* creating entries the deferred call deletes
             sid  |-> IF p \in Sids THEN p ELSE NoSid,  \* the session at hand
             ch   |-> NoChan,  \* the channel captured from stopDone
             todo |-> {},      \* sessions still to retire, or to wait for
             repo |-> "none",
             img  |-> FALSE]   \* the committed image was chosen

Init ==
  /\ sessions = {} /\ creating = {} /\ closed = {} /\ issued = {}
  /\ obj = [i \in Sids |-> [ws |-> NoWs, status |-> "none", cleaned |-> FALSE,
                            stopDone |-> NoChan, repo |-> "none",
                            guarded |-> FALSE, stops |-> {}, replaced |-> FALSE,
                            late |-> FALSE]]
  /\ records = [i \in Sids |-> "none"]
  /\ panicked = FALSE
  /\ pc = [p \in Procs |-> "idle"]
  /\ loc = [p \in Procs |-> Blank(p)]
  /\ SandboxInit

----------------------------------------------------------------------------
(* Control.                                                                *)

\* p goes to a control point with the locals l; a process that has ended
\* has none.
Go(p, label, l) ==
  /\ pc' = [pc EXCEPT ![p] = label]
  /\ loc' = [loc EXCEPT ![p] = IF label = "done" THEN Blank(p) ELSE l]

Goto(p, label) == Go(p, label, loc[p])

At(p, label) == pc[p] = label /\ ~panicked

MayCall(p, op) == At(p, "idle") /\ op \in Calls[p]

\* Returning from Create or RenameWorkspace runs the deferred release.
DeferredForgotten(p) == "done"                                 \* mutant
Deferred(p) == IF loc[p].held = {} THEN "done" ELSE "release"

\* Where a process goes when it has retired a session.
AfterRetire(p) ==
  CASE loc[p].op \in {"reap", "shutdown"} -> "next"
    [] loc[p].op = "restart"              -> "begin"
    [] OTHER                              -> "done"

InMap(w, status) == {i \in sessions : obj[i].ws = w /\ obj[i].status = status}

\* A sandbox call may fail by itself, or because the container is gone.
MayFail(i) == SandboxFaults \/ ~Exists(i)

\* Any error of ImageExists counts as an image that is not there.
ImageExists(w, answer) ==
  IF answer THEN w \in tagged ELSE w \notin tagged \/ SandboxFaults

\* A sandbox call whose error is only logged.
BestEffort(call, i) == call \/ (MayFail(i) /\ UNCHANGED sandboxVars)

----------------------------------------------------------------------------
(* Create.                                                                 *)

StartCreate(p) ==
  /\ MayCall(p, "create")
  /\ \E w \in Asked \cup volumes, repo \in Repos :
       Go(p, "begin", [loc[p] EXCEPT !.op = "create", !.ws = w, !.repo = repo])
  /\ UNCHANGED <<managerVars, sandboxVars>>

\* A running session of the workspace is returned as it is.
CreateReuse(p) ==
  /\ At(p, "begin")
  /\ loc[p].ws # NoWs /\ InMap(loc[p].ws, "running") # {}
  /\ Goto(p, "done")
  /\ UNCHANGED <<managerVars, sandboxVars>>

\* The first stopped session of the workspace that the range over the map
\* meets; at most one is evicted.
Evictable(w) == IF InMap(w, "stopped") = {} THEN {{}}
                ELSE {{i} : i \in InMap(w, "stopped")}

\* The goroutines spawned for the evicted session.
SpawnedNone(out) == {}                                         \* mutant
Spawned(out) == out

AtCapacity(ss) == MaxSessions > 0 /\ Cardinality(ss) >= MaxSessions

RefusedWithoutGuard(w, out) == AtCapacity(sessions \ out)      \* mutant
Refused(w, out) == w \in creating \/ AtCapacity(sessions \ out)

\* What stays in the guard: nothing when Create is refused.
TakenWhenFull(w, out) == IF w = NoWs THEN {} ELSE {w}          \* mutant
Taken(w, out) == IF w = NoWs \/ Refused(w, out) THEN {} ELSE {w}

\* The locked section of a Create that finds no running session: evict, then
\* check the guard, then the capacity.
CreateAdmit(p) ==
  /\ At(p, "begin")
  /\ loc[p].ws # NoWs => InMap(loc[p].ws, "running") = {}
  /\ LET w == loc[p].ws IN
     \E out \in IF w = NoWs THEN {{}} ELSE Evictable(w) :
       /\ sessions' = sessions \ out
       /\ creating' = creating \cup Taken(w, out)
       /\ pc' = [q \in Procs |->
                   IF q = p THEN IF Refused(w, out) THEN "done" ELSE "prepare"
                   ELSE IF q \in Spawned(out) THEN "wait" ELSE pc[q]]
       /\ loc' = [loc EXCEPT ![p] =
                   IF Refused(w, out) THEN Blank(p)
                   ELSE [loc[p] EXCEPT !.held = Taken(w, out)]]
  /\ UNCHANGED <<obj, closed, records, issued, panicked, sandboxVars>>

\* The id is drawn; the workspace defaults to it; a committed image wins.
\* adapter.New can fail: the agent may be gone from the store by now.
CreatePrepare(p) ==
  /\ At(p, "prepare")
  /\ \/ \E i \in Sids \ issued, img \in BOOLEAN :
          LET w == IF loc[p].ws = NoWs THEN i ELSE loc[p].ws IN
          /\ ImageExists(w, img)
          /\ issued' = issued \cup {i}
          /\ Go(p, "container", [loc[p] EXCEPT !.ws = w, !.sid = i,
                                               !.img = img])
     \/ /\ Goto(p, Deferred(p))
        /\ UNCHANGED issued
  /\ UNCHANGED <<sessions, creating, obj, closed, records, panicked,
                 sandboxVars>>

\* The tag chosen before is resolved now.
CreateContainerStep(p) ==
  /\ At(p, "container")
  /\ LET w == loc[p].ws IN
     \/ /\ loc[p].img => w \in tagged
        /\ CreateContainer(loc[p].sid, w, IF loc[p].img THEN layers[w] ELSE {})
        /\ Goto(p, "start")
     \/ /\ SandboxFaults \/ (loc[p].img /\ w \notin tagged)
        /\ CreateContainerFailed(w)
        /\ Goto(p, Deferred(p))
  /\ UNCHANGED managerVars

CreateStart(p) ==
  /\ At(p, "start")
  /\ \/ StartContainer(loc[p].sid) /\ Goto(p, "setup")
     \/ /\ MayFail(loc[p].sid)
        /\ UNCHANGED sandboxVars
        /\ Goto(p, "abort")
  /\ UNCHANGED managerVars

\* setupWorkspace: nothing without a repo.  A volume with files is not cloned
\* into, but the checkout of a branch can fail on it, and so can the command
\* that looks for a repository, after which git refuses to clone.  A clone can
\* fail by itself, or be there when the checkout after it fails.
CreateSetup(p) ==
  /\ At(p, "setup")
  /\ LET i == loc[p].sid  empty == data[loc[p].ws] = {} IN
     \/ /\ loc[p].repo = "none"
        /\ UNCHANGED sandboxVars
        /\ Goto(p, "attach")
     \/ /\ loc[p].repo # "none" /\ Exists(i)
        /\ IF empty THEN Clone(i) ELSE UNCHANGED sandboxVars
        /\ Goto(p, "attach")
     \/ /\ loc[p].repo # "none"
        /\ empty \/ loc[p].repo = "branch" \/ MayFail(i)
        /\ (empty /\ Exists(i) /\ Clone(i)) \/ UNCHANGED sandboxVars
        /\ Goto(p, "scrap")
  /\ UNCHANGED managerVars

CreateAttach(p) ==
  /\ At(p, "attach")
  /\ \/ Exists(loc[p].sid) /\ Goto(p, "publish")
     \/ MayFail(loc[p].sid) /\ Goto(p, "abort")
  /\ UNCHANGED <<managerVars, sandboxVars>>

\* cleanupSession on a bare Session: nothing is committed; the container is
\* stopped, then removed.  After a failed setup the volume goes as well.
CreateAbort(p) ==
  /\ At(p, "abort") \/ At(p, "scrap")
  /\ LET i == loc[p].sid IN
     \/ RemoveContainer(i)
     \/ MayFail(i) /\ (StopContainer(i) \/ UNCHANGED sandboxVars)
  /\ Goto(p, IF pc[p] = "scrap" THEN "dropvolume" ELSE Deferred(p))
  /\ UNCHANGED managerVars

CreateDropVolume(p) ==
  /\ At(p, "dropvolume")
  /\ RemoveVolume(loc[p].ws) \/ (SandboxFaults /\ UNCHANGED sandboxVars)
  /\ Goto(p, Deferred(p))
  /\ UNCHANGED managerVars

\* The session enters the map.
CreatePublish(p) ==
  /\ At(p, "publish")
  /\ LET i == loc[p].sid IN
     /\ sessions' = sessions \cup {i}
     /\ obj' = [obj EXCEPT ![i] =
                  [ws |-> loc[p].ws, status |-> "running", cleaned |-> FALSE,
                   stopDone |-> NoChan, repo |-> loc[p].repo,
                   guarded |-> loc[p].held # {}, stops |-> {},
                   replaced |-> FALSE, late |-> FALSE]]
  /\ Goto(p, Deferred(p))
  /\ UNCHANGED <<creating, closed, records, issued, panicked, sandboxVars>>

Release(p) ==
  /\ At(p, "release")
  /\ creating' = creating \ loc[p].held
  /\ Goto(p, "done")
  /\ UNCHANGED <<sessions, obj, closed, records, issued, panicked, sandboxVars>>

----------------------------------------------------------------------------
(* Stop.                                                                   *)

\* The lookup, and the status check outside the lock.
StartStop(p) ==
  /\ MayCall(p, "stop")
  /\ \E i \in Sids :
       IF i \in sessions /\ obj[i].status = "running"
       THEN Go(p, "mark", [loc[p] EXCEPT !.op = "stop", !.sid = i])
       ELSE Goto(p, "done")
  /\ UNCHANGED <<managerVars, sandboxVars>>

StoppedBy(s, p) == [s EXCEPT !.status = "stopped", !.stops = @ \cup {p}]

StopMark(p) ==
  /\ At(p, "mark")
  /\ obj' = [obj EXCEPT ![loc[p].sid] = StoppedBy(obj[loc[p].sid], p)]
  /\ Goto(p, "spawn")
  /\ UNCHANGED <<sessions, creating, closed, records, issued, panicked,
                 sandboxVars>>

\* A new stopDone; the goroutine is spawned and the request returns.
StopSpawn(p) ==
  /\ At(p, "spawn")
  /\ obj' = [obj EXCEPT ![loc[p].sid].stopDone = p]
  /\ Goto(p, "background")
  /\ UNCHANGED <<sessions, creating, closed, records, issued, panicked,
                 sandboxVars>>

\* Who loses the compare-and-swap only closes the channel.
AfterClaimBoth(p) == "commit"                                  \* mutant
AfterClaim(p) == IF obj[loc[p].sid].cleaned THEN "signal" ELSE "commit"

\* The goroutine evaluates the argument of its deferred close.
StopDefer(p) ==
  /\ At(p, "background")
  /\ Go(p, "claim", [loc[p] EXCEPT !.ch = obj[loc[p].sid].stopDone])
  /\ UNCHANGED <<managerVars, sandboxVars>>

\* The compare-and-swap decides whether it cleans up.
StopClaim(p) ==
  /\ At(p, "claim")
  /\ Goto(p, AfterClaim(p))
  /\ obj' = [obj EXCEPT ![loc[p].sid].cleaned = TRUE]
  /\ UNCHANGED <<sessions, creating, closed, records, issued, panicked,
                 sandboxVars>>

\* Closing a channel twice panics.
StopSignal(p) ==
  /\ At(p, "signal")
  /\ closed' = closed \cup {loc[p].ch}
  /\ panicked' = (loc[p].ch \in closed)
  /\ Goto(p, "done")
  /\ UNCHANGED <<sessions, creating, obj, records, issued, sandboxVars>>

----------------------------------------------------------------------------
(* The cleanup that Stop's goroutine and cleanupSession share: commit,     *)
(* stop; cleanupSession also removes the container.                        *)

CleanCommit(p) ==
  /\ At(p, "commit")
  /\ LET i == loc[p].sid IN BestEffort(Commit(i, obj[i].ws), i)
  /\ Goto(p, "halt")
  /\ UNCHANGED managerVars

CleanHalt(p) ==
  /\ At(p, "halt")
  /\ BestEffort(StopContainer(loc[p].sid), loc[p].sid)
  /\ Goto(p, IF loc[p].op = "stop" THEN "save" ELSE "remove")
  /\ UNCHANGED managerVars

\* Restart keeps no record; the others save one after cleanupSession.
AfterCleanNoRecord(p) == AfterRetire(p)                        \* mutant
AfterClean(p) == IF loc[p].op = "restart" THEN "begin" ELSE "save"

CleanRemove(p) ==
  /\ At(p, "remove")
  /\ BestEffort(RemoveContainer(loc[p].sid), loc[p].sid)
  /\ Goto(p, AfterClean(p))
  /\ UNCHANGED managerVars

RecordWorkspace(i) == obj[i].ws                                \* mutant
RecordStatus(i) == obj[i].status

SaveRecord(p) ==
  /\ At(p, "save")
  /\ records' = [records EXCEPT ![loc[p].sid] = RecordStatus(loc[p].sid)]
  /\ Goto(p, IF loc[p].op = "stop" THEN "signal" ELSE AfterRetire(p))
  /\ UNCHANGED <<sessions, creating, obj, closed, issued, panicked, sandboxVars>>

----------------------------------------------------------------------------
(* Delete, Restart, the reaper's Delete, Shutdown and the goroutine of an  *)
(* evicted session: take the session out of the map, wait for its stop,    *)
(* then remove or clean up.                                                *)

StartDelete(p) ==
  /\ MayCall(p, "delete")
  /\ \E i \in Sids :
       IF i \in sessions
       THEN Go(p, "wait", [loc[p] EXCEPT !.op = "delete", !.sid = i])
       ELSE Goto(p, "done")
  /\ sessions' = sessions \ {loc'[p].sid}
  /\ UNCHANGED <<creating, obj, closed, records, issued, panicked, sandboxVars>>

StartRestart(p) ==
  /\ MayCall(p, "restart")
  /\ \E i \in Sids :
       IF i \in sessions
       THEN Go(p, "wait", [loc[p] EXCEPT !.op = "restart", !.sid = i,
                             !.ws = obj[i].ws, !.repo = obj[i].repo])
            /\ obj' = [obj EXCEPT ![i].replaced = TRUE]
       ELSE Goto(p, "done") /\ UNCHANGED obj
  /\ sessions' = sessions \ {loc'[p].sid}
  /\ UNCHANGED <<creating, closed, records, issued, panicked, sandboxVars>>

\* reapSessions: any running sessions may be past a timeout.  They are
\* deleted after the lock is released, one by one.
StartReap(p) ==
  /\ MayCall(p, "reap")
  /\ \E due \in SUBSET {i \in sessions : obj[i].status = "running"} :
       Go(p, "next", [loc[p] EXCEPT !.op = "reap", !.todo = due])
  /\ UNCHANGED <<managerVars, sandboxVars>>

StartShutdown(p) ==
  /\ MayCall(p, "shutdown")
  /\ Go(p, "next", [loc[p] EXCEPT !.op = "shutdown", !.todo = sessions])
  /\ sessions' = {}
  /\ UNCHANGED <<creating, obj, closed, records, issued, panicked, sandboxVars>>

\* The next session of the list: the reaper looks it up again, Shutdown has
\* emptied the map already, a rename only waits.
NextInList(p) ==
  /\ At(p, "next")
  /\ \/ /\ loc[p].todo = {}
        /\ Goto(p, IF loc[p].op = "rename" THEN "check" ELSE "done")
        /\ UNCHANGED sessions
     \/ \E i \in loc[p].todo :
          /\ Go(p, IF loc[p].op = "reap" /\ i \notin sessions
                   THEN "next" ELSE "wait",
                [loc[p] EXCEPT !.sid = i, !.todo = @ \ {i}])
          /\ sessions' = IF loc[p].op = "rename" THEN sessions
                         ELSE sessions \ {i}
  /\ UNCHANGED <<creating, obj, closed, records, issued, panicked, sandboxVars>>

\* waitStopDone: which channel to wait for is read once.
WaitBegin(p) ==
  /\ At(p, "wait")
  /\ Go(p, "waiting", [loc[p] EXCEPT !.ch = obj[loc[p].sid].stopDone])
  /\ UNCHANGED <<managerVars, sandboxVars>>

WaitOverAtOnce(p) == TRUE                                      \* mutant
WaitOverOnClose(p) == loc[p].ch \in closed                      \* mutant
WaitOver(p) == loc[p].ch \in closed \cup {NoChan}

WaitEnd(p) ==
  /\ At(p, "waiting")
  /\ WaitOver(p)
  /\ Goto(p, CASE loc[p].op = "evict"  -> "discard"
               [] loc[p].op = "rename" -> "next"
               [] OTHER                -> "decide")
  /\ UNCHANGED <<managerVars, sandboxVars>>

\* The status is read after the wait, without the lock.
Decide(p) ==
  /\ At(p, "decide")
  /\ Goto(p, IF obj[loc[p].sid].status = "stopped" THEN "discard" ELSE "clean")
  /\ UNCHANGED <<managerVars, sandboxVars>>

\* A stopped session: only the container is left to remove.
Discard(p) ==
  /\ At(p, "discard")
  /\ BestEffort(RemoveContainer(loc[p].sid), loc[p].sid)
  /\ Goto(p, AfterRetire(p))
  /\ UNCHANGED managerVars

\* cleanupSession's compare-and-swap; the loser only removes.
Claim(p) ==
  /\ At(p, "clean")
  /\ Goto(p, IF obj[loc[p].sid].cleaned THEN "remove" ELSE "commit")
  /\ obj' = [obj EXCEPT ![loc[p].sid].cleaned = TRUE]
  /\ UNCHANGED <<sessions, creating, closed, records, issued, panicked,
                 sandboxVars>>

----------------------------------------------------------------------------
(* Workspaces.                                                             *)

\* DeleteWorkspace consults neither the map nor the guard.
StartDeleteWorkspace(p) ==
  /\ MayCall(p, "deletews")
  /\ \E w \in volumes :
       RemoveVolume(w) \/ (SandboxFaults /\ UNCHANGED sandboxVars)
  /\ Goto(p, "done")
  /\ UNCHANGED managerVars

RenameRefusedIfHeld(old, new) == {old, new} \cap creating # {}  \* mutant
RenameRefused(old, new) ==
  InMap(old, "running") # {} \/ {old, new} \cap creating # {}

\* The entries that keep Create off both names.
RenameTakenNew(old, new) == {new}                              \* mutant
RenameTaken(old, new) ==
  IF RenameRefused(old, new) THEN {} ELSE {old, new}

\* The locked section of RenameWorkspace.
StartRename(p) ==
  /\ MayCall(p, "rename")
  /\ \E old \in Workspaces \cup volumes, new \in Workspaces :
       /\ old # new
       /\ creating' = creating \cup RenameTaken(old, new)
       /\ Go(p, IF RenameRefused(old, new) THEN "done" ELSE "next",
             [loc[p] EXCEPT !.op = "rename", !.ws = old, !.new = new,
                            !.held = RenameTaken(old, new),
                            !.todo = InMap(old, "stopped")])
  /\ UNCHANGED <<sessions, obj, closed, records, issued, panicked, sandboxVars>>

RenameCheck(p) ==
  /\ At(p, "check")
  /\ \/ loc[p].new \notin volumes /\ Goto(p, "copy")
     \/ /\ loc[p].new \in volumes \/ SandboxFaults
        /\ Goto(p, "release")
  /\ UNCHANGED <<managerVars, sandboxVars>>

RenameCopy(p) ==
  /\ At(p, "copy")
  /\ \/ CopyVolume(loc[p].ws, loc[p].new) /\ Goto(p, "tag")
     \/ SandboxFaults /\ CopyVolumeFailed(loc[p].new) /\ Goto(p, "release")
  /\ UNCHANGED managerVars

\* The committed image follows if there is one.
RenameTag(p) ==
  /\ At(p, "tag")
  /\ \/ /\ TagImage(loc[p].ws, loc[p].new)
        /\ Goto(p, "untag")
     \/ /\ ImageExists(loc[p].ws, FALSE)
        /\ UNCHANGED sandboxVars
        /\ Goto(p, "drop")
     \/ /\ SandboxFaults /\ loc[p].ws \in tagged
        /\ UNCHANGED sandboxVars
        /\ Goto(p, "rollback")
  /\ UNCHANGED managerVars

RenameRollback(p) ==
  /\ At(p, "rollback")
  /\ RemoveVolume(loc[p].new) \/ (SandboxFaults /\ UNCHANGED sandboxVars)
  /\ Goto(p, "release")
  /\ UNCHANGED managerVars

RenameUntag(p) ==
  /\ At(p, "untag")
  /\ RemoveImage(loc[p].ws) \/ (SandboxFaults /\ UNCHANGED sandboxVars)
  /\ Goto(p, "drop")
  /\ UNCHANGED managerVars

RenameDrop(p) ==
  /\ At(p, "drop")
  /\ RemoveVolume(loc[p].ws) \/ (SandboxFaults /\ UNCHANGED sandboxVars)
  /\ Goto(p, "move")
  /\ UNCHANGED managerVars

\* The sessions in the map follow the workspace, whatever their status.
RenameMove(p) ==
  /\ At(p, "move")
  /\ obj' = [i \in Sids |-> IF i \in sessions /\ obj[i].ws = loc[p].ws
                            THEN [obj[i] EXCEPT !.ws = loc[p].new] ELSE obj[i]]
  /\ Goto(p, "release")
  /\ UNCHANGED <<sessions, creating, closed, records, issued, panicked,
                 sandboxVars>>

----------------------------------------------------------------------------
(* What runs in a container writes until the container is stopped, whether *)
(* or not its session is still in the map, and whatever reads or removes   *)
(* its volume meanwhile.                                                   *)

\* The volume has been copied by a rename that has yet to remove it.
Copied(w) == \E p \in Procs : pc[p] \in {"tag", "untag", "drop"} /\ loc[p].ws = w

\* One piece of work stands for all a session does.
Work(i) ==
  /\ obj[i].status # "none" /\ ctr[i].state = "running" /\ ~panicked
  /\ i \notin ctr[i].env
  /\ Populate(i)
  /\ obj' = [obj EXCEPT ![i].late = @ \/ \E w \in ctr[i].vol : Copied(w)]
  /\ UNCHANGED <<sessions, creating, closed, records, issued, panicked, pc, loc>>

----------------------------------------------------------------------------
Start(p) ==
  \/ StartCreate(p) \/ StartStop(p) \/ StartDelete(p) \/ StartRestart(p)
  \/ StartReap(p) \/ StartShutdown(p) \/ StartRename(p)
  \/ StartDeleteWorkspace(p)

Run(p) ==
  \/ CreateReuse(p) \/ CreateAdmit(p) \/ CreatePrepare(p)
  \/ CreateContainerStep(p) \/ CreateStart(p) \/ CreateSetup(p)
  \/ CreateAttach(p) \/ CreateAbort(p) \/ CreateDropVolume(p)
  \/ CreatePublish(p) \/ Release(p)
  \/ StopMark(p) \/ StopSpawn(p) \/ StopDefer(p) \/ StopClaim(p)
  \/ StopSignal(p)
  \/ CleanCommit(p) \/ CleanHalt(p) \/ CleanRemove(p) \/ SaveRecord(p)
  \/ NextInList(p) \/ WaitBegin(p) \/ WaitEnd(p) \/ Decide(p) \/ Discard(p)
  \/ Claim(p)
  \/ RenameCheck(p) \/ RenameCopy(p) \/ RenameTag(p) \/ RenameRollback(p)
  \/ RenameUntag(p) \/ RenameDrop(p) \/ RenameMove(p)

\* Nobody has to call, and a panic ends the process: the only ways to stop.
Quiescent ==
  /\ panicked \/ \A p \in Procs : pc[p] \in {"idle", "done"}
  /\ UNCHANGED vars

Next == \/ \E p \in Requests : Start(p)
        \/ \E p \in Procs : Run(p)
        \/ \E i \in Workers : Work(i)
        \/ Quiescent

Spec == Init /\ [][Next]_vars

\* Once called, a goroutine is scheduled until it returns; nobody has to
\* call.
FairSpec == Spec /\ \A p \in Procs : WF_vars(Run(p))

----------------------------------------------------------------------------
(* Properties.                                                             *)

Labels == {"idle", "done", "begin", "prepare", "container", "start", "setup",
           "attach", "abort", "scrap", "dropvolume", "publish", "release",
           "mark", "spawn", "background", "claim", "signal", "commit", "halt", "remove",
           "save", "next", "wait", "waiting", "decide", "discard", "clean",
           "check", "copy", "tag", "rollback", "untag", "drop", "move"}

RepoKinds == {"none", "clone", "branch"}

Objects == [ws : Names \cup {NoWs}, status : {"none", "running", "stopped"},
            cleaned : BOOLEAN, stopDone : Requests \cup {NoChan},
            repo : RepoKinds, guarded : BOOLEAN, stops : SUBSET Requests,
            replaced : BOOLEAN, late : BOOLEAN]

Locals == [op : Ops \cup {"none", "evict"}, ws : Names \cup {NoWs},
           new : Names \cup {NoWs}, held : SUBSET Names,
           sid : Sids \cup {NoSid}, ch : Requests \cup {NoChan},
           todo : SUBSET Sids, repo : RepoKinds, img : BOOLEAN]

\* The types of the manager's data, of the goroutines and of the sandbox.
TypeOK ==
  /\ sessions \subseteq Sids
  /\ creating \subseteq Names
  /\ obj \in [Sids -> Objects]
  /\ closed \subseteq Requests
  /\ records \in [Sids -> {"none", "running", "stopped"}]
  /\ issued \subseteq Sids
  /\ panicked \in BOOLEAN
  /\ pc \in [Procs -> Labels]
  /\ loc \in [Procs -> Locals]
  /\ SandboxTypeOK

Live(i) == i \in sessions /\ obj[i].status = "running"

\* Two running sessions in the map never share a workspace, as long as both
\* were created with the guard held (a Create without workspace_id takes
\* none).  Stop, Delete, the evictions of Create and the moves of
\* RenameWorkspace may all interleave with the two Creates (manager.go:83).
GuardedExclusive ==
  \A i, j \in Sids :
    Live(i) /\ Live(j) /\ obj[i].guarded /\ obj[j].guarded
      /\ obj[i].ws = obj[j].ws => i = j

\* Every entry of the creating guard has exactly one owner who will delete
\* it: no error return locks a workspace out for good, and nobody deletes
\* the entry of another (manager.go:121 and 539).
GuardHasOneOwner ==
  /\ creating = UNION {loc[p].held : p \in Procs}
  /\ \A p, q \in Procs : loc[p].held \cap loc[q].held # {} => p = q

Renaming == {"next", "wait", "waiting", "check", "copy", "tag", "rollback",
             "untag", "drop", "move"}

\* From its locked check to its release a rename has no running session,
\* created under the guard, on the workspace it moves (manager.go:509).
RenameExcludesRunning ==
  \A p \in Procs : loc[p].op = "rename" /\ pc[p] \in Renaming =>
    \A i \in Sids : Live(i) /\ obj[i].guarded => obj[i].ws # loc[p].ws

\* The compare-and-swap on cleaned lets one goroutine clean a session up:
\* its container is never committed or stopped by two of them.
Cleaning == {"commit", "halt"}
OneCleaner ==
  \A p, q \in Procs :
    pc[p] \in Cleaning /\ pc[q] \in Cleaning /\ loc[p].sid = loc[q].sid
      => p = q

\* Goroutines that have yet to remove the container of session i: a Create
\* that may still fail, one that retires i, or has it on its list.
Creating == {"start", "setup", "attach", "publish", "abort", "scrap",
             "dropvolume"}
Retiring == {"wait", "waiting", "decide", "discard", "clean", "commit",
             "halt", "remove"}

WillRemove(p, i) ==
  \/ loc[p].sid = i /\ pc[p] \in Creating
  \/ loc[p].sid = i /\ pc[p] \in Retiring /\ loc[p].op \notin {"stop", "rename"}
  \/ i \in loc[p].todo /\ loc[p].op = "shutdown"

\* A container that is still there belongs to a session in the map or to a
\* goroutine that has yet to remove it: no interleaving of Create, Stop,
\* Restart, Delete, the reaper, Shutdown and a rename leaks one when the
\* sandbox does what it is asked.
ContainerOwned ==
  ~SandboxFaults /\ ~panicked =>
    \A i \in Sids : Exists(i) =>
      i \in sessions \/ \E p \in Procs : WillRemove(p, i)

\* What waitStopDone is for (manager.go:367 and 390): a goroutine that waited
\* for the channel of a session's only Stop removes the container after that
\* Stop has committed it, stopped it and saved its record.
WaitCoversCleanup ==
  \A p, q \in Procs :
    /\ pc[p] = "discard" /\ loc[p].ch = q
    /\ obj[loc[p].sid].stops = {q}
    => pc[q] \notin {"background", "claim", "commit", "halt", "save"}

\* A session that left the map by Delete, the reaper, Shutdown or an eviction
\* has a history record, or a goroutine is about to save it: no order of the
\* Stops and Deletes of one session loses the record.  Restart saves none for
\* the session it replaces (lines 355-377).
Recording == {"spawn", "background", "claim", "commit", "halt", "save",
              "wait", "waiting", "decide", "clean", "remove"}

WillRecord(p, i) ==
  \/ /\ loc[p].sid = i /\ pc[p] \in Recording
     /\ loc[p].op \notin {"restart", "rename", "evict"}
  \/ i \in loc[p].todo /\ loc[p].op = "shutdown"

HistoryKept ==
  \A i \in Sids : obj[i].status # "none" /\ i \notin sessions /\ ~obj[i].replaced =>
    records[i] # "none" \/ \E p \in Procs : WillRecord(p, i)

\* What WorkspaceSessions calls a rename under way.
Renames == {p \in Procs : loc[p].op = "rename" /\ pc[p] \in Renaming}

WS == INSTANCE WorkspaceSessions WITH
        Ids    <- Sids,
        NoName <- NoWs,
        state  <- [i \in Sids |-> IF i \in sessions \/ obj[i].status = "none"
                                 THEN obj[i].status ELSE "gone"],
        home   <- [i \in Sids |-> IF i \in sessions THEN obj[i].ws ELSE NoWs],
        alone  <- {i \in sessions : obj[i].guarded},
        moving <- {<<loc[p].ws, loc[p].new>> : p \in Renames}

\* The goroutines keep the promise of WorkspaceSessions, where each request is
\* done at once: a session is opened when its Create enters it in the map,
\* and the sections of a rename, with the waits and the volume's copy between
\* them, are one move that nobody comes between (manager.go:274 and 513).
ImplementsSessions == WS!Spec

\* Where nobody deletes a workspace and every Create names its workspace (and
\* so holds the guard), files are lost in two ways only, the two that
\* RemovedVolumeIsEmpty and CopiesAtRest are about: with the volume a Create
\* removes when its setup has failed, and when a container writes on a volume
\* between a rename's copy and its removal.  A rename that fails, is rolled
\* back or races with other requests loses nothing else, whatever sandbox calls
\* fail: what leaves a volume is on another one (manager.go:553-604 and 213).
FilesSurvive ==
  [][\A w \in Names : \A i \in data[w] \ data'[w] :
       \/ \E v \in Names : i \in data'[v]
       \/ obj[i].late
       \/ \E p \in Procs : pc[p] = "dropvolume" /\ pc'[p] # pc[p]
                            /\ loc[p].ws = w]_vars

\* A session that two Stops have marked: both passed the check of its status.
StoppedTwice == \E i \in Sids : \E p, q \in obj[i].stops : p # q

\* Every call returns and every background goroutine ends, although they wait
\* for one another's stopDone without regard to waitStopDone's timeout; and
\* the only thing that can prevent it is the panic of two Stops of one session
\* (see StopIsGraceful; manager.go:38 and 303-351).
CallsReturn ==
  \A p \in Procs :
    pc[p] # "idle" ~> (pc[p] = "done" \/ (panicked /\ StoppedTwice))

----------------------------------------------------------------------------
(* What the code or its documentation says and the code does not keep.     *)

\* "same workspace_id = pick up where you left off" (README.md:129): a
\* session has the packages of every session that worked in its workspace.
ResumeSeesWork ==
  \A i, j \in Sids :
    Live(j) /\ obj[i].status = "stopped" /\ obj[i].ws = obj[j].ws
      /\ i \in ctr[i].env => i \in ctr[j].env

\* "Remove the empty volume so failed workspaces don't linger"
\* (manager.go:212): the volume a failed Create removes holds nothing but what
\* that Create has cloned itself.
RemovedVolumeIsEmpty ==
  \A p \in Procs : pc[p] = "dropvolume" => data[loc[p].ws] \subseteq {loc[p].sid}

\* "Stop gracefully stops a running session" (manager.go:303) and closes its
\* stopDone "when background stop cleanup finishes" (session.go:211): no Stop
\* ends the process.
StopIsGraceful == ~panicked

\* "Wait for any mid-stop sessions to finish cleanup (commit + container stop)
\* before copying the volume" (manager.go:546): no container runs on the volume
\* that a rename is about to copy.
CopiesAtRest ==
  \A p \in Procs : pc[p] = "copy" =>
    \A i \in Sids : ctr[i].state = "running" => loc[p].ws \notin ctr[i].vol

=============================================================================
