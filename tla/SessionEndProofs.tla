-------------------------- MODULE SessionEndProofs --------------------------
(***************************************************************************)
(* What holds when sessions end, and of the files that they leave, for any *)
(* number of requests, sessions and workspaces.                            *)
(*                                                                         *)
(* Of a step the proofs use only what it does to the fields that the end   *)
(* of a session depends on: EndStep(p) lists the ways.  The invariant is   *)
(* EndInv: where each operation may be (Flow), who closes which stopDone   *)
(* and who waits for it (Channels), who saves the record of a session      *)
(* (Histories) and who removes its container (Owned).  FilesInv adds what  *)
(* a Create and a rename rely on while they work on a volume.  The last    *)
(* part shows that the manager implements WorkspaceSessions.               *)
(***************************************************************************)
EXTENDS SessionManagerProofs

----------------------------------------------------------------------------
(* What one step changes.                                                  *)

\* p takes a step: the others keep their locals and control points, except
\* for the goroutines of stopped sessions that are evicted.
Others(p) ==
  \A q \in Procs : q # p =>
    /\ loc'[q] = loc[q]
    /\ pc'[q] = pc[q] \/ (q \in sessions /\ obj[q].status = "stopped" /\ pc'[q] = "wait")

Step(p) == Run(p) \/ (p \in Requests /\ Start(p))

LEMMA GoOthers ==
  ASSUME TypeOK, NEW p \in Procs, NEW label, NEW l, Go(p, label, l)
  PROVE  /\ Others(p) /\ pc'[p] = label
         /\ loc'[p] = IF label = "done" THEN Blank(p) ELSE l
  BY DEF TypeOK, Go, Others

LEMMA AdmitOthers ==
  ASSUME TypeOK, NEW p \in Procs, CreateAdmit(p)
  PROVE  Others(p)
  BY DEF TypeOK, CreateAdmit, Others, Evictable, Spawned, InMap

LEMMA StepOthers ==
  ASSUME TypeOK, NEW p \in Procs, Step(p)
  PROVE  Others(p)
<1>1. ASSUME p \in Requests, Start(p) PROVE \E label, l : Go(p, label, l)
  BY <1>1 DEF Start, StartCreate, StartStop, StartDelete, StartRestart, StartReap,
     StartShutdown, StartRename, StartDeleteWorkspace, Goto
<1>2. CASE Run(p) /\ ~CreateAdmit(p)
  <2>1. \E label, l : Go(p, label, l)
    BY <1>2 DEF Run, CreateReuse, CreatePrepare, CreateContainerStep, CreateStart,
       CreateSetup, CreateAttach, CreateAbort, CreateDropVolume, CreatePublish, Release,
       StopMark, StopSpawn, StopDefer, StopClaim, StopSignal, CleanCommit, CleanHalt,
       CleanRemove, SaveRecord, NextInList, WaitBegin, WaitEnd, Decide, Discard, Claim,
       RenameCheck, RenameCopy, RenameTag, RenameRollback, RenameUntag, RenameDrop,
       RenameMove, Goto
  <2> QED
    BY <2>1, GoOthers
<1> QED
  BY <1>1, <1>2, GoOthers, AdmitOthers DEF Step

----------------------------------------------------------------------------
(* What a step does to the end of sessions.                                *)

\* Control points of a goroutine that stops or retires sessions.
Ending == Working \cup {"next"}

\* Of the session objects, the map, the channels and the records only what a
\* session's end depends on.
SameEnd(i) ==
  /\ obj'[i].status = obj[i].status /\ obj'[i].stops = obj[i].stops
  /\ obj'[i].stopDone = obj[i].stopDone /\ obj'[i].cleaned = obj[i].cleaned
  /\ obj'[i].replaced = obj[i].replaced
SameBut(k) == \A i \in Sids \ {k} : SameEnd(i)
SameObjs == \A i \in Sids : SameEnd(i)
SameMap == sessions' = sessions /\ closed' = closed /\ records' = records

SameTask(p) == /\ loc'[p].op = loc[p].op /\ loc'[p].sid = loc[p].sid
               /\ loc'[p].todo = loc[p].todo
SameLoc(p) == SameTask(p) /\ loc'[p].ch = loc[p].ch
Gone(p) == pc'[p] = "done" /\ loc'[p].op \in {"none", "evict"} /\ loc'[p].ch = NoChan

\* After a session is retired.
Onward(p) ==
  \/ loc[p].op \in {"reap", "shutdown"} /\ pc'[p] = "next" /\ SameLoc(p)
  \/ loc[p].op = "restart" /\ pc'[p] = "begin" /\ SameLoc(p)
  \/ loc[p].op \notin {"reap", "shutdown", "restart"} /\ Gone(p)

Elsewhere(p) ==
  /\ pc[p] \notin Ending \cup {"done"} /\ pc'[p] \notin Ending \cup {"idle"}
  /\ loc'[p].op \in {loc[p].op, "none", "evict", "create"}
  /\ SameMap /\ SameObjs

Marks(p) ==
  /\ pc[p] = "mark" /\ pc'[p] = "spawn" /\ SameLoc(p) /\ SameMap /\ SameBut(loc[p].sid)
  /\ LET s == obj[loc[p].sid]  t == obj'[loc[p].sid] IN
     /\ t.status = "stopped" /\ t.stops = s.stops \cup {p}
     /\ t.stopDone = s.stopDone /\ t.cleaned = s.cleaned /\ t.replaced = s.replaced

Spawns(p) ==
  /\ pc[p] = "spawn" /\ pc'[p] = "background" /\ SameLoc(p) /\ SameMap
  /\ SameBut(loc[p].sid)
  /\ LET s == obj[loc[p].sid]  t == obj'[loc[p].sid] IN
     /\ t.status = s.status /\ t.stops = s.stops
     /\ t.stopDone = p /\ t.cleaned = s.cleaned /\ t.replaced = s.replaced

Cleaned(p) ==
  LET s == obj[loc[p].sid]  t == obj'[loc[p].sid] IN
  /\ t.status = s.status /\ t.stops = s.stops
  /\ t.stopDone = s.stopDone /\ t.cleaned /\ t.replaced = s.replaced
  /\ SameMap /\ SameBut(loc[p].sid)

Defers(p) ==
  /\ pc[p] = "background" /\ pc'[p] = "claim" /\ SameTask(p) /\ SameMap /\ SameObjs
  /\ loc'[p].ch = obj[loc[p].sid].stopDone

ClaimsStop(p) ==
  /\ pc[p] = "claim" /\ SameLoc(p) /\ Cleaned(p)
  /\ pc'[p] = IF obj[loc[p].sid].cleaned THEN "signal" ELSE "commit"

ClaimsEnd(p) ==
  /\ pc[p] = "clean" /\ SameLoc(p) /\ Cleaned(p)
  /\ pc'[p] = IF obj[loc[p].sid].cleaned THEN "remove" ELSE "commit"

Signals(p) ==
  /\ pc[p] = "signal" /\ Gone(p)
  /\ closed' = closed \cup {loc[p].ch}
  /\ UNCHANGED <<sessions, records>> /\ SameObjs

Cleans(p) ==
  /\ \/ pc[p] = "commit" /\ pc'[p] = "halt"
     \/ pc[p] = "halt" /\ loc[p].op = "stop" /\ pc'[p] = "save"
     \/ pc[p] = "halt" /\ loc[p].op # "stop" /\ pc'[p] = "remove"
     \/ pc[p] = "remove" /\ loc[p].op = "restart" /\ pc'[p] = "begin"
     \/ pc[p] = "remove" /\ loc[p].op # "restart" /\ pc'[p] = "save"
  /\ SameLoc(p) /\ SameMap /\ SameObjs

Saves(p) ==
  /\ pc[p] = "save"
  /\ \/ loc[p].op = "stop" /\ pc'[p] = "signal" /\ SameLoc(p)
     \/ loc[p].op # "stop" /\ Onward(p)
  /\ records'[loc[p].sid] = obj[loc[p].sid].status
  /\ \A i \in Sids \ {loc[p].sid} : records'[i] = records[i]
  /\ UNCHANGED <<sessions, closed>> /\ SameObjs

Lists(p) ==
  /\ pc[p] = "next"
  /\ UNCHANGED <<closed, records>> /\ SameObjs
  /\ \/ /\ loc[p].todo = {} /\ UNCHANGED sessions
        /\ loc[p].op = "rename" /\ pc'[p] = "check" /\ SameLoc(p)
     \/ /\ loc[p].todo = {} /\ UNCHANGED sessions
        /\ loc[p].op # "rename" /\ Gone(p)
     \/ /\ loc'[p].sid \in loc[p].todo /\ loc'[p].todo = loc[p].todo \ {loc'[p].sid}
        /\ loc'[p].op = loc[p].op
        /\ \/ loc[p].op = "rename" /\ pc'[p] = "wait" /\ UNCHANGED sessions
           \/ /\ loc[p].op = "reap" /\ loc'[p].sid \notin sessions
              /\ pc'[p] = "next" /\ UNCHANGED sessions
           \/ /\ loc[p].op # "rename" /\ pc'[p] = "wait"
              /\ sessions' = sessions \ {loc'[p].sid}

Awaits(p) ==
  /\ \/ /\ pc[p] = "wait" /\ pc'[p] = "waiting"
        /\ SameTask(p) /\ loc'[p].ch = obj[loc[p].sid].stopDone
     \/ /\ pc[p] = "waiting" /\ loc[p].ch \in closed \cup {NoChan} /\ SameLoc(p)
        /\ \/ loc[p].op = "evict" /\ pc'[p] = "discard"
           \/ loc[p].op = "rename" /\ pc'[p] = "next"
           \/ loc[p].op \notin {"evict", "rename"} /\ pc'[p] = "decide"
     \/ /\ pc[p] = "decide" /\ SameLoc(p)
        /\ pc'[p] = IF obj[loc[p].sid].status = "stopped" THEN "discard" ELSE "clean"
     \/ pc[p] = "discard" /\ Onward(p)
  /\ SameMap /\ SameObjs

StartsStop(p) ==
  /\ pc[p] = "idle" /\ pc'[p] = "mark" /\ loc'[p].op = "stop"
  /\ loc'[p].sid \in sessions /\ SameMap /\ SameObjs

StartsRemoval(p) ==
  /\ pc[p] = "idle" /\ pc'[p] = "wait" /\ loc'[p].op \in {"delete", "restart"}
  /\ loc'[p].sid \in sessions /\ sessions' = sessions \ {loc'[p].sid}
  /\ UNCHANGED <<closed, records>> /\ SameBut(loc'[p].sid)
  /\ LET s == obj[loc'[p].sid]  t == obj'[loc'[p].sid] IN
     /\ t.status = s.status /\ t.stops = s.stops
     /\ t.stopDone = s.stopDone /\ t.cleaned = s.cleaned
     /\ t.replaced = (s.replaced \/ loc'[p].op = "restart")

StartsList(p) ==
  /\ pc[p] = "idle"
  /\ \/ /\ pc'[p] = "next" /\ loc'[p].op \in {"reap", "rename"}
        /\ UNCHANGED sessions
     \/ /\ pc'[p] = "next" /\ loc'[p].op = "shutdown"
        /\ loc'[p].todo = sessions /\ sessions' = {}
  /\ UNCHANGED <<closed, records>> /\ SameObjs

Publishes(p) ==
  /\ pc[p] = "publish" /\ ((pc'[p] = "release" /\ SameLoc(p)) \/ Gone(p))
  /\ sessions' = sessions \cup {loc[p].sid} /\ UNCHANGED <<closed, records>>
  /\ SameBut(loc[p].sid)
  /\ LET t == obj'[loc[p].sid] IN
     /\ t.status = "running" /\ t.stops = {} /\ t.stopDone = NoChan
     /\ ~t.cleaned /\ ~t.replaced

\* The sessions that a Create evicts are stopped; their goroutines start.
Evicts(p) ==
  /\ pc[p] = "begin" /\ ((pc'[p] = "prepare" /\ SameLoc(p)) \/ Gone(p))
  /\ sessions' \subseteq sessions /\ UNCHANGED <<closed, records>> /\ SameObjs
  /\ \A i \in sessions \ sessions' :
       obj[i].status = "stopped" /\ i # p /\ pc'[i] = "wait"

EndStep(p) ==
  \/ Elsewhere(p) \/ Marks(p) \/ Spawns(p) \/ ClaimsStop(p) \/ ClaimsEnd(p)
  \/ Defers(p) \/ Signals(p) \/ Cleans(p) \/ Saves(p) \/ Lists(p) \/ Awaits(p)
  \/ StartsStop(p) \/ StartsRemoval(p) \/ StartsList(p) \/ Publishes(p)
  \/ Evicts(p)

\* Gone is what Go makes of "done", SameLoc of any other label.
LEMMA GoLoc ==
  ASSUME TypeOK, NEW p \in Procs, NEW label, Goto(p, label)
  PROVE  pc'[p] = label /\ IF label = "done" THEN Gone(p) ELSE SameLoc(p)
<1>1. pc'[p] = label /\ loc'[p] = IF label = "done" THEN Blank(p) ELSE loc[p]
  BY GoOthers DEF Goto
<1>2. Blank(p).op \in {"none", "evict"} /\ Blank(p).ch = NoChan
  BY DEF Blank
<1>3. CASE label = "done"
  BY <1>1, <1>2, <1>3 DEF Gone
<1>4. CASE label # "done"
  BY <1>1, <1>4 DEF SameLoc, SameTask
<1> QED
  BY <1>1, <1>3, <1>4

LEMMA ElsewhereCreate ==
  ASSUME TypeOK, NEW p \in Procs,
         \/ CreateReuse(p) \/ CreateContainerStep(p) \/ CreateStart(p)
         \/ CreateSetup(p) \/ CreateAttach(p) \/ CreateAbort(p)
         \/ CreateDropVolume(p) \/ Release(p)
  PROVE  Elsewhere(p)
<1>1. \E label \in {"done", "start", "release", "setup", "attach", "abort", "scrap",
                    "dropvolume", "publish"} : Goto(p, label)
  BY DEF CreateReuse, CreateContainerStep, CreateStart, CreateSetup, CreateAttach,
     CreateAbort, CreateDropVolume, Release, Deferred
<1>2. pc[p] \notin Ending \cup {"done"}
  BY DEF CreateReuse, CreateContainerStep, CreateStart, CreateSetup, CreateAttach,
     CreateAbort, CreateDropVolume, Release, At, Ending, Working
<1>3. SameMap /\ SameObjs
  BY DEF CreateReuse, CreateContainerStep, CreateStart, CreateSetup, CreateAttach,
     CreateAbort, CreateDropVolume, Release, managerVars, SameMap, SameObjs, SameEnd
<1> QED
  BY <1>1, <1>2, <1>3, GoLoc DEF Elsewhere, Ending, Working, Gone, SameLoc, SameTask

LEMMA ElsewhereRename ==
  ASSUME TypeOK, NEW p \in Procs,
         \/ RenameCheck(p) \/ RenameCopy(p) \/ RenameTag(p) \/ RenameRollback(p)
         \/ RenameUntag(p) \/ RenameDrop(p)
  PROVE  Elsewhere(p)
<1>1. \E label \in {"copy", "release", "tag", "untag", "drop", "rollback", "move"} :
        Goto(p, label)
  BY DEF RenameCheck, RenameCopy, RenameTag, RenameRollback, RenameUntag, RenameDrop
<1>2. pc[p] \notin Ending \cup {"done"}
  BY DEF RenameCheck, RenameCopy, RenameTag, RenameRollback, RenameUntag, RenameDrop,
     At, Ending, Working
<1>3. SameMap /\ SameObjs
  BY DEF RenameCheck, RenameCopy, RenameTag, RenameRollback, RenameUntag, RenameDrop,
     managerVars, SameMap, SameObjs, SameEnd
<1> QED
  BY <1>1, <1>2, <1>3, GoLoc DEF Elsewhere, Ending, Working, SameLoc, SameTask

LEMMA ElsewhereMove ==
  ASSUME TypeOK, NEW p \in Procs, RenameMove(p)
  PROVE  Elsewhere(p)
<1>1. pc[p] = "move" /\ pc'[p] = "release" /\ SameLoc(p)
  BY GoLoc DEF RenameMove, At
<1>2. SameObjs
  <2> SUFFICES ASSUME NEW i \in Sids PROVE SameEnd(i)
    BY DEF SameObjs
  <2>1. obj[i] \in Objects
    BY DEF TypeOK
  <2> DEFINE s == [obj[i] EXCEPT !.ws = loc[p].new]
  <2>2. /\ s.status = obj[i].status /\ s.stops = obj[i].stops
        /\ s.stopDone = obj[i].stopDone /\ s.cleaned = obj[i].cleaned
        /\ s.replaced = obj[i].replaced
    BY <2>1 DEF Objects
  <2>3. obj'[i] = s \/ obj'[i] = obj[i]
    BY DEF RenameMove
  <2> HIDE DEF s
  <2> QED
    BY <2>2, <2>3 DEF SameEnd
<1>3. SameMap
  BY DEF RenameMove, SameMap
<1> QED
  BY <1>1, <1>2, <1>3 DEF Elsewhere, Ending, Working, SameLoc, SameTask

LEMMA ElsewherePrepare ==
  ASSUME TypeOK, NEW p \in Procs, CreatePrepare(p)
  PROVE  Elsewhere(p)
<1>1. loc[p] \in Locals /\ pc[p] = "prepare"
  BY DEF TypeOK, CreatePrepare, At
<1>2. SameMap /\ SameObjs
  BY DEF CreatePrepare, SameMap, SameObjs, SameEnd
<1>3. CASE Goto(p, Deferred(p))
  BY <1>1, <1>2, <1>3, GoLoc
     DEF Deferred, Elsewhere, Ending, Working, SameLoc, SameTask, Gone
<1>4. ASSUME NEW i, NEW w, NEW b,
             Go(p, "container", [loc[p] EXCEPT !.ws = w, !.sid = i, !.img = b])
      PROVE  Elsewhere(p)
  <2> DEFINE l == [loc[p] EXCEPT !.ws = w, !.sid = i, !.img = b]
  <2>1. l.op = loc[p].op
    BY <1>1 DEF Locals
  <2>2. Go(p, "container", l)
    BY <1>4
  <2> HIDE DEF l
  <2>3. pc'[p] = "container" /\ loc'[p].op = loc[p].op
    BY <2>1, <2>2, GoOthers
  <2> QED
    BY <1>1, <1>2, <2>3 DEF Elsewhere, Ending, Working
<1> QED
  BY <1>3, <1>4 DEF CreatePrepare

LEMMA ElsewhereStart ==
  ASSUME TypeOK, NEW p \in Procs, StartCreate(p) \/ StartDeleteWorkspace(p)
  PROVE  Elsewhere(p)
<1>1. loc[p] \in Locals /\ pc[p] = "idle"
  BY DEF TypeOK, StartCreate, StartDeleteWorkspace, MayCall, At
<1>2. SameMap /\ SameObjs
  BY DEF StartCreate, StartDeleteWorkspace, managerVars, SameMap, SameObjs, SameEnd
<1>3. CASE Goto(p, "done")
  BY <1>1, <1>2, <1>3, GoLoc DEF Elsewhere, Ending, Working, Gone
<1>4. ASSUME NEW w, NEW r,
             Go(p, "begin", [loc[p] EXCEPT !.op = "create", !.ws = w, !.repo = r])
      PROVE  Elsewhere(p)
  <2> DEFINE l == [loc[p] EXCEPT !.op = "create", !.ws = w, !.repo = r]
  <2>1. l.op = "create" /\ Go(p, "begin", l)
    BY <1>1, <1>4 DEF Locals
  <2> HIDE DEF l
  <2>2. pc'[p] = "begin" /\ loc'[p].op = "create"
    BY <2>1, GoOthers
  <2> QED
    BY <1>1, <1>2, <2>2 DEF Elsewhere, Ending, Working
<1> QED
  BY <1>3, <1>4 DEF StartCreate, StartDeleteWorkspace

\* The steps that mark a session as stopped or cleaned.
LEMMA StopSteps ==
  ASSUME IInv, NEW p \in Procs,
         StopMark(p) \/ StopSpawn(p) \/ StopDefer(p) \/ StopClaim(p) \/ Claim(p)
  PROVE  EndStep(p)
<1>1. /\ loc[p] \in Locals /\ loc[p].sid \in Sids /\ obj \in [Sids -> Objects] /\ TypeOK
      /\ SameMap
  <2>1. pc[p] \in Working
    BY DEF StopMark, StopSpawn, StopDefer, StopClaim, Claim, At, Working
  <2> QED
    BY <2>1, WorkFacts DEF IInv, StopMark, StopSpawn, StopDefer, StopClaim, Claim,
       managerVars, SameMap
<1> DEFINE k == loc[p].sid
           o == obj[k]
<1>2. o \in Objects
  BY <1>1
<1>3. CASE StopMark(p)
  <2> DEFINE s == StoppedBy(o, p)
  <2>1. /\ s.status = "stopped" /\ s.stops = o.stops \cup {p} /\ s.stopDone = o.stopDone
        /\ s.cleaned = o.cleaned /\ s.replaced = o.replaced
    BY <1>2 DEF Objects, StoppedBy
  <2>2. obj' = [obj EXCEPT ![k] = s]
    BY <1>3 DEF StopMark
  <2> HIDE DEF s
  <2>3. Marks(p)
    BY <1>1, <1>3, <2>1, <2>2, GoLoc DEF StopMark, At, Marks, SameBut, SameEnd
  <2> QED
    BY <2>3 DEF EndStep
<1>4. CASE StopSpawn(p)
  <2> DEFINE s == [o EXCEPT !.stopDone = p]
  <2>1. /\ s.status = o.status /\ s.stops = o.stops /\ s.stopDone = p
        /\ s.cleaned = o.cleaned /\ s.replaced = o.replaced
    BY <1>2 DEF Objects
  <2>2. obj' = [obj EXCEPT ![k] = s]
    BY <1>4 DEF StopSpawn
  <2> HIDE DEF s
  <2>3. Spawns(p)
    BY <1>1, <1>4, <2>1, <2>2, GoLoc DEF StopSpawn, At, Spawns, SameBut, SameEnd
  <2> QED
    BY <2>3 DEF EndStep
<1>5. ASSUME StopClaim(p) \/ Claim(p) PROVE Cleaned(p)
  <2> DEFINE s == [o EXCEPT !.cleaned = TRUE]
  <2>1. /\ s.status = o.status /\ s.stops = o.stops /\ s.stopDone = o.stopDone
        /\ s.cleaned /\ s.replaced = o.replaced
    BY <1>2 DEF Objects
  <2>2. obj' = [obj EXCEPT ![k] = s]
    BY <1>5 DEF StopClaim, Claim
  <2> HIDE DEF s
  <2> QED
    BY <1>1, <2>1, <2>2 DEF Cleaned, SameBut, SameEnd
<1>6. CASE StopDefer(p)
  <2> DEFINE l == [loc[p] EXCEPT !.ch = o.stopDone]
  <2>1. l.op = loc[p].op /\ l.sid = k /\ l.todo = loc[p].todo /\ l.ch = o.stopDone
    BY <1>1 DEF Locals
  <2>2. pc[p] = "background" /\ Go(p, "claim", l) /\ SameObjs
    BY <1>6 DEF StopDefer, At, managerVars, SameObjs, SameEnd
  <2> HIDE DEF l
  <2>3. pc'[p] = "claim" /\ loc'[p] = l
    BY <1>1, <2>2, GoOthers
  <2>4. Defers(p)
    BY <1>1, <2>1, <2>2, <2>3 DEF Defers, SameTask
  <2> QED
    BY <2>4 DEF EndStep
<1>8. CASE StopClaim(p)
  <2>1. ClaimsStop(p)
    BY <1>1, <1>5, <1>8, GoLoc DEF StopClaim, At, AfterClaim, ClaimsStop
  <2> QED
    BY <2>1 DEF EndStep
<1>7. CASE Claim(p)
  <2>1. ClaimsEnd(p)
    BY <1>1, <1>5, <1>7, GoLoc DEF Claim, At, ClaimsEnd
  <2> QED
    BY <2>1 DEF EndStep
<1> QED
  BY <1>3, <1>4, <1>6, <1>7, <1>8

\* Where a goroutine goes on.
LEMMA RetireLoc ==
  ASSUME TypeOK, NEW p \in Procs, Goto(p, AfterRetire(p))
  PROVE  Onward(p)
  BY GoLoc DEF AfterRetire, Onward

LEMMA CleanSteps ==
  ASSUME IInv, NEW p \in Procs,
         \/ StopSignal(p) \/ CleanCommit(p) \/ CleanHalt(p) \/ CleanRemove(p)
         \/ SaveRecord(p)
  PROVE  EndStep(p)
<1> TypeOK
  BY DEF IInv
<1>1. CASE StopSignal(p)
  <2>1. Signals(p)
    BY <1>1, GoLoc DEF StopSignal, At, Signals, SameObjs, SameEnd
  <2> QED
    BY <2>1 DEF EndStep
<1>2. CASE CleanCommit(p) \/ CleanHalt(p) \/ CleanRemove(p)
  <2>1. SameMap /\ SameObjs
    BY <1>2 DEF CleanCommit, CleanHalt, CleanRemove, managerVars, SameMap, SameObjs, SameEnd
  <2>2. Cleans(p)
    BY <1>2, <2>1, GoLoc DEF CleanCommit, CleanHalt, CleanRemove, AfterClean, At, Cleans
  <2> QED
    BY <2>2 DEF EndStep
<1>3. CASE SaveRecord(p)
  <2>1. \A i \in Sids : records'[i] = IF i = loc[p].sid THEN obj[loc[p].sid].status
                                                        ELSE records[i]
    BY <1>3 DEF SaveRecord, RecordStatus, TypeOK
  <2>2. pc[p] = "save" /\ UNCHANGED <<sessions, closed>> /\ SameObjs
    BY <1>3 DEF SaveRecord, At, SameObjs, SameEnd
  <2>3. \/ loc[p].op = "stop" /\ pc'[p] = "signal" /\ SameLoc(p)
        \/ loc[p].op # "stop" /\ Onward(p)
    BY <1>3, GoLoc, RetireLoc DEF SaveRecord
  <2>4. loc[p].sid \in Sids
    BY <2>2, WorkFacts DEF Working
  <2> QED
    BY <2>1, <2>2, <2>3, <2>4 DEF EndStep, Saves
<1> QED
  BY <1>1, <1>2, <1>3

LEMMA WaitSteps ==
  ASSUME TypeOK, NEW p \in Procs,
         WaitBegin(p) \/ WaitEnd(p) \/ Decide(p) \/ Discard(p)
  PROVE  EndStep(p)
<1>1. SameMap /\ SameObjs /\ loc[p] \in Locals
  BY DEF TypeOK, WaitBegin, WaitEnd, Decide, Discard, managerVars, SameMap, SameObjs,
     SameEnd
<1>2. CASE WaitBegin(p)
  <2> DEFINE l == [loc[p] EXCEPT !.ch = obj[loc[p].sid].stopDone]
  <2>1. /\ l.op = loc[p].op /\ l.sid = loc[p].sid /\ l.todo = loc[p].todo
        /\ l.ch = obj[loc[p].sid].stopDone
    BY <1>1 DEF Locals
  <2>2. pc[p] = "wait" /\ Go(p, "waiting", l)
    BY <1>2 DEF WaitBegin, At
  <2> HIDE DEF l
  <2>3. Awaits(p)
    BY <1>1, <2>1, <2>2, GoOthers DEF Awaits, SameTask
  <2> QED
    BY <2>3 DEF EndStep
<1>3. CASE WaitEnd(p)
  <2>1. pc[p] = "waiting" /\ loc[p].ch \in closed \cup {NoChan}
    BY <1>3 DEF WaitEnd, WaitOver, At
  <2>2. \/ loc[p].op = "evict" /\ Goto(p, "discard")
        \/ loc[p].op = "rename" /\ Goto(p, "next")
        \/ loc[p].op \notin {"evict", "rename"} /\ Goto(p, "decide")
    BY <1>3 DEF WaitEnd
  <2>3. Awaits(p)
    BY <1>1, <2>1, <2>2, GoLoc DEF Awaits
  <2> QED
    BY <2>3 DEF EndStep
<1>4. CASE Decide(p)
  <2>1. Awaits(p)
    BY <1>1, <1>4, GoLoc DEF Decide, At, Awaits
  <2> QED
    BY <2>1 DEF EndStep
<1>5. CASE Discard(p)
  <2>1. Awaits(p)
    BY <1>1, <1>5, RetireLoc DEF Discard, At, Awaits
  <2> QED
    BY <2>1 DEF EndStep
<1> QED
  BY <1>2, <1>3, <1>4, <1>5

LEMMA ListSteps ==
  ASSUME TypeOK, NEW p \in Procs, NextInList(p)
  PROVE  EndStep(p)
<1>1. /\ UNCHANGED <<closed, records>> /\ SameObjs /\ loc[p] \in Locals /\ pc[p] = "next"
  BY DEF TypeOK, NextInList, At, SameObjs, SameEnd
<1>2. CASE loc[p].todo = {} /\ UNCHANGED sessions /\
           Goto(p, IF loc[p].op = "rename" THEN "check" ELSE "done")
  <2>1. Lists(p)
    BY <1>1, <1>2, GoLoc DEF Lists
  <2> QED
    BY <2>1 DEF EndStep
<1>3. ASSUME NEW i \in loc[p].todo,
             Go(p, IF loc[p].op = "reap" /\ i \notin sessions THEN "next" ELSE "wait",
                [loc[p] EXCEPT !.sid = i, !.todo = @ \ {i}]),
             sessions' = IF loc[p].op = "rename" THEN sessions ELSE sessions \ {i}
      PROVE  EndStep(p)
  <2> DEFINE l == [loc[p] EXCEPT !.sid = i, !.todo = @ \ {i}]
             label == IF loc[p].op = "reap" /\ i \notin sessions THEN "next" ELSE "wait"
  <2>1. l.op = loc[p].op /\ l.sid = i /\ l.todo = loc[p].todo \ {i}
    BY <1>1 DEF Locals
  <2>2. Go(p, label, l)
    BY <1>3
  <2> HIDE DEF l
  <2>3. pc'[p] = label /\ loc'[p] = l
    BY <2>2, GoOthers
  <2>4. Lists(p)
    BY <1>1, <1>3, <2>1, <2>3 DEF Lists
  <2> QED
    BY <2>4 DEF EndStep
<1> QED
  BY <1>2, <1>3 DEF NextInList

\* A call that returns at once changes nothing.
LEMMA NotStarted ==
  ASSUME TypeOK, NEW p \in Procs, pc[p] = "idle", Goto(p, "done"), SameMap, SameObjs
  PROVE  EndStep(p)
<1>1. Elsewhere(p)
  BY GoLoc DEF Gone, Elsewhere, Ending, Working
<1> QED
  BY <1>1 DEF EndStep

LEMMA StopStarts ==
  ASSUME TypeOK, NEW p \in Requests, StartStop(p)
  PROVE  EndStep(p)
<1>1. /\ pc[p] = "idle" /\ SameMap /\ SameObjs /\ loc[p] \in Locals /\ p \in Procs
  BY DEF TypeOK, StartStop, MayCall, At, managerVars, SameMap, SameObjs, SameEnd, Procs
<1>2. ASSUME NEW i \in sessions, Go(p, "mark", [loc[p] EXCEPT !.op = "stop", !.sid = i])
      PROVE  EndStep(p)
  <2> DEFINE l == [loc[p] EXCEPT !.op = "stop", !.sid = i]
  <2>1. l.op = "stop" /\ l.sid = i /\ Go(p, "mark", l)
    BY <1>1, <1>2 DEF Locals
  <2> HIDE DEF l
  <2>2. StartsStop(p)
    BY <1>1, <2>1, GoOthers DEF StartsStop
  <2> QED
    BY <2>2 DEF EndStep
<1> QED
  BY <1>1, <1>2, NotStarted DEF StartStop

\* A request that is over has no session.
LEMMA NoSession ==
  ASSUME TypeOK, NEW p \in Requests, Goto(p, "done")
  PROVE  loc'[p].sid \notin Sids
<1>1. p \in Procs /\ p \notin Sids /\ NoSid \notin Sids
  BY ConstantsAssumption DEF Procs
<1>2. loc'[p] = Blank(p)
  BY <1>1, GoOthers DEF Goto
<1>3. Blank(p).sid = NoSid
  BY <1>1 DEF Blank
<1> QED
  BY <1>1, <1>2, <1>3

LEMMA RemovalStarts ==
  ASSUME TypeOK, NEW p \in Requests, StartDelete(p) \/ StartRestart(p)
  PROVE  EndStep(p)
<1>1. /\ pc[p] = "idle" /\ UNCHANGED <<closed, records>> /\ loc[p] \in Locals /\ p \in Procs
      /\ sessions' = sessions \ {loc'[p].sid} /\ sessions \subseteq Sids
  BY DEF TypeOK, StartDelete, StartRestart, MayCall, At, Procs
<1>2. ASSUME Goto(p, "done"), obj' = obj PROVE EndStep(p)
  <2>1. SameMap /\ SameObjs
    BY <1>1, <1>2, NoSession DEF SameMap, SameObjs, SameEnd
  <2> QED
    BY <1>1, <1>2, <2>1, NotStarted
<1>3. ASSUME NEW i \in sessions,
             Go(p, "wait", [loc[p] EXCEPT !.op = "delete", !.sid = i]), obj' = obj
      PROVE  EndStep(p)
  <2> DEFINE l == [loc[p] EXCEPT !.op = "delete", !.sid = i]
  <2>1. l.op = "delete" /\ l.sid = i /\ Go(p, "wait", l)
    BY <1>1, <1>3 DEF Locals
  <2> HIDE DEF l
  <2>2. pc'[p] = "wait" /\ loc'[p] = l
    BY <1>1, <2>1, GoOthers
  <2>3. StartsRemoval(p)
    BY <1>1, <1>3, <2>1, <2>2 DEF StartsRemoval, SameBut, SameEnd, TypeOK, Objects
  <2> QED
    BY <2>3 DEF EndStep
<1>4. ASSUME NEW i \in sessions,
             Go(p, "wait", [loc[p] EXCEPT !.op = "restart", !.sid = i, !.ws = obj[i].ws,
                                          !.repo = obj[i].repo]),
             obj' = [obj EXCEPT ![i].replaced = TRUE]
      PROVE  EndStep(p)
  <2> DEFINE l == [loc[p] EXCEPT !.op = "restart", !.sid = i, !.ws = obj[i].ws,
                                 !.repo = obj[i].repo]
             s == [obj[i] EXCEPT !.replaced = TRUE]
  <2>1. l.op = "restart" /\ l.sid = i /\ Go(p, "wait", l)
    BY <1>1, <1>4 DEF Locals
  <2>2. obj[i] \in Objects /\ obj \in [Sids -> Objects]
    BY <1>1 DEF TypeOK
  <2>3. /\ s.status = obj[i].status /\ s.stops = obj[i].stops
        /\ s.stopDone = obj[i].stopDone /\ s.cleaned = obj[i].cleaned /\ s.replaced
    BY <2>2 DEF Objects
  <2>4. obj' = [obj EXCEPT ![i] = s]
    BY <1>4
  <2> HIDE DEF l, s
  <2>5. pc'[p] = "wait" /\ loc'[p] = l
    BY <1>1, <2>1, GoOthers
  <2>6. StartsRemoval(p)
    <3>1. obj'[i] = s /\ SameBut(i) /\ s.replaced = (obj[i].replaced \/ l.op = "restart")
      BY <1>1, <2>1, <2>2, <2>3, <2>4 DEF SameBut, SameEnd
    <3> QED
      BY <1>1, <2>1, <2>3, <2>5, <3>1 DEF StartsRemoval
  <2> QED
    BY <2>6 DEF EndStep
<1>5. CASE StartDelete(p)
  <2>1. obj' = obj
    BY <1>5 DEF StartDelete
  <2> QED
    BY <1>2, <1>3, <1>5, <2>1 DEF StartDelete
<1>6. CASE StartRestart(p)
  BY <1>2, <1>4, <1>6 DEF StartRestart
<1> QED
  BY <1>5, <1>6

LEMMA ListStarts ==
  ASSUME TypeOK, NEW p \in Requests, StartReap(p) \/ StartShutdown(p) \/ StartRename(p)
  PROVE  EndStep(p)
<1>1. /\ pc[p] = "idle" /\ UNCHANGED <<closed, records>> /\ SameObjs
      /\ loc[p] \in Locals /\ p \in Procs
  BY DEF TypeOK, StartReap, StartShutdown, StartRename, MayCall, At, managerVars,
     SameObjs, SameEnd, Procs
<1>2. ASSUME StartReap(p) PROVE EndStep(p)
  <2>1. PICK due : Go(p, "next", [loc[p] EXCEPT !.op = "reap", !.todo = due])
    BY <1>2 DEF StartReap
  <2> DEFINE l == [loc[p] EXCEPT !.op = "reap", !.todo = due]
  <2>2. l.op = "reap" /\ Go(p, "next", l)
    BY <1>1, <2>1 DEF Locals
  <2> HIDE DEF l
  <2>3. sessions' = sessions
    BY <1>2 DEF StartReap, managerVars
  <2>4. StartsList(p)
    BY <1>1, <2>2, <2>3, GoOthers DEF StartsList
  <2> QED
    BY <2>4 DEF EndStep
<1>3. ASSUME StartShutdown(p) PROVE EndStep(p)
  <2> DEFINE l == [loc[p] EXCEPT !.op = "shutdown", !.todo = sessions]
  <2>1. l.op = "shutdown" /\ l.todo = sessions
    BY <1>1 DEF Locals
  <2>2. Go(p, "next", l) /\ sessions' = {}
    BY <1>3 DEF StartShutdown
  <2> HIDE DEF l
  <2>3. StartsList(p)
    BY <1>1, <2>1, <2>2, GoOthers DEF StartsList
  <2> QED
    BY <2>3 DEF EndStep
<1>4. ASSUME StartRename(p) PROVE EndStep(p)
  <2>1. PICK old, new :
          Go(p, IF RenameRefused(old, new) THEN "done" ELSE "next",
             [loc[p] EXCEPT !.op = "rename", !.ws = old, !.new = new,
                            !.held = RenameTaken(old, new),
                            !.todo = InMap(old, "stopped")])
    BY <1>4 DEF StartRename
  <2> DEFINE l == [loc[p] EXCEPT !.op = "rename", !.ws = old, !.new = new,
                            !.held = RenameTaken(old, new),
                            !.todo = InMap(old, "stopped")]
  <2>2. l.op = "rename"
    BY <1>1 DEF Locals
  <2>3. Go(p, IF RenameRefused(old, new) THEN "done" ELSE "next", l)
    BY <2>1
  <2> HIDE DEF l
  <2>4. sessions' = sessions
    BY <1>4 DEF StartRename
  <2>5. \/ pc'[p] = "next" /\ loc'[p] = l
        \/ pc'[p] = "done" /\ loc'[p] = Blank(p)
    BY <1>1, <2>3, GoOthers
  <2>6. Blank(p).op \in {"none", "evict"}
    BY DEF Blank
  <2>7. StartsList(p) \/ Elsewhere(p)
    BY <1>1, <2>2, <2>4, <2>5, <2>6 DEF StartsList, Elsewhere, Ending, Working, SameMap
  <2> QED
    BY <2>7 DEF EndStep
<1> QED
  BY <1>2, <1>3, <1>4

LEMMA PublishSteps ==
  ASSUME IInv, NEW p \in Procs, CreatePublish(p)
  PROVE  EndStep(p)
<1>1. /\ pc[p] = "publish" /\ UNCHANGED <<closed, records>> /\ TypeOK
      /\ sessions' = sessions \cup {loc[p].sid} /\ Goto(p, Deferred(p))
  BY DEF IInv, CreatePublish, At
<1>2. (pc'[p] = "release" /\ SameLoc(p)) \/ Gone(p)
  BY <1>1, GoLoc DEF Deferred, Gone
<1>3. loc[p].sid \in Sids
  <2>1. loc[p].sid \in issued /\ issued \subseteq Sids
    BY <1>1 DEF IInv, TypeOK, ProcOK, LocalOK, SidsOK, Making, Creating
  <2> QED
    BY <2>1
<1> DEFINE s == [ws |-> loc[p].ws, status |-> "running", cleaned |-> FALSE,
                 stopDone |-> NoChan, repo |-> loc[p].repo,
                 guarded |-> loc[p].held # {}, stops |-> {}, replaced |-> FALSE,
                 late |-> FALSE]
<1>4. /\ s.status = "running" /\ s.stops = {} /\ s.stopDone = NoChan
      /\ ~s.cleaned /\ ~s.replaced
  OBVIOUS
<1>5. obj' = [obj EXCEPT ![loc[p].sid] = s]
  BY DEF CreatePublish
<1> HIDE DEF s
<1>6. Publishes(p)
  BY <1>1, <1>2, <1>3, <1>4, <1>5 DEF Publishes, SameBut, SameEnd, TypeOK
<1> QED
  BY <1>6 DEF EndStep

LEMMA EvictSteps ==
  ASSUME IInv, NEW p \in Procs, CreateAdmit(p)
  PROVE  EndStep(p)
<1>1. /\ pc[p] = "begin" /\ UNCHANGED <<closed, records>> /\ SameObjs /\ TypeOK
      /\ loc[p] \in Locals /\ p \notin Sids
  BY DEF IInv, TypeOK, CreateAdmit, At, SameObjs, SameEnd, ProcOK, LocalOK, KindOK
<1>2. PICK out \in IF loc[p].ws = NoWs THEN {{}} ELSE Evictable(loc[p].ws) :
        /\ sessions' = sessions \ out
        /\ pc' = [q \in Procs |->
                    IF q = p THEN IF Refused(loc[p].ws, out) THEN "done" ELSE "prepare"
                    ELSE IF q \in Spawned(out) THEN "wait" ELSE pc[q]]
        /\ loc' = [loc EXCEPT ![p] =
                    IF Refused(loc[p].ws, out) THEN Blank(p)
                    ELSE [loc[p] EXCEPT !.held = Taken(loc[p].ws, out)]]
  BY DEF CreateAdmit
<1>3. \A i \in out : i \in sessions /\ obj[i].status = "stopped"
  BY <1>2 DEF Evictable, InMap
<1> DEFINE l == [loc[p] EXCEPT !.held = Taken(loc[p].ws, out)]
<1>4. /\ l.op = loc[p].op /\ l.sid = loc[p].sid /\ l.todo = loc[p].todo /\ l.ch = loc[p].ch
      /\ Blank(p).op \in {"none", "evict"} /\ Blank(p).ch = NoChan
  BY <1>1 DEF Locals, Blank
<1>5. loc'[p] = IF Refused(loc[p].ws, out) THEN Blank(p) ELSE l
  BY <1>1, <1>2 DEF TypeOK
<1> HIDE DEF l
<1>6. pc'[p] = IF Refused(loc[p].ws, out) THEN "done" ELSE "prepare"
  BY <1>2
<1>7. (pc'[p] = "prepare" /\ SameLoc(p)) \/ Gone(p)
  BY <1>4, <1>5, <1>6 DEF SameLoc, SameTask, Gone
<1>8. \A i \in sessions \ sessions' :
        obj[i].status = "stopped" /\ i # p /\ pc'[i] = "wait"
  BY <1>1, <1>2, <1>3 DEF TypeOK, Spawned, Procs
<1>9. Evicts(p)
  BY <1>1, <1>2, <1>7, <1>8 DEF Evicts
<1> QED
  BY <1>9 DEF EndStep

LEMMA Steps ==
  ASSUME IInv, NEW p \in Procs, Step(p)
  PROVE  EndStep(p) /\ Others(p)
<1>1. TypeOK
  BY DEF IInv
<1>2. Elsewhere(p) => EndStep(p)
  BY DEF EndStep
<1>3. Run(p) => EndStep(p)
  BY <1>1, <1>2, ElsewhereCreate, ElsewhereRename, ElsewhereMove, ElsewherePrepare,
     StopSteps, CleanSteps, WaitSteps, ListSteps, PublishSteps, EvictSteps DEF Run
<1>4. p \in Requests /\ Start(p) => EndStep(p)
  BY <1>1, <1>2, ElsewhereStart, StopStarts, RemovalStarts, ListStarts DEF Start
<1> QED
  BY <1>1, <1>3, <1>4, StepOthers DEF Step

----------------------------------------------------------------------------
(* Which call gets to which control point.                                 *)

Removers == {"delete", "restart", "reap", "shutdown"}

FlowOK(p) ==
  /\ pc[p] = "next" => loc[p].op \in {"reap", "shutdown", "rename"}
  /\ pc[p] \in {"wait", "waiting"} => loc[p].op \in Removers \cup {"evict", "rename"}
  /\ pc[p] \in {"decide", "clean", "remove"} => loc[p].op \in Removers
  /\ pc[p] = "discard" => loc[p].op \in Removers \cup {"evict"}
  /\ pc[p] \in {"commit", "halt"} => loc[p].op \in Removers \cup {"stop"}
  /\ pc[p] = "save" => loc[p].op \in {"stop", "delete", "reap", "shutdown"}
  /\ pc[p] \in {"mark", "spawn", "background", "claim", "signal"} => loc[p].op = "stop"
  /\ loc[p].op = "shutdown" => pc[p] \in {"next", "save"} \cup Retiring

Flow == \A p \in Procs : FlowOK(p)

LEMMA FlowStep ==
  ASSUME IInv, Flow, NEW p \in Procs, EndStep(p), Others(p)
  PROVE  Flow'
<1>1. FlowOK(p)
  BY DEF Flow
<1>2. FlowOK(p)'
  <2>1. CASE Elsewhere(p)
    BY <1>1, <2>1 DEF FlowOK, Elsewhere, Ending, Working, Removers, Retiring
  <2>2. CASE \/ Marks(p) \/ Spawns(p) \/ ClaimsStop(p) \/ ClaimsEnd(p)
             \/ Defers(p) \/ Signals(p)
    BY <1>1, <2>2 DEF FlowOK, Removers, Retiring, Gone, SameLoc, SameTask,
       Marks, Spawns, ClaimsStop, ClaimsEnd, Defers, Signals
  <2>3. CASE Cleans(p) \/ Saves(p)
    BY <1>1, <2>3 DEF FlowOK, Removers, Retiring, Gone, SameLoc, SameTask, Onward,
       Cleans, Saves
  <2>4. CASE Lists(p) \/ Awaits(p)
    BY <1>1, <2>4 DEF FlowOK, Removers, Retiring, Gone, SameLoc, SameTask, Onward,
       Lists, Awaits
  <2>5. CASE StartsStop(p) \/ StartsRemoval(p) \/ StartsList(p)
    BY <1>1, <2>5 DEF FlowOK, Removers, Retiring, StartsStop, StartsRemoval, StartsList
  <2>6. CASE Publishes(p) \/ Evicts(p)
    BY <1>1, <2>6 DEF FlowOK, Removers, Retiring, Gone, SameLoc, SameTask, Publishes, Evicts
  <2> QED
    BY <2>1, <2>2, <2>3, <2>4, <2>5, <2>6 DEF EndStep
<1>3. ASSUME NEW q \in Procs, q # p PROVE FlowOK(q)'
  <2>1. FlowOK(q) /\ loc'[q] = loc[q]
    BY <1>3 DEF Flow, Others
  <2>2. q \in sessions => loc[q].op = "evict"
    BY DEF IInv, TypeOK, ProcOK, LocalOK, KindOK
  <2> QED
    BY <1>3, <2>1, <2>2 DEF FlowOK, Others, Retiring, Removers
<1> QED
  BY <1>2, <1>3 DEF Flow

\* Where control is says who works on which session.
LEMMA AtWork ==
  ASSUME IInv, NEW p \in Procs
  PROVE  /\ pc[p] \in Working => loc[p].sid \in Sids /\ obj[loc[p].sid].status # "none"
         /\ pc[p] = "publish" => loc[p].sid \in Sids /\ obj[loc[p].sid].status = "none"
         /\ p \in sessions => loc[p].op = "evict" /\ loc[p].sid = p /\ p \notin Requests
         /\ \A i \in loc[p].todo : i \in Sids /\ obj[i].status # "none"
  BY ConstantsAssumption DEF IInv, TypeOK, ProcOK, LocalOK, SidsOK, KindOK, Making,
     Creating, Locals

LEMMA InMapMade == IInv => sessions \subseteq Sids /\ \A i \in sessions : obj[i].status # "none"
  BY DEF IInv, TypeOK, SessOK

----------------------------------------------------------------------------
(* Stops and their channels.                                               *)

\* p has marked its session as stopped and has not closed its channel yet;
\* from the claim on it knows which channel it will close.
Knows(p) == \/ pc[p] \in {"claim", "signal"}
            \/ loc[p].op = "stop" /\ pc[p] \in {"commit", "halt", "save"}
Stopping(p) == pc[p] \in {"spawn", "background"} \/ Knows(p)

Unmade == \A i \in Sids : obj[i].status = "none" =>
  obj[i].stops = {} /\ obj[i].stopDone = NoChan /\ ~obj[i].replaced /\ ~obj[i].cleaned

\* Every Stop of a session is under way or over, and is of that session only.
StopsEnd == \A p \in Requests, i \in Sids : p \in obj[i].stops =>
  pc[p] = "done" \/ (Stopping(p) /\ loc[p].sid = i)
StopsApart == \A p \in Requests, i, j \in Sids :
  p \in obj[i].stops /\ p \in obj[j].stops => i = j
StopsListed == \A p \in Procs : Stopping(p) => p \in obj[loc[p].sid].stops

\* Every channel at hand is that of a Stop of the session.
ChannelIsOfStop == \A i \in Sids : obj[i].stopDone # NoChan => obj[i].stopDone \in obj[i].stops
Closes == \A p \in Procs : Knows(p) => loc[p].ch \in obj[loc[p].sid].stops
Waiters == \A p \in Procs :
  /\ pc[p] \in {"waiting", "decide", "discard"} =>
       loc[p].ch \in obj[loc[p].sid].stops \cup {NoChan}
  /\ pc[p] \in {"decide", "discard"} => loc[p].ch \in closed \cup {NoChan}

\* A closed channel is that of a Stop that is over, or its session has
\* another Stop.
ClosedByOwner == \A c \in closed :
  pc[c] = "done" \/ \E i \in Sids, r \in Requests : r # c /\ {c, r} \subseteq obj[i].stops

LEMMA UnmadeStep ==
  ASSUME IInv, Unmade, NEW p \in Procs, EndStep(p)
  PROVE  Unmade'
<1>1. CASE SameObjs
  BY <1>1 DEF SameObjs, SameEnd, Unmade
<1>2. CASE \/ Marks(p) \/ Spawns(p) \/ ClaimsStop(p) \/ ClaimsEnd(p)
  <2>1. SameBut(loc[p].sid) /\ obj[loc[p].sid].status # "none"
        /\ obj'[loc[p].sid].status # "none"
    BY <1>2, AtWork DEF Marks, Spawns, ClaimsStop, ClaimsEnd, Cleaned, Working
  <2> QED
    BY <2>1 DEF SameBut, SameEnd, Unmade
<1>3. CASE StartsRemoval(p)
  BY <1>3, InMapMade DEF StartsRemoval, SameBut, SameEnd, Unmade
<1>4. CASE Publishes(p)
  BY <1>4, AtWork DEF Publishes, SameBut, SameEnd, Unmade
<1> QED
  BY <1>1, <1>2, <1>3, <1>4 DEF EndStep, Elsewhere, Defers, Signals, Cleans, Saves, Lists,
     Awaits, StartsStop, StartsList, Evicts

\* How the Stops of sessions grow.
LEMMA StopsGrow ==
  ASSUME IInv, Unmade, NEW p \in Procs, EndStep(p)
  PROVE  \A i \in Sids : obj'[i].stops =
           IF Marks(p) /\ i = loc[p].sid THEN obj[i].stops \cup {p} ELSE obj[i].stops
<1>1. CASE SameObjs /\ ~Marks(p)
  BY <1>1 DEF SameObjs, SameEnd
<1>2. CASE Marks(p)
  BY <1>2 DEF Marks, SameBut, SameEnd
<1>3. CASE Spawns(p) \/ ClaimsStop(p) \/ ClaimsEnd(p)
  BY <1>3 DEF Marks, Spawns, ClaimsStop, ClaimsEnd, Cleaned, SameBut, SameEnd
<1>4. CASE StartsRemoval(p)
  BY <1>4 DEF Marks, StartsRemoval, SameBut, SameEnd
<1>5. CASE Publishes(p)
  BY <1>5, AtWork DEF Marks, Publishes, SameBut, SameEnd, Unmade
<1> QED
  BY <1>1, <1>2, <1>3, <1>4, <1>5 DEF EndStep, Elsewhere, Defers, Signals, Cleans, Saves,
     Lists, Awaits, StartsStop, StartsList, Evicts

\* Which Stops begin and end in a step.
LEMMA StoppingStep ==
  ASSUME IInv, Flow, NEW p \in Procs, EndStep(p)
  PROVE  /\ Stopping(p)' => (Stopping(p) \/ Marks(p)) /\ loc'[p].sid = loc[p].sid
         /\ Stopping(p) => (Stopping(p)' /\ loc'[p].sid = loc[p].sid) \/ pc'[p] = "done"
         /\ Knows(p) => (Knows(p)' /\ loc'[p].ch = loc[p].ch) \/ pc'[p] = "done"
         /\ Knows(p)' => \/ Knows(p) /\ loc'[p].ch = loc[p].ch
                         \/ Defers(p) /\ loc'[p].ch = obj[loc[p].sid].stopDone
         /\ pc[p] # "done"
<1>1. FlowOK(p)
  BY DEF Flow
<1>2. CASE Elsewhere(p)
  BY <1>1, <1>2 DEF Elsewhere, Ending, Working, Stopping, Knows, FlowOK, Removers
<1>3. CASE \/ Marks(p) \/ Spawns(p) \/ ClaimsStop(p) \/ ClaimsEnd(p)
             \/ Defers(p) \/ Signals(p)
  BY <1>1, <1>3 DEF FlowOK, Removers, Gone, SameLoc, SameTask, Stopping, Knows,
     Marks, Spawns, ClaimsStop, ClaimsEnd, Defers, Signals
<1>4. CASE Cleans(p) \/ Saves(p)
  BY <1>1, <1>4 DEF FlowOK, Removers, Gone, SameLoc, SameTask, Onward, Stopping, Knows,
     Cleans, Saves
<1>5. CASE Lists(p) \/ Awaits(p)
  BY <1>1, <1>5 DEF FlowOK, Removers, Gone, SameLoc, SameTask, Onward, Stopping, Knows,
     Lists, Awaits
<1>6. CASE StartsStop(p) \/ StartsRemoval(p) \/ StartsList(p) \/ Publishes(p) \/ Evicts(p)
  BY <1>1, <1>6 DEF Gone, SameLoc, SameTask, Stopping, Knows,
     StartsStop, StartsRemoval, StartsList, Publishes, Evicts
<1> QED
  BY <1>2, <1>3, <1>4, <1>5, <1>6 DEF EndStep

\* The other goroutines neither begin nor end a Stop.
LEMMA StoppingOthers ==
  ASSUME IInv, Flow, NEW p \in Procs, Others(p), NEW q \in Procs, q # p
  PROVE  /\ Stopping(q)' = Stopping(q) /\ Knows(q)' = Knows(q) /\ loc'[q] = loc[q]
         /\ q \in Requests => pc'[q] = pc[q]
<1>1. FlowOK(q) /\ (q \in sessions => loc[q].op = "evict" /\ q \notin Requests)
  BY AtWork DEF Flow
<1> QED
  BY <1>1 DEF Others, Stopping, Knows, FlowOK, Removers

LEMMA StopIsRequest ==
  ASSUME IInv, Flow, NEW p \in Procs, Stopping(p) \/ pc[p] = "mark"
  PROVE  p \in Requests /\ loc[p].sid \in Sids
<1>1. FlowOK(p) /\ ProcOK(p)
  BY DEF Flow, IInv
<1>2. loc[p].op = "stop" /\ pc[p] \in Working
  BY <1>1 DEF FlowOK, Stopping, Knows, Working
<1> QED
  BY <1>1, <1>2, AtWork DEF ProcOK, LocalOK, KindOK, Procs

Channels ==
  /\ Unmade /\ StopsEnd /\ StopsApart /\ StopsListed /\ ChannelIsOfStop
  /\ Closes /\ Waiters /\ ClosedByOwner

LEMMA StopsStep ==
  ASSUME IInv, Flow, Channels, NEW p \in Procs, EndStep(p), Others(p)
  PROVE  StopsEnd' /\ StopsApart' /\ StopsListed'
<1>1. \A i \in Sids : obj'[i].stops =
        IF Marks(p) /\ i = loc[p].sid THEN obj[i].stops \cup {p} ELSE obj[i].stops
  BY StopsGrow DEF Channels
<1>2. Marks(p) => /\ pc[p] = "mark" /\ pc'[p] = "spawn" /\ loc'[p].sid = loc[p].sid
                  /\ p \in Requests /\ loc[p].sid \in Sids
  BY StopIsRequest DEF Marks, SameLoc, SameTask
<1>3. StopsEnd'
  <2> SUFFICES ASSUME NEW q \in Requests, NEW i \in Sids, q \in obj'[i].stops
               PROVE  pc'[q] = "done" \/ (Stopping(q)' /\ loc'[q].sid = i)
    BY DEF StopsEnd
  <2>1. CASE q = p /\ q \notin obj[i].stops
    BY <1>1, <1>2, <2>1 DEF Stopping
  <2>2. CASE q = p /\ q \in obj[i].stops
    BY <2>2, StoppingStep DEF Channels, StopsEnd
  <2>3. CASE q # p
    <3>1. q \in obj[i].stops /\ q \in Procs
      BY <1>1, <2>3 DEF Procs
    <3>2. pc[q] = "done" \/ (Stopping(q) /\ loc[q].sid = i)
      BY <3>1 DEF Channels, StopsEnd
    <3> QED
      BY <2>3, <3>1, <3>2, StoppingOthers
  <2> QED
    BY <2>1, <2>2, <2>3
<1>4. StopsApart'
  <2>1. Marks(p) => \A j \in Sids : p \notin obj[j].stops
    BY <1>2, StopIsRequest DEF Channels, StopsEnd, Stopping, Knows
  <2> SUFFICES ASSUME NEW q \in Requests, NEW i \in Sids, NEW j \in Sids,
                      q \in obj'[i].stops, q \in obj'[j].stops
               PROVE  i = j
    BY DEF StopsApart
  <2>2. q \in obj[i].stops /\ q \in obj[j].stops => i = j
    BY DEF Channels, StopsApart
  <2> QED
    BY <1>1, <2>1, <2>2
<1>5. StopsListed'
  <2> SUFFICES ASSUME NEW q \in Procs, Stopping(q)' PROVE q \in obj'[loc'[q].sid].stops
    BY DEF StopsListed
  <2>1. CASE q = p /\ Stopping(p)
    BY <1>1, <2>1, StoppingStep, StopIsRequest DEF Channels, StopsListed
  <2>2. CASE q = p /\ Marks(p)
    BY <1>1, <1>2, <2>2
  <2>3. CASE q # p
    <3>1. Stopping(q) /\ loc'[q] = loc[q]
      BY <2>3, StoppingOthers
    <3> QED
      BY <1>1, <3>1, StopIsRequest DEF Channels, StopsListed
  <2> QED
    BY <2>1, <2>2, <2>3, StoppingStep
<1> QED
  BY <1>3, <1>4, <1>5

LEMMA ChannelsStep ==
  ASSUME IInv, Flow, Channels, NEW p \in Procs, EndStep(p), Others(p)
  PROVE  ChannelIsOfStop' /\ Closes'
<1>1. \A i \in Sids : obj[i].stops \subseteq obj'[i].stops
  BY StopsGrow DEF Channels
<1>2. ChannelIsOfStop'
  <2>1. CASE SameObjs
    BY <1>1, <2>1 DEF SameObjs, SameEnd, Channels, ChannelIsOfStop
  <2>2. CASE Marks(p) \/ ClaimsStop(p) \/ ClaimsEnd(p)
    <3>1. CASE Marks(p)
      BY <1>1, <3>1 DEF Marks, SameBut, SameEnd, Channels, ChannelIsOfStop
    <3>2. CASE ClaimsStop(p)
      BY <1>1, <3>2 DEF ClaimsStop, Cleaned, SameBut, SameEnd, Channels, ChannelIsOfStop
    <3>3. CASE ClaimsEnd(p)
      BY <1>1, <3>3 DEF ClaimsEnd, Cleaned, SameBut, SameEnd, Channels, ChannelIsOfStop
    <3> QED
      BY <2>2, <3>1, <3>2, <3>3
  <2>3. CASE Spawns(p)
    <3>1. p \in obj[loc[p].sid].stops
      BY <2>3 DEF Spawns, Stopping, Channels, StopsListed
    <3> QED
      BY <1>1, <2>3, <3>1 DEF Spawns, SameBut, SameEnd, Channels, ChannelIsOfStop
  <2>4. CASE StartsRemoval(p) \/ Publishes(p)
    BY <1>1, <2>4 DEF StartsRemoval, Publishes, SameBut, SameEnd, Channels, ChannelIsOfStop
  <2> QED
    BY <2>1, <2>2, <2>3, <2>4 DEF EndStep, Elsewhere, Defers, Signals, Cleans, Saves,
       Lists, Awaits, StartsStop, StartsList, Evicts
<1>3. Closes'
  <2> SUFFICES ASSUME NEW q \in Procs, Knows(q)'
               PROVE  loc'[q].ch \in obj'[loc'[q].sid].stops
    BY DEF Closes
  <2>1. CASE q = p /\ Knows(p) /\ loc'[p].ch = loc[p].ch
    <3>1. loc'[p].sid = loc[p].sid /\ loc[p].sid \in Sids
      BY <2>1, StoppingStep, StopIsRequest DEF Stopping
    <3> QED
      BY <1>1, <2>1, <3>1 DEF Channels, Closes
  <2>2. CASE q = p /\ Defers(p) /\ loc'[p].ch = obj[loc[p].sid].stopDone
    <3>1. /\ loc'[p].sid = loc[p].sid /\ loc[p].sid \in Sids
          /\ obj[loc[p].sid].stopDone # NoChan
      BY <2>2, AtWork DEF Defers, SameTask, IInv, ProcOK, LocalOK, StopOK, Working
    <3> QED
      BY <1>1, <2>2, <3>1 DEF Channels, ChannelIsOfStop
  <2>3. CASE q # p
    <3>1. Knows(q) /\ loc'[q] = loc[q]
      BY <2>3, StoppingOthers
    <3> QED
      BY <1>1, <3>1, StopIsRequest DEF Channels, Closes, Stopping
  <2> QED
    BY <2>1, <2>2, <2>3, StoppingStep
<1> QED
  BY <1>2, <1>3

LEMMA WaitersStep ==
  ASSUME IInv, Flow, Channels, NEW p \in Procs, EndStep(p), Others(p)
  PROVE  Waiters' /\ ClosedByOwner'
<1>1. /\ \A i \in Sids : obj[i].stops \subseteq obj'[i].stops
      /\ closed' = closed \/ (Signals(p) /\ closed' = closed \cup {loc[p].ch})
  <2>1. \A i \in Sids : obj[i].stops \subseteq obj'[i].stops
    BY StopsGrow DEF Channels
  <2>2. closed' = closed \/ (Signals(p) /\ closed' = closed \cup {loc[p].ch})
    <3>1. CASE \/ Elsewhere(p) \/ Marks(p) \/ Spawns(p) \/ ClaimsStop(p) \/ ClaimsEnd(p)
               \/ Defers(p) \/ Signals(p) \/ Cleans(p)
      BY <3>1 DEF Elsewhere, Marks, Spawns, ClaimsStop, ClaimsEnd, Cleaned, SameMap,
         Defers, Signals, Cleans
    <3>2. CASE \/ Saves(p) \/ Lists(p) \/ Awaits(p) \/ StartsStop(p) \/ StartsRemoval(p)
               \/ StartsList(p) \/ Publishes(p) \/ Evicts(p)
      BY <3>2 DEF Saves, SameMap, Lists, Awaits, StartsStop, StartsRemoval, StartsList,
         Publishes, Evicts
    <3> QED
      BY <3>1, <3>2 DEF EndStep
  <2> QED
    BY <2>1, <2>2
<1>2. ASSUME NEW q \in Procs, pc'[q] \in {"waiting", "decide", "discard"}
      PROVE  /\ loc'[q].ch \in obj'[loc'[q].sid].stops \cup {NoChan}
             /\ pc'[q] \in {"decide", "discard"} => loc'[q].ch \in closed' \cup {NoChan}
  <2>1. CASE q = p
    <3>1. Awaits(p)
      BY <1>2, <2>1 DEF EndStep, Elsewhere, Ending, Working, Marks, Spawns, ClaimsStop,
         ClaimsEnd, Defers, Signals, Gone, Cleans, Saves, Onward, Lists, StartsStop,
         StartsRemoval, StartsList, Publishes, Evicts
    <3>2. loc'[p].sid = loc[p].sid /\ loc[p].sid \in Sids
      BY <1>2, <2>1, <3>1, AtWork DEF Awaits, Onward, Gone, SameLoc, SameTask, Working
    <3> QED
      BY <1>1, <1>2, <2>1, <3>1, <3>2
         DEF Awaits, Onward, Gone, SameLoc, Channels, ChannelIsOfStop, Waiters
  <2>2. CASE q # p
    <3>1. pc'[q] = pc[q] /\ loc'[q] = loc[q]
      BY <1>2, <2>2 DEF Others
    <3>2. loc[q].sid \in Sids
      BY <1>2, <3>1, AtWork DEF Working
    <3> QED
      BY <1>1, <1>2, <3>1, <3>2 DEF Channels, Waiters
  <2> QED
    BY <2>1, <2>2
<1>3. ASSUME NEW c \in closed'
      PROVE  pc'[c] = "done" \/ \E i \in Sids, r \in Requests :
                                  r # c /\ {c, r} \subseteq obj'[i].stops
  <2>1. CASE c \in closed
    <3>1. pc[c] = "done" \/ \E i \in Sids, r \in Requests :
                              r # c /\ {c, r} \subseteq obj[i].stops
      BY <2>1 DEF Channels, ClosedByOwner
    <3>2. c \in Requests /\ c \in Procs
      BY <2>1 DEF IInv, TypeOK, Procs
    <3>3. pc[c] = "done" => pc'[c] = "done"
      BY <3>2, StoppingStep, StoppingOthers
    <3> QED
      BY <1>1, <3>1, <3>3
  <2>2. CASE c \notin closed
    <3>1. Signals(p) /\ c = loc[p].ch
      BY <1>1, <1>3, <2>2
    <3>2. p \in Requests /\ loc[p].sid \in Sids /\ {c, p} \subseteq obj[loc[p].sid].stops
      BY <3>1, StopIsRequest DEF Signals, Stopping, Knows, Channels, Closes, StopsListed
    <3> QED
      BY <1>1, <3>1, <3>2 DEF Signals, Gone
  <2> QED
    BY <2>1, <2>2
<1> QED
  BY <1>2, <1>3 DEF Waiters, ClosedByOwner

LEMMA ChannelsHold ==
  ASSUME IInv, Flow, Channels, NEW p \in Procs, EndStep(p), Others(p)
  PROVE  Channels'
  BY UnmadeStep, StopsStep, ChannelsStep, WaitersStep DEF Channels

\* A channel is closed a second time only where two Stops marked a session.
PanicsTwice == panicked => StoppedTwice

LEMMA PanicStep ==
  ASSUME IInv, Flow, Channels, PanicsTwice, NEW p \in Procs, Step(p), EndStep(p)
  PROVE  PanicsTwice'
<1>1. \A i \in Sids : obj[i].stops \subseteq obj'[i].stops
  BY StopsGrow DEF Channels
<1>2. ASSUME StoppedTwice PROVE StoppedTwice'
  BY <1>1, <1>2 DEF StoppedTwice
<1>3. CASE StopSignal(p) /\ loc[p].ch \in closed
  <2>1. Knows(p) /\ Stopping(p) /\ pc[p] # "done"
    BY <1>3 DEF StopSignal, At, Knows, Stopping
  <2>2. /\ p \in Requests /\ loc[p].sid \in Sids
        /\ {loc[p].ch, p} \subseteq obj[loc[p].sid].stops
    BY <2>1, StopIsRequest DEF Channels, Closes, StopsListed
  <2>3. ASSUME loc[p].ch # p PROVE StoppedTwice
    BY <2>2, <2>3 DEF StoppedTwice
  <2>4. ASSUME loc[p].ch = p PROVE StoppedTwice
    <3>1. PICK i \in Sids, r \in Requests : r # p /\ {p, r} \subseteq obj[i].stops
      BY <1>3, <2>1, <2>4 DEF Channels, ClosedByOwner
    <3> QED
      BY <3>1 DEF StoppedTwice
  <2>5. StoppedTwice
    BY <2>3, <2>4
  <2>6. StoppedTwice'
    BY <1>2, <2>5
  <2> QED
    BY <2>6 DEF PanicsTwice
<1>4. CASE ~(StopSignal(p) /\ loc[p].ch \in closed)
  <2>1. ~panicked'
    <3>1. ~panicked /\ (panicked' = panicked \/ StopSignal(p))
      BY DEF Step, Start, Run, MayCall, At, managerVars, StartCreate, StartStop, StartDelete,
         StartRestart, StartReap, StartShutdown, StartRename, StartDeleteWorkspace,
         CreateReuse, CreateAdmit, CreatePrepare, CreateContainerStep, CreateStart,
         CreateSetup, CreateAttach, CreateAbort, CreateDropVolume, CreatePublish, Release,
         StopMark, StopSpawn, StopDefer, StopClaim, StopSignal, CleanCommit, CleanHalt,
         CleanRemove, SaveRecord, NextInList, WaitBegin, WaitEnd, Decide, Discard, Claim,
         RenameCheck, RenameCopy, RenameTag, RenameRollback, RenameUntag, RenameDrop,
         RenameMove
    <3> QED
      BY <1>4, <3>1 DEF StopSignal
  <2> QED
    BY <2>1 DEF PanicsTwice
<1> QED
  BY <1>3, <1>4

LEMMA WaitCovers ==
  ASSUME IInv, Channels
  PROVE  WaitCoversCleanup
<1> SUFFICES ASSUME NEW p \in Procs, NEW q \in Procs, pc[p] = "discard", loc[p].ch = q,
                    obj[loc[p].sid].stops = {q}
             PROVE  pc[q] \notin {"background", "claim", "commit", "halt", "save"}
  BY DEF WaitCoversCleanup
<1>1. loc[p].sid \in Sids /\ obj[loc[p].sid].stops \subseteq Requests
  BY AtWork DEF IInv, TypeOK, Objects, Working
<1>2. q \in Requests /\ q # NoChan
  BY <1>1, ConstantsAssumption
<1>3. q \in closed
  BY <1>2 DEF Channels, Waiters
<1>4. ASSUME NEW i \in Sids, NEW r \in Requests, r # q, {q, r} \subseteq obj[i].stops
      PROVE  FALSE
  <2>1. i = loc[p].sid
    BY <1>1, <1>2, <1>4 DEF Channels, StopsApart
  <2> QED
    BY <1>4, <2>1
<1> QED
  BY <1>3, <1>4 DEF Channels, ClosedByOwner

----------------------------------------------------------------------------
(* Records.                                                                *)

\* A Restart goes on with a session it has replaced.
Replacing == \A p \in Procs : loc[p].op = "restart" /\ pc[p] \in Retiring =>
  obj[loc[p].sid].replaced

\* Who wins the compare-and-swap of a session saves its record.
Saving(p) == pc[p] \in {"commit", "halt", "remove", "save"} /\ loc[p].op # "restart"
CleanedIsSaved == \A i \in Sids : obj[i].cleaned /\ ~obj[i].replaced =>
  records[i] # "none" \/ \E p \in Procs : loc[p].sid = i /\ Saving(p)

\* A stopped session is cleaned up by one of its Stops.
StoppedIsCleaned == \A i \in Sids : obj[i].status = "stopped" =>
  obj[i].cleaned \/ \E p \in Procs : loc[p].sid = i /\ pc[p] \in {"spawn", "background", "claim"}

\* A running session that has left the map is cleaned up by the call that
\* took it out.
WillClean(p, i) ==
  \/ /\ loc[p].sid = i /\ pc[p] \in {"wait", "waiting", "decide", "clean"}
     /\ loc[p].op \in {"delete", "reap", "shutdown"}
  \/ i \in loc[p].todo /\ loc[p].op = "shutdown"
LeftIsCleaned == \A i \in Sids :
  obj[i].status = "running" /\ i \notin sessions /\ ~obj[i].replaced =>
    obj[i].cleaned \/ \E p \in Procs : WillClean(p, i)

Histories == Replacing /\ CleanedIsSaved /\ StoppedIsCleaned /\ LeftIsCleaned

\* What stays as it was.
LEMMA HistoryGrows ==
  ASSUME IInv, Unmade, NEW p \in Procs, EndStep(p)
  PROVE  \A i \in Sids :
    /\ obj[i].replaced => obj'[i].replaced
    /\ obj'[i].replaced => obj[i].replaced \/ (StartsRemoval(p) /\ i = loc'[p].sid)
    /\ obj[i].cleaned => obj'[i].cleaned
    /\ obj'[i].cleaned =>
         obj[i].cleaned \/ ((ClaimsStop(p) \/ ClaimsEnd(p)) /\ i = loc[p].sid)
    /\ obj'[i].status = "stopped" => obj[i].status = "stopped" \/ (Marks(p) /\ i = loc[p].sid)
    /\ obj'[i].status = "running" => obj[i].status = "running" \/ (Publishes(p) /\ i = loc[p].sid)
    /\ records[i] # "none" => records'[i] # "none"
<1>1. CASE SameObjs /\ records' = records
  BY <1>1 DEF SameObjs, SameEnd
<1>2. CASE \/ Marks(p) \/ Spawns(p) \/ ClaimsStop(p) \/ ClaimsEnd(p)
  <2>1. CASE Marks(p)
    BY <2>1 DEF Marks, SameBut, SameEnd, SameMap
  <2>2. CASE Spawns(p)
    BY <2>2 DEF Spawns, SameBut, SameEnd, SameMap
  <2>3. CASE ClaimsStop(p)
    BY <2>3 DEF ClaimsStop, Cleaned, SameBut, SameEnd, SameMap
  <2>4. CASE ClaimsEnd(p)
    BY <2>4 DEF ClaimsEnd, Cleaned, SameBut, SameEnd, SameMap
  <2> QED
    BY <1>2, <2>1, <2>2, <2>3, <2>4
<1>3. CASE Saves(p)
  BY <1>3, AtWork DEF Saves, SameObjs, SameEnd, Working
<1>4. CASE StartsRemoval(p)
  BY <1>4 DEF StartsRemoval, SameBut, SameEnd
<1>5. CASE Publishes(p)
  BY <1>5, AtWork DEF Publishes, SameBut, SameEnd, Unmade
<1> QED
  BY <1>1, <1>2, <1>3, <1>4, <1>5 DEF EndStep, Elsewhere, Defers, Signals, Cleans, Lists,
     Awaits, StartsStop, StartsList, Evicts, SameMap

LEMMA ReplacingStep ==
  ASSUME IInv, Flow, Unmade, Replacing, NEW p \in Procs, EndStep(p), Others(p)
  PROVE  Replacing'
<1>1. \A i \in Sids : obj[i].replaced => obj'[i].replaced
  BY HistoryGrows
<1> SUFFICES ASSUME NEW q \in Procs, loc'[q].op = "restart", pc'[q] \in Retiring
             PROVE  obj'[loc'[q].sid].replaced
  BY DEF Replacing
<1>2. CASE q # p
  <2>1. loc'[q] = loc[q] /\ pc'[q] = pc[q]
    BY <1>2, AtWork DEF Others
  <2>2. obj[loc[q].sid].replaced /\ loc[q].sid \in Sids
    BY <2>1, AtWork DEF Replacing, Retiring, Working
  <2> QED
    BY <1>1, <2>1, <2>2
<1>3. CASE q = p /\ pc[p] \in Retiring /\ loc'[p].sid = loc[p].sid /\ loc'[p].op = loc[p].op
  BY <1>1, <1>3, AtWork DEF Replacing, Retiring, Working
<1>4. CASE StartsRemoval(p) /\ q = p
  BY <1>4 DEF StartsRemoval
<1>5. ASSUME q = p, ~StartsRemoval(p)
      PROVE  pc[p] \in Retiring /\ loc'[p].sid = loc[p].sid /\ loc'[p].op = loc[p].op
  <2>1. FlowOK(p)
    BY DEF Flow
  <2>2. CASE \/ Elsewhere(p) \/ Marks(p) \/ Spawns(p) \/ ClaimsStop(p) \/ ClaimsEnd(p)
             \/ Defers(p) \/ Signals(p)
    BY <1>5, <2>1, <2>2 DEF FlowOK, Removers, Retiring, Ending, Working, Elsewhere, Marks,
       Spawns, ClaimsStop, ClaimsEnd, Defers, Signals, Gone, SameLoc, SameTask
  <2>3. CASE Cleans(p) \/ Saves(p) \/ Lists(p) \/ Awaits(p)
    BY <1>5, <2>1, <2>3 DEF FlowOK, Removers, Retiring, Cleans, Saves, Onward, Lists,
       Awaits, Gone, SameLoc, SameTask
  <2>4. CASE StartsStop(p) \/ StartsList(p) \/ Publishes(p) \/ Evicts(p)
    BY <1>5, <2>4 DEF Retiring, StartsStop, StartsList, Publishes, Evicts, Gone
  <2> QED
    BY <1>5, <2>2, <2>3, <2>4 DEF EndStep
<1> QED
  BY <1>2, <1>3, <1>4, <1>5

\* A goroutine that will save a record goes on to it.
LEMMA SavingStep ==
  ASSUME IInv, Flow, NEW p \in Procs, EndStep(p), Others(p), NEW q \in Procs, Saving(q)
  PROVE  \/ Saving(q)' /\ loc'[q].sid = loc[q].sid
         \/ q = p /\ records'[loc[q].sid] # "none"
<1>1. FlowOK(q)
  BY DEF Flow
<1>2. CASE q # p
  BY <1>1, <1>2, AtWork DEF Others, Saving, FlowOK, Removers
<1>3. CASE q = p
  <2>1. Cleans(p) \/ Saves(p)
    BY <1>3 DEF EndStep, Saving, Elsewhere, Ending, Working, Marks, Spawns, ClaimsStop,
       ClaimsEnd, Defers, Signals, Lists, Awaits, StartsStop, StartsRemoval, StartsList,
       Publishes, Evicts
  <2>2. Saves(p) => obj[loc[p].sid].status # "none"
    BY AtWork DEF Saves, Working
  <2> QED
    BY <1>1, <1>3, <2>1, <2>2
       DEF Saving, FlowOK, Removers, Cleans, Saves, SameLoc, SameTask
<1> QED
  BY <1>2, <1>3

LEMMA CleanedStep ==
  ASSUME IInv, Flow, Unmade, Replacing, CleanedIsSaved, NEW p \in Procs, EndStep(p), Others(p)
  PROVE  CleanedIsSaved'
<1> SUFFICES ASSUME NEW i \in Sids, obj'[i].cleaned, ~obj'[i].replaced
             PROVE  records'[i] # "none" \/ \E q \in Procs : loc'[q].sid = i /\ Saving(q)'
  BY DEF CleanedIsSaved
<1>1. ~obj[i].replaced
  BY HistoryGrows
<1>2. CASE obj[i].cleaned
  <2>1. CASE records[i] # "none"
    BY <2>1, HistoryGrows
  <2>2. CASE \E q \in Procs : loc[q].sid = i /\ Saving(q)
    BY <2>2, SavingStep
  <2> QED
    BY <1>1, <1>2, <2>1, <2>2 DEF CleanedIsSaved
<1>3. CASE ~obj[i].cleaned
  <2>1. (ClaimsStop(p) \/ ClaimsEnd(p)) /\ i = loc[p].sid
    BY <1>3, HistoryGrows
  <2>2. loc'[p].sid = i /\ loc'[p].op = loc[p].op /\ pc'[p] = "commit"
    BY <1>3, <2>1 DEF ClaimsStop, ClaimsEnd, SameLoc, SameTask
  <2>3. loc[p].op # "restart"
    BY <1>1, <2>1 DEF Flow, FlowOK, Replacing, ClaimsStop, ClaimsEnd, Retiring
  <2> QED
    BY <2>2, <2>3 DEF Saving
<1> QED
  BY <1>2, <1>3

LEMMA StoppedStep ==
  ASSUME IInv, Flow, Unmade, StoppedIsCleaned, NEW p \in Procs, EndStep(p), Others(p)
  PROVE  StoppedIsCleaned'
<1> SUFFICES ASSUME NEW i \in Sids, obj'[i].status = "stopped", ~obj'[i].cleaned
             PROVE  \E q \in Procs : loc'[q].sid = i /\ pc'[q] \in {"spawn", "background", "claim"}
  BY DEF StoppedIsCleaned
<1>1. CASE Marks(p) /\ i = loc[p].sid
  BY <1>1 DEF Marks, SameLoc, SameTask
<1>2. CASE obj[i].status = "stopped"
  <2>1. PICK q \in Procs : loc[q].sid = i /\ pc[q] \in {"spawn", "background", "claim"}
    BY <1>2, HistoryGrows DEF StoppedIsCleaned
  <2>2. CASE q # p
    BY <2>1, <2>2, AtWork DEF Others, Flow, FlowOK
  <2>3. CASE q = p
    <3>1. Spawns(p) \/ Defers(p) \/ ClaimsStop(p)
      BY <2>1, <2>3 DEF EndStep, Elsewhere, Ending, Working, Marks, ClaimsEnd, Signals,
         Cleans, Saves, Lists, Awaits, StartsStop, StartsRemoval, StartsList, Publishes,
         Evicts
    <3> QED
      BY <2>1, <2>3, <3>1 DEF Spawns, Defers, ClaimsStop, Cleaned, SameLoc, SameTask
  <2> QED
    BY <2>2, <2>3
<1> QED
  BY <1>1, <1>2, HistoryGrows

\* Who took a session out of the map goes on to clean it up.
LEMMA WillCleanStep ==
  ASSUME IInv, Flow, NEW p \in Procs, EndStep(p), Others(p), NEW q \in Procs,
         NEW i \in Sids, WillClean(q, i), obj[i].status = "running"
  PROVE  WillClean(q, i)' \/ (q = p /\ obj'[i].cleaned)
<1>1. FlowOK(q)
  BY DEF Flow
<1>2. CASE q # p
  BY <1>1, <1>2, AtWork DEF Others, WillClean, FlowOK, Removers
<1>3. CASE q = p
  <2>1. CASE loc[p].sid = i /\ pc[p] \in {"wait", "waiting", "decide", "clean"}
             /\ loc[p].op \in {"delete", "reap", "shutdown"}
    <3>1. Awaits(p) \/ ClaimsEnd(p)
      BY <2>1 DEF EndStep, Elsewhere, Ending, Working, Marks, Spawns, ClaimsStop, Defers,
         Signals, Cleans, Saves, Lists, StartsStop, StartsRemoval, StartsList, Publishes,
         Evicts
    <3> QED
      BY <1>3, <2>1, <3>1 DEF WillClean, Awaits, ClaimsEnd, Cleaned, SameLoc, SameTask
  <2>2. CASE i \in loc[p].todo /\ loc[p].op = "shutdown"
    <3>1. Lists(p) \/ Awaits(p) \/ ClaimsEnd(p) \/ Cleans(p) \/ Saves(p)
      BY <1>1, <1>3, <2>2 DEF EndStep, FlowOK, Retiring, Elsewhere, Ending, Working,
         Marks, Spawns, ClaimsStop, Defers, Signals, StartsStop, StartsRemoval,
         StartsList, Publishes, Evicts
    <3>2. CASE Lists(p)
      BY <1>3, <2>2, <3>2 DEF WillClean, Lists
    <3>3. CASE Awaits(p) \/ ClaimsEnd(p) \/ Cleans(p) \/ Saves(p)
      BY <1>1, <1>3, <2>2, <3>3 DEF WillClean, FlowOK, Awaits, ClaimsEnd, Cleans, Saves,
         Onward, SameLoc, SameTask
    <3> QED
      BY <3>1, <3>2, <3>3
  <2> QED
    BY <1>3, <2>1, <2>2 DEF WillClean
<1> QED
  BY <1>2, <1>3

LEMMA LeftStep ==
  ASSUME IInv, Flow, Unmade, LeftIsCleaned, NEW p \in Procs, EndStep(p), Others(p)
  PROVE  LeftIsCleaned'
<1> SUFFICES ASSUME NEW i \in Sids, obj'[i].status = "running", i \notin sessions',
                    ~obj'[i].replaced, ~obj'[i].cleaned
             PROVE  \E q \in Procs : WillClean(q, i)'
  BY DEF LeftIsCleaned
<1>1. obj[i].status = "running" /\ ~obj[i].replaced /\ ~obj[i].cleaned
  BY HistoryGrows DEF Publishes
<1>2. CASE i \notin sessions
  <2>1. PICK q \in Procs : WillClean(q, i)
    BY <1>1, <1>2 DEF LeftIsCleaned
  <2> QED
    BY <1>1, <2>1, WillCleanStep
<1>3. CASE i \in sessions
  <2>1. StartsRemoval(p) \/ StartsList(p) \/ Lists(p)
    BY <1>1, <1>3 DEF EndStep, Elsewhere, Marks, Spawns, ClaimsStop, ClaimsEnd, Cleaned,
       Defers, Signals, Cleans, Saves, Awaits, StartsStop, Publishes, Evicts, SameMap
  <2>2. CASE StartsRemoval(p)
    BY <1>3, <2>2 DEF StartsRemoval, WillClean
  <2>3. CASE StartsList(p)
    BY <1>3, <2>3 DEF StartsList, WillClean
  <2>4. CASE Lists(p)
    BY <1>3, <2>4 DEF Lists, WillClean, Flow, FlowOK
  <2> QED
    BY <2>1, <2>2, <2>3, <2>4
<1> QED
  BY <1>2, <1>3

----------------------------------------------------------------------------
(* Containers.                                                             *)

Fewer == \A j \in Sids : Exists(j)' => Exists(j)

LEMMA FewerSame == UNCHANGED ctr => Fewer
  BY DEF Fewer, Exists

LEMMA FewerStart ==
  ASSUME SandboxTypeOK, NEW i \in Sids, StartContainer(i) \/ StopContainer(i)
  PROVE  Fewer
  BY DEF SandboxTypeOK, StartContainer, StopContainer, Fewer, Exists

LEMMA FewerRemove ==
  ASSUME SandboxTypeOK, NEW i \in Sids, RemoveContainer(i)
  PROVE  Fewer /\ ~Exists(i)'
  BY DEF SandboxTypeOK, RemoveContainer, Fewer, Exists

LEMMA FewerVolume ==
  ASSUME SandboxTypeOK, NEW w, RemoveVolume(w)
  PROVE  Fewer
<1> SUFFICES ASSUME NEW j \in Sids, ~Exists(j) PROVE ~Exists(j)'
  BY DEF Fewer
<1>1. ctr'[j] = ctr[j]
  BY DEF RemoveVolume
<1> QED
  BY <1>1 DEF Exists

LEMMA FewerBestEffort ==
  ASSUME SandboxTypeOK, ~SandboxFaults, NEW i \in Sids
  PROVE  /\ BestEffort(RemoveContainer(i), i) => Fewer /\ ~Exists(i)'
         /\ BestEffort(StopContainer(i), i) => Fewer
<1>1. UNCHANGED sandboxVars => Fewer /\ (Exists(i)' => Exists(i))
  BY DEF sandboxVars, Fewer, Exists
<1> QED
  BY <1>1, FewerStart, FewerRemove DEF BestEffort, MayFail

\* The session of a goroutine that works on a container.
LEMMA AtContainer ==
  ASSUME IInv, NEW p \in Procs, pc[p] \in Working \cup Making
  PROVE  loc[p].sid \in Sids
  BY DEF IInv, TypeOK, ProcOK, LocalOK, SidsOK

\* A container appears under a Create that has to start it.
Appears(p) ==
  /\ pc'[p] = "start"
  /\ \A j \in Sids : Exists(j)' => Exists(j) \/ j = loc'[p].sid

LEMMA ContainerSteps ==
  ASSUME IInv, ~SandboxFaults, NEW p \in Procs, Step(p)
  PROVE  /\ ~panicked /\ (Fewer \/ Appears(p))
         /\ pc[p] \in {"abort", "scrap", "discard", "remove"} =>
              \A i \in Sids : i = loc[p].sid => ~Exists(i)'
<1>1. TypeOK /\ SandboxTypeOK
  BY DEF IInv, TypeOK
<1>2. ~panicked
  BY DEF Step, Start, Run, MayCall, At, StartCreate, StartStop, StartDelete, StartRestart,
     StartReap, StartShutdown, StartRename, StartDeleteWorkspace,
     CreateReuse, CreateAdmit, CreatePrepare, CreateContainerStep, CreateStart,
     CreateSetup, CreateAttach, CreateAbort, CreateDropVolume, CreatePublish, Release,
     StopMark, StopSpawn, StopDefer, StopClaim, StopSignal, CleanCommit, CleanHalt,
     CleanRemove, SaveRecord, NextInList, WaitBegin, WaitEnd, Decide, Discard, Claim,
     RenameCheck, RenameCopy, RenameTag, RenameRollback, RenameUntag, RenameDrop, RenameMove
<1> SUFFICES /\ Fewer \/ Appears(p)
             /\ pc[p] \in {"abort", "scrap", "discard", "remove"} =>
                  \A i \in Sids : i = loc[p].sid => ~Exists(i)'
  BY <1>2
<1>3. CASE /\ UNCHANGED ctr
           /\ pc[p] \notin {"abort", "scrap", "discard", "remove"}
  BY <1>3, FewerSame
<1>4. CASE CreateContainerStep(p)
  <2>1. pc[p] = "container" /\ loc[p].sid \in Sids
    BY <1>4, AtContainer DEF CreateContainerStep, At, Making
  <2>2. ASSUME NEW w, NEW base, CreateContainer(loc[p].sid, w, base), Goto(p, "start")
        PROVE  Appears(p)
    <3>1. pc'[p] = "start" /\ loc'[p].sid = loc[p].sid
      BY <1>1, <2>2, GoLoc DEF SameLoc, SameTask
    <3> QED
      BY <1>1, <2>1, <2>2, <3>1 DEF CreateContainer, SandboxTypeOK, Appears, Exists
  <2>3. ASSUME NEW w, CreateContainerFailed(w) PROVE Fewer
    BY <2>3, FewerSame DEF CreateContainerFailed
  <2> QED
    BY <1>4, <2>1, <2>2, <2>3 DEF CreateContainerStep
<1>5. CASE CreateStart(p)
  <2>1. pc[p] = "start" /\ loc[p].sid \in Sids
    BY <1>5, AtContainer DEF CreateStart, At, Making, Creating
  <2> QED
    BY <1>1, <1>5, <2>1, FewerStart, FewerSame DEF CreateStart, sandboxVars
<1>6. CASE CreateAbort(p)
  <2>1. pc[p] \in {"abort", "scrap"} /\ loc[p].sid \in Sids
    BY <1>6, AtContainer DEF CreateAbort, At, Making, Creating
  <2>2. RemoveContainer(loc[p].sid) \/ (~Exists(loc[p].sid) /\ UNCHANGED ctr)
    BY <1>6 DEF CreateAbort, MayFail, StopContainer, sandboxVars
  <2> QED
    BY <1>1, <2>1, <2>2, FewerRemove, FewerSame DEF Fewer
<1>7. CASE CreateDropVolume(p) \/ RenameRollback(p) \/ RenameDrop(p)
  <2>1. pc[p] \in {"dropvolume", "rollback", "drop"}
    BY <1>7 DEF CreateDropVolume, RenameRollback, RenameDrop, At
  <2> QED
    BY <1>1, <1>7, <2>1, FewerVolume
       DEF CreateDropVolume, RenameRollback, RenameDrop
<1>8. CASE CreateSetup(p) \/ CreatePublish(p)
  <2>1. UNCHANGED ctr /\ pc[p] \in {"setup", "publish"}
    BY <1>8 DEF CreateSetup, CreatePublish, At, Clone, sandboxVars
  <2> QED
    BY <1>3, <2>1
<1>9. CASE CleanCommit(p)
  <2>1. UNCHANGED ctr /\ pc[p] = "commit"
    BY <1>9 DEF CleanCommit, At, BestEffort, Commit, sandboxVars
  <2> QED
    BY <1>3, <2>1
<1>10. CASE CleanHalt(p)
  <2>1. pc[p] = "halt" /\ loc[p].sid \in Sids
    BY <1>10, AtContainer DEF CleanHalt, At, Working
  <2> QED
    BY <1>1, <1>10, <2>1, FewerBestEffort DEF CleanHalt
<1>11. CASE CleanRemove(p) \/ Discard(p)
  <2>1. pc[p] \in {"remove", "discard"} /\ loc[p].sid \in Sids
    BY <1>11, AtContainer DEF CleanRemove, Discard, At, Working
  <2> QED
    BY <1>1, <1>11, <2>1, FewerBestEffort DEF CleanRemove, Discard
<1>12. CASE StartDeleteWorkspace(p)
  <2>1. pc[p] = "idle"
    BY <1>12 DEF StartDeleteWorkspace, MayCall, At
  <2> QED
    BY <1>1, <1>12, <2>1, FewerVolume DEF StartDeleteWorkspace
<1>13. CASE Run(p)
  <2>1. CASE \/ CreateReuse(p) \/ CreateAdmit(p) \/ CreatePrepare(p) \/ CreateAttach(p)
             \/ Release(p) \/ StopMark(p) \/ StopSpawn(p) \/ StopDefer(p)
             \/ StopClaim(p) \/ StopSignal(p) \/ SaveRecord(p) \/ NextInList(p)
             \/ WaitBegin(p) \/ WaitEnd(p) \/ Decide(p)
             \/ Claim(p) \/ RenameCheck(p) \/ RenameCopy(p) \/ RenameTag(p)
             \/ RenameUntag(p) \/ RenameMove(p)
    <3>1. /\ UNCHANGED ctr
          /\ pc[p] \notin {"abort", "scrap", "discard", "remove"}
      BY <2>1 DEF At, sandboxVars, CreateReuse, CreateAdmit, CreatePrepare, CreateAttach,
         Release, StopMark, StopSpawn, StopDefer, StopClaim, StopSignal, SaveRecord,
         NextInList, WaitBegin, WaitEnd, Decide, Claim, RenameCheck, RenameCopy,
         RenameTag, RenameUntag, RenameMove, CopyVolume, CopyVolumeFailed, TagImage,
         RemoveImage
    <3> QED
      BY <1>3, <3>1
  <2> QED
    BY <1>4, <1>5, <1>6, <1>7, <1>8, <1>9, <1>10, <1>11, <1>13, <2>1 DEF Run
<1>14. CASE p \in Requests /\ Start(p)
  <2>1. CASE \/ StartCreate(p) \/ StartStop(p) \/ StartDelete(p) \/ StartRestart(p)
             \/ StartReap(p) \/ StartShutdown(p) \/ StartRename(p)
    <3>1. UNCHANGED ctr /\ pc[p] = "idle"
      BY <2>1 DEF StartCreate, StartStop, StartDelete, StartRestart, StartReap,
         StartShutdown, StartRename, MayCall, At, sandboxVars
    <3> QED
      BY <1>3, <3>1
  <2> QED
    BY <1>12, <1>14, <2>1 DEF Start
<1> QED
  BY <1>13, <1>14 DEF Step

LEMMA CreatingStep ==
  ASSUME TypeOK, NEW p \in Procs, Step(p)
  PROVE  /\ pc'[p] = "dropvolume" => pc[p] = "scrap" /\ loc'[p].sid = loc[p].sid
         /\ pc[p] \in {"start", "setup", "attach"} =>
              pc'[p] \in Creating /\ loc'[p].sid = loc[p].sid
         /\ pc[p] = "publish" => CreatePublish(p)
<1>1. CASE CreateStart(p) \/ CreateSetup(p) \/ CreateAttach(p)
  <2>1. /\ pc[p] \in {"start", "setup", "attach"}
        /\ \E label \in {"setup", "abort", "attach", "scrap", "publish"} : Goto(p, label)
    BY <1>1 DEF CreateStart, CreateSetup, CreateAttach, At
  <2> QED
    BY <2>1, GoLoc DEF Creating, SameLoc, SameTask
<1>2. CASE CreateAbort(p)
  <2>1. /\ pc[p] \in {"abort", "scrap"}
        /\ Goto(p, IF pc[p] = "scrap" THEN "dropvolume" ELSE Deferred(p))
    BY <1>2 DEF CreateAbort, At
  <2>2. Deferred(p) # "dropvolume"
    BY DEF Deferred
  <2> QED
    BY <2>1, <2>2, GoLoc DEF SameLoc, SameTask
<1>3. CASE CreateDropVolume(p) \/ CreatePublish(p)
  <2>1. pc[p] \in {"dropvolume", "publish"} /\ Goto(p, Deferred(p))
    BY <1>3 DEF CreateDropVolume, CreatePublish, At
  <2>2. pc'[p] # "dropvolume"
    BY <2>1, GoLoc DEF Deferred
  <2>3. pc[p] = "publish" => CreatePublish(p)
    BY <1>3 DEF CreateDropVolume, At
  <2> QED
    BY <2>1, <2>2, <2>3
<1>4. CASE \/ CreateReuse(p) \/ CreateContainerStep(p) \/ Release(p)
  <2>1. /\ pc[p] \in {"begin", "container", "release"}
        /\ \E label \in {"done", "start", "release"} : Goto(p, label)
    BY <1>4 DEF CreateReuse, CreateContainerStep, Release, At, Deferred
  <2> QED
    BY <2>1, GoLoc
<1>5. CASE CreateAdmit(p)
  <2>1. pc[p] = "begin" /\ pc'[p] \in {"done", "prepare"}
    BY <1>5 DEF CreateAdmit, At
  <2> QED
    BY <2>1
<1>6. CASE CreatePrepare(p)
  <2>1. pc[p] = "prepare" /\ \E label \in {"container", "done", "release"} : \E l : Go(p, label, l)
    BY <1>6 DEF CreatePrepare, Goto, Deferred, At
  <2> QED
    BY <2>1, GoOthers
<1>7. CASE \/ StopMark(p) \/ StopSpawn(p) \/ StopDefer(p) \/ StopClaim(p)
           \/ StopSignal(p) \/ CleanCommit(p) \/ CleanHalt(p) \/ CleanRemove(p) \/ SaveRecord(p)
  <2>1. /\ pc[p] \in Ending
        /\ \E label \in {"spawn", "background", "claim", "signal", "commit", "halt", "save",
                         "remove", "begin", "next", "done"} : \E l : Go(p, label, l)
    BY <1>7 DEF StopMark, StopSpawn, StopDefer, StopClaim, StopSignal, CleanCommit,
       CleanHalt, CleanRemove, SaveRecord, Goto, AfterClaim, AfterClean, AfterRetire, At,
       Ending, Working
  <2> QED
    BY <2>1, GoOthers DEF Ending, Working
<1>8. CASE \/ NextInList(p) \/ WaitBegin(p) \/ WaitEnd(p) \/ Decide(p) \/ Discard(p)
           \/ Claim(p)
  <2>1. /\ pc[p] \in Ending
        /\ \E label \in {"check", "done", "next", "wait", "waiting", "discard", "decide",
                         "clean", "begin", "remove", "commit"} : \E l : Go(p, label, l)
    BY <1>8 DEF NextInList, WaitBegin, WaitEnd, Decide, Discard, Claim, Goto, AfterRetire,
       At, Ending, Working
  <2> QED
    BY <2>1, GoOthers DEF Ending, Working
<1>9. CASE \/ RenameCheck(p) \/ RenameCopy(p) \/ RenameTag(p) \/ RenameRollback(p)
           \/ RenameUntag(p) \/ RenameDrop(p) \/ RenameMove(p)
  <2>1. /\ pc[p] \in Moving
        /\ \E label \in Moving \cup {"release"} : Goto(p, label)
    BY <1>9 DEF RenameCheck, RenameCopy, RenameTag, RenameRollback, RenameUntag, RenameDrop,
       RenameMove, At, Moving
  <2> QED
    BY <2>1, GoLoc DEF Moving
<1>10. CASE p \in Requests /\ Start(p)
  <2>1. /\ pc[p] = "idle"
        /\ \E label \in {"begin", "mark", "wait", "next", "done"} : \E l : Go(p, label, l)
    BY <1>10 DEF Start, StartCreate, StartStop, StartDelete, StartRestart, StartReap,
       StartShutdown, StartRename, StartDeleteWorkspace, Goto, MayCall, At
  <2> QED
    BY <2>1, GoOthers
<1> QED
  BY <1>1, <1>2, <1>3, <1>4, <1>5, <1>6, <1>7, <1>8, <1>9, <1>10 DEF Step, Run

\* A Create whose setup failed has removed its container already.
Scrapped == \A p \in Procs : pc[p] = "dropvolume" => ~Exists(loc[p].sid)

Owned == \A i \in Sids : Exists(i) => i \in sessions \/ \E p \in Procs : WillRemove(p, i)

LEMMA ScrappedStep ==
  ASSUME IInv, IInv', ~SandboxFaults, Scrapped, NEW p \in Procs, Step(p), Others(p)
  PROVE  Scrapped'
<1>1. (Fewer \/ Appears(p)) /\ TypeOK
  BY ContainerSteps DEF IInv
<1> SUFFICES ASSUME NEW q \in Procs, pc'[q] = "dropvolume", NEW i \in Sids,
                    i = loc'[q].sid, Exists(i)'
             PROVE  FALSE
  <2>1. \A q \in Procs : pc'[q] = "dropvolume" => loc'[q].sid \in Sids
    BY DEF IInv, TypeOK, ProcOK, LocalOK, SidsOK, Making, Creating
  <2> QED
    BY <2>1 DEF Scrapped
<1>2. CASE q = p
  <2>1. pc[p] = "scrap" /\ i = loc[p].sid
    BY <1>1, <1>2, CreatingStep
  <2> QED
    BY <2>1, ContainerSteps
<1>3. CASE q # p
  <2>1. pc[q] = "dropvolume" /\ loc[q].sid = i
    BY <1>3 DEF Others
  <2>2. ~Exists(i)
    BY <2>1 DEF Scrapped
  <2>3. Appears(p) /\ loc'[p].sid = i
    BY <1>1, <2>2 DEF Fewer, Appears
  <2> QED
    BY <1>3, <2>3 DEF Appears, IInv, OneMaker, Making, Creating
<1> QED
  BY <1>2, <1>3

\* Who has to remove a container still has to, unless it is gone.
LEMMA RemoverStep ==
  ASSUME IInv, ~SandboxFaults, Flow, Scrapped, NEW p \in Procs, Step(p), EndStep(p), Others(p),
         NEW q \in Procs, NEW i \in Sids, WillRemove(q, i), Exists(i), Exists(i)'
  PROVE  WillRemove(q, i)' \/ i \in sessions'
<1>1. FlowOK(q) /\ TypeOK
  BY DEF Flow, IInv
<1>2. CASE q # p
  <2>1. q \in sessions => loc[q].op = "evict"
    BY AtWork
  <2>2. \/ pc'[q] = pc[q] /\ loc'[q] = loc[q]
        \/ loc[q].op = "evict" /\ pc'[q] = "wait" /\ loc'[q] = loc[q]
    BY <1>2, <2>1 DEF Others
  <2> QED
    BY <2>2 DEF WillRemove, Retiring
<1>3. CASE q = p /\ loc[p].sid = i /\ pc[p] \in Creating
  <2>1. pc[p] \notin {"abort", "scrap", "dropvolume"}
    BY <1>3, ContainerSteps DEF Scrapped
  <2>2. CASE pc[p] = "publish"
    <3>1. CreatePublish(p)
      BY <1>1, <2>2, CreatingStep
    <3> QED
      BY <1>3, <3>1 DEF CreatePublish
  <2> QED
    BY <1>1, <1>3, <2>1, <2>2, CreatingStep DEF WillRemove, Creating
<1>4. CASE q = p /\ loc[p].sid = i /\ pc[p] \in Retiring /\ loc[p].op \notin {"stop", "rename"}
  <2>1. pc[p] \notin {"discard", "remove"}
    BY <1>4, ContainerSteps
  <2>2. ClaimsEnd(p) \/ Cleans(p) \/ Awaits(p)
    BY <1>4, <2>1 DEF EndStep, Retiring, Elsewhere, Ending, Working, Marks, Spawns,
       ClaimsStop, Defers, Signals, Saves, Lists, StartsStop, StartsRemoval, StartsList,
       Publishes, Evicts
  <2> QED
    BY <1>4, <2>1, <2>2 DEF WillRemove, Retiring, ClaimsEnd, Cleans, Awaits, SameLoc,
       SameTask
<1>5. CASE q = p /\ i \in loc[p].todo /\ loc[p].op = "shutdown"
  <2>1. Lists(p) \/ Awaits(p) \/ ClaimsEnd(p) \/ Cleans(p) \/ Saves(p)
    BY <1>1, <1>5 DEF EndStep, FlowOK, Retiring, Elsewhere, Ending, Working, Marks,
       Spawns, ClaimsStop, Defers, Signals, StartsStop, StartsRemoval, StartsList,
       Publishes, Evicts
  <2>2. CASE Lists(p)
    BY <1>5, <2>2 DEF WillRemove, Retiring, Lists
  <2>3. CASE Awaits(p) \/ ClaimsEnd(p) \/ Cleans(p) \/ Saves(p)
    BY <1>1, <1>5, <2>3 DEF WillRemove, FlowOK, Awaits, ClaimsEnd, Cleans, Saves,
       Onward, SameLoc, SameTask
  <2> QED
    BY <2>1, <2>2, <2>3
<1> QED
  BY <1>2, <1>3, <1>4, <1>5 DEF WillRemove

LEMMA OwnedStep ==
  ASSUME IInv, ~SandboxFaults, Flow, Scrapped, Owned, NEW p \in Procs, Step(p), EndStep(p),
         Others(p)
  PROVE  Owned'
<1> SUFFICES ASSUME NEW i \in Sids, Exists(i)', i \notin sessions'
             PROVE  \E q \in Procs : WillRemove(q, i)'
  BY DEF Owned
<1>1. CASE ~Exists(i)
  <2>1. Appears(p) /\ i = loc'[p].sid
    BY <1>1, ContainerSteps DEF Fewer, Appears
  <2> QED
    BY <2>1 DEF Appears, WillRemove, Creating
<1>2. CASE Exists(i) /\ i \notin sessions
  BY <1>2, RemoverStep DEF Owned
<1>3. CASE i \in sessions
  <2>1. StartsRemoval(p) \/ StartsList(p) \/ Lists(p) \/ Evicts(p)
    BY <1>3 DEF EndStep, Elsewhere, Marks, Spawns, ClaimsStop, ClaimsEnd, Cleaned,
       Defers, Signals, Cleans, Saves, Awaits, StartsStop, Publishes, SameMap
  <2>2. CASE StartsRemoval(p)
    BY <1>3, <2>2 DEF StartsRemoval, WillRemove, Retiring
  <2>3. CASE StartsList(p)
    BY <1>3, <2>3 DEF StartsList, WillRemove
  <2>4. CASE Lists(p)
    BY <1>3, <2>4 DEF Lists, WillRemove, Retiring, Flow, FlowOK
  <2>5. CASE Evicts(p)
    <3>1. pc'[i] = "wait" /\ i # p /\ i \in Procs
      BY <1>3, <2>5 DEF Evicts, Procs
    <3>2. loc'[i] = loc[i] /\ loc[i].op = "evict" /\ loc[i].sid = i
      BY <1>3, <3>1, AtWork DEF Others
    <3> QED
      BY <3>1, <3>2 DEF WillRemove, Retiring
  <2> QED
    BY <2>1, <2>2, <2>3, <2>4, <2>5
<1> QED
  BY <1>1, <1>2, <1>3

----------------------------------------------------------------------------
(* Files.                                                                  *)

\* What a goroutine was asked for.
Asks(l) ==
  /\ l.op \in {"create", "restart"} => l.ws \in Names
  /\ l.op = "rename" => l.ws # l.new

\* The files of u are on w as well, but for what was written after the copy;
\* w has the files of u only, and no container.
Moved(u, w) == \A i \in Sids : i \in data[u] /\ i \notin data[w] => obj[i].late
Fresh(u, w) == \A i \in Sids : /\ i \in data[w] => i \in data[u]
                               /\ Exists(i) => w \notin ctr[i].vol

\* The guard a Create holds on its workspace and the container it made on the
\* volume; the volumes that a rename works on.
Works(p, label, l) ==
  /\ label \in {"begin"} \cup Admitted => l.op \in {"create", "restart"}
  /\ label \in Admitted => l.held = {l.ws}
  /\ label \in Creating => ctr[l.sid].vol = {l.ws}
  /\ label = "copy" => l.new \notin volumes
  /\ label \in {"tag", "untag", "drop"} => Moved(l.ws, l.new)
  /\ label \in {"tag", "rollback"} => Fresh(l.ws, l.new)

FilesOK(p) == Asks(loc[p]) /\ Works(p, pc[p], loc[p])

\* Files are on volumes, and a container's volume is there as long as it is.
VolumesOK ==
  /\ \A w \in Names : w \notin volumes => data[w] = {}
  /\ \A i \in Sids : Exists(i) => ctr[i].vol \subseteq volumes

\* Only a session that was entered in the map has work done in it.
Early == \A i \in Sids : obj[i].status = "none" => ~obj[i].late

FilesInv ==
  /\ VolumesOK
  /\ Early
  /\ \A p \in Procs : FilesOK(p)

\* What a step may do to the files of others: nothing to the volumes whose
\* names the goroutine does not hold, nor to the containers of other Creates.
Touches(p) ==
  /\ \A w \in Names \ loc[p].held :
       data'[w] = data[w] /\ (w \in volumes' => w \in volumes)
  /\ \A j \in Sids : obj[j].status = "none" /\ ~(pc[p] \in Making /\ j = loc[p].sid) =>
       ctr'[j].vol = ctr[j].vol
  /\ \A j \in Sids : Exists(j)' =>
       (Exists(j) /\ ctr'[j].vol = ctr[j].vol) \/ ctr'[j].vol \subseteq loc[p].held

\* What leaves a volume is on another one, was written after a rename copied
\* it, or goes with the volume of a Create whose setup has failed.
NoneLost ==
  \A w \in Names : \A i \in data[w] \ data'[w] :
    \/ \E v \in Names : i \in data'[v]
    \/ obj[i].late
    \/ \E p \in Procs : pc[p] = "dropvolume" /\ pc'[p] # pc[p] /\ loc[p].ws = w

\* What was late stays so.
LateKept == \A i \in Sids : obj[i].late => obj'[i].late

SameFiles == UNCHANGED <<ctr, volumes, data>>

\* All of it.
FileStep(p) == FilesOK(p)' /\ Touches(p) /\ VolumesOK' /\ NoneLost

LEMMA FilesSame ==
  ASSUME VolumesOK, NEW p, SameFiles
  PROVE  Touches(p) /\ VolumesOK' /\ NoneLost
  BY DEF SameFiles, VolumesOK, Touches, NoneLost, Exists

\* A container that is started, stopped or removed.
LEMMA FilesContainer ==
  ASSUME SandboxTypeOK, VolumesOK, NEW p, NEW i \in Sids,
         StartContainer(i) \/ StopContainer(i) \/ RemoveContainer(i),
         obj[i].status # "none" \/ (pc[p] \in Making /\ i = loc[p].sid)
  PROVE  /\ Touches(p) /\ VolumesOK' /\ NoneLost
         /\ ctr'[i].vol = ctr[i].vol /\ UNCHANGED <<data, volumes>>
<1>1. UNCHANGED <<data, volumes>>
  BY DEF StartContainer, StopContainer, RemoveContainer
<1>2. PICK s \in {"running", "exited", "removed"} :
        Exists(i) /\ ctr' = [ctr EXCEPT ![i].state = s]
  BY DEF StartContainer, StopContainer, RemoveContainer
<1> DEFINE t == [ctr[i] EXCEPT !.state = s]
<1>3. t.vol = ctr[i].vol /\ t.state = s
  BY DEF SandboxTypeOK
<1>4. ctr' = [ctr EXCEPT ![i] = t]
  BY <1>2
<1> HIDE DEF t
<1>5. \A j \in Sids : /\ ctr'[j].vol = ctr[j].vol
                      /\ j # i => ctr'[j] = ctr[j]
                      /\ j = i => ctr'[j].state = s
  BY <1>3, <1>4 DEF SandboxTypeOK
<1>6. Touches(p)
  BY <1>1, <1>2, <1>5 DEF Touches, Exists
<1>7. VolumesOK'
  BY <1>1, <1>2, <1>5 DEF VolumesOK, Exists
<1> QED
  BY <1>1, <1>5, <1>6, <1>7 DEF NoneLost

\* A Create's container.
LEMMA FilesCreation ==
  ASSUME SandboxTypeOK, VolumesOK, NEW p, NEW i \in Sids, NEW w \in Names, NEW base,
         CreateContainer(i, w, base), pc[p] \in Making, i = loc[p].sid, w \in loc[p].held
  PROVE  /\ Touches(p) /\ VolumesOK' /\ NoneLost
         /\ ctr'[i].vol = {w}
<1>1. data' = data /\ volumes' = volumes \cup {w}
  BY DEF CreateContainer
<1>2. \A j \in Sids : ctr'[j] = IF j = i THEN [state |-> "created", vol |-> {w}, env |-> base]
                                ELSE ctr[j]
  BY DEF CreateContainer, SandboxTypeOK
<1> QED
  BY <1>1, <1>2 DEF Touches, VolumesOK, NoneLost, Exists

\* A clone writes on the volume of a container.
LEMMA FilesClone ==
  ASSUME SandboxTypeOK, VolumesOK, NEW p, NEW i \in Sids, Clone(i), Exists(i),
         ctr[i].vol \subseteq loc[p].held
  PROVE  Touches(p) /\ VolumesOK' /\ NoneLost /\ ctr' = ctr
<1>1. ctr' = ctr /\ volumes' = volumes
  BY DEF Clone
<1>2. \A w \in Names : /\ data[w] \subseteq data'[w]
                       /\ w \notin ctr[i].vol => data'[w] = data[w]
  BY DEF Clone
<1>3. Touches(p)
  BY <1>1, <1>2 DEF Touches, Exists
<1>4. VolumesOK'
  BY <1>1, <1>2 DEF VolumesOK, Exists
<1> QED
  BY <1>1, <1>2, <1>3, <1>4 DEF NoneLost

\* A volume is removed with its files and containers.
LEMMA FilesRemoval ==
  ASSUME SandboxTypeOK, VolumesOK, NEW p, NEW w \in Names, RemoveVolume(w), w \in loc[p].held
  PROVE  /\ Touches(p) /\ VolumesOK'
         /\ \A v \in Names : data'[v] = IF v = w THEN {} ELSE data[v]
         /\ \A j \in Sids : ctr'[j].vol = ctr[j].vol
<1>1. volumes' = volumes \ {w} /\ \A v \in Names : data'[v] = IF v = w THEN {} ELSE data[v]
  BY DEF RemoveVolume, SandboxTypeOK
<1>2. ASSUME NEW j \in Sids
      PROVE  /\ ctr'[j].vol = ctr[j].vol
             /\ IF w \in ctr[j].vol /\ Exists(j) THEN ctr'[j].state = "removed"
                                                 ELSE ctr'[j] = ctr[j]
  <2>1. ctr[j] \in [state : CtrStates, vol : SUBSET Names, env : SUBSET Sids]
    BY DEF SandboxTypeOK
  <2> DEFINE t == [ctr[j] EXCEPT !.state = "removed"]
  <2>2. t.vol = ctr[j].vol /\ t.state = "removed"
    BY <2>1
  <2>3. ctr'[j] = IF w \in ctr[j].vol /\ Exists(j) THEN t ELSE ctr[j]
    BY DEF RemoveVolume
  <2> HIDE DEF t
  <2> QED
    BY <2>2, <2>3
<1>3. Touches(p)
  BY <1>1, <1>2 DEF Touches, Exists
<1>4. VolumesOK'
  BY <1>1, <1>2 DEF VolumesOK, Exists
<1> QED
  BY <1>1, <1>2, <1>3, <1>4

\* A rename copies a volume, or fails to.
LEMMA FilesCopy ==
  ASSUME SandboxTypeOK, VolumesOK, NEW p, NEW u \in Names, NEW w \in Names, u # w,
         CopyVolume(u, w) \/ CopyVolumeFailed(w), w \notin volumes,
         u \in loc[p].held, w \in loc[p].held
  PROVE  /\ Touches(p) /\ VolumesOK' /\ NoneLost
         /\ CopyVolume(u, w) => /\ data'[w] = data'[u]
                               /\ \A j \in Sids : Exists(j)' => w \notin ctr'[j].vol
<1>1. ctr' = ctr /\ data[w] = {}
  BY DEF CopyVolume, CopyVolumeFailed, VolumesOK
<1>2. /\ volumes \subseteq volumes' /\ volumes' \subseteq volumes \cup {u, w}
      /\ \A v \in Names \ {w} : data'[v] = data[v]
      /\ w \notin volumes' => data'[w] = {}
      /\ CopyVolume(u, w) => data'[w] = data[u]
  BY <1>1 DEF CopyVolume, CopyVolumeFailed, SandboxTypeOK
<1>3. Touches(p)
  BY <1>1, <1>2 DEF Touches, Exists
<1>4. VolumesOK'
  BY <1>1, <1>2 DEF VolumesOK, Exists
<1>5. NoneLost
  BY <1>1, <1>2 DEF NoneLost
<1>6. \A j \in Sids : Exists(j)' => w \notin ctr'[j].vol
  BY <1>1 DEF VolumesOK, Exists
<1> QED
  BY <1>2, <1>3, <1>4, <1>5, <1>6

\* What the code does not keep files from: a Create that names no workspace
\* holds no guard, and DeleteWorkspace is there to delete.
CallsKeepFiles ==
  NoWs \notin Asked /\ \A p \in Requests : "deletews" \notin Calls[p]

LEMMA GoKeeps ==
  ASSUME TypeOK, NEW p \in Procs, NEW label, Goto(p, label)
  PROVE  pc'[p] = label /\ loc'[p] = IF label = "done" THEN Blank(p) ELSE loc[p]
  BY GoOthers DEF Goto

LEMMA BlankAsks == \A p \in Procs : Asks(Blank(p))
  BY DEF Blank, Asks

\* Nothing is relied on at the other control points.
Relied == {"begin", "copy", "tag", "untag", "drop", "rollback"} \cup Admitted

LEMMA FilesElsewhere ==
  ASSUME FilesInv, NEW p \in Procs, pc'[p] \notin Relied, Asks(loc'[p])
  PROVE  FilesOK(p)'
  BY DEF FilesOK, Asks, Works, Relied, Admitted, Making, Creating

\* The guard that a process holds while it works on volumes.
LEMMA FilesFacts ==
  ASSUME IInv, FilesInv, NEW p \in Procs
  PROVE  /\ TypeOK /\ SandboxTypeOK /\ VolumesOK /\ Asks(loc[p]) /\ Works(p, pc[p], loc[p])
         /\ pc[p] \in Making => /\ loc[p].sid \in Sids /\ loc[p].ws \in Names
                                /\ loc[p].held = {loc[p].ws} /\ obj[loc[p].sid].status = "none"
         /\ pc[p] \in Moving => /\ loc[p].ws \in Names /\ loc[p].new \in Names
                                /\ loc[p].held = {loc[p].ws, loc[p].new}
                                /\ loc[p].ws # loc[p].new
  BY DEF IInv, TypeOK, FilesInv, FilesOK, Asks, Works, ProcOK, LocalOK, SidsOK, HeldOK,
     KindOK, Admitted, Making, Renaming, Moving

\* The steps that leave the files alone and lead where nothing is relied on.
LEMMA FilesPlain ==
  ASSUME IInv, FilesInv, NEW p \in Procs, SameFiles,
         NEW label, Goto(p, label), label \notin Relied
  PROVE  FileStep(p)
<1>1. TypeOK /\ VolumesOK /\ Asks(loc[p])
  BY FilesFacts
<1>2. pc'[p] = label /\ loc'[p] = IF label = "done" THEN Blank(p) ELSE loc[p]
  BY <1>1, GoKeeps
<1>3. FilesOK(p)'
  BY <1>1, <1>2, BlankAsks, FilesElsewhere
<1> QED
  BY <1>1, <1>3, FilesSame DEF FileStep

LEMMA FilesPlainSteps ==
  ASSUME IInv, FilesInv, NEW p \in Procs,
         \/ CreateReuse(p) \/ Release(p) \/ StopMark(p) \/ StopSpawn(p) \/ StopClaim(p)
         \/ StopSignal(p) \/ CleanCommit(p) \/ (SaveRecord(p) /\ loc[p].op # "restart")
         \/ WaitEnd(p) \/ Decide(p) \/ Claim(p) \/ RenameMove(p)
  PROVE  FileStep(p)
<1>1. SameFiles
  BY DEF SameFiles, sandboxVars, CreateReuse, Release, StopMark, StopSpawn, StopClaim,
     StopSignal, CleanCommit, BestEffort, Commit, SaveRecord, WaitEnd, Decide, Claim,
     RenameMove
<1>2. \E label \in {"done", "spawn", "background", "halt", "signal", "next", "discard", "decide",
                    "clean", "remove", "commit", "release"} : Goto(p, label)
  BY DEF CreateReuse, Release, StopMark, StopSpawn, StopClaim, StopSignal, CleanCommit,
     SaveRecord, AfterClaim, AfterRetire, WaitEnd, Decide, Claim, RenameMove
<1> QED
  BY <1>1, <1>2, FilesPlain DEF Relied, Admitted, Making, Creating

\* The steps on the container of a published session.
LEMMA FilesEndSteps ==
  ASSUME IInv, FilesInv, NEW p \in Procs, CleanHalt(p) \/ CleanRemove(p) \/ Discard(p)
  PROVE  FileStep(p)
<1>1. TypeOK /\ SandboxTypeOK /\ VolumesOK /\ Asks(loc[p])
  BY FilesFacts
<1>2. loc[p].sid \in Sids /\ obj[loc[p].sid].status # "none"
  BY AtWork DEF CleanHalt, CleanRemove, Discard, At, Working
<1>3. SameFiles \/ StopContainer(loc[p].sid) \/ RemoveContainer(loc[p].sid)
  BY DEF CleanHalt, CleanRemove, Discard, BestEffort, sandboxVars, SameFiles
<1>4. Touches(p) /\ VolumesOK' /\ NoneLost
  BY <1>1, <1>2, <1>3, FilesSame, FilesContainer
<1>5. \E label \in {"save", "remove", "begin", "next", "done"} :
        Goto(p, label) /\ (label = "begin" => loc[p].op = "restart")
  BY DEF CleanHalt, CleanRemove, AfterClean, Discard, AfterRetire
<1>6. \/ pc'[p] \notin Relied /\ loc'[p] \in {loc[p], Blank(p)}
      \/ pc'[p] = "begin" /\ loc'[p] = loc[p] /\ loc[p].op = "restart"
  BY <1>1, <1>5, GoKeeps DEF Relied, Admitted, Making, Creating
<1>7. FilesOK(p)'
  <2>1. CASE pc'[p] \notin Relied
    BY <1>1, <1>6, <2>1, BlankAsks, FilesElsewhere
  <2>2. CASE pc'[p] = "begin" /\ loc'[p] = loc[p] /\ loc[p].op = "restart"
    BY <1>1, <2>2 DEF FilesOK, Asks, Works, Admitted, Making, Creating
  <2> QED
    BY <1>6, <2>1, <2>2
<1> QED
  BY <1>4, <1>7 DEF FileStep

\* The steps that change the locals.
LEMMA FilesLocalSteps ==
  ASSUME IInv, FilesInv, NEW p \in Procs, StopDefer(p) \/ WaitBegin(p) \/ NextInList(p)
  PROVE  FileStep(p)
<1>1. TypeOK /\ VolumesOK /\ Asks(loc[p]) /\ loc[p] \in Locals
  BY FilesFacts DEF TypeOK
<1>2. SameFiles
  BY DEF SameFiles, sandboxVars, StopDefer, WaitBegin, NextInList
<1>3. ASSUME NEW label, NEW l, Go(p, label, l), label \notin Relied,
             l.op = loc[p].op, l.ws = loc[p].ws, l.new = loc[p].new
      PROVE  FileStep(p)
  <2>1. Asks(l)
    BY <1>1, <1>3 DEF Asks
  <2>2. pc'[p] = label /\ loc'[p] = IF label = "done" THEN Blank(p) ELSE l
    BY <1>1, <1>3, GoOthers
  <2>3. FilesOK(p)'
    BY <1>3, <2>1, <2>2, BlankAsks, FilesElsewhere
  <2> QED
    BY <1>1, <1>2, <2>3, FilesSame DEF FileStep
<1>4. CASE StopDefer(p)
  <2> DEFINE l == [loc[p] EXCEPT !.ch = obj[loc[p].sid].stopDone]
  <2>1. l.op = loc[p].op /\ l.ws = loc[p].ws /\ l.new = loc[p].new
    BY <1>1 DEF Locals
  <2>2. Go(p, "claim", l)
    BY <1>4 DEF StopDefer
  <2> HIDE DEF l
  <2> QED
    BY <1>3, <2>1, <2>2 DEF Relied, Admitted, Making, Creating
<1>5. CASE WaitBegin(p)
  <2> DEFINE l == [loc[p] EXCEPT !.ch = obj[loc[p].sid].stopDone]
  <2>1. l.op = loc[p].op /\ l.ws = loc[p].ws /\ l.new = loc[p].new
    BY <1>1 DEF Locals
  <2>2. Go(p, "waiting", l)
    BY <1>5 DEF WaitBegin
  <2> HIDE DEF l
  <2> QED
    BY <1>3, <2>1, <2>2 DEF Relied, Admitted, Making, Creating
<1>6. CASE NextInList(p)
  <2>1. CASE \E label \in {"check", "done"} : Goto(p, label)
    BY <1>2, <2>1, FilesPlain DEF Relied, Admitted, Making, Creating
  <2>2. ASSUME NEW i, NEW label \in {"next", "wait"},
               Go(p, label, [loc[p] EXCEPT !.sid = i, !.todo = @ \ {i}])
        PROVE  FileStep(p)
    <3> DEFINE l == [loc[p] EXCEPT !.sid = i, !.todo = @ \ {i}]
    <3>1. l.op = loc[p].op /\ l.ws = loc[p].ws /\ l.new = loc[p].new
      BY <1>1 DEF Locals
    <3>2. Go(p, label, l)
      BY <2>2
    <3> HIDE DEF l
    <3> QED
      BY <1>3, <3>1, <3>2 DEF Relied, Admitted, Making, Creating
  <2> QED
    BY <1>6, <2>1, <2>2 DEF NextInList
<1> QED
  BY <1>4, <1>5, <1>6

\* The locked section and the preparation of a Create.
LEMMA FilesAdmitSteps ==
  ASSUME IInv, FilesInv, NEW p \in Procs, CreateAdmit(p) \/ CreatePrepare(p)
  PROVE  FileStep(p)
<1>1. /\ TypeOK /\ VolumesOK /\ Asks(loc[p]) /\ Works(p, pc[p], loc[p]) /\ loc[p] \in Locals
      /\ Touches(p) /\ VolumesOK' /\ NoneLost
  <2>1. SameFiles
    BY DEF SameFiles, sandboxVars, CreateAdmit, CreatePrepare
  <2> QED
    BY <2>1, FilesFacts, FilesSame DEF TypeOK
<1>2. pc[p] \in {"begin", "prepare"}
  BY DEF CreateAdmit, CreatePrepare, At
<1>3. loc[p].op \in {"create", "restart"} /\ loc[p].ws \in Names /\ loc[p].ws # NoWs
  BY <1>1, <1>2, ConstantsAssumption DEF Works, Asks, Admitted, Making
<1>4. ASSUME NEW l, loc'[p] = l, pc'[p] \in {"prepare", "container"}, l.held = {l.ws},
             l.op = loc[p].op, l.ws = loc[p].ws, l.new = loc[p].new
      PROVE  FilesOK(p)'
  <2>1. Asks(loc'[p])
    BY <1>1, <1>4 DEF Asks
  <2>2. Works(p, pc[p], loc[p])'
    BY <1>3, <1>4 DEF Works, Admitted, Making, Creating
  <2> QED
    BY <2>1, <2>2 DEF FilesOK
<1>5. ASSUME loc'[p] \in {loc[p], Blank(p)}, pc'[p] \in {"done", "release"} PROVE FilesOK(p)'
  BY <1>1, <1>5, BlankAsks, FilesElsewhere DEF Relied, Admitted, Making, Creating
<1>6. CASE CreateAdmit(p)
  <2>1. PICK out :
          /\ pc'[p] = IF Refused(loc[p].ws, out) THEN "done" ELSE "prepare"
          /\ loc' = [loc EXCEPT ![p] =
                       IF Refused(loc[p].ws, out) THEN Blank(p)
                       ELSE [loc[p] EXCEPT !.held = Taken(loc[p].ws, out)]]
    BY <1>6 DEF CreateAdmit
  <2> DEFINE l == [loc[p] EXCEPT !.held = Taken(loc[p].ws, out)]
  <2>2. /\ l.op = loc[p].op /\ l.ws = loc[p].ws /\ l.new = loc[p].new
        /\ l.held = Taken(loc[p].ws, out)
    BY <1>1 DEF Locals
  <2>3. loc'[p] = IF Refused(loc[p].ws, out) THEN Blank(p) ELSE l
    BY <1>1, <2>1 DEF TypeOK
  <2> HIDE DEF l
  <2>4. ~Refused(loc[p].ws, out) => l.held = {l.ws}
    BY <1>3, <2>2 DEF Taken
  <2>5. FilesOK(p)'
    BY <1>4, <1>5, <2>1, <2>2, <2>3, <2>4
  <2> QED
    BY <1>1, <2>5 DEF FileStep
<1>7. CASE CreatePrepare(p)
  <2>1. loc[p].held = {loc[p].ws}
    BY <1>1, <1>7 DEF Works, Admitted, CreatePrepare, At
  <2>2. CASE Goto(p, Deferred(p))
    <3>1. FilesOK(p)'
      BY <1>1, <1>5, <2>2, GoKeeps DEF Deferred
    <3> QED
      BY <1>1, <3>1 DEF FileStep
  <2>3. ASSUME NEW i, NEW b,
               Go(p, "container", [loc[p] EXCEPT !.ws = loc[p].ws, !.sid = i, !.img = b])
        PROVE  FileStep(p)
    <3> DEFINE l == [loc[p] EXCEPT !.ws = loc[p].ws, !.sid = i, !.img = b]
    <3>1. /\ l.op = loc[p].op /\ l.ws = loc[p].ws /\ l.new = loc[p].new
          /\ l.held = loc[p].held
      BY <1>1 DEF Locals
    <3>2. pc'[p] = "container" /\ loc'[p] = l
      BY <1>1, <2>3, GoOthers
    <3> HIDE DEF l
    <3>3. FilesOK(p)'
      BY <1>4, <2>1, <3>1, <3>2
    <3> QED
      BY <1>1, <3>3 DEF FileStep
  <2> QED
    BY <1>3, <1>7, <2>2, <2>3 DEF CreatePrepare
<1> QED
  BY <1>6, <1>7

\* Where a Create goes on with the volume it holds.
LEMMA FilesCreating ==
  ASSUME IInv, FilesInv, NEW p \in Procs, pc[p] \in Making,
         NEW label, Goto(p, label), label \in Creating \cup {"done", "release"},
         label \in Creating => ctr'[loc[p].sid].vol = {loc[p].ws}
  PROVE  FilesOK(p)'
<1>1. /\ TypeOK /\ Asks(loc[p]) /\ Works(p, pc[p], loc[p])
      /\ loc[p].held = {loc[p].ws} /\ loc[p].sid \in Sids
  BY FilesFacts
<1>2. pc'[p] = label /\ loc'[p] = IF label = "done" THEN Blank(p) ELSE loc[p]
  BY <1>1, GoKeeps
<1>3. CASE label \in {"done", "release"}
  BY <1>1, <1>2, <1>3, BlankAsks, FilesElsewhere DEF Relied, Admitted, Making, Creating
<1>4. CASE label \in Creating
  <2>1. loc'[p] = loc[p] /\ pc'[p] = label
    BY <1>2, <1>4 DEF Creating
  <2>2. Works(p, pc[p], loc[p])'
    BY <1>1, <1>4, <2>1 DEF Works, Admitted, Making, Creating
  <2> QED
    BY <1>1, <2>1, <2>2 DEF FilesOK
<1> QED
  BY <1>3, <1>4

LEMMA FilesContainerStep ==
  ASSUME IInv, FilesInv, NEW p \in Procs, CreateContainerStep(p)
  PROVE  FileStep(p)
<1>1. pc[p] \in Making
  BY DEF CreateContainerStep, At, Making
<1>2. /\ SandboxTypeOK /\ VolumesOK /\ loc[p].held = {loc[p].ws}
      /\ loc[p].sid \in Sids /\ loc[p].ws \in Names
  BY <1>1, FilesFacts
<1>3. ASSUME NEW base, CreateContainer(loc[p].sid, loc[p].ws, base), Goto(p, "start")
      PROVE  FileStep(p)
  <2>1. /\ Touches(p) /\ VolumesOK' /\ NoneLost
        /\ \A i \in Sids : i = loc[p].sid => ctr'[i].vol = {loc[p].ws}
    BY <1>1, <1>2, <1>3, FilesCreation
  <2>2. FilesOK(p)'
    BY <1>1, <1>2, <1>3, <2>1, FilesCreating DEF Creating
  <2> QED
    BY <2>1, <2>2 DEF FileStep
<1>4. ASSUME CreateContainerFailed(loc[p].ws), Goto(p, Deferred(p)) PROVE FileStep(p)
  <2>1. /\ ctr' = ctr /\ data' = data
        /\ volumes \subseteq volumes' /\ volumes' \subseteq volumes \cup {loc[p].ws}
    BY <1>4 DEF CreateContainerFailed
  <2>2. Touches(p) /\ VolumesOK' /\ NoneLost
    BY <1>2, <2>1 DEF Touches, VolumesOK, NoneLost, Exists
  <2>3. FilesOK(p)'
    BY <1>1, <1>2, <1>4, FilesCreating DEF Deferred, Creating
  <2> QED
    BY <2>2, <2>3 DEF FileStep
<1> QED
  BY <1>3, <1>4 DEF CreateContainerStep

LEMMA FilesCreateSteps ==
  ASSUME IInv, FilesInv, NEW p \in Procs,
         CreateStart(p) \/ CreateSetup(p) \/ CreateAttach(p) \/ CreateAbort(p)
  PROVE  FileStep(p)
<1>1. pc[p] \in {"start", "setup", "attach", "abort", "scrap"}
  BY DEF CreateStart, CreateSetup, CreateAttach, CreateAbort, At
<1>2. /\ TypeOK /\ SandboxTypeOK /\ VolumesOK /\ Asks(loc[p]) /\ Works(p, pc[p], loc[p])
      /\ loc[p].held = {loc[p].ws} /\ loc[p].sid \in Sids /\ loc[p].ws \in Names
      /\ ctr[loc[p].sid].vol = {loc[p].ws} /\ pc[p] \in Making
  BY <1>1, FilesFacts DEF Making, Creating, Works
<1>3. /\ Touches(p) /\ VolumesOK' /\ NoneLost /\ ctr'[loc[p].sid].vol = {loc[p].ws}
  <2>1. \/ SameFiles \/ (Clone(loc[p].sid) /\ Exists(loc[p].sid))
        \/ StartContainer(loc[p].sid) \/ StopContainer(loc[p].sid)
        \/ RemoveContainer(loc[p].sid)
    BY DEF CreateStart, CreateSetup, CreateAttach, CreateAbort, SameFiles, sandboxVars
  <2>2. CASE SameFiles
    BY <1>2, <2>2, FilesSame DEF SameFiles
  <2>3. CASE Clone(loc[p].sid) /\ Exists(loc[p].sid)
    BY <1>2, <2>3, FilesClone
  <2>4. CASE \/ StartContainer(loc[p].sid) \/ StopContainer(loc[p].sid)
             \/ RemoveContainer(loc[p].sid)
    BY <1>2, <2>4, FilesContainer
  <2> QED
    BY <2>1, <2>2, <2>3, <2>4
<1>4. \E label \in Creating \cup {"done", "release"} : Goto(p, label)
  BY DEF CreateStart, CreateSetup, CreateAttach, CreateAbort, Deferred, Creating
<1>5. FilesOK(p)'
  BY <1>2, <1>3, <1>4, FilesCreating
<1> QED
  BY <1>3, <1>5 DEF FileStep

LEMMA FilesLastSteps ==
  ASSUME IInv, FilesInv, NEW p \in Procs, CreateDropVolume(p) \/ CreatePublish(p)
  PROVE  FileStep(p)
<1>1. pc[p] \in {"dropvolume", "publish"} /\ Goto(p, Deferred(p))
  BY DEF CreateDropVolume, CreatePublish, At
<1>2. /\ SandboxTypeOK /\ VolumesOK /\ Works(p, pc[p], loc[p])
      /\ loc[p].held = {loc[p].ws} /\ loc[p].sid \in Sids /\ loc[p].ws \in Names
      /\ ctr[loc[p].sid].vol = {loc[p].ws} /\ pc[p] \in Making
  BY <1>1, FilesFacts DEF Making, Creating, Works
<1>3. FilesOK(p)'
  BY <1>1, <1>2, FilesCreating DEF Deferred, Creating
<1>4. CASE CreatePublish(p)
  <2>1. SameFiles
    BY <1>4 DEF CreatePublish, SameFiles, sandboxVars
  <2> QED
    BY <1>2, <1>3, <2>1, FilesSame DEF FileStep
<1>5. CASE CreateDropVolume(p)
  <2>1. pc[p] = "dropvolume" /\ pc'[p] # pc[p]
    <3>1. TypeOK /\ pc[p] = "dropvolume"
      BY <1>5 DEF IInv, CreateDropVolume, At
    <3> QED
      BY <1>1, <3>1, GoKeeps DEF Deferred
  <2>2. CASE RemoveVolume(loc[p].ws)
    <3>1. /\ Touches(p) /\ VolumesOK'
          /\ \A v \in Names : data'[v] = IF v = loc[p].ws THEN {} ELSE data[v]
      BY <1>2, <2>2, FilesRemoval
    <3>2. NoneLost
      BY <2>1, <3>1 DEF NoneLost
    <3> QED
      BY <1>3, <3>1, <3>2 DEF FileStep
  <2>3. CASE SameFiles
    BY <1>2, <1>3, <2>3, FilesSame DEF FileStep
  <2> QED
    BY <1>5, <2>2, <2>3 DEF CreateDropVolume, SameFiles, sandboxVars
<1> QED
  BY <1>4, <1>5

\* Where a rename goes on with the two volumes it holds.
MovedNext(u, w) == \A i \in Sids : i \in data'[u] /\ i \notin data'[w] => obj'[i].late
FreshNext(u, w) == \A i \in Sids : /\ i \in data'[w] => i \in data'[u]
                                   /\ Exists(i)' => w \notin ctr'[i].vol

LEMMA FilesMoving ==
  ASSUME IInv, FilesInv, NEW p \in Procs, pc[p] \in Moving,
         NEW label, Goto(p, label), label \in Moving \cup {"release"},
         label = "copy" => loc[p].new \notin volumes',
         label \in {"tag", "untag", "drop"} => MovedNext(loc[p].ws, loc[p].new),
         label \in {"tag", "rollback"} => FreshNext(loc[p].ws, loc[p].new)
  PROVE  FilesOK(p)'
<1>1. pc'[p] = label /\ loc'[p] = loc[p] /\ Asks(loc[p])
  <2>1. TypeOK /\ Asks(loc[p]) /\ label # "done"
    BY FilesFacts DEF Moving
  <2> QED
    BY <2>1, GoKeeps
<1>2. Works(p, pc[p], loc[p])'
  BY <1>1 DEF Works, Moving, Admitted, Making, Creating, Moved, Fresh, MovedNext, FreshNext
<1> QED
  BY <1>1, <1>2 DEF FilesOK

LEMMA FilesTagSteps ==
  ASSUME IInv, FilesInv, NEW p \in Procs, RenameCheck(p) \/ RenameTag(p) \/ RenameUntag(p)
  PROVE  FileStep(p)
<1>1. SameFiles /\ pc[p] \in {"check", "tag", "untag"}
  BY DEF SameFiles, sandboxVars, RenameCheck, RenameTag, RenameUntag, TagImage,
     RemoveImage, At
<1>2. VolumesOK /\ Works(p, pc[p], loc[p]) /\ pc[p] \in Moving
  BY <1>1, FilesFacts DEF Moving
<1>3. CASE RenameCheck(p)
  <2>1. FilesOK(p)'
    BY <1>1, <1>2, <1>3, FilesMoving DEF RenameCheck, Moving, SameFiles
  <2> QED
    BY <1>1, <1>2, <2>1, FilesSame DEF FileStep
<1>4. CASE RenameTag(p) \/ RenameUntag(p)
  <2>1. /\ MovedNext(loc[p].ws, loc[p].new)
        /\ pc[p] = "tag" => FreshNext(loc[p].ws, loc[p].new)
    <3>1. obj' = obj /\ data' = data /\ ctr' = ctr
      BY <1>1, <1>4 DEF RenameTag, RenameUntag, SameFiles, managerVars
    <3>2. /\ Moved(loc[p].ws, loc[p].new)
          /\ pc[p] = "tag" => Fresh(loc[p].ws, loc[p].new)
      BY <1>2, <1>4 DEF Works, RenameTag, RenameUntag, At
    <3> QED
      BY <3>1, <3>2 DEF Moved, Fresh, MovedNext, FreshNext, Exists
  <2>2. PICK label \in {"untag", "drop", "rollback"} :
          Goto(p, label) /\ (label = "rollback" => pc[p] = "tag")
    BY <1>4 DEF RenameTag, RenameUntag, At
  <2>3. FilesOK(p)'
    BY <1>2, <2>1, <2>2, FilesMoving DEF Moving
  <2> QED
    BY <1>1, <1>2, <2>3, FilesSame DEF FileStep
<1> QED
  BY <1>3, <1>4

LEMMA FilesVolumeSteps ==
  ASSUME IInv, FilesInv, NEW p \in Procs, RenameCopy(p) \/ RenameRollback(p) \/ RenameDrop(p)
  PROVE  FileStep(p)
<1>1. pc[p] \in {"copy", "rollback", "drop"}
  BY DEF RenameCopy, RenameRollback, RenameDrop, At
<1>2. /\ SandboxTypeOK /\ VolumesOK /\ Works(p, pc[p], loc[p]) /\ pc[p] \in Moving
      /\ loc[p].ws \in Names /\ loc[p].new \in Names
      /\ loc[p].held = {loc[p].ws, loc[p].new} /\ loc[p].ws # loc[p].new
  BY <1>1, FilesFacts DEF Moving
<1>3. CASE RenameCopy(p)
  <2>1. loc[p].new \notin volumes
    BY <1>2, <1>3 DEF Works, RenameCopy, At
  <2>2. CASE CopyVolume(loc[p].ws, loc[p].new) /\ Goto(p, "tag")
    <3>1. /\ Touches(p) /\ VolumesOK' /\ NoneLost
          /\ MovedNext(loc[p].ws, loc[p].new) /\ FreshNext(loc[p].ws, loc[p].new)
      BY <1>2, <2>1, <2>2, FilesCopy DEF MovedNext, FreshNext
    <3>2. FilesOK(p)'
      BY <1>2, <2>2, <3>1, FilesMoving DEF Moving
    <3> QED
      BY <3>1, <3>2 DEF FileStep
  <2>3. CASE CopyVolumeFailed(loc[p].new) /\ Goto(p, "release")
    <3>1. Touches(p) /\ VolumesOK' /\ NoneLost
      BY <1>2, <2>1, <2>3, FilesCopy
    <3>2. FilesOK(p)'
      BY <1>2, <2>3, FilesMoving
    <3> QED
      BY <3>1, <3>2 DEF FileStep
  <2> QED
    BY <1>3, <2>2, <2>3 DEF RenameCopy
<1>4. CASE RenameRollback(p) \/ RenameDrop(p)
  <2>1. IF RenameDrop(p) THEN Moved(loc[p].ws, loc[p].new) ELSE Fresh(loc[p].ws, loc[p].new)
    BY <1>2, <1>4 DEF Works, RenameRollback, RenameDrop, At
  <2>2. FilesOK(p)'
    <3>1. \E label \in {"release", "move"} : Goto(p, label)
      BY <1>4 DEF RenameRollback, RenameDrop
    <3> QED
      BY <1>2, <3>1, FilesMoving DEF Moving
  <2>3. ASSUME NEW w \in {loc[p].ws, loc[p].new}, RemoveVolume(w),
               w = loc[p].ws <=> RenameDrop(p)
        PROVE  FileStep(p)
    <3>1. /\ Touches(p) /\ VolumesOK'
          /\ \A v \in Names : data'[v] = IF v = w THEN {} ELSE data[v]
      BY <1>2, <2>3, FilesRemoval
    <3>2. ASSUME NEW i \in data[w] PROVE obj[i].late \/ \E v \in Names \ {w} : i \in data[v]
      <4>1. i \in Sids
        BY <1>2, <3>2 DEF SandboxTypeOK
      <4> QED
        BY <1>2, <2>1, <2>3, <3>2, <4>1 DEF Moved, Fresh
    <3>3. NoneLost
      BY <1>2, <3>1, <3>2 DEF NoneLost
    <3> QED
      BY <2>2, <3>1, <3>3 DEF FileStep
  <2>4. CASE SameFiles
    BY <1>2, <2>2, <2>4, FilesSame DEF FileStep
  <2> QED
    BY <1>2, <1>4, <2>3, <2>4 DEF RenameRollback, RenameDrop, At, SameFiles, sandboxVars
<1> QED
  BY <1>3, <1>4

\* A call starts with what it is asked for.
LEMMA FilesStartSteps ==
  ASSUME IInv, FilesInv, CallsKeepFiles, NEW p \in Requests, Start(p)
  PROVE  FileStep(p)
<1>1. /\ p \in Procs /\ TypeOK /\ VolumesOK /\ Asks(loc[p]) /\ loc[p] \in Locals
      /\ ~StartDeleteWorkspace(p)
  BY FilesFacts DEF Procs, TypeOK, CallsKeepFiles, StartDeleteWorkspace, MayCall
<1>2. SameFiles
  BY <1>1 DEF Start, SameFiles, sandboxVars, StartCreate, StartStop, StartDelete,
     StartRestart, StartReap, StartShutdown, StartRename
<1>3. Touches(p) /\ VolumesOK' /\ NoneLost
  BY <1>1, <1>2, FilesSame
<1>4. ASSUME NEW label \in {"begin", "mark", "wait", "next", "done"}, NEW l, Go(p, label, l),
             Asks(l), label = "begin" => l.op \in {"create", "restart"}
      PROVE  FileStep(p)
  <2>1. pc'[p] = label /\ loc'[p] = IF label = "done" THEN Blank(p) ELSE l
    BY <1>1, <1>4, GoOthers
  <2>2. CASE label # "begin"
    <3>1. FilesOK(p)'
      BY <1>4, <2>1, <2>2, BlankAsks, <1>1, FilesElsewhere
         DEF Relied, Admitted, Making, Creating
    <3> QED
      BY <1>3, <3>1 DEF FileStep
  <2>3. CASE label = "begin"
    <3>1. FilesOK(p)'
      BY <1>4, <2>1, <2>3 DEF FilesOK, Works, Admitted, Making, Creating
    <3> QED
      BY <1>3, <3>1 DEF FileStep
  <2> QED
    BY <2>2, <2>3
<1>5. CASE StartCreate(p)
  <2>1. PICK w \in Asked \cup volumes, repo \in Repos :
          Go(p, "begin", [loc[p] EXCEPT !.op = "create", !.ws = w, !.repo = repo])
    BY <1>5 DEF StartCreate
  <2>2. w \in Names
    BY <1>1, ConstantsAssumption DEF CallsKeepFiles, TypeOK, SandboxTypeOK, Names
  <2> DEFINE l == [loc[p] EXCEPT !.op = "create", !.ws = w, !.repo = repo]
  <2>3. l.op = "create" /\ l.ws = w
    BY <1>1 DEF Locals
  <2>4. Go(p, "begin", l)
    BY <2>1
  <2> HIDE DEF l
  <2> QED
    BY <1>4, <2>2, <2>3, <2>4 DEF Asks
<1>6. CASE StartStop(p)
  <2>1. ASSUME NEW i, Go(p, "mark", [loc[p] EXCEPT !.op = "stop", !.sid = i])
        PROVE  FileStep(p)
    <3> DEFINE l == [loc[p] EXCEPT !.op = "stop", !.sid = i]
    <3>1. l.op = "stop" /\ Go(p, "mark", l)
      BY <1>1, <2>1 DEF Locals
    <3> HIDE DEF l
    <3>2. Asks(l)
      BY <1>1, <3>1 DEF Asks
    <3> QED
      BY <1>4, <3>1, <3>2
  <2> QED
    BY <1>1, <1>4, <1>6, <2>1 DEF StartStop, Goto
<1>7. CASE StartDelete(p)
  <2>1. ASSUME NEW i, Go(p, "wait", [loc[p] EXCEPT !.op = "delete", !.sid = i])
        PROVE  FileStep(p)
    <3> DEFINE l == [loc[p] EXCEPT !.op = "delete", !.sid = i]
    <3>1. l.op = "delete" /\ Go(p, "wait", l)
      BY <1>1, <2>1 DEF Locals
    <3> HIDE DEF l
    <3>2. Asks(l)
      BY <1>1, <3>1 DEF Asks
    <3> QED
      BY <1>4, <3>1, <3>2
  <2> QED
    BY <1>1, <1>4, <1>7, <2>1 DEF StartDelete, Goto
<1>8. CASE StartRestart(p)
  <2>1. ASSUME NEW i \in sessions,
               Go(p, "wait", [loc[p] EXCEPT !.op = "restart", !.sid = i, !.ws = obj[i].ws,
                                            !.repo = obj[i].repo])
        PROVE  FileStep(p)
    <3> DEFINE l == [loc[p] EXCEPT !.op = "restart", !.sid = i, !.ws = obj[i].ws,
                                   !.repo = obj[i].repo]
    <3>1. l.op = "restart" /\ l.ws = obj[i].ws /\ Go(p, "wait", l)
      BY <1>1, <2>1 DEF Locals
    <3>2. obj[i].ws \in Names
      BY <1>1, InMapMade DEF IInv, SessOK
    <3> HIDE DEF l
    <3>3. Asks(l)
      BY <3>1, <3>2 DEF Asks
    <3> QED
      BY <1>4, <3>1, <3>3
  <2> QED
    BY <1>1, <1>4, <1>8, <2>1 DEF StartRestart, Goto
<1>9. CASE StartReap(p) \/ StartShutdown(p)
  <2>1. ASSUME NEW op \in {"reap", "shutdown"}, NEW ss,
               Go(p, "next", [loc[p] EXCEPT !.op = op, !.todo = ss])
        PROVE  FileStep(p)
    <3> DEFINE l == [loc[p] EXCEPT !.op = op, !.todo = ss]
    <3>1. l.op = op /\ Go(p, "next", l)
      BY <1>1, <2>1 DEF Locals
    <3> HIDE DEF l
    <3>2. Asks(l)
      BY <1>1, <3>1 DEF Asks
    <3> QED
      BY <1>4, <3>1, <3>2
  <2> QED
    BY <1>9, <2>1 DEF StartReap, StartShutdown
<1>10. CASE StartRename(p)
  <2>1. PICK old, new :
          /\ old # new
          /\ Go(p, IF RenameRefused(old, new) THEN "done" ELSE "next",
                [loc[p] EXCEPT !.op = "rename", !.ws = old, !.new = new,
                               !.held = RenameTaken(old, new),
                               !.todo = InMap(old, "stopped")])
    BY <1>10 DEF StartRename
  <2> DEFINE l == [loc[p] EXCEPT !.op = "rename", !.ws = old, !.new = new,
                                 !.held = RenameTaken(old, new),
                                 !.todo = InMap(old, "stopped")]
             label == IF RenameRefused(old, new) THEN "done" ELSE "next"
  <2>2. l.op = "rename" /\ l.ws = old /\ l.new = new /\ l.repo = loc[p].repo
    BY <1>1 DEF Locals
  <2>3. Go(p, label, l) /\ label \in {"done", "next"}
    BY <2>1
  <2> HIDE DEF l, label
  <2>4. Asks(l)
    BY <1>1, <2>1, <2>2 DEF Asks
  <2> QED
    BY <1>4, <2>3, <2>4
<1> QED
  BY <1>1, <1>5, <1>6, <1>7, <1>8, <1>9, <1>10 DEF Start

\* What another goroutine relies on stays.
LEMMA FilesOthers ==
  ASSUME IInv, FilesInv, NEW p \in Procs, Others(p), Touches(p), LateKept,
         NEW q \in Procs, q # p
  PROVE  FilesOK(q)'
<1>1. /\ Asks(loc[q]) /\ Works(q, pc[q], loc[q]) /\ loc'[q] = loc[q]
      /\ loc[p].held \cap loc[q].held = {}
  BY FilesFacts DEF Others, IInv, GuardHasOneOwner
<1>2. CASE pc'[q] = "wait"
  BY <1>1, <1>2, FilesElsewhere DEF Relied, Admitted, Making, Creating
<1>3. CASE pc'[q] = pc[q] /\ pc[q] \in Making
  <2>1. /\ loc[q].sid \in Sids /\ obj[loc[q].sid].status = "none"
        /\ loc[q].ws \in Names /\ loc[q].held = {loc[q].ws}
        /\ ~(pc[p] \in Making /\ loc[q].sid = loc[p].sid)
    BY <1>3, FilesFacts DEF IInv, OneMaker
  <2>2. ctr'[loc[q].sid].vol = ctr[loc[q].sid].vol
    BY <2>1 DEF Touches
  <2>4. Works(q, pc[q], loc[q])'
    BY <1>1, <1>3, <2>1, <2>2 DEF Works, Making, Admitted, Creating
  <2> QED
    BY <1>1, <2>4 DEF FilesOK
<1>4. CASE pc'[q] = pc[q] /\ pc[q] \in Moving
  <2>1. /\ loc[q].ws \in Names /\ loc[q].new \in Names
        /\ loc[q].held = {loc[q].ws, loc[q].new}
    BY <1>4, FilesFacts
  <2>2. /\ data'[loc[q].ws] = data[loc[q].ws] /\ data'[loc[q].new] = data[loc[q].new]
        /\ loc[q].new \in volumes' => loc[q].new \in volumes
        /\ loc[q].new \notin loc[p].held
    BY <1>1, <2>1 DEF Touches
  <2>3. Moved(loc[q].ws, loc[q].new) => Moved(loc[q].ws, loc[q].new)'
    BY <1>1, <2>2 DEF Moved, LateKept
  <2>4. Fresh(loc[q].ws, loc[q].new) => Fresh(loc[q].ws, loc[q].new)'
    BY <1>1, <2>2 DEF Fresh, Touches
  <2>5. Works(q, pc[q], loc[q])'
    BY <1>1, <1>4, <2>2, <2>3, <2>4 DEF Works, Moving, Making, Admitted, Creating
  <2> QED
    BY <1>1, <2>5 DEF FilesOK
<1>5. CASE pc'[q] = pc[q] /\ pc[q] \notin Making \cup Moving
  <2>1. Works(q, pc[q], loc[q])'
    BY <1>1, <1>5 DEF Works, Moving, Making, Admitted, Creating
  <2> QED
    BY <1>1, <2>1 DEF FilesOK
<1> QED
  BY <1>2, <1>3, <1>4, <1>5 DEF Others

LEMMA FilesSteps ==
  ASSUME IInv, Flow, FilesInv, CallsKeepFiles, NEW p \in Procs, Step(p)
  PROVE  FileStep(p)
<1>1. pc[p] = "save" => loc[p].op # "restart"
  BY DEF Flow, FlowOK
<1>2. SaveRecord(p) => FileStep(p)
  BY <1>1, FilesPlainSteps DEF SaveRecord, At
<1>3. CASE \/ CreateReuse(p) \/ Release(p) \/ StopMark(p) \/ StopSpawn(p) \/ StopClaim(p)
           \/ StopSignal(p) \/ CleanCommit(p) \/ WaitEnd(p) \/ Decide(p) \/ Claim(p) \/ RenameMove(p)
  BY <1>3, FilesPlainSteps
<1>4. CleanHalt(p) \/ CleanRemove(p) \/ Discard(p) => FileStep(p)
  BY FilesEndSteps
<1>5. StopDefer(p) \/ WaitBegin(p) \/ NextInList(p) => FileStep(p)
  BY FilesLocalSteps
<1>6. CreateAdmit(p) \/ CreatePrepare(p) \/ CreateContainerStep(p) => FileStep(p)
  BY FilesAdmitSteps, FilesContainerStep
<1>7. CreateStart(p) \/ CreateSetup(p) \/ CreateAttach(p) \/ CreateAbort(p) => FileStep(p)
  BY FilesCreateSteps
<1>8. CreateDropVolume(p) \/ CreatePublish(p) => FileStep(p)
  BY FilesLastSteps
<1>9. RenameCheck(p) \/ RenameTag(p) \/ RenameUntag(p) => FileStep(p)
  BY FilesTagSteps
<1>10. RenameCopy(p) \/ RenameRollback(p) \/ RenameDrop(p) => FileStep(p)
  BY FilesVolumeSteps
<1>11. p \in Requests /\ Start(p) => FileStep(p)
  BY FilesStartSteps
<1> QED
  BY <1>2, <1>3, <1>4, <1>5, <1>6, <1>7, <1>8, <1>9, <1>10, <1>11 DEF Step, Run

\* A step of a goroutine sets nobody's late, but clears that of the session
\* which a Create enters in the map.
LEMMA FilesLate ==
  ASSUME IInv, FilesInv, NEW p \in Procs, Step(p)
  PROVE  LateKept /\ Early'
<1>1. obj \in [Sids -> Objects]
  BY DEF IInv, TypeOK
<1> SUFFICES ASSUME NEW i \in Sids
             PROVE  /\ obj[i].late => obj'[i].late
                    /\ obj'[i].status = "none" => ~obj'[i].late
  BY DEF LateKept, Early
<1>2. CASE obj'[i].late = obj[i].late /\ obj'[i].status \in {obj[i].status, "stopped"}
  BY <1>2 DEF FilesInv, Early
<1>3. CASE CreatePublish(p)
  <2>1. pc[p] = "publish" => obj[loc[p].sid].status = "none"
    BY AtWork
  <2>2. \/ obj'[i] = obj[i]
        \/ i = loc[p].sid /\ pc[p] = "publish" /\ obj'[i].status = "running"
    BY <1>1, <1>3 DEF CreatePublish, At
  <2> QED
    BY <1>2, <2>1, <2>2 DEF FilesInv, Early
<1>4. CASE RenameMove(p)
  <2>1. [obj[i] EXCEPT !.ws = loc[p].new].late = obj[i].late
        /\ [obj[i] EXCEPT !.ws = loc[p].new].status = obj[i].status
    BY <1>1 DEF Objects
  <2> QED
    BY <1>1, <1>2, <1>4, <2>1 DEF RenameMove
<1>5. CASE \E k \in Sids : \E t \in {StoppedBy(obj[k], p), [obj[k] EXCEPT !.stopDone = p],
                                     [obj[k] EXCEPT !.cleaned = TRUE],
                                     [obj[k] EXCEPT !.replaced = TRUE]} :
             obj' = [obj EXCEPT ![k] = t]
  <2>1. ASSUME NEW s \in Objects, NEW t \in {StoppedBy(s, p), [s EXCEPT !.stopDone = p],
                                             [s EXCEPT !.cleaned = TRUE],
                                             [s EXCEPT !.replaced = TRUE]}
        PROVE  t.late = s.late /\ t.status \in {s.status, "stopped"}
    BY <2>1 DEF Objects, StoppedBy
  <2>2. PICK k \in Sids : \E t : /\ t.late = obj[k].late
                                 /\ t.status \in {obj[k].status, "stopped"}
                                 /\ obj' = [obj EXCEPT ![k] = t]
    <3>1. PICK k \in Sids : \E t \in {StoppedBy(obj[k], p), [obj[k] EXCEPT !.stopDone = p],
                                      [obj[k] EXCEPT !.cleaned = TRUE],
                                      [obj[k] EXCEPT !.replaced = TRUE]} :
                              obj' = [obj EXCEPT ![k] = t]
      BY <1>5
    <3>2. obj[k] \in Objects
      BY <1>1
    <3> QED
      BY <2>1, <3>1, <3>2
  <2>3. PICK t : /\ t.late = obj[k].late /\ t.status \in {obj[k].status, "stopped"}
                 /\ obj' = [obj EXCEPT ![k] = t]
    BY <2>2
  <2>4. obj'[i] = IF i = k THEN t ELSE obj[i]
    BY <1>1, <2>3
  <2> QED
    BY <1>2, <2>3, <2>4
<1>6. StopMark(p) \/ StopSpawn(p) \/ StopClaim(p) \/ Claim(p) => loc[p].sid \in Sids
  BY AtWork DEF StopMark, StopSpawn, StopClaim, Claim, At, Working
<1>7. \/ obj' = obj
      \/ CreatePublish(p) \/ RenameMove(p)
      \/ StopMark(p) \/ StopSpawn(p) \/ StopClaim(p) \/ Claim(p)
      \/ StartRestart(p)
  BY DEF Step, Run, Start, managerVars, CreateReuse, CreateAdmit, CreatePrepare,
     CreateContainerStep, CreateStart, CreateSetup, CreateAttach, CreateAbort,
     CreateDropVolume, Release, StopDefer, StopSignal, CleanCommit, CleanHalt,
     CleanRemove, SaveRecord, NextInList, WaitBegin, WaitEnd, Decide, Discard,
     RenameCheck, RenameCopy, RenameTag, RenameRollback, RenameUntag, RenameDrop,
     StartCreate, StartStop, StartDelete, StartReap, StartShutdown, StartRename,
     StartDeleteWorkspace
<1>8. StartRestart(p) => obj' = obj \/ \E k \in Sids : obj' = [obj EXCEPT ![k].replaced = TRUE]
  BY DEF StartRestart
<1>9. CASE StopMark(p) \/ StopSpawn(p) \/ StopClaim(p) \/ Claim(p)
  BY <1>5, <1>6, <1>9 DEF StopMark, StopSpawn, StopClaim, Claim
<1>10. CASE obj' = obj
  BY <1>2, <1>10
<1> QED
  BY <1>3, <1>4, <1>5, <1>7, <1>8, <1>9, <1>10

\* What the work in a container leaves as it was.
LEMMA WorkSame ==
  ASSUME IInv, NEW i \in Sids, Work(i)
  PROVE  /\ UNCHANGED <<sessions, creating, closed, records, panicked, pc, loc, volumes>>
         /\ SameObjs /\ obj[i].status # "none" /\ Exists(i)
         /\ \A j \in Sids : /\ obj'[j].ws = obj[j].ws /\ obj'[j].guarded = obj[j].guarded
                            /\ obj[j].late => obj'[j].late
                            /\ j # i => obj'[j].late = obj[j].late
                            /\ ctr'[j].vol = ctr[j].vol /\ ctr'[j].state = ctr[j].state
         /\ \A w \in ctr[i].vol : Copied(w) => obj'[i].late
<1> DEFINE b == obj[i].late \/ \E w \in ctr[i].vol : Copied(w)
           t == [ctr[i] EXCEPT !.env = @ \cup {i}]
<1>1. obj \in [Sids -> Objects] /\ SandboxTypeOK
  BY DEF IInv, TypeOK
<1>2. b \in BOOLEAN /\ obj' = [obj EXCEPT ![i].late = b]
  BY <1>1 DEF Work, Objects
<1>3. t.vol = ctr[i].vol /\ t.state = ctr[i].state /\ ctr' = [ctr EXCEPT ![i] = t]
  BY <1>1 DEF Work, Populate, SandboxTypeOK
<1>4. (obj[i].late => b) /\ \A w \in ctr[i].vol : Copied(w) => b
  OBVIOUS
<1> HIDE DEF b, t
<1>5. \A j \in Sids : ctr'[j].vol = ctr[j].vol /\ ctr'[j].state = ctr[j].state
  BY <1>1, <1>3 DEF SandboxTypeOK
<1>6. SameObjs
  BY <1>1, <1>2, LateFacts DEF SameObjs, SameEnd
<1>7. obj'[i].late = b /\ \A j \in Sids : j # i => obj'[j].late = obj[j].late
  BY <1>1, <1>2, LateFacts
<1>8. \A j \in Sids : obj'[j].ws = obj[j].ws /\ obj'[j].guarded = obj[j].guarded
  BY <1>1, <1>2, LateFacts
<1> QED
  BY <1>4, <1>5, <1>6, <1>7, <1>8 DEF Work, Populate, Exists

\* Work writes on the volume of a running container, late if it is copied.
LEMMA FilesWork ==
  ASSUME IInv, FilesInv, NEW i \in Sids, Work(i)
  PROVE  FilesInv' /\ NoneLost
<1>1. \A w \in Names : /\ w \notin ctr[i].vol => data'[w] = data[w]
                       /\ \A j \in Sids : j \in data[w] => j \in data'[w]
                       /\ \A j \in Sids : j \in data'[w] => j \in data[w] \/ j = i
  BY DEF Work, Populate
<1>2. \A j \in Sids : (Exists(j))' = Exists(j)
  BY WorkSame DEF Exists
<1>3. VolumesOK'
  BY <1>1, <1>2, WorkSame DEF FilesInv, VolumesOK
<1>4. Early'
  BY WorkSame DEF FilesInv, Early, SameObjs, SameEnd
<1>5. ASSUME NEW q \in Procs PROVE FilesOK(q)'
  <2>1. Asks(loc[q]) /\ Works(q, pc[q], loc[q]) /\ loc'[q] = loc[q] /\ pc'[q] = pc[q]
    BY WorkSame DEF FilesInv, FilesOK
  <2>2. pc[q] \in Making => loc[q].sid \in Sids
    BY FilesFacts
  <2>3. pc[q] \in Moving => loc[q].ws \in Names /\ loc[q].new \in Names
    BY FilesFacts
  <2>4. pc[q] \in {"tag", "untag", "drop"} => Moved(loc[q].ws, loc[q].new)'
    <3> SUFFICES ASSUME pc[q] \in {"tag", "untag", "drop"}, NEW j \in Sids,
                        j \in data'[loc[q].ws], j \notin data'[loc[q].new]
                 PROVE  obj'[j].late
      BY <2>1 DEF Moved
    <3>1. j \notin data[loc[q].new]
      BY <1>1, <2>3 DEF Moving
    <3>2. CASE j \in data[loc[q].ws]
      BY <2>1, <3>1, <3>2, WorkSame DEF Works, Moved
    <3>3. CASE j \notin data[loc[q].ws]
      <4>1. j = i /\ loc[q].ws \in ctr[i].vol
        BY <1>1, <2>3, <3>3 DEF Moving
      <4>2. Copied(loc[q].ws)
        BY DEF Copied
      <4> QED
        BY <4>1, <4>2, WorkSame
    <3> QED
      BY <3>2, <3>3
  <2>5. pc[q] \in {"tag", "rollback"} => Fresh(loc[q].ws, loc[q].new)'
    <3> SUFFICES ASSUME pc[q] \in {"tag", "rollback"}, NEW j \in Sids
                 PROVE  /\ j \in data'[loc[q].new] => j \in data'[loc[q].ws]
                        /\ Exists(j)' => loc[q].new \notin ctr'[j].vol
      BY <2>1 DEF Fresh
    <3>1. Fresh(loc[q].ws, loc[q].new)
      BY <2>1 DEF Works
    <3>2. loc[q].new \notin ctr[i].vol
      BY <3>1, WorkSame DEF Fresh
    <3> QED
      BY <1>1, <1>2, <2>3, <3>1, <3>2, WorkSame DEF Fresh, Moving
  <2> QED
    BY <2>1, <2>2, <2>4, <2>5, WorkSame DEF FilesOK, Works, Making, Creating
<1>6. NoneLost
  BY <1>1 DEF NoneLost, FilesInv, IInv, TypeOK, SandboxTypeOK
<1> QED
  BY <1>3, <1>4, <1>5, <1>6 DEF FilesInv

LEMMA FilesNext ==
  ASSUME IInv, Flow, FilesInv, CallsKeepFiles, [Next]_vars
  PROVE  FilesInv' /\ (NoneLost \/ UNCHANGED vars)
<1>1. ASSUME NEW p \in Procs, Step(p) PROVE FilesInv' /\ NoneLost
  <2>1. FileStep(p) /\ Others(p) /\ LateKept /\ Early'
    BY <1>1, FilesSteps, FilesLate, StepOthers DEF IInv
  <2>2. ASSUME NEW q \in Procs PROVE FilesOK(q)'
    BY <2>1, FilesOthers DEF FileStep
  <2> QED
    BY <2>1, <2>2 DEF FileStep, FilesInv
<1>2. CASE UNCHANGED vars
  BY <1>2 DEF vars, managerVars, sandboxVars, FilesInv, FilesOK, VolumesOK, Early, Works,
     Asks, Moved, Fresh, Exists
<1>3. Next => UNCHANGED vars \/ (\E p \in Procs : Step(p)) \/ \E i \in Sids : Work(i)
  BY ConstantsAssumption DEF Next, Quiescent, Step, Procs
<1> QED
  BY <1>1, <1>2, <1>3, FilesWork

LEMMA FilesInit == Init => FilesInv
<1> SUFFICES ASSUME Init PROVE FilesInv
  OBVIOUS
<1>1. \A p \in Procs : pc[p] = "idle" /\ loc[p] = Blank(p)
  BY DEF Init
<1>2. \A p \in Procs : FilesOK(p)
  BY <1>1, BlankAsks DEF FilesOK, Works, Admitted, Making, Creating
<1>3. VolumesOK /\ Early
  BY DEF Init, SandboxInit, VolumesOK, Early, Exists
<1> QED
  BY <1>2, <1>3 DEF FilesInv

----------------------------------------------------------------------------
(* The theorems.                                                           *)

EndInv ==
  /\ IInv /\ Flow /\ Channels /\ Histories /\ PanicsTwice
  /\ ~SandboxFaults => Scrapped /\ Owned

LEMMA EndInit == Init => EndInv
<1> SUFFICES ASSUME Init PROVE EndInv
  OBVIOUS
<1>1. IInv
  BY InitInv
<1>2. \A p \in Procs : pc[p] = "idle" /\ loc[p].op \in {"none", "evict"}
  <2>1. \A p \in Procs : Blank(p).op \in {"none", "evict"}
    BY DEF Blank
  <2> QED
    BY <2>1 DEF Init
<1>3. \A i \in Sids : /\ obj[i].status = "none" /\ obj[i].stops = {}
                      /\ obj[i].stopDone = NoChan /\ ~obj[i].replaced /\ ~obj[i].cleaned
                      /\ ~Exists(i)
  BY DEF Init, SandboxInit, Exists
<1>4. Flow
  BY <1>2 DEF Flow, FlowOK
<1>5. Channels
  BY <1>2, <1>3 DEF Init, Channels, Unmade, StopsEnd, StopsApart, StopsListed,
     ChannelIsOfStop, Closes, Waiters, ClosedByOwner, Stopping, Knows
<1>6. Histories
  BY <1>2, <1>3 DEF Histories, Replacing, CleanedIsSaved, StoppedIsCleaned, LeftIsCleaned
<1>7. Scrapped /\ Owned /\ PanicsTwice
  BY <1>2, <1>3 DEF Init, Scrapped, Owned, PanicsTwice
<1> QED
  BY <1>1, <1>4, <1>5, <1>6, <1>7 DEF EndInv

LEMMA EndStutter ==
  ASSUME EndInv, UNCHANGED vars
  PROVE  EndInv'
<1>1. IInv'
  BY StutterInv DEF EndInv
<1>2. Flow' /\ Histories'
  BY DEF EndInv, vars, managerVars, Flow, FlowOK, Histories, Replacing, CleanedIsSaved,
     Saving, StoppedIsCleaned, LeftIsCleaned, WillClean
<1>3. Channels'
  BY DEF EndInv, vars, managerVars, Channels, Unmade, StopsEnd, StopsApart, StopsListed,
     ChannelIsOfStop, Closes, Waiters, ClosedByOwner, Stopping, Knows
<1>4. PanicsTwice' /\ (~SandboxFaults => Scrapped /\ Owned)'
  BY DEF EndInv, vars, managerVars, sandboxVars, Scrapped, Owned, Exists, WillRemove,
     PanicsTwice, StoppedTwice
<1> QED
  BY <1>1, <1>2, <1>3, <1>4 DEF EndInv

\* The work in a container does not touch the end of a session.
LEMMA EndWork ==
  ASSUME EndInv, NEW i \in Sids, Work(i)
  PROVE  EndInv'
<1>1. IInv /\ IInv'
  BY WorkInv DEF EndInv
<1>2. /\ UNCHANGED <<sessions, closed, records, panicked, pc, loc>>
      /\ \A j \in Sids : SameEnd(j) /\ (Exists(j))' = Exists(j)
  BY <1>1, WorkSame DEF SameObjs, Exists
<1>3. Flow' /\ Histories'
  <2>1. Flow' /\ CleanedIsSaved' /\ StoppedIsCleaned' /\ LeftIsCleaned'
    BY <1>2 DEF EndInv, SameEnd, Flow, FlowOK, Histories, CleanedIsSaved, Saving,
       StoppedIsCleaned, LeftIsCleaned, WillClean
  <2>2. \A p \in Procs : pc[p] \in Retiring => loc[p].sid \in Sids
    BY <1>1, AtWork DEF Retiring, Working
  <2>3. Replacing'
    BY <1>2, <2>2 DEF EndInv, SameEnd, Histories, Replacing
  <2> QED
    BY <2>1, <2>3 DEF Histories
<1>4. Channels'
  <2>1. Unmade' /\ StopsEnd' /\ StopsApart' /\ ChannelIsOfStop' /\ ClosedByOwner'
    BY <1>2 DEF EndInv, SameEnd, Channels, Unmade, StopsEnd, StopsApart, ChannelIsOfStop,
       ClosedByOwner, Stopping, Knows
  <2>2. \A p \in Procs : Stopping(p) \/ pc[p] \in {"waiting", "decide", "discard"} =>
          loc[p].sid \in Sids
    BY <1>1, AtWork, StopIsRequest DEF EndInv, Working
  <2>3. StopsListed' /\ Closes' /\ Waiters'
    BY <1>2, <2>2 DEF EndInv, SameEnd, Channels, StopsListed, Closes, Waiters, Stopping,
       Knows
  <2> QED
    BY <2>1, <2>3 DEF Channels
<1>5. PanicsTwice' /\ (~SandboxFaults => Scrapped /\ Owned)'
  <2>1. \A p \in Procs : pc[p] = "dropvolume" => loc[p].sid \in Sids
    BY <1>1, AtContainer DEF Making, Creating
  <2> QED
    BY <1>2, <2>1 DEF EndInv, Scrapped, Owned, WillRemove, PanicsTwice, StoppedTwice, SameEnd
<1> QED
  BY <1>1, <1>3, <1>4, <1>5 DEF EndInv

LEMMA EndNext == EndInv /\ [Next]_vars => EndInv'
<1> SUFFICES ASSUME EndInv, [Next]_vars PROVE EndInv'
  OBVIOUS
<1>1. ASSUME NEW p \in Procs, Step(p) PROVE EndInv'
  <2>1. IInv /\ EndStep(p) /\ Others(p)
    BY <1>1, Steps DEF EndInv
  <2>2. IInv'
    BY <1>1, <2>1, RunInv, StartInv DEF Step
  <2>3. Flow' /\ Channels'
    BY <2>1, FlowStep, ChannelsHold DEF EndInv
  <2>4. Histories'
    BY <2>1, ReplacingStep, CleanedStep, StoppedStep, LeftStep DEF EndInv, Channels,
       Histories
  <2>5. ~SandboxFaults => Scrapped' /\ Owned'
    BY <1>1, <2>1, <2>2, ScrappedStep, OwnedStep DEF EndInv
  <2>6. PanicsTwice'
    BY <1>1, <2>1, PanicStep DEF EndInv
  <2> QED
    BY <2>2, <2>3, <2>4, <2>5, <2>6 DEF EndInv
<1>2. CASE UNCHANGED vars
  BY <1>2, EndStutter
<1>3. Next => UNCHANGED vars \/ (\E p \in Procs : Step(p)) \/ \E i \in Sids : Work(i)
  BY ConstantsAssumption DEF Next, Quiescent, Step, Procs
<1> QED
  BY <1>1, <1>2, <1>3, EndWork

\* The invariant of the end of sessions holds in every execution.
THEOREM EndInvariance == Spec => []EndInv
  BY EndInit, EndNext, PTL DEF Spec

\* Whoever waited for the stopDone of a session's only Stop (manager.go:367
\* and 390) removes the container when that Stop has committed and stopped it
\* and saved its record, whatever other calls on the session come in between.
THEOREM WaitsLongEnough == Spec => []WaitCoversCleanup
<1>1. EndInv => WaitCoversCleanup
  BY WaitCovers DEF EndInv
<1> QED
  BY <1>1, EndInvariance, PTL

\* The runtime panic of a channel closed twice, which StopIsGraceful says can
\* happen, needs two Stops that both marked one session (manager.go:321 and
\* 327): Stops of different sessions, and a Stop with any number of Deletes,
\* Restarts, renames and reaps, never end the process.
THEOREM OnlyTwoStopsPanic == Spec => [](panicked => StoppedTwice)
<1>1. EndInv => (panicked => StoppedTwice)
  BY DEF EndInv, PanicsTwice
<1> QED
  BY <1>1, EndInvariance, PTL

\* No order of the Stops, Deletes, evictions, reaps and shutdowns of a session
\* loses its history record: unless a Restart replaced it, a session that has
\* left the map has one, or a goroutine is on its way to save it.
THEOREM RecordsAreKept == Spec => []HistoryKept
<1>1. EndInv => HistoryKept
  <2> SUFFICES ASSUME EndInv, NEW i \in Sids, obj[i].status # "none", i \notin sessions,
                      ~obj[i].replaced, records[i] = "none"
               PROVE  \E p \in Procs : WillRecord(p, i)
    BY DEF HistoryKept
  <2>1. \A p \in Procs : FlowOK(p)
    BY DEF EndInv, Flow
  <2>2. CASE obj[i].cleaned
    <3>1. PICK p \in Procs : loc[p].sid = i /\ Saving(p)
      BY <2>2 DEF EndInv, Histories, CleanedIsSaved
    <3> QED
      BY <2>1, <3>1 DEF Saving, FlowOK, Removers, WillRecord, Recording
  <2>3. CASE ~obj[i].cleaned /\ obj[i].status = "stopped"
    <3>1. PICK p \in Procs : loc[p].sid = i /\ pc[p] \in {"spawn", "background", "claim"}
      BY <2>3 DEF EndInv, Histories, StoppedIsCleaned
    <3> QED
      BY <2>1, <3>1 DEF FlowOK, WillRecord, Recording
  <2>4. CASE ~obj[i].cleaned /\ obj[i].status = "running"
    <3>1. PICK p \in Procs : WillClean(p, i)
      BY <2>4 DEF EndInv, Histories, LeftIsCleaned
    <3> QED
      BY <3>1 DEF WillClean, WillRecord, Recording
  <2> QED
    BY <2>2, <2>3, <2>4 DEF EndInv, IInv, TypeOK, Objects
<1> QED
  BY <1>1, EndInvariance, PTL

\* As long as the sandbox does what it is asked, no interleaving of Create,
\* Stop, Restart, Delete, the reaper, Shutdown and a rename leaks a container:
\* it belongs to a session in the map or to a goroutine that has yet to
\* remove it.
THEOREM ContainersAreOwned == Spec => []ContainerOwned
<1>1. EndInv => ContainerOwned
  BY DEF EndInv, Owned, ContainerOwned
<1> QED
  BY <1>1, EndInvariance, PTL

\* Where every Create names its workspace and nobody deletes one, files are lost
\* in two ways only, for any number of Creates, Stops, Restarts, Deletes, renames
\* and reaps in any order, with any work in the containers and whatever calls of
\* the sandbox fail: with the volume that a Create removes when its setup has
\* failed, and when they are written on a volume that a rename has copied
\* already.  What else leaves a volume is on another one.
THEOREM FilesAreKept == CallsKeepFiles => (Spec => FilesSurvive)
<1>1. SUFFICES ASSUME CallsKeepFiles PROVE Spec => FilesSurvive
  OBVIOUS
<1>2. Init => EndInv /\ FilesInv
  BY EndInit, FilesInit
<1>3. EndInv /\ FilesInv /\ [Next]_vars => (EndInv /\ FilesInv)'
  BY <1>1, EndNext, FilesNext DEF EndInv
<1>4. EndInv /\ FilesInv /\ [Next]_vars =>
        [\A w \in Names : \A i \in data[w] \ data'[w] :
           \/ \E v \in Names : i \in data'[v]
           \/ obj[i].late
           \/ \E p \in Procs : pc[p] = "dropvolume" /\ pc'[p] # pc[p]
                                /\ loc[p].ws = w]_vars
  BY <1>1, FilesNext DEF EndInv, NoneLost
<1> QED
  BY <1>2, <1>3, <1>4, PTL DEF Spec, FilesSurvive

----------------------------------------------------------------------------
(* The manager implements WorkspaceSessions.  Of a step only what it does  *)
(* to the workspace, the status and the guard of sessions counts, to the   *)
(* map, and to the renames under way; most steps are at most sessions that *)
(* go (Plain).  That a step is the one it seems to be rests on IInv: who   *)
(* holds the guard keeps sessions and renames off.                         *)

\* What WorkspaceSessions sees of the manager: the fields of a session that
\* it is about, and of a rename the two names.
SameSeen(i) == obj'[i].ws = obj[i].ws /\ obj'[i].status = obj[i].status
                 /\ obj'[i].guarded = obj[i].guarded
AllSeen == \A i \in Sids : SameSeen(i)

Way(p)     == <<loc[p].ws, loc[p].new>>
Ways       == {Way(p) : p \in Renames}
SameWay(p) == ((p \in Renames)' <=> p \in Renames) /\ (p \in Renames => Way(p)' = Way(p))

State(i) == IF i \in sessions \/ obj[i].status = "none" THEN obj[i].status ELSE "gone"
Home(i)  == IF i \in sessions THEN obj[i].ws ELSE NoWs
Alone    == {i \in sessions : obj[i].guarded}

\* A rename owns the guard's entries of its two names.
LEMMA RenameHolds ==
  ASSUME IInv, NEW p \in Renames
  PROVE  /\ p \in Procs /\ loc[p].held = {loc[p].ws, loc[p].new}
         /\ loc[p].ws \in Names /\ loc[p].new \in Names
         /\ \A i \in Sids : LiveGuarded(i) => obj[i].ws # loc[p].ws
BY DEF IInv, Renames, ProcOK, LocalOK, HeldOK, KindOK

LEMMA WaysApart ==
  ASSUME IInv, NEW p \in Procs, NEW q \in Renames, p # q, NEW w \in loc[p].held
  PROVE  w \notin {Way(q)[1], Way(q)[2]} /\ w \in creating
BY RenameHolds DEF IInv, GuardHasOneOwner, Way

\* The others' renames go on as they were.
LEMMA OthersMove ==
  ASSUME IInv, NEW p \in Procs, Others(p), NEW q \in Procs, q # p
  PROVE  SameWay(q)
<1>1. loc'[q] = loc[q] /\ (pc'[q] = pc[q] \/ (q \in Sids /\ loc[q].op = "evict"))
  BY DEF Others, IInv, TypeOK, ProcOK, LocalOK, KindOK
<1> QED
  BY <1>1 DEF Renames, Way, SameWay

LEMMA WaysStep ==
  ASSUME IInv, NEW p \in Procs, Others(p)
  PROVE  /\ SameWay(p) => Ways' = Ways
         /\ p \in Renames /\ p \notin Renames' => Ways' = Ways \ {Way(p)}
         /\ p \notin Renames /\ p \in Renames' => Ways' = Ways \cup {Way(p)'}
<1>1. \A q \in Procs : q # p => ((q \in Renames)' <=> q \in Renames) /\ (q \in Renames => Way(q)' = Way(q))
  BY OthersMove DEF SameWay
<1>2. Renames \subseteq Procs /\ Renames' \subseteq Procs
  BY DEF Renames
<1>3. p \in Renames => \A q \in Renames : q # p => Way(q) # Way(p)
  <2> SUFFICES ASSUME p \in Renames, NEW q \in Renames, q # p PROVE Way(q) # Way(p)
    OBVIOUS
  <2>1. loc[p].ws \in loc[p].held
    BY RenameHolds
  <2>2. loc[p].ws # Way(q)[1]
    BY <2>1, WaysApart
  <2> QED
    BY <2>2 DEF Way
<1> HIDE DEF Way, Renames
<1>4. SameWay(p) => Ways' = Ways
  BY <1>1, <1>2 DEF Ways, SameWay
<1>5. p \in Renames /\ p \notin Renames' => Ways' = Ways \ {Way(p)}
  BY <1>1, <1>2, <1>3 DEF Ways
<1>6. p \notin Renames /\ p \in Renames' => Ways' = Ways \cup {Way(p)'}
  BY <1>1, <1>2 DEF Ways
<1> QED
  BY <1>4, <1>5, <1>6

\* A step that WorkspaceSessions sees at most as sessions that go, and the
\* steps that give a rename up.
Plain(p)  == AllSeen /\ sessions' \subseteq sessions /\ SameWay(p)
Drops(p)  == AllSeen /\ sessions' = sessions /\ p \in Renames /\ p \notin Renames'

\* Where a goroutine goes, and with which call and names.
LEMMA Goes ==
  ASSUME TypeOK, NEW p \in Procs, NEW label, Goto(p, label)
  PROVE  pc'[p] = label /\ (label # "done" => loc'[p] = loc[p])
BY GoOthers DEF Goto

LEMMA SameKept == UNCHANGED obj => AllSeen
BY DEF AllSeen, SameSeen

\* A goroutine that is in no rename before or after the step.
LEMMA NoRename ==
  ASSUME NEW p \in Procs, pc[p] \notin Renaming \/ loc[p].op # "rename",
         pc'[p] \notin Renaming \/ loc'[p].op # "rename"
  PROVE  SameWay(p)
BY DEF SameWay, Renames

LEMMA PlainCreate ==
  ASSUME TypeOK, NEW p \in Procs,
         \/ CreateReuse(p) \/ CreateContainerStep(p) \/ CreateStart(p)
         \/ CreateSetup(p) \/ CreateAttach(p) \/ CreateAbort(p)
         \/ CreateDropVolume(p) \/ Release(p) \/ CleanCommit(p) \/ CleanHalt(p)
         \/ Decide(p)
  PROVE  Plain(p)
<1>1. \E label \in {"done", "start", "release", "setup", "attach", "abort", "scrap",
                    "dropvolume", "publish", "halt", "save", "remove", "discard", "clean"} :
        Goto(p, label)
  BY DEF CreateReuse, CreateContainerStep, CreateStart, CreateSetup, CreateAttach,
     CreateAbort, CreateDropVolume, Release, Deferred, CleanCommit, CleanHalt, Decide
<1>2. pc[p] \notin Renaming
  BY DEF CreateReuse, CreateContainerStep, CreateStart, CreateSetup, CreateAttach,
     CreateAbort, CreateDropVolume, Release, At, Renaming, CleanCommit, CleanHalt, Decide
<1>3. UNCHANGED <<sessions, obj>>
  BY DEF CreateReuse, CreateContainerStep, CreateStart, CreateSetup, CreateAttach,
     CreateAbort, CreateDropVolume, Release, managerVars, CleanCommit, CleanHalt, Decide
<1>4. pc'[p] \notin Renaming
  BY <1>1, Goes DEF Renaming
<1> QED
  BY <1>2, <1>3, <1>4, SameKept, NoRename DEF Plain

LEMMA PlainAdmit ==
  ASSUME TypeOK, NEW p \in Procs, CreateAdmit(p)
  PROVE  Plain(p)
<1>1. pc[p] = "begin" /\ pc'[p] \in {"done", "prepare"} /\ sessions' \subseteq sessions
  BY DEF TypeOK, CreateAdmit, At
<1>2. UNCHANGED obj
  BY DEF CreateAdmit
<1> QED
  BY <1>1, <1>2, SameKept, NoRename DEF Plain, Renaming

LEMMA PlainPrepare ==
  ASSUME TypeOK, NEW p \in Procs, CreatePrepare(p)
  PROVE  Plain(p)
<1>1. pc[p] = "prepare" /\ UNCHANGED <<sessions, obj>>
  BY DEF CreatePrepare, At
<1>2. pc'[p] \in {"container", "done", "release"}
  BY GoOthers DEF CreatePrepare, Goto, Deferred
<1> QED
  BY <1>1, <1>2, SameKept, NoRename DEF Plain, Renaming

\* The steps of a Stop but its mark, and the compare-and-swaps.
LEMMA PlainStop ==
  ASSUME IInv, NEW p \in Procs, StopSpawn(p) \/ StopClaim(p) \/ Claim(p) \/ StopSignal(p)
  PROVE  Plain(p)
<1>1. /\ TypeOK /\ pc[p] \notin Renaming /\ UNCHANGED sessions
      /\ loc[p].sid \in Sids /\ obj[loc[p].sid] \in Objects /\ obj \in [Sids -> Objects]
  <2>1. pc[p] \in Working /\ pc[p] \notin Renaming /\ TypeOK
    BY DEF StopSpawn, StopClaim, Claim, StopSignal, At, Working, Renaming, IInv
  <2> QED
    BY <2>1, WorkFacts DEF StopSpawn, StopClaim, Claim, StopSignal, TypeOK
<1>2. pc'[p] \in {"background", "signal", "commit", "done", "remove"}
  BY <1>1, GoOthers DEF StopSpawn, StopClaim, Claim, StopSignal, Goto, AfterClaim
<1>3. AllSeen
  <2> DEFINE o == obj[loc[p].sid]
             s == [o EXCEPT !.stopDone = p]
             c == [o EXCEPT !.cleaned = TRUE]
  <2>1. /\ s.ws = o.ws /\ s.status = o.status /\ s.guarded = o.guarded
        /\ c.ws = o.ws /\ c.status = o.status /\ c.guarded = o.guarded
    BY <1>1 DEF Objects
  <2>2. \/ obj' = [obj EXCEPT ![loc[p].sid] = s]
        \/ obj' = [obj EXCEPT ![loc[p].sid] = c]
        \/ obj' = obj
    BY <1>1 DEF StopSpawn, StopClaim, Claim, StopSignal, TypeOK
  <2> HIDE DEF s, c
  <2> QED
    BY <1>1, <2>1, <2>2 DEF AllSeen, SameSeen
<1> QED
  BY <1>1, <1>2, <1>3, NoRename DEF Plain, Renaming

LEMMA PlainDefer ==
  ASSUME IInv, NEW p \in Procs, StopDefer(p)
  PROVE  Plain(p)
<1>1. TypeOK /\ pc[p] = "background" /\ UNCHANGED <<sessions, obj>>
  BY DEF StopDefer, At, IInv, managerVars
<1>2. pc'[p] = "claim"
  BY <1>1, GoOthers DEF StopDefer
<1> QED
  BY <1>1, <1>2, SameKept, NoRename DEF Plain, Renaming

LEMMA PlainClean ==
  ASSUME IInv, NEW p \in Procs, CleanRemove(p) \/ SaveRecord(p) \/ Discard(p)
  PROVE  Plain(p)
<1>1. TypeOK /\ pc[p] \notin Renaming /\ UNCHANGED <<sessions, obj>>
  BY DEF CleanRemove, SaveRecord, Discard, At, Renaming, IInv, managerVars
<1>2. \E label \in Labels :
        Goto(p, label) /\ (label \in Renaming => label = "next" /\ loc[p].op # "rename")
  BY DEF CleanRemove, SaveRecord, Discard, AfterClean, AfterRetire, Renaming, Labels
<1>3. pc'[p] \notin Renaming \/ loc'[p].op # "rename"
  BY <1>1, <1>2, Goes
<1> QED
  BY <1>1, <1>3, SameKept, NoRename DEF Plain

LEMMA PlainWait ==
  ASSUME IInv, NEW p \in Procs, WaitBegin(p) \/ WaitEnd(p)
  PROVE  Plain(p)
<1>1. TypeOK /\ loc[p] \in Locals /\ UNCHANGED <<sessions, obj>>
  BY DEF WaitBegin, WaitEnd, IInv, TypeOK, managerVars
<1>2. CASE WaitBegin(p)
  <2> DEFINE l == [loc[p] EXCEPT !.ch = obj[loc[p].sid].stopDone]
  <2>1. l.op = loc[p].op /\ l.ws = loc[p].ws /\ l.new = loc[p].new
    BY <1>1 DEF Locals
  <2>2. pc[p] = "wait" /\ Go(p, "waiting", l)
    BY <1>2 DEF WaitBegin, At
  <2> HIDE DEF l
  <2>3. pc'[p] = "waiting" /\ loc'[p] = l
    BY <1>1, <2>2, GoOthers
  <2> QED
    BY <1>1, <2>1, <2>2, <2>3, SameKept DEF Plain, SameWay, Renames, Way, Renaming
<1>3. CASE WaitEnd(p)
  <2>1. /\ pc[p] = "waiting"
        /\ pc'[p] \in {"discard", "next", "decide"} /\ loc'[p] = loc[p]
        /\ pc'[p] = "next" <=> loc[p].op = "rename"
    BY <1>1, <1>3, Goes DEF WaitEnd, At
  <2> QED
    BY <1>1, <2>1, SameKept DEF Plain, SameWay, Renames, Way, Renaming
<1> QED
  BY <1>2, <1>3

LEMMA PlainList ==
  ASSUME IInv, NEW p \in Procs, NextInList(p)
  PROVE  Plain(p)
<1>1. /\ TypeOK /\ loc[p] \in Locals /\ pc[p] = "next" /\ UNCHANGED obj
      /\ sessions' \subseteq sessions
  BY DEF NextInList, At, IInv, TypeOK
<1>2. CASE Goto(p, IF loc[p].op = "rename" THEN "check" ELSE "done")
  <2>1. pc'[p] = (IF loc[p].op = "rename" THEN "check" ELSE "done")
        /\ (loc[p].op = "rename" => loc'[p] = loc[p])
    BY <1>1, <1>2, Goes
  <2> QED
    BY <1>1, <2>1, SameKept DEF Plain, SameWay, Renames, Way, Renaming
<1>3. ASSUME NEW i, NEW label \in {"next", "wait"},
             Go(p, label, [loc[p] EXCEPT !.sid = i, !.todo = @ \ {i}])
      PROVE  Plain(p)
  <2> DEFINE l == [loc[p] EXCEPT !.sid = i, !.todo = @ \ {i}]
  <2>1. l.op = loc[p].op /\ l.ws = loc[p].ws /\ l.new = loc[p].new /\ Go(p, label, l)
    BY <1>1, <1>3 DEF Locals
  <2> HIDE DEF l
  <2>2. pc'[p] = label /\ loc'[p] = l
    BY <1>1, <2>1, GoOthers
  <2> QED
    BY <1>1, <2>1, <2>2, SameKept DEF Plain, SameWay, Renames, Way, Renaming
<1> QED
  BY <1>2, <1>3 DEF NextInList

\* The calls but a rename.
LEMMA PlainStart ==
  ASSUME IInv, NEW p \in Requests, Start(p), ~StartRename(p)
  PROVE  Plain(p)
<1>1. /\ TypeOK /\ p \in Procs /\ loc[p] \in Locals /\ pc[p] = "idle"
      /\ sessions' \subseteq sessions
  BY DEF Start, StartCreate, StartStop, StartDelete, StartRestart, StartReap, StartShutdown,
     StartDeleteWorkspace, MayCall, At, IInv, TypeOK, Procs, managerVars
<1>2. AllSeen
  <2>1. CASE StartRestart(p)
    <3>1. \A i \in Sids : \A s \in Objects :
            LET r == [s EXCEPT !.replaced = TRUE]
            IN  r.ws = s.ws /\ r.status = s.status /\ r.guarded = s.guarded
      BY DEF Objects
    <3>2. CASE UNCHANGED obj
      BY <3>2, SameKept
    <3>3. ASSUME NEW i \in Sids, obj' = [obj EXCEPT ![i].replaced = TRUE] PROVE AllSeen
      BY <1>1, <3>1, <3>3 DEF TypeOK, AllSeen, SameSeen
    <3> QED
      BY <2>1, <3>2, <3>3 DEF StartRestart
  <2>2. CASE ~StartRestart(p)
    BY <2>2, SameKept DEF Start, StartCreate, StartStop, StartDelete, StartReap,
       StartShutdown, StartDeleteWorkspace, managerVars
  <2> QED
    BY <2>1, <2>2
<1>3. pc'[p] \notin Renaming \/ loc'[p].op # "rename"
  <2>1. CASE StartDeleteWorkspace(p) \/ StartStop(p) \/ StartCreate(p)
    <3>1. pc'[p] \in {"done", "mark", "begin"}
      BY <1>1, <2>1, GoOthers DEF StartDeleteWorkspace, StartStop, StartCreate, Goto
    <3> QED
      BY <3>1 DEF Renaming
  <2>2. Goto(p, "done") => pc'[p] \notin Renaming
    BY <1>1, Goes DEF Renaming
  <2>3. ASSUME NEW i, Go(p, "wait", [loc[p] EXCEPT !.op = "delete", !.sid = i])
        PROVE  loc'[p].op # "rename"
    <3> DEFINE l == [loc[p] EXCEPT !.op = "delete", !.sid = i]
    <3>1. l.op = "delete" /\ Go(p, "wait", l)
      BY <1>1, <2>3 DEF Locals
    <3> HIDE DEF l
    <3> QED
      BY <1>1, <3>1, GoOthers
  <2>4. ASSUME NEW i, NEW w, NEW r,
               Go(p, "wait", [loc[p] EXCEPT !.op = "restart", !.sid = i, !.ws = w, !.repo = r])
        PROVE  loc'[p].op # "rename"
    <3> DEFINE l == [loc[p] EXCEPT !.op = "restart", !.sid = i, !.ws = w, !.repo = r]
    <3>1. l.op = "restart" /\ Go(p, "wait", l)
      BY <1>1, <2>4 DEF Locals
    <3> HIDE DEF l
    <3> QED
      BY <1>1, <3>1, GoOthers
  <2>5. ASSUME NEW d, Go(p, "next", [loc[p] EXCEPT !.op = "reap", !.todo = d])
        PROVE  loc'[p].op # "rename"
    <3> DEFINE l == [loc[p] EXCEPT !.op = "reap", !.todo = d]
    <3>1. l.op = "reap" /\ Go(p, "next", l)
      BY <1>1, <2>5 DEF Locals
    <3> HIDE DEF l
    <3> QED
      BY <1>1, <3>1, GoOthers
  <2>6. ASSUME NEW d, Go(p, "next", [loc[p] EXCEPT !.op = "shutdown", !.todo = d])
        PROVE  loc'[p].op # "rename"
    <3> DEFINE l == [loc[p] EXCEPT !.op = "shutdown", !.todo = d]
    <3>1. l.op = "shutdown" /\ Go(p, "next", l)
      BY <1>1, <2>6 DEF Locals
    <3> HIDE DEF l
    <3> QED
      BY <1>1, <3>1, GoOthers
  <2>7. CASE StartDelete(p) \/ StartRestart(p)
    BY <2>2, <2>3, <2>4, <2>7 DEF StartDelete, StartRestart
  <2>8. CASE StartReap(p) \/ StartShutdown(p)
    BY <2>5, <2>6, <2>8 DEF StartReap, StartShutdown
  <2> QED
    BY <2>1, <2>7, <2>8 DEF Start
<1> QED
  BY <1>1, <1>2, <1>3, NoRename DEF Plain, Renaming

\* The steps of a rename but its start and its move.
LEMMA PlainRename ==
  ASSUME IInv, NEW p \in Procs,
         \/ RenameCheck(p) \/ RenameCopy(p) \/ RenameTag(p) \/ RenameRollback(p)
         \/ RenameUntag(p) \/ RenameDrop(p)
  PROVE  Plain(p) \/ Drops(p)
<1>1. /\ TypeOK /\ pc[p] \in Moving /\ UNCHANGED <<sessions, obj>>
  BY DEF RenameCheck, RenameCopy, RenameTag, RenameRollback, RenameUntag, RenameDrop, At,
     Moving, IInv, managerVars
<1>2. loc[p].op = "rename" /\ p \in Renames
  BY <1>1 DEF IInv, ProcOK, LocalOK, KindOK, Renames, Moving, Renaming
<1>3. \E label \in {"copy", "release", "tag", "untag", "drop", "rollback", "move"} :
        Goto(p, label)
  BY DEF RenameCheck, RenameCopy, RenameTag, RenameRollback, RenameUntag, RenameDrop
<1>4. loc'[p] = loc[p]
      /\ pc'[p] \in {"copy", "release", "tag", "untag", "drop", "rollback", "move"}
  BY <1>1, <1>3, Goes
<1>5. CASE pc'[p] = "release"
  BY <1>1, <1>2, <1>4, <1>5, SameKept DEF Drops, Renames, Renaming
<1>6. CASE pc'[p] # "release"
  BY <1>1, <1>2, <1>4, <1>6, SameKept DEF Plain, SameWay, Renames, Renaming, Way
<1> QED
  BY <1>5, <1>6

LEMMA PlainSteps ==
  ASSUME IInv, NEW p \in Procs, Step(p),
         ~CreatePublish(p), ~StopMark(p), ~RenameMove(p), ~(p \in Requests /\ StartRename(p))
  PROVE  Plain(p) \/ Drops(p)
BY PlainCreate, PlainAdmit, PlainPrepare, PlainStop, PlainDefer, PlainClean, PlainWait,
   PlainList, PlainStart, PlainRename DEF Step, Run, IInv

----------------------------------------------------------------------------
(* The step of WorkspaceSessions that each of them is.                     *)

\* The variables of WorkspaceSessions, as the manager's state gives them.
StateF == [i \in Sids |-> State(i)]
HomeF  == [i \in Sids |-> Home(i)]

LEMMA Published ==
  ASSUME IInv, NEW i \in Sids
  PROVE  /\ i \in sessions => State(i) \in {"running", "stopped"} /\ Home(i) \in Names
         /\ obj[i].status \in {"none", "running", "stopped"}
BY DEF IInv, TypeOK, SessOK, Objects, State, Home

LEMMA PlainRefines ==
  ASSUME IInv, NEW p \in Procs, Others(p), Plain(p)
  PROVE  \E out \in SUBSET Sids : WS!Remove(out)
<1>1. sessions \subseteq Sids
  BY DEF IInv, TypeOK
<1>2. PICK out \in SUBSET Sids : out = sessions \ sessions'
  BY <1>1
<1>3. \A i \in out : StateF[i] \in {"running", "stopped"}
  BY <1>1, <1>2, Published DEF StateF
<1>4. StateF' = [i \in Sids |-> IF i \in out THEN "gone" ELSE StateF[i]]
  <2>1. \A i \in Sids : State(i)' = IF i \in out THEN "gone" ELSE State(i)
    BY <1>2, Published DEF Plain, AllSeen, SameSeen, State
  <2> QED
    BY <2>1 DEF StateF
<1>5. HomeF' = [i \in Sids |-> IF i \in out THEN NoWs ELSE HomeF[i]]
  <2>1. \A i \in Sids : Home(i)' = IF i \in out THEN NoWs ELSE Home(i)
    BY <1>2 DEF Plain, AllSeen, SameSeen, Home
  <2> QED
    BY <2>1 DEF HomeF
<1>6. Alone' = Alone \ out
  BY <1>1, <1>2 DEF Plain, AllSeen, SameSeen, Alone
<1>7. Ways' = Ways
  BY WaysStep DEF Plain
<1>8. \A i \in out : WS!There(i)
  BY <1>3 DEF WS!There, StateF, State
<1>9. WS!Remove(out)
  BY <1>4, <1>5, <1>6, <1>7, <1>8, Zenon
     DEF WS!Remove, StateF, HomeF, State, Home, Alone, Ways, Way
<1> QED
  BY <1>9

LEMMA DropsRefines ==
  ASSUME IInv, NEW p \in Procs, Others(p), Drops(p)
  PROVE  \E v, w \in Names : WS!GiveUp(v, w)
<1>0. PICK old, new \in Names : old = loc[p].ws /\ new = loc[p].new
  BY RenameHolds DEF Drops
<1>1. Ways' = Ways \ {<<old, new>>}
  BY <1>0, WaysStep DEF Drops, Way
<1>2. Alone' = Alone
  BY DEF IInv, TypeOK, Drops, AllSeen, SameSeen, Alone
<1>3. StateF' = StateF /\ HomeF' = HomeF
  BY DEF Drops, AllSeen, SameSeen, StateF, HomeF, State, Home
<1>4. WS!GiveUp(old, new)
  BY <1>1, <1>2, <1>3, Zenon
     DEF WS!GiveUp, StateF, HomeF, State, Home, Alone, Ways, Way
<1> QED
  BY <1>4

\* The second of two Stops marks a session that is stopped, and a Stop may
\* mark one that has left the map.
LEMMA MarkRefines ==
  ASSUME IInv, NEW p \in Procs, Others(p), StopMark(p)
  PROVE  (\E i \in Sids : WS!Stop(i)) \/ UNCHANGED WS!vars
<1>0. PICK k \in Sids : k = loc[p].sid
  BY DEF StopMark, At, IInv, ProcOK, LocalOK, SidsOK, Working
<1>1. /\ TypeOK /\ loc[p] \in Locals /\ pc[p] = "mark" /\ k \in Sids /\ obj[k].status # "none"
      /\ sessions' = sessions /\ obj[k] \in Objects /\ obj \in [Sids -> Objects]
  BY <1>0 DEF StopMark, At, IInv, TypeOK, ProcOK, LocalOK, SidsOK, Working
<1>2. /\ obj'[k].status = "stopped" /\ obj'[k].ws = obj[k].ws /\ obj'[k].guarded = obj[k].guarded
      /\ \A i \in Sids : i # k => obj'[i] = obj[i]
  <2> DEFINE s == StoppedBy(obj[k], p)
  <2>1. s.status = "stopped" /\ s.ws = obj[k].ws /\ s.guarded = obj[k].guarded
    BY <1>1 DEF Objects, StoppedBy
  <2>2. obj' = [obj EXCEPT ![k] = s]
    BY <1>0 DEF StopMark
  <2> HIDE DEF s
  <2> QED
    BY <1>1, <2>1, <2>2
<1>3. Ways' = Ways
  <2>1. pc'[p] = "spawn"
    BY <1>1, Goes DEF StopMark
  <2> QED
    BY <1>1, <2>1, NoRename, WaysStep DEF Renaming
<1>4. Alone' = Alone /\ HomeF' = HomeF
  BY <1>1, <1>2 DEF TypeOK, Alone, HomeF, Home
<1>5. CASE k \in sessions /\ obj[k].status = "running"
  <2>1. StateF[k] = "running"
    BY <1>1, <1>5 DEF StateF, State
  <2>2. StateF' = [StateF EXCEPT ![k] = "stopped"]
    BY <1>1, <1>2, <1>5 DEF StateF, State
  <2> QED
    BY <1>3, <1>4, <2>1, <2>2, Zenon DEF WS!Stop, StateF, HomeF, State, Home, Alone, Ways,
       Way
<1>6. CASE ~(k \in sessions /\ obj[k].status = "running")
  <2>1. k \in sessions => obj[k].status = "stopped"
    BY <1>1, <1>6 DEF Objects
  <2>2. \A i \in Sids : State(i)' = State(i)
    BY <1>1, <1>2, <2>1 DEF State
  <2>3. StateF' = StateF
    BY <2>2 DEF StateF
  <2> QED
    BY <1>3, <1>4, <2>3, Zenon DEF WS!vars, StateF, HomeF, State, Home, Alone, Ways, Way
<1> QED
  BY <1>5, <1>6

\* Who holds the guard for a workspace keeps sessions with it and renames off.
LEMMA GuardedIsFree ==
  ASSUME IInv, NEW w, w \notin creating
         \/ \E p \in Procs : loc[p].held # {} /\ w \in loc[p].held /\ p \notin Renames
  PROVE  WS!Settled(w)
<1> SUFFICES ASSUME NEW q \in Renames, w \in {loc[q].ws, loc[q].new} PROVE FALSE
  BY DEF WS!Settled
<1>1. w \in loc[q].held /\ q \in Procs
  BY RenameHolds
<1>2. w \in creating
  BY <1>1 DEF IInv, GuardHasOneOwner
<1> QED
  BY <1>1, <1>2 DEF IInv, GuardHasOneOwner

LEMMA NobodyOn ==
  ASSUME IInv, NEW w, \A i \in Sids : LiveGuarded(i) => obj[i].ws # w
  PROVE  WS!Unused(w)
<1>1. \A i \in Alone : StateF[i] = "running" => HomeF[i] # w
  BY DEF IInv, TypeOK, Alone, LiveGuarded, Live, StateF, HomeF, State, Home
<1> QED
  BY <1>1, Zenon DEF WS!Unused, Alone, StateF, HomeF, State, Home

LEMMA PublishRefines ==
  ASSUME IInv, NEW p \in Procs, Others(p), CreatePublish(p)
  PROVE  /\ WS!Open(loc[p].sid, loc[p].ws, loc[p].held # {}, {})
         /\ loc[p].sid \in Sids /\ loc[p].ws \in Names
<1> DEFINE k == loc[p].sid
           w == loc[p].ws
           mine == loc[p].held # {}
<1>1. /\ TypeOK /\ pc[p] = "publish" /\ k \in Sids /\ obj[k].status = "none" /\ w \in Names
      /\ k \notin sessions /\ sessions' = sessions \cup {k} /\ obj \in [Sids -> Objects]
      /\ sessions \subseteq Sids
  BY DEF CreatePublish, At, IInv, TypeOK, Locals, ProcOK, LocalOK, SidsOK, SessOK, Making,
     Creating
<1>2. /\ obj'[k].status = "running" /\ obj'[k].ws = w /\ obj'[k].guarded = mine
      /\ \A i \in Sids : i # k => obj'[i] = obj[i]
  BY <1>1 DEF CreatePublish
<1>3. Ways' = Ways
  <2>1. pc'[p] \in {"done", "release"}
    BY <1>1, Goes DEF CreatePublish, Deferred
  <2> QED
    BY <1>1, <2>1, NoRename, WaysStep DEF Renaming
<1>4. mine => WS!Unused(w) /\ WS!Settled(w)
  <2> SUFFICES ASSUME mine PROVE WS!Unused(w) /\ WS!Settled(w)
    OBVIOUS
  <2>1. loc[p].held = {w} /\ \A i \in Sids : LiveGuarded(i) => obj[i].ws # w
    BY <1>1 DEF IInv, ProcOK, LocalOK, HeldOK, Admitted, Making, Creating
  <2>2. p \notin Renames
    BY <1>1 DEF Renames, Renaming
  <2> QED
    BY <2>1, <2>2, NobodyOn, GuardedIsFree
<1>5. StateF[k] = "none"
  BY <1>1 DEF StateF, State
<1>6. StateF' = [j \in Sids |-> IF j = k THEN "running" ELSE IF j \in {} THEN "gone" ELSE StateF[j]]
  BY <1>1, <1>2 DEF StateF, State
<1>7. HomeF' = [j \in Sids |-> IF j = k THEN w ELSE IF j \in {} THEN NoWs ELSE HomeF[j]]
  BY <1>1, <1>2 DEF HomeF, Home
<1>8. Alone' = (Alone \ {}) \cup (IF mine THEN {k} ELSE {})
  BY <1>1, <1>2 DEF Alone
<1>9. \A j \in {} : StateF[j] = "stopped" /\ HomeF[j] = w
  OBVIOUS
<1>10. WS!Open(k, w, mine, {})
  BY <1>3, <1>4, <1>5, <1>6, <1>7, <1>8, <1>9, Zenon
     DEF WS!Open, StateF, HomeF, State, Home, Alone, Ways, Way
<1> QED
  BY <1>1, <1>10

LEMMA StartRenameRefines ==
  ASSUME IInv, IInv', NEW p \in Requests, Others(p), StartRename(p)
  PROVE  \/ UNCHANGED WS!vars
         \/ \E old, new \in Names : WS!BeginMove(old, new)
<1>1. /\ TypeOK /\ p \in Procs /\ pc[p] = "idle" /\ UNCHANGED <<sessions, obj>>
      /\ loc[p] \in Locals /\ p \notin Renames
  BY DEF StartRename, MayCall, At, IInv, TypeOK, Procs, Renames, Renaming
<1>2. Alone' = Alone /\ StateF' = StateF /\ HomeF' = HomeF
  BY <1>1 DEF Alone, StateF, HomeF, State, Home
<1>3. PICK old, new :
        /\ creating' = creating \cup RenameTaken(old, new)
        /\ Go(p, IF RenameRefused(old, new) THEN "done" ELSE "next",
              [loc[p] EXCEPT !.op = "rename", !.ws = old, !.new = new,
                             !.held = RenameTaken(old, new),
                             !.todo = InMap(old, "stopped")])
  BY DEF StartRename
<1> DEFINE l == [loc[p] EXCEPT !.op = "rename", !.ws = old, !.new = new,
                               !.held = RenameTaken(old, new),
                               !.todo = InMap(old, "stopped")]
<1>4. l.op = "rename" /\ l.ws = old /\ l.new = new
  BY <1>1 DEF Locals
<1>5. CASE RenameRefused(old, new)
  <2>1. Go(p, "done", l)
    BY <1>3, <1>5
  <2> HIDE DEF l
  <2>2. pc'[p] = "done"
    BY <1>1, <2>1, GoOthers
  <2>3. Ways' = Ways
    BY <1>1, <2>2, NoRename, WaysStep DEF Renaming
  <2> QED
    BY <1>2, <2>3, Zenon DEF WS!vars, StateF, HomeF, State, Home, Alone, Ways, Way
<1>6. CASE ~RenameRefused(old, new)
  <2>1. Go(p, "next", l)
    BY <1>3, <1>6
  <2> HIDE DEF l
  <2>2. pc'[p] = "next" /\ loc'[p] = l
    BY <1>1, <2>1, GoOthers
  <2>3. p \in Renames' /\ Way(p)' = <<old, new>>
    BY <1>1, <1>4, <2>2 DEF Renames, Renaming, Way
  <2>4. Ways' = Ways \cup {<<old, new>>}
    BY <1>1, <2>3, WaysStep
  <2>5. old \in Names /\ new \in Names
    BY <2>2, <1>4, <1>1 DEF IInv, ProcOK, LocalOK, KindOK
  <2>6. old \notin creating /\ new \notin creating
    BY <1>6 DEF RenameRefused
  <2>7. WS!Settled(old) /\ WS!Settled(new)
    BY <2>6, GuardedIsFree
  <2>8. WS!Unused(old)
    BY <1>6, NobodyOn DEF RenameRefused, InMap, LiveGuarded, Live
  <2>9. WS!BeginMove(old, new)
    BY <1>2, <2>4, <2>7, <2>8, Zenon
       DEF WS!BeginMove, StateF, HomeF, State, Home, Alone, Ways, Way
  <2> QED
    BY <2>5, <2>9
<1> QED
  BY <1>5, <1>6

LEMMA MoveRefines ==
  ASSUME IInv, NEW p \in Procs, Others(p), RenameMove(p)
  PROVE  \E v, w \in Names : WS!Move(v, w)
<1>0. PICK old, new \in Names : old = loc[p].ws /\ new = loc[p].new
  BY DEF RenameMove, At, IInv, ProcOK, LocalOK, KindOK, Moving
<1>1. /\ TypeOK /\ pc[p] = "move" /\ p \in Renames /\ sessions' = sessions
      /\ sessions \subseteq Sids /\ obj \in [Sids -> Objects]
  BY DEF RenameMove, At, IInv, TypeOK, ProcOK, LocalOK, KindOK, Moving, Renames, Renaming
<1>2. /\ old \in Names /\ new \in Names /\ old # NoWs
      /\ \A i \in Sids : LiveGuarded(i) => obj[i].ws # old
  BY <1>0, <1>1, RenameHolds, ConstantsAssumption
<1>3. pc'[p] = "release"
  BY <1>1, Goes DEF RenameMove
<1>4. Ways' = Ways \ {<<old, new>>} /\ <<old, new>> \in Ways
  BY <1>0, <1>1, <1>3, WaysStep DEF Renames, Renaming, Ways, Way
<1>5. \A i \in Sids :
        /\ obj'[i].status = obj[i].status /\ obj'[i].guarded = obj[i].guarded
        /\ obj'[i].ws = IF i \in sessions /\ obj[i].ws = old THEN new ELSE obj[i].ws
  <2> SUFFICES ASSUME NEW i \in Sids
               PROVE  /\ obj'[i].status = obj[i].status /\ obj'[i].guarded = obj[i].guarded
                      /\ obj'[i].ws = IF i \in sessions /\ obj[i].ws = old THEN new ELSE obj[i].ws
    OBVIOUS
  <2> DEFINE s == [obj[i] EXCEPT !.ws = new]
  <2>1. s.status = obj[i].status /\ s.guarded = obj[i].guarded /\ s.ws = new
    BY <1>1 DEF Objects
  <2>2. obj'[i] = IF i \in sessions /\ obj[i].ws = old THEN s ELSE obj[i]
    BY <1>0 DEF RenameMove
  <2> HIDE DEF s
  <2> QED
    BY <2>1, <2>2
<1>6. StateF' = StateF /\ Alone' = Alone
  BY <1>1, <1>5 DEF StateF, State, Alone
<1>7. HomeF' = [i \in Sids |-> IF HomeF[i] = old THEN new ELSE HomeF[i]]
  BY <1>1, <1>2, <1>5 DEF HomeF, Home
<1>8. WS!Unused(old)
  BY <1>2, NobodyOn
<1>9. WS!Move(old, new)
  BY <1>4, <1>6, <1>7, <1>8, Zenon
     DEF WS!Move, StateF, HomeF, State, Home, Alone, Ways, Way
<1> QED
  BY <1>9

LEMMA InitRefines == Init => WS!Init
<1> SUFFICES ASSUME Init PROVE WS!Init
  OBVIOUS
<1>1. StateF = [i \in Sids |-> "none"] /\ HomeF = [i \in Sids |-> NoWs] /\ Alone = {}
  BY DEF Init, StateF, HomeF, State, Home, Alone
<1>2. Ways = {}
  BY DEF Init, Renames, Renaming, Ways
<1>3. /\ StateF \in [Sids -> {"none", "running", "stopped", "gone"}]
      /\ HomeF \in [Sids -> Names \cup {NoWs}]
      /\ \A i \in Sids : StateF[i] \in {"running", "stopped"} <=> HomeF[i] # NoWs
      /\ Alone = {i \in Sids : StateF[i] \in {"running", "stopped"}}
      /\ Ways = {}
      /\ \A i, j \in Alone : StateF[i] = "running" /\ StateF[j] = "running"
                               /\ HomeF[i] = HomeF[j] => i = j
  BY <1>1, <1>2
<1> QED
  BY <1>3, Zenon DEF WS!Init, WS!Apart, WS!There, WS!States, StateF, HomeF, State, Home,
     Alone, Ways, Way

LEMMA StepRefines ==
  ASSUME IInv, IInv', NEW p \in Procs, Step(p)
  PROVE  WS!Next \/ UNCHANGED WS!vars
<1>1. Others(p) /\ sessions \subseteq Sids
  BY StepOthers DEF IInv, TypeOK
<1>2. CASE CreatePublish(p)
  <2>1. {} \in SUBSET Sids /\ (loc[p].held # {}) \in BOOLEAN
    OBVIOUS
  <2> QED
    BY <1>1, <1>2, <2>1, PublishRefines, Zenon DEF WS!Next
<1>3. CASE StopMark(p)
  <2>1. (\E i \in Sids : WS!Stop(i)) => WS!Next
    BY Zenon DEF WS!Next
  <2> QED
    BY <1>1, <1>3, <2>1, MarkRefines
<1>4. CASE StartRename(p) /\ p \in Requests
  BY <1>1, <1>4, StartRenameRefines, Zenon DEF WS!Next
<1>5. CASE RenameMove(p)
  BY <1>1, <1>5, MoveRefines, Zenon DEF WS!Next
<1>6. CASE Plain(p)
  BY <1>1, <1>6, PlainRefines, Zenon DEF WS!Next
<1>7. CASE Drops(p)
  BY <1>1, <1>7, DropsRefines, Zenon DEF WS!Next
<1> QED
  BY <1>2, <1>3, <1>4, <1>5, <1>6, <1>7, PlainSteps

\* The manager implements WorkspaceSessions: whatever the goroutines of any
\* number of requests do between their locked sections, their clients see
\* sessions opened, stopped and removed and workspaces moved one at a time
\* (manager.go:274, 305, 380, 513 and 607).
THEOREM ManagerImplements == Spec => ImplementsSessions
<1>1. IInv /\ IInv' /\ [Next]_vars => [WS!Next]_(WS!vars)
  <2> SUFFICES ASSUME IInv, IInv', [Next]_vars PROVE [WS!Next]_(WS!vars)
    OBVIOUS
  <2>1. CASE UNCHANGED vars
    BY <2>1 DEF vars, managerVars, WS!vars, Renames
  <2>2. ASSUME NEW p \in Procs, Step(p) PROVE [WS!Next]_(WS!vars)
    BY <2>2, StepRefines
  <2>3. ASSUME NEW i \in Sids, Work(i) PROVE UNCHANGED WS!vars
    <3>1. /\ UNCHANGED <<sessions, pc, loc>>
          /\ \A j \in Sids : SameSeen(j)
      BY <2>3, WorkSame DEF SameObjs, SameEnd, SameSeen
    <3>2. \A j \in Sids : sessions \subseteq Sids /\ State(j)' = State(j) /\ Home(j)' = Home(j)
      BY <3>1 DEF State, Home, SameSeen, IInv, TypeOK
    <3>3. Alone' = Alone /\ Renames' = Renames /\ Ways' = Ways
      BY <3>1 DEF Alone, SameSeen, Renames, Ways, Way, IInv, TypeOK
    <3> QED
      BY <3>2, <3>3, Zenon DEF WS!vars, State, Home, Alone, Ways, Way
  <2>4. Next => UNCHANGED vars \/ (\E p \in Procs : Step(p)) \/ \E i \in Sids : Work(i)
    BY ConstantsAssumption DEF Next, Quiescent, Step, Procs
  <2> QED
    BY <2>1, <2>2, <2>3, <2>4
<1> QED
  BY <1>1, InitRefines, Invariance, PTL DEF Spec, ImplementsSessions, WS!Spec

=============================================================================
