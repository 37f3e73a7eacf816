------------------------ MODULE SessionManagerProofs ------------------------
(***************************************************************************)
(* What holds of the session manager for any number of requests, sessions  *)
(* and workspaces, any capacity and any failures of the sandbox: the types *)
(* of its state, the discipline of the creating guard, the exclusion of    *)
(* two running sessions on one workspace, and the single cleaner.          *)
(*                                                                         *)
(* One inductive invariant carries all of them.  ProcOK says what one      *)
(* goroutine relies on at each control point, SessOK what holds of each    *)
(* session; StepLemma shows that a step of one goroutine keeps the         *)
(* invariant when it keeps it for that goroutine and changes the shared    *)
(* state only in the ways listed, and each action is shown to be such a    *)
(* step.                                                                   *)
(***************************************************************************)
EXTENDS SessionManager, TLAPS

\* Control points at which a goroutine works on a published session, those
\* at which a Create owns a session nobody else knows, and those of a Create
\* that was admitted.
Working  == {"mark", "spawn", "background", "claim", "signal", "commit",
             "halt", "remove", "save", "wait", "waiting", "decide", "discard", "clean"}
Making   == Creating \cup {"container"}
Admitted == Making \cup {"prepare"}
Moving   == {"check", "copy", "tag", "rollback", "untag", "drop", "move"}

LiveGuarded(i) == Live(i) /\ obj[i].guarded

\* The session a goroutine at label with locals l works on.
SidsOK(p, label, l) ==
  /\ label \in Working => l.sid \in Sids /\ obj[l.sid].status # "none"
  /\ label \in Making =>
       l.sid \in issued /\ obj[l.sid].status = "none" /\ l.ws \in Names
  /\ \A i \in l.todo : obj[i].status # "none"
  /\ label \in Cleaning => obj[l.sid].cleaned

\* The channel a Stop will close.
StopOK(label, l) ==
  /\ label \in {"mark", "spawn", "background", "claim", "signal"}
       => l.op = "stop"
  /\ label \in {"next", "wait", "waiting", "decide", "clean", "remove"}
       => l.op # "stop"
  /\ label = "background" => obj[l.sid].stopDone # NoChan
  /\ l.op = "stop" /\ label \in {"claim", "commit", "halt", "save", "signal"}
       => l.ch # NoChan

\* The entries of the guard it owns, and what they keep away.
HeldOK(label, l) ==
  /\ l.held # {} => \/ label \in Admitted \cup {"release"}
                    \/ l.op = "rename" /\ label \in Renaming
  /\ label \in Admitted /\ l.held # {} => l.held = {l.ws}
  /\ l.op = "rename" /\ label \in Renaming => l.held = {l.ws, l.new}
  /\ label \in Admitted =>
       \A i \in Sids : LiveGuarded(i) => obj[i].ws \notin l.held
  /\ l.op = "rename" /\ label \in Renaming =>
       \A i \in Sids : LiveGuarded(i) => obj[i].ws # l.ws

KindOK(p, label, l) ==
  /\ l.op = "rename" => l.ws \in Names /\ l.new \in Names
  /\ label \in Moving => l.op = "rename"
  /\ p \in Sids => /\ l.sid = p /\ l.op = "evict" /\ l.held = {}
                   /\ label \notin Admitted \cup {"begin", "next"}

LocalOK(p, label, l) ==
  /\ SidsOK(p, label, l)
  /\ StopOK(label, l)
  /\ HeldOK(label, l)
  /\ KindOK(p, label, l)

ProcOK(p) == LocalOK(p, pc[p], loc[p])

SessOK(i) ==
  /\ i \in sessions => obj[i].status # "none"
  /\ obj[i].status # "none" => i \in issued /\ obj[i].ws \in Names

OneMaker ==
  \A p, q \in Procs : pc[p] \in Making /\ pc[q] \in Making
                        /\ loc[p].sid = loc[q].sid => p = q

IInv ==
  /\ TypeOK
  /\ \A p \in Procs : ProcOK(p)
  /\ \A i \in Sids : SessOK(i)
  /\ OneMaker
  /\ OneCleaner
  /\ GuardHasOneOwner
  /\ GuardedExclusive

----------------------------------------------------------------------------
(* Frames.                                                                 *)

LEMMA SandboxSame == SandboxTypeOK /\ UNCHANGED sandboxVars => SandboxTypeOK'
  BY DEF SandboxTypeOK, sandboxVars

LEMMA BlankType == \A p \in Procs : Blank(p) \in Locals
  BY DEF Blank, Locals, Ops, RepoKinds

LEMMA BlankOK == \A p \in Procs : LocalOK(p, "done", Blank(p))
  BY DEF Blank, LocalOK, SidsOK, StopOK, HeldOK, KindOK, Working, Making,
         Creating, Cleaning, Admitted, Renaming, Moving

\* One goroutine moves; a Create may start the goroutine of the session it
\* evicts at the same time.
Moves(p, label, l) ==
  /\ pc' \in [Procs -> Labels] /\ loc' \in [Procs -> Locals]
  /\ pc'[p] = label /\ loc'[p] = l
  /\ \A q \in Procs : q # p =>
       /\ loc'[q] = loc[q]
       /\ pc'[q] = pc[q] \/ (q \in sessions /\ pc'[q] = "wait")

LEMMA GoMoves ==
  ASSUME TypeOK, NEW p \in Procs, NEW label \in Labels, NEW l \in Locals,
         Go(p, label, l)
  PROVE  Moves(p, label, IF label = "done" THEN Blank(p) ELSE l)
  BY BlankType DEF TypeOK, Go, Moves

\* What a step of p may do to the sessions: published ones stay so, p may
\* publish the one it made, and nothing running and guarded appears on a
\* workspace but under the guard that p holds.
SessionsKept(p) ==
  /\ issued \subseteq issued'
  /\ \A i \in Sids : obj[i].status # "none" =>
       /\ obj'[i].status # "none"
       /\ obj[i].stopDone # NoChan => obj'[i].stopDone # NoChan
       /\ obj[i].cleaned => obj'[i].cleaned
  /\ \A i \in Sids : obj[i].status = "none" =>
       obj'[i].status = "none" \/ (pc[p] \in Making /\ i = loc[p].sid)
  /\ \A i \in Sids : LiveGuarded(i)' =>
       \/ LiveGuarded(i) /\ obj'[i].ws = obj[i].ws
       \/ pc[p] \in Admitted /\ i = loc[p].sid /\ obj'[i].ws \in loc[p].held

\* What it may do to the guard: delete entries of its own, add free ones.
GuardKept(p, l) ==
  /\ l.held \cap creating \subseteq loc[p].held
  /\ creating' = (creating \ loc[p].held) \cup l.held

\* Entering the exclusive parts: a fresh id, a session nobody cleans.
EntersOK(p, label, l) ==
  /\ label \in Making =>
       l.sid \notin issued \/ (pc[p] \in Making /\ l.sid = loc[p].sid)
  /\ label \in Cleaning =>
       ~obj[l.sid].cleaned \/ (pc[p] \in Cleaning /\ l.sid = loc[p].sid)

LEMMA StepLemma ==
  ASSUME IInv, TypeOK', NEW p \in Procs, NEW label, NEW l,
         Moves(p, label, l), ProcOK(p)',
         \A i \in Sids : SessOK(i)',
         SessionsKept(p), GuardKept(p, l), EntersOK(p, label, l)
  PROVE  IInv'
  <1>1. /\ pc'[p] = label /\ loc'[p] = l
        /\ \A q \in Procs : q # p =>
             /\ loc'[q] = loc[q]
             /\ pc'[q] = pc[q] \/ (q \in sessions /\ pc'[q] = "wait")
    BY DEF Moves
  <1>2. ProcOK(p) /\ loc[p] \in Locals
    BY DEF IInv, TypeOK
  <1>3. ASSUME NEW q \in Procs, q # p
        PROVE  ProcOK(q)'
    <2>1. ProcOK(q) /\ loc'[q] = loc[q] /\ loc[q] \in Locals
      BY <1>1, <1>3 DEF IInv, TypeOK
    <2>2. loc[p].held \cap loc[q].held = {}
      BY <1>3 DEF IInv, GuardHasOneOwner
    <2>3. CASE pc'[q] = pc[q]
      <3>1. SidsOK(q, pc[q], loc[q])'
        <4>1. pc[q] \in Making => obj'[loc[q].sid].status = "none"
          BY <2>1, <1>3 DEF IInv, ProcOK, LocalOK, SidsOK, OneMaker,
             SessionsKept, TypeOK
        <4>2. \A i \in loc[q].todo : obj'[i].status # "none"
          BY <2>1 DEF ProcOK, LocalOK, SidsOK, Locals, SessionsKept
        <4>3. pc[q] \in Working =>
                loc[q].sid \in Sids /\ obj'[loc[q].sid].status # "none"
          BY <2>1 DEF ProcOK, LocalOK, SidsOK, SessionsKept
        <4>4. pc[q] \in Cleaning => obj'[loc[q].sid].cleaned
          BY <2>1 DEF ProcOK, LocalOK, SidsOK, SessionsKept, Cleaning, Working
        <4>5. QED
          BY <4>1, <4>2, <4>3, <4>4, <2>1, <2>3
             DEF ProcOK, LocalOK, SidsOK, SessionsKept
      <3>2. StopOK(pc[q], loc[q])'
        BY <2>1, <2>3
           DEF ProcOK, LocalOK, StopOK, SidsOK, SessionsKept, Working
      <3>3. HeldOK(pc[q], loc[q])'
        <4>1. ASSUME NEW i \in Sids, LiveGuarded(i)', pc[q] \in Admitted
              PROVE  obj'[i].ws \notin loc[q].held
          BY <2>1, <2>2, <4>1
             DEF ProcOK, LocalOK, HeldOK, SessionsKept
        <4>2. ASSUME NEW i \in Sids, LiveGuarded(i)',
                     loc[q].op = "rename", pc[q] \in Renaming
              PROVE  obj'[i].ws # loc[q].ws
          BY <2>1, <2>2, <4>2
             DEF ProcOK, LocalOK, HeldOK, SessionsKept
        <4>3. QED
          BY <2>1, <2>3, <4>1, <4>2 DEF ProcOK, LocalOK, HeldOK
      <3>4. KindOK(q, pc[q], loc[q])'
        BY <2>1, <2>3 DEF ProcOK, LocalOK, KindOK
      <3>5. QED
        BY <3>1, <3>2, <3>3, <3>4 DEF ProcOK, LocalOK
    <2>4. CASE q \in sessions /\ pc'[q] = "wait"
      <3>1. /\ loc[q].sid = q /\ loc[q].op = "evict" /\ loc[q].held = {}
            /\ q \in Sids /\ obj'[q].status # "none"
        BY <2>1, <2>4 DEF IInv, TypeOK, ProcOK, LocalOK, KindOK, SessOK,
           SessionsKept
      <3>2. \A i \in loc[q].todo : obj'[i].status # "none"
        BY <2>1 DEF ProcOK, LocalOK, SidsOK, Locals, SessionsKept
      <3>3. QED
        BY <2>1, <2>4, <3>1, <3>2
           DEF ProcOK, LocalOK, SidsOK, StopOK, HeldOK, KindOK, Making,
               Creating, Working, Cleaning, Admitted, Moving
    <2>5. QED
      BY <1>1, <1>3, <2>3, <2>4
  <1>4. OneMaker'
    BY <1>1 DEF IInv, OneMaker, ProcOK, LocalOK, SidsOK, EntersOK, Making,
       Creating
  <1>5. OneCleaner'
    BY <1>1 DEF IInv, OneCleaner, ProcOK, LocalOK, SidsOK, EntersOK, Cleaning
  <1>6. GuardHasOneOwner'
    <2>1. \A q, r \in Procs :
            loc'[q].held \cap loc'[r].held # {} => q = r
      BY <1>1 DEF IInv, GuardHasOneOwner, GuardKept
    <2>2. creating' = UNION {loc'[q].held : q \in Procs}
      BY <1>1 DEF IInv, GuardHasOneOwner, GuardKept
    <2>3. QED
      BY <2>1, <2>2 DEF GuardHasOneOwner
  <1>7. GuardedExclusive'
    BY <1>2 DEF IInv, GuardedExclusive, LiveGuarded, SessionsKept, ProcOK,
       LocalOK, HeldOK
  <1>8. QED
    BY <1>3, <1>4, <1>5, <1>6, <1>7 DEF IInv

\* A step that touches no guard, and of the session objects their history at
\* most; sessions may leave the map.
LEMMA LocalStep ==
  ASSUME IInv, NEW p \in Procs, NEW label \in Labels, NEW l \in Locals,
         Go(p, label, l), UNCHANGED <<issued, creating>>,
         obj' \in [Sids -> Objects],
         \A i \in Sids :
           /\ obj'[i].ws = obj[i].ws /\ obj'[i].guarded = obj[i].guarded
           /\ obj'[i].status = obj[i].status
           /\ obj'[i].stopDone = obj[i].stopDone
           /\ obj'[i].cleaned = obj[i].cleaned,
         sessions' \subseteq sessions, closed' \subseteq Requests,
         records' \in [Sids -> {"none", "running", "stopped"}],
         panicked' \in BOOLEAN, SandboxTypeOK',
         label # "done" => LocalOK(p, label, l) /\ l.held = loc[p].held,
         label = "done" => loc[p].held = {},
         EntersOK(p, label, l)
  PROVE  IInv'
  <1> DEFINE m == IF label = "done" THEN Blank(p) ELSE l
  <1>1. Moves(p, label, m)
    BY GoMoves DEF IInv
  <1>2. TypeOK'
    BY <1>1 DEF IInv, TypeOK, Moves
  <1>3. LocalOK(p, label, m)
    BY BlankOK
  <1>4. ProcOK(p)'
    <2>1. pc'[p] = label /\ loc'[p] = m
      BY <1>1 DEF Moves
    <2>2. m \in Locals
      BY BlankType
    <2>3. \A i \in Sids : LiveGuarded(i)' => LiveGuarded(i)
      BY DEF LiveGuarded, Live
    <2> HIDE DEF m
    <2>4. SidsOK(p, label, m)'
      <3>1. SidsOK(p, label, m)
        BY <1>3 DEF LocalOK
      <3>2. m.todo \subseteq Sids /\ issued \subseteq Sids
        BY <2>2 DEF Locals, IInv, TypeOK
      <3>3. Cleaning \subseteq Working
        BY DEF Cleaning, Working
      <3> QED
        BY <3>1, <3>2, <3>3 DEF SidsOK
    <2>5. StopOK(label, m)'
      BY <1>3, <2>2, <2>4 DEF LocalOK, StopOK, SidsOK, Working
    <2>6. HeldOK(label, m)'
      BY <1>3, <2>3 DEF LocalOK, HeldOK
    <2>7. KindOK(p, label, m)'
      BY <1>3 DEF LocalOK, KindOK
    <2>8. QED
      BY <2>1, <2>4, <2>5, <2>6, <2>7 DEF ProcOK, LocalOK
  <1>5. \A i \in Sids : SessOK(i)'
    BY DEF IInv, SessOK
  <1>6. SessionsKept(p)
    BY DEF SessionsKept, LiveGuarded, Live
  <1>7. GuardKept(p, m)
    <2>1. m.held = loc[p].held
      BY DEF Blank
    <2>2. loc[p].held \subseteq creating
      BY DEF IInv, GuardHasOneOwner
    <2>3. QED
      BY <2>1, <2>2 DEF GuardKept
  <1>8. EntersOK(p, label, m)
    BY DEF EntersOK, Making, Creating, Cleaning
  <1>9. QED
    BY <1>1, <1>2, <1>4, <1>5, <1>6, <1>7, <1>8, StepLemma

\* The types of what such a step may leave alone.
LEMMA ManagerTypes ==
  ASSUME IInv
  PROVE  /\ obj \in [Sids -> Objects] /\ closed \subseteq Requests
         /\ records \in [Sids -> {"none", "running", "stopped"}] /\ panicked \in BOOLEAN
  BY DEF IInv, TypeOK

\* A step that leaves the manager's data alone.
LEMMA PlainStep ==
  ASSUME IInv, NEW p \in Procs, NEW label \in Labels, NEW l \in Locals,
         Go(p, label, l), UNCHANGED managerVars, SandboxTypeOK',
         label # "done" => LocalOK(p, label, l) /\ l.held = loc[p].held,
         label = "done" => loc[p].held = {},
         EntersOK(p, label, l)
  PROVE  IInv'
  BY LocalStep, ManagerTypes DEF managerVars

\* A step on the object of a published session.
LEMMA ObjectStep ==
  ASSUME IInv, NEW p \in Procs, NEW label \in Labels \ {"done"},
         NEW l \in Locals, Go(p, label, l),
         obj' \in [Sids -> Objects],
         UNCHANGED <<sessions, creating, closed, records, issued, panicked,
                     sandboxVars>>,
         \A i \in Sids :
           /\ obj'[i].ws = obj[i].ws /\ obj'[i].guarded = obj[i].guarded
           /\ obj'[i].status = obj[i].status
                \/ (obj[i].status # "none" /\ obj'[i].status = "stopped")
           /\ obj[i].stopDone # NoChan => obj'[i].stopDone # NoChan
           /\ obj[i].cleaned => obj'[i].cleaned,
         ProcOK(p)', l.held = loc[p].held, EntersOK(p, label, l)
  PROVE  IInv'
  <1>1. Moves(p, label, l)
    BY GoMoves DEF IInv
  <1>2. TypeOK'
    BY <1>1, SandboxSame DEF IInv, TypeOK, Moves
  <1>3. \A i \in Sids : SessOK(i)'
    BY DEF IInv, SessOK
  <1>4. SessionsKept(p)
    BY DEF SessionsKept, LiveGuarded, Live
  <1>5. GuardKept(p, l)
    BY DEF IInv, GuardHasOneOwner, GuardKept
  <1>6. QED
    BY <1>1, <1>2, <1>3, <1>4, <1>5, StepLemma

----------------------------------------------------------------------------
(* The sandbox keeps its types, whichever call succeeds.                   *)

LEMMA CreationTypes ==
  ASSUME SandboxTypeOK, NEW i \in Sids, NEW w \in Names,
         NEW base \in SUBSET Sids
  PROVE  CreateContainer(i, w, base) \/ CreateContainerFailed(w)
           => SandboxTypeOK'
  BY DEF SandboxTypeOK, CtrStates, CreateContainer, CreateContainerFailed

LEMMA ContainerTypes ==
  ASSUME SandboxTypeOK, NEW i \in Sids
  PROVE  StartContainer(i) \/ StopContainer(i) \/ RemoveContainer(i)
           \/ Populate(i) \/ Clone(i) => SandboxTypeOK'
  BY DEF SandboxTypeOK, CtrStates, StartContainer, StopContainer,
         RemoveContainer, Populate, Clone

LEMMA CommitTypes ==
  ASSUME SandboxTypeOK, NEW i \in Sids, NEW w \in Names
  PROVE  Commit(i, w) => SandboxTypeOK'
  BY DEF SandboxTypeOK, Commit

LEMMA TagTypes ==
  ASSUME SandboxTypeOK, NEW w \in Names, NEW v \in Names
  PROVE  TagImage(w, v) \/ RemoveImage(w) => SandboxTypeOK'
  BY DEF SandboxTypeOK, TagImage, RemoveImage

LEMMA RemoveVolumeTypes ==
  ASSUME SandboxTypeOK, NEW w \in Names
  PROVE  RemoveVolume(w) => SandboxTypeOK'
  <1>1. \A i \in Sids : [ctr[i] EXCEPT !.state = "removed"] \in
          [state : CtrStates, vol : SUBSET Names, env : SUBSET Sids]
    BY DEF SandboxTypeOK, CtrStates
  <1>2. RemoveVolume(w) =>
          ctr' \in [Sids -> [state : CtrStates, vol : SUBSET Names, env : SUBSET Sids]]
    BY <1>1 DEF SandboxTypeOK, RemoveVolume
  <1>3. RemoveVolume(w) => /\ volumes' \subseteq Names /\ data' \in [Names -> SUBSET Sids]
                           /\ tagged' = tagged /\ layers' = layers
    BY DEF SandboxTypeOK, RemoveVolume
  <1>4. QED
    BY <1>2, <1>3 DEF SandboxTypeOK

LEMMA CopyVolumeTypes ==
  ASSUME SandboxTypeOK, NEW w \in Names, NEW v \in Names
  PROVE  CopyVolume(w, v) \/ CopyVolumeFailed(v) => SandboxTypeOK'
  BY DEF SandboxTypeOK, CopyVolume, CopyVolumeFailed

----------------------------------------------------------------------------
(* The steps that change the sandbox and locals only.                      *)

USE DEF At, Goto, Labels, Working, Making, Creating, Cleaning, Admitted,
        Renaming, Moving

LEMMA CreateReuseInv ==
  ASSUME IInv, NEW p \in Procs, CreateReuse(p)
  PROVE  IInv'
  <1>1. p \in Procs /\ ProcOK(p) /\ loc[p] \in Locals /\ SandboxTypeOK
    BY DEF IInv, TypeOK
  <1>2. UNCHANGED managerVars
    BY DEF CreateReuse
  <1>3. SandboxTypeOK'
    BY <1>1, SandboxSame DEF CreateReuse
  <1>4. QED
    BY <1>1, <1>2, <1>3, PlainStep
       DEF CreateReuse, MayCall, Deferred, ProcOK, LocalOK, SidsOK, StopOK, HeldOK,
           KindOK, EntersOK, Locals

LEMMA CreateContainerStepInv ==
  ASSUME IInv, NEW p \in Procs, CreateContainerStep(p)
  PROVE  IInv'
  <1>1. p \in Procs /\ ProcOK(p) /\ loc[p] \in Locals /\ SandboxTypeOK
    BY DEF IInv, TypeOK
  <1>2. UNCHANGED managerVars
    BY DEF CreateContainerStep
  <1>3. SandboxTypeOK'
    <2>1. /\ loc[p].sid \in Sids /\ loc[p].ws \in Names
          /\ layers[loc[p].ws] \in SUBSET Sids
      BY <1>1 DEF IInv, TypeOK, SandboxTypeOK, ProcOK, LocalOK, SidsOK, CreateContainerStep
    <2> DEFINE base == IF loc[p].img THEN layers[loc[p].ws] ELSE {}
    <2>2. base \in SUBSET Sids
      BY <2>1
    <2>3. \/ CreateContainer(loc[p].sid, loc[p].ws, base)
          \/ CreateContainerFailed(loc[p].ws)
      BY DEF CreateContainerStep
    <2> HIDE DEF base
    <2>4. QED
      BY <1>1, <2>1, <2>2, <2>3, CreationTypes
  <1>4. PICK label \in Labels :
          Goto(p, label) /\ pc[p] = "container" /\ (label = "start" \/ label = Deferred(p))
    BY DEF CreateContainerStep, Deferred
  <1>5. LocalOK(p, label, loc[p]) /\ (label = "done" => loc[p].held = {})
    BY <1>1, <1>4 DEF ProcOK, LocalOK, SidsOK, StopOK, HeldOK, KindOK, Deferred
  <1>6. EntersOK(p, label, loc[p])
    BY <1>1, <1>4 DEF EntersOK, ProcOK, LocalOK, SidsOK, Deferred
  <1>7. QED
    BY <1>1, <1>2, <1>3, <1>4, <1>5, <1>6, PlainStep

LEMMA CreateStartInv ==
  ASSUME IInv, NEW p \in Procs, CreateStart(p)
  PROVE  IInv'
  <1>1. p \in Procs /\ ProcOK(p) /\ loc[p] \in Locals /\ SandboxTypeOK
    BY DEF IInv, TypeOK
  <1>2. UNCHANGED managerVars
    BY DEF CreateStart
  <1>3. SandboxTypeOK'
    <2>1. loc[p].sid \in Sids
      BY <1>1 DEF IInv, TypeOK, ProcOK, LocalOK, SidsOK, CreateStart
    <2>2. QED
      BY <1>1, <2>1, SandboxSame, ContainerTypes DEF CreateStart, BestEffort
  <1>4. PICK label \in Labels :
          Goto(p, label) /\ pc[p] = "start" /\ label \in {"setup", "abort"}
    BY DEF CreateStart
  <1>5. LocalOK(p, label, loc[p]) /\ (label = "done" => loc[p].held = {})
    BY <1>1, <1>4 DEF ProcOK, LocalOK, SidsOK, StopOK, HeldOK, KindOK
  <1>6. EntersOK(p, label, loc[p])
    BY <1>1, <1>4 DEF EntersOK, ProcOK, LocalOK, SidsOK
  <1>7. QED
    BY <1>1, <1>2, <1>3, <1>4, <1>5, <1>6, PlainStep

LEMMA CreateSetupInv ==
  ASSUME IInv, NEW p \in Procs, CreateSetup(p)
  PROVE  IInv'
  <1>1. p \in Procs /\ ProcOK(p) /\ loc[p] \in Locals /\ SandboxTypeOK
    BY DEF IInv, TypeOK
  <1>2. UNCHANGED managerVars
    BY DEF CreateSetup
  <1>3. SandboxTypeOK'
    <2>1. loc[p].sid \in Sids
      BY <1>1 DEF IInv, TypeOK, ProcOK, LocalOK, SidsOK, CreateSetup
    <2>2. QED
      BY <1>1, <2>1, SandboxSame, ContainerTypes DEF CreateSetup, BestEffort
  <1>4. PICK label \in Labels :
          Goto(p, label) /\ pc[p] = "setup" /\ label \in {"attach", "scrap"}
    BY DEF CreateSetup
  <1>5. LocalOK(p, label, loc[p]) /\ (label = "done" => loc[p].held = {})
    BY <1>1, <1>4 DEF ProcOK, LocalOK, SidsOK, StopOK, HeldOK, KindOK
  <1>6. EntersOK(p, label, loc[p])
    BY <1>1, <1>4 DEF EntersOK, ProcOK, LocalOK, SidsOK
  <1>7. QED
    BY <1>1, <1>2, <1>3, <1>4, <1>5, <1>6, PlainStep

LEMMA CreateAttachInv ==
  ASSUME IInv, NEW p \in Procs, CreateAttach(p)
  PROVE  IInv'
  <1>1. p \in Procs /\ ProcOK(p) /\ loc[p] \in Locals /\ SandboxTypeOK
    BY DEF IInv, TypeOK
  <1>2. UNCHANGED managerVars
    BY DEF CreateAttach
  <1>3. SandboxTypeOK'
    BY <1>1, SandboxSame DEF CreateAttach
  <1>4. PICK label \in Labels :
          Goto(p, label) /\ pc[p] = "attach" /\ label \in {"publish", "abort"}
    BY DEF CreateAttach
  <1>5. LocalOK(p, label, loc[p]) /\ (label = "done" => loc[p].held = {})
    BY <1>1, <1>4 DEF ProcOK, LocalOK, SidsOK, StopOK, HeldOK, KindOK
  <1>6. EntersOK(p, label, loc[p])
    BY <1>1, <1>4 DEF EntersOK, ProcOK, LocalOK, SidsOK
  <1>7. QED
    BY <1>1, <1>2, <1>3, <1>4, <1>5, <1>6, PlainStep

LEMMA CreateAbortInv ==
  ASSUME IInv, NEW p \in Procs, CreateAbort(p)
  PROVE  IInv'
  <1>1. p \in Procs /\ ProcOK(p) /\ loc[p] \in Locals /\ SandboxTypeOK
    BY DEF IInv, TypeOK
  <1>2. UNCHANGED managerVars
    BY DEF CreateAbort
  <1>3. SandboxTypeOK'
    <2>1. loc[p].sid \in Sids
      BY <1>1 DEF IInv, TypeOK, ProcOK, LocalOK, SidsOK, CreateAbort
    <2>2. QED
      BY <1>1, <2>1, SandboxSame, ContainerTypes DEF CreateAbort
  <1>4. PICK label \in Labels :
          /\ Goto(p, label)
          /\ \/ pc[p] = "scrap" /\ label = "dropvolume"
             \/ pc[p] = "abort" /\ label = Deferred(p)
    BY DEF CreateAbort, Deferred
  <1>5. LocalOK(p, label, loc[p]) /\ (label = "done" => loc[p].held = {})
    BY <1>1, <1>4 DEF ProcOK, LocalOK, SidsOK, StopOK, HeldOK, KindOK, Deferred
  <1>6. EntersOK(p, label, loc[p])
    BY <1>1, <1>4 DEF EntersOK, ProcOK, LocalOK, SidsOK, Deferred
  <1>7. QED
    BY <1>1, <1>2, <1>3, <1>4, <1>5, <1>6, PlainStep

LEMMA CreateDropVolumeInv ==
  ASSUME IInv, NEW p \in Procs, CreateDropVolume(p)
  PROVE  IInv'
  <1>1. p \in Procs /\ ProcOK(p) /\ loc[p] \in Locals /\ SandboxTypeOK
    BY DEF IInv, TypeOK
  <1>2. UNCHANGED managerVars
    BY DEF CreateDropVolume
  <1>3. SandboxTypeOK'
    <2>1. loc[p].ws \in Names
      BY <1>1 DEF ProcOK, LocalOK, SidsOK, CreateDropVolume
    <2>2. QED
      BY <1>1, <2>1, SandboxSame, RemoveVolumeTypes DEF CreateDropVolume
  <1>4. PICK label \in Labels : Goto(p, label) /\ pc[p] = "dropvolume" /\ label = Deferred(p)
    BY DEF CreateDropVolume, Deferred
  <1>5. LocalOK(p, label, loc[p]) /\ (label = "done" => loc[p].held = {})
    BY <1>1, <1>4 DEF ProcOK, LocalOK, SidsOK, StopOK, HeldOK, KindOK, Deferred
  <1>6. EntersOK(p, label, loc[p])
    BY <1>1, <1>4 DEF EntersOK, ProcOK, LocalOK, SidsOK, Deferred
  <1>7. QED
    BY <1>1, <1>2, <1>3, <1>4, <1>5, <1>6, PlainStep

LEMMA CleanCommitInv ==
  ASSUME IInv, NEW p \in Procs, CleanCommit(p)
  PROVE  IInv'
  <1>1. p \in Procs /\ ProcOK(p) /\ loc[p] \in Locals /\ SandboxTypeOK
    BY DEF IInv, TypeOK
  <1>2. UNCHANGED managerVars
    BY DEF CleanCommit
  <1>3. SandboxTypeOK'
    <2>1. loc[p].sid \in Sids
      BY <1>1 DEF ProcOK, LocalOK, SidsOK, CleanCommit
    <2>2. obj[loc[p].sid].ws \in Names
      BY <1>1, <2>1 DEF IInv, SessOK, ProcOK, LocalOK, SidsOK, CleanCommit
    <2>3. QED
      BY <1>1, <2>1, <2>2, SandboxSame, CommitTypes DEF CleanCommit, BestEffort
  <1>4. PICK label \in Labels : Goto(p, label) /\ pc[p] = "commit" /\ label = "halt"
    BY DEF CleanCommit
  <1>5. LocalOK(p, label, loc[p]) /\ (label = "done" => loc[p].held = {})
    BY <1>1, <1>4 DEF ProcOK, LocalOK, SidsOK, StopOK, HeldOK, KindOK
  <1>6. EntersOK(p, label, loc[p])
    BY <1>1, <1>4 DEF EntersOK, ProcOK, LocalOK, SidsOK
  <1>7. QED
    BY <1>1, <1>2, <1>3, <1>4, <1>5, <1>6, PlainStep

LEMMA CleanHaltInv ==
  ASSUME IInv, NEW p \in Procs, CleanHalt(p)
  PROVE  IInv'
  <1>1. p \in Procs /\ ProcOK(p) /\ loc[p] \in Locals /\ SandboxTypeOK
    BY DEF IInv, TypeOK
  <1>2. UNCHANGED managerVars
    BY DEF CleanHalt
  <1>3. SandboxTypeOK'
    <2>1. loc[p].sid \in Sids
      BY <1>1 DEF IInv, TypeOK, ProcOK, LocalOK, SidsOK, CleanHalt
    <2>2. QED
      BY <1>1, <2>1, SandboxSame, ContainerTypes DEF CleanHalt, BestEffort
  <1>4. PICK label \in Labels :
          Goto(p, label) /\ pc[p] = "halt" /\ label = IF loc[p].op = "stop" THEN "save" ELSE "remove"
    BY DEF CleanHalt
  <1>5. LocalOK(p, label, loc[p]) /\ (label = "done" => loc[p].held = {})
    BY <1>1, <1>4 DEF ProcOK, LocalOK, SidsOK, StopOK, HeldOK, KindOK
  <1>6. EntersOK(p, label, loc[p])
    BY <1>1, <1>4 DEF EntersOK, ProcOK, LocalOK, SidsOK
  <1>7. QED
    BY <1>1, <1>2, <1>3, <1>4, <1>5, <1>6, PlainStep

LEMMA CleanRemoveInv ==
  ASSUME IInv, NEW p \in Procs, CleanRemove(p)
  PROVE  IInv'
  <1>1. p \in Procs /\ ProcOK(p) /\ loc[p] \in Locals /\ SandboxTypeOK
    BY DEF IInv, TypeOK
  <1>2. UNCHANGED managerVars
    BY DEF CleanRemove
  <1>3. SandboxTypeOK'
    <2>1. loc[p].sid \in Sids
      BY <1>1 DEF IInv, TypeOK, ProcOK, LocalOK, SidsOK, CleanRemove
    <2>2. QED
      BY <1>1, <2>1, SandboxSame, ContainerTypes DEF CleanRemove, BestEffort
  <1>4. PICK label \in Labels : Goto(p, label) /\ pc[p] = "remove" /\ label = AfterClean(p)
    BY DEF CleanRemove, AfterClean, AfterRetire
  <1>5. LocalOK(p, label, loc[p]) /\ (label = "done" => loc[p].held = {})
    BY <1>1, <1>4 DEF ProcOK, LocalOK, SidsOK, StopOK, HeldOK, KindOK, AfterClean, AfterRetire
  <1>6. EntersOK(p, label, loc[p])
    BY <1>1, <1>4 DEF EntersOK, ProcOK, LocalOK, SidsOK, AfterClean, AfterRetire
  <1>7. QED
    BY <1>1, <1>2, <1>3, <1>4, <1>5, <1>6, PlainStep

LEMMA WaitBeginInv ==
  ASSUME IInv, NEW p \in Procs, WaitBegin(p)
  PROVE  IInv'
  <1>1. p \in Procs /\ ProcOK(p) /\ loc[p] \in Locals /\ SandboxTypeOK
    BY DEF IInv, TypeOK
  <1>2. UNCHANGED managerVars
    BY DEF WaitBegin
  <1>3. SandboxTypeOK'
    BY <1>1, SandboxSame DEF WaitBegin
  <1>a. loc[p].sid \in Sids /\ obj[loc[p].sid].stopDone \in Requests \cup {NoChan}
    BY <1>1 DEF IInv, TypeOK, Objects, ProcOK, LocalOK, SidsOK, WaitBegin
  <1> DEFINE l == [loc[p] EXCEPT !.ch = obj[loc[p].sid].stopDone]
  <1>4. Go(p, "waiting", l) /\ pc[p] = "wait"
    BY DEF WaitBegin
  <1>5. /\ l \in Locals /\ l.op = loc[p].op /\ l.ws = loc[p].ws /\ l.new = loc[p].new
        /\ l.sid = loc[p].sid /\ l.held = loc[p].held /\ l.todo = loc[p].todo
    BY <1>1, <1>a DEF Locals
  <1> HIDE DEF l
  <1>6. LocalOK(p, "waiting", l)
    BY <1>1, <1>4, <1>5 DEF ProcOK, LocalOK, SidsOK, StopOK, HeldOK, KindOK
  <1>7. EntersOK(p, "waiting", l)
    BY DEF EntersOK
  <1>8. QED
    BY <1>1, <1>2, <1>3, <1>4, <1>5, <1>6, <1>7, PlainStep

LEMMA WaitEndInv ==
  ASSUME IInv, NEW p \in Procs, WaitEnd(p)
  PROVE  IInv'
  <1>1. p \in Procs /\ ProcOK(p) /\ loc[p] \in Locals /\ SandboxTypeOK
    BY DEF IInv, TypeOK
  <1>2. UNCHANGED managerVars
    BY DEF WaitEnd
  <1>3. SandboxTypeOK'
    BY <1>1, SandboxSame DEF WaitEnd
  <1>4. PICK label \in Labels :
          /\ Goto(p, label)
          /\ /\ pc[p] = "waiting" /\ label \in {"discard", "next", "decide"}
             /\ label = "next" <=> loc[p].op = "rename"
             /\ label = "discard" <=> loc[p].op = "evict"
    BY DEF WaitEnd
  <1>5. LocalOK(p, label, loc[p]) /\ (label = "done" => loc[p].held = {})
    BY <1>1, <1>4 DEF ProcOK, LocalOK, SidsOK, StopOK, HeldOK, KindOK
  <1>6. EntersOK(p, label, loc[p])
    BY <1>1, <1>4 DEF EntersOK, ProcOK, LocalOK, SidsOK
  <1>7. QED
    BY <1>1, <1>2, <1>3, <1>4, <1>5, <1>6, PlainStep

LEMMA DecideInv ==
  ASSUME IInv, NEW p \in Procs, Decide(p)
  PROVE  IInv'
  <1>1. p \in Procs /\ ProcOK(p) /\ loc[p] \in Locals /\ SandboxTypeOK
    BY DEF IInv, TypeOK
  <1>2. UNCHANGED managerVars
    BY DEF Decide
  <1>3. SandboxTypeOK'
    BY <1>1, SandboxSame DEF Decide
  <1>4. PICK label \in Labels :
          Goto(p, label) /\ pc[p] = "decide" /\ label \in {"discard", "clean"}
    BY DEF Decide
  <1>5. LocalOK(p, label, loc[p]) /\ (label = "done" => loc[p].held = {})
    BY <1>1, <1>4 DEF ProcOK, LocalOK, SidsOK, StopOK, HeldOK, KindOK
  <1>6. EntersOK(p, label, loc[p])
    BY <1>1, <1>4 DEF EntersOK, ProcOK, LocalOK, SidsOK
  <1>7. QED
    BY <1>1, <1>2, <1>3, <1>4, <1>5, <1>6, PlainStep

LEMMA DiscardInv ==
  ASSUME IInv, NEW p \in Procs, Discard(p)
  PROVE  IInv'
  <1>1. p \in Procs /\ ProcOK(p) /\ loc[p] \in Locals /\ SandboxTypeOK
    BY DEF IInv, TypeOK
  <1>2. UNCHANGED managerVars
    BY DEF Discard
  <1>3. SandboxTypeOK'
    <2>1. loc[p].sid \in Sids
      BY <1>1 DEF IInv, TypeOK, ProcOK, LocalOK, SidsOK, Discard
    <2>2. QED
      BY <1>1, <2>1, SandboxSame, ContainerTypes DEF Discard, BestEffort
  <1>4. PICK label \in Labels : Goto(p, label) /\ pc[p] = "discard" /\ label = AfterRetire(p)
    BY DEF Discard, AfterRetire
  <1>5. LocalOK(p, label, loc[p]) /\ (label = "done" => loc[p].held = {})
    BY <1>1, <1>4 DEF ProcOK, LocalOK, SidsOK, StopOK, HeldOK, KindOK, AfterRetire
  <1>6. EntersOK(p, label, loc[p])
    BY <1>1, <1>4 DEF EntersOK, ProcOK, LocalOK, SidsOK, AfterRetire
  <1>7. QED
    BY <1>1, <1>2, <1>3, <1>4, <1>5, <1>6, PlainStep

LEMMA StartDeleteWorkspaceInv ==
  ASSUME IInv, NEW p \in Requests, StartDeleteWorkspace(p)
  PROVE  IInv'
  <1>1. p \in Procs /\ ProcOK(p) /\ loc[p] \in Locals /\ SandboxTypeOK
    BY DEF IInv, TypeOK, Procs
  <1>2. UNCHANGED managerVars
    BY DEF StartDeleteWorkspace
  <1>3. SandboxTypeOK'
    BY <1>1, SandboxSame, RemoveVolumeTypes DEF StartDeleteWorkspace, SandboxTypeOK
  <1>4. Goto(p, "done") /\ pc[p] = "idle"
    BY DEF StartDeleteWorkspace, MayCall
  <1>5. loc[p].held = {}
    BY <1>1, <1>4 DEF ProcOK, LocalOK, HeldOK, KindOK
  <1>6. EntersOK(p, "done", loc[p])
    BY DEF EntersOK
  <1>7. QED
    BY <1>1, <1>2, <1>3, <1>4, <1>5, <1>6, PlainStep

LEMMA RenameCheckInv ==
  ASSUME IInv, NEW p \in Procs, RenameCheck(p)
  PROVE  IInv'
  <1>1. p \in Procs /\ ProcOK(p) /\ loc[p] \in Locals /\ SandboxTypeOK
    BY DEF IInv, TypeOK
  <1>2. UNCHANGED managerVars
    BY DEF RenameCheck
  <1>3. SandboxTypeOK'
    BY <1>1, SandboxSame DEF RenameCheck
  <1>4. PICK label \in Labels :
          Goto(p, label) /\ pc[p] = "check" /\ label \in {"copy", "release"}
    BY DEF RenameCheck
  <1>5. LocalOK(p, label, loc[p]) /\ (label = "done" => loc[p].held = {})
    BY <1>1, <1>4 DEF ProcOK, LocalOK, SidsOK, StopOK, HeldOK, KindOK
  <1>6. EntersOK(p, label, loc[p])
    BY <1>1, <1>4 DEF EntersOK, ProcOK, LocalOK, SidsOK
  <1>7. QED
    BY <1>1, <1>2, <1>3, <1>4, <1>5, <1>6, PlainStep

LEMMA RenameCopyInv ==
  ASSUME IInv, NEW p \in Procs, RenameCopy(p)
  PROVE  IInv'
  <1>1. p \in Procs /\ ProcOK(p) /\ loc[p] \in Locals /\ SandboxTypeOK
    BY DEF IInv, TypeOK
  <1>2. UNCHANGED managerVars
    BY DEF RenameCopy
  <1>3. SandboxTypeOK'
    <2>1. loc[p].ws \in Names /\ loc[p].new \in Names
      BY <1>1 DEF ProcOK, LocalOK, KindOK, RenameCopy
    <2>2. QED
      BY <1>1, <2>1, SandboxSame, CopyVolumeTypes DEF RenameCopy
  <1>4. PICK label \in Labels :
          Goto(p, label) /\ pc[p] = "copy" /\ label \in {"tag", "release"}
    BY DEF RenameCopy
  <1>5. LocalOK(p, label, loc[p]) /\ (label = "done" => loc[p].held = {})
    BY <1>1, <1>4 DEF ProcOK, LocalOK, SidsOK, StopOK, HeldOK, KindOK
  <1>6. EntersOK(p, label, loc[p])
    BY <1>1, <1>4 DEF EntersOK, ProcOK, LocalOK, SidsOK
  <1>7. QED
    BY <1>1, <1>2, <1>3, <1>4, <1>5, <1>6, PlainStep

LEMMA RenameTagInv ==
  ASSUME IInv, NEW p \in Procs, RenameTag(p)
  PROVE  IInv'
  <1>1. p \in Procs /\ ProcOK(p) /\ loc[p] \in Locals /\ SandboxTypeOK
    BY DEF IInv, TypeOK
  <1>2. UNCHANGED managerVars
    BY DEF RenameTag
  <1>3. SandboxTypeOK'
    <2>1. loc[p].ws \in Names /\ loc[p].new \in Names
      BY <1>1 DEF ProcOK, LocalOK, KindOK, RenameTag
    <2>2. QED
      BY <1>1, <2>1, SandboxSame, TagTypes DEF RenameTag
  <1>4. PICK label \in Labels :
          Goto(p, label) /\ pc[p] = "tag" /\ label \in {"untag", "drop", "rollback"}
    BY DEF RenameTag
  <1>5. LocalOK(p, label, loc[p]) /\ (label = "done" => loc[p].held = {})
    BY <1>1, <1>4 DEF ProcOK, LocalOK, SidsOK, StopOK, HeldOK, KindOK
  <1>6. EntersOK(p, label, loc[p])
    BY <1>1, <1>4 DEF EntersOK, ProcOK, LocalOK, SidsOK
  <1>7. QED
    BY <1>1, <1>2, <1>3, <1>4, <1>5, <1>6, PlainStep

LEMMA RenameRollbackInv ==
  ASSUME IInv, NEW p \in Procs, RenameRollback(p)
  PROVE  IInv'
  <1>1. p \in Procs /\ ProcOK(p) /\ loc[p] \in Locals /\ SandboxTypeOK
    BY DEF IInv, TypeOK
  <1>2. UNCHANGED managerVars
    BY DEF RenameRollback
  <1>3. SandboxTypeOK'
    <2>1. loc[p].ws \in Names /\ loc[p].new \in Names
      BY <1>1 DEF ProcOK, LocalOK, KindOK, RenameRollback
    <2>2. QED
      BY <1>1, <2>1, SandboxSame, RemoveVolumeTypes DEF RenameRollback
  <1>4. PICK label \in Labels : Goto(p, label) /\ pc[p] = "rollback" /\ label = "release"
    BY DEF RenameRollback
  <1>5. LocalOK(p, label, loc[p]) /\ (label = "done" => loc[p].held = {})
    BY <1>1, <1>4 DEF ProcOK, LocalOK, SidsOK, StopOK, HeldOK, KindOK
  <1>6. EntersOK(p, label, loc[p])
    BY <1>1, <1>4 DEF EntersOK, ProcOK, LocalOK, SidsOK
  <1>7. QED
    BY <1>1, <1>2, <1>3, <1>4, <1>5, <1>6, PlainStep

LEMMA RenameUntagInv ==
  ASSUME IInv, NEW p \in Procs, RenameUntag(p)
  PROVE  IInv'
  <1>1. p \in Procs /\ ProcOK(p) /\ loc[p] \in Locals /\ SandboxTypeOK
    BY DEF IInv, TypeOK
  <1>2. UNCHANGED managerVars
    BY DEF RenameUntag
  <1>3. SandboxTypeOK'
    <2>1. loc[p].ws \in Names /\ loc[p].new \in Names
      BY <1>1 DEF ProcOK, LocalOK, KindOK, RenameUntag
    <2>2. QED
      BY <1>1, <2>1, SandboxSame, TagTypes DEF RenameUntag
  <1>4. PICK label \in Labels : Goto(p, label) /\ pc[p] = "untag" /\ label = "drop"
    BY DEF RenameUntag
  <1>5. LocalOK(p, label, loc[p]) /\ (label = "done" => loc[p].held = {})
    BY <1>1, <1>4 DEF ProcOK, LocalOK, SidsOK, StopOK, HeldOK, KindOK
  <1>6. EntersOK(p, label, loc[p])
    BY <1>1, <1>4 DEF EntersOK, ProcOK, LocalOK, SidsOK
  <1>7. QED
    BY <1>1, <1>2, <1>3, <1>4, <1>5, <1>6, PlainStep

LEMMA RenameDropInv ==
  ASSUME IInv, NEW p \in Procs, RenameDrop(p)
  PROVE  IInv'
  <1>1. p \in Procs /\ ProcOK(p) /\ loc[p] \in Locals /\ SandboxTypeOK
    BY DEF IInv, TypeOK
  <1>2. UNCHANGED managerVars
    BY DEF RenameDrop
  <1>3. SandboxTypeOK'
    <2>1. loc[p].ws \in Names /\ loc[p].new \in Names
      BY <1>1 DEF ProcOK, LocalOK, KindOK, RenameDrop
    <2>2. QED
      BY <1>1, <2>1, SandboxSame, RemoveVolumeTypes DEF RenameDrop
  <1>4. PICK label \in Labels : Goto(p, label) /\ pc[p] = "drop" /\ label = "move"
    BY DEF RenameDrop
  <1>5. LocalOK(p, label, loc[p]) /\ (label = "done" => loc[p].held = {})
    BY <1>1, <1>4 DEF ProcOK, LocalOK, SidsOK, StopOK, HeldOK, KindOK
  <1>6. EntersOK(p, label, loc[p])
    BY <1>1, <1>4 DEF EntersOK, ProcOK, LocalOK, SidsOK
  <1>7. QED
    BY <1>1, <1>2, <1>3, <1>4, <1>5, <1>6, PlainStep

\* Where a call starts.
LEMMA IdleFacts ==
  ASSUME IInv, NEW p \in Requests, At(p, "idle")
  PROVE  /\ p \in Procs /\ p \notin Sids /\ loc[p] \in Locals
         /\ loc[p].held = {} /\ \A i \in loc[p].todo : obj[i].status # "none"
  BY ConstantsAssumption
     DEF IInv, TypeOK, Procs, ProcOK, LocalOK, HeldOK, SidsOK

LEMMA StartCreateInv ==
  ASSUME IInv, NEW p \in Requests, StartCreate(p)
  PROVE  IInv'
  <1>1. /\ p \in Procs /\ p \notin Sids /\ loc[p] \in Locals
        /\ loc[p].held = {} /\ \A i \in loc[p].todo : obj[i].status # "none"
    BY IdleFacts DEF StartCreate, MayCall
  <1>2. PICK w \in Asked \cup volumes, repo \in Repos :
          Go(p, "begin", [loc[p] EXCEPT !.op = "create", !.ws = w,
                                        !.repo = repo])
    BY DEF StartCreate
  <1> DEFINE l == [loc[p] EXCEPT !.op = "create", !.ws = w, !.repo = repo]
  <1>3. w \in Names \cup {NoWs} /\ repo \in RepoKinds
    BY ConstantsAssumption DEF IInv, TypeOK, SandboxTypeOK, Names, RepoKinds
  <1>4. l \in Locals
    BY <1>1, <1>3 DEF Locals, Ops
  <1>5. l.op = "create" /\ l.held = {} /\ l.todo = loc[p].todo
    BY <1>1 DEF Locals
  <1>6. LocalOK(p, "begin", l)
    BY <1>1, <1>5 DEF LocalOK, SidsOK, StopOK, HeldOK, KindOK
  <1>7. UNCHANGED managerVars /\ SandboxTypeOK'
    BY SandboxSame DEF IInv, TypeOK, StartCreate
  <1> HIDE DEF l
  <1>8. QED
    BY <1>1, <1>2, <1>4, <1>5, <1>6, <1>7, PlainStep DEF EntersOK, l

LEMMA StartStopInv ==
  ASSUME IInv, NEW p \in Requests, StartStop(p)
  PROVE  IInv'
  <1>1. /\ p \in Procs /\ p \notin Sids /\ loc[p] \in Locals
        /\ loc[p].held = {} /\ \A i \in loc[p].todo : obj[i].status # "none"
    BY IdleFacts DEF StartStop, MayCall
  <1>2. PICK i \in Sids :
          IF i \in sessions /\ obj[i].status = "running"
          THEN Go(p, "mark", [loc[p] EXCEPT !.op = "stop", !.sid = i])
          ELSE Goto(p, "done")
    BY DEF StartStop
  <1>3. UNCHANGED managerVars /\ SandboxTypeOK'
    BY SandboxSame DEF IInv, TypeOK, StartStop
  <1>4. CASE i \in sessions /\ obj[i].status = "running"
    <2> DEFINE l == [loc[p] EXCEPT !.op = "stop", !.sid = i]
    <2>1. Go(p, "mark", l)
      BY <1>2, <1>4
    <2>2. l \in Locals
      BY <1>1 DEF Locals, Ops
    <2>3. l.op = "stop" /\ l.sid = i /\ l.held = {} /\ l.todo = loc[p].todo
      BY <1>1 DEF Locals
    <2>4. LocalOK(p, "mark", l)
      BY <1>1, <1>4, <2>3 DEF LocalOK, SidsOK, StopOK, HeldOK, KindOK
    <2> HIDE DEF l
    <2>5. QED
      BY <1>1, <1>3, <2>1, <2>2, <2>3, <2>4, PlainStep DEF EntersOK
  <1>5. CASE ~(i \in sessions /\ obj[i].status = "running")
    BY <1>1, <1>2, <1>3, <1>5, PlainStep DEF EntersOK
  <1>6. QED
    BY <1>4, <1>5

LEMMA StartReapInv ==
  ASSUME IInv, NEW p \in Requests, StartReap(p)
  PROVE  IInv'
  <1>1. /\ p \in Procs /\ p \notin Sids /\ loc[p] \in Locals
        /\ loc[p].held = {}
    BY IdleFacts DEF StartReap, MayCall
  <1>2. PICK due \in SUBSET {i \in sessions : obj[i].status = "running"} :
          Go(p, "next", [loc[p] EXCEPT !.op = "reap", !.todo = due])
    BY DEF StartReap
  <1> DEFINE l == [loc[p] EXCEPT !.op = "reap", !.todo = due]
  <1>3. l \in Locals
    BY <1>1 DEF IInv, TypeOK, Locals, Ops
  <1>4. l.op = "reap" /\ l.held = {} /\ l.todo = due
    BY <1>1 DEF Locals
  <1>5. LocalOK(p, "next", l)
    BY <1>1, <1>4 DEF LocalOK, SidsOK, StopOK, HeldOK, KindOK
  <1>6. UNCHANGED managerVars /\ SandboxTypeOK'
    BY SandboxSame DEF IInv, TypeOK, StartReap
  <1>7. Go(p, "next", l)
    BY <1>2
  <1> HIDE DEF l
  <1>8. EntersOK(p, "next", l)
    BY DEF EntersOK
  <1>9. QED
    BY <1>1, <1>3, <1>4, <1>5, <1>6, <1>7, <1>8, PlainStep

----------------------------------------------------------------------------
(* The steps that take sessions out of the map, close channels or save     *)
(* records.                                                                *)

LEMMA StopSignalInv ==
  ASSUME IInv, NEW p \in Procs, StopSignal(p)
  PROVE  IInv'
  <1>1. ProcOK(p) /\ loc[p] \in Locals
    BY DEF IInv, TypeOK
  <1>2. closed' \subseteq Requests
    BY <1>1 DEF IInv, TypeOK, StopSignal, ProcOK, LocalOK, StopOK, Locals
  <1>3. panicked' \in BOOLEAN
    BY DEF StopSignal
  <1>4. loc[p].held = {}
    BY <1>1 DEF StopSignal, ProcOK, LocalOK, HeldOK, StopOK
  <1>5. SandboxTypeOK' /\ UNCHANGED <<obj, issued, creating, sessions, records>>
    BY SandboxSame DEF StopSignal, IInv, TypeOK
  <1>6. QED
    BY <1>1, <1>2, <1>3, <1>4, <1>5, LocalStep, ManagerTypes
       DEF StopSignal, EntersOK

LEMMA SaveRecordInv ==
  ASSUME IInv, NEW p \in Procs, SaveRecord(p)
  PROVE  IInv'
  <1>1. ProcOK(p) /\ loc[p] \in Locals
    BY DEF IInv, TypeOK
  <1>2. loc[p].sid \in Sids
    BY <1>1 DEF SaveRecord, ProcOK, LocalOK, SidsOK
  <1>3. records' \in [Sids -> {"none", "running", "stopped"}]
    BY <1>2 DEF IInv, TypeOK, SaveRecord, RecordStatus, Objects
  <1>4. SandboxTypeOK' /\ UNCHANGED <<obj, issued, creating, sessions, closed,
                                      panicked>>
    BY SandboxSame DEF SaveRecord, IInv, TypeOK
  <1>5. loc[p].held = {}
    BY <1>1 DEF SaveRecord, ProcOK, LocalOK, HeldOK
  <1> DEFINE label == IF loc[p].op = "stop" THEN "signal" ELSE AfterRetire(p)
  <1>6. label \in {"signal", "next", "begin", "done"} /\ Go(p, label, loc[p])
    BY DEF SaveRecord, AfterRetire
  <1>7. label = "signal" => loc[p].op = "stop" /\ loc[p].ch # NoChan
    BY <1>1 DEF SaveRecord, ProcOK, LocalOK, StopOK, AfterRetire
  <1>8. /\ label = "next" => loc[p].op \in {"reap", "shutdown"}
        /\ label = "begin" => loc[p].op = "restart"
    BY DEF AfterRetire
  <1> HIDE DEF label
  <1>9. label # "done" => LocalOK(p, label, loc[p])
    BY <1>1, <1>5, <1>6, <1>7, <1>8
       DEF SaveRecord, ProcOK, LocalOK, SidsOK, StopOK, HeldOK, KindOK
  <1>10. EntersOK(p, label, loc[p])
    BY <1>6 DEF EntersOK
  <1>11. /\ sessions' \subseteq sessions /\ closed' \subseteq Requests
         /\ panicked' \in BOOLEAN /\ SandboxTypeOK' /\ label \in Labels
         /\ UNCHANGED <<obj, issued, creating>>
    BY <1>4, <1>6 DEF IInv, TypeOK
  <1>12. QED
    BY <1>1, <1>3, <1>5, <1>6, <1>9, <1>10, <1>11, LocalStep, ManagerTypes

LEMMA StartDeleteInv ==
  ASSUME IInv, NEW p \in Requests, StartDelete(p)
  PROVE  IInv'
  <1>1. /\ p \in Procs /\ p \notin Sids /\ loc[p] \in Locals
        /\ loc[p].held = {} /\ \A i \in loc[p].todo : obj[i].status # "none"
    BY IdleFacts DEF StartDelete, MayCall
  <1>2. PICK i \in Sids :
          IF i \in sessions
          THEN Go(p, "wait", [loc[p] EXCEPT !.op = "delete", !.sid = i])
          ELSE Goto(p, "done")
    BY DEF StartDelete
  <1>3. /\ SandboxTypeOK' /\ sessions' \subseteq sessions
        /\ UNCHANGED <<obj, issued, creating, closed, records, panicked>>
    BY SandboxSame DEF StartDelete, IInv, TypeOK
  <1>4. CASE i \in sessions
    <2> DEFINE l == [loc[p] EXCEPT !.op = "delete", !.sid = i]
    <2>1. Go(p, "wait", l)
      BY <1>2, <1>4
    <2>2. l \in Locals
      BY <1>1 DEF Locals, Ops
    <2>3. l.op = "delete" /\ l.sid = i /\ l.held = {} /\ l.todo = loc[p].todo
      BY <1>1 DEF Locals
    <2>4. obj[i].status # "none"
      BY <1>4 DEF IInv, SessOK
    <2>5. LocalOK(p, "wait", l)
      BY <1>1, <2>3, <2>4 DEF LocalOK, SidsOK, StopOK, HeldOK, KindOK
    <2> HIDE DEF l
    <2>6. EntersOK(p, "wait", l)
      BY DEF EntersOK
    <2>7. QED
      BY <1>1, <1>3, <2>1, <2>2, <2>3, <2>5, <2>6, LocalStep, ManagerTypes
  <1>5. CASE i \notin sessions
    BY <1>1, <1>2, <1>3, <1>5, LocalStep, ManagerTypes DEF EntersOK
  <1>6. QED
    BY <1>4, <1>5

\* The history of a session that is replaced.
LEMMA ReplacedFacts ==
  ASSUME obj \in [Sids -> Objects], NEW k \in Sids,
         obj' = [obj EXCEPT ![k].replaced = TRUE]
  PROVE  /\ obj' \in [Sids -> Objects]
         /\ \A i \in Sids :
              /\ obj'[i].ws = obj[i].ws /\ obj'[i].guarded = obj[i].guarded
              /\ obj'[i].status = obj[i].status
              /\ obj'[i].stopDone = obj[i].stopDone
              /\ obj'[i].cleaned = obj[i].cleaned
  <1> DEFINE s == [obj[k] EXCEPT !.replaced = TRUE]
  <1>1. /\ s \in Objects /\ s.status = obj[k].status /\ s.cleaned = obj[k].cleaned
        /\ s.ws = obj[k].ws /\ s.guarded = obj[k].guarded
        /\ s.stopDone = obj[k].stopDone
    BY DEF Objects
  <1>2. obj' = [obj EXCEPT ![k] = s]
    OBVIOUS
  <1> HIDE DEF s
  <1>3. QED
    BY <1>1, <1>2

LEMMA StartRestartInv ==
  ASSUME IInv, NEW p \in Requests, StartRestart(p)
  PROVE  IInv'
  <1>1. /\ p \in Procs /\ p \notin Sids /\ loc[p] \in Locals
        /\ loc[p].held = {} /\ \A i \in loc[p].todo : obj[i].status # "none"
    BY IdleFacts DEF StartRestart, MayCall
  <1>2. PICK i \in Sids :
          IF i \in sessions
          THEN Go(p, "wait", [loc[p] EXCEPT !.op = "restart", !.sid = i,
                                !.ws = obj[i].ws, !.repo = obj[i].repo])
               /\ obj' = [obj EXCEPT ![i].replaced = TRUE]
          ELSE Goto(p, "done") /\ UNCHANGED obj
    BY DEF StartRestart
  <1>3. /\ SandboxTypeOK' /\ sessions' \subseteq sessions
        /\ UNCHANGED <<issued, creating, closed, records, panicked>>
    BY SandboxSame DEF StartRestart, IInv, TypeOK
  <1>4. CASE i \in sessions
    <2> DEFINE l == [loc[p] EXCEPT !.op = "restart", !.sid = i,
                       !.ws = obj[i].ws, !.repo = obj[i].repo]
    <2>1. Go(p, "wait", l)
      BY <1>2, <1>4
    <2>2. obj[i].ws \in Names \cup {NoWs} /\ obj[i].repo \in RepoKinds
      BY DEF IInv, TypeOK, Objects
    <2>3. l \in Locals
      BY <1>1, <2>2 DEF Locals, Ops
    <2>4. l.op = "restart" /\ l.sid = i /\ l.held = {} /\ l.todo = loc[p].todo
      BY <1>1 DEF Locals
    <2>5. obj[i].status # "none"
      BY <1>4 DEF IInv, SessOK
    <2>6. LocalOK(p, "wait", l)
      BY <1>1, <2>4, <2>5 DEF LocalOK, SidsOK, StopOK, HeldOK, KindOK
    <2> HIDE DEF l
    <2>7. /\ obj' \in [Sids -> Objects]
          /\ \A j \in Sids :
               /\ obj'[j].ws = obj[j].ws /\ obj'[j].guarded = obj[j].guarded
               /\ obj'[j].status = obj[j].status
               /\ obj'[j].stopDone = obj[j].stopDone
               /\ obj'[j].cleaned = obj[j].cleaned
      BY <1>2, <1>4, ReplacedFacts DEF IInv, TypeOK
    <2>8. EntersOK(p, "wait", l)
      BY DEF EntersOK
    <2>9. /\ "wait" \in Labels /\ closed' \subseteq Requests /\ panicked' \in BOOLEAN
          /\ records' \in [Sids -> {"none", "running", "stopped"}]
      BY <1>3, ManagerTypes DEF Labels
    <2>10. LocalOK(p, "wait", l) /\ l.held = loc[p].held
      BY <1>1, <2>4, <2>6
    <2>11. QED
      BY <1>1, <1>3, <2>1, <2>3, <2>7, <2>8, <2>9, <2>10, LocalStep
  <1>5. CASE i \notin sessions
    BY <1>1, <1>2, <1>3, <1>5, LocalStep, ManagerTypes DEF EntersOK
  <1>6. QED
    BY <1>4, <1>5

LEMMA StartShutdownInv ==
  ASSUME IInv, NEW p \in Requests, StartShutdown(p)
  PROVE  IInv'
  <1>1. /\ p \in Procs /\ p \notin Sids /\ loc[p] \in Locals
        /\ loc[p].held = {}
    BY IdleFacts DEF StartShutdown, MayCall
  <1> DEFINE l == [loc[p] EXCEPT !.op = "shutdown", !.todo = sessions]
  <1>2. Go(p, "next", l) /\ sessions' \subseteq sessions
    BY DEF StartShutdown
  <1>3. SandboxTypeOK' /\ UNCHANGED <<obj, issued, creating, closed, records,
                                      panicked>>
    BY SandboxSame DEF StartShutdown, IInv, TypeOK
  <1>4. l \in Locals
    BY <1>1 DEF IInv, TypeOK, Locals, Ops
  <1>5. l.op = "shutdown" /\ l.held = {} /\ l.todo = sessions
    BY <1>1 DEF Locals
  <1>6. LocalOK(p, "next", l)
    BY <1>1, <1>5
       DEF IInv, TypeOK, SessOK, LocalOK, SidsOK, StopOK, HeldOK, KindOK
  <1> HIDE DEF l
  <1>7. EntersOK(p, "next", l)
    BY DEF EntersOK
  <1>8. QED
    BY <1>1, <1>2, <1>3, <1>4, <1>5, <1>6, <1>7, LocalStep, ManagerTypes

LEMMA NextInListInv ==
  ASSUME IInv, NEW p \in Procs, NextInList(p)
  PROVE  IInv'
  <1>1. ProcOK(p) /\ loc[p] \in Locals
    BY DEF IInv, TypeOK
  <1>2. /\ SandboxTypeOK' /\ sessions' \subseteq sessions
        /\ UNCHANGED <<obj, issued, creating, closed, records, panicked>>
    BY SandboxSame DEF NextInList, IInv, TypeOK
  <1>3. CASE loc[p].todo = {} /\ Goto(p, IF loc[p].op = "rename" THEN "check"
                                                                ELSE "done")
    <2>1. pc[p] = "next"
      BY DEF NextInList
    <2>2. CASE loc[p].op = "rename"
      <3>1. LocalOK(p, "check", loc[p])
        BY <1>1, <2>1, <2>2
           DEF ProcOK, LocalOK, SidsOK, StopOK, HeldOK, KindOK
      <3>2. QED
        BY <1>1, <1>2, <1>3, <2>2, <3>1, LocalStep, ManagerTypes DEF EntersOK
    <2>3. CASE loc[p].op # "rename"
      <3>1. loc[p].held = {}
        BY <1>1, <2>1, <2>3 DEF ProcOK, LocalOK, HeldOK
      <3>2. QED
        BY <1>1, <1>2, <1>3, <2>3, <3>1, LocalStep, ManagerTypes DEF EntersOK
    <2>4. QED
      BY <2>2, <2>3
  <1>4. ASSUME NEW i \in loc[p].todo, NEW label \in {"next", "wait"},
               Go(p, label, [loc[p] EXCEPT !.sid = i, !.todo = @ \ {i}])
        PROVE  IInv'
    <2> DEFINE l == [loc[p] EXCEPT !.sid = i, !.todo = @ \ {i}]
    <2>1. /\ l \in Locals /\ l.sid = i /\ l.todo \subseteq loc[p].todo
          /\ l.op = loc[p].op /\ l.held = loc[p].held /\ l.ws = loc[p].ws
          /\ l.new = loc[p].new /\ i \in Sids /\ obj[i].status # "none"
      BY <1>1 DEF Locals, ProcOK, LocalOK, SidsOK
    <2>2. pc[p] = "next" /\ (p \in Sids => loc[p].op = "evict")
      BY <1>1 DEF NextInList, ProcOK, LocalOK, KindOK
    <2>3. p \notin Sids
      BY <1>1, <2>2 DEF ProcOK, LocalOK, KindOK
    <2>4. LocalOK(p, label, l)
      BY <1>1, <1>4, <2>1, <2>2, <2>3
         DEF ProcOK, LocalOK, SidsOK, StopOK, HeldOK, KindOK
    <2>5. Go(p, label, l)
      BY <1>4
    <2> HIDE DEF l
    <2>6. EntersOK(p, label, l)
      BY <1>4 DEF EntersOK
    <2>7. QED
      BY <1>2, <1>4, <2>1, <2>4, <2>5, <2>6, LocalStep, ManagerTypes
  <1>5. QED
    BY <1>3, <1>4 DEF NextInList

----------------------------------------------------------------------------
(* The steps on the object of a published session.                         *)

\* What a Stop and a cleanup know of the session they work on.
LEMMA WorkFacts ==
  ASSUME IInv, NEW p \in Procs, pc[p] \in Working
  PROVE  /\ loc[p] \in Locals /\ loc[p].sid \in Sids /\ obj \in [Sids -> Objects]
         /\ obj[loc[p].sid].status # "none"
         /\ loc[p].op = "stop" => p \in Requests
         /\ loc[p].op = "stop" => loc[p].held = {}
  BY DEF IInv, TypeOK, Procs, ProcOK, LocalOK, SidsOK, HeldOK, KindOK

LEMMA StoppedFacts ==
  ASSUME NEW o \in Objects, NEW p \in Requests
  PROVE  LET s == StoppedBy(o, p) IN
         /\ s \in Objects /\ s.status = "stopped"
         /\ s.ws = o.ws /\ s.guarded = o.guarded
         /\ s.stopDone = o.stopDone /\ s.cleaned = o.cleaned
  <1>1. o.stops \cup {p} \in SUBSET Requests
    BY DEF Objects
  <1>2. StoppedBy(o, p) \in Objects
    BY <1>1 DEF Objects, StoppedBy
  <1>3. QED
    BY <1>2 DEF Objects, StoppedBy

LEMMA StopMarkInv ==
  ASSUME IInv, NEW p \in Procs, StopMark(p)
  PROVE  IInv'
  <1>1. pc[p] = "mark" /\ ProcOK(p) /\ loc[p].op = "stop"
    BY DEF StopMark, IInv, ProcOK, LocalOK, StopOK
  <1>2. /\ loc[p] \in Locals /\ loc[p].sid \in Sids /\ obj \in [Sids -> Objects]
        /\ obj[loc[p].sid].status # "none"
        /\ p \in Requests /\ loc[p].held = {}
    BY <1>1, WorkFacts
  <1> DEFINE s == StoppedBy(obj[loc[p].sid], p)
  <1>3. /\ s \in Objects /\ s.status = "stopped"
        /\ s.ws = obj[loc[p].sid].ws /\ s.guarded = obj[loc[p].sid].guarded
        /\ s.stopDone = obj[loc[p].sid].stopDone
        /\ s.cleaned = obj[loc[p].sid].cleaned
    BY <1>2, StoppedFacts
  <1>4. obj' = [obj EXCEPT ![loc[p].sid] = s] /\ Go(p, "spawn", loc[p])
    BY DEF StopMark
  <1> HIDE DEF s
  <1>5. obj' \in [Sids -> Objects]
    BY <1>2, <1>3, <1>4
  <1>6. \A i \in Sids :
          /\ obj'[i].ws = obj[i].ws /\ obj'[i].guarded = obj[i].guarded
          /\ obj'[i].status = obj[i].status
               \/ (obj[i].status # "none" /\ obj'[i].status = "stopped")
          /\ obj[i].stopDone # NoChan => obj'[i].stopDone # NoChan
          /\ obj[i].cleaned => obj'[i].cleaned
    BY <1>2, <1>3, <1>4
  <1>7. pc'[p] = "spawn" /\ loc'[p] = loc[p]
    BY <1>4 DEF Go, IInv, TypeOK
  <1>8. ProcOK(p)'
    BY <1>1, <1>2, <1>6, <1>7
       DEF ProcOK, LocalOK, SidsOK, StopOK, HeldOK, KindOK, Locals
  <1>9. QED
    BY <1>1, <1>2, <1>4, <1>5, <1>6, <1>8, ObjectStep DEF StopMark, EntersOK

LEMMA StopSpawnInv ==
  ASSUME IInv, NEW p \in Procs, StopSpawn(p)
  PROVE  IInv'
  <1>1. pc[p] = "spawn" /\ ProcOK(p) /\ loc[p].op = "stop"
    BY DEF StopSpawn, IInv, ProcOK, LocalOK, StopOK
  <1>2. /\ loc[p] \in Locals /\ loc[p].sid \in Sids /\ obj \in [Sids -> Objects]
        /\ obj[loc[p].sid].status # "none"
        /\ p \in Requests /\ loc[p].held = {}
    BY <1>1, WorkFacts
  <1> DEFINE s == [obj[loc[p].sid] EXCEPT !.stopDone = p]
  <1>3. /\ s \in Objects /\ s.status = obj[loc[p].sid].status
        /\ s.ws = obj[loc[p].sid].ws /\ s.guarded = obj[loc[p].sid].guarded
        /\ s.stopDone = p /\ s.cleaned = obj[loc[p].sid].cleaned
    BY <1>2 DEF Objects
  <1>4. obj' = [obj EXCEPT ![loc[p].sid] = s] /\ Go(p, "background", loc[p])
    BY DEF StopSpawn
  <1>5. p # NoChan
    BY <1>2, ConstantsAssumption
  <1> HIDE DEF s
  <1>6. obj' \in [Sids -> Objects]
    BY <1>2, <1>3, <1>4
  <1>7. \A i \in Sids :
          /\ obj'[i].ws = obj[i].ws /\ obj'[i].guarded = obj[i].guarded
          /\ obj'[i].status = obj[i].status
               \/ (obj[i].status # "none" /\ obj'[i].status = "stopped")
          /\ obj[i].stopDone # NoChan => obj'[i].stopDone # NoChan
          /\ obj[i].cleaned => obj'[i].cleaned
    BY <1>2, <1>3, <1>4, <1>5
  <1>8. pc'[p] = "background" /\ loc'[p] = loc[p]
    BY <1>4 DEF Go, IInv, TypeOK
  <1>9. obj'[loc[p].sid].stopDone # NoChan
    BY <1>2, <1>3, <1>4, <1>5
  <1>10. ProcOK(p)'
    BY <1>1, <1>2, <1>7, <1>8, <1>9
       DEF ProcOK, LocalOK, SidsOK, StopOK, HeldOK, KindOK, Locals
  <1>11. QED
    BY <1>1, <1>2, <1>4, <1>6, <1>7, <1>10, ObjectStep DEF StopSpawn, EntersOK

\* Winning the compare-and-swap of a session.
LEMMA CleanedFacts ==
  ASSUME obj \in [Sids -> Objects], NEW k \in Sids,
         obj' = [obj EXCEPT ![k].cleaned = TRUE]
  PROVE  /\ obj' \in [Sids -> Objects] /\ obj'[k].cleaned
         /\ \A i \in Sids :
              /\ obj'[i].ws = obj[i].ws /\ obj'[i].guarded = obj[i].guarded
              /\ obj'[i].status = obj[i].status
              /\ obj'[i].stopDone = obj[i].stopDone
              /\ obj[i].cleaned => obj'[i].cleaned
  <1> DEFINE s == [obj[k] EXCEPT !.cleaned = TRUE]
  <1>1. /\ s \in Objects /\ s.status = obj[k].status /\ s.cleaned
        /\ s.ws = obj[k].ws /\ s.guarded = obj[k].guarded
        /\ s.stopDone = obj[k].stopDone
    BY DEF Objects
  <1>2. obj' = [obj EXCEPT ![k] = s]
    OBVIOUS
  <1> HIDE DEF s
  <1>3. QED
    BY <1>1, <1>2

LEMMA StopDeferInv ==
  ASSUME IInv, NEW p \in Procs, StopDefer(p)
  PROVE  IInv'
  <1>1. pc[p] = "background" /\ ProcOK(p) /\ loc[p].op = "stop"
    BY DEF StopDefer, IInv, ProcOK, LocalOK, StopOK
  <1>2. /\ loc[p] \in Locals /\ loc[p].sid \in Sids /\ obj \in [Sids -> Objects]
        /\ obj[loc[p].sid].status # "none"
        /\ p \in Requests /\ loc[p].held = {}
    BY <1>1, WorkFacts
  <1> DEFINE l == [loc[p] EXCEPT !.ch = obj[loc[p].sid].stopDone]
  <1>3. Go(p, "claim", l) /\ UNCHANGED managerVars /\ SandboxTypeOK'
    BY SandboxSame DEF StopDefer, IInv, TypeOK
  <1>4. obj[loc[p].sid].stopDone \in Requests /\ obj[loc[p].sid].stopDone # NoChan
    BY <1>1, <1>2 DEF ProcOK, LocalOK, StopOK, Objects
  <1>5. /\ l \in Locals /\ l.sid = loc[p].sid /\ l.op = "stop" /\ l.held = {}
        /\ l.ch # NoChan /\ l.todo = loc[p].todo
    BY <1>1, <1>2, <1>4 DEF Locals
  <1> HIDE DEF l
  <1>6. LocalOK(p, "claim", l) /\ EntersOK(p, "claim", l)
    BY <1>1, <1>2, <1>5, ConstantsAssumption
       DEF ProcOK, LocalOK, SidsOK, StopOK, HeldOK, KindOK, EntersOK, Locals
  <1>7. l.held = loc[p].held
    BY <1>2, <1>5
  <1>8. QED
    BY <1>3, <1>5, <1>6, <1>7, PlainStep

LEMMA StopClaimInv ==
  ASSUME IInv, NEW p \in Procs, StopClaim(p)
  PROVE  IInv'
  <1>1. pc[p] = "claim" /\ ProcOK(p) /\ loc[p].op = "stop"
    BY DEF StopClaim, IInv, ProcOK, LocalOK, StopOK
  <1>2. /\ loc[p] \in Locals /\ loc[p].sid \in Sids /\ obj \in [Sids -> Objects]
        /\ obj[loc[p].sid].status # "none"
        /\ p \in Requests /\ loc[p].held = {}
    BY <1>1, WorkFacts
  <1> DEFINE k == loc[p].sid
             label == AfterClaim(p)
             l == loc[p]
  <1>3. /\ label \in {"signal", "commit"}
        /\ label = "commit" => ~obj[k].cleaned
    BY DEF AfterClaim
  <1>4. /\ obj' = [obj EXCEPT ![k].cleaned = TRUE] /\ Go(p, label, l)
        /\ UNCHANGED <<sessions, creating, closed, records, issued, panicked,
                       sandboxVars>>
    BY DEF StopClaim
  <1>6. /\ l \in Locals /\ l.sid = k /\ l.op = "stop" /\ l.held = {}
        /\ l.ch # NoChan /\ l.todo = loc[p].todo
    BY <1>1, <1>2 DEF ProcOK, LocalOK, StopOK
  <1> HIDE DEF label, l
  <1>7. /\ obj' \in [Sids -> Objects] /\ obj'[k].cleaned
        /\ \A i \in Sids :
             /\ obj'[i].ws = obj[i].ws /\ obj'[i].guarded = obj[i].guarded
             /\ obj'[i].status = obj[i].status
             /\ obj'[i].stopDone = obj[i].stopDone
             /\ obj[i].cleaned => obj'[i].cleaned
    BY <1>2, <1>4, CleanedFacts
  <1>8. pc'[p] = label /\ loc'[p] = l
    BY <1>3, <1>4 DEF Go, IInv, TypeOK
  <1>9. ProcOK(p)'
    BY <1>1, <1>2, <1>3, <1>6, <1>7, <1>8, ConstantsAssumption
       DEF ProcOK, LocalOK, SidsOK, StopOK, HeldOK, KindOK, Locals
  <1>10. EntersOK(p, label, l)
    BY <1>3, <1>6 DEF EntersOK
  <1>11. label \in Labels \ {"done"} /\ l.held = loc[p].held
    BY <1>2, <1>3, <1>6
  <1>12. \A i \in Sids :
           /\ obj'[i].ws = obj[i].ws /\ obj'[i].guarded = obj[i].guarded
           /\ obj'[i].status = obj[i].status
                \/ (obj[i].status # "none" /\ obj'[i].status = "stopped")
           /\ obj[i].stopDone # NoChan => obj'[i].stopDone # NoChan
           /\ obj[i].cleaned => obj'[i].cleaned
    BY <1>7
  <1>13. QED
    BY <1>4, <1>6, <1>7, <1>9, <1>10, <1>11, <1>12, ObjectStep

LEMMA ClaimInv ==
  ASSUME IInv, NEW p \in Procs, Claim(p)
  PROVE  IInv'
  <1>1. pc[p] = "clean" /\ ProcOK(p) /\ loc[p].op # "stop"
    BY DEF Claim, IInv, ProcOK, LocalOK, StopOK
  <1>2. /\ loc[p] \in Locals /\ loc[p].sid \in Sids /\ obj \in [Sids -> Objects]
        /\ obj[loc[p].sid].status # "none"
    BY <1>1, WorkFacts
  <1> DEFINE k == loc[p].sid
             label == IF obj[k].cleaned THEN "remove" ELSE "commit"
  <1>3. /\ label \in {"remove", "commit"}
        /\ label = "commit" => ~obj[k].cleaned
    OBVIOUS
  <1>4. /\ obj' = [obj EXCEPT ![k].cleaned = TRUE] /\ Go(p, label, loc[p])
        /\ UNCHANGED <<sessions, creating, closed, records, issued, panicked,
                       sandboxVars>>
    BY DEF Claim
  <1> HIDE DEF label
  <1>5. /\ obj' \in [Sids -> Objects] /\ obj'[k].cleaned
        /\ \A i \in Sids :
             /\ obj'[i].ws = obj[i].ws /\ obj'[i].guarded = obj[i].guarded
             /\ obj'[i].status = obj[i].status
             /\ obj'[i].stopDone = obj[i].stopDone
             /\ obj[i].cleaned => obj'[i].cleaned
    BY <1>2, <1>4, CleanedFacts
  <1>6. pc'[p] = label /\ loc'[p] = loc[p]
    BY <1>3, <1>4 DEF Go, IInv, TypeOK
  <1>7. ProcOK(p)'
    BY <1>1, <1>2, <1>3, <1>5, <1>6
       DEF ProcOK, LocalOK, SidsOK, StopOK, HeldOK, KindOK, Locals
  <1>8. EntersOK(p, label, loc[p])
    BY <1>3 DEF EntersOK
  <1>9. QED
    BY <1>2, <1>3, <1>4, <1>5, <1>7, <1>8, ObjectStep

----------------------------------------------------------------------------
(* The steps that take and release the guard, or publish or move sessions. *)

\* A step that leaves the session objects, the map and the ids alone, except
\* that sessions may leave the map.
LEMMA GuardStep ==
  ASSUME IInv, NEW p \in Procs, NEW label, NEW l, Moves(p, label, l),
         UNCHANGED <<obj, closed, records, issued, panicked, sandboxVars>>,
         sessions' \subseteq sessions, creating' \subseteq Names,
         LocalOK(p, label, l), GuardKept(p, l), EntersOK(p, label, l)
  PROVE  IInv'
  <1>1. TypeOK'
    BY SandboxSame DEF IInv, TypeOK, Moves
  <1>2. ProcOK(p)'
    <2>1. pc'[p] = label /\ loc'[p] = l
      BY DEF Moves
    <2>2. LocalOK(p, pc'[p], loc'[p])
      BY <2>1
    <2>3. QED
      BY <2>2 DEF ProcOK, LocalOK, SidsOK, StopOK, HeldOK, KindOK,
         LiveGuarded, Live
  <1>3. \A i \in Sids : SessOK(i)'
    BY DEF IInv, SessOK
  <1>4. SessionsKept(p)
    BY DEF SessionsKept, LiveGuarded, Live
  <1>5. QED
    BY <1>1, <1>2, <1>3, <1>4, StepLemma

LEMMA CreateAdmitInv ==
  ASSUME IInv, NEW p \in Procs, CreateAdmit(p)
  PROVE  IInv'
  <1> DEFINE w == loc[p].ws
  <1>1. /\ pc[p] = "begin" /\ ProcOK(p) /\ loc[p] \in Locals
        /\ pc \in [Procs -> Labels] /\ loc \in [Procs -> Locals]
        /\ w # NoWs => InMap(w, "running") = {}
        /\ UNCHANGED <<obj, closed, records, issued, panicked, sandboxVars>>
    BY DEF CreateAdmit, IInv, TypeOK
  <1>2. PICK out \in IF w = NoWs THEN {{}} ELSE Evictable(w) :
          /\ sessions' = sessions \ out
          /\ creating' = creating \cup Taken(w, out)
          /\ pc' = [q \in Procs |->
                      IF q = p
                      THEN IF Refused(w, out) THEN "done" ELSE "prepare"
                      ELSE IF q \in Spawned(out) THEN "wait" ELSE pc[q]]
          /\ loc' = [loc EXCEPT ![p] =
                      IF Refused(w, out) THEN Blank(p)
                      ELSE [loc[p] EXCEPT !.held = Taken(w, out)]]
    BY DEF CreateAdmit
  <1>3. out \subseteq sessions
    BY DEF Evictable, InMap
  <1>4. p \notin Sids /\ loc[p].held = {}
    BY <1>1 DEF ProcOK, LocalOK, HeldOK, KindOK
  <1>5. /\ Taken(w, out) \in SUBSET Names
        /\ Taken(w, out) # {} => Taken(w, out) = {w} /\ w # NoWs
        /\ Taken(w, out) # {} => ~Refused(w, out) /\ w \notin creating
    BY <1>1 DEF Taken, Refused, Locals
  <1> DEFINE label == IF Refused(w, out) THEN "done" ELSE "prepare"
             l == IF Refused(w, out) THEN Blank(p)
                  ELSE [loc[p] EXCEPT !.held = Taken(w, out)]
  <1>6. l \in Locals
    BY <1>1, <1>5, BlankType DEF Locals
  <1>7. Moves(p, label, l)
    BY <1>1, <1>2, <1>3, <1>6 DEF Moves, Spawned
  <1>8. l.held = Taken(w, out)
    <2>1. CASE Refused(w, out)
      BY <1>5, <2>1 DEF Blank
    <2>2. CASE ~Refused(w, out)
      BY <1>1, <2>2 DEF Locals
    <2>3. QED
      BY <2>1, <2>2
  <1>9. GuardKept(p, l)
    BY <1>2, <1>4, <1>5, <1>8 DEF GuardKept
  <1>10. LocalOK(p, label, l)
    <2>1. CASE Refused(w, out)
      BY <2>1, BlankOK
    <2>2. CASE ~Refused(w, out)
      <3>1. /\ l.ws = w /\ l.op = loc[p].op /\ l.new = loc[p].new
            /\ l.todo = loc[p].todo
        BY <1>1, <2>2 DEF Locals
      <3>2. \A i \in Sids : LiveGuarded(i) => obj[i].ws \notin l.held
        BY <1>1, <1>5, <1>8 DEF LiveGuarded, Live, InMap
      <3> HIDE DEF l
      <3>3. QED
        BY <1>1, <1>4, <1>5, <1>8, <2>2, <3>1, <3>2
           DEF ProcOK, LocalOK, SidsOK, StopOK, HeldOK, KindOK
    <2>3. QED
      BY <2>1, <2>2
  <1>11. EntersOK(p, label, l)
    BY DEF EntersOK
  <1> HIDE DEF label, l
  <1>12. /\ sessions' \subseteq sessions /\ creating' \subseteq Names
    BY <1>2, <1>5 DEF IInv, TypeOK
  <1>13. QED
    BY <1>1, <1>7, <1>9, <1>10, <1>11, <1>12, GuardStep

LEMMA ReleaseInv ==
  ASSUME IInv, NEW p \in Procs, Release(p)
  PROVE  IInv'
  <1>1. loc[p] \in Locals /\ Go(p, "done", loc[p])
    BY DEF Release, IInv, TypeOK
  <1>2. Moves(p, "done", Blank(p))
    BY <1>1, GoMoves DEF IInv
  <1>3. LocalOK(p, "done", Blank(p)) /\ EntersOK(p, "done", Blank(p))
    BY BlankOK DEF EntersOK
  <1>4. GuardKept(p, Blank(p)) /\ creating' \subseteq Names
    BY DEF Release, GuardKept, Blank, IInv, TypeOK
  <1>5. /\ sessions' \subseteq sessions
        /\ UNCHANGED <<obj, closed, records, issued, panicked, sandboxVars>>
    BY DEF Release
  <1>6. QED
    BY <1>2, <1>3, <1>4, <1>5, GuardStep

LEMMA StartRenameInv ==
  ASSUME IInv, NEW p \in Requests, StartRename(p)
  PROVE  IInv'
  <1>1. /\ p \in Procs /\ p \notin Sids /\ loc[p] \in Locals
        /\ loc[p].held = {}
    BY IdleFacts DEF StartRename, MayCall
  <1>2. PICK old \in Workspaces \cup volumes, new \in Workspaces :
          /\ creating' = creating \cup RenameTaken(old, new)
          /\ Go(p, IF RenameRefused(old, new) THEN "done" ELSE "next",
                [loc[p] EXCEPT !.op = "rename", !.ws = old, !.new = new,
                               !.held = RenameTaken(old, new),
                               !.todo = InMap(old, "stopped")])
    BY DEF StartRename
  <1>3. old \in Names /\ new \in Names
    BY DEF IInv, TypeOK, SandboxTypeOK, Names
  <1>4. /\ sessions' \subseteq sessions
        /\ UNCHANGED <<obj, closed, records, issued, panicked, sandboxVars>>
    BY DEF StartRename
  <1>5. CASE RenameRefused(old, new)
    <2>1. RenameTaken(old, new) = {}
      BY <1>5 DEF RenameTaken
    <2> DEFINE l == [loc[p] EXCEPT !.op = "rename", !.ws = old, !.new = new,
                                   !.held = RenameTaken(old, new),
                                   !.todo = InMap(old, "stopped")]
    <2>2. l \in Locals
      BY <1>1, <1>3, <2>1 DEF Locals, Ops, InMap, IInv, TypeOK
    <2>3. Moves(p, "done", Blank(p))
      <3>1. Go(p, "done", l)
        BY <1>2, <1>5
      <3> HIDE DEF l
      <3>2. QED
        BY <1>1, <2>2, <3>1, GoMoves DEF IInv
    <2>4. LocalOK(p, "done", Blank(p)) /\ EntersOK(p, "done", Blank(p))
      BY <1>1, BlankOK DEF EntersOK
    <2>5. GuardKept(p, Blank(p)) /\ creating' \subseteq Names
      BY <1>1, <1>2, <2>1 DEF GuardKept, Blank, IInv, TypeOK
    <2>6. QED
      BY <1>1, <1>4, <2>3, <2>4, <2>5, GuardStep
  <1>6. CASE ~RenameRefused(old, new)
    <2> DEFINE l == [loc[p] EXCEPT !.op = "rename", !.ws = old, !.new = new,
                                   !.held = RenameTaken(old, new),
                                   !.todo = InMap(old, "stopped")]
    <2>1. /\ RenameTaken(old, new) = {old, new}
          /\ {old, new} \cap creating = {} /\ InMap(old, "running") = {}
      BY <1>6 DEF RenameTaken, RenameRefused
    <2>2. l \in Locals
      BY <1>1, <1>3, <2>1 DEF Locals, Ops, InMap, IInv, TypeOK
    <2>3. /\ l.op = "rename" /\ l.ws = old /\ l.new = new
          /\ l.held = {old, new} /\ l.todo = InMap(old, "stopped")
      BY <1>1, <2>1 DEF Locals
    <2>4. Go(p, "next", l)
      BY <1>2, <1>6
    <2> HIDE DEF l
    <2>5. Moves(p, "next", l)
      BY <1>1, <2>2, <2>4, GoMoves DEF IInv
    <2>6. GuardKept(p, l) /\ creating' \subseteq Names
      BY <1>1, <1>2, <1>3, <2>1, <2>3 DEF GuardKept, IInv, TypeOK
    <2>7. LocalOK(p, "next", l)
      <3>1. \A i \in l.todo : obj[i].status # "none"
        BY <2>3 DEF InMap
      <3>2. \A i \in Sids : LiveGuarded(i) => obj[i].ws # old
        BY <2>1 DEF LiveGuarded, Live, InMap
      <3>3. QED
        BY <1>1, <1>3, <2>3, <3>1, <3>2
           DEF LocalOK, SidsOK, StopOK, HeldOK, KindOK
    <2>8. EntersOK(p, "next", l)
      BY DEF EntersOK
    <2>9. QED
      BY <1>1, <1>4, <2>5, <2>6, <2>7, <2>8, GuardStep
  <1>7. QED
    BY <1>5, <1>6

LEMMA CreatePrepareInv ==
  ASSUME IInv, NEW p \in Procs, CreatePrepare(p)
  PROVE  IInv'
  <1>1. pc[p] = "prepare" /\ ProcOK(p) /\ loc[p] \in Locals
    BY DEF CreatePrepare, IInv, TypeOK
  <1>2. UNCHANGED <<sessions, creating, obj, closed, records, panicked>>
        /\ SandboxTypeOK'
    BY SandboxSame DEF CreatePrepare, IInv, TypeOK
  <1>3. CASE Goto(p, Deferred(p)) /\ UNCHANGED issued
    BY <1>1, <1>2, <1>3, PlainStep
       DEF managerVars, Deferred, ProcOK, LocalOK, SidsOK, StopOK, HeldOK,
           KindOK, EntersOK
  <1>4. ASSUME NEW i \in Sids \ issued, NEW w, NEW g \in BOOLEAN,
               w = IF loc[p].ws = NoWs THEN i ELSE loc[p].ws,
               issued' = issued \cup {i},
               Go(p, "container", [loc[p] EXCEPT !.ws = w, !.sid = i,
                                                 !.img = g])
        PROVE  IInv'
    <2> DEFINE l == [loc[p] EXCEPT !.ws = w, !.sid = i, !.img = g]
    <2>1. w \in Names
      BY <1>1, <1>4 DEF Locals, Names
    <2>2. l \in Locals
      BY <1>1, <2>1 DEF Locals
    <2>3. /\ l.ws = w /\ l.sid = i /\ l.op = loc[p].op /\ l.new = loc[p].new
          /\ l.held = loc[p].held /\ l.todo = loc[p].todo
      BY <1>1 DEF Locals
    <2>4. loc[p].held # {} => loc[p].held = {w}
      BY <1>1, <1>4, ConstantsAssumption
         DEF ProcOK, LocalOK, HeldOK, Locals
    <2>5. Go(p, "container", l)
      BY <1>4
    <2> HIDE DEF l
    <2>6. Moves(p, "container", l)
      BY <2>2, <2>5, GoMoves DEF IInv
    <2>7. TypeOK'
      BY <1>2, <1>4, <2>6 DEF IInv, TypeOK, Moves
    <2>8. pc'[p] = "container" /\ loc'[p] = l /\ obj[i].status = "none"
      BY <2>6 DEF Moves, IInv, SessOK
    <2>9. ProcOK(p)'
      BY <1>1, <1>2, <1>4, <2>1, <2>3, <2>4, <2>8
         DEF ProcOK, LocalOK, SidsOK, StopOK, HeldOK, KindOK, LiveGuarded, Live
    <2>10. \A j \in Sids : SessOK(j)'
      BY <1>2, <1>4 DEF IInv, SessOK
    <2>11. SessionsKept(p)
      BY <1>2, <1>4 DEF SessionsKept, LiveGuarded, Live
    <2>12. GuardKept(p, l)
      BY <1>2, <2>3 DEF IInv, GuardHasOneOwner, GuardKept
    <2>13. EntersOK(p, "container", l)
      BY <2>3 DEF EntersOK
    <2>14. QED
      BY <2>6, <2>7, <2>9, <2>10, <2>11, <2>12, <2>13, StepLemma
  <1>5. ASSUME NEW i \in Sids \ issued, NEW g \in BOOLEAN,
               issued' = issued \cup {i},
               LET w == IF loc[p].ws = NoWs THEN i ELSE loc[p].ws IN
               Go(p, "container", [loc[p] EXCEPT !.ws = w, !.sid = i,
                                                 !.img = g])
        PROVE  IInv'
    <2> DEFINE w == IF loc[p].ws = NoWs THEN i ELSE loc[p].ws
    <2>1. Go(p, "container", [loc[p] EXCEPT !.ws = w, !.sid = i, !.img = g])
      BY <1>5
    <2>2. w = IF loc[p].ws = NoWs THEN i ELSE loc[p].ws
      OBVIOUS
    <2> HIDE DEF w
    <2>3. QED
      BY <1>4, <1>5, <2>1, <2>2
  <1>6. QED
    BY <1>3, <1>5 DEF CreatePrepare

LEMMA CreatePublishInv ==
  ASSUME IInv, NEW p \in Procs, CreatePublish(p)
  PROVE  IInv'
  <1> DEFINE i == loc[p].sid
             o == [ws |-> loc[p].ws, status |-> "running", cleaned |-> FALSE,
                   stopDone |-> NoChan, repo |-> loc[p].repo,
                   guarded |-> loc[p].held # {}, stops |-> {}, replaced |-> FALSE,
                   late |-> FALSE]
             label == Deferred(p)
             l == IF label = "done" THEN Blank(p) ELSE loc[p]
  <1>1. pc[p] = "publish" /\ ProcOK(p) /\ loc[p] \in Locals
    BY DEF CreatePublish, IInv, TypeOK
  <1>2. /\ i \in Sids /\ i \in issued /\ obj[i].status = "none"
        /\ loc[p].ws \in Names /\ obj \in [Sids -> Objects]
    BY <1>1 DEF ProcOK, LocalOK, SidsOK, IInv, TypeOK
  <1>3. /\ sessions' = sessions \cup {i}
        /\ obj' = [obj EXCEPT ![i] = o]
        /\ UNCHANGED <<creating, closed, records, issued, panicked>>
        /\ Go(p, label, loc[p])
    BY DEF CreatePublish
  <1>4. SandboxTypeOK'
    BY SandboxSame DEF CreatePublish, IInv, TypeOK
  <1>5. label \in {"done", "release"} /\ (label = "done" => loc[p].held = {})
    BY DEF Deferred
  <1>6. Moves(p, label, l)
    BY <1>1, <1>3, <1>5, GoMoves DEF IInv
  <1>7. o \in Objects
    BY <1>1, <1>2 DEF Objects, Locals
  <1>8. o.status = "running" /\ o.ws = loc[p].ws
        /\ (o.guarded => loc[p].held = {loc[p].ws})
    BY <1>1 DEF ProcOK, LocalOK, HeldOK
  <1> HIDE DEF o, label
  <1>9. TypeOK'
    BY <1>2, <1>3, <1>4, <1>6, <1>7 DEF IInv, TypeOK, Moves
  <1>10. \A j \in Sids : obj[j].status # "none" => obj'[j] = obj[j]
    BY <1>2, <1>3
  <1>11. ProcOK(p)'
    <2>1. pc'[p] = label /\ loc'[p] = l
      BY <1>6 DEF Moves
    <2>2. CASE label = "done"
      <3>1. /\ l = Blank(p) /\ l.todo = {} /\ l.held = {}
            /\ l.op \notin {"stop", "rename"}
            /\ p \in Sids => l.sid = p /\ l.op = "evict"
        BY <2>2 DEF Blank
      <3>2. QED
        BY <2>1, <2>2, <3>1
           DEF ProcOK, LocalOK, SidsOK, StopOK, HeldOK, KindOK
    <2>3. CASE label = "release"
      <3>1. \A j \in loc[p].todo : obj'[j].status # "none"
        BY <1>1, <1>10 DEF ProcOK, LocalOK, SidsOK, Locals
      <3>2. QED
        BY <1>1, <2>1, <2>3, <3>1
           DEF ProcOK, LocalOK, SidsOK, StopOK, HeldOK, KindOK
    <2>4. QED
      BY <1>5, <2>2, <2>3
  <1>12. \A j \in Sids : SessOK(j)'
    BY <1>2, <1>3, <1>8, <1>10 DEF IInv, SessOK
  <1>13. SessionsKept(p)
    <2>1. \A j \in Sids : LiveGuarded(j)' =>
             \/ LiveGuarded(j) /\ obj'[j].ws = obj[j].ws
             \/ pc[p] \in Admitted /\ j = i /\ obj'[j].ws \in loc[p].held
      BY <1>1, <1>2, <1>3, <1>8 DEF LiveGuarded, Live
    <2>2. QED
      BY <1>1, <1>2, <1>3, <1>10, <2>1 DEF SessionsKept
  <1>14. GuardKept(p, l)
    BY <1>3, <1>5 DEF IInv, GuardHasOneOwner, GuardKept, Blank
  <1>15. EntersOK(p, label, l)
    BY <1>5 DEF EntersOK
  <1>16. QED
    BY <1>6, <1>9, <1>11, <1>12, <1>13, <1>14, <1>15, StepLemma

LEMMA RenameMoveInv ==
  ASSUME IInv, NEW p \in Procs, RenameMove(p)
  PROVE  IInv'
  <1>1. /\ pc[p] = "move" /\ ProcOK(p) /\ loc[p] \in Locals
        /\ loc[p].op = "rename" /\ loc[p].new \in Names
        /\ p \notin Sids
    BY DEF RenameMove, IInv, TypeOK, ProcOK, LocalOK, KindOK
  <1>2. /\ obj' = [i \in Sids |-> IF i \in sessions /\ obj[i].ws = loc[p].ws
                                 THEN [obj[i] EXCEPT !.ws = loc[p].new]
                                 ELSE obj[i]]
        /\ UNCHANGED <<sessions, creating, closed, records, issued, panicked>>
        /\ Go(p, "release", loc[p])
    BY DEF RenameMove
  <1>3. SandboxTypeOK'
    BY SandboxSame DEF RenameMove, IInv, TypeOK
  <1>4. \A i \in Sids : obj[i] \in Objects /\ obj'[i] \in Objects
    <2> SUFFICES ASSUME NEW i \in Sids
                 PROVE  obj[i] \in Objects /\ obj'[i] \in Objects
      OBVIOUS
    <2>1. obj[i] \in Objects
      BY DEF IInv, TypeOK
    <2>2. [obj[i] EXCEPT !.ws = loc[p].new] \in Objects
      BY <1>1, <2>1 DEF Objects
    <2>3. obj'[i] \in {obj[i], [obj[i] EXCEPT !.ws = loc[p].new]}
      BY <1>2
    <2>4. QED
      BY <2>1, <2>2, <2>3
  <1>5. obj' \in [Sids -> Objects]
    BY <1>2, <1>4
  <1>6. \A i \in Sids :
          /\ obj'[i].status = obj[i].status /\ obj'[i].cleaned = obj[i].cleaned
          /\ obj'[i].stopDone = obj[i].stopDone
          /\ obj'[i].guarded = obj[i].guarded
          /\ obj'[i].ws = obj[i].ws \/ obj'[i].ws = loc[p].new
    BY <1>2, <1>4 DEF Objects
  <1>7. \A i \in Sids : LiveGuarded(i) => obj'[i].ws = obj[i].ws
    BY <1>1, <1>2 DEF ProcOK, LocalOK, HeldOK
  <1>8. Moves(p, "release", loc[p])
    BY <1>1, <1>2, GoMoves DEF IInv
  <1>9. TypeOK'
    BY <1>2, <1>3, <1>5, <1>8 DEF IInv, TypeOK, Moves
  <1>10. ProcOK(p)'
    <2>1. pc'[p] = "release" /\ loc'[p] = loc[p]
      BY <1>8 DEF Moves
    <2>2. \A i \in loc[p].todo : obj'[i].status # "none"
      BY <1>1, <1>6 DEF ProcOK, LocalOK, SidsOK, Locals
    <2>3. QED
      BY <1>1, <2>1, <2>2
         DEF ProcOK, LocalOK, SidsOK, StopOK, HeldOK, KindOK
  <1>11. \A i \in Sids : SessOK(i)'
    BY <1>1, <1>2, <1>6 DEF IInv, SessOK
  <1>12. SessionsKept(p)
    BY <1>2, <1>6, <1>7 DEF SessionsKept, LiveGuarded, Live
  <1>13. GuardKept(p, loc[p])
    BY <1>2 DEF IInv, GuardHasOneOwner, GuardKept
  <1>14. EntersOK(p, "release", loc[p])
    BY DEF EntersOK
  <1>15. QED
    BY <1>8, <1>9, <1>10, <1>11, <1>12, <1>13, <1>14, StepLemma

----------------------------------------------------------------------------
(* The theorems.                                                           *)

LEMMA InitInv == Init => IInv
  <1> SUFFICES ASSUME Init PROVE IInv
    OBVIOUS
  <1>1. SandboxTypeOK
    BY DEF Init, SandboxInit, SandboxTypeOK, CtrStates
  <1>2. obj \in [Sids -> Objects]
    BY DEF Init, Objects, RepoKinds
  <1>3. loc \in [Procs -> Locals]
    BY BlankType DEF Init
  <1>4. TypeOK
    BY <1>1, <1>2, <1>3 DEF Init, TypeOK
  <1>5. ASSUME NEW p \in Procs
        PROVE  /\ pc[p] = "idle" /\ loc[p] = Blank(p) /\ loc[p].held = {}
               /\ ProcOK(p)
    <2>1. pc[p] = "idle" /\ loc[p] = Blank(p)
      BY DEF Init
    <2>2. QED
      BY <2>1 DEF Blank, ProcOK, LocalOK, SidsOK, StopOK, HeldOK, KindOK
  <1>6. \A i \in Sids : SessOK(i) /\ ~Live(i)
    BY DEF Init, SessOK, Live
  <1>7. OneMaker /\ OneCleaner
    BY <1>5 DEF OneMaker, OneCleaner
  <1>8. GuardHasOneOwner
    BY <1>5 DEF Init, GuardHasOneOwner
  <1>9. GuardedExclusive
    BY <1>6 DEF GuardedExclusive
  <1>10. QED
    BY <1>4, <1>5, <1>6, <1>7, <1>8, <1>9 DEF IInv

\* Nothing moves, and of the session objects their history at most changes.
LEMMA QuietInv ==
  ASSUME IInv, TypeOK', UNCHANGED <<sessions, creating, issued, pc, loc>>,
         \A i \in Sids :
           /\ obj'[i].ws = obj[i].ws /\ obj'[i].guarded = obj[i].guarded
           /\ obj'[i].status = obj[i].status
           /\ obj'[i].stopDone = obj[i].stopDone
           /\ obj'[i].cleaned = obj[i].cleaned
  PROVE  IInv'
  <1>1. \A i \in Sids : (LiveGuarded(i)' <=> LiveGuarded(i)) /\ (Live(i)' <=> Live(i))
    BY DEF LiveGuarded, Live
  <1>2. \A p \in Procs : ProcOK(p)'
    <2> SUFFICES ASSUME NEW p \in Procs PROVE ProcOK(p)'
      OBVIOUS
    <2>1. LocalOK(p, pc[p], loc[p]) /\ loc[p] \in Locals /\ pc' = pc /\ loc' = loc
      BY DEF IInv, ProcOK, TypeOK
    <2>2. SidsOK(p, pc[p], loc[p])'
      BY <2>1 DEF LocalOK, SidsOK, IInv, TypeOK, Locals
    <2>3. StopOK(pc[p], loc[p])'
      BY <2>1 DEF LocalOK, SidsOK, StopOK, Locals
    <2>4. HeldOK(pc[p], loc[p])'
      BY <1>1, <2>1 DEF LocalOK, HeldOK
    <2>5. KindOK(p, pc[p], loc[p])'
      BY <2>1 DEF LocalOK, KindOK
    <2>6. QED
      BY <2>2, <2>3, <2>4, <2>5 DEF ProcOK, LocalOK
  <1>3. \A i \in Sids : SessOK(i)'
    BY DEF IInv, SessOK
  <1>4. OneMaker' /\ OneCleaner' /\ GuardHasOneOwner'
    BY DEF IInv, OneMaker, OneCleaner, GuardHasOneOwner
  <1>5. GuardedExclusive'
    BY <1>1 DEF IInv, GuardedExclusive
  <1>6. QED
    BY <1>2, <1>3, <1>4, <1>5 DEF IInv

\* A process that does nothing.
LEMMA StutterInv ==
  ASSUME IInv, UNCHANGED vars
  PROVE  IInv'
  <1>1. UNCHANGED managerVars /\ UNCHANGED sandboxVars /\ pc' = pc /\ loc' = loc
    BY DEF vars
  <1>2. TypeOK'
    BY <1>1 DEF IInv, TypeOK, SandboxTypeOK, managerVars, sandboxVars
  <1>3. QED
    BY <1>1, <1>2, QuietInv DEF managerVars

\* Setting the history of a session.
LEMMA LateFacts ==
  ASSUME obj \in [Sids -> Objects], NEW k \in Sids, NEW b \in BOOLEAN,
         obj' = [obj EXCEPT ![k].late = b]
  PROVE  /\ obj' \in [Sids -> Objects] /\ obj'[k].late = b
         /\ \A i \in Sids :
              /\ obj'[i].ws = obj[i].ws /\ obj'[i].guarded = obj[i].guarded
              /\ obj'[i].status = obj[i].status
              /\ obj'[i].stopDone = obj[i].stopDone
              /\ obj'[i].cleaned = obj[i].cleaned
              /\ obj'[i].stops = obj[i].stops /\ obj'[i].replaced = obj[i].replaced
              /\ i # k => obj'[i] = obj[i]
  <1> DEFINE s == [obj[k] EXCEPT !.late = b]
  <1>1. /\ s \in Objects /\ s.status = obj[k].status /\ s.late = b
        /\ s.ws = obj[k].ws /\ s.guarded = obj[k].guarded
        /\ s.stopDone = obj[k].stopDone /\ s.cleaned = obj[k].cleaned
        /\ s.stops = obj[k].stops /\ s.replaced = obj[k].replaced
    BY DEF Objects
  <1>2. obj' = [obj EXCEPT ![k] = s]
    OBVIOUS
  <1> HIDE DEF s
  <1>3. QED
    BY <1>1, <1>2

LEMMA WorkInv ==
  ASSUME IInv, NEW i \in Sids, Work(i)
  PROVE  IInv'
  <1>1. UNCHANGED <<sessions, creating, closed, records, issued, panicked, pc, loc>>
    BY DEF Work
  <1> DEFINE b == obj[i].late \/ \E w \in ctr[i].vol : Copied(w)
  <1>2. b \in BOOLEAN /\ obj' = [obj EXCEPT ![i].late = b]
    BY DEF Work
  <1> HIDE DEF b
  <1>3. /\ obj' \in [Sids -> Objects]
        /\ \A k \in Sids :
              /\ obj'[k].ws = obj[k].ws /\ obj'[k].guarded = obj[k].guarded
              /\ obj'[k].status = obj[k].status
              /\ obj'[k].stopDone = obj[k].stopDone
              /\ obj'[k].cleaned = obj[k].cleaned
    BY <1>2, LateFacts, ManagerTypes
  <1>4. SandboxTypeOK'
    BY ContainerTypes DEF Work, IInv, TypeOK
  <1>5. TypeOK'
    BY <1>1, <1>3, <1>4 DEF IInv, TypeOK
  <1>6. QED
    BY <1>1, <1>3, <1>5, QuietInv

LEMMA StartInv ==
  ASSUME IInv, NEW p \in Requests, Start(p)
  PROVE  IInv'
  BY StartCreateInv, StartStopInv, StartDeleteInv, StartRestartInv,
     StartReapInv, StartShutdownInv, StartRenameInv, StartDeleteWorkspaceInv
     DEF Start

LEMMA RunInv ==
  ASSUME IInv, NEW p \in Procs, Run(p)
  PROVE  IInv'
  BY CreateReuseInv, CreateAdmitInv, CreatePrepareInv, CreateContainerStepInv,
     CreateStartInv, CreateSetupInv, CreateAttachInv, CreateAbortInv,
     CreateDropVolumeInv, CreatePublishInv, ReleaseInv, StopMarkInv,
     StopSpawnInv, StopDeferInv, StopClaimInv, StopSignalInv, CleanCommitInv, CleanHaltInv,
     CleanRemoveInv, SaveRecordInv, NextInListInv, WaitBeginInv, WaitEndInv,
     DecideInv, DiscardInv, ClaimInv, RenameCheckInv, RenameCopyInv,
     RenameTagInv, RenameRollbackInv, RenameUntagInv, RenameDropInv,
     RenameMoveInv
     DEF Run

LEMMA NextInv == IInv /\ [Next]_vars => IInv'
  <1> SUFFICES ASSUME IInv, [Next]_vars PROVE IInv'
    OBVIOUS
  <1>1. CASE \E p \in Requests : Start(p)
    BY <1>1, StartInv
  <1>2. CASE \E p \in Procs : Run(p)
    BY <1>2, RunInv
  <1>3. CASE UNCHANGED vars
    BY <1>3, StutterInv
  <1>4. CASE \E i \in Workers : Work(i)
    BY <1>4, WorkInv, ConstantsAssumption
  <1>5. QED
    BY <1>1, <1>2, <1>3, <1>4 DEF Next, Quiescent

\* The invariant that carries the theorems below holds in every execution of
\* the manager.
THEOREM Invariance == Spec => []IInv
  BY InitInv, NextInv, PTL DEF Spec

\* Every variable keeps its type.  The manager never uses a session, a
\* channel or a workspace name that does not exist.
THEOREM TypeCorrect == Spec => []TypeOK
  <1>1. IInv => TypeOK
    BY DEF IInv
  <1>2. QED
    BY <1>1, Invariance, PTL

\* The creating guard does what the comment on Create (manager.go:83) claims
\* for the Creates that name a workspace: two running sessions in the map
\* that were created under the guard are never on the same workspace,
\* whatever is stopped, evicted, deleted or renamed in between.
THEOREM GuardExcludes == Spec => []GuardedExclusive
  <1>1. IInv => GuardedExclusive
    BY DEF IInv
  <1>2. QED
    BY <1>1, Invariance, PTL

\* The deferred deletes of Create and RenameWorkspace (manager.go:121 and
\* 539) neither leave an entry behind nor delete the entry of another.
THEOREM GuardIsOwned == Spec => []GuardHasOneOwner
  <1>1. IInv => GuardHasOneOwner
    BY DEF IInv
  <1>2. QED
    BY <1>1, Invariance, PTL

\* While RenameWorkspace copies a volume and removes the old one, no session
\* created under the guard runs on the workspace it renames (manager.go:509).
THEOREM RenameIsExclusive == Spec => []RenameExcludesRunning
  <1>1. IInv => RenameExcludesRunning
    BY DEF IInv, ProcOK, LocalOK, HeldOK, LiveGuarded, RenameExcludesRunning
  <1>2. QED
    BY <1>1, Invariance, PTL

\* The compare-and-swap on Session.cleaned gives the commit and the stop of
\* a container to a single goroutine, among any number of Stops, Deletes and
\* Restarts of the session, the reaper and the shutdown.
THEOREM SingleCleaner == Spec => []OneCleaner
  <1>1. IInv => OneCleaner
    BY DEF IInv
  <1>2. QED
    BY <1>1, Invariance, PTL

=============================================================================
