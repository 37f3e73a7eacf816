---------------------------- MODULE StoresProofs ----------------------------
(***************************************************************************)
(* What holds of the stores and of the three pages that use them, for any  *)
(* agents, clients, sessions, requests, crashes and bounds.                *)
(***************************************************************************)
EXTENDS Stores, FiniteSetTheorems, TLAPS

----------------------------------------------------------------------------
(* The agent store: its types and its lock, that no acknowledged change is *)
(* lost, and that it implements DurableMap.  The invariant needs, besides, *)
(* that the request that holds the lock still finds its change in the map, *)
(* and that what it is about to rename is the map.                         *)

Values == Configs \cup {NoConfig}

\* StoreTypeOK, taken apart.
Data ==
  /\ mem \in Maps /\ file \in Maps /\ tmp \in Maps \cup {Torn}
  /\ may \in [Agents -> SUBSET Values]
Control ==
  /\ pc \in [Clients -> {"idle", "asked", "built", "ok", "failed"} \cup Flushing]
  /\ req \in [Clients -> Requests] /\ got \in [Clients -> Maps]
  /\ lock \in Clients \cup {NoClient}
Bounds == asks \in Nat /\ crashes \in Nat /\ faults \in Nat
Locked == \A c \in Clients : lock = c <=> pc[c] \in Flushing

\* What the holder of the lock relies on, from step to step.
Held ==
  \A c \in Clients :
    /\ pc[c] = "built" => req[c].op = "put"
    /\ pc[c] \in Flushing => req[c].op \in {"put", "delete"} /\ mem[req[c].name] = Wanted(req[c])
    /\ pc[c] = "written" => tmp = mem

Expected == \A a \in Agents : mem[a] \in may[a] /\ file[a] \in may[a]

Inv == Data /\ Control /\ Bounds /\ Locked /\ Held /\ Expected

----------------------------------------------------------------------------
LEMMA RequestFields ==
  ASSUME NEW r \in Requests
  PROVE  /\ Wanted(r) \in Values
         /\ r.op \in {"put", "delete"} => r.name \in Agents
  BY DEF Requests, Wanted, Values

LEMMA SomeRequest == NoRequest \in Requests
<1>1. PICK v : v \in Configs
  BY StoreAssumption
<1>2. [op |-> "list", name |-> NoAgent, cfg |-> v, by |-> "page"] \in Requests
  BY <1>1 DEF Requests
<1> QED
  BY <1>2 DEF NoRequest

LEMMA EmptyIsMap == Empty \in Maps
  BY DEF Empty, Maps

\* The file is never torn, and Load gives it.
LEMMA LoadedIsFile == ASSUME Data PROVE Loaded = file /\ Loaded \in Maps
  BY StoreAssumption DEF Data, Loaded, Maps

----------------------------------------------------------------------------
LEMMA InitInv == StoreInit => Inv
<1> SUFFICES ASSUME StoreInit PROVE Inv
  OBVIOUS
<1>1. Data
  BY DEF StoreInit, Data, Maps, Values
<1>2. Control
  BY SomeRequest, EmptyIsMap DEF StoreInit, Control
<1>3. Bounds /\ Locked /\ Held
  BY StoreAssumption DEF StoreInit, Bounds, Locked, Held, Flushing
<1>4. Expected
  BY DEF StoreInit, Expected
<1> QED
  BY <1>1, <1>2, <1>3, <1>4 DEF Inv

\* A step of one request that leaves the data alone and stays outside the
\* lock.
LEMMA QuietStep ==
  ASSUME Inv, NEW c \in Clients, NEW p \in {"idle", "asked", "built", "ok", "failed"},
         pc[c] \notin Flushing, pc' = [pc EXCEPT ![c] = p],
         UNCHANGED <<mem, file, tmp, lock, may>>,
         req' \in [Clients -> Requests], got' \in [Clients -> Maps],
         \A d \in Clients \ {c} : req'[d] = req[d],
         p = "built" => req'[c].op = "put",
         Bounds'
  PROVE  Inv'
<1>1. Data' /\ Expected'
  BY DEF Inv, Data, Expected
<1>2. Control'
  BY DEF Inv, Control
<1>3. Locked'
  BY DEF Inv, Locked, Control, Flushing
<1>4. ASSUME NEW d \in Clients
      PROVE  /\ pc'[d] = "built" => req'[d].op = "put"
             /\ pc'[d] \in Flushing =>
                  req'[d].op \in {"put", "delete"} /\ mem'[req'[d].name] = Wanted(req'[d])
             /\ pc'[d] = "written" => tmp' = mem'
  <2>1. CASE d = c
    BY <2>1 DEF Inv, Control, Flushing
  <2>2. CASE d # c
    <3>1. pc'[d] = pc[d] /\ req'[d] = req[d]
      BY <2>2 DEF Inv, Control
    <3> QED
      BY <3>1 DEF Inv, Held
  <2> QED
    BY <2>1, <2>2
<1>5. Held'
  BY <1>4 DEF Held, Wanted
<1> QED
  BY <1>1, <1>2, <1>3, <1>5 DEF Inv

LEMMA AskStep == ASSUME Inv, NEW c \in Clients, NEW r \in Requests, Ask(c, r) PROVE Inv'
<1>1. pc[c] \notin Flushing /\ req' \in [Clients -> Requests] /\ got' \in [Clients -> Maps]
  BY DEF Ask, At, Flushing, Inv, Control
<1>2. Bounds'
  BY DEF Ask, Inv, Bounds
<1>3. \A d \in Clients \ {c} : req'[d] = req[d]
  BY DEF Ask, Inv, Control
<1> QED
  BY <1>1, <1>2, <1>3, QuietStep DEF Ask, Goto

LEMMA BuildStep == ASSUME Inv, NEW c \in Clients, Build(c) PROVE Inv'
<1>1. pc[c] \notin Flushing /\ req' \in [Clients -> Requests] /\ got' \in [Clients -> Maps]
  BY DEF Build, At, Flushing, Inv, Control
<1>2. Bounds' /\ \A d \in Clients : req'[d] = req[d]
  BY DEF Build, Inv, Bounds
<1>3. PICK p \in {"built", "failed"} : pc' = [pc EXCEPT ![c] = p]
  BY DEF Build, Goto
<1>4. req'[c].op = "put" /\ UNCHANGED <<mem, file, tmp, lock, may>>
  BY DEF Build
<1> QED
  BY <1>1, <1>2, <1>3, <1>4, QuietStep

LEMMA RefusedStep == ASSUME Inv, NEW c \in Clients, Refused(c) PROVE Inv'
<1>1. pc[c] \notin Flushing /\ req' \in [Clients -> Requests] /\ got' \in [Clients -> Maps]
  BY DEF Refused, At, Flushing, Inv, Control
<1>2. Bounds' /\ \A d \in Clients : req'[d] = req[d]
  BY DEF Refused, Inv, Bounds
<1> QED
  BY <1>1, <1>2, QuietStep DEF Refused, Goto

LEMMA ReadListStep == ASSUME Inv, NEW c \in Clients, ReadList(c) PROVE Inv'
<1>1. pc[c] \notin Flushing /\ req' \in [Clients -> Requests] /\ got' \in [Clients -> Maps]
  BY DEF ReadList, At, Flushing, Inv, Control, Data
<1>2. Bounds' /\ \A d \in Clients : req'[d] = req[d]
  BY DEF ReadList, Inv, Bounds
<1> QED
  BY <1>1, <1>2, QuietStep DEF ReadList, Goto

LEMMA CreateStep == ASSUME Inv, NEW c \in Clients, CreateSession(c) PROVE Inv'
<1>1. pc[c] \notin Flushing /\ req' \in [Clients -> Requests] /\ got' \in [Clients -> Maps]
  BY DEF CreateSession, At, Flushing, Inv, Control
<1>2. Bounds' /\ \A d \in Clients : req'[d] = req[d]
  BY DEF CreateSession, Inv, Bounds
<1>3. PICK p \in {"ok", "failed"} : pc' = [pc EXCEPT ![c] = p]
  BY DEF CreateSession, Goto
<1> QED
  BY <1>1, <1>2, <1>3, QuietStep DEF CreateSession

LEMMA AnswerLostStep == ASSUME Inv, NEW c \in Clients, AnswerLost(c) PROVE Inv'
<1>1. pc[c] \notin Flushing /\ req' \in [Clients -> Requests] /\ got' \in [Clients -> Maps]
  BY DEF AnswerLost, At, Flushing, Inv, Control
<1>2. Bounds' /\ \A d \in Clients : req'[d] = req[d]
  BY DEF AnswerLost, Fault, Inv, Bounds
<1> QED
  BY <1>1, <1>2, QuietStep DEF AnswerLost, Goto

LEMMA DeliverStep == ASSUME Inv, NEW c \in Clients, Deliver(c) PROVE Inv'
<1>1. pc[c] \notin Flushing
  BY DEF Deliver, Flushing
<1>2. req' \in [Clients -> Requests] /\ got' \in [Clients -> Maps]
  BY SomeRequest, EmptyIsMap DEF Deliver, Inv, Control
<1>3. Bounds' /\ \A d \in Clients \ {c} : req'[d] = req[d]
  BY DEF Deliver, Inv, Bounds, Control
<1> QED
  BY <1>1, <1>2, <1>3, QuietStep DEF Deliver, Goto
----------------------------------------------------------------------------
(* The steps under the lock.                                               *)

LEMMA ChangeStep == ASSUME Inv, NEW c \in Clients, Change(c) PROVE Inv'
<1> DEFINE n == req[c].name  w == Wanted(req[c])
<1>1. n \in Agents /\ w \in Values /\ req[c].op \in {"put", "delete"}
  BY RequestFields DEF Change, ReadyToChange, At, Inv, Held, Control
<1>2. mem' = [mem EXCEPT ![n] = w] /\ may' = [may EXCEPT ![n] = @ \cup {w}]
      /\ UNCHANGED <<file, tmp, req, got>> /\ pc' = [pc EXCEPT ![c] = "changed"]
      /\ lock = NoClient /\ lock' = c
  BY DEF Change, Goto
<1>3. Data'
  BY <1>1, <1>2 DEF Inv, Data, Maps, Values
<1>4. Control'
  BY <1>2 DEF Inv, Control, Flushing
<1>5. Bounds'
  BY DEF Change, Inv, Bounds
<1>6. \A d \in Clients : pc[d] \notin Flushing
  BY <1>2, StoreAssumption DEF Inv, Locked
<1>7. \A d \in Clients \ {c} : pc'[d] = pc[d]
  BY <1>2 DEF Inv, Control
<1>8. Locked'
  BY <1>2, <1>6, <1>7 DEF Inv, Control, Locked, Flushing
<1>9. mem'[n] = w /\ pc'[c] = "changed"
  BY <1>1, <1>2 DEF Inv, Data, Control, Maps
<1>10. Held'
  BY <1>1, <1>2, <1>6, <1>7, <1>9 DEF Inv, Held, Flushing, Wanted
<1>11. ASSUME NEW a \in Agents PROVE mem'[a] \in may'[a] /\ file'[a] \in may'[a]
  <2>1. mem[a] \in may[a] /\ file[a] \in may[a]
    BY DEF Inv, Expected
  <2>2. may'[a] = IF a = n THEN may[a] \cup {w} ELSE may[a]
    BY <1>2 DEF Inv, Data
  <2>3. mem'[a] = IF a = n THEN w ELSE mem[a]
    BY <1>2 DEF Inv, Data, Maps
  <2> QED
    BY <1>2, <2>1, <2>2, <2>3
<1>12. Expected'
  BY <1>11 DEF Expected
<1> QED
  BY <1>3, <1>4, <1>5, <1>8, <1>10, <1>12 DEF Inv

\* Writing the temporary file.
LEMMA WriteStep ==
  ASSUME Inv, NEW c \in Clients, OpenTmp(c) \/ WriteTmp(c) PROVE Inv'
<1>1. PICK p \in Flushing :
        /\ pc' = [pc EXCEPT ![c] = p] /\ pc[c] \in Flushing
        /\ p = "written" => tmp' = mem
        /\ tmp' \in {mem, Torn} /\ UNCHANGED <<mem, file, lock, req, got, may>>
  BY DEF OpenTmp, WriteTmp, At, Goto, Flushing
<1>2. Data' /\ Expected'
  BY <1>1 DEF Inv, Data, Expected
<1>3. Control'
  BY <1>1 DEF Inv, Control
<1>4. Bounds'
  BY DEF OpenTmp, WriteTmp, Inv, Bounds
<1>5. \A d \in Clients : pc'[d] = IF d = c THEN p ELSE pc[d]
  BY <1>1 DEF Inv, Control
<1>6. Locked'
  BY <1>1, <1>5 DEF Inv, Locked
<1>7. \A d \in Clients \ {c} : pc[d] \notin Flushing
  BY <1>1 DEF Inv, Locked
<1>8. Held'
  BY <1>1, <1>5, <1>7 DEF Inv, Held, Flushing, Wanted
<1> QED
  BY <1>2, <1>3, <1>4, <1>6, <1>8 DEF Inv

\* Whoever leaves the lock leaves nobody in it.
LEMMA Unlocking ==
  ASSUME Control, Locked, Held, NEW c \in Clients, NEW p \in {"ok", "failed"},
         pc[c] \in Flushing, pc' = [pc EXCEPT ![c] = p], lock' = NoClient,
         UNCHANGED <<mem, req, got>>
  PROVE  Control' /\ Locked' /\ Held'
<1>1. Control'
  BY DEF Control
<1>2. \A d \in Clients : pc'[d] = IF d = c THEN p ELSE pc[d]
  BY DEF Control
<1>3. \A d \in Clients : pc'[d] \notin Flushing
  BY <1>2 DEF Locked, Flushing
<1>4. Locked'
  BY <1>3, StoreAssumption DEF Locked
<1>5. Held'
  BY <1>2, <1>3 DEF Held, Flushing
<1> QED
  BY <1>1, <1>4, <1>5

LEMMA RenameStep == ASSUME Inv, NEW c \in Clients, RenameTmp(c) PROVE Inv'
<1> DEFINE n == req[c].name  w == Wanted(req[c])
<1>1. n \in Agents /\ w \in Values /\ mem[n] = w /\ tmp = mem
  BY RequestFields DEF RenameTmp, At, Inv, Held, Control, Flushing
<1>2. file' = mem /\ tmp' = Torn /\ mem' = mem /\ may' = [may EXCEPT ![n] = {w}]
  BY <1>1 DEF RenameTmp
<1>3. Data'
  BY <1>1, <1>2 DEF Inv, Data, Values
<1>4. pc[c] \in Flushing /\ pc' = [pc EXCEPT ![c] = "ok"] /\ lock' = NoClient
      /\ UNCHANGED <<mem, req, got>>
  BY DEF RenameTmp, At, Goto, Flushing
<1>5. Control' /\ Locked' /\ Held'
  BY <1>4, Unlocking DEF Inv
<1>6. Bounds'
  BY DEF RenameTmp, Inv, Bounds
<1>7. ASSUME NEW a \in Agents PROVE mem'[a] \in may'[a] /\ file'[a] \in may'[a]
  <2>1. may'[a] = IF a = n THEN {w} ELSE may[a]
    BY <1>2 DEF Inv, Data
  <2> QED
    BY <1>1, <1>2, <2>1 DEF Inv, Expected
<1>8. Expected'
  BY <1>7 DEF Expected
<1> QED
  BY <1>3, <1>5, <1>6, <1>8 DEF Inv

LEMMA FlushFailsStep == ASSUME Inv, NEW c \in Clients, FlushFails(c) PROVE Inv'
<1>1. Data' /\ Expected'
  BY DEF FlushFails, Inv, Data, Expected
<1>2. pc[c] \in Flushing /\ pc' = [pc EXCEPT ![c] = "failed"] /\ lock' = NoClient
      /\ UNCHANGED <<mem, req, got>>
  BY DEF FlushFails, Goto, Flushing
<1>3. Control' /\ Locked' /\ Held'
  BY <1>2, Unlocking DEF Inv
<1>4. Bounds'
  BY DEF FlushFails, Fault, Inv, Bounds
<1> QED
  BY <1>1, <1>3, <1>4 DEF Inv

LEMMA CrashStep == ASSUME Inv, CrashAndLoad PROVE Inv'
<1>1. Loaded = file /\ Loaded \in Maps /\ Empty \in Maps
  BY LoadedIsFile, EmptyIsMap DEF Inv
<1>2. \A c \in Clients : pc'[c] \in {"idle", "failed"}
  BY DEF CrashAndLoad
<1>3. Control'
  BY DEF CrashAndLoad, Inv, Control
<1>4. Bounds'
  BY DEF CrashAndLoad, Fault, Inv, Bounds
<1>5. Locked' /\ Held'
  BY <1>2, StoreAssumption DEF CrashAndLoad, Locked, Held, Flushing
<1>6. CASE mem' = Loaded /\ UNCHANGED <<may, faults>>
  <2>1. Data'
    BY <1>1, <1>6 DEF CrashAndLoad, Inv, Data
  <2>2. Expected'
    BY <1>1, <1>6 DEF CrashAndLoad, Inv, Expected
  <2> QED
    BY <1>3, <1>4, <1>5, <2>1, <2>2 DEF Inv
<1>7. CASE mem' = Empty /\ may' = [a \in Agents |-> may[a] \cup {NoConfig}]
  <2>1. Data'
    BY <1>1, <1>7 DEF CrashAndLoad, Inv, Data, Values
  <2>2. Expected'
    BY <1>7 DEF CrashAndLoad, Inv, Expected, Empty
  <2> QED
    BY <1>3, <1>4, <1>5, <2>1, <2>2 DEF Inv
<1> QED
  BY <1>6, <1>7 DEF CrashAndLoad

LEMMA NextInv == Inv /\ [StoreNext]_store => Inv'
<1> SUFFICES ASSUME Inv, [StoreNext]_store PROVE Inv'
  OBVIOUS
<1>1. ASSUME NEW c \in Clients, NEW r \in Requests, Ask(c, r) PROVE Inv'
  BY <1>1, AskStep
<1>2. ASSUME NEW c \in Clients, Handle(c) PROVE Inv'
  BY <1>2, BuildStep, ChangeStep, RefusedStep, WriteStep, RenameStep, ReadListStep, CreateStep
     DEF Handle
<1>3. ASSUME NEW c \in Clients, FlushFails(c) \/ AnswerLost(c) \/ Deliver(c) PROVE Inv'
  BY <1>3, FlushFailsStep, AnswerLostStep, DeliverStep
<1>4. CASE CrashAndLoad
  BY <1>4, CrashStep
<1>5. CASE UNCHANGED store
  <2>1. Data' /\ Bounds' /\ Expected'
    BY <1>5 DEF store, Inv, Data, Bounds, Expected
  <2>2. Control' /\ Locked' /\ Held'
    BY <1>5 DEF store, Inv, Control, Locked, Held, Wanted
  <2> QED
    BY <2>1, <2>2 DEF Inv
<1> QED
  BY <1>1, <1>2, <1>3, <1>4, <1>5 DEF StoreNext

\* The inductive invariant holds in every execution of the store.
THEOREM StoreStrengthening == StoreSpec => []Inv
  BY InitInv, NextInv, PTL DEF StoreSpec

\* Types, and a lock that is held by exactly the request between Lock and
\* Unlock (store.go, lines 116-151).
THEOREM StoreTypes == StoreSpec => []StoreTypeOK
<1>1. Inv => StoreTypeOK
  BY DEF Inv, Data, Control, Bounds, Locked, StoreTypeOK, Values
<1> QED
  BY <1>1, StoreStrengthening, PTL

\* No crash, failed write or interleaving loses an acknowledged change
\* (store.go, lines 58-83 and 116-169).
THEOREM AckedNeverLost == StoreSpec => []AckedSurvives
<1>1. Inv => AckedSurvives
  BY LoadedIsFile DEF Inv, Expected, AckedSurvives
<1> QED
  BY <1>1, StoreStrengthening, PTL

----------------------------------------------------------------------------
LEMMA InitRefines == StoreInit => DM!Init
  BY DEF StoreInit, DM!Init, Maps

LEMMA StepRefines ==
  ASSUME Inv, StoreNext PROVE DM!Next \/ UNCHANGED <<mem, may>>
<1>1. ASSUME NEW c \in Clients, Change(c) PROVE DM!Next
  <2>1. req[c].name \in Agents /\ Wanted(req[c]) \in Values
    BY <1>1, RequestFields DEF Change, ReadyToChange, At, Inv, Held, Control
  <2>2. DM!Attempt(req[c].name, Wanted(req[c]))
    BY <1>1 DEF Change, DM!Attempt
  <2> QED
    BY <2>1, <2>2 DEF DM!Next, Values
<1>2. ASSUME NEW c \in Clients, RenameTmp(c) PROVE DM!Next
  <2>1. req[c].name \in Agents /\ mem[req[c].name] = Wanted(req[c])
    BY <1>2, RequestFields DEF RenameTmp, At, Inv, Held, Control, Flushing
  <2>2. DM!Acknowledge(req[c].name)
    BY <1>2, <2>1 DEF RenameTmp, DM!Acknowledge
  <2> QED
    BY <2>1, <2>2 DEF DM!Next
<1>3. ASSUME CrashAndLoad PROVE DM!Next
  <2>1. Loaded = file /\ Loaded \in Maps
    BY LoadedIsFile DEF Inv
  <2>2. CASE mem' = Loaded /\ UNCHANGED <<may, faults>>
    BY <2>1, <2>2 DEF DM!Next, DM!Restart, Inv, Expected, Maps
  <2>3. CASE mem' = Empty /\ may' = [a \in Agents |-> may[a] \cup {NoConfig}]
    BY <2>3 DEF DM!Next, DM!Forget, Empty
  <2> QED
    BY <1>3, <2>2, <2>3 DEF CrashAndLoad
<1>4. ASSUME NEW c \in Clients, Handle(c) PROVE DM!Next \/ UNCHANGED <<mem, may>>
  <2>1. CASE Change(c) \/ RenameTmp(c)
    BY <2>1, <1>1, <1>2
  <2>2. CASE Build(c) \/ Refused(c) \/ OpenTmp(c) \/ WriteTmp(c) \/ ReadList(c) \/ CreateSession(c)
    BY <2>2 DEF Build, Refused, OpenTmp, WriteTmp, ReadList, CreateSession
  <2> QED
    BY <1>4, <2>1, <2>2 DEF Handle
<1>5. ASSUME NEW c \in Clients, (\E r \in Requests : Ask(c, r)) \/ FlushFails(c) \/ AnswerLost(c) \/ Deliver(c)
      PROVE  UNCHANGED <<mem, may>>
  BY <1>5 DEF Ask, FlushFails, AnswerLost, Deliver
<1> QED
  BY <1>3, <1>4, <1>5 DEF StoreNext

\* The store implements DurableMap: every step of it is a step that its
\* callers were promised, or none (store.go against DurableMap).
THEOREM StoreImplements == StoreSpec => ImplementsDurableMap
<1>1. Inv /\ [StoreNext]_store => [DM!Next]_<<mem, may>>
  <2> SUFFICES ASSUME Inv, [StoreNext]_store PROVE [DM!Next]_<<mem, may>>
    OBVIOUS
  <2>1. CASE StoreNext
    BY <2>1, StepRefines
  <2>2. CASE UNCHANGED store
    BY <2>2 DEF store
  <2> QED
    BY <2>1, <2>2
<1> QED
  BY <1>1, InitRefines, StoreStrengthening, PTL DEF StoreSpec, ImplementsDurableMap, DM!Spec

----------------------------------------------------------------------------
(* Requests.  Of the server's side the proofs about a page use only that a *)
(* request of it begins when it is asked and ends when its answer is       *)
(* delivered (Asking, Delivering, Serving none).                           *)

\* The clients with a request of R under way.
Under(R) == {c \in Clients : pc[c] # "idle" /\ req[c] \in R}

Asking(c, r) ==
  /\ pc[c] = "idle" /\ pc'[c] # "idle" /\ req'[c] = r
  /\ \A d \in Clients \ {c} : pc'[d] = pc[d] /\ req'[d] = req[d]
  /\ r.op = "list" => asks' = asks
  /\ r.op # "list" => asks < MaxAsks /\ asks' = asks + 1

Delivering(c) ==
  /\ pc[c] # "idle" /\ pc'[c] = "idle"
  /\ \A d \in Clients \ {c} : pc'[d] = pc[d] /\ req'[d] = req[d]
  /\ asks' = asks

ServingOn ==
  /\ \A c \in Clients : /\ pc'[c] = "idle" <=> pc[c] = "idle"
                        /\ req'[c] = req[c]
  /\ asks' = asks

LEMMA AskIs ==
  ASSUME Inv, NEW c \in Clients, NEW r, Ask(c, r)
  PROVE  Asking(c, r)
  BY DEF Inv, Control, Ask, Asking, At, Goto

LEMMA DeliverIs ==
  ASSUME Inv, NEW c \in Clients, Deliver(c)
  PROVE  Delivering(c) /\ pc[c] \in {"ok", "failed"}
  BY DEF Inv, Control, Deliver, Delivering, Goto

LEMMA ServeIs ==
  ASSUME Inv, (\E c \in Clients : Handle(c)) \/ Trouble
  PROVE  ServingOn
<1>1. ASSUME NEW c \in Clients, Handle(c) \/ FlushFails(c) \/ AnswerLost(c)
      PROVE  ServingOn
  <2>1. pc[c] # "idle" /\ \E p \in {"built", "failed", "changed", "opened", "written", "ok"} :
                            pc' = [pc EXCEPT ![c] = p]
    BY <1>1 DEF Handle, Build, Change, ReadyToChange, Refused, OpenTmp, WriteTmp, RenameTmp,
       ReadList, CreateSession, FlushFails, AnswerLost, At, Goto
  <2>2. req' = req /\ asks' = asks
    BY <1>1 DEF Handle, Build, Change, Refused, OpenTmp, WriteTmp, RenameTmp, ReadList,
       CreateSession, FlushFails, AnswerLost
  <2> QED
    BY <2>1, <2>2 DEF Inv, Control, ServingOn
<1>2. CASE CrashAndLoad
  BY <1>2 DEF CrashAndLoad, ServingOn, At
<1> QED
  BY <1>1, <1>2 DEF Trouble

LEMMA StoreStepIs ==
  ASSUME Inv, StoreStep
  PROVE  \/ ServingOn
         \/ \E c \in Clients, r \in Requests :
              r.by = "other" /\ r.op \in {"put", "delete"} /\ Asking(c, r)
         \/ \E c \in Clients : req[c].by = "other" /\ Delivering(c)
<1>1. CASE (\E c \in Clients : Handle(c)) \/ Trouble
  BY <1>1, ServeIs
<1>2. CASE Others
  BY <1>2, AskIs, DeliverIs DEF Others
<1> QED
  BY <1>1, <1>2 DEF StoreStep

\* What becomes of the clients with a request of R under way.
LEMMA UnderKept ==
  ASSUME NEW R, \/ ServingOn
                \/ \E c \in Clients : \E r : Asking(c, r) /\ r \notin R
                \/ \E c \in Clients : Delivering(c) /\ req[c] \notin R
                \/ UNCHANGED <<pc, req>>
  PROVE  Under(R)' = Under(R)
<1>1. CASE ServingOn
  BY <1>1 DEF ServingOn, Under
<1>2. CASE \E c \in Clients : \E r : Asking(c, r) /\ r \notin R
  BY <1>2 DEF Asking, Under
<1>3. CASE \E c \in Clients : Delivering(c) /\ req[c] \notin R
  BY <1>3 DEF Delivering, Under
<1> QED
  BY <1>1, <1>2, <1>3 DEF Under

LEMMA UnderBegun ==
  ASSUME NEW R, NEW c \in Clients, NEW r \in R, Asking(c, r)
  PROVE  Under(R)' = Under(R) \cup {c} /\ c \notin Under(R)
  BY DEF Asking, Under

LEMMA UnderEnded ==
  ASSUME NEW R, NEW c \in Clients, Delivering(c)
  PROVE  Under(R)' = Under(R) \ {c}
  BY DEF Delivering, Under

\* At most one, and exactly while b holds.
OneWhile(b, S) == (b <=> S # {}) /\ \A c, d \in S : c = d

LEMMA OneIsOne ==
  ASSUME NEW b, NEW S, OneWhile(b, S)
  PROVE  (b <=> S # {}) /\ Cardinality(S) <= 1
<1>1. CASE S = {}
  BY <1>1, FS_EmptySet DEF OneWhile
<1>2. CASE \E c \in S : S = {c}
  BY <1>2, FS_Singleton DEF OneWhile
<1> QED
  BY <1>1, <1>2 DEF OneWhile

----------------------------------------------------------------------------
(* The page of the agents.                                                 *)

Saves == {r \in Requests : r.by = "page" /\ r.op = "put"}

\* Every read of the list that is due was the first, or follows a save.
PageInv ==
  /\ AgentPageTypeOK
  /\ OneWhile(saving, Under(Saves))
  /\ asks <= MaxAsks /\ fetches <= asks + 1
  /\ saving => fetches <= asks

LEMMA Counts ==
  ASSUME Inv, PageInv
  PROVE  /\ fetches \in Nat /\ asks \in Nat /\ MaxAsks \in Nat
         /\ fetches <= asks + 1 /\ asks <= MaxAsks /\ (saving => fetches <= asks)
  BY StoreAssumption DEF Inv, Bounds, PageInv, AgentPageTypeOK

LEMMA StillLess ==
  ASSUME NEW f \in Nat, NEW a \in Nat, NEW g \in Nat, NEW b \in Nat, g <= f, a <= b
  PROVE  (f <= a + 1 => g <= b + 1) /\ (f <= a => g <= b)
  OBVIOUS

\* The server's steps, and the requests of others.
LEMMA PageRests ==
  ASSUME Inv, PageInv, UNCHANGED agentPage,
         \/ ServingOn
         \/ \E c \in Clients : \E r : Asking(c, r) /\ r \notin Saves
         \/ \E c \in Clients : Delivering(c) /\ req[c] \notin Saves
         \/ UNCHANGED store
  PROVE  PageInv'
<1>1. Under(Saves)' = Under(Saves)
  BY UnderKept DEF store
<1>2. asks' \in Nat /\ asks <= asks' /\ asks' <= MaxAsks
  BY StoreAssumption DEF Inv, Bounds, PageInv, ServingOn, Asking, Delivering, store
<1>3. AgentPageTypeOK'
  BY DEF PageInv, AgentPageTypeOK, agentPage, form
<1>4. OneWhile(saving, Under(Saves))'
  BY <1>1 DEF PageInv, OneWhile, agentPage, form
<1>5. saving' = saving /\ fetches' = fetches
  BY DEF agentPage, form
<1> QED
  BY <1>2, <1>3, <1>4, <1>5, Counts DEF PageInv

\* A request of the page, that is not a save, begins or ends.
LEMMA PageReads ==
  ASSUME Inv, PageInv, saving' = saving, AgentPageTypeOK',
         NEW c \in Clients,
         \/ \E r : Asking(c, r) /\ r \notin Saves
         \/ Delivering(c) /\ req[c] \notin Saves,
         fetches' <= fetches
  PROVE  PageInv'
<1>1. Under(Saves)' = Under(Saves)
  BY UnderKept
<1>2. asks' \in Nat /\ asks <= asks' /\ asks' <= MaxAsks
  BY StoreAssumption DEF Inv, Bounds, PageInv, Asking, Delivering
<1>3. OneWhile(saving, Under(Saves))'
  BY <1>1 DEF PageInv, OneWhile
<1>4. fetches' \in Nat
  BY DEF AgentPageTypeOK
<1>5. fetches' <= asks' + 1 /\ (fetches <= asks => fetches' <= asks')
  BY <1>2, <1>4, Counts, StillLess
<1>6. saving => fetches' <= asks'
  BY <1>5, Counts
<1> QED
  BY <1>2, <1>3, <1>5, <1>6 DEF PageInv

LEMMA PageRequests ==
  ASSUME NEW op \in {"list", "delete", "put"},
         NEW a, IF op = "list" THEN a = NoAgent ELSE a \in Agents,
         NEW v \in Configs
  PROVE  /\ PageRequest(op, a, v) \in Requests
         /\ PageRequest(op, a, v).op = op /\ PageRequest(op, a, v).by = "page"
  BY DEF PageRequest, Requests

LEMMA DefaultIs == Default \in Configs
  BY StoreAssumption DEF Default

LEMMA PageFetch ==
  ASSUME Inv, PageInv, NEW c \in Clients, FetchAgents(c) \/ FetchAgentsDone(c)
  PROVE  PageInv'
<1>1. CASE FetchAgents(c)
  <2> DEFINE r == PageRequest("list", NoAgent, Default)
  <2>1. r \in Requests /\ r \notin Saves
    BY DefaultIs, PageRequests DEF Saves
  <2>2. Asking(c, r)
    BY <1>1, AskIs DEF FetchAgents
  <2>3. AgentPageTypeOK' /\ fetches' <= fetches /\ saving' = saving
    BY <1>1, StoreAssumption DEF FetchAgents, PageInv, AgentPageTypeOK, form
  <2> QED
    BY <2>1, <2>2, <2>3, PageReads
<1>2. CASE FetchAgentsDone(c)
  <2>1. Delivering(c) /\ req[c] \notin Saves
    BY <1>2, DeliverIs DEF FetchAgentsDone, Answered, Saves
  <2>2. /\ agents' \in Maps /\ agentsLoading' \in BOOLEAN
        /\ UNCHANGED <<dialogOpen, editing, saving, fetches>>
    BY <1>2 DEF FetchAgentsDone, PageInv, AgentPageTypeOK, form, Inv, Control
  <2>3. AgentPageTypeOK' /\ fetches' <= fetches
    BY <2>2, Counts DEF PageInv, AgentPageTypeOK
  <2> QED
    BY <2>1, <2>2, <2>3, PageReads
<1> QED
  BY <1>1, <1>2

LEMMA PageDelete ==
  ASSUME Inv, PageInv, NEW c \in Clients, HandleDeleteAgent(c) \/ DeleteAgentDone(c)
  PROVE  PageInv'
<1>1. CASE HandleDeleteAgent(c)
  <2>1. PICK a \in Agents : Ask(c, PageRequest("delete", a, Default))
    BY <1>1 DEF HandleDeleteAgent, Custom
  <2> DEFINE r == PageRequest("delete", a, Default)
  <2>2. r \in Requests /\ r \notin Saves
    BY DefaultIs, PageRequests DEF Saves
  <2>3. Asking(c, r)
    BY <2>1, AskIs
  <2>4. UNCHANGED agentPage
    BY <1>1 DEF HandleDeleteAgent
  <2> QED
    BY <2>2, <2>3, <2>4, PageRests
<1>2. CASE DeleteAgentDone(c)
  <2>1. Delivering(c) /\ req[c] \notin Saves
    BY <1>2, DeliverIs DEF DeleteAgentDone, Answered, Saves
  <2>2. agents' \in Maps
    BY <1>2 DEF DeleteAgentDone, PageInv, AgentPageTypeOK, Maps
  <2>3. AgentPageTypeOK' /\ fetches' <= fetches /\ saving' = saving
    BY <1>2, <2>2, StoreAssumption DEF DeleteAgentDone, PageInv, AgentPageTypeOK, form
  <2> QED
    BY <2>1, <2>3, PageReads
<1> QED
  BY <1>1, <1>2

\* A save begins when none is under way, and lets go of the button when it is
\* answered.
LEMMA PageSave ==
  ASSUME Inv, PageInv, NEW c \in Clients, HandleSave(c) \/ HandleSaveDone(c)
  PROVE  PageInv'
<1>1. CASE HandleSave(c)
  <2>1. PICK a \in Agents, v \in Configs : Ask(c, PageRequest("put", a, v))
    <3>1. PICK f \in Fields : Ask(c, PageRequest("put", f[1], f[2]))
      BY <1>1 DEF HandleSave
    <3>2. f[1] \in Agents /\ f[2] \in Configs
      BY <3>1, FormAssumption DEF Fields, PageInv, AgentPageTypeOK
    <3> QED
      BY <3>1, <3>2
  <2> DEFINE r == PageRequest("put", a, v)
  <2>2. r \in Saves /\ r.op = "put"
    BY PageRequests DEF Saves
  <2>3. Asking(c, r)
    BY <2>1, AskIs
  <2>4. ~saving /\ saving' = TRUE /\ UNCHANGED <<agents, agentsLoading, dialogOpen, editing, fetches>>
    BY <1>1 DEF HandleSave
  <2>5. OneWhile(saving, Under(Saves))'
    BY <2>2, <2>3, <2>4, UnderBegun DEF PageInv, OneWhile
  <2>6. AgentPageTypeOK'
    BY <2>4 DEF PageInv, AgentPageTypeOK
  <2>7. asks < MaxAsks /\ asks' = asks + 1
    BY <2>2, <2>3 DEF Asking
  <2> HIDE DEF r
  <2> QED
    BY <2>4, <2>5, <2>6, <2>7, Counts DEF PageInv
<1>2. CASE HandleSaveDone(c)
  <2>1. /\ Delivering(c) /\ req[c] \in Saves /\ asks' = asks
        /\ c \in Under(Saves) /\ saving' = FALSE
    BY <1>2, DeliverIs DEF HandleSaveDone, Answered, Saves, Under, Delivering, Inv, Control
  <2>2. saving /\ OneWhile(saving, Under(Saves))'
    BY <2>1, UnderEnded DEF PageInv, OneWhile
  <2>3. /\ fetches' \in {fetches, fetches + 1}
        /\ dialogOpen' \in {dialogOpen, FALSE} /\ editing' \in {editing, NoAgent}
        /\ UNCHANGED <<agents, agentsLoading>>
    BY <1>2 DEF HandleSaveDone
  <2>4. fetches' \in 0..(MaxAsks + 1) /\ fetches' <= asks + 1
    BY <2>2, <2>3, Counts
  <2>5. AgentPageTypeOK'
    BY <2>1, <2>3, <2>4 DEF PageInv, AgentPageTypeOK
  <2> QED
    BY <2>1, <2>2, <2>4, <2>5 DEF PageInv
<1> QED
  BY <1>1, <1>2

LEMMA PageForm ==
  ASSUME Inv, PageInv, OpenForm \/ CloseForm, UNCHANGED store
  PROVE  PageInv'
<1>1. UNCHANGED <<agents, agentsLoading, saving, fetches, pc, req, asks>>
      /\ dialogOpen' \in BOOLEAN /\ editing' \in Agents \cup {NoAgent}
  BY DEF OpenForm, CloseForm, store, Custom
<1>2. Under(Saves)' = Under(Saves)
  BY <1>1, UnderKept
<1>3. AgentPageTypeOK'
  BY <1>1 DEF PageInv, AgentPageTypeOK
<1> QED
  BY <1>1, <1>2, <1>3 DEF PageInv, OneWhile

LEMMA PageStep ==
  ASSUME Inv, PageInv, Next
  PROVE  PageInv'
<1>1. CASE AgentsOpen
  <2>1. CASE StoreStep /\ UNCHANGED agentPage
    BY <2>1, StoreStepIs, PageRests DEF Saves
  <2>2. CASE AgentPageNext
    BY <2>2, PageFetch, PageDelete, PageSave, PageForm DEF AgentPageNext
  <2> QED
    BY <1>1, <2>1, <2>2 DEF AgentsOpen
<1>2. CASE CreateIsOpen
  <2>1. UNCHANGED agentPage
    BY <1>2 DEF CreateIsOpen
  <2>2. CASE StoreStep
    BY <2>1, <2>2, StoreStepIs, PageRests DEF Saves
  <2>3. ASSUME NEW c \in Clients, ListAgents(c) \/ HandleCreate(c) PROVE PageInv'
    <3>1. PICK op, a : Ask(c, DialogRequest(op, a))
      BY <2>3 DEF ListAgents, HandleCreate
    <3>2. DialogRequest(op, a) \notin Saves
      BY DEF DialogRequest, Saves
    <3> QED
      BY <2>1, <3>1, <3>2, AskIs, PageRests
  <2>4. ASSUME NEW c \in Clients, ListAgentsDone(c) \/ HandleCreateDone(c) PROVE PageInv'
    <3>1. Delivering(c) /\ req[c] \notin Saves
      BY <2>4, DeliverIs DEF ListAgentsDone, HandleCreateDone, DialogAnswered, Saves
    <3> QED
      BY <2>1, <3>1, PageRests
  <2>5. CASE UNCHANGED store
    BY <2>1, <2>5, PageRests
  <2> QED
    BY <1>2, <2>2, <2>3, <2>4, <2>5 DEF CreateIsOpen, CreateNext
<1>3. CASE HistoryOpen
  BY <1>3, PageRests DEF HistoryOpen
<1> QED
  BY <1>1, <1>2, <1>3 DEF Next

----------------------------------------------------------------------------
(* The dialog that creates a session.                                      *)

Creations == {r \in Requests : r.op = "create"}

\* Only the dialog asks for a session.
DialogInv ==
  /\ CreateTypeOK
  /\ OneWhile(creating, Under(Creations))
  /\ \A c \in Under(Creations) : req[c].by = "dialog"

LEMMA OthersCreateNothing == \A r \in Creations : r.by # "other"
  BY DEF Creations, Requests

LEMMA DialogRests ==
  ASSUME Inv, DialogInv, creating' = creating, CreateTypeOK',
         \/ ServingOn
         \/ \E c \in Clients : \E r : Asking(c, r) /\ r \notin Creations
         \/ \E c \in Clients : Delivering(c) /\ req[c] \notin Creations
         \/ UNCHANGED store
  PROVE  DialogInv'
<1>1. Under(Creations)' = Under(Creations)
  BY UnderKept DEF store
<1>2. OneWhile(creating, Under(Creations))'
  BY <1>1 DEF DialogInv, OneWhile
<1>3. \A c \in Under(Creations) : req'[c] = req[c]
  <2>1. ASSUME NEW c \in Clients, NEW r, Asking(c, r)
        PROVE  \A d \in Under(Creations) : req'[d] = req[d]
    BY <2>1 DEF Asking, Under
  <2>2. ASSUME NEW c \in Clients, Delivering(c), req[c] \notin Creations
        PROVE  \A d \in Under(Creations) : req'[d] = req[d]
    BY <2>2 DEF Delivering, Under
  <2> QED
    BY <2>1, <2>2 DEF ServingOn, Under, store
<1> QED
  BY <1>1, <1>2, <1>3 DEF DialogInv

LEMMA DialogRequests ==
  ASSUME NEW op \in {"list", "create"}, NEW a \in Agents \cup {NoAgent}
  PROVE  /\ DialogRequest(op, a) \in Requests
         /\ DialogRequest(op, a).op = op /\ DialogRequest(op, a).by = "dialog"
<1>1. (CHOOSE v \in Configs : TRUE) \in Configs
  BY StoreAssumption
<1> QED
  BY <1>1 DEF DialogRequest, Requests

LEMMA DialogReads ==
  ASSUME Inv, DialogInv, NEW c \in Clients, ListAgents(c) \/ ListAgentsDone(c)
  PROVE  DialogInv'
<1>1. CASE ListAgents(c)
  <2>1. DialogRequest("list", NoAgent) \notin Creations
    BY DialogRequests DEF Creations
  <2>2. Asking(c, DialogRequest("list", NoAgent))
    BY <1>1, AskIs DEF ListAgents
  <2>3. UNCHANGED <<home, createOpen, creating, choices, agent>> /\ lists' \in 0..MaxLists
    BY <1>1, DialogAssumption DEF ListAgents, DialogInv, CreateTypeOK
  <2>4. CreateTypeOK' /\ creating' = creating
    BY <2>3 DEF DialogInv, CreateTypeOK
  <2> QED
    BY <2>1, <2>2, <2>4, DialogRests
<1>2. CASE ListAgentsDone(c)
  <2>1. Delivering(c) /\ req[c] \notin Creations
    BY <1>2, DeliverIs DEF ListAgentsDone, DialogAnswered, Creations
  <2>2. UNCHANGED <<home, createOpen, creating, agent, lists>> /\ choices' \subseteq Agents
    BY <1>2 DEF ListAgentsDone, DialogInv, CreateTypeOK
  <2>3. CreateTypeOK' /\ creating' = creating
    BY <2>2 DEF DialogInv, CreateTypeOK
  <2> QED
    BY <2>1, <2>3, DialogRests
<1> QED
  BY <1>1, <1>2

LEMMA DialogCreates ==
  ASSUME Inv, DialogInv, NEW c \in Clients, HandleCreate(c) \/ HandleCreateDone(c)
  PROVE  DialogInv'
<1>1. CASE HandleCreate(c)
  <2> DEFINE r == DialogRequest("create", agent)
  <2>1. r \in Creations /\ r.by = "dialog"
    BY DialogRequests DEF Creations, DialogInv, CreateTypeOK
  <2>2. Asking(c, r)
    BY <1>1, AskIs DEF HandleCreate
  <2> HIDE DEF r
  <2>3. Under(Creations)' = Under(Creations) \cup {c} /\ c \notin Under(Creations)
    BY <2>1, <2>2, UnderBegun
  <2>4. ~creating /\ creating' = TRUE /\ UNCHANGED <<home, createOpen, choices, agent, lists>>
    BY <1>1 DEF HandleCreate
  <2>5. Under(Creations)' = {c} /\ req'[c].by = "dialog"
    BY <2>1, <2>2, <2>3, <2>4 DEF DialogInv, OneWhile, Asking
  <2>6. OneWhile(creating, Under(Creations))'
    BY <2>4, <2>5 DEF OneWhile
  <2>7. CreateTypeOK'
    BY <2>4 DEF DialogInv, CreateTypeOK
  <2> QED
    BY <2>5, <2>6, <2>7 DEF DialogInv
<1>2. CASE HandleCreateDone(c)
  <2>1. Delivering(c) /\ c \in Under(Creations)
    BY <1>2, DeliverIs DEF HandleCreateDone, DialogAnswered, Creations, Under, Delivering,
       Inv, Control
  <2>2. Under(Creations)' = {} /\ creating' = FALSE
    BY <1>2, <2>1, UnderEnded DEF DialogInv, OneWhile, HandleCreateDone
  <2>3. /\ home' \in {home, FALSE} /\ createOpen' \in {createOpen, FALSE}
        /\ agent' \in {agent, NoAgent} /\ UNCHANGED <<choices, lists>>
    BY <1>2 DEF HandleCreateDone
  <2>4. CreateTypeOK'
    BY <2>2, <2>3 DEF DialogInv, CreateTypeOK
  <2> QED
    BY <2>2, <2>4 DEF DialogInv, OneWhile
<1> QED
  BY <1>1, <1>2

\* Neither opening, filling in, dismissing nor cancelling the form touches a
\* creation; the page is mounted again only when none is left.
LEMMA DialogForm ==
  ASSUME Inv, DialogInv, OpenCreate \/ SetAgent \/ Dismiss \/ CancelCreate \/ Return,
         UNCHANGED store
  PROVE  DialogInv'
<1>1. CreateTypeOK'
  <2>1. /\ {home', createOpen', creating'} \subseteq BOOLEAN
        /\ choices' \subseteq Agents /\ agent' \in Agents \cup {NoAgent}
    BY DEF OpenCreate, SetAgent, Dismiss, ResetForm, CancelCreate, Return, DialogInv, CreateTypeOK
  <2>2. lists' \in 0..MaxLists
    BY DialogAssumption
    DEF OpenCreate, SetAgent, Dismiss, CancelCreate, Return, DialogInv, CreateTypeOK
  <2> QED
    BY <2>1, <2>2 DEF CreateTypeOK
<1>2. CASE Return
  <2>1. Under(Creations)' = {} /\ creating' = FALSE
    BY <1>2 DEF Return, DialogInv, Under, At, store
  <2> QED
    BY <1>1, <2>1 DEF DialogInv, OneWhile
<1>3. CASE OpenCreate \/ SetAgent \/ Dismiss \/ CancelCreate
  <2>1. creating' = creating
    BY <1>3 DEF OpenCreate, SetAgent, Dismiss, ResetForm, CancelCreate
  <2> QED
    BY <1>1, <2>1, DialogRests
<1> QED
  BY <1>2, <1>3

LEMMA DialogStep ==
  ASSUME Inv, DialogInv, Next
  PROVE  DialogInv'
<1>1. UNCHANGED createDialog => CreateTypeOK' /\ creating' = creating
  BY DEF createDialog, DialogInv, CreateTypeOK
<1>2. CASE AgentsOpen
  <2>1. UNCHANGED createDialog
    BY <1>2 DEF AgentsOpen
  <2>2. CASE StoreStep
    BY <1>1, <2>1, <2>2, StoreStepIs, OthersCreateNothing, DialogRests DEF Creations
  <2>3. ASSUME NEW c \in Clients, FetchAgents(c) \/ HandleDeleteAgent(c) \/ HandleSave(c)
        PROVE  DialogInv'
    <3>1. PICK op \in {"list", "delete", "put"} : \E a, v : Ask(c, PageRequest(op, a, v))
      BY <2>3 DEF FetchAgents, HandleDeleteAgent, HandleSave
    <3>2. PICK a, v : Ask(c, PageRequest(op, a, v))
      BY <3>1
    <3>3. PageRequest(op, a, v) \notin Creations
      BY <3>1 DEF PageRequest, Creations
    <3> QED
      BY <1>1, <2>1, <3>2, <3>3, AskIs, DialogRests
  <2>4. ASSUME NEW c \in Clients, FetchAgentsDone(c) \/ DeleteAgentDone(c) \/ HandleSaveDone(c)
        PROVE  DialogInv'
    <3>1. Delivering(c) /\ req[c] \notin Creations
      BY <2>4, DeliverIs DEF FetchAgentsDone, DeleteAgentDone, HandleSaveDone, Answered, Creations
    <3> QED
      BY <1>1, <2>1, <3>1, DialogRests
  <2>5. CASE UNCHANGED store
    BY <1>1, <2>1, <2>5, DialogRests
  <2> QED
    BY <1>2, <2>2, <2>3, <2>4, <2>5 DEF AgentsOpen, AgentPageNext
<1>3. CASE CreateIsOpen
  <2>1. CASE StoreStep /\ UNCHANGED createDialog
    BY <1>1, <2>1, StoreStepIs, OthersCreateNothing, DialogRests DEF Creations
  <2>2. CASE CreateNext
    BY <2>2, DialogReads, DialogCreates, DialogForm DEF CreateNext
  <2> QED
    BY <1>3, <2>1, <2>2 DEF CreateIsOpen
<1>4. CASE HistoryOpen
  BY <1>1, <1>4, DialogRests DEF HistoryOpen
<1> QED
  BY <1>2, <1>3, <1>4 DEF Next

----------------------------------------------------------------------------
(* The records and logs of sessions.                                       *)

\* Only a session that has a record, or had one, is removed; once removed its
\* record stays so, while its log is still to go, unless it is saved again.
Past(i) == phase[i] \in {"over", "past"}
FilesInv ==
  /\ LogTypeOK /\ RecordHasItsLog
  /\ \A i \in Ids : rec[i] \in {"log", "no log"} => Past(i)
  /\ \A i \in Ids : phase[i] = "over" => \E b \in Savers : save[<<b, i>>] = "over"
  /\ \A k \in Savers \X Ids :
       save[k] = "log" /\ phase[k[2]] # "past" => logged[k[2]] \/ SavedTwice(k[2])
  /\ \A d \in Deleters \X Ids : del[d] # "no" => Past(d[2])
  /\ \A d \in Deleters \X Ids : del[d] = "half" => rec[d[2]] = "none" \/ SavedTwice(d[2])

LEMMA OneMore ==
  ASSUME NEW n \in Nat, NEW m \in 0..n
  PROVE  m \in Nat /\ 0 \in 0..n /\ (m < n => m + 1 \in 0..n)
  OBVIOUS

LEMMA Spends ==
  ASSUME FilesInv, Spend
  PROVE  troubles' \in 0..MaxTroubles
  BY LogAssumption, OneMore DEF Spend, FilesInv, LogTypeOK

LEMMA FilesInit == LogInit => FilesInv
<1> SUFFICES ASSUME LogInit PROVE FilesInv
  OBVIOUS
<1>1. phase \in [Ids -> {"none", "past"}] /\ \A d \in Deleters \X Ids : del[d] = "no"
  BY DEF LogInit
<1>2. \A i \in Ids : /\ logged[i] = (phase[i] = "past")
                     /\ rec[i] = IF phase[i] = "past" THEN "log" ELSE "none"
  BY DEF LogInit
<1>3. LogTypeOK
  <2>1. troubles \in 0..MaxTroubles
    BY LogAssumption, OneMore DEF LogInit
  <2> QED
    BY <1>1, <2>1 DEF LogInit, LogTypeOK
<1>4. \A k \in Savers \X Ids : save[k] = "no"
  BY DEF LogInit
<1> QED
  BY <1>1, <1>2, <1>3, <1>4 DEF FilesInv, RecordHasItsLog, Past

LEMMA BeginStep ==
  ASSUME FilesInv, NEW i \in Ids, BeginSession(i)
  PROVE  FilesInv'
<1>1. LogTypeOK'
  BY DEF BeginSession, FilesInv, LogTypeOK
<1>2. /\ UNCHANGED <<save, rec, del>> /\ phase[i] = "none"
      /\ \A j \in Ids : phase'[j] = IF j = i THEN "running" ELSE phase[j]
      /\ \A j \in Ids : logged[j] => logged'[j]
  BY DEF BeginSession, FilesInv, LogTypeOK
<1>3. \A j \in Ids : SavedTwice(j)' = SavedTwice(j) /\ (Past(j) => Past(j)')
  BY <1>2 DEF SavedTwice, Past
<1>4. RecordHasItsLog' /\ \A j \in Ids : rec'[j] \in {"log", "no log"} => Past(j)'
  BY <1>2, <1>3 DEF FilesInv, RecordHasItsLog
<1>5. \A j \in Ids : phase'[j] = "over" => \E b \in Savers : save'[<<b, j>>] = "over"
  BY <1>2 DEF FilesInv
<1>6. ASSUME NEW k \in Savers \X Ids, save'[k] = "log", phase'[k[2]] # "past"
      PROVE  logged'[k[2]] \/ SavedTwice(k[2])'
  <2>1. k[2] \in Ids /\ phase[k[2]] # "past" /\ save[k] = "log"
    BY <1>2, <1>6
  <2>2. logged[k[2]] \/ SavedTwice(k[2])
    BY <2>1 DEF FilesInv
  <2> QED
    BY <1>2, <1>3, <2>1, <2>2
<1>7. ASSUME NEW d \in Deleters \X Ids
      PROVE  /\ del'[d] # "no" => Past(d[2])'
             /\ del'[d] = "half" => rec'[d[2]] = "none" \/ SavedTwice(d[2])'
  <2>1. d[2] \in Ids
    OBVIOUS
  <2>2. /\ del[d] # "no" => Past(d[2])
        /\ del[d] = "half" => rec[d[2]] = "none" \/ SavedTwice(d[2])
    BY DEF FilesInv
  <2> QED
    BY <1>2, <1>3, <2>1, <2>2
<1> QED
  BY <1>1, <1>4, <1>5, <1>6, <1>7 DEF FilesInv

LEMMA LookStep ==
  ASSUME FilesInv, NEW k \in Savers \X Ids, LookForLog(k)
  PROVE  FilesInv'
<1>1. LogTypeOK'
  BY DEF LookForLog, FilesInv, LogTypeOK
<1>2. /\ UNCHANGED <<phase, rec, logged, del>> /\ save[k] = "no" /\ k[2] \in Ids
      /\ save'[k] = (IF logged[k[2]] THEN "log" ELSE "no log")
      /\ \A q \in Savers \X Ids : q # k => save'[q] = save[q]
  BY DEF LookForLog, FilesInv, LogTypeOK
<1>3. \A j \in Ids : (SavedTwice(j) => SavedTwice(j)') /\ Past(j)' = Past(j)
  BY <1>2 DEF SavedTwice, Past
<1>4. RecordHasItsLog' /\ \A j \in Ids : rec'[j] \in {"log", "no log"} => Past(j)'
  BY <1>2, <1>3 DEF FilesInv, RecordHasItsLog
<1>5. ASSUME NEW j \in Ids, phase'[j] = "over" PROVE \E b \in Savers : save'[<<b, j>>] = "over"
  <2>1. PICK b \in Savers : save[<<b, j>>] = "over"
    BY <1>2, <1>5 DEF FilesInv
  <2> QED
    BY <1>2, <2>1
<1>6. ASSUME NEW q \in Savers \X Ids, save'[q] = "log", phase'[q[2]] # "past"
      PROVE  logged'[q[2]] \/ SavedTwice(q[2])'
  <2>1. q[2] \in Ids
    OBVIOUS
  <2>2. CASE q = k
    BY <1>2, <1>6, <2>2
  <2>3. CASE q # k
    BY <1>2, <1>3, <1>6, <2>1, <2>3 DEF FilesInv
  <2> QED
    BY <2>2, <2>3
<1>7. ASSUME NEW d \in Deleters \X Ids
      PROVE  /\ del'[d] # "no" => Past(d[2])'
             /\ del'[d] = "half" => rec'[d[2]] = "none" \/ SavedTwice(d[2])'
  <2>1. d[2] \in Ids
    OBVIOUS
  <2>2. /\ del[d] # "no" => Past(d[2])
        /\ del[d] = "half" => rec[d[2]] = "none" \/ SavedTwice(d[2])
    BY DEF FilesInv
  <2> QED
    BY <1>2, <1>3, <2>1, <2>2
<1> QED
  BY <1>1, <1>4, <1>5, <1>6, <1>7 DEF FilesInv

\* A save that ends when the session has a record already is the second.
LEMMA RecordStep ==
  ASSUME FilesInv, NEW k \in Savers \X Ids, WriteRecord(k)
  PROVE  FilesInv'
<1>1. LogTypeOK'
  <2>1. rec' \in [Ids -> {"none", "torn", "log", "no log"}]
    BY DEF WriteRecord, FilesInv, LogTypeOK
  <2>2. phase' \in [Ids -> {"none", "running", "over", "past"}]
    <3>1. phase \in [Ids -> {"none", "running", "over", "past"}]
      BY DEF FilesInv, LogTypeOK
    <3>2. phase' = phase \/ phase' = [phase EXCEPT ![k[2]] = "over"]
      BY DEF WriteRecord
    <3> QED
      BY <3>1, <3>2
  <2>3. save' \in [Savers \X Ids -> {"no", "log", "no log", "over"}]
    <3>1. save \in [Savers \X Ids -> {"no", "log", "no log", "over"}]
      BY DEF FilesInv, LogTypeOK
    <3>2. save' = save \/ save' = [save EXCEPT ![k] = "over"]
      BY DEF WriteRecord
    <3> QED
      BY <3>1, <3>2
  <2>4. UNCHANGED <<logged, del, troubles>>
    BY DEF WriteRecord
  <2> QED
    BY <2>1, <2>2, <2>3, <2>4 DEF FilesInv, LogTypeOK
<1>2. /\ UNCHANGED <<logged, del>> /\ k[2] \in Ids /\ save[k] \in {"log", "no log"}
      /\ phase[k[2]] \in {"running", "over"}
      /\ \A j \in Ids : j # k[2] => phase'[j] = phase[j] /\ rec'[j] = rec[j]
      /\ \A q \in Savers \X Ids : q # k => save'[q] = save[q]
      /\ \/ rec'[k[2]] = "torn" /\ phase'[k[2]] = phase[k[2]] /\ save'[k] = save[k]
         \/ rec'[k[2]] = save[k] /\ phase'[k[2]] = "over" /\ save'[k] = "over"
  BY DEF WriteRecord, FilesInv, LogTypeOK
<1>3. \A j \in Ids : SavedTwice(j) => SavedTwice(j)'
  BY <1>2 DEF SavedTwice
<1>4. \A j \in Ids : Past(j) => Past(j)'
  BY <1>2 DEF Past
<1>5. phase[k[2]] = "over" => SavedTwice(k[2])
  <2>1. SUFFICES ASSUME phase[k[2]] = "over" PROVE SavedTwice(k[2])
    OBVIOUS
  <2>2. PICK b \in Savers : save[<<b, k[2]>>] = "over"
    BY <1>2, <2>1 DEF FilesInv
  <2>3. k = <<k[1], k[2]>> /\ k[1] \in Savers
    OBVIOUS
  <2>4. save[<<b, k[2]>>] # "no" /\ save[<<k[1], k[2]>>] # "no" /\ k[1] # b
    BY <1>2, <2>2, <2>3
  <2>5. Savers = {b, k[1]}
    BY <2>2, <2>3, <2>4 DEF Savers
  <2> QED
    BY <2>4, <2>5 DEF SavedTwice
<1>6. \A j \in Ids : rec'[j] = "log" => logged'[j] \/ SavedTwice(j)'
  <2> SUFFICES ASSUME NEW j \in Ids, rec'[j] = "log" PROVE logged'[j] \/ SavedTwice(j)'
    OBVIOUS
  <2>1. CASE j = k[2]
    <3>1. save[k] = "log" /\ phase[k[2]] # "past"
      BY <1>2, <2>1
    <3>2. logged[k[2]] \/ SavedTwice(k[2])
      BY <3>1 DEF FilesInv
    <3> QED
      BY <1>2, <1>3, <2>1, <3>2
  <2>2. CASE j # k[2]
    BY <1>2, <1>3, <2>2 DEF FilesInv, RecordHasItsLog
  <2> QED
    BY <2>1, <2>2
<1>7. \A j \in Ids : rec'[j] \in {"log", "no log"} => Past(j)'
  BY <1>2, <1>4 DEF FilesInv, Past
<1>8. ASSUME NEW j \in Ids, phase'[j] = "over" PROVE \E b \in Savers : save'[<<b, j>>] = "over"
  <2>1. CASE phase[j] = "over"
    <3>1. PICK b \in Savers : save[<<b, j>>] = "over"
      BY <2>1 DEF FilesInv
    <3>2. <<b, j>> # k
      BY <1>2, <3>1
    <3> QED
      BY <1>2, <3>1, <3>2
  <2>2. CASE phase[j] # "over"
    <3>1. j = k[2] /\ save'[k] = "over"
      BY <1>2, <1>8, <2>2
    <3>2. k = <<k[1], j>> /\ k[1] \in Savers
      BY <3>1
    <3> QED
      BY <3>1, <3>2
  <2> QED
    BY <2>1, <2>2
<1>9. ASSUME NEW q \in Savers \X Ids, save'[q] = "log", phase'[q[2]] # "past"
      PROVE  logged'[q[2]] \/ SavedTwice(q[2])'
  <2>1. q[2] \in Ids /\ save[q] = "log" /\ phase[q[2]] # "past"
    BY <1>2, <1>9
  <2>2. logged[q[2]] \/ SavedTwice(q[2])
    BY <2>1 DEF FilesInv
  <2> QED
    BY <1>2, <1>3, <2>1, <2>2
<1>10. ASSUME NEW d \in Deleters \X Ids
       PROVE  /\ del'[d] # "no" => Past(d[2])'
              /\ del'[d] = "half" => rec'[d[2]] = "none" \/ SavedTwice(d[2])'
  <2>1. d[2] \in Ids
    OBVIOUS
  <2>2. /\ del[d] # "no" => Past(d[2])
        /\ del[d] = "half" => rec[d[2]] = "none" \/ SavedTwice(d[2])
    BY DEF FilesInv
  <2>3. del[d] # "no" /\ d[2] = k[2] => SavedTwice(d[2])
    BY <1>2, <1>5, <2>2 DEF Past
  <2> QED
    BY <1>2, <1>3, <1>4, <2>1, <2>2, <2>3
<1>11. RecordHasItsLog'
  BY <1>6 DEF RecordHasItsLog
<1> QED
  BY <1>1, <1>7, <1>8, <1>9, <1>10, <1>11 DEF FilesInv

LEMMA AskDeleteStep ==
  ASSUME FilesInv, NEW who \in {"page", "tab"}, NEW i \in Ids, AskDelete(who, i)
  PROVE  FilesInv'
<1>1. <<who, i>> \in Deleters \X Ids /\ <<who, i>>[2] = i
  BY DEF Deleters
<1>2. \A d \in Deleters \X Ids : del'[d] = IF d = <<who, i>> THEN "asked" ELSE del[d]
  BY <1>1 DEF AskDelete, Step, FilesInv, LogTypeOK
<1>3. LogTypeOK'
  BY <1>1 DEF AskDelete, Step, FilesInv, LogTypeOK
<1>4. UNCHANGED <<phase, save, rec, logged>> /\ Past(i)
  BY DEF AskDelete, Past
<1>5. \A j \in Ids : Past(j)' = Past(j) /\ SavedTwice(j)' = SavedTwice(j)
  BY <1>4 DEF Past, SavedTwice
<1>6. RecordHasItsLog' /\ \A j \in Ids : rec'[j] \in {"log", "no log"} => Past(j)'
  BY <1>4, <1>5 DEF FilesInv, RecordHasItsLog
<1>7. \A j \in Ids : phase'[j] = "over" => \E b \in Savers : save'[<<b, j>>] = "over"
  BY <1>4 DEF FilesInv
<1>8. ASSUME NEW q \in Savers \X Ids, save'[q] = "log", phase'[q[2]] # "past"
      PROVE  logged'[q[2]] \/ SavedTwice(q[2])'
  <2>1. q[2] \in Ids /\ (logged[q[2]] \/ SavedTwice(q[2]))
    BY <1>4, <1>8 DEF FilesInv
  <2> QED
    BY <1>4, <1>5, <2>1
<1>9. ASSUME NEW d \in Deleters \X Ids
      PROVE  /\ del'[d] # "no" => Past(d[2])'
             /\ del'[d] = "half" => rec'[d[2]] = "none" \/ SavedTwice(d[2])'
  <2>1. d[2] \in Ids
    OBVIOUS
  <2>2. CASE d = <<who, i>>
    BY <1>1, <1>2, <1>4, <1>5, <2>2
  <2>3. CASE d # <<who, i>>
    <3>1. /\ del[d] # "no" => Past(d[2])
          /\ del[d] = "half" => rec[d[2]] = "none" \/ SavedTwice(d[2])
      BY DEF FilesInv
    <3> QED
      BY <1>2, <1>4, <1>5, <2>1, <2>3, <3>1
  <2> QED
    BY <2>2, <2>3
<1> QED
  BY <1>3, <1>6, <1>7, <1>8, <1>9 DEF FilesInv

LEMMA DeleteSteps ==
  ASSUME FilesInv, NEW d \in Deleters \X Ids,
         HandleDeleteHistory(d) \/ DeleteLost(d) \/ DeleteAnswered(d)
  PROVE  FilesInv'
<1>1. PICK p \in {"half", "ok", "no", "failed"} : del' = [del EXCEPT ![d] = p]
  BY DEF HandleDeleteHistory, DeleteFiles, DeleteLost, DeleteAnswered, Step
<1>2. d[2] \in Ids /\ UNCHANGED <<phase, save>> /\ del[d] # "no"
  BY DEF HandleDeleteHistory, DeleteFiles, DeleteLost, DeleteAnswered
<1>3. \A e \in Deleters \X Ids : del'[e] = IF e = d THEN p ELSE del[e]
  BY <1>1 DEF FilesInv, LogTypeOK
<1>4. \/ rec' = [rec EXCEPT ![d[2]] = "none"] /\ logged' = logged
      \/ rec' = rec /\ logged' = logged /\ p # "half"
      \/ /\ rec[d[2]] = "none" \/ SavedTwice(d[2])
         /\ rec' = rec /\ logged' = [logged EXCEPT ![d[2]] = FALSE] /\ p # "half"
  <2>1. CASE HandleDeleteHistory(d)
    <3>1. DeleteFiles(d) /\ (del[d] = "half" => rec[d[2]] = "none" \/ SavedTwice(d[2]))
      BY <2>1 DEF HandleDeleteHistory, FilesInv
    <3>2. \A q : Step(d, q) => p = q
      BY <1>3 DEF Step, FilesInv, LogTypeOK
    <3> QED
      BY <3>1, <3>2 DEF DeleteFiles
  <2>2. CASE DeleteLost(d) \/ DeleteAnswered(d)
    <3>1. \A q : Step(d, q) => p = q
      BY <1>3 DEF Step, FilesInv, LogTypeOK
    <3> QED
      BY <2>2, <3>1 DEF DeleteLost, DeleteAnswered
  <2> QED
    BY <2>1, <2>2
<1>5. LogTypeOK'
  <2>1. del' \in [Deleters \X Ids -> {"no", "asked", "half", "ok", "failed"}]
    BY <1>1 DEF FilesInv, LogTypeOK
  <2>2. troubles' = troubles \/ Spend
    BY DEF HandleDeleteHistory, DeleteLost, DeleteAnswered
  <2>3. troubles' \in 0..MaxTroubles
    BY <2>2, Spends DEF FilesInv, LogTypeOK
  <2> QED
    BY <1>2, <1>4, <2>1, <2>3 DEF FilesInv, LogTypeOK
<1>6. \A i \in Ids : /\ SavedTwice(i)' = SavedTwice(i) /\ Past(i)' = Past(i)
                     /\ logged'[i] = logged[i] \/ i = d[2]
                     /\ rec'[i] \in {rec[i], "none"}
                     /\ p = "half" => rec'[d[2]] = "none"
  <2>1. \A i \in Ids : SavedTwice(i)' = SavedTwice(i) /\ Past(i)' = Past(i)
    BY <1>2 DEF SavedTwice, Past
  <2>2. rec \in [Ids -> {"none", "torn", "log", "no log"}] /\ logged \in [Ids -> BOOLEAN]
    BY DEF FilesInv, LogTypeOK
  <2>3. \A i \in Ids : logged'[i] = logged[i] \/ i = d[2]
    BY <1>2, <1>4, <2>2
  <2>4. (\A i \in Ids : rec'[i] \in {rec[i], "none"}) /\ (p = "half" => rec'[d[2]] = "none")
    BY <1>2, <1>4, <2>2
  <2> QED
    BY <2>1, <2>3, <2>4
<1>7. RecordHasItsLog'
  <2> SUFFICES ASSUME NEW i \in Ids, rec'[i] = "log" PROVE logged'[i] \/ SavedTwice(i)'
    BY DEF RecordHasItsLog
  <2>1. rec[i] = "log" /\ (logged[i] \/ SavedTwice(i))
    BY <1>6 DEF FilesInv, RecordHasItsLog
  <2>2. logged'[i] # logged[i] => SavedTwice(i)
    BY <1>2, <1>4, <1>6, <2>1 DEF FilesInv, LogTypeOK
  <2> QED
    BY <1>6, <2>1, <2>2
\* The log that goes was found by a save only where there are two.
<1>8. ASSUME NEW q \in Savers \X Ids, save'[q] = "log", phase'[q[2]] # "past"
      PROVE  logged'[q[2]] \/ SavedTwice(q[2])'
  <2>1. q[2] \in Ids /\ save[q] = "log" /\ (logged[q[2]] \/ SavedTwice(q[2]))
    BY <1>2, <1>8 DEF FilesInv
  <2>2. CASE q[2] # d[2]
    BY <1>6, <2>1, <2>2
  <2>3. CASE q[2] = d[2]
    <3>1. phase[q[2]] = "over"
      BY <1>2, <1>8, <2>3 DEF FilesInv, Past
    <3>2. PICK b \in Savers : save[<<b, q[2]>>] = "over"
      BY <2>1, <3>1 DEF FilesInv
    <3>3. q = <<q[1], q[2]>> /\ q[1] \in Savers /\ q[1] # b
      BY <2>1, <3>2
    <3>4. SavedTwice(q[2])
      BY <2>1, <3>2, <3>3 DEF SavedTwice, Savers
    <3> QED
      BY <1>6, <2>1, <3>4
  <2> QED
    BY <2>2, <2>3
<1>9. ASSUME NEW e \in Deleters \X Ids
      PROVE  /\ del'[e] # "no" => Past(e[2])'
             /\ del'[e] = "half" => rec'[e[2]] = "none" \/ SavedTwice(e[2])'
  <2>1. /\ e[2] \in Ids
        /\ del[e] # "no" => Past(e[2])
        /\ del[e] = "half" => rec[e[2]] = "none" \/ SavedTwice(e[2])
    BY DEF FilesInv
  <2> QED
    BY <1>2, <1>3, <1>6, <2>1 DEF FilesInv
<1>10. \A i \in Ids : rec'[i] \in {"log", "no log"} => Past(i)'
  BY <1>6 DEF FilesInv
<1>11. \A i \in Ids : phase'[i] = "over" => \E b \in Savers : save'[<<b, i>>] = "over"
  BY <1>2 DEF FilesInv
<1> QED
  BY <1>5, <1>7, <1>8, <1>9, <1>10, <1>11 DEF FilesInv

LEMMA LogCrash == ASSUME FilesInv, CrashAndCleanup PROVE FilesInv'
<1>1. PICK old \in SUBSET Readable :
        del' = [d \in Deleters \X Ids |->
                  IF d[1] = "cleanup" THEN IF d[2] \in old THEN "asked" ELSE "no"
                  ELSE IF d[1] = "page" /\ del[d] # "no" THEN "failed" ELSE "no"]
  BY DEF CrashAndCleanup
<1>2. /\ phase' = [i \in Ids |-> IF phase[i] = "none" THEN "none" ELSE "past"]
      /\ save' = [k \in Savers \X Ids |-> IF save[k] = "no" THEN "no" ELSE "over"]
      /\ UNCHANGED <<rec, logged>> /\ Spend
  BY DEF CrashAndCleanup
<1>3. \A i \in Ids : SavedTwice(i)' = SavedTwice(i) /\ (Past(i) => Past(i)')
  BY <1>2 DEF SavedTwice, Past
<1>4. \A d \in Deleters \X Ids : del'[d] # "half" /\ (del'[d] # "no" => Past(d[2])')
  <2> SUFFICES ASSUME NEW d \in Deleters \X Ids
               PROVE  del'[d] # "half" /\ (del'[d] # "no" => Past(d[2])')
    OBVIOUS
  <2>1. d[2] \in Ids /\ del'[d] # "half" /\ (del'[d] # "no" => d[2] \in old \/ del[d] # "no")
    BY <1>1
  <2>2. d[2] \in old \/ del[d] # "no" => Past(d[2])
    BY DEF FilesInv, Readable
  <2> QED
    BY <1>3, <2>1, <2>2
<1>5. LogTypeOK'
  <2>1. del' \in [Deleters \X Ids -> {"no", "asked", "half", "ok", "failed"}]
    BY <1>1
  <2>2. troubles' \in 0..MaxTroubles
    BY <1>2, Spends
  <2>3. save' \in [Savers \X Ids -> {"no", "log", "no log", "over"}]
    BY <1>2
  <2> QED
    BY <1>2, <2>1, <2>2, <2>3 DEF FilesInv, LogTypeOK
<1>6. RecordHasItsLog' /\ \A i \in Ids : rec'[i] \in {"log", "no log"} => Past(i)'
  BY <1>2, <1>3 DEF FilesInv, RecordHasItsLog
<1>7. \A i \in Ids : phase'[i] # "over"
  BY <1>2
<1>8. \A k \in Savers \X Ids : save'[k] # "log"
  BY <1>2
<1> QED
  BY <1>4, <1>5, <1>6, <1>7, <1>8 DEF FilesInv

LEMMA SameFiles ==
  ASSUME FilesInv, UNCHANGED <<phase, save, rec, logged, del>>, troubles' \in 0..MaxTroubles
  PROVE  FilesInv'
<1>1. LogTypeOK'
  BY DEF FilesInv, LogTypeOK
<1>2. \A i \in Ids : SavedTwice(i)' = SavedTwice(i) /\ Past(i)' = Past(i)
  BY DEF SavedTwice, Past
<1>3. RecordHasItsLog' /\ \A i \in Ids : rec'[i] \in {"log", "no log"} => Past(i)'
  BY <1>2 DEF FilesInv, RecordHasItsLog
<1>4. \A i \in Ids : phase'[i] = "over" => \E b \in Savers : save'[<<b, i>>] = "over"
  BY DEF FilesInv
<1>5. ASSUME NEW k \in Savers \X Ids, save'[k] = "log", phase'[k[2]] # "past"
      PROVE  logged'[k[2]] \/ SavedTwice(k[2])'
  <2>1. k[2] \in Ids /\ (logged[k[2]] \/ SavedTwice(k[2]))
    BY <1>5 DEF FilesInv
  <2> QED
    BY <1>2, <2>1
<1>6. ASSUME NEW d \in Deleters \X Ids
      PROVE  /\ del'[d] # "no" => Past(d[2])'
             /\ del'[d] = "half" => rec'[d[2]] = "none" \/ SavedTwice(d[2])'
  <2>1. /\ d[2] \in Ids
        /\ del[d] # "no" => Past(d[2])
        /\ del[d] = "half" => rec[d[2]] = "none" \/ SavedTwice(d[2])
    BY DEF FilesInv
  <2> QED
    BY <1>2, <2>1
<1> QED
  BY <1>1, <1>3, <1>4, <1>5, <1>6 DEF FilesInv

LEMMA LogStep ==
  ASSUME FilesInv, Next
  PROVE  FilesInv'
<1>1. CASE UNCHANGED files
  <2>1. UNCHANGED <<phase, save, rec, logged, del>> /\ troubles' \in 0..MaxTroubles
    BY <1>1 DEF files, FilesInv, LogTypeOK
  <2> QED
    BY <2>1, SameFiles
<1>2. CASE LogNext
  <2>1. ASSUME NEW i \in Ids, BeginSession(i) PROVE FilesInv'
    BY <2>1, BeginStep
  <2>2. ASSUME NEW i \in Ids, AskInTab(i) PROVE FilesInv'
    BY <2>2, AskDeleteStep DEF AskInTab
  <2>3. ASSUME NEW k \in Savers \X Ids, LookForLog(k) PROVE FilesInv'
    BY <2>3, LookStep
  <2>4. ASSUME NEW k \in Savers \X Ids, WriteRecord(k) PROVE FilesInv'
    BY <2>4, RecordStep
  <2>5. ASSUME NEW d \in Deleters \X Ids, HandleDeleteHistory(d) \/ DeleteLost(d) PROVE FilesInv'
    BY <2>5, DeleteSteps
  <2> QED
    BY <1>2, <2>1, <2>2, <2>3, <2>4, <2>5, LogCrash DEF LogNext
<1>3. ASSUME NEW i \in Ids, HandleDelete(i) \/ HandleDeleteDone(i) PROVE FilesInv'
  <2>1. <<"page", i>> \in Deleters \X Ids
    BY DEF Deleters
  <2> QED
    BY <1>3, <2>1, AskDeleteStep, DeleteSteps DEF HandleDelete, HandleDeleteDone
<1>4. CASE HistoryLost \/ \E l \in loads : LogLost(l)
  <2>1. UNCHANGED <<phase, save, rec, logged, del>> /\ troubles' \in 0..MaxTroubles
    BY <1>4, Spends DEF HistoryLost, LogLost
  <2> QED
    BY <2>1, SameFiles
<1>5. \/ UNCHANGED files \/ LogNext
      \/ \E i \in Ids : HandleDelete(i) \/ HandleDeleteDone(i)
      \/ HistoryLost \/ \E l \in loads : LogLost(l)
  BY DEF Next, AgentsOpen, CreateIsOpen, HistoryOpen, HistoryNext, ServeHistory, FetchHistoryDone,
     CloseLog, Remount, OpenLog, ServeLog, LoadLog
<1> QED
  BY <1>1, <1>2, <1>3, <1>4, <1>5

----------------------------------------------------------------------------
(* The history and the viewer.                                             *)

Loads == [of : Ids, at : {"asked", "ok", "failed"}, mounted : BOOLEAN]

\* A read that is still listened to is of the session that is open.
ViewInv ==
  /\ HistoryTypeOK /\ LogIsOfTarget
  /\ loads \subseteq Loads
  /\ \A l \in loads : l.mounted => l.of = logTarget

\* The list, without its types.
Viewed ==
  /\ {logTarget, viewing} \subseteq Ids \cup {NoId} /\ logLoading \in BOOLEAN
  /\ loads \subseteq Loads
  /\ \A l \in loads : l.mounted => l.of = logTarget
  /\ LogIsOfTarget
Fetched ==
  /\ records \subseteq Ids \X BOOLEAN /\ fetched \subseteq Ids \X BOOLEAN
  /\ fetching \in {"no", "asked", "ok", "failed"} /\ historyLoading \in BOOLEAN
  /\ mounts \in 1..MaxMounts

LEMMA ViewInvIs == ViewInv <=> Viewed /\ Fetched
  BY DEF ViewInv, Viewed, Fetched, HistoryTypeOK, Loads

LEMMA ViewInit == HistoryInit => ViewInv
<1> SUFFICES ASSUME HistoryInit PROVE Viewed /\ Fetched
  BY ViewInvIs
<1>1. 1 \in 1..MaxMounts
  BY HistoryAssumption
<1> QED
  BY <1>1 DEF HistoryInit, Viewed, Fetched, LogIsOfTarget

LEMMA AbandonIs ==
  ASSUME Viewed
  PROVE  Abandon \subseteq Loads /\ \A l \in Abandon : ~l.mounted
  BY DEF Viewed, Abandon, Loads

\* An answer that arrives keeps whose read it is.
LEMMA Arrived ==
  ASSUME Viewed, NEW l \in loads, NEW p \in {"ok", "failed"}, LoadAt(l, p),
         UNCHANGED <<logTarget, viewing, logLoading>>
  PROVE  Viewed'
<1> DEFINE m == [l EXCEPT !.at = p]
<1>1. m \in Loads /\ m.of = l.of /\ m.mounted = l.mounted
  BY DEF Viewed, Loads
<1>2. loads' = (loads \ {l}) \cup {m}
  BY DEF LoadAt
<1> HIDE DEF m
<1>3. logTarget # NoId /\ logLoading => \E k \in loads' : k.mounted /\ k.of = logTarget
  BY <1>1, <1>2 DEF Viewed, LogIsOfTarget
<1> QED
  BY <1>1, <1>2, <1>3 DEF Viewed, LogIsOfTarget

\* The answer to a read ends it.  Only the read that is listened to shows its
\* log, and it is of the session that is open.
LEMMA Loaded1 ==
  ASSUME Viewed, NEW l \in loads, LoadLog(l)
  PROVE  Viewed'
<1>1. l \in Loads /\ (l.mounted => l.of = logTarget)
  BY DEF Viewed
<1>2. /\ loads' = loads \ {l} /\ logTarget' = logTarget
      /\ viewing' = IF l.mounted /\ l.at = "ok" THEN l.of ELSE viewing
      /\ logLoading' = (logLoading /\ ~l.mounted)
  BY DEF LoadLog
<1>3. CASE l.mounted
  BY <1>1, <1>2, <1>3 DEF Viewed, LogIsOfTarget, Loads
<1>4. CASE ~l.mounted
  <2>1. logLoading' = logLoading /\ viewing' = viewing
    BY <1>2, <1>4 DEF Viewed
  <2>2. logTarget # NoId /\ logLoading => \E k \in loads' : k.mounted /\ k.of = logTarget
    BY <1>2, <1>4 DEF Viewed, LogIsOfTarget
  <2> QED
    BY <1>2, <2>1, <2>2 DEF Viewed, LogIsOfTarget
<1> QED
  BY <1>3, <1>4

LEMMA Opened ==
  ASSUME Viewed, Fetched, NEW i \in Ids, OpenLog(i)
  PROVE  Viewed'
<1> DEFINE m == [of |-> i, at |-> "asked", mounted |-> TRUE]
<1>1. m \in Loads /\ m.of = i /\ m.mounted
  BY DEF Loads
<1>2. /\ loads' = Abandon \cup {m} /\ logTarget = NoId /\ logTarget' = i
      /\ logLoading' = TRUE /\ viewing' = viewing
  BY DEF OpenLog
<1> HIDE DEF m
<1>3. viewing = NoId
  BY <1>2 DEF Viewed, LogIsOfTarget
<1> QED
  BY <1>1, <1>2, <1>3, AbandonIs, LogAssumption DEF Viewed, LogIsOfTarget

LEMMA Closed ==
  ASSUME Viewed, CloseLog \/ Remount
  PROVE  Viewed'
<1>1. CASE CloseLog
  BY <1>1, AbandonIs DEF CloseLog, Viewed, LogIsOfTarget
<1>2. CASE Remount
  BY <1>2 DEF Remount, Viewed, LogIsOfTarget
<1> QED
  BY <1>1, <1>2

LEMMA ListedIs == Listed \subseteq Ids \X BOOLEAN
<1> SUFFICES ASSUME NEW r \in Listed PROVE r \in Ids \X BOOLEAN
  OBVIOUS
<1>1. PICK i \in Readable : r = <<i, rec[i] = "log">>
  BY DEF Listed
<1>2. i \in Ids
  BY DEF Readable
<1>3. (rec[i] = "log") \in BOOLEAN
  OBVIOUS
<1> QED
  BY <1>1, <1>2, <1>3

LEMMA FetchedStep ==
  ASSUME Fetched, HistoryNext
  PROVE  Fetched'
<1>1. /\ records' \subseteq Ids \X BOOLEAN /\ fetched' \subseteq Ids \X BOOLEAN
      /\ fetching' \in {"no", "asked", "ok", "failed"} /\ historyLoading' \in BOOLEAN
  BY ListedIs DEF Fetched, HistoryNext, ServeHistory, HistoryLost, FetchHistoryDone, CloseLog,
     Remount, HandleDelete, HandleDeleteDone, OpenLog, ServeLog, LogLost, LoadLog, history
<1>2. mounts' = mounts \/ (mounts < MaxMounts /\ mounts' = mounts + 1)
  BY DEF HistoryNext, ServeHistory, HistoryLost, FetchHistoryDone, CloseLog, Remount,
     HandleDelete, HandleDeleteDone, OpenLog, ServeLog, LogLost, LoadLog, history
<1>3. mounts' \in 1..MaxMounts
  BY <1>2, HistoryAssumption DEF Fetched
<1> QED
  BY <1>1, <1>3 DEF Fetched

LEMMA ViewStep ==
  ASSUME ViewInv, Next
  PROVE  ViewInv'
<1>1. Viewed /\ Fetched
  BY ViewInvIs
<1>2. CASE UNCHANGED history
  BY <1>1, <1>2 DEF history, viewer, ViewInv, HistoryTypeOK, LogIsOfTarget
<1>3. CASE HistoryNext
  <2>1. ASSUME UNCHANGED viewer PROVE Viewed'
    BY <1>1, <2>1 DEF viewer, Viewed, LogIsOfTarget
  <2>2. ASSUME NEW l \in loads, ServeLog(l) \/ LogLost(l) PROVE Viewed'
    BY <1>1, <2>2, Arrived DEF ServeLog, LogLost
  <2>3. ASSUME NEW i \in Ids, OpenLog(i) PROVE Viewed'
    BY <1>1, <2>3, Opened
  <2>4. ASSUME CloseLog \/ Remount PROVE Viewed'
    BY <1>1, <2>4, Closed
  <2>5. ASSUME NEW l \in loads, LoadLog(l) PROVE Viewed'
    BY <1>1, <2>5, Loaded1
  <2>6. Viewed'
    BY <1>3, <2>1, <2>2, <2>3, <2>4, <2>5
    DEF HistoryNext, ServeHistory, HistoryLost, FetchHistoryDone, HandleDelete, HandleDeleteDone,
        history
  <2>7. Fetched'
    BY <1>1, <1>3, FetchedStep
  <2> QED
    BY <2>6, <2>7, ViewInvIs DEF ViewInv, Viewed, Fetched, HistoryTypeOK, Loads
<1> QED
  BY <1>2, <1>3 DEF Next, AgentsOpen, CreateIsOpen, HistoryOpen

----------------------------------------------------------------------------
(* The whole.                                                              *)

\* All parts together, which is inductive.
StoresInv == Inv /\ PageInv /\ DialogInv /\ FilesInv /\ ViewInv

LEMMA NoneUnder == ASSUME StoreInit, NEW R PROVE Under(R) = {}
  BY DEF StoreInit, Under

LEMMA StoresInit == Init => StoresInv
<1> SUFFICES ASSUME Init PROVE StoresInv
  OBVIOUS
<1>1. Inv /\ FilesInv /\ ViewInv
  BY InitInv, FilesInit, ViewInit DEF Init
<1>2. PageInv
  <2>1. MaxAsks \in Nat /\ asks = 0 /\ fetches = 1 /\ saving = FALSE
    BY StoreAssumption DEF Init, StoreInit, AgentPageInit
  <2>2. 1 \in 0..(MaxAsks + 1) /\ 0 <= MaxAsks /\ 1 <= 0 + 1
    BY <2>1
  <2>3. AgentPageTypeOK
    BY <2>1, <2>2, EmptyIsMap DEF Init, AgentPageInit, AgentPageTypeOK
  <2>4. OneWhile(saving, Under(Saves))
    BY <2>1, NoneUnder DEF Init, OneWhile
  <2> QED
    BY <2>1, <2>2, <2>3, <2>4 DEF PageInv
<1>3. DialogInv
  <2>1. 0 \in 0..MaxLists
    BY DialogAssumption
  <2>2. CreateTypeOK /\ creating = FALSE
    BY <2>1 DEF Init, CreateInit, CreateTypeOK
  <2>3. Under(Creations) = {}
    BY NoneUnder DEF Init
  <2> QED
    BY <2>2, <2>3 DEF DialogInv, OneWhile
<1> QED
  BY <1>1, <1>2, <1>3 DEF StoresInv

\* Whatever page is open, its steps are steps of the store: what it asks is
\* a request.
LEMMA AskedByPage ==
  ASSUME PageInv, NEW c \in Clients, FetchAgents(c) \/ HandleDeleteAgent(c) \/ HandleSave(c)
  PROVE  \E r \in Requests : Ask(c, r)
<1>1. CASE FetchAgents(c)
  BY <1>1, PageRequests, DefaultIs DEF FetchAgents
<1>2. CASE HandleDeleteAgent(c)
  <2>1. PICK a \in Agents : Ask(c, PageRequest("delete", a, Default))
    BY <1>2 DEF HandleDeleteAgent, Custom
  <2> QED
    BY <2>1, PageRequests, DefaultIs
<1>3. CASE HandleSave(c)
  <2>1. PICK f \in Fields : Ask(c, PageRequest("put", f[1], f[2]))
    BY <1>3 DEF HandleSave
  <2>2. f[1] \in Agents /\ f[2] \in Configs
    BY <2>1, FormAssumption DEF Fields, PageInv, AgentPageTypeOK
  <2> QED
    BY <2>1, <2>2, PageRequests
<1> QED
  BY <1>1, <1>2, <1>3

LEMMA AskedByDialog ==
  ASSUME DialogInv, NEW c \in Clients, ListAgents(c) \/ HandleCreate(c)
  PROVE  \E r \in Requests : Ask(c, r)
<1>1. CASE ListAgents(c)
  BY <1>1, DialogRequests DEF ListAgents
<1>2. CASE HandleCreate(c)
  <2>1. DialogRequest("create", agent) \in Requests
    BY DialogRequests DEF DialogInv, CreateTypeOK
  <2> QED
    BY <1>2, <2>1 DEF HandleCreate
<1> QED
  BY <1>1, <1>2

LEMMA StepOfStore == PageInv /\ DialogInv /\ [Next]_vars => [StoreNext]_store
<1> SUFFICES ASSUME PageInv, DialogInv, [Next]_vars PROVE StoreNext \/ UNCHANGED store
  OBVIOUS
<1>1. ASSUME AgentPageNext PROVE StoreNext \/ UNCHANGED store
  <2>1. ASSUME NEW c \in Clients,
               FetchAgents(c) \/ HandleDeleteAgent(c) \/ HandleSave(c)
        PROVE  StoreNext
    BY <2>1, AskedByPage DEF StoreNext
  <2>2. ASSUME NEW c \in Clients,
               FetchAgentsDone(c) \/ DeleteAgentDone(c) \/ HandleSaveDone(c)
        PROVE  StoreNext
    BY <2>2 DEF FetchAgentsDone, DeleteAgentDone, HandleSaveDone, Answered, StoreNext
  <2> QED
    BY <1>1, <2>1, <2>2 DEF AgentPageNext
<1>2. ASSUME CreateNext PROVE StoreNext \/ UNCHANGED store
  <2>1. ASSUME NEW c \in Clients, ListAgents(c) \/ HandleCreate(c) PROVE StoreNext
    BY <2>1, AskedByDialog DEF StoreNext
  <2>2. ASSUME NEW c \in Clients, ListAgentsDone(c) \/ HandleCreateDone(c) PROVE StoreNext
    BY <2>2 DEF ListAgentsDone, HandleCreateDone, DialogAnswered, StoreNext
  <2> QED
    BY <1>2, <2>1, <2>2 DEF CreateNext
<1>3. ASSUME StoreStep PROVE StoreNext
  BY <1>3 DEF StoreStep, Trouble, Others, StoreNext
<1>4. UNCHANGED vars => UNCHANGED store
  BY DEF vars
<1> QED
  BY <1>1, <1>2, <1>3, <1>4 DEF Next, AgentsOpen, CreateIsOpen, HistoryOpen

LEMMA StoresNext == StoresInv /\ [Next]_vars => StoresInv'
<1> SUFFICES ASSUME StoresInv, [Next]_vars PROVE StoresInv'
  OBVIOUS
<1>1. Inv'
  BY StepOfStore, NextInv DEF StoresInv
<1>2. CASE Next
  BY <1>1, <1>2, PageStep, DialogStep, LogStep, ViewStep DEF StoresInv
<1>3. CASE UNCHANGED vars
  <2>1. UNCHANGED <<pc, req, asks, agentPage, createDialog, files, history>>
    BY <1>3 DEF vars, store
  <2>2. Under(Saves)' = Under(Saves) /\ Under(Creations)' = Under(Creations)
    BY <2>1, UnderKept
  <2>3. PageInv'
    BY <2>1, <2>2 DEF StoresInv, PageInv, AgentPageTypeOK, OneWhile, agentPage, form
  <2>4. DialogInv'
    BY <2>1, <2>2 DEF StoresInv, DialogInv, CreateTypeOK, OneWhile, createDialog
  <2>5. FilesInv'
    <3>1. UNCHANGED <<phase, save, rec, logged, del>> /\ troubles' \in 0..MaxTroubles
      BY <2>1 DEF StoresInv, FilesInv, LogTypeOK, files
    <3> QED
      BY <3>1, SameFiles DEF StoresInv
  <2>6. ViewInv'
    BY <2>1 DEF StoresInv, ViewInv, HistoryTypeOK, LogIsOfTarget, history, viewer
  <2> QED
    BY <1>1, <2>3, <2>4, <2>5, <2>6 DEF StoresInv
<1> QED
  BY <1>2, <1>3

\* The inductive invariant of the stores and the pages that use them.
THEOREM StoresInvariance == Spec => []StoresInv
  BY StoresInit, StoresNext, PTL DEF Spec

\* All variables of the stores and of the pages have their types; the reads
\* that are due stay within what the saves can cause.
THEOREM StoresTypes == Spec => []TypeOK
<1>1. StoresInv => TypeOK
  BY DEF StoresInv, Inv, Data, Control, Bounds, Locked, StoreTypeOK, Values, PageInv, DialogInv,
     FilesInv, ViewInv, TypeOK
<1> QED
  BY <1>1, StoresInvariance, PTL

\* Two saves of one page never race: the button is disabled exactly while
\* one is under way, whatever fails and however the form is closed and
\* opened (agent-config.tsx, lines 264-317, 460).
THEOREM SavesNeverRace == Spec => []OneSave
<1>1. StoresInv => OneSave
  <2> SUFFICES ASSUME StoresInv PROVE OneSave
    OBVIOUS
  <2>1. Under(Saves) = {c \in Clients : ~At(c, "idle") /\ req[c].by = "page" /\ req[c].op = "put"}
    BY DEF StoresInv, Inv, Control, Under, Saves, At
  <2>2. OneWhile(saving, Under(Saves))
    BY DEF StoresInv, PageInv
  <2>3. (saving <=> Under(Saves) # {}) /\ Cardinality(Under(Saves)) <= 1
    BY <2>2, OneIsOne
  <2> QED
    BY <2>1, <2>3 DEF OneSave
<1> QED
  BY <1>1, StoresInvariance, PTL

\* One click never makes two sessions: a creation is under way exactly while
\* the buttons of the dialog are disabled (create-dialog.tsx, lines 86-131
\* and 363-375).
THEOREM CreationsNeverRace == Spec => []OneCreation
<1>1. StoresInv => OneCreation
  <2> SUFFICES ASSUME StoresInv PROVE OneCreation
    OBVIOUS
  <2>1. Under(Creations) = {c \in Clients : ~At(c, "idle") /\ req[c].op = "create"}
    BY DEF StoresInv, Inv, Control, Under, Creations, At
  <2>2. OneWhile(creating, Under(Creations))
    BY DEF StoresInv, DialogInv
  <2>3. (creating <=> Under(Creations) # {}) /\ Cardinality(Under(Creations)) <= 1
    BY <2>2, OneIsOne
  <2> QED
    BY <2>1, <2>3 DEF OneCreation
<1> QED
  BY <1>1, StoresInvariance, PTL

\* The history never offers a log that is gone, for any number of sessions,
\* deletions, restarts and lost answers (sessionlog/store.go, lines 75-100
\* and 139-147).
THEOREM RecordsHaveTheirLogs == Spec => []RecordHasItsLog
<1>1. StoresInv => RecordHasItsLog
  BY DEF StoresInv, FilesInv
<1> QED
  BY <1>1, StoresInvariance, PTL

\* The viewer shows the log of the session it was opened for and of no
\* other, however late the answers come (log-viewer.tsx, lines 26-95).
THEOREM LogsAreOfTheirTarget == Spec => []LogIsOfTarget
<1>1. StoresInv => LogIsOfTarget
  BY DEF StoresInv, ViewInv
<1> QED
  BY <1>1, StoresInvariance, PTL

\* The store keeps its promise under these pages, too: what they do to it is
\* an execution of the store, so no acknowledged change of the page is lost
\* and the composition implements DurableMap (store.go with its callers).
THEOREM PagesUseTheStore == Spec => StoreSpec /\ []AckedSurvives /\ ImplementsDurableMap
<1>1. Spec => StoreSpec
  <2>1. Init => StoreInit
    BY DEF Init
  <2>2. StoresInv /\ [Next]_vars => [StoreNext]_store
    BY StepOfStore DEF StoresInv
  <2> QED
    BY <2>1, <2>2, StoresInvariance, PTL DEF Spec, StoreSpec
<1> QED
  BY <1>1, AckedNeverLost, StoreImplements, PTL
=============================================================================
