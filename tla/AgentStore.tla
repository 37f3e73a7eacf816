----------------------------- MODULE AgentStore -----------------------------
(***************************************************************************)
(* internal/agentcfg/store.go, the custom agents in memory and in          *)
(* agents.json, with the handlers of internal/server/agents.go that change *)
(* them and the two that read them: the list of agents, and the creation   *)
(* of a session that names one.  The server may crash between any two      *)
(* steps; it then loads the file again (cmd/zynqel-core/main.go).          *)
(*                                                                         *)
(* A request belongs to one client, and a client has one at a time.  What  *)
(* the kernel has been given survives a crash of the process.              *)
(***************************************************************************)
EXTENDS Naturals, FiniteSets

CONSTANTS Agents,       \* names of custom agents
          NoAgent,      \* an agent that is built in
          Configs, NoConfig,
          Clients, NoClient,
          Torn,         \* a file that is not there, or not written to its end
          MaxAsks,      \* bound: requests other than reads of the list
          MaxCrashes,   \* bound: crashes of the server
          MaxFaults     \* bound: failures of the disk, and answers lost

ASSUME StoreAssumption ==
  /\ NoAgent \notin Agents /\ NoConfig \notin Configs /\ NoClient \notin Clients
  /\ Configs # {}
  /\ Torn \notin [Agents -> Configs \cup {NoConfig}]
  /\ {MaxAsks, MaxCrashes, MaxFaults} \subseteq Nat

VARIABLES
  mem,       \* s.data.Agents; NoConfig for a name it does not have
  file,      \* agents.json
  tmp,       \* agents.json.tmp
  lock,      \* who holds s.mu for writing
  pc, req,   \* of every client: how far its request is, and what it is
  got,       \* the list that was read for it
  may,       \* history: what each agent may be, see DurableMap
  asks, crashes, faults

store == <<mem, file, tmp, lock, pc, req, got, may, asks, crashes, faults>>

Maps  == [Agents -> Configs \cup {NoConfig}]
Empty == [a \in Agents |-> NoConfig]

Requests == [op : {"put", "delete"}, name : Agents, cfg : Configs, by : {"page", "other"}]
            \cup [op : {"create", "list"}, name : Agents \cup {NoAgent}, cfg : Configs,
                  by : {"page", "dialog"}]

NoRequest == CHOOSE r \in Requests : TRUE

\* What a request makes of its agent.
Wanted(r) == IF r.op = "put" THEN r.cfg ELSE NoConfig

StoreInit ==
  /\ mem \in Maps /\ file = mem /\ tmp = Torn
  /\ lock = NoClient
  /\ pc = [c \in Clients |-> "idle"]
  /\ req = [c \in Clients |-> NoRequest]
  /\ got = [c \in Clients |-> Empty]
  /\ may = [a \in Agents |-> {mem[a]}]
  /\ asks = 0 /\ crashes = 0 /\ faults = 0

At(c, p) == pc[c] = p
Goto(c, p) == pc' = [pc EXCEPT ![c] = p]
Fault == faults < MaxFaults /\ faults' = faults + 1

Ask(c, r) ==
  /\ At(c, "idle") /\ Goto(c, "asked")
  /\ req' = [req EXCEPT ![c] = r]
  /\ r.op # "list" => asks < MaxAsks
  /\ asks' = IF r.op = "list" THEN asks ELSE asks + 1
  /\ UNCHANGED <<mem, file, tmp, lock, got, may, crashes, faults>>

\* The image is built before the store is asked, and without its lock.  A
\* name that Put refuses is a build that fails.
Build(c) ==
  /\ At(c, "asked") /\ req[c].op = "put"
  /\ Goto(c, "built") \/ Goto(c, "failed")
  /\ UNCHANGED <<mem, file, tmp, lock, req, got, may, asks, crashes, faults>>

ReadyToChange(c) ==
  \/ At(c, "built")
  \/ At(c, "asked") /\ req[c].op = "delete" /\ mem[req[c].name] # NoConfig

ChangeUnlocked(c) ==                                           \* mutant
  /\ ReadyToChange(c) /\ Goto(c, "changed")
  /\ mem' = [mem EXCEPT ![req[c].name] = Wanted(req[c])]
  /\ may' = [may EXCEPT ![req[c].name] = @ \cup {Wanted(req[c])}]
  /\ UNCHANGED <<lock, file, tmp, req, got, asks, crashes, faults>>

\* Put and Delete change the map before they write the file.
Change(c) ==
  /\ ReadyToChange(c) /\ Goto(c, "changed")
  /\ lock = NoClient /\ lock' = c
  /\ mem' = [mem EXCEPT ![req[c].name] = Wanted(req[c])]
  /\ may' = [may EXCEPT ![req[c].name] = @ \cup {Wanted(req[c])}]
  /\ UNCHANGED <<file, tmp, req, got, asks, crashes, faults>>

\* Delete of an agent that is not there.
Refused(c) ==
  /\ At(c, "asked") /\ req[c].op = "delete" /\ mem[req[c].name] = NoConfig
  /\ lock = NoClient
  /\ Goto(c, "failed")
  /\ UNCHANGED <<mem, file, tmp, lock, req, got, may, asks, crashes, faults>>

OpenInPlace(c) ==                                              \* mutant
  /\ At(c, "changed") /\ Goto(c, "opened")
  /\ file' = Torn
  /\ UNCHANGED <<mem, tmp, lock, req, got, may, asks, crashes, faults>>

OpenTmp(c) ==
  /\ At(c, "changed") /\ Goto(c, "opened")
  /\ tmp' = Torn
  /\ UNCHANGED <<mem, file, lock, req, got, may, asks, crashes, faults>>

WriteTmp(c) ==
  /\ At(c, "opened") /\ Goto(c, "written")
  /\ tmp' = mem
  /\ UNCHANGED <<mem, file, lock, req, got, may, asks, crashes, faults>>

RenameTmp(c) ==
  /\ At(c, "written") /\ Goto(c, "ok")
  /\ file' = tmp /\ tmp' = Torn
  /\ lock' = NoClient
  /\ may' = [may EXCEPT ![req[c].name] = {Wanted(req[c])}]
  /\ UNCHANGED <<mem, req, got, asks, crashes, faults>>

\* The caller is told so, and the map keeps the change.
FlushFails(c) ==
  /\ pc[c] \in {"changed", "opened", "written"} /\ Goto(c, "failed") /\ Fault
  /\ lock' = NoClient
  /\ UNCHANGED <<mem, file, tmp, req, got, may, asks, crashes>>

ReadList(c) ==
  /\ At(c, "asked") /\ req[c].op = "list" /\ lock = NoClient
  /\ got' = [got EXCEPT ![c] = mem] /\ Goto(c, "ok")
  /\ UNCHANGED <<mem, file, tmp, lock, req, may, asks, crashes, faults>>

\* A creation may fail later on, and does if its agent is unknown.
CreateSession(c) ==
  /\ At(c, "asked") /\ req[c].op = "create" /\ lock = NoClient
  /\ \/ Goto(c, "failed")
     \/ req[c].name \in {NoAgent} \cup {a \in Agents : mem[a] # NoConfig} /\ Goto(c, "ok")
  /\ UNCHANGED <<mem, file, tmp, lock, req, got, may, asks, crashes, faults>>

Handle(c) ==
  \/ Build(c) \/ Change(c) \/ Refused(c) \/ OpenTmp(c) \/ WriteTmp(c) \/ RenameTmp(c)
  \/ ReadList(c) \/ CreateSession(c)

\* The connection breaks, or the server's WriteTimeout is over.
AnswerLost(c) ==
  /\ At(c, "ok") /\ Goto(c, "failed") /\ Fault
  /\ UNCHANGED <<mem, file, tmp, lock, req, got, may, asks, crashes>>

Deliver(c) ==
  /\ pc[c] \in {"ok", "failed"} /\ Goto(c, "idle")
  /\ req' = [req EXCEPT ![c] = NoRequest] /\ got' = [got EXCEPT ![c] = Empty]
  /\ UNCHANGED <<mem, file, tmp, lock, may, asks, crashes, faults>>

\* What Load finds; a file that cannot be parsed is only logged.
Loaded == IF file = Torn THEN Empty ELSE file

\* The server dies and is started again; so does a file that cannot be read.
CrashAndLoad ==
  /\ crashes < MaxCrashes /\ crashes' = crashes + 1
  /\ pc' = [c \in Clients |-> IF At(c, "idle") THEN "idle" ELSE "failed"]
  /\ lock' = NoClient
  /\ \/ mem' = Loaded /\ UNCHANGED <<may, faults>>
     \/ Fault /\ mem' = Empty /\ may' = [a \in Agents |-> may[a] \cup {NoConfig}]
  /\ UNCHANGED <<file, tmp, req, got, asks>>

StoreNext ==
  \/ \E c \in Clients : \/ \E r \in Requests : Ask(c, r)
                        \/ Handle(c) \/ FlushFails(c) \/ AnswerLost(c) \/ Deliver(c)
  \/ CrashAndLoad

StoreSpec == StoreInit /\ [][StoreNext]_store

----------------------------------------------------------------------------
Flushing == {"changed", "opened", "written"}

\* The types, and who holds the lock: exactly the request between Lock and
\* the deferred Unlock of Put or Delete (store.go, lines 122-134, 143-150).
StoreTypeOK ==
  /\ mem \in Maps /\ file \in Maps \cup {Torn} /\ tmp \in Maps \cup {Torn}
  /\ lock \in Clients \cup {NoClient}
  /\ pc \in [Clients -> {"idle", "asked", "built", "ok", "failed"} \cup Flushing]
  /\ req \in [Clients -> Requests] /\ got \in [Clients -> Maps]
  /\ may \in [Agents -> SUBSET (Configs \cup {NoConfig})]
  /\ asks \in Nat /\ crashes \in Nat /\ faults \in Nat
  /\ \A c \in Clients : lock = c <=> pc[c] \in Flushing

\* What is served and what a restart would load is, for every agent, what
\* the last acknowledged change made of it or what a change asked for since
\* would: no crash at any point, no failed write and no other request loses
\* an acknowledged change (lines 116-169).
AckedSurvives ==
  \A a \in Agents : mem[a] \in may[a] /\ Loaded[a] \in may[a]

DM == INSTANCE DurableMap WITH Keys <- Agents, Values <- Configs, None <- NoConfig, shown <- mem

\* The store implements what DurableMap promises.
ImplementsDurableMap == DM!Spec
=============================================================================
