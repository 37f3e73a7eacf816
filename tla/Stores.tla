------------------------------- MODULE Stores -------------------------------
(***************************************************************************)
(* The two stores with the parts of the console that use them.  They share *)
(* no state: a behaviour is about the one page that is open, the agents,   *)
(* the dialog that creates a session, or the history, with another tab     *)
(* that changes the same store.                                            *)
(***************************************************************************)
EXTENDS AgentConfig, CreateDialog, SessionHistory

CONSTANT OtherConfigs   \* what another tab, or a script, puts

ASSUME OthersAssumption == OtherConfigs \subseteq Configs

VARIABLE open     \* the page that is open

Pages == {"agents", "create", "history"}

vars == <<open, store, agentPage, createDialog, files, history>>

Init ==
  /\ open \in Pages
  /\ StoreInit /\ AgentPageInit /\ CreateInit /\ LogInit /\ HistoryInit

Trouble == (\E c \in Clients : FlushFails(c) \/ AnswerLost(c)) \/ CrashAndLoad

\* Requests of another tab, or of a script, which puts what the form cannot
\* express; while the dialog is open, only such as delete agents.
Others ==
  \E c \in Clients :
    \/ \E r \in Requests :
         /\ r.by = "other"
         /\ \/ r.op = "delete" /\ r.cfg = Default
            \/ open = "agents" /\ r.op = "put" /\ r.cfg \in OtherConfigs
         /\ Ask(c, r)
    \/ req[c].by = "other" /\ Deliver(c)

StoreStep == (\E c \in Clients : Handle(c)) \/ Trouble \/ Others

AgentsOpen ==
  /\ open = "agents" /\ UNCHANGED <<open, createDialog, files, history>>
  /\ \/ AgentPageNext
     \/ StoreStep /\ UNCHANGED agentPage

CreateIsOpen ==
  /\ open = "create" /\ UNCHANGED <<open, agentPage, files, history>>
  /\ \/ CreateNext
     \/ StoreStep /\ UNCHANGED createDialog

HistoryOpen ==
  /\ open = "history" /\ UNCHANGED <<open, store, agentPage, createDialog>>
  /\ \/ HistoryNext
     \/ LogNext /\ UNCHANGED history

Next == AgentsOpen \/ CreateIsOpen \/ HistoryOpen

Spec == Init /\ [][Next]_vars

\* The server goes on with every request, and the browser hands on what was
\* answered.
Progress(c) ==
  /\ UNCHANGED open
  /\ \/ /\ open # "history" /\ UNCHANGED <<agentPage, createDialog, files, history>>
        /\ Handle(c)
     \/ /\ open = "agents" /\ UNCHANGED <<createDialog, files, history>>
        /\ FetchAgentsDone(c) \/ DeleteAgentDone(c) \/ HandleSaveDone(c)
     \/ /\ open = "create" /\ UNCHANGED <<agentPage, files, history>>
        /\ ListAgentsDone(c) \/ HandleCreateDone(c)

Viewing(i) ==
  /\ open = "history" /\ UNCHANGED <<open, store, agentPage, createDialog>>
  /\ \E l \in loads : l.of = i /\ (ServeLog(l) \/ LoadLog(l))

CleaningUp ==
  /\ open = "history" /\ UNCHANGED <<open, store, agentPage, createDialog, history>>
  /\ \E i \in Ids : HandleDeleteHistory(<<"cleanup", i>>)

Fairness ==
  /\ WF_vars(CleaningUp)
  /\ \A c \in Clients : WF_vars(Progress(c))
  /\ \A i \in Ids : WF_vars(Viewing(i))

----------------------------------------------------------------------------
\* The types of all parts.
TypeOK == StoreTypeOK /\ AgentPageTypeOK /\ CreateTypeOK /\ LogTypeOK /\ HistoryTypeOK

\* No button stays disabled and no viewer spins for ever, whatever fails:
\* each save and creation is answered, and each log shown or given up.
Busy == saving \/ creating \/ (logLoading /\ logTarget # NoId)
RequestsSettle == Busy ~> ~Busy
=============================================================================
