---------------------------- MODULE AgentConfig ----------------------------
(***************************************************************************)
(* web/src/components/agent-config.tsx, the page of the agents: the list   *)
(* it reads, the form that adds or edits one, and the delete buttons.  The *)
(* list is read when the page opens and after each save, never on a timer. *)
(***************************************************************************)
EXTENDS AgentStore

CONSTANT FormConfigs   \* what the form can express: no image and no env of its own

ASSUME FormAssumption == FormConfigs \subseteq Configs

VARIABLES
  agents,          \* what is listed, as a map
  agentsLoading,
  dialogOpen, editing,   \* the form, and the agent it edits or NoAgent
  saving,
  fetches          \* reads of the list that are due

form == <<dialogOpen, editing, saving>>
agentPage == <<agents, agentsLoading, form, fetches>>

PageRequest(op, a, v) == [op |-> op, name |-> a, cfg |-> v, by |-> "page"]
Default == CHOOSE v \in Configs : TRUE

AgentPageInit ==
  /\ agents = Empty /\ agentsLoading = TRUE /\ fetches = 1
  /\ dialogOpen = FALSE /\ editing = NoAgent /\ saving = FALSE

FetchAgents(c) ==
  /\ fetches > 0 /\ fetches' = fetches - 1
  /\ Ask(c, PageRequest("list", NoAgent, Default))
  /\ UNCHANGED <<agents, agentsLoading, form>>

Answered(c, op) == req[c].by = "page" /\ req[c].op = op /\ Deliver(c)

FetchAgentsDone(c) ==
  /\ Answered(c, "list")
  /\ agents' = IF At(c, "ok") THEN got[c] ELSE agents
  /\ agentsLoading' = FALSE
  /\ UNCHANGED <<form, fetches>>

\* The tables and the form are drawn once the first read is over.
Tables == ~agentsLoading
Custom == {a \in Agents : agents[a] # NoConfig}

HandleDeleteAgent(c) ==
  /\ Tables /\ ~dialogOpen
  /\ \E a \in Custom : Ask(c, PageRequest("delete", a, Default))
  /\ UNCHANGED agentPage

DeleteAgentDone(c) ==
  /\ Answered(c, "delete")
  /\ agents' = IF At(c, "ok") THEN [agents EXCEPT ![req[c].name] = NoConfig] ELSE agents
  /\ UNCHANGED <<agentsLoading, form, fetches>>

OpenFormResets ==                                              \* mutant
  /\ Tables /\ ~dialogOpen /\ dialogOpen' = TRUE
  /\ editing' \in Custom \cup {NoAgent}
  /\ saving' = FALSE
  /\ UNCHANGED <<agents, agentsLoading, fetches>>

\* "Add Agent" or a pencil.  The effect of the form loads its fields, and
\* touches neither saving nor a request that is under way.
OpenForm ==
  /\ Tables /\ ~dialogOpen /\ dialogOpen' = TRUE
  /\ editing' \in Custom \cup {NoAgent}
  /\ UNCHANGED <<agents, agentsLoading, saving, fetches>>

\* Cancel, which a save disables, or Escape and the cross, which it does not.
CloseForm ==
  /\ Tables /\ dialogOpen
  /\ dialogOpen' = FALSE /\ editing' = NoAgent
  /\ UNCHANGED <<agents, agentsLoading, saving, fetches>>

\* What the fields can hold; the name of an agent is fixed once it exists.
Fields == (IF editing = NoAgent THEN Agents ELSE {editing}) \X FormConfigs

FormShown == Tables /\ dialogOpen

HandleSave(c) ==
  /\ FormShown /\ ~saving /\ saving' = TRUE
  /\ \E f \in Fields : Ask(c, PageRequest("put", f[1], f[2]))
  /\ UNCHANGED <<agents, agentsLoading, dialogOpen, editing, fetches>>

\* A success closes the form that is open, whichever it is, and reads again.
HandleSaveDone(c) ==
  /\ Answered(c, "put")
  /\ saving' = FALSE
  /\ IF At(c, "ok")
     THEN dialogOpen' = FALSE /\ editing' = NoAgent /\ fetches' = fetches + 1
     ELSE UNCHANGED <<dialogOpen, editing, fetches>>
  /\ UNCHANGED <<agents, agentsLoading>>

AgentPageNext ==
  \/ \E c \in Clients : \/ FetchAgents(c) \/ FetchAgentsDone(c)
                        \/ HandleDeleteAgent(c) \/ DeleteAgentDone(c)
                        \/ HandleSave(c) \/ HandleSaveDone(c)
  \/ (OpenForm \/ CloseForm) /\ UNCHANGED store

----------------------------------------------------------------------------
AgentPageTypeOK ==
  /\ agents \in Maps /\ {agentsLoading, dialogOpen, saving} \subseteq BOOLEAN
  /\ editing \in Agents \cup {NoAgent} /\ fetches \in 0..(MaxAsks + 1)

\* The Save button is disabled exactly while a save of this page is under
\* way, through closing and opening the form, failures and crashes: two
\* saves of one page never race (lines 264-317, 460).
OneSave ==
  LET saves == {c \in Clients : ~At(c, "idle") /\ req[c].by = "page" /\ req[c].op = "put"}
  IN  /\ saving <=> saves # {}
      /\ Cardinality(saves) <= 1
=============================================================================
