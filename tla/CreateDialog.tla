---------------------------- MODULE CreateDialog ----------------------------
(***************************************************************************)
(* web/src/components/create-dialog.tsx, the dialog that creates a         *)
(* session, opened by the buttons of app/page.tsx.  Of its fields only the *)
(* agent matters to the server's answer here.  A success leaves the page;  *)
(* the user comes back to a new dialog once all its requests are answered. *)
(***************************************************************************)
EXTENDS AgentStore

CONSTANT MaxLists    \* bound: reads of the agents that are due

ASSUME DialogAssumption == MaxLists \in Nat

VARIABLES
  home,            \* the page with the dialog is mounted
  createOpen, creating,
  choices,         \* the custom agents offered
  agent,           \* the one chosen
  lists            \* reads of the agents that are due

createDialog == <<home, createOpen, creating, choices, agent, lists>>

DialogRequest(op, a) ==
  [op |-> op, name |-> a, cfg |-> CHOOSE v \in Configs : TRUE, by |-> "dialog"]

CreateInit ==
  /\ home = TRUE /\ createOpen = FALSE /\ creating = FALSE
  /\ choices = {} /\ agent = NoAgent /\ lists = 0

\* Every opening reads the agents.
OpenCreate ==
  /\ home /\ ~createOpen /\ createOpen' = TRUE
  /\ lists < MaxLists /\ lists' = lists + 1
  /\ UNCHANGED <<home, creating, choices, agent>>

ListAgents(c) ==
  /\ home /\ lists > 0 /\ lists' = lists - 1
  /\ Ask(c, DialogRequest("list", NoAgent))
  /\ UNCHANGED <<home, createOpen, creating, choices, agent>>

DialogAnswered(c, op) == req[c].by = "dialog" /\ req[c].op = op /\ Deliver(c)

ListAgentsDone(c) ==
  /\ DialogAnswered(c, "list")
  /\ choices' = IF home /\ At(c, "ok") THEN {a \in Agents : got[c][a] # NoConfig} ELSE choices
  /\ UNCHANGED <<home, createOpen, creating, agent, lists>>

\* The fields of the form, of which the select of the agent is kept.
SetAgent ==
  /\ createOpen
  /\ agent' \in choices \cup {NoAgent}
  /\ UNCHANGED <<home, createOpen, creating, choices, lists>>

ResetFormAll == agent' = NoAgent /\ creating' = FALSE            \* mutant

\* resetForm sets all fields, and leaves creating alone.
ResetForm == agent' = NoAgent /\ UNCHANGED creating

\* Escape and the cross reset the form, also during a creation.
Dismiss ==
  /\ createOpen /\ createOpen' = FALSE
  /\ ResetForm
  /\ UNCHANGED <<home, choices, lists>>

\* Cancel goes past the handler that would reset it.
CancelCreate ==
  /\ createOpen /\ ~creating /\ createOpen' = FALSE
  /\ UNCHANGED <<home, creating, choices, agent, lists>>

HandleCreate(c) ==
  /\ createOpen /\ ~creating /\ creating' = TRUE
  /\ Ask(c, DialogRequest("create", agent))
  /\ UNCHANGED <<home, createOpen, choices, agent, lists>>

\* A success resets and closes whatever the dialog shows by now.
HandleCreateDone(c) ==
  /\ DialogAnswered(c, "create")
  /\ creating' = FALSE
  /\ IF At(c, "ok")
     THEN createOpen' = FALSE /\ agent' = NoAgent /\ home' = FALSE
     ELSE UNCHANGED <<createOpen, agent, home>>
  /\ UNCHANGED <<choices, lists>>

Return ==
  /\ ~home /\ \A c \in Clients : req[c].by = "dialog" => At(c, "idle")
  /\ home' = TRUE /\ createOpen' = FALSE /\ creating' = FALSE
  /\ choices' = {} /\ agent' = NoAgent /\ lists' = 0

CreateNext ==
  \/ \E c \in Clients : \/ ListAgents(c) \/ ListAgentsDone(c)
                        \/ HandleCreate(c) \/ HandleCreateDone(c)
  \/ (OpenCreate \/ SetAgent \/ Dismiss \/ CancelCreate \/ Return) /\ UNCHANGED store

----------------------------------------------------------------------------
CreateTypeOK ==
  /\ {home, createOpen, creating} \subseteq BOOLEAN /\ choices \subseteq Agents
  /\ agent \in Agents \cup {NoAgent} /\ lists \in 0..MaxLists

\* The dialog has a creation under way exactly while its buttons are
\* disabled, however it was closed and opened again in between: one click
\* never makes two sessions (lines 86-131, 363-375).
OneCreation ==
  LET creations == {c \in Clients : ~At(c, "idle") /\ req[c].op = "create"}
  IN  /\ creating <=> creations # {}
      /\ Cardinality(creations) <= 1
=============================================================================
