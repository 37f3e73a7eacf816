--------------------------- MODULE MC_Broadcast ---------------------------
(***************************************************************************)
(* Broadcaster on small instances.                                         *)
(***************************************************************************)
EXTENDS Broadcaster, TLC

CONSTANTS v1, v2,
          MaxOutput    \* the length of what the container prints

\* The values of the constants Byte and Zero.
Bytes_ == [at : 0 .. MaxOutput, kind : Kinds]
Padding == [at |-> 0, kind |-> "text"]

Printed(kinds) == [k \in DOMAIN kinds |-> [at |-> k, kind |-> kinds[k]]]

\* A line end and a prompt.
ShortOutput == {Printed(<<"nl", "open", "shut">>)}

\* A line, then a coloured prompt that waits for an answer.
PromptOutput == {Printed(<<"text", "nl", "open", "shut", "esc", "fin">>)}

=============================================================================
