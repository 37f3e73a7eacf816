------------------------------ MODULE Sandbox ------------------------------
(***************************************************************************)
(* The execution backend of internal/sandbox/docker.go as the session      *)
(* manager sees it: containers, the image tag each workspace is committed  *)
(* to ("zynqel-ws-<ws>:latest") and the volume that holds its files        *)
(* ("zynqel-ws-<ws>").  An image and a volume are abstracted to the set    *)
(* of sessions whose work they contain.  Every operator is one call of     *)
(* the Sandbox interface that succeeds; a call that fails leaves           *)
(* everything as it was, except where an operator ...Failed says what a    *)
(* failure leaves behind.                                                  *)
(***************************************************************************)
CONSTANTS Sids,         \* session ids, which also name the containers
          Workspaces    \* workspace ids that clients choose

\* A session created without a workspace id gets one from its own id.
Names == Workspaces \cup Sids

VARIABLES ctr,          \* container -> [state, vol, env]
          tagged,       \* names with a committed image
          layers,       \* name -> sessions whose packages the image holds
          volumes,      \* names with a volume
          data          \* name -> sessions whose files the volume holds

sandboxVars == <<ctr, tagged, layers, volumes, data>>

CtrStates == {"none", "created", "running", "exited", "removed"}

SandboxTypeOK ==
  /\ ctr \in [Sids -> [state : CtrStates, vol : SUBSET Names,
                             env : SUBSET Sids]]
  /\ tagged \subseteq Names
  /\ layers \in [Names -> SUBSET Sids]
  /\ volumes \subseteq Names
  /\ data \in [Names -> SUBSET Sids]

SandboxInit ==
  /\ ctr = [i \in Sids |-> [state |-> "none", vol |-> {}, env |-> {}]]
  /\ tagged = {}
  /\ layers = [w \in Names |-> {}]
  /\ volumes = {}
  /\ data = [w \in Names |-> {}]

Exists(i) == ctr[i].state \in {"created", "running", "exited"}

----------------------------------------------------------------------------
(* Containers.                                                             *)

\* Creates the volume when it is missing, then a container on it.
CreateContainer(i, w, base) ==
  /\ volumes' = volumes \cup {w}
  /\ ctr' = [ctr EXCEPT ![i] =
               [state |-> "created", vol |-> {w}, env |-> base]]
  /\ UNCHANGED <<tagged, layers, data>>

\* The volume is created first and stays when the container fails.
CreateContainerFailed(w) ==
  \E vs \in {volumes, volumes \cup {w}} :
    volumes' = vs /\ UNCHANGED <<ctr, tagged, layers, data>>

StartContainer(i) ==
  /\ Exists(i)
  /\ ctr' = [ctr EXCEPT ![i].state = "running"]
  /\ UNCHANGED <<tagged, layers, volumes, data>>

StopContainer(i) ==
  /\ Exists(i)
  /\ ctr' = [ctr EXCEPT ![i].state = "exited"]
  /\ UNCHANGED <<tagged, layers, volumes, data>>

\* Remove is forced, so a running container goes as well.
RemoveContainer(i) ==
  /\ Exists(i)
  /\ ctr' = [ctr EXCEPT ![i].state = "removed"]
  /\ UNCHANGED <<tagged, layers, volumes, data>>

\* What setupWorkspace clones goes to the volume only.
Clone(i) ==
  /\ data' = [w \in Names |-> IF w \in ctr[i].vol THEN data[w] \cup {i}
                              ELSE data[w]]
  /\ UNCHANGED <<ctr, tagged, layers, volumes>>

\* The work done in container i: packages in its file system and files on its
\* volume.
Populate(i) ==
  /\ ctr' = [ctr EXCEPT ![i].env = @ \cup {i}]
  /\ data' = [w \in Names |-> IF w \in ctr[i].vol THEN data[w] \cup {i}
                              ELSE data[w]]
  /\ UNCHANGED <<tagged, layers, volumes>>

----------------------------------------------------------------------------
(* Images.                                                                 *)

\* Commit works on a running and on an exited container, and moves the tag.
Commit(i, w) ==
  /\ Exists(i)
  /\ tagged' = tagged \cup {w}
  /\ layers' = [layers EXCEPT ![w] = ctr[i].env]
  /\ UNCHANGED <<ctr, volumes, data>>

TagImage(old, new) ==
  /\ old \in tagged
  /\ tagged' = tagged \cup {new}
  /\ layers' = [layers EXCEPT ![new] = layers[old]]
  /\ UNCHANGED <<ctr, volumes, data>>

RemoveImage(w) ==
  /\ tagged' = tagged \ {w}
  /\ layers' = [layers EXCEPT ![w] = {}]
  /\ UNCHANGED <<ctr, volumes, data>>

----------------------------------------------------------------------------
(* Volumes.                                                                *)

\* Removes the managed containers attached to the volume, running or not,
\* then the volume with its files.
RemoveVolume(w) ==
  /\ ctr' = [i \in Sids |->
               IF w \in ctr[i].vol /\ Exists(i)
               THEN [ctr[i] EXCEPT !.state = "removed"] ELSE ctr[i]]
  /\ volumes' = volumes \ {w}
  /\ data' = [data EXCEPT ![w] = {}]
  /\ UNCHANGED <<tagged, layers>>

\* Mounting a source volume that does not exist makes Docker create it.
CopyVolume(src, dst) ==
  /\ volumes' = volumes \cup {src, dst}
  /\ data' = [data EXCEPT ![dst] = @ \cup data[src]]
  /\ UNCHANGED <<ctr, tagged, layers>>

\* Every failure after the destination exists removes it again, with the
\* context that may already have been cancelled.
CopyVolumeFailed(dst) ==
  \E vs \in {volumes \ {dst}, volumes \cup {dst}} :
    /\ volumes' = vs
    /\ data' = [data EXCEPT ![dst] = IF dst \in vs THEN @ ELSE {}]
    /\ UNCHANGED <<ctr, tagged, layers>>

=============================================================================
