---------------------------- MODULE MC_Sessions ----------------------------
(***************************************************************************)
(* SessionManager on small instances.  Each run gives the requests the     *)
(* operations whose interleavings it is about; a request makes one call,   *)
(* whichever of its operations and whenever, or none.                      *)
(***************************************************************************)
EXTENDS SessionManager, TLC

CONSTANTS r1, r2, r3, r4

\* A workspace is renamed while its sessions come and go; the two requests
\* that create are the same to every property.
RenameCalls ==
  r1 :> {"create"} @@ r2 :> {"stop", "delete"} @@ r3 :> {"rename"}
    @@ r4 :> {"create"}

Creators == Permutations({r1, r4})

\* Clients against one another, the reaper and the shutdown.
TimeoutCalls ==
  r1 :> {"create"} @@ r2 :> {"stop"} @@ r4 :> {"shutdown"}
    @@ r3 :> {"create", "stop", "reap", "restart", "deletews"}

ResumeCalls == r1 :> {"create"} @@ r2 :> {"stop"} @@ r3 :> {"create"}

TwoStopsCalls == r1 :> {"create"} @@ r2 :> {"stop"} @@ r3 :> {"stop"}

DeletedCalls == r1 :> {"create"} @@ r2 :> {"delete"} @@ r3 :> {"rename"}

FailedSetupCalls == r1 :> {"create"} @@ r2 :> {"stop"} @@ r3 :> {"restart"}

=============================================================================
