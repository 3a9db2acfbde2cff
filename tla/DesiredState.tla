---------------------------- MODULE DesiredState ----------------------------
(***************************************************************************)
(* What a user of the program's Kubernetes resource may rely on: whatever  *)
(* fails or restarts on the way, the collector resource only ever serves a *)
(* content that was asked for as a whole, or nothing.  Module ConfigSet is *)
(* shown to implement this specification when its reconciler is the only   *)
(* one to Set.                                                             *)
(***************************************************************************)
CONSTANTS
    Contents,              \* what can be asked for
    NoContent              \* nothing is served

VARIABLES
    desired,               \* what the resource says now
    past,                  \* all it has ever said
    served                 \* what the collector resource runs

desiredVars == <<desired, past, served>>

DesiredInit == past = {} /\ served = NoContent /\ desired \notin Contents

(* The user writes, rewrites or withdraws the resource.                    *)
Ask ==
    /\ desired' # desired
    /\ past' = past \cup ({desired'} \cap Contents)
    /\ UNCHANGED served

Serve ==
    /\ served' \in past
    /\ UNCHANGED <<desired, past>>

(* The process restarts with empty caches.                                 *)
Forget ==
    /\ served' = NoContent
    /\ UNCHANGED <<desired, past>>

DesiredNext == Ask \/ Serve \/ Forget

DesiredSpec == DesiredInit /\ [][DesiredNext]_desiredVars
============================================================================
