------------------------------- MODULE Subject -------------------------------
(***************************************************************************)
(* What the components that share a run have in common.  subject is the    *)
(* program, project or configuration a behaviour is about: a record whose  *)
(* part names the component.  state is the state of that component, when   *)
(* it has one and declares no variables of its own.                        *)
(***************************************************************************)
VARIABLES subject, state

Stateless == state = <<>>

\* A component that computes an answer from its input alone does so in one step.
Compute == state = <<>> /\ state' = <<"computed">> /\ UNCHANGED subject
Computed == state = <<"computed">>
=============================================================================
