------------------------------- MODULE Tooling -------------------------------
(***************************************************************************)
(* The tools around the compiler, one component per behaviour: the subject *)
(* of a behaviour says which.                                              *)
(***************************************************************************)
EXTENDS BridgeHost, Sidecar, InvokeServer, InvokeClient, CliCache

Init == \/ BridgeHostInit /\ Stateless
        \/ (SidecarInit \/ InvokeServerInit \/ InvokeClientInit \/ CliInit) /\ BridgeHostIdle
Next == \/ BridgeHostNext /\ UNCHANGED state
        \/ (SidecarNext \/ InvokeServerNext \/ InvokeClientNext \/ CliNext) /\ UNCHANGED hostVars
Spec == Init /\ [][Next]_<<subject, state, hostVars>>
=============================================================================
