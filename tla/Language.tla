------------------------------ MODULE Language ------------------------------
(***************************************************************************)
(* The compiler's parts side by side: a behaviour is about one subject,    *)
(* a bounded program or input of one part.                                 *)
(***************************************************************************)
EXTENDS Providers, Refinement, Syntax, Checker

Init == /\ Stateless
        /\ \/ ProvidersInit /\ RefinementIdle
           \/ RefinementInit /\ ProvidersIdle
           \/ (SyntaxInit \/ CheckerInit) /\ ProvidersIdle /\ RefinementIdle
Next == \/ ProvidersNext /\ UNCHANGED <<state, flowVars>>
        \/ RefinementNext /\ UNCHANGED <<state, providersVars>>
        \/ (SyntaxNext \/ CheckerNext) /\ UNCHANGED <<providersVars, flowVars>>
Spec == Init /\ [][Next]_<<subject, state, providersVars, flowVars>>
=============================================================================
