----------------------------- MODULE ReloadQueue -----------------------------
(***************************************************************************)
(* What `forst dev` promises about hot reload, with nothing said about how *)
(* it is done: saves make the tree dirty, reloads run one at a time, a     *)
(* reload that starts picks up every save made so far, and a dirty tree is *)
(* eventually reloaded.  ReloadCoalescer is shown to implement it.         *)
(***************************************************************************)

VARIABLES
    dirty,  \* some save has not been picked up by a reload that started after it
    busy    \* a reload is running

vars == <<dirty, busy>>

TypeOK ==
    /\ dirty \in BOOLEAN
    /\ busy \in BOOLEAN

Init ==
    /\ dirty = TRUE
    /\ busy = FALSE

Save ==
    /\ dirty' = TRUE
    /\ UNCHANGED busy

Start ==
    /\ ~busy
    /\ busy' = TRUE
    /\ dirty' = FALSE

Finish ==
    /\ busy
    /\ busy' = FALSE
    /\ UNCHANGED dirty

Next == Save \/ Start \/ Finish

Spec ==
    /\ Init
    /\ [][Next]_vars
    /\ WF_vars(Finish)
    /\ WF_vars(dirty /\ Start)
==============================================================================
