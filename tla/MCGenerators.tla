---------------------------- MODULE MCGenerators ----------------------------
(* Model of Generators: a loop that pulls in batches and a caller of Next.  *)
(* Their generators end alike, in each of the ways.                         *)
EXTENDS Generators

CONSTANTS h1, h2

TwoHandles == {h1, h2}
SecondHandle == {h2}

AlikeInit == Init /\ \A s, t \in Handles : ending[s] = ending[t]
AlikeSpec == AlikeInit /\ [][Next]_vars /\ (\A s \in Handles : WF_vars(Loop(s))) /\ WF_vars(Node)
=============================================================================
