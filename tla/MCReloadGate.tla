---------------------------- MODULE MCReloadGate ----------------------------
(* Model of ReloadGate: two plain requests, one stream, two reloads.        *)
EXTENDS ReloadGate

CONSTANTS i1, i2, s1, d1, d2

Requests == {i1, i2, s1}
StreamRequests == {s1}
TwoReloads == {d1, d2}
=============================================================================
