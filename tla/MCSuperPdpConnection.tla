------------------------- MODULE MCSuperPdpConnection -------------------------
(* Instances of SuperPdpConnection for TLC.                                *)
EXTENDS SuperPdpConnection, TLC

\* Requests are interchangeable, and so are the pairs the platform grants.
Symmetry == Permutations(Requests) \cup Permutations(Pairs)
===============================================================================
