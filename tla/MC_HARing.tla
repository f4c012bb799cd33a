------------------------------ MODULE MC_HARing ------------------------------
(* Instances of HARing for TLC: three clusters, lists of up to MaxUrls URLs. *)
EXTENDS HARing

CONSTANTS c1, c2, c3

ThreeClusters == {c1, c2, c3}
=============================================================================
