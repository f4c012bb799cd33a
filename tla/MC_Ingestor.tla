----------------------------- MODULE MC_Ingestor -----------------------------
(* Instances of Ingestor for TLC: two records of the first worker's shards   *)
(* and one without a shard key.                                              *)
EXTENDS Ingestor

ThreeRecords == 1..3
Homes == <<1, 1, 0>>
=============================================================================
