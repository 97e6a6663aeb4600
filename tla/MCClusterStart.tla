--------------------------- MODULE MCClusterStart ---------------------------
(* ClusterStart with two workers. *)
EXTENDS ClusterStart

TwoWorkers == <<"w1", "w2">>
AllFates == Fates
=============================================================================
