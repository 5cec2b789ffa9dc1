------------------------------- MODULE MCRdma -------------------------------
(***************************************************************************)
(* An instance of RdmaTransport for TLC: two tasks, two workers of which   *)
(* one polls, two peers, each the shard of one worker.                     *)
(***************************************************************************)
EXTENDS RdmaTransport, TLC

CONSTANTS s1, s2, t1, t2, w1, w2, p1, p2

Tasks == s1 :> t1 @@ s2 :> t2
Targets == t1 :> {p1} @@ t2 :> {p2}
Shards == p1 :> w1 @@ p2 :> w2
=============================================================================
