------------------------------ MODULE MCMonitor ------------------------------
(***************************************************************************)
(* An instance of Monitor for TLC: two of the four pairs, and a log that   *)
(* is nearly full after two batches.                                       *)
(***************************************************************************)
EXTENDS MonitorProperties

CONSTANTS h1, h2, cmc

MCPairs == <<"ICP/CXDR", "BTC/BTT">>
MCSizeOf == [result \in {"Rate", "RateLimited", "CallError"} |-> IF result = "Rate" THEN 3 ELSE 2]

(* Moments less than, and in the minute of, five minutes after the first:  *)
(* a batch, none, and another.                                             *)
MCMoments == {600, 840, 930}
MCLimits == {1, 1000}

=============================================================================
