-------------------------------- MODULE MCHub --------------------------------
(* The hub with two publishing goroutines and two connections.             *)
EXTENDS Hub, TLC

CONSTANTS mutator, ticker, s1, s2

MCSources == {mutator, ticker}
MCRecovered == {mutator}
MCSubscribers == {s1, s2}
MCLeavers == {s1}
MCMaxEvents == mutator :> 2 @@ ticker :> 1
=============================================================================
