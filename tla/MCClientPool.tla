---------------------------- MODULE MCClientPool ----------------------------
(* ClientPool with two streams, with a packet pipe and a ping.             *)
EXTENDS ClientPool

CONSTANTS c1, c2

Calls(op1, op2) == c1 :> op1 @@ c2 :> op2
MCMix == {Calls("stream", "stream"), Calls("packet", "ping")}

=============================================================================
