---------------------------- MODULE MCPacketConn ----------------------------
(* PacketConn with addresses of no, one and the greatest number of bytes.  *)
EXTENDS PacketConn

MCNetwork == <<117, 100, 112>>
MCAddrs == <<[i \in 1 .. 255 |-> 49], <<58>>, <<>>>>

=============================================================================
