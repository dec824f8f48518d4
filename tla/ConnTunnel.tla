----------------------------- MODULE ConnTunnel -----------------------------
(***************************************************************************)
(* A Conn implements the Tunnel its users see.                             *)
(***************************************************************************)
EXTENDS Conn

(* What the caller of dial k has: serveStream of the client is started in  *)
(* the step that makes the pipe.                                           *)
PipeOf(k) ==
  CASE serve["client"][k].pc # "none" ->
         IF k \in client.open THEN "open" ELSE "closed"
    [] serve["client"][k].pc = "none" /\ k > dial.k -> "none"
    [] serve["client"][k].pc = "none" /\ k < dial.k -> "failed"
    [] serve["client"][k].pc = "none" /\ k = dial.k ->
         IF dial.pc \in {"sent", "select", "accepted"} THEN "asked"
         ELSE IF dial.cancelled THEN "abandoned" ELSE "failed"

(* The connection to target k: serveStream of the server is started in the *)
(* step that makes it.                                                     *)
TargetOf(k) ==
  IF serve["server"][k].pc = "none" THEN "none"
  ELSE IF k \in conn["server"].open THEN "open" ELSE "closed"

T == INSTANCE Tunnel WITH
  pipe <- [k \in Session |-> PipeOf(k)],
  target <- [k \in Session |-> TargetOf(k)],
  ended <- [k \in Session |-> ended[k] # "no"],
  down <- ~link \/ \E e \in End : conn[e].ctxDone \/ Crashed(e)

(* Whatever the goroutines of the two Conns do, their users see the steps  *)
(* of a Tunnel only: pipes to the right target, chunks in order, and no    *)
(* connection that is given up without a reason.                           *)
ImplementsTunnelSteps == T!Safety

(* The same without the chunks: the two ends of a session meet and part as *)
(* in a Tunnel, whatever is sent through it.                               *)
S == INSTANCE Tunnel WITH
  pipe <- [k \in Session |-> PipeOf(k)],
  target <- [k \in Session |-> TargetOf(k)],
  ended <- [k \in Session |-> ended[k] # "no"],
  sent <- [e \in End |-> [k \in Session |-> 0]],
  got <- [e \in End |-> [k \in Session |-> <<>>]],
  down <- ~link \/ \E e \in End : conn[e].ctxDone \/ Crashed(e)

(* However often a Conn is used, and with data passing both ways, its      *)
(* users see the sessions of a Tunnel: pipes to the right target, one      *)
(* after the other, none given up without a reason.                        *)
SessionsAreTunnel == S!Safety

(* And they see them happen: every DialContext returns, and a closed pipe  *)
(* has the server give up its connection.                                  *)
ImplementsTunnel == T!Spec

=============================================================================
