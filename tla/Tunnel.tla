------------------------------- MODULE Tunnel -------------------------------
(***************************************************************************)
(* What a Conn promises to the callers of DialContext, without locks,      *)
(* frames, callbacks or goroutines: dials are made one after the other;    *)
(* each yields a pipe to a connection with the target it named, or fails   *)
(* and leaves no connection behind; chunks pass in order, each once, and   *)
(* only between the two ends of one session; a connection is given up only *)
(* for a reason, and it is given up once its pipe is closed.               *)
(***************************************************************************)
EXTENDS Naturals, Sequences

CONSTANTS
  Session   \* the dials, numbered in the order in which they are made

VARIABLES
  pipe,     \* pipe[k]: what the caller of dial k has
  target,   \* target[k]: the connection to the target of dial k
  ended,    \* ended[k]: that target has ended or reset its connection
  sent,     \* sent[e][k]: the number of chunks read at end e of session k
  got,      \* got[e][k]: the chunks written at end e of session k
  down      \* the websocket under the tunnel, or a process, has come to an end

vars == <<pipe, target, ended, sent, got, down>>

End == {"client", "server"}
Peer(e) == IF e = "client" THEN "server" ELSE "client"

Init ==
  /\ pipe = [k \in Session |-> "none"]
  /\ target = [k \in Session |-> "none"]
  /\ ended = [k \in Session |-> FALSE]
  /\ sent = [e \in End |-> [k \in Session |-> 0]]
  /\ got = [e \in End |-> [k \in Session |-> <<>>]]
  /\ down = FALSE

-----------------------------------------------------------------------------
Becomes(k, s) == pipe' = [pipe EXCEPT ![k] = s]

(* A caller asks for target k, once all earlier sessions are over.         *)
Ask(k) ==
  /\ pipe[k] = "none"
  /\ \A j \in Session : j < k => pipe[j] \in {"failed", "abandoned", "closed"}
  /\ Becomes(k, "asked")
  /\ UNCHANGED <<target, ended, sent, got, down>>

(* The target is reached: for a caller that still waits, or has given up   *)
(* waiting; never beside the connection of another session.                *)
Connect(k) ==
  /\ target[k] = "none"
  /\ pipe[k] \in {"asked", "abandoned"} \/ down
  /\ \A j \in Session : target[j] # "open"
  /\ target' = [target EXCEPT ![k] = "open"]
  /\ UNCHANGED <<pipe, ended, sent, got, down>>

(* The caller gets its pipe, and only if its own target was reached.       *)
Establish(k) ==
  /\ pipe[k] = "asked"
  /\ target[k] # "none"
  /\ Becomes(k, "open")
  /\ UNCHANGED <<target, ended, sent, got, down>>

(* The caller gets an error: the target was not reached, or the tunnel is  *)
(* down, perhaps so early that nothing was asked.                          *)
Fail(k) ==
  /\ \/ pipe[k] = "asked" /\ target[k] = "none"
     \/ pipe[k] \in {"none", "asked"} /\ down
  /\ Becomes(k, "failed")
  /\ UNCHANGED <<target, ended, sent, got, down>>

(* The caller's own context is done before it has an answer.               *)
Abandon(k) ==
  /\ pipe[k] = "asked"
  /\ Becomes(k, "abandoned")
  /\ UNCHANGED <<target, ended, sent, got, down>>

(* The pipe is closed, by its user or because the other side is over.      *)
ClosePipe(k) ==
  /\ pipe[k] = "open"
  /\ Becomes(k, "closed")
  /\ UNCHANGED <<target, ended, sent, got, down>>

(* The connection to a target is given up: its pipe is closed, the target  *)
(* has ended it, or the tunnel is down.                                    *)
Release(k) ==
  /\ target[k] = "open"
  /\ pipe[k] = "closed" \/ ended[k] \/ down
  /\ target' = [target EXCEPT ![k] = "closed"]
  /\ UNCHANGED <<pipe, ended, sent, got, down>>

TargetEnds(k) ==
  /\ target[k] = "open"
  /\ ended' = [ended EXCEPT ![k] = TRUE]
  /\ UNCHANGED <<pipe, target, sent, got, down>>

OpenAt(e, k) == IF e = "client" THEN pipe[k] = "open" ELSE target[k] = "open"

Produce(e, k) ==
  /\ OpenAt(e, k)
  /\ sent' = [sent EXCEPT ![e][k] = @ + 1]
  /\ UNCHANGED <<pipe, target, ended, got, down>>

(* The next chunk of the same session arrives.                             *)
Deliver(e, k) ==
  /\ OpenAt(e, k)
  /\ Len(got[e][k]) < sent[Peer(e)][k]
  /\ got' = [got EXCEPT ![e][k] = Append(@, <<k, Len(@) + 1>>)]
  /\ UNCHANGED <<pipe, target, ended, sent, down>>

(* The tunnel goes down; whoever brought it down may close its own end of  *)
(* the session in the same step.                                           *)
GoDown ==
  /\ down' = TRUE
  /\ \/ UNCHANGED <<pipe, target>>
     \/ \E k \in Session :
          \/ pipe[k] = "open" /\ Becomes(k, "closed") /\ UNCHANGED target
          \/ /\ target[k] = "open"
             /\ target' = [target EXCEPT ![k] = "closed"]
             /\ UNCHANGED pipe
  /\ UNCHANGED <<ended, sent, got>>

Next ==
  \/ \E k \in Session :
       \/ Ask(k) \/ Connect(k) \/ Establish(k) \/ Fail(k) \/ Abandon(k)
       \/ ClosePipe(k) \/ Release(k) \/ TargetEnds(k)
       \/ \E e \in End : Produce(e, k) \/ Deliver(e, k)
  \/ GoDown

Safety == Init /\ [][Next]_vars

(* A caller is answered, and a closed pipe does not keep a target busy, as *)
(* long as the tunnel is up.                                               *)
Answered == \A k \in Session : pipe[k] = "asked" ~> pipe[k] # "asked"
Released ==
  \A k \in Session : pipe[k] = "closed" ~> (target[k] # "open" \/ down)

Spec == Safety /\ Answered /\ Released

=============================================================================
