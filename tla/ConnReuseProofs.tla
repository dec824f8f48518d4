-------------------------- MODULE ConnReuseProofs --------------------------
(***************************************************************************)
(* Proofs about a Conn that is used for one stream after the other: the    *)
(* two ends agree on the stream, and every open stream is served.  They    *)
(* hold for any number of dials, until a chunk comes to the client late.   *)
(***************************************************************************)
EXTENDS ConnProofs

server == conn["server"]

-----------------------------------------------------------------------------
(* The exchanges: S is answered by RT or RF, X by R.                       *)
Answers == {"reply", "replyTrue", "replyFalse"}
Exchange == {"open", "close"} \cup Answers
Closure == {"normalClosure", "internalError"}

(* The frames that end e is sent.                                          *)
Allowed(e) ==
  IF e = "client" THEN Answers \cup Closure \cup {"error", "data"}
  ELSE {"open", "close", "data"} \cup Closure

On(w, t) == \E e \in End : \E i \in 1 .. Len(w[e]) : w[e][i].t = t
Quiet(w) == \A t \in Exchange : ~On(w, t)

(* An open command is the one of dial k.                                   *)
Typed(w, k) ==
  \A e \in End : \A i \in 1 .. Len(w[e]) :
    w[e][i].t \in Allowed(e) /\ (w[e][i].t = "open" => w[e][i].k = k)

(* Both wires together hold one frame of an exchange at most.              *)
AtMostOne(w) ==
  \A e, d \in End : \A i \in 1 .. Len(w[e]), j \in 1 .. Len(w[d]) :
    w[e][i].t \in Exchange /\ w[d][j].t \in Exchange => e = d /\ i = j

WireIs(w, k) == w \in [End -> Seq(Frame)] /\ Typed(w, k) /\ AtMostOne(w)

(* No frame of an exchange is on w that was not on v.                      *)
NoMore(v, w) == \A t \in Exchange : On(w, t) => On(v, t)

LEMMA QuietTyped ==
  ASSUME NEW w, NEW k, NEW j, WireIs(w, k), Quiet(w)
  PROVE  WireIs(w, j)
BY DEF WireIs, Typed, Quiet, On, Exchange

LEMMA PutFacts ==
  ASSUME NEW w, NEW k, WireIs(w, k), NEW e \in End, NEW f \in Frame,
         f.t \in Allowed(Peer(e)), f.t = "open" => f.k = k,
         f.t \in Exchange => Quiet(w)
  PROVE  /\ WireIs(Put(w, e, f), k)
         /\ \A t : On(Put(w, e, f), t) => On(w, t) \/ t = f.t
<1> DEFINE p == Peer(e)
           v == [w EXCEPT ![p] = Append(@, f)]
<1>1. p \in End
  BY DEF Peer, End
<1>2. CASE link
  <2>1. v = Put(w, e, f) /\ v \in [End -> Seq(Frame)]
    BY <1>1, <1>2 DEF Put, WireIs
  <2>2. \A d \in End : d # p => v[d] = w[d]
    BY DEF WireIs
  <2>3. /\ Len(w[p]) \in Nat /\ Len(v[p]) = Len(w[p]) + 1 /\ v[p][Len(w[p]) + 1] = f
        /\ \A i \in 1 .. Len(w[p]) : v[p][i] = w[p][i]
    BY <1>1 DEF WireIs
  <2> HIDE DEF v, p
  <2>4. \A d \in End : \A i \in 1 .. Len(v[d]) :
          \/ i \in 1 .. Len(w[d]) /\ v[d][i] = w[d][i]
          \/ d = p /\ i = Len(w[p]) + 1 /\ v[d][i] = f
    BY <2>2, <2>3
  <2>5. Typed(v, k)
    BY <2>4 DEF Typed, WireIs, p
  <2>6. AtMostOne(v)
    <3> SUFFICES ASSUME NEW a \in End, NEW d \in End,
                        NEW i \in 1 .. Len(v[a]), NEW j \in 1 .. Len(v[d]),
                        v[a][i].t \in Exchange, v[d][j].t \in Exchange
                 PROVE  a = d /\ i = j
      BY DEF AtMostOne
    <3>1. /\ \/ i \in 1 .. Len(w[a]) /\ v[a][i] = w[a][i]
             \/ a = p /\ i = Len(w[p]) + 1 /\ v[a][i] = f
          /\ \/ j \in 1 .. Len(w[d]) /\ v[d][j] = w[d][j]
             \/ d = p /\ j = Len(w[p]) + 1 /\ v[d][j] = f
      BY <2>4
    <3>2. CASE f.t \in Exchange
      <4>1. \A b \in End : \A n \in 1 .. Len(w[b]) : w[b][n].t \notin Exchange
        BY <3>2 DEF Quiet, On
      <4>2. ~(i \in 1 .. Len(w[a]) /\ v[a][i] = w[a][i])
        BY <4>1
      <4>3. ~(j \in 1 .. Len(w[d]) /\ v[d][j] = w[d][j])
        BY <4>1
      <4> QED
        BY <3>1, <4>2, <4>3
    <3>3. CASE f.t \notin Exchange
      <4>1. /\ i \in 1 .. Len(w[a]) /\ v[a][i] = w[a][i]
            /\ j \in 1 .. Len(w[d]) /\ v[d][j] = w[d][j]
        BY <3>1, <3>3
      <4> QED
        BY <4>1 DEF AtMostOne, WireIs
    <3> QED
      BY <3>2, <3>3
  <2>7. \A t : On(v, t) => On(w, t) \/ t = f.t
    BY <2>4 DEF On
  <2> QED
    BY <2>1, <2>5, <2>6, <2>7 DEF WireIs
<1>3. CASE ~link
  BY <1>3 DEF Put
<1> QED
  BY <1>2, <1>3

LEMMA ReceivedFacts ==
  ASSUME NEW k, WireIs(wire, k), NEW e \in End, wire[e] # <<>>
  PROVE  /\ WireIs(Received(e), k) /\ NoMore(wire, Received(e))
         /\ Head(wire[e]).t \in Allowed(e) /\ On(wire, Head(wire[e]).t)
         /\ Head(wire[e]).t = "open" => Head(wire[e]).k = k
         /\ Head(wire[e]).t \in Exchange => Quiet(Received(e))
<1> DEFINE v == [wire EXCEPT ![e] = Tail(@)]
<1>1. v = Received(e) /\ v \in [End -> Seq(Frame)]
  BY DEF Received, WireIs
<1>2. \A d \in End : d # e => v[d] = wire[d]
  BY DEF WireIs
<1>3. /\ Len(wire[e]) \in Nat /\ Len(wire[e]) >= 1 /\ Len(v[e]) = Len(wire[e]) - 1
      /\ \A i \in 1 .. Len(v[e]) : v[e][i] = wire[e][i + 1]
      /\ Head(wire[e]) = wire[e][1]
  BY DEF WireIs
<1> HIDE DEF v
<1>4. \A d \in End : \A i \in 1 .. Len(v[d]) :
        \/ d # e /\ i \in 1 .. Len(wire[d]) /\ v[d][i] = wire[d][i]
        \/ d = e /\ i \in Nat /\ i + 1 \in 1 .. Len(wire[d]) /\ i + 1 # 1 /\ v[d][i] = wire[d][i + 1]
  BY <1>2, <1>3
<1>5. Typed(v, k) /\ AtMostOne(v)
  <2>1. Typed(v, k)
    <3> SUFFICES ASSUME NEW d \in End, NEW i \in 1 .. Len(v[d])
                 PROVE  v[d][i].t \in Allowed(d) /\ (v[d][i].t = "open" => v[d][i].k = k)
      BY DEF Typed
    <3>1. PICK n \in 1 .. Len(wire[d]) : v[d][i] = wire[d][n]
      BY <1>4
    <3> QED
      BY <3>1 DEF Typed, WireIs
  <2>2. AtMostOne(v)
    <3> SUFFICES ASSUME NEW a \in End, NEW d \in End,
                        NEW i \in 1 .. Len(v[a]), NEW j \in 1 .. Len(v[d]),
                        v[a][i].t \in Exchange, v[d][j].t \in Exchange
                 PROVE  a = d /\ i = j
      BY DEF AtMostOne
    <3>1. PICK m \in 1 .. Len(wire[a]) :
            /\ v[a][i] = wire[a][m] /\ m = (IF a = e THEN i + 1 ELSE i)
      BY <1>4
    <3>2. PICK n \in 1 .. Len(wire[d]) :
            /\ v[d][j] = wire[d][n] /\ n = (IF d = e THEN j + 1 ELSE j)
      BY <1>4
    <3>3. a = d /\ m = n
      BY <3>1, <3>2 DEF AtMostOne, WireIs
    <3> QED
      BY <3>1, <3>2, <3>3
  <2> QED
    BY <2>1, <2>2
<1>6. NoMore(wire, v)
  BY <1>4 DEF NoMore, On
<1>7. 1 \in 1 .. Len(wire[e])
  BY <1>3
<1>8. ASSUME Head(wire[e]).t \in Exchange
      PROVE  Quiet(v)
  <2> SUFFICES ASSUME NEW d \in End, NEW i \in 1 .. Len(v[d]), v[d][i].t \in Exchange
               PROVE  FALSE
    BY DEF Quiet, On
  <2>1. PICK n \in 1 .. Len(wire[d]) : v[d][i] = wire[d][n] /\ (d = e => n # 1)
    BY <1>4
  <2>2. d = e /\ n = 1
    BY <1>3, <1>7, <1>8, <2>1 DEF AtMostOne, WireIs
  <2> QED
    BY <2>1, <2>2
<1> QED
  BY <1>1, <1>3, <1>5, <1>6, <1>7, <1>8 DEF WireIs, Typed, On

-----------------------------------------------------------------------------
(* The inductive invariant.                                                *)

Pending(t) == On(wire, t) \/ (t = "open" /\ server.cur.t = "open")

(* The frames of exchanges: on the wire, or with the Dialer of the server. *)
OneAtATime ==
  /\ WireIs(wire, dial.k)
  /\ server.cur.t = "open" => server.cur.k = dial.k /\ Quiet(wire)

(* An open command or its answer belongs to the last DialContext, whose    *)
(* onResult is installed; that call still waits, or the Conn is done and   *)
(* never Idle again.                                                       *)
OpenPending ==
  (Pending("open") \/ Pending("replyTrue") \/ Pending("replyFalse")) =>
    /\ client.onResult = [kind |-> "dial", k |-> dial.k] /\ dial.res = "none"
    /\ \/ dial.pc \in {"sent", "select"}
       \/ dial.pc = "idle" /\ client.ctxDone /\ client.status \in {"InOper", "Closed"}

(* A serveStream goroutine that may still send X.                          *)
Active == {"start", "check", "read", "write", "eof", "setResult", "sendClose"}

(* X or its answer belongs to the last pipe, which is closed.              *)
ClosePending ==
  (Pending("close") \/ Pending("reply")) =>
    /\ client.onResult = [kind |-> "close", k |-> dial.k]
    /\ dial.pc = "idle" /\ client.status \in {"Stream", "Closed"}
    /\ client.ctxDone \/ client.open = {}
    /\ \A k \in Session : serve["client"][k].pc \notin Active

(* What a call of DialContext makes of the status.                         *)
DialStatus ==
  /\ dial.pc = "sent" => client.status \in {"Idle", "Closed"}
  /\ dial.pc \in {"select", "accepted"} => client.status \in {"InOper", "Closed"}
  /\ dial.pc = "accepted" => dial.res = "ok"
  /\ dial.pc # "stuck" /\ ~dial.cancelled
  /\ client.status = "Stream" /\ client.streamConn # None => client.streamConn = dial.k
  /\ \A e \in End : conn[e].status = "Closed" \/ ~conn[e].wsOpen => conn[e].ctxDone

(* serveStream of the client: only the one of the last pipe is active, and *)
(* as long as it is the Conn stays a stream.                               *)
ServedPipe(k, s) ==
  /\ s.pc \notin {"fail", "sendErr"}
  /\ s.pc # "none" => k <= dial.k
  /\ k = dial.k /\ dial.pc # "idle" => s.pc = "none"
  /\ s.pc \in Active => /\ k = dial.k /\ dial.pc = "idle" /\ dial.res = "ok"
                        /\ client.status \in {"Stream", "Closed"}
  /\ s.pc = "sendClose" => client.onResult = [kind |-> "close", k |-> k]
  /\ ~client.ctxDone /\ k \in client.open =>
       /\ client.status = "Stream"
       /\ s.pc = "start" \/ (s.pc \in {"check", "read", "write"} /\ s.conn = k)

(* serveStream of the server.                                              *)
ServedTarget(k, s) ==
  /\ s.pc \notin {"eof", "setResult", "sendClose", "wait"}
  /\ ~server.ctxDone /\ k \in server.open =>
       /\ server.status = "Stream"
       /\ \/ s.pc = "start"
          \/ /\ s.pc \in {"check", "read", "write", "fail", "sendErr", "return"}
             /\ s.conn = k

Served ==
  \A k \in Session : /\ ServedPipe(k, serve["client"][k])
                     /\ ServedTarget(k, serve["server"][k])

(* The server is a stream for the last dial only, and as long as it is the *)
(* client can make no other.                                               *)
StreamOfLastDial ==
  server.status = "Stream" =>
    /\ server.streamConn = dial.k /\ server.cur.t # "open"
    /\ ~Pending("reply") /\ ~Pending("replyFalse")
    /\ ~(client.status = "Idle" /\ dial.pc = "idle")
    /\ dial.pc # "idle" => dial.res # "fail"

InTurn ==
  /\ OneStream
  /\ OneAtATime
  /\ OpenPending
  /\ ClosePending
  /\ DialStatus
  /\ Served
  /\ StreamOfLastDial

-----------------------------------------------------------------------------
LEMMA FrameKinds ==
  /\ Exchange \cap Closure = {} /\ "error" \notin Exchange
  /\ \A e \in End : Closure \subseteq Allowed(Peer(e))
  /\ \A t \in Closure : Cmd(t) \in Frame /\ Cmd(t).t = t
BY FrameFacts DEF Exchange, Answers, Closure, Allowed, Peer, Cmd, Command, End

(* What closing a Conn leaves of it.                                       *)
Shut(c, r) ==
  /\ r.status = "Closed" /\ r.onResult = c.onResult /\ r.cur = c.cur
  /\ r.open \subseteq c.open
  /\ c.status = "Closed" => r = c
  /\ c.status # "Closed" => /\ r.ctxDone /\ r.streamConn = None
                            /\ r.open = c.open \ {c.streamConn}

LEMMA CloseFacts ==
  ASSUME TypeOK, NEW e \in End, NEW c \in ConnState, NEW w, NEW k, WireIs(w, k),
         NEW code \in Closure, closeWithCode(e, c, w, code)
  PROVE  /\ Shut(c, conn'[e]) /\ \A x \in End : x # e => conn'[x] = conn[x]
         /\ WireIs(wire', k) /\ NoMore(w, wire')
<1> DEFINE d == [CloseStream(c) EXCEPT
                   !.status = "Closed", !.wsOpen = FALSE, !.ctxDone = TRUE]
<1>1. c.status # "Closed" => Shut(c, d)
  BY DEF Shut, CloseStream, ConnState
<1>2. c.status = "Closed" => Shut(c, c)
  BY DEF Shut
<1>3. WireIs(Put(w, e, Cmd(code)), k) /\ NoMore(w, Put(w, e, Cmd(code)))
  <2>1. /\ Cmd(code) \in Frame /\ Cmd(code).t \in Allowed(Peer(e))
        /\ Cmd(code).t \notin Exchange /\ Cmd(code).t # "open"
    BY FrameKinds DEF Exchange
  <2> QED
    BY <2>1, PutFacts DEF NoMore
<1>4. NoMore(w, w)
  BY DEF NoMore
<1>5. WireIs(wire', k) /\ NoMore(w, wire')
  BY <1>3, <1>4 DEF closeWithCode
<1>6. \/ c.status # "Closed" /\ Becomes(e, d)
      \/ c.status = "Closed" /\ Becomes(e, c)
  BY DEF closeWithCode
<1> HIDE DEF d
<1> QED
  BY <1>1, <1>2, <1>5, <1>6 DEF Becomes, TypeOK

(* A step that does no more than cancel the context of a Conn, close it or *)
(* give up a handler of it.                                                *)
LEMMA ShutOK ==
  ASSUME InTurn, OneStream', NEW e \in End,
         \A x \in End : x # e => conn'[x] = conn[x],
         conn'[e].status \in {conn[e].status, "Closed"}, conn'[e].ctxDone,
         conn'[e].onResult = conn[e].onResult, conn'[e].open \subseteq conn[e].open,
         conn'[e].streamConn = conn[e].streamConn \/ conn'[e].status = "Closed",
         conn'[e].cur \in {conn[e].cur, NoFrame},
         WireIs(wire', dial.k), NoMore(wire, wire'), UNCHANGED <<dial, serve>>
  PROVE  InTurn'
<1>1. \A t \in Exchange : Pending(t)' => Pending(t)
  <2>1. server'.cur.t = "open" => server.cur.t = "open"
    BY DEF server, End, NoFrame
  <2> QED
    BY <2>1 DEF Pending, NoMore
<1>2. Quiet(wire) => Quiet(wire')
  BY DEF Quiet, NoMore
<1>3. CASE e = "client"
  <2>1. server' = server /\ client' = conn'[e] /\ client = conn[e] /\ "server" \in End
    BY <1>3 DEF server, client, End
  <2>2. OneAtATime'
    BY <1>2, <2>1 DEF InTurn, OneAtATime, NoFrame
  <2>3. OpenPending' /\ ClosePending'
    BY <1>1, <2>1 DEF InTurn, OpenPending, ClosePending, Exchange, Answers
  <2>4. DialStatus'
    BY <1>3, <2>1 DEF InTurn, DialStatus, End, server
  <2>5. Served'
    BY <2>1 DEF InTurn, Served, ServedPipe, ServedTarget
  <2>6. StreamOfLastDial'
    BY <1>1, <2>1 DEF InTurn, StreamOfLastDial, Exchange, Answers
  <2> QED
    BY <2>2, <2>3, <2>4, <2>5, <2>6 DEF InTurn
<1>4. CASE e = "server"
  <2>1. client' = client /\ server' = conn'[e] /\ server = conn[e] /\ "client" \in End
    BY <1>4 DEF server, client, End
  <2>2. OneAtATime'
    BY <1>2, <2>1 DEF InTurn, OneAtATime, NoFrame
  <2>3. OpenPending' /\ ClosePending'
    BY <1>1, <2>1 DEF InTurn, OpenPending, ClosePending, Exchange, Answers
  <2>4. DialStatus'
    BY <1>4, <2>1 DEF InTurn, DialStatus, End, client
  <2>5. Served'
    BY <2>1 DEF InTurn, Served, ServedPipe, ServedTarget
  <2>6. StreamOfLastDial'
    BY <1>1, <2>1 DEF InTurn, StreamOfLastDial, Exchange, Answers, NoFrame
  <2> QED
    BY <2>2, <2>3, <2>4, <2>5, <2>6 DEF InTurn
<1> QED
  BY <1>3, <1>4 DEF End

-----------------------------------------------------------------------------
(* Each action keeps the invariant: DialContext.                           *)

(* A Conn that may be dialled on is at rest.                               *)
LEMMA AtRest ==
  ASSUME InTurn, client.status = "Idle", dial.pc = "idle"
  PROVE  /\ Quiet(wire) /\ server.cur.t # "open" /\ server.status # "Stream"
         /\ \A k \in Session : serve["client"][k].pc \notin Active
<1>1. \A t \in Exchange : ~Pending(t)
  BY DEF InTurn, OpenPending, ClosePending, Exchange, Answers
<1>2. Quiet(wire) /\ server.cur.t # "open"
  BY <1>1 DEF Quiet, Pending, Exchange
<1> QED
  BY <1>2 DEF InTurn, StreamOfLastDial, Served, ServedPipe

LEMMA DialSendOK ==
  ASSUME InTurn, OneStream', DialSend
  PROVE  InTurn'
<1> DEFINE k == dial.k + 1
           c == [client EXCEPT !.onResult = [kind |-> "dial", k |-> k]]
<1>0. /\ TypeOK /\ client \in ConnState /\ dial \in Dialing /\ "client" \in End
      /\ "server" \in End /\ Peer("client") = "server" /\ client = conn["client"]
  BY DEF InTurn, OneStream, TypeOK, client, End, Peer
<1>1. /\ dial.pc = "idle" /\ k \in Session /\ client.status = "Idle" /\ client.open = {}
      /\ UNCHANGED serve
  BY DEF DialSend, InTurn, OneStream, PipeOfLastDial
<1>2. /\ Quiet(wire) /\ server.cur.t # "open" /\ server.status # "Stream"
      /\ \A j \in Session : serve["client"][j].pc \notin Active
  BY <1>1, AtRest
<1>3. WireIs(wire, k)
  BY <1>2, QuietTyped DEF InTurn, OneAtATime
<1>4. /\ c \in ConnState /\ c.open = {} /\ c.status = "Idle" /\ c.cur = client.cur
      /\ c.ctxDone = client.ctxDone /\ c.wsOpen = client.wsOpen
      /\ c.onResult = [kind |-> "dial", k |-> k]
  BY <1>0, <1>1 DEF ConnState, Callback
<1> HIDE DEF c
<1>5. PICK pc \in {"sent", "idle"} :
        /\ dial' = [pc |-> pc, k |-> k, res |-> "none", cancelled |-> FALSE]
        /\ \/ pc = "sent" /\ Sent("client", c, wire, OpenCmd(k))
           \/ pc = "idle" /\ SendFails("client", c, wire)
  BY DEF DialSend, c
<1>6. /\ dial'.pc = pc /\ dial'.k = k /\ dial'.res = "none" /\ ~dial'.cancelled
  BY <1>5
<1>7. dial.k \in Nat /\ k > dial.k
  <2>1. dial.k \in Stream
    BY <1>0 DEF Dialing
  <2>2. dial.k \in Nat
    BY <2>1, BoundsAssumption DEF Stream, Session, None
  <2> QED
    BY <2>2
<1>8. ASSUME server' = server, client'.cur = client.cur, client'.open = {},
             WireIs(wire', k), \A t \in Exchange : On(wire', t) => t = "open",
             \/ /\ pc = "sent" /\ client'.status = "Idle"
                /\ client'.onResult = [kind |-> "dial", k |-> k]
             \/ pc = "idle" /\ client'.status = "Closed" /\ Quiet(wire'),
             \A e \in End : conn'[e].status = "Closed" \/ ~conn'[e].wsOpen
                              => conn'[e].ctxDone
      PROVE  InTurn'
  <2>1. OneAtATime'
    BY <1>2, <1>6, <1>8 DEF InTurn, OneAtATime
  <2>2. \A t \in Exchange : Pending(t)' => t = "open" /\ pc = "sent"
    BY <1>2, <1>5, <1>8 DEF Pending, Quiet
  <2>3. OpenPending' /\ ClosePending'
    BY <1>6, <1>8, <2>2 DEF OpenPending, ClosePending, Exchange, Answers
  <2>4. DialStatus'
    BY <1>5, <1>6, <1>8 DEF DialStatus
  <2>5. Served'
    <3> SUFFICES ASSUME NEW j \in Session
                 PROVE  /\ ServedPipe(j, serve["client"][j])'
                        /\ ServedTarget(j, serve["server"][j])'
      BY DEF Served
    <3>1. /\ ServedPipe(j, serve["client"][j]) /\ ServedTarget(j, serve["server"][j])
          /\ j \in Nat
      BY SessionFacts DEF InTurn, Served
    <3> QED
      BY <1>1, <1>2, <1>6, <1>7, <1>8, <3>1 DEF ServedPipe, ServedTarget, Active
  <2>6. StreamOfLastDial'
    BY <1>2, <1>8 DEF StreamOfLastDial
  <2> QED
    BY <2>1, <2>3, <2>4, <2>5, <2>6 DEF InTurn
<1>9. CASE Sent("client", c, wire, OpenCmd(k)) /\ pc = "sent"
  <2>1. OpenCmd(k) \in Frame /\ OpenCmd(k).t = "open" /\ OpenCmd(k).k = k
    BY <1>1, FrameFacts DEF OpenCmd
  <2>2. /\ WireIs(wire', k) /\ \A t \in Exchange : On(wire', t) => t = "open"
    <3>1. WireIs(Put(wire, "client", OpenCmd(k)), k)
            /\ \A t : On(Put(wire, "client", OpenCmd(k)), t) => On(wire, t) \/ t = "open"
      BY <1>0, <1>2, <1>3, <2>1, PutFacts DEF Allowed
    <3> QED
      BY <1>2, <1>9, <3>1 DEF Sent, Quiet
  <2>3. client' = c /\ server' = server /\ conn'["client"] = c /\ conn'["server"] = conn["server"]
    BY <1>0, <1>9 DEF Sent, Becomes, TypeOK, client, server
  <2>4. \A e \in End : conn'[e].status = "Closed" \/ ~conn'[e].wsOpen => conn'[e].ctxDone
    BY <1>0, <1>4, <2>3 DEF InTurn, DialStatus, End
  <2> QED
    BY <1>4, <1>8, <1>9, <2>2, <2>3, <2>4
<1>10. CASE SendFails("client", c, wire) /\ pc = "idle"
  <2>1. /\ Shut(c, conn'["client"]) /\ conn'["server"] = conn["server"]
        /\ WireIs(wire', k) /\ NoMore(wire, wire')
    BY <1>0, <1>3, <1>4, <1>10, CloseFacts DEF SendFails, Closure
  <2>2. /\ client'.cur = client.cur /\ client'.open = {} /\ client'.status = "Closed"
        /\ client'.ctxDone /\ server' = server /\ client' = conn'["client"]
    BY <1>0, <1>4, <2>1 DEF Shut, client, server
  <2>3. Quiet(wire')
    BY <1>2, <2>1 DEF Quiet, NoMore
  <2>4. \A e \in End : conn'[e].status = "Closed" \/ ~conn'[e].wsOpen => conn'[e].ctxDone
    BY <2>1, <2>2 DEF InTurn, DialStatus, End
  <2> QED
    BY <1>8, <1>10, <2>1, <2>2, <2>3, <2>4 DEF Quiet
<1> QED
  BY <1>5, <1>9, <1>10

(* The rest of DialContext.                                                *)
LEMMA DialOK ==
  ASSUME InTurn, OneStream', Dial
  PROVE  InTurn'
<1>0. /\ TypeOK /\ client \in ConnState /\ dial \in Dialing /\ "client" \in End
      /\ "server" \in End /\ client = conn["client"] /\ server = conn["server"]
      /\ client' = conn'["client"] /\ server' = conn'["server"]
  BY DEF InTurn, OneStream, TypeOK, client, server, End
<1>1. ASSUME UNCHANGED <<wire, serve>>, server' = server, dial'.k = dial.k,
             client'.cur = client.cur, client'.open = client.open,
             client'.onResult = client.onResult, client'.ctxDone = client.ctxDone,
             client'.wsOpen = client.wsOpen, client'.streamConn = client.streamConn,
             dial'.res = dial.res, dial'.cancelled = dial.cancelled, dial.pc # "idle",
             \/ dial.pc = "sent" /\ dial'.pc = "select" /\ client'.status = "InOper"
             \/ /\ dial.pc = "select" /\ dial.res = "ok" /\ dial'.pc = "accepted"
                /\ client'.status = client.status
             \/ /\ dial.pc = "select" /\ dial.res = "fail" /\ dial'.pc = "idle"
                /\ client'.status = "Idle"
             \/ /\ dial.pc = "select" /\ client.ctxDone /\ dial'.pc = "idle"
                /\ client'.status = client.status
      PROVE  InTurn'
  <2>1. OneAtATime'
    BY <1>1 DEF InTurn, OneAtATime
  <2>2. \A t : Pending(t)' <=> Pending(t)
    BY <1>1 DEF Pending
  <2>3. OpenPending' /\ ClosePending'
    BY <1>1, <2>2 DEF InTurn, OpenPending, ClosePending, DialStatus
  <2>4. DialStatus'
    BY <1>0, <1>1 DEF InTurn, DialStatus, End
  <2>5. Served'
    <3> SUFFICES ASSUME NEW j \in Session
                 PROVE  /\ ServedPipe(j, serve["client"][j])'
                        /\ ServedTarget(j, serve["server"][j])'
      BY DEF Served
    <3>1. ServedPipe(j, serve["client"][j]) /\ ServedTarget(j, serve["server"][j])
      BY DEF InTurn, Served
    <3>2. client.open = {}
      BY <1>1 DEF InTurn, OneStream, PipeOfLastDial
    <3> QED
      BY <1>1, <3>1, <3>2 DEF ServedPipe, ServedTarget, Active
  <2>6. StreamOfLastDial'
    BY <1>1, <2>2 DEF InTurn, StreamOfLastDial, DialStatus
  <2> QED
    BY <2>1, <2>3, <2>4, <2>5, <2>6 DEF InTurn
<1>2. ASSUME NEW st \in Status, Becomes("client", [client EXCEPT !.status = st])
      PROVE  /\ server' = server /\ client'.status = st
             /\ client'.cur = client.cur /\ client'.open = client.open
             /\ client'.onResult = client.onResult /\ client'.ctxDone = client.ctxDone
             /\ client'.wsOpen = client.wsOpen /\ client'.streamConn = client.streamConn
  <2>1. client' = [client EXCEPT !.status = st] /\ server' = server
    BY <1>0, <1>2 DEF Becomes, TypeOK
  <2> QED
    BY <1>0, <2>1 DEF ConnState
<1>3. ASSUME NEW pc, dial' = [dial EXCEPT !.pc = pc]
      PROVE  /\ dial'.pc = pc /\ dial'.k = dial.k /\ dial'.res = dial.res
             /\ dial'.cancelled = dial.cancelled
  BY <1>0, <1>3 DEF Dialing
<1>4. CASE DialInOper
  <2>1. /\ dial.pc = "sent" /\ Becomes("client", [client EXCEPT !.status = "InOper"])
        /\ dial' = [dial EXCEPT !.pc = "select"] /\ UNCHANGED <<wire, serve>>
    BY <1>4 DEF DialInOper
  <2>2. dial'.pc = "select" /\ dial'.k = dial.k /\ dial'.res = dial.res
             /\ dial'.cancelled = dial.cancelled
    BY <1>3, <2>1
  <2> QED
    BY <1>1, <1>2, <2>1, <2>2 DEF Status
<1>5. CASE DialResult
  <2>1. CASE dial.res = "ok" /\ dial' = [dial EXCEPT !.pc = "accepted"] /\ UNCHANGED conn
    <3>1. dial'.pc = "accepted" /\ dial'.k = dial.k /\ dial'.res = dial.res
             /\ dial'.cancelled = dial.cancelled
      BY <1>3, <2>1
    <3> QED
      BY <1>0, <1>1, <1>5, <2>1, <3>1 DEF DialResult
  <2>2. CASE /\ dial.res = "fail" /\ dial' = [dial EXCEPT !.pc = "idle"]
             /\ Becomes("client", [client EXCEPT !.status = "Idle"])
    <3>1. dial'.pc = "idle" /\ dial'.k = dial.k /\ dial'.res = dial.res
             /\ dial'.cancelled = dial.cancelled
      BY <1>3, <2>2
    <3> QED
      BY <1>1, <1>2, <1>5, <2>2, <3>1 DEF DialResult, Status
  <2> QED
    BY <1>5, <2>1, <2>2 DEF DialResult
<1>6. CASE DialCancel
  BY <1>6 DEF DialCancel, InTurn, DialStatus
<1>7. CASE DialConnDone
  <2>1. dial'.pc = "idle" /\ dial'.k = dial.k /\ dial'.res = dial.res
             /\ dial'.cancelled = dial.cancelled
    BY <1>3, <1>7 DEF DialConnDone
  <2> QED
    BY <1>0, <1>1, <1>7, <2>1 DEF DialConnDone
<1>8. CASE DialAccept
  <2> DEFINE k == dial.k
             c == NewPipe(client, k)
  <2>1. dial.pc = "accepted" /\ dial.res = "ok" /\ client.open = {} /\ k \in Session
    BY <1>0, <1>8 DEF DialAccept, InTurn, DialStatus, OneStream, PipeOfLastDial, Dialing, Stream
  <2>2. /\ c.status = "Stream" /\ c.streamConn = k /\ c.open = {k} /\ c.cur = client.cur
        /\ c.onResult = client.onResult /\ c.wsOpen = client.wsOpen
        /\ c.ctxDone = client.ctxDone
    BY <1>0, <2>1 DEF NewPipe, ConnState
  <2>3. client' = c /\ server' = server /\ UNCHANGED wire
    BY <1>0, <1>8 DEF DialAccept, Becomes, TypeOK
  <2>4. dial'.pc = "idle" /\ dial'.k = k /\ dial'.res = "ok" /\ dial'.cancelled = dial.cancelled
    BY <1>3, <1>8, <2>1 DEF DialAccept
  <2>5. /\ serve'["server"] = serve["server"]
        /\ \A j \in Session : j # k => serve'["client"][j] = serve["client"][j]
        /\ serve'["client"][k].pc = "start"
    BY <1>0, <1>8, <2>1 DEF DialAccept, TypeOK, Serving
  <2> HIDE DEF c, k
  <2>6. \A t \in Exchange : ~Pending(t)'
    <3>1. \A t \in Exchange : ~Pending(t)
      BY <2>1 DEF InTurn, OpenPending, ClosePending, Exchange, Answers
    <3> QED
      BY <2>3, <3>1 DEF Pending
  <2>7. OneAtATime'
    BY <2>2, <2>3, <2>4 DEF InTurn, OneAtATime, k
  <2>8. OpenPending' /\ ClosePending'
    BY <2>6 DEF OpenPending, ClosePending, Exchange, Answers
  <2>9. DialStatus'
    BY <1>0, <2>2, <2>3, <2>4 DEF InTurn, DialStatus, End
  <2>10. Served'
    <3> SUFFICES ASSUME NEW j \in Session
                 PROVE  /\ ServedPipe(j, serve["client"][j])'
                        /\ ServedTarget(j, serve["server"][j])'
      BY DEF Served
    <3>1. /\ ServedPipe(j, serve["client"][j]) /\ ServedTarget(j, serve["server"][j])
          /\ j \in Nat
      BY SessionFacts DEF InTurn, Served
    <3>2. ServedTarget(j, serve["server"][j])'
      BY <2>3, <2>5, <3>1 DEF ServedTarget
    <3>3. ServedPipe(j, serve["client"][j])'
      BY <2>1, <2>2, <2>3, <2>4, <2>5, <3>1 DEF ServedPipe, Active, k
    <3> QED
      BY <3>2, <3>3
  <2>11. StreamOfLastDial'
    BY <2>2, <2>3, <2>4, <2>6 DEF InTurn, StreamOfLastDial, Exchange, Answers, k
  <2> QED
    BY <2>7, <2>8, <2>9, <2>10, <2>11 DEF InTurn
<1> QED
  BY <1>4, <1>5, <1>6, <1>7, <1>8 DEF Dial

-----------------------------------------------------------------------------
(* serveStream.                                                            *)

LEMMA GotoFacts ==
  ASSUME TypeOK, NEW e \in End, NEW k \in Session, NEW pc, Goto(e, k, pc)
  PROVE  /\ \A x \in End, j \in Session : <<x, j>> # <<e, k>> => serve'[x][j] = serve[x][j]
         /\ serve'[e][k].pc = pc /\ serve'[e][k].conn = serve[e][k].conn
BY DEF TypeOK, Goto, Serving

(* A step of the goroutine of stream k, which may send a chunk.            *)
LEMMA MoveSendOK ==
  ASSUME InTurn, OneStream', NEW e \in End, NEW k \in Session,
         UNCHANGED <<conn, dial>>, WireIs(wire', dial.k), NoMore(wire, wire'),
         \A x \in End, j \in Session : <<x, j>> # <<e, k>> => serve'[x][j] = serve[x][j],
         e = "client" => /\ ServedPipe(k, serve'[e][k])
                         /\ serve'[e][k].pc \in Active => serve[e][k].pc \in Active,
         e = "server" => ServedTarget(k, serve'[e][k])
  PROVE  InTurn'
<1>1. client' = client /\ server' = server /\ "client" \in End /\ "server" \in End
  BY DEF client, server, End
<1>2. \A t \in Exchange : Pending(t)' => Pending(t)
  BY <1>1 DEF Pending, NoMore
<1>3. \A j \in Session : serve'["client"][j].pc \in Active => serve["client"][j].pc \in Active
  BY <1>1 DEF End
<1>4. OneAtATime' /\ OpenPending' /\ DialStatus' /\ StreamOfLastDial'
  <2>1. OneAtATime'
    BY <1>1 DEF InTurn, OneAtATime, Quiet, NoMore
  <2>2. OpenPending' /\ DialStatus' /\ StreamOfLastDial'
    BY <1>1, <1>2 DEF InTurn, OpenPending, DialStatus, StreamOfLastDial, Exchange, Answers
  <2> QED
    BY <2>1, <2>2
<1>5. ClosePending'
  BY <1>1, <1>2, <1>3 DEF InTurn, ClosePending, Exchange, Answers
<1>6. Served'
  <2> SUFFICES ASSUME NEW j \in Session
               PROVE  /\ ServedPipe(j, serve["client"][j])'
                      /\ ServedTarget(j, serve["server"][j])'
    BY DEF Served
  <2>1. ServedPipe(j, serve'["client"][j]) /\ ServedTarget(j, serve'["server"][j])
    <3>1. ServedPipe(j, serve["client"][j]) /\ ServedTarget(j, serve["server"][j])
      BY DEF InTurn, Served
    <3>2. CASE e = "client"
      BY <1>1, <3>1, <3>2
    <3>3. CASE e = "server"
      BY <1>1, <3>1, <3>3
    <3> QED
      BY <3>2, <3>3 DEF End
  <2> QED
    BY <1>1, <2>1 DEF ServedPipe, ServedTarget
<1> QED
  BY <1>4, <1>5, <1>6 DEF InTurn

LEMMA MoveOK ==
  ASSUME InTurn, OneStream', NEW e \in End, NEW k \in Session,
         UNCHANGED <<conn, wire, dial>>,
         \A x \in End, j \in Session : <<x, j>> # <<e, k>> => serve'[x][j] = serve[x][j],
         e = "client" => /\ ServedPipe(k, serve'[e][k])
                         /\ serve'[e][k].pc \in Active => serve[e][k].pc \in Active,
         e = "server" => ServedTarget(k, serve'[e][k])
  PROVE  InTurn'
<1>1. WireIs(wire', dial.k) /\ NoMore(wire, wire')
  BY DEF InTurn, OneAtATime, NoMore
<1> QED
  BY <1>1, MoveSendOK

(* The goroutine of stream k reads a chunk.                                *)
LEMMA ReadMoves ==
  ASSUME TypeOK, NEW e \in End, NEW k \in Session, ServeReadData(e, k)
  PROVE  /\ \A x \in End, j \in Session : <<x, j>> # <<e, k>> => serve'[x][j] = serve[x][j]
         /\ serve'[e][k].pc = "write" /\ serve'[e][k].conn = serve[e][k].conn
         /\ serve[e][k].pc = "read" /\ UNCHANGED <<conn, wire, dial>>
BY DEF ServeReadData, AtRead, TypeOK, Serving

(* It sends one.                                                           *)
LEMMA ChunkSent ==
  ASSUME InTurn, NEW e \in End, NEW k \in Session, serve[e][k].pc = "write",
         Sent(e, conn[e], wire, Chunk(serve[e][k].conn, serve[e][k].n))
  PROVE  UNCHANGED conn /\ WireIs(wire', dial.k) /\ NoMore(wire, wire')
<1> DEFINE s == serve[e][k]
           f == Chunk(s.conn, s.n)
<1>1. TypeOK /\ WireIs(wire, dial.k) /\ s \in Serving
  BY DEF InTurn, OneStream, OneAtATime, TypeOK
<1>2. s.conn \in Session /\ s.n \in 0 .. MaxData
  BY <1>1 DEF Serving, Stream
<1>3. /\ f \in Frame /\ f.t = "data" /\ f.t \in Allowed(Peer(e)) /\ f.t \notin Exchange
  BY <1>2, FrameFacts DEF Chunk, Allowed, Peer, Exchange, Answers, End
<1>4. UNCHANGED conn /\ wire' = Put(wire, e, f)
  BY <1>1 DEF Sent, Becomes, TypeOK
<1> HIDE DEF f
<1>5. WireIs(wire', dial.k) /\ \A x : On(wire', x) => On(wire, x) \/ x = f.t
  BY <1>1, <1>3, <1>4, PutFacts
<1> QED
  BY <1>3, <1>4, <1>5 DEF NoMore

LEMMA ServePipeOK ==
  ASSUME InTurn, OneStream', NEW k \in Session,
         serveStream("client", k) \/ ServeReadData("client", k)
  PROVE  InTurn'
<1> DEFINE s == serve["client"][k]
           t == serve'["client"][k]
<1>0. /\ TypeOK /\ client \in ConnState /\ s \in Serving /\ "client" \in End
      /\ "server" \in End /\ client = conn["client"] /\ server = conn["server"]
      /\ client' = conn'["client"] /\ server' = conn'["server"]
      /\ ServedPipe(k, s) /\ client.open \subseteq {client.streamConn}
      /\ WireIs(wire, dial.k)
  BY DEF InTurn, OneStream, TypeOK, client, server, End, Served, EndSound, OneAtATime
<1>1. ASSUME NEW pc, Goto("client", k, pc)
      PROVE  /\ t.pc = pc /\ t.conn = s.conn
             /\ \A x \in End, j \in Session :
                  <<x, j>> # <<"client", k>> => serve'[x][j] = serve[x][j]
  BY <1>0, <1>1, GotoFacts
<1>2. ASSUME NEW pc, Goto("client", k, pc), UNCHANGED <<conn, wire, dial>>,
             pc \in Active => s.pc \in Active,
             pc \notin {"none", "sendClose", "write", "fail", "sendErr"},
             s.pc # "none",
             ~client.ctxDone /\ k \in client.open => pc = "read" /\ s.conn = k
      PROVE  InTurn'
  <2>1. t.pc = pc /\ t.conn = s.conn
    BY <1>1, <1>2
  <2>2. ServedPipe(k, t)
    <3> HIDE DEF s, t
    <3> QED
      BY <1>0, <1>2, <2>1 DEF ServedPipe, Active
  <2> QED
    BY <1>0, <1>1, <1>2, <2>1, <2>2, MoveOK
<1>3. CASE ServeStart("client", k)
  <2>1. /\ t.pc = "check" /\ t.conn = client.streamConn /\ s.pc = "start"
        /\ \A x \in End, j \in Session :
             <<x, j>> # <<"client", k>> => serve'[x][j] = serve[x][j]
    BY <1>0, <1>3 DEF ServeStart, TypeOK, Serving
  <2>2. ServedPipe(k, t)
    BY <1>0, <2>1 DEF ServedPipe, Active
  <2> QED
    BY <1>0, <1>3, <2>1, <2>2, MoveOK DEF ServeStart, Active
<1>4. CASE ServeCheck("client", k)
  <2>1. /\ s.pc = "check" /\ UNCHANGED <<conn, wire, dial>>
        /\ ~client.ctxDone /\ k \in client.open => client.status = "Stream" /\ s.conn = k
    BY <1>0, <1>4 DEF ServeCheck, ServedPipe
  <2>2. PICK pc \in {"ended", "panic", "read"} :
          /\ Goto("client", k, pc)
          /\ pc = "ended" => client.status # "Stream"
          /\ pc = "panic" => s.conn = None
    BY <1>0, <1>4 DEF ServeCheck
  <2> QED
    BY <1>2, <2>1, <2>2, SessionFacts DEF Active
<1>5. CASE ServeReadErr("client", k)
  <2>1. /\ s.pc = "read" /\ UNCHANGED <<conn, wire, dial>> /\ s.conn \notin client.open
        /\ Goto("client", k, "eof")
    BY <1>0, <1>5 DEF ServeReadErr, AtRead, ReadError
  <2>2. ~(~client.ctxDone /\ k \in client.open)
    BY <1>0, <2>1 DEF ServedPipe
  <2> QED
    BY <1>2, <2>1, <2>2 DEF Active
<1>6. CASE ServeStatus("client", k)
  <2>1. /\ s.pc = "eof" /\ UNCHANGED <<conn, wire, dial>>
        /\ Goto("client", k, "return") \/ Goto("client", k, "setResult")
    BY <1>0, <1>6 DEF ServeStatus, ServedPipe
  <2>2. ~(~client.ctxDone /\ k \in client.open)
    BY <1>0, <2>1 DEF ServedPipe
  <2> QED
    BY <1>2, <2>1, <2>2 DEF Active
<1>7. CASE ServeWait("client", k)
  <2>1. s.pc = "wait" /\ UNCHANGED <<conn, wire, dial>> /\ Goto("client", k, "return")
    BY <1>7 DEF ServeWait
  <2>2. ~(~client.ctxDone /\ k \in client.open)
    BY <1>0, <2>1 DEF ServedPipe
  <2> QED
    BY <1>2, <2>1, <2>2 DEF Active
<1>8. CASE ServeReadData("client", k)
  <2>1. /\ t.pc = "write" /\ t.conn = s.conn /\ s.pc = "read" /\ UNCHANGED <<conn, wire, dial>>
        /\ \A x \in End, j \in Session :
             <<x, j>> # <<"client", k>> => serve'[x][j] = serve[x][j]
    BY <1>0, <1>8, ReadMoves
  <2>2. ServedPipe(k, t)
    <3> HIDE DEF s, t
    <3> QED
      BY <1>0, <2>1 DEF ServedPipe, Active
  <2> QED
    BY <1>0, <2>1, <2>2, MoveOK DEF Active
<1>9. CASE ServeSendErr("client", k)
  BY <1>0, <1>9 DEF ServeSendErr, ServedPipe
<1>10. ASSUME NEW pc, Goto("client", k, pc), UNCHANGED dial, server' = server,
              client'.open \subseteq client.open, client'.ctxDone = client.ctxDone,
              client'.wsOpen = client.wsOpen, client'.status = client.status,
              client'.streamConn = client.streamConn, client'.cur = client.cur,
              client'.onResult = [kind |-> "close", k |-> k] \/ client'.onResult = client.onResult,
              WireIs(wire', dial.k),
              \A x \in Exchange : On(wire', x) => On(wire, x) \/ (x = "close" /\ pc = "wait"),
              \/ /\ s.pc = "setResult" /\ pc = "sendClose"
                 /\ client'.onResult = [kind |-> "close", k |-> k]
              \/ s.pc = "sendClose" /\ pc = "wait"
              \/ s.pc = "return" /\ pc = "ended" /\ client'.onResult = client.onResult
       PROVE  InTurn'
  <2>1. /\ t.pc = pc /\ t.conn = s.conn /\ serve'["server"] = serve["server"]
        /\ \A j \in Session : j # k => serve'["client"][j] = serve["client"][j]
    <3>1. serve'["server"] = serve["server"]
      BY <1>0, <1>10 DEF Goto, TypeOK
    <3> QED
      BY <1>0, <1>1, <1>10, <3>1
  <2>2. s.pc \in Active => \A x \in Exchange : ~Pending(x)
    BY <1>0 DEF InTurn, OpenPending, ClosePending, Exchange, Answers, ServedPipe
  <2>3. \A x \in Exchange : Pending(x)' => Pending(x) \/ (x = "close" /\ pc = "wait")
    BY <1>10 DEF Pending
  <2>4. s.pc # "return" => s.pc \in Active /\ k = dial.k /\ ~(~client.ctxDone /\ k \in client.open)
    BY <1>0, <1>10 DEF ServedPipe, Active
  <2>5. s.pc = "sendClose" => client'.onResult = [kind |-> "close", k |-> k]
    BY <1>0, <1>10 DEF ServedPipe
  <2>6. OneAtATime'
    <3>1. server.cur.t = "open" => s.pc \notin Active
      BY <2>2 DEF Pending, Exchange
    <3>2. server.cur.t = "open" => pc # "wait"
      BY <1>10, <3>1 DEF Active
    <3>3. server.cur.t = "open" => Quiet(wire')
      BY <1>10, <3>2 DEF InTurn, OneAtATime, Quiet
    <3> QED
      BY <1>10, <3>3 DEF InTurn, OneAtATime
  <2>7. OpenPending'
    <3>1. CASE s.pc = "return"
      BY <1>10, <2>3, <3>1 DEF InTurn, OpenPending, Exchange, Answers
    <3>2. CASE s.pc # "return"
      BY <2>2, <2>3, <2>4, <3>2 DEF OpenPending, Exchange, Answers
    <3> QED
      BY <3>1, <3>2
  <2>8. ClosePending'
    <3>1. CASE s.pc = "return"
      BY <1>10, <2>1, <2>3, <3>1 DEF InTurn, ClosePending, Exchange, Answers, Active
    <3>2. CASE s.pc = "setResult"
      BY <1>10, <2>2, <2>3, <3>2 DEF ClosePending, Exchange, Answers, Active
    <3>3. CASE s.pc = "sendClose"
      <4>1. /\ dial.pc = "idle" /\ client.status \in {"Stream", "Closed"} /\ k = dial.k
            /\ pc = "wait"
        BY <1>0, <1>10, <3>3 DEF ServedPipe, Active
      <4>2. client.ctxDone \/ client'.open = {}
        BY <1>10, <2>4, <3>3, <4>1 DEF InTurn, OneStream, PipeOfLastDial
      <4>3. \A j \in Session : serve'["client"][j].pc \notin Active
        <5>1. \A j \in Session : j # k => serve["client"][j].pc \notin Active
          BY <4>1 DEF InTurn, Served, ServedPipe
        <5> QED
          BY <2>1, <4>1, <5>1 DEF Active
      <4> QED
        BY <1>10, <2>5, <3>3, <4>1, <4>2, <4>3 DEF ClosePending
    <3> QED
      BY <1>10, <3>1, <3>2, <3>3
  <2>9. DialStatus'
    BY <1>0, <1>10 DEF InTurn, DialStatus, End
  <2>10. Served'
    <3> SUFFICES ASSUME NEW j \in Session
                 PROVE  /\ ServedPipe(j, serve["client"][j])'
                        /\ ServedTarget(j, serve["server"][j])'
      BY DEF Served
    <3>1. ServedPipe(j, serve["client"][j]) /\ ServedTarget(j, serve["server"][j])
      BY DEF InTurn, Served
    <3>2. ServedTarget(j, serve["server"][j])'
      BY <1>10, <2>1, <3>1 DEF ServedTarget
    <3>3. CASE j = k
      <4>1. ~(~client.ctxDone /\ k \in client.open)
        BY <1>0, <1>10 DEF ServedPipe
      <4>2. ServedPipe(k, serve["client"][k])'
        BY <1>0, <1>10, <2>1, <2>4, <4>1 DEF ServedPipe, Active
      <4> QED
        BY <3>2, <3>3, <4>2
    <3>4. CASE j # k
      <4>1. serve["client"][j].pc = "sendClose" => s.pc = "return"
        BY <1>10, <2>4, <3>1, <3>4 DEF ServedPipe, Active
      <4>2. serve'["client"][j] = serve["client"][j]
        BY <2>1, <3>4
      <4>3. ServedPipe(j, serve["client"][j])'
        BY <1>10, <3>1, <4>1, <4>2 DEF ServedPipe
      <4> QED
        BY <3>2, <4>3
    <3> QED
      BY <3>3, <3>4
  <2>11. StreamOfLastDial'
    BY <1>10, <2>3 DEF InTurn, StreamOfLastDial, Exchange, Answers
  <2> QED
    BY <2>6, <2>7, <2>8, <2>9, <2>10, <2>11 DEF InTurn
<1>11. CASE ServeSetResult("client", k)
  <2> DEFINE c == [client EXCEPT !.onResult = [kind |-> "close", k |-> k]]
  <2>1. client' = c /\ server' = server
    BY <1>0, <1>11 DEF ServeSetResult, Becomes, TypeOK
  <2>2. /\ c.open = client.open /\ c.ctxDone = client.ctxDone /\ c.wsOpen = client.wsOpen
        /\ c.status = client.status /\ c.streamConn = client.streamConn
        /\ c.cur = client.cur /\ c.onResult = [kind |-> "close", k |-> k]
    BY <1>0 DEF ConnState
  <2> QED
    BY <1>0, <1>10, <1>11, <2>1, <2>2 DEF ServeSetResult
<1>12. CASE ServeReturn("client", k)
  <2> DEFINE c == [client EXCEPT !.open = @ \ {s.conn}]
  <2>1. client' = c /\ server' = server
    BY <1>0, <1>12 DEF ServeReturn, Becomes, TypeOK
  <2>2. /\ c.open \subseteq client.open /\ c.ctxDone = client.ctxDone
        /\ c.wsOpen = client.wsOpen /\ c.status = client.status
        /\ c.streamConn = client.streamConn
        /\ c.cur = client.cur /\ c.onResult = client.onResult
    BY <1>0 DEF ConnState
  <2> QED
    BY <1>0, <1>10, <1>12, <2>1, <2>2 DEF ServeReturn
<1>13. ASSUME SendFails("client", client, wire), Goto("client", k, "return"),
              UNCHANGED dial, s.pc \in {"sendClose", "write"}
       PROVE  InTurn'
  <2>1. /\ Shut(client, client') /\ server' = server
        /\ WireIs(wire', dial.k) /\ NoMore(wire, wire')
    BY <1>0, <1>13, CloseFacts DEF SendFails, Closure
  <2>2. /\ client'.status = "Closed" /\ client'.cur = client.cur
        /\ client'.open \subseteq client.open /\ client'.ctxDone
    BY <1>0, <2>1 DEF Shut, InTurn, DialStatus
  <2>3. /\ t.pc = "return" /\ serve'["server"] = serve["server"]
        /\ \A j \in Session : j # k => serve'["client"][j] = serve["client"][j]
    <3>1. serve'["server"] = serve["server"]
      BY <1>0, <1>13 DEF Goto, TypeOK
    <3> QED
      BY <1>0, <1>1, <1>13, <3>1
  <2>4. \A x \in Exchange : ~Pending(x)'
    <3>1. \A x \in Exchange : ~Pending(x)
      BY <1>0, <1>13 DEF InTurn, OpenPending, ClosePending, Exchange, Answers, ServedPipe, Active
    <3> QED
      BY <2>1, <3>1 DEF Pending, NoMore
  <2>5. OneAtATime'
    BY <1>13, <2>1, <2>2, <2>4 DEF InTurn, OneAtATime, Pending, Exchange, Quiet
  <2>6. OpenPending' /\ ClosePending'
    BY <2>4 DEF OpenPending, ClosePending, Exchange, Answers
  <2>7. DialStatus'
    BY <1>0, <1>13, <2>1, <2>2 DEF InTurn, DialStatus, End
  <2>8. Served'
    <3> SUFFICES ASSUME NEW j \in Session
                 PROVE  /\ ServedPipe(j, serve["client"][j])'
                        /\ ServedTarget(j, serve["server"][j])'
      BY DEF Served
    <3>1. ServedPipe(j, serve["client"][j]) /\ ServedTarget(j, serve["server"][j])
      BY DEF InTurn, Served
    <3>2. ServedTarget(j, serve["server"][j])'
      BY <2>1, <2>3, <3>1 DEF ServedTarget
    <3>3. j # k => serve["client"][j].pc \notin Active
      BY <1>0, <1>13, <3>1 DEF ServedPipe, Active
    <3>4. ServedPipe(j, serve["client"][j])'
      BY <1>13, <2>2, <2>3, <3>1, <3>3 DEF ServedPipe, Active
    <3> QED
      BY <3>2, <3>4
  <2>9. StreamOfLastDial'
    BY <1>13, <2>1, <2>2, <2>4 DEF InTurn, StreamOfLastDial, Exchange, Answers
  <2> QED
    BY <2>5, <2>6, <2>7, <2>8, <2>9 DEF InTurn
<1>14. CASE ServeWrite("client", k)
  <2>1. s.pc = "write" /\ UNCHANGED dial
    BY <1>14 DEF ServeWrite
  <2>2. CASE /\ Sent("client", client, wire, Chunk(s.conn, s.n))
             /\ Goto("client", k, "read")
    <3>1. t.pc = "read" /\ t.conn = s.conn
      BY <1>1, <2>2
    <3>2. ServedPipe(k, t)
      <4> HIDE DEF s, t
      <4> QED
        BY <1>0, <2>1, <3>1 DEF ServedPipe, Active
    <3>3. UNCHANGED conn /\ WireIs(wire', dial.k) /\ NoMore(wire, wire')
      BY <1>0, <2>1, <2>2, ChunkSent
    <3> QED
      BY <1>0, <1>1, <2>1, <2>2, <3>2, <3>3, MoveSendOK DEF Active
  <2> QED
    BY <1>0, <1>13, <1>14, <2>1, <2>2 DEF ServeWrite
<1>15. CASE ServeSendClose("client", k)
  <2>0. s.pc = "sendClose" /\ UNCHANGED dial
    BY <1>15 DEF ServeSendClose
  <2>1. Quiet(wire)
    <3>1. \A x \in Exchange : ~Pending(x)
      BY <1>0, <2>0 DEF InTurn, OpenPending, ClosePending, Exchange, Answers, ServedPipe, Active
    <3> QED
      BY <3>1 DEF Pending, Quiet
  <2>2. CASE Sent("client", client, wire, Cmd("close")) /\ Goto("client", k, "wait")
    <3>1. client' = client /\ server' = server /\ wire' = Put(wire, "client", Cmd("close"))
      BY <1>0, <2>2 DEF Sent, Becomes, TypeOK
    <3>2. /\ Cmd("close") \in Frame /\ Cmd("close").t = "close"
          /\ Cmd("close").t \in Allowed(Peer("client"))
      BY FrameFacts DEF Cmd, Command, Allowed, Peer
    <3>3. WireIs(wire', dial.k) /\ \A x : On(wire', x) => On(wire, x) \/ x = "close"
      BY <1>0, <2>1, <3>1, <3>2, PutFacts
    <3> QED
      BY <1>0, <1>10, <2>0, <2>2, <3>1, <3>3
  <2> QED
    BY <1>0, <1>13, <1>15, <2>0, <2>2 DEF ServeSendClose
<1> QED
  BY <1>3, <1>4, <1>5, <1>6, <1>7, <1>8, <1>9, <1>11, <1>12,
     <1>14, <1>15 DEF serveStream

LEMMA ServeTargetOK ==
  ASSUME InTurn, OneStream', NEW k \in Session,
         serveStream("server", k) \/ ServeReadData("server", k)
  PROVE  InTurn'
<1> DEFINE s == serve["server"][k]
           t == serve'["server"][k]
<1>0. /\ TypeOK /\ server \in ConnState /\ s \in Serving /\ "client" \in End
      /\ "server" \in End /\ client = conn["client"] /\ server = conn["server"]
      /\ client' = conn'["client"] /\ server' = conn'["server"]
      /\ ServedTarget(k, s) /\ server.open \subseteq {server.streamConn}
      /\ WireIs(wire, dial.k)
  BY DEF InTurn, OneStream, TypeOK, client, server, End, Served, EndSound, OneAtATime
<1>1. ASSUME NEW pc, Goto("server", k, pc)
      PROVE  /\ t.pc = pc /\ t.conn = s.conn
             /\ \A x \in End, j \in Session :
                  <<x, j>> # <<"server", k>> => serve'[x][j] = serve[x][j]
  BY <1>0, <1>1, GotoFacts
<1>2. ASSUME NEW pc, Goto("server", k, pc), UNCHANGED <<conn, wire, dial>>,
             pc \notin {"eof", "setResult", "sendClose", "wait"},
             ~server.ctxDone /\ k \in server.open =>
               pc \in {"read", "fail", "sendErr", "return"} /\ s.conn = k
      PROVE  InTurn'
  <2>1. t.pc = pc /\ t.conn = s.conn
    BY <1>1, <1>2
  <2>2. ServedTarget(k, t)
    BY <1>0, <1>2, <2>1 DEF ServedTarget
  <2> QED
    BY <1>0, <1>1, <1>2, <2>2, MoveOK
<1>3. CASE ServeStart("server", k)
  <2>1. /\ t.pc = "check" /\ t.conn = server.streamConn /\ s.pc = "start"
        /\ \A x \in End, j \in Session :
             <<x, j>> # <<"server", k>> => serve'[x][j] = serve[x][j]
    BY <1>0, <1>3 DEF ServeStart, TypeOK, Serving
  <2>2. ServedTarget(k, t)
    BY <1>0, <2>1 DEF ServedTarget
  <2> QED
    BY <1>0, <1>3, <2>1, <2>2, MoveOK DEF ServeStart
<1>4. CASE ServeCheck("server", k)
  <2>1. /\ s.pc = "check" /\ UNCHANGED <<conn, wire, dial>>
        /\ ~server.ctxDone /\ k \in server.open => server.status = "Stream" /\ s.conn = k
    BY <1>0, <1>4 DEF ServeCheck, ServedTarget
  <2>2. PICK pc \in {"ended", "panic", "read"} :
          /\ Goto("server", k, pc)
          /\ pc = "ended" => server.status # "Stream"
          /\ pc = "panic" => s.conn = None
    BY <1>0, <1>4 DEF ServeCheck
  <2> QED
    BY <1>2, <2>1, <2>2, SessionFacts
<1>5. CASE ServeReadErr("server", k)
  <2>1. s.pc = "read" /\ UNCHANGED <<conn, wire, dial>>
    BY <1>5 DEF ServeReadErr, AtRead
  <2>2. Goto("server", k, "fail")
    <3>1. s.conn \in server.open => s.conn \in Session
      BY <1>0 DEF ConnState
    <3>2. ReadError("server", s.conn) = "fail"
      BY <1>0, <3>1 DEF ReadError, InTurn, OneStream, NoServerEOF
    <3> QED
      BY <1>5, <3>2 DEF ServeReadErr
  <2>3. ~server.ctxDone /\ k \in server.open => s.conn = k
    BY <1>0, <2>1 DEF ServedTarget
  <2> QED
    BY <1>2, <2>1, <2>2, <2>3
<1>6. CASE ServeStatus("server", k)
  <2>1. /\ s.pc = "fail" /\ UNCHANGED <<conn, wire, dial>>
        /\ Goto("server", k, "return") \/ Goto("server", k, "sendErr")
    BY <1>0, <1>6 DEF ServeStatus, ServedTarget
  <2>2. ~server.ctxDone /\ k \in server.open => s.conn = k
    BY <1>0, <2>1 DEF ServedTarget
  <2> QED
    BY <1>2, <2>1, <2>2
<1>7. CASE ServeReadData("server", k)
  <2>1. /\ t.pc = "write" /\ t.conn = s.conn /\ s.pc = "read" /\ UNCHANGED <<conn, wire, dial>>
        /\ \A x \in End, j \in Session :
             <<x, j>> # <<"server", k>> => serve'[x][j] = serve[x][j]
    BY <1>0, <1>7, ReadMoves
  <2>2. ServedTarget(k, t)
    BY <1>0, <2>1 DEF ServedTarget
  <2> QED
    BY <1>0, <2>1, <2>2, MoveOK
<1>8. CASE ServeSetResult("server", k) \/ ServeSendClose("server", k) \/ ServeWait("server", k)
  BY <1>0, <1>8 DEF ServeSetResult, ServeSendClose, ServeWait, ServedTarget
<1>9. ASSUME NEW pc, Goto("server", k, pc), UNCHANGED dial, client' = client,
             server'.open \subseteq server.open, server'.cur = server.cur,
             server'.ctxDone \/ server'.ctxDone = server.ctxDone,
             server'.status = server.status \/ (server'.status = "Closed" /\ server'.ctxDone),
             server'.streamConn = server.streamConn \/ server'.status = "Closed",
             server'.wsOpen = server.wsOpen \/ server'.ctxDone,
             WireIs(wire', dial.k), NoMore(wire, wire'),
             \/ s.pc \in {"sendErr", "write"} /\ pc = "return"
             \/ s.pc = "return" /\ pc = "ended" /\ s.conn \notin server'.open
      PROVE  InTurn'
  <2>1. /\ t.pc = pc /\ t.conn = s.conn /\ serve'["client"] = serve["client"]
        /\ \A j \in Session : j # k => serve'["server"][j] = serve["server"][j]
    <3>1. serve'["client"] = serve["client"]
      BY <1>0, <1>9 DEF Goto, TypeOK
    <3> QED
      BY <1>0, <1>1, <1>9, <3>1
  <2>2. \A x \in Exchange : Pending(x)' => Pending(x)
    BY <1>9 DEF Pending, NoMore
  <2>3. OneAtATime'
    BY <1>9 DEF InTurn, OneAtATime, NoMore, Quiet
  <2>4. OpenPending' /\ ClosePending'
    BY <1>9, <2>1, <2>2 DEF InTurn, OpenPending, ClosePending, Exchange, Answers
  <2>5. DialStatus'
    BY <1>0, <1>9 DEF InTurn, DialStatus, End
  <2>6. Served'
    <3> SUFFICES ASSUME NEW j \in Session
                 PROVE  /\ ServedPipe(j, serve["client"][j])'
                        /\ ServedTarget(j, serve["server"][j])'
      BY DEF Served
    <3>1. ServedPipe(j, serve["client"][j]) /\ ServedTarget(j, serve["server"][j])
      BY DEF InTurn, Served
    <3>2. ServedPipe(j, serve["client"][j])'
      BY <1>9, <2>1, <3>1 DEF ServedPipe
    <3>3. CASE j = k
      <4>1. ServedTarget(k, serve["server"][k])'
        BY <1>0, <1>9, <2>1 DEF ServedTarget
      <4> QED
        BY <3>2, <3>3, <4>1
    <3>4. CASE j # k
      <4>1. ServedTarget(j, serve["server"][j])'
        BY <1>9, <2>1, <3>1, <3>4 DEF ServedTarget
      <4> QED
        BY <3>2, <4>1
    <3> QED
      BY <3>3, <3>4
  <2>7. StreamOfLastDial'
    BY <1>9, <2>2 DEF InTurn, StreamOfLastDial, Exchange, Answers
  <2> QED
    BY <2>3, <2>4, <2>5, <2>6, <2>7 DEF InTurn
<1>10. CASE ServeReturn("server", k)
  <2> DEFINE c == [server EXCEPT !.open = @ \ {s.conn}]
  <2>1. client' = client /\ server' = c
    BY <1>0, <1>10 DEF ServeReturn, Becomes, TypeOK
  <2>2. /\ c.open \subseteq server.open /\ c.ctxDone = server.ctxDone
        /\ c.wsOpen = server.wsOpen /\ c.status = server.status
        /\ c.streamConn = server.streamConn /\ c.cur = server.cur
        /\ s.conn \notin c.open
    BY <1>0 DEF ConnState
  <2>3. NoMore(wire, wire') /\ WireIs(wire', dial.k)
    BY <1>0, <1>10 DEF ServeReturn, NoMore
  <2> QED
    BY <1>0, <1>9, <1>10, <2>1, <2>2, <2>3 DEF ServeReturn
<1>11. ASSUME SendFails("server", server, wire), Goto("server", k, "return"),
              UNCHANGED dial, s.pc \in {"sendErr", "write"}
       PROVE  InTurn'
  <2>1. /\ Shut(server, server') /\ client' = client
        /\ WireIs(wire', dial.k) /\ NoMore(wire, wire')
    BY <1>0, <1>11, CloseFacts DEF SendFails, Closure
  <2>2. /\ server'.status = "Closed" /\ server'.cur = server.cur
        /\ server'.open \subseteq server.open /\ server'.ctxDone
    BY <1>0, <2>1 DEF Shut, InTurn, DialStatus
  <2> QED
    BY <1>0, <1>9, <1>11, <2>1, <2>2
<1>12. CASE ServeWrite("server", k)
  <2>1. s.pc = "write" /\ UNCHANGED dial
    BY <1>12 DEF ServeWrite
  <2>2. CASE /\ Sent("server", server, wire, Chunk(s.conn, s.n))
             /\ Goto("server", k, "read")
    <3>1. t.pc = "read" /\ t.conn = s.conn
      BY <1>1, <2>2
    <3>2. ServedTarget(k, t)
      BY <1>0, <2>1, <3>1 DEF ServedTarget
    <3>3. UNCHANGED conn /\ WireIs(wire', dial.k) /\ NoMore(wire, wire')
      BY <1>0, <2>1, <2>2, ChunkSent
    <3> QED
      BY <1>0, <1>1, <2>1, <2>2, <3>2, <3>3, MoveSendOK
  <2> QED
    BY <1>0, <1>11, <1>12, <2>1, <2>2 DEF ServeWrite
<1>13. CASE ServeSendErr("server", k)
  <2>1. CASE Sent("server", server, wire, Cmd("error"))
    <3>1. client' = client /\ server' = server /\ wire' = Put(wire, "server", Cmd("error"))
      BY <1>0, <2>1 DEF Sent, Becomes, TypeOK
    <3>2. /\ Cmd("error") \in Frame /\ Cmd("error").t = "error"
          /\ Cmd("error").t \in Allowed(Peer("server")) /\ Cmd("error").t \notin Exchange
      BY FrameFacts DEF Cmd, Command, Allowed, Peer, Exchange, Answers
    <3>3. WireIs(wire', dial.k) /\ \A x : On(wire', x) => On(wire, x) \/ x = "error"
      BY <1>0, <3>1, <3>2, PutFacts
    <3>4. NoMore(wire, wire')
      BY <3>2, <3>3 DEF NoMore
    <3> QED
      BY <1>0, <1>9, <1>13, <3>1, <3>3, <3>4 DEF ServeSendErr
  <2> QED
    BY <1>0, <1>11, <1>13, <2>1 DEF ServeSendErr
<1> QED
  BY <1>3, <1>4, <1>5, <1>6, <1>7, <1>8, <1>10, <1>12,
     <1>13 DEF serveStream

-----------------------------------------------------------------------------
(* The ways in which a Conn is closed, at either end.                      *)
LEMMA ShutStep ==
  ASSUME InTurn, OneStream', NEW e \in End, NEW c \in ConnState, NEW w,
         WireIs(w, dial.k), NoMore(wire, w),
         NEW code \in Closure, closeWithCode(e, c, w, code), UNCHANGED <<dial, serve>>,
         c.onResult = conn[e].onResult, c.cur \in {conn[e].cur, NoFrame},
         \/ c.status = "Closed" /\ c.ctxDone /\ c.open = conn[e].open
         \/ c.status # "Closed" /\ c.open \ {c.streamConn} \subseteq conn[e].open
  PROVE  InTurn'
<1>1. /\ Shut(c, conn'[e]) /\ \A x \in End : x # e => conn'[x] = conn[x]
      /\ WireIs(wire', dial.k) /\ NoMore(w, wire')
  BY CloseFacts DEF InTurn, OneStream
<1>2. NoMore(wire, wire')
  BY <1>1 DEF NoMore
<1>3. /\ conn'[e].status = "Closed" /\ conn'[e].ctxDone /\ conn'[e].onResult = conn[e].onResult
      /\ conn'[e].open \subseteq conn[e].open /\ conn'[e].cur \in {conn[e].cur, NoFrame}
  BY <1>1 DEF Shut
<1> QED
  BY <1>1, <1>2, <1>3, ShutOK

LEMMA ReadErrOK ==
  ASSUME InTurn, OneStream', NEW e \in End, HandleReadErr(e)
  PROVE  InTurn'
<1> DEFINE c == [conn[e] EXCEPT !.handle = "returned"]
           d == [c EXCEPT !.ctxDone = TRUE]
<1>0. /\ TypeOK /\ conn[e] \in ConnState /\ WireIs(wire, dial.k) /\ NoMore(wire, wire)
      /\ conn[e].status = "Closed" => conn[e].ctxDone
  BY DEF InTurn, OneStream, TypeOK, OneAtATime, DialStatus, NoMore
<1>1. CASE Becomes(e, d) /\ UNCHANGED <<wire, dial, serve>>
  <2>1. conn'[e] = d /\ \A x \in End : x # e => conn'[x] = conn[x]
    BY <1>0, <1>1 DEF Becomes, TypeOK
  <2>2. /\ d.status = conn[e].status /\ d.onResult = conn[e].onResult /\ d.ctxDone
        /\ d.open = conn[e].open /\ d.streamConn = conn[e].streamConn
        /\ d.cur = conn[e].cur
    BY <1>0 DEF ConnState
  <2> HIDE DEF d
  <2> QED
    BY <1>0, <1>1, <2>1, <2>2, ShutOK
<1>2. CASE closeWithCode(e, c, wire, "internalError") /\ UNCHANGED <<dial, serve>>
  <2>1. /\ c \in ConnState /\ c.status = conn[e].status /\ c.onResult = conn[e].onResult
        /\ c.ctxDone = conn[e].ctxDone /\ c.open = conn[e].open /\ c.cur = conn[e].cur
    BY <1>0 DEF ConnState
  <2> HIDE DEF c
  <2> QED
    BY <1>0, <1>2, <2>1, ShutStep DEF Closure
<1> QED
  BY <1>1, <1>2 DEF HandleReadErr

LEMMA PingOK ==
  ASSUME InTurn, OneStream', NEW e \in End, Ping(e)
  PROVE  InTurn'
<1> DEFINE c == [conn[e] EXCEPT !.ping = "ended"]
           d == [c EXCEPT !.status = "Closed", !.wsOpen = FALSE]
<1>0. /\ TypeOK /\ conn[e] \in ConnState /\ WireIs(wire, dial.k) /\ NoMore(wire, wire)
      /\ conn[e].status = "Closed" => conn[e].ctxDone
      /\ UNCHANGED <<dial, serve>>
  BY DEF InTurn, OneStream, TypeOK, OneAtATime, DialStatus, NoMore, Ping
<1>1. /\ c \in ConnState /\ c.status = conn[e].status /\ c.onResult = conn[e].onResult
      /\ c.ctxDone = conn[e].ctxDone /\ c.open = conn[e].open /\ c.cur = conn[e].cur
      /\ c.streamConn = conn[e].streamConn
  BY <1>0 DEF ConnState
<1>2. CASE /\ c.ctxDone /\ Becomes(e, d)
           /\ wire' = IF c.wsOpen THEN Put(wire, e, Cmd("internalError")) ELSE wire
  <2>1. conn'[e] = d /\ \A x \in End : x # e => conn'[x] = conn[x]
    BY <1>0, <1>2 DEF Becomes, TypeOK
  <2>2. /\ d.status = "Closed" /\ d.onResult = c.onResult /\ d.ctxDone = c.ctxDone
        /\ d.open = c.open /\ d.cur = c.cur
    <3> HIDE DEF c
    <3> QED
      BY <1>1 DEF ConnState
  <2>3. /\ WireIs(Put(wire, e, Cmd("internalError")), dial.k)
        /\ NoMore(wire, Put(wire, e, Cmd("internalError")))
    <3>1. /\ Cmd("internalError") \in Frame /\ Cmd("internalError").t = "internalError"
          /\ Cmd("internalError").t \in Allowed(Peer(e))
          /\ Cmd("internalError").t \notin Exchange
      BY FrameKinds DEF Closure
    <3> QED
      BY <1>0, <3>1, PutFacts DEF NoMore
  <2> HIDE DEF c, d
  <2>4. WireIs(wire', dial.k) /\ NoMore(wire, wire')
    BY <1>0, <1>2, <2>3
  <2> QED
    BY <1>0, <1>1, <1>2, <2>1, <2>2, <2>4, ShutOK
<1>3. CASE closeWithCode(e, c, wire, "internalError")
  <2> HIDE DEF c
  <2> QED
    BY <1>0, <1>1, <1>3, ShutStep DEF Closure
<1> QED
  BY <1>2, <1>3 DEF Ping

LEMMA CloseOK ==
  ASSUME InTurn, OneStream', NEW e \in End, Close(e)
  PROVE  InTurn'
<1>1. /\ TypeOK /\ conn[e] \in ConnState /\ WireIs(wire, dial.k) /\ NoMore(wire, wire)
      /\ conn[e].status # "Closed" /\ conn[e].open \ {conn[e].streamConn} \subseteq conn[e].open
      /\ closeWithCode(e, conn[e], wire, "normalClosure") /\ UNCHANGED <<dial, serve>>
  BY DEF InTurn, OneStream, TypeOK, OneAtATime, NoMore, Close
<1> QED
  BY <1>1, ShutStep DEF Closure

-----------------------------------------------------------------------------
(* A step of the handler of a chunk: taking it, or the end of io.Copy.     *)
LEMMA CurOK ==
  ASSUME InTurn, OneStream', NEW e \in End, NEW f, f.t # "open",
         \/ Becomes(e, [conn[e] EXCEPT !.cur = f]) \/ UNCHANGED conn,
         WireIs(wire', dial.k), NoMore(wire, wire'), UNCHANGED <<dial, serve>>
  PROVE  InTurn'
<1> DEFINE c == [conn[e] EXCEPT !.cur = f]
<1>0. TypeOK /\ conn[e] \in ConnState /\ "client" \in End /\ "server" \in End
  BY DEF InTurn, OneStream, TypeOK, End
<1>1. \A x \in End : conn'[x] = conn[x] \/ (x = e /\ conn'[x] = c)
  BY <1>0 DEF Becomes, TypeOK
<1>2. /\ c.status = conn[e].status /\ c.streamConn = conn[e].streamConn
      /\ c.onResult = conn[e].onResult /\ c.open = conn[e].open
      /\ c.wsOpen = conn[e].wsOpen /\ c.ctxDone = conn[e].ctxDone /\ c.cur = f
  BY <1>0 DEF ConnState
<1> HIDE DEF c
<1>3. \A x \in End :
        /\ conn'[x].status = conn[x].status /\ conn'[x].streamConn = conn[x].streamConn
        /\ conn'[x].onResult = conn[x].onResult /\ conn'[x].open = conn[x].open
        /\ conn'[x].wsOpen = conn[x].wsOpen /\ conn'[x].ctxDone = conn[x].ctxDone
        /\ conn'[x].cur.t = "open" => conn'[x].cur = conn[x].cur
  BY <1>1, <1>2
<1>4. /\ client'.status = client.status /\ client'.streamConn = client.streamConn
      /\ client'.onResult = client.onResult /\ client'.open = client.open
      /\ client'.ctxDone = client.ctxDone
  BY <1>0, <1>3 DEF client
<1>5. /\ server'.status = server.status /\ server'.streamConn = server.streamConn
      /\ server'.open = server.open /\ server'.ctxDone = server.ctxDone
      /\ server'.cur.t = "open" => server'.cur = server.cur
  BY <1>0, <1>3 DEF server
<1>6. \A t \in Exchange : Pending(t)' => Pending(t)
  BY <1>5 DEF Pending, NoMore
<1>7. OneAtATime'
  BY <1>5 DEF InTurn, OneAtATime, NoMore, Quiet
<1>8. OpenPending' /\ ClosePending'
  BY <1>4, <1>6 DEF InTurn, OpenPending, ClosePending, Exchange, Answers
<1>9. DialStatus'
  BY <1>3, <1>4 DEF InTurn, DialStatus
<1>10. Served'
  BY <1>4, <1>5 DEF InTurn, Served, ServedPipe, ServedTarget
<1>11. StreamOfLastDial'
  BY <1>4, <1>5, <1>6 DEF InTurn, StreamOfLastDial, Exchange, Answers
<1> QED
  BY <1>7, <1>8, <1>9, <1>10, <1>11 DEF InTurn

LEMMA ChunkOK ==
  ASSUME InTurn, OneStream', NEW e \in End, HandleData(e) \/ CopyOk(e)
  PROVE  InTurn'
<1>0. TypeOK /\ WireIs(wire, dial.k) /\ NoFrame.t = "none"
  BY DEF InTurn, OneStream, OneAtATime, NoFrame
<1>1. CASE HandleData(e)
  <2>1. wire[e] # <<>> /\ Head(wire[e]).t = "data" /\ wire' = Received(e)
    BY <1>1 DEF HandleData, Incoming, AtHead
  <2>2. WireIs(wire', dial.k) /\ NoMore(wire, wire')
    BY <1>0, <2>1, ReceivedFacts
  <2> QED
    BY <1>1, <2>1, <2>2, CurOK DEF HandleData
<1>2. CASE CopyOk(e)
  <2>1. WireIs(wire', dial.k) /\ NoMore(wire, wire')
    BY <1>0, <1>2 DEF CopyOk, NoMore
  <2> QED
    BY <1>0, <1>2, <2>1, CurOK DEF CopyOk
<1> QED
  BY <1>1, <1>2

(* A copy fails at the server, which is idle then, or closed.              *)
LEMMA CopyErrServerOK ==
  ASSUME InTurn, OneStream', CopyErr("server")
  PROVE  InTurn'
<1> DEFINE c == [server EXCEPT !.status = "Idle"]
           d == CloseStream(c)
<1>0. /\ TypeOK /\ server \in ConnState /\ "client" \in End /\ "server" \in End
      /\ client = conn["client"] /\ server = conn["server"] /\ Peer("server") = "client"
      /\ client' = conn'["client"] /\ server' = conn'["server"]
      /\ server.open \subseteq {server.streamConn} /\ None \notin Session
      /\ WireIs(wire, dial.k) /\ NoMore(wire, wire) /\ NoFrame.t = "none"
  BY SessionFacts DEF InTurn, OneStream, TypeOK, EndSound, OneAtATime, client, server, End,
     Peer, NoMore, NoFrame
<1>1. /\ server.cur.t = "data" /\ UNCHANGED <<dial, serve>>
      /\ c \in ConnState /\ c.status = "Idle" /\ c.streamConn = server.streamConn
      /\ c.onResult = server.onResult /\ c.open = server.open /\ c.cur = server.cur
      /\ c.wsOpen = server.wsOpen /\ c.ctxDone = server.ctxDone
  <2>1. /\ c \in ConnState /\ c.status = "Idle" /\ c.streamConn = server.streamConn
        /\ c.onResult = server.onResult /\ c.open = server.open /\ c.cur = server.cur
        /\ c.wsOpen = server.wsOpen /\ c.ctxDone = server.ctxDone
    BY <1>0 DEF ConnState, Status
  <2>2. c.cur.t = "data" /\ UNCHANGED <<dial, serve>>
    BY <1>0 DEF CopyErr
  <2> QED
    BY <2>1, <2>2
<1>2. /\ d \in ConnState /\ d.status = "Idle" /\ d.onResult = server.onResult
      /\ d.open = {} /\ d.wsOpen = server.wsOpen /\ d.ctxDone = server.ctxDone
      /\ d.cur = server.cur
  <2> HIDE DEF c
  <2>1. d \in ConnState
    BY <1>1, CloseStreamType
  <2>2. /\ d.status = c.status /\ d.onResult = c.onResult
        /\ d.open = c.open \ {c.streamConn} /\ d.wsOpen = c.wsOpen
        /\ d.ctxDone = c.ctxDone /\ d.cur = c.cur
    BY <1>1 DEF CloseStream, ConnState
  <2> QED
    BY <1>0, <1>1, <2>1, <2>2
<1>3. \/ /\ c.streamConn = None /\ UNCHANGED wire
         /\ Becomes("server", [c EXCEPT !.cur = NoFrame, !.handle = "returned"])
      \/ Answered("server", d, wire, "error")
      \/ AnswerFails("server", d, wire)
  BY <1>0 DEF CopyErr
<1> HIDE DEF c, d
<1>4. ASSUME client' = client, server'.status = "Idle", server'.open = {},
             server'.wsOpen = server.wsOpen, server'.ctxDone = server.ctxDone,
             server'.cur = NoFrame, WireIs(wire', dial.k), NoMore(wire, wire')
      PROVE  InTurn'
  <2>1. \A t \in Exchange : Pending(t)' => Pending(t)
    BY <1>0, <1>4 DEF Pending, NoMore
  <2>2. OneAtATime'
    BY <1>0, <1>1, <1>4 DEF OneAtATime
  <2>3. OpenPending' /\ ClosePending'
    BY <1>1, <1>4, <2>1 DEF InTurn, OpenPending, ClosePending, Exchange, Answers
  <2>4. DialStatus'
    BY <1>0, <1>1, <1>4 DEF InTurn, DialStatus, End
  <2>5. Served'
    BY <1>1, <1>4 DEF InTurn, Served, ServedPipe, ServedTarget
  <2>6. StreamOfLastDial'
    BY <1>4 DEF StreamOfLastDial
  <2> QED
    BY <2>2, <2>3, <2>4, <2>5, <2>6 DEF InTurn
<1>5. CASE /\ c.streamConn = None /\ UNCHANGED wire
           /\ Becomes("server", [c EXCEPT !.cur = NoFrame, !.handle = "returned"])
  <2> DEFINE a == [c EXCEPT !.cur = NoFrame, !.handle = "returned"]
  <2>1. client' = client /\ server' = a
    BY <1>0, <1>5 DEF Becomes, TypeOK
  <2>2. /\ a.status = "Idle" /\ a.open = c.open /\ a.wsOpen = c.wsOpen
        /\ a.ctxDone = c.ctxDone /\ a.cur = NoFrame
    BY <1>1 DEF ConnState
  <2>3. c.open = {}
    BY <1>0, <1>1, <1>5 DEF ConnState
  <2> HIDE DEF a
  <2> QED
    BY <1>0, <1>1, <1>4, <1>5, <2>1, <2>2, <2>3
<1>6. CASE Answered("server", d, wire, "error")
  <2> DEFINE a == [d EXCEPT !.cur = NoFrame]
  <2>1. client' = client /\ server' = a /\ wire' = Put(wire, "server", Cmd("error"))
    BY <1>0, <1>6 DEF Answered, Sent, Becomes, TypeOK
  <2>2. /\ a.status = "Idle" /\ a.open = {} /\ a.wsOpen = d.wsOpen
        /\ a.ctxDone = d.ctxDone /\ a.cur = NoFrame
    BY <1>2 DEF ConnState
  <2>3. /\ Cmd("error") \in Frame /\ Cmd("error").t = "error"
        /\ Cmd("error").t \in Allowed(Peer("server")) /\ Cmd("error").t \notin Exchange
    BY FrameFacts DEF Cmd, Command, Allowed, Peer, Exchange, Answers
  <2>4. WireIs(wire', dial.k) /\ \A x : On(wire', x) => On(wire, x) \/ x = "error"
    BY <1>0, <2>1, <2>3, PutFacts
  <2>5. NoMore(wire, wire')
    BY <2>3, <2>4 DEF NoMore
  <2> HIDE DEF a
  <2> QED
    BY <1>2, <1>4, <2>1, <2>2, <2>4, <2>5
<1>7. CASE AnswerFails("server", d, wire)
  <2> DEFINE a == [d EXCEPT !.cur = NoFrame, !.handle = "returned"]
  <2>1. /\ a \in ConnState /\ a.status = "Idle" /\ a.onResult = d.onResult
        /\ a.open = {} /\ a.cur = NoFrame
    BY <1>2, FlagTypes DEF ConnState
  <2>2. closeWithCode("server", a, wire, "internalError")
    BY <1>7 DEF AnswerFails, SendFails
  <2> HIDE DEF a
  <2> QED
    BY <1>0, <1>1, <1>2, <2>1, <2>2, ShutStep DEF Closure
<1> QED
  BY <1>3, <1>5, <1>6, <1>7

(* Handle, at the client.                                                  *)
LEMMA HandleClientOK ==
  ASSUME InTurn, OneStream', Handle("client") \/ CopyOk("client"), ~CopyErr("client")
  PROVE  InTurn'
<1>0. /\ TypeOK /\ client \in ConnState /\ dial \in Dialing /\ "client" \in End
      /\ "server" \in End /\ client = conn["client"] /\ server = conn["server"]
      /\ client' = conn'["client"] /\ server' = conn'["server"]
      /\ client.cur.t # "open" /\ WireIs(wire, dial.k)
  BY DEF InTurn, OneStream, TypeOK, EndSound, client, server, End, OneAtATime
<1>1. ASSUME NEW t, AtHead("client", t)
      PROVE  /\ t \in Allowed("client") /\ On(wire, t) /\ NoMore(wire, Received("client"))
             /\ WireIs(Received("client"), dial.k)
             /\ t \in Exchange => Quiet(Received("client"))
  BY <1>0, <1>1, ReceivedFacts DEF AtHead
<1>2. CASE \/ HandleClose("client") \/ HandleOpen("client")
           \/ DialTargetOk("client") \/ DialTargetErr("client")
  <2>1. CASE DialTargetOk("client") \/ DialTargetErr("client")
    BY <1>0, <2>1 DEF DialTargetOk, DialTargetErr
  <2>2. CASE HandleClose("client") \/ HandleOpen("client")
    BY <1>1, <2>2 DEF HandleClose, HandleOpen, Incoming, Allowed, Answers, Closure
  <2> QED
    BY <1>2, <2>1, <2>2
<1>3. CASE HandleReply("client")
  <2> DEFINE cb == client.onResult
             c == [client EXCEPT !.onResult = NoCallback,
                     !.status = IF cb.kind = "close" THEN "Idle" ELSE @]
  <2>1. PICK t \in Answers :
          /\ Incoming("client", t)
          /\ dial' = IF cb.kind = "dial" /\ cb.k = dial.k
                     THEN [dial EXCEPT !.res = IF t = "replyTrue" THEN "ok" ELSE "fail"]
                     ELSE dial
    BY <1>0, <1>3 DEF HandleReply, Answers
  <2>2. /\ Pending(t) /\ WireIs(wire', dial.k) /\ Quiet(wire') /\ dial.pc # "sent"
        /\ wire' = Received("client")
    BY <1>0, <1>1, <1>3, <2>1 DEF HandleReply, Incoming, Pending, Exchange, LockFree
  <2>3. client' = c /\ server' = server
    BY <1>0, <1>3 DEF HandleReply, Becomes, TypeOK
  <2>4. /\ c.open = client.open /\ c.ctxDone = client.ctxDone /\ c.wsOpen = client.wsOpen
        /\ c.streamConn = client.streamConn /\ c.cur = client.cur
        /\ c.status = IF cb.kind = "close" THEN "Idle" ELSE client.status
    BY <1>0 DEF ConnState
  <2>5. server.cur.t # "open"
    <3>1. t \in Exchange /\ On(wire, t)
      BY <1>1, <2>1 DEF Exchange, Incoming
    <3> QED
      BY <3>1 DEF InTurn, OneAtATime, Quiet
  <2>6. \A x \in Exchange : ~Pending(x)'
    BY <2>2, <2>3, <2>5 DEF Pending, Quiet
  <2> HIDE DEF c
  <2>7. OpenPending' /\ ClosePending'
    BY <2>6 DEF OpenPending, ClosePending, Exchange, Answers
  <2>8. CASE t = "reply"
    <3>1. /\ cb = [kind |-> "close", k |-> dial.k] /\ dial.pc = "idle"
          /\ client.status \in {"Stream", "Closed"} /\ (client.ctxDone \/ client.open = {})
          /\ \A j \in Session : serve["client"][j].pc \notin Active
      BY <2>2, <2>8 DEF InTurn, ClosePending
    <3>2. dial' = dial /\ c.status = "Idle" /\ server.status # "Stream"
      BY <2>1, <2>2, <2>4, <2>8, <3>1 DEF InTurn, StreamOfLastDial
    <3>3. serve' = [serve EXCEPT !["client"][cb.k].done = TRUE]
      BY <1>0, <1>3, <3>1 DEF HandleReply
    <3>4. /\ serve'["server"] = serve["server"]
          /\ \A j \in Session : /\ serve'["client"][j].pc = serve["client"][j].pc
                                /\ serve'["client"][j].conn = serve["client"][j].conn
      <4>1. serve["client"] \in [Session -> Serving] /\ serve \in [End -> [Session -> Serving]]
        BY <1>0 DEF TypeOK
      <4>2. \A j \in Session :
              \/ serve'["client"][j] = serve["client"][j]
              \/ serve'["client"][j] = [serve["client"][j] EXCEPT !.done = TRUE]
        BY <1>0, <3>3, <4>1
      <4>3. ASSUME NEW j \in Session
            PROVE  /\ [serve["client"][j] EXCEPT !.done = TRUE].pc = serve["client"][j].pc
                   /\ [serve["client"][j] EXCEPT !.done = TRUE].conn = serve["client"][j].conn
        <5>1. serve["client"][j] \in Serving
          BY <4>1
        <5> QED
          BY <5>1 DEF Serving
      <4>4. serve'["server"] = serve["server"]
        BY <1>0, <3>3, <4>1
      <4> QED
        BY <4>2, <4>3, <4>4
    <3>5. OneAtATime'
      BY <2>2, <2>3, <2>4, <2>5, <3>2 DEF InTurn, OneAtATime
    <3>6. DialStatus'
      BY <1>0, <2>3, <2>4, <3>1, <3>2 DEF InTurn, DialStatus, End
    <3>7. Served'
      <4> SUFFICES ASSUME NEW j \in Session
                   PROVE  /\ ServedPipe(j, serve["client"][j])'
                          /\ ServedTarget(j, serve["server"][j])'
        BY DEF Served
      <4>1. ServedPipe(j, serve["client"][j]) /\ ServedTarget(j, serve["server"][j])
        BY DEF InTurn, Served
      <4>2. ServedTarget(j, serve["server"][j])'
        BY <2>3, <3>4, <4>1 DEF ServedTarget
      <4>3. ServedPipe(j, serve["client"][j])'
        BY <2>3, <2>4, <3>1, <3>2, <3>4, <4>1 DEF ServedPipe, Active
      <4> QED
        BY <4>2, <4>3
    <3>8. StreamOfLastDial'
      BY <2>3, <3>2 DEF StreamOfLastDial
    <3> QED
      BY <2>7, <3>5, <3>6, <3>7, <3>8 DEF InTurn
  <2>9. CASE t # "reply"
    <3>1. /\ cb = [kind |-> "dial", k |-> dial.k] /\ dial.res = "none"
          /\ \/ dial.pc = "select"
             \/ dial.pc = "idle" /\ client.ctxDone /\ client.status \in {"InOper", "Closed"}
      BY <2>1, <2>2, <2>9 DEF InTurn, OpenPending, Answers
    <3>2. PICK r \in {"ok", "fail"} : /\ dial' = [dial EXCEPT !.res = r]
                                      /\ r = "fail" => t = "replyFalse"
      BY <2>1, <2>9, <3>1 DEF Answers
    <3>3. /\ dial'.pc = dial.pc /\ dial'.k = dial.k /\ dial'.cancelled = dial.cancelled
          /\ dial'.res = r
      BY <1>0, <3>2 DEF Dialing
    <3>4. c.status = client.status /\ serve' = serve
      BY <1>0, <1>3, <2>4, <3>1 DEF HandleReply
    <3>5. OneAtATime'
      BY <2>2, <2>3, <2>4, <2>5, <3>3 DEF InTurn, OneAtATime
    <3>6. DialStatus'
      BY <1>0, <2>3, <2>4, <3>1, <3>3, <3>4 DEF InTurn, DialStatus, End
    <3>7. Served'
      <4> SUFFICES ASSUME NEW j \in Session
                   PROVE  /\ ServedPipe(j, serve["client"][j])'
                          /\ ServedTarget(j, serve["server"][j])'
        BY DEF Served
      <4>1. ServedPipe(j, serve["client"][j]) /\ ServedTarget(j, serve["server"][j])
        BY DEF InTurn, Served
      <4>2. ServedTarget(j, serve["server"][j])'
        BY <2>3, <3>4, <4>1 DEF ServedTarget
      <4>3. ServedPipe(j, serve["client"][j])'
        BY <2>3, <2>4, <3>1, <3>3, <3>4, <4>1 DEF ServedPipe, Active
      <4> QED
        BY <4>2, <4>3
    <3>8. StreamOfLastDial'
      BY <2>2, <2>3, <2>4, <2>6, <3>2, <3>3, <3>4
      DEF InTurn, StreamOfLastDial, Exchange, Answers
    <3> QED
      BY <2>7, <3>5, <3>6, <3>7, <3>8 DEF InTurn
  <2> QED
    BY <2>8, <2>9
<1>4. CASE HandleError("client")
  <2> DEFINE c == [client EXCEPT !.open = @ \ {client.onCmdErr}, !.onCmdErr = None]
  <2>1. /\ WireIs(wire', dial.k) /\ NoMore(wire, wire') /\ UNCHANGED <<dial, serve>>
        /\ wire' = Received("client")
    BY <1>0, <1>1, <1>4 DEF HandleError, Incoming
  <2>2. server' = server /\ (client' = c \/ client' = client)
    BY <1>0, <1>4 DEF HandleError, Becomes, TypeOK
  <2>3. /\ c.open \subseteq client.open /\ c.ctxDone = client.ctxDone
        /\ c.wsOpen = client.wsOpen /\ c.streamConn = client.streamConn
        /\ c.cur = client.cur /\ c.status = client.status /\ c.onResult = client.onResult
    BY <1>0 DEF ConnState
  <2> HIDE DEF c
  <2>4. /\ client'.open \subseteq client.open /\ client'.ctxDone = client.ctxDone
        /\ client'.wsOpen = client.wsOpen /\ client'.streamConn = client.streamConn
        /\ client'.cur = client.cur /\ client'.status = client.status
        /\ client'.onResult = client.onResult
    BY <2>2, <2>3
  <2>5. \A x \in Exchange : Pending(x)' => Pending(x)
    BY <2>1, <2>2 DEF Pending, NoMore
  <2>6. OneAtATime' /\ OpenPending' /\ ClosePending'
    <3>1. OneAtATime'
      BY <2>1, <2>2, <2>4 DEF InTurn, OneAtATime, NoMore, Quiet
    <3>2. OpenPending' /\ ClosePending'
      BY <2>1, <2>4, <2>5 DEF InTurn, OpenPending, ClosePending, Exchange, Answers
    <3> QED
      BY <3>1, <3>2
  <2>7. DialStatus' /\ Served'
    <3>1. DialStatus'
      BY <1>0, <2>1, <2>2, <2>4 DEF InTurn, DialStatus, End
    <3>2. Served'
      BY <2>1, <2>2, <2>4 DEF InTurn, Served, ServedPipe, ServedTarget
    <3> QED
      BY <3>1, <3>2
  <2>8. StreamOfLastDial'
    BY <2>1, <2>2, <2>4, <2>5 DEF InTurn, StreamOfLastDial, Exchange, Answers
  <2> QED
    BY <2>6, <2>7, <2>8 DEF InTurn
<1> QED
  BY <1>0, <1>2, <1>3, <1>4, ReadErrOK, ChunkOK DEF Handle

(* Handle, at the server.                                                  *)
LEMMA HandleServerOK ==
  ASSUME InTurn, OneStream', Handle("server") \/ CopyOk("server")
  PROVE  InTurn'
<1>0. /\ TypeOK /\ server \in ConnState /\ dial \in Dialing /\ "client" \in End
      /\ "server" \in End /\ client = conn["client"] /\ server = conn["server"]
      /\ client' = conn'["client"] /\ server' = conn'["server"]
      /\ WireIs(wire, dial.k) /\ server.open \subseteq {server.streamConn}
      /\ Peer("server") = "client" /\ NoMore(wire, wire)
      /\ server.status = "Closed" => server.ctxDone
  BY DEF InTurn, OneStream, TypeOK, client, server, End, OneAtATime, EndSound, Peer, NoMore,
         DialStatus
<1>1. ASSUME NEW t, AtHead("server", t)
      PROVE  /\ t \in Allowed("server") /\ On(wire, t) /\ NoMore(wire, Received("server"))
             /\ WireIs(Received("server"), dial.k)
             /\ t \in Exchange => Quiet(Received("server"))
             /\ Head(wire["server"]).t = t /\ (t = "open" => Head(wire["server"]).k = dial.k)
  BY <1>0, <1>1, ReceivedFacts DEF AtHead
<1>2. CASE HandleReply("server") \/ HandleError("server")
  BY <1>1, <1>2 DEF HandleError, HandleReply, Incoming, Allowed, Closure
<1>3. ASSUME NEW c \in ConnState, NEW w, AnswerFails("server", c, w), WireIs(w, dial.k),
             NoMore(wire, w), UNCHANGED <<dial, serve>>,
             c.onResult = server.onResult,
             \/ c.status = "Closed" /\ c.ctxDone /\ c.open = server.open
             \/ c.status # "Closed" /\ c.open \ {c.streamConn} \subseteq server.open
      PROVE  InTurn'
  <2> DEFINE d == [c EXCEPT !.cur = NoFrame, !.handle = "returned"]
  <2>1. /\ d \in ConnState /\ d.status = c.status /\ d.onResult = c.onResult
        /\ d.ctxDone = c.ctxDone /\ d.open = c.open /\ d.cur = NoFrame
        /\ d.streamConn = c.streamConn
    BY DEF ConnState
  <2>2. closeWithCode("server", d, w, "internalError")
    BY <1>3 DEF AnswerFails, SendFails
  <2> HIDE DEF d
  <2> QED
    BY <1>0, <1>3, <2>1, <2>2, ShutStep DEF Closure
<1>4. ASSUME NEW c \in ConnState, NEW w, NEW t \in Answers, Answered("server", c, w, t),
             WireIs(w, dial.k), Quiet(w)
      PROVE  /\ client' = client /\ server'.cur = NoFrame /\ server'.open = c.open
             /\ server'.status = c.status /\ server'.streamConn = c.streamConn
             /\ server'.ctxDone = c.ctxDone /\ server'.wsOpen = c.wsOpen
             /\ WireIs(wire', dial.k) /\ \A x \in Exchange : Pending(x)' => x = t
  <2> DEFINE d == [c EXCEPT !.cur = NoFrame]
  <2>1. /\ d.status = c.status /\ d.ctxDone = c.ctxDone /\ d.open = c.open /\ d.cur = NoFrame
        /\ d.streamConn = c.streamConn /\ d.wsOpen = c.wsOpen
    BY DEF ConnState
  <2>2. client' = client /\ server' = d /\ wire' = Put(w, "server", Cmd(t))
    BY <1>0, <1>4 DEF Answered, Sent, Becomes, TypeOK
  <2>3. /\ Cmd(t) \in Frame /\ Cmd(t).t = t /\ t \in Allowed(Peer("server"))
        /\ t # "open"
    BY <1>0, FrameFacts DEF Cmd, Command, Answers, Allowed
  <2>4. WireIs(wire', dial.k) /\ \A x : On(wire', x) => On(w, x) \/ x = t
    BY <1>0, <1>4, <2>2, <2>3, PutFacts
  <2> HIDE DEF d
  <2>5. \A x \in Exchange : Pending(x)' => x = t
    BY <1>4, <2>1, <2>2, <2>4 DEF Pending, Quiet, NoFrame
  <2> QED
    BY <2>1, <2>2, <2>4, <2>5
<1>5. CASE HandleClose("server")
  <2> DEFINE i == [server EXCEPT !.status = "Idle"]
             c == CloseStream(i)
             w == Received("server")
  <2>1. /\ On(wire, "close") /\ NoMore(wire, w) /\ WireIs(w, dial.k) /\ Quiet(w)
        /\ UNCHANGED <<dial, serve>>
    BY <1>1, <1>5 DEF HandleClose, Incoming, Exchange
  <2>2. c \in ConnState
    <3>1. i \in ConnState
      BY <1>0 DEF ConnState, Status
    <3> QED
      BY <3>1, CloseStreamType
  <2>3. /\ c.status = "Idle" /\ c.onResult = server.onResult /\ c.open = {}
        /\ c.ctxDone = server.ctxDone /\ c.wsOpen = server.wsOpen /\ c.streamConn = None
    BY <1>0 DEF CloseStream, ConnState
  <2>4. Answered("server", c, w, "reply") \/ AnswerFails("server", c, w)
    BY <1>0, <1>5 DEF HandleClose
  <2> HIDE DEF c, w
  <2>5. CASE AnswerFails("server", c, w)
    BY <1>3, <2>1, <2>2, <2>3, <2>5
  <2>6. CASE Answered("server", c, w, "reply")
    <3>1. /\ client' = client /\ server'.cur = NoFrame /\ server'.open = {}
          /\ server'.status = "Idle" /\ server'.ctxDone = server.ctxDone
          /\ server'.wsOpen = server.wsOpen /\ WireIs(wire', dial.k)
          /\ \A x \in Exchange : Pending(x)' => x = "reply"
      BY <1>4, <2>1, <2>2, <2>3, <2>6 DEF Answers
    <3>2. Pending("close")
      BY <2>1 DEF Pending
    <3>3. OneAtATime'
      BY <2>1, <3>1 DEF InTurn, OneAtATime, NoFrame
    <3>4. OpenPending' /\ ClosePending'
      BY <2>1, <3>1, <3>2 DEF InTurn, OpenPending, ClosePending, Exchange, Answers
    <3>5. DialStatus'
      BY <1>0, <2>1, <3>1 DEF InTurn, DialStatus, End
    <3>6. Served'
      BY <2>1, <3>1 DEF InTurn, Served, ServedPipe, ServedTarget
    <3>7. StreamOfLastDial'
      BY <3>1 DEF StreamOfLastDial
    <3> QED
      BY <3>3, <3>4, <3>5, <3>6, <3>7 DEF InTurn
  <2> QED
    BY <2>4, <2>5, <2>6
<1>6. CASE HandleOpen("server")
  <2> DEFINE w == Received("server")
             f == Head(wire["server"])
             c == [server EXCEPT !.cur = f]
  <2>1. /\ On(wire, "open") /\ NoMore(wire, w) /\ WireIs(w, dial.k) /\ Quiet(w)
        /\ f.t = "open" /\ f.k = dial.k /\ UNCHANGED <<dial, serve>>
    BY <1>1, <1>6 DEF HandleOpen, Incoming, Exchange
  <2>2. CASE server.status # "Idle"
    <3>1. closeWithCode("server", server, w, "internalError")
      BY <1>0, <1>6, <2>2 DEF HandleOpen
    <3>2. \/ server.status = "Closed" /\ server.ctxDone
          \/ server.status # "Closed" /\ server.open \ {server.streamConn} \subseteq server.open
      BY <1>0
    <3> QED
      BY <1>0, <2>1, <3>1, <3>2, ShutStep DEF Closure
  <2>3. CASE server.status = "Idle"
    <3>1. client' = client /\ server' = c /\ wire' = w
      BY <1>0, <1>6, <2>3 DEF HandleOpen, Becomes, TypeOK
    <3>2. /\ c.open = server.open /\ c.cur = f /\ c.status = "Idle"
          /\ c.ctxDone = server.ctxDone /\ c.wsOpen = server.wsOpen
      BY <1>0, <2>3 DEF ConnState
    <3> HIDE DEF c, w, f
    <3>3. Pending("open") /\ \A x \in Exchange : Pending(x)' => x = "open"
      BY <2>1, <3>1 DEF Pending, Quiet
    <3>4. OneAtATime'
      BY <2>1, <3>1, <3>2 DEF InTurn, OneAtATime
    <3>5. OpenPending' /\ ClosePending'
      BY <2>1, <3>1, <3>3 DEF InTurn, OpenPending, ClosePending, Exchange, Answers
    <3>6. DialStatus'
      BY <1>0, <2>1, <2>3, <3>1, <3>2 DEF InTurn, DialStatus, End
    <3>7. Served'
      BY <2>1, <2>3, <3>1, <3>2 DEF InTurn, Served, ServedPipe, ServedTarget
    <3>8. StreamOfLastDial'
      BY <3>1, <3>2 DEF StreamOfLastDial
    <3> QED
      BY <3>4, <3>5, <3>6, <3>7, <3>8 DEF InTurn
  <2> QED
    BY <2>2, <2>3
<1>7. CASE DialTargetErr("server")
  <2>1. /\ server.cur.t = "open" /\ Pending("open") /\ Quiet(wire) /\ UNCHANGED <<dial, serve>>
        /\ server.status # "Stream"
    BY <1>0, <1>7 DEF DialTargetErr, Pending, InTurn, OneAtATime, StreamOfLastDial
  <2>2. CASE AnswerFails("server", server, wire)
    BY <1>0, <1>3, <2>1, <2>2
  <2>3. CASE Answered("server", server, wire, "replyFalse")
    <3>1. /\ client' = client /\ server'.cur = NoFrame /\ server'.open = server.open
          /\ server'.status = server.status /\ server'.ctxDone = server.ctxDone
          /\ server'.wsOpen = server.wsOpen /\ WireIs(wire', dial.k)
          /\ \A x \in Exchange : Pending(x)' => x = "replyFalse"
      BY <1>0, <1>4, <2>1, <2>3 DEF Answers
    <3>2. OneAtATime'
      BY <2>1, <3>1 DEF InTurn, OneAtATime, NoFrame
    <3>3. OpenPending' /\ ClosePending'
      BY <2>1, <3>1 DEF InTurn, OpenPending, ClosePending, Exchange, Answers
    <3>4. DialStatus'
      BY <1>0, <2>1, <3>1 DEF InTurn, DialStatus, End
    <3>5. Served'
      BY <2>1, <3>1 DEF InTurn, Served, ServedPipe, ServedTarget
    <3>6. StreamOfLastDial'
      BY <2>1, <3>1 DEF StreamOfLastDial
    <3> QED
      BY <3>2, <3>3, <3>4, <3>5, <3>6 DEF InTurn
  <2> QED
    BY <1>0, <1>7, <2>2, <2>3 DEF DialTargetErr
<1>8. CASE DialTargetOk("server")
  <2> DEFINE k == server.cur.k
             c == [server EXCEPT !.status = "Stream", !.streamConn = k, !.open = @ \cup {k}]
  <2>1. /\ server.cur.t = "open" /\ Pending("open") /\ Quiet(wire) /\ UNCHANGED dial
        /\ k = dial.k /\ server.open = {}
    <3>1. server.cur.t = "open" /\ UNCHANGED dial
      BY <1>0, <1>8 DEF DialTargetOk
    <3>2. server.open = {}
      <4>1. EndSound("server", server) /\ server.open \subseteq Session
        BY <1>0 DEF InTurn, OneStream, ConnState
      <4> QED
        BY <3>1, <4>1, SessionFacts DEF EndSound
    <3> QED
      BY <3>1, <3>2 DEF Pending, InTurn, OneAtATime
  <2>2. k \in Session
    BY <1>0, <2>1, SessionFacts DEF ConnState, Frame, NoFrame, Command
  <2>3. /\ c \in ConnState /\ c.status = "Stream" /\ c.open = {k} /\ c.streamConn = k
        /\ c.ctxDone = server.ctxDone /\ c.wsOpen = server.wsOpen
        /\ c.onResult = server.onResult
    BY <1>0, <2>1, <2>2 DEF ConnState, Status, Stream
  <2>4. \/ Answered("server", c, wire, "replyTrue") /\ Goto("server", k, "start")
        \/ AnswerFails("server", c, wire) /\ UNCHANGED serve
    BY <1>0, <1>8 DEF DialTargetOk
  <2> HIDE DEF c, k
  <2>5. CASE AnswerFails("server", c, wire) /\ UNCHANGED serve
    BY <1>0, <1>3, <2>1, <2>3, <2>5
  <2>6. CASE Answered("server", c, wire, "replyTrue") /\ Goto("server", k, "start")
    <3>1. /\ client' = client /\ server'.cur = NoFrame /\ server'.open = {k}
          /\ server'.status = "Stream" /\ server'.ctxDone = server.ctxDone
          /\ server'.streamConn = k
          /\ server'.wsOpen = server.wsOpen /\ WireIs(wire', dial.k)
          /\ \A x \in Exchange : Pending(x)' => x = "replyTrue"
      BY <1>0, <1>4, <2>1, <2>3, <2>6 DEF Answers
    <3>2. /\ serve'["client"] = serve["client"] /\ serve'["server"][k].pc = "start"
          /\ \A j \in Session : j # k => serve'["server"][j] = serve["server"][j]
      BY <1>0, <2>2, <2>6 DEF Goto, TypeOK, Serving
    <3>3. OneAtATime'
      BY <2>1, <3>1 DEF InTurn, OneAtATime, NoFrame
    <3>4. OpenPending' /\ ClosePending'
      BY <2>1, <3>1 DEF InTurn, OpenPending, ClosePending, Exchange, Answers
    <3>5. DialStatus'
      BY <1>0, <2>1, <3>1 DEF InTurn, DialStatus, End
    <3>6. Served'
      <4> SUFFICES ASSUME NEW j \in Session
                   PROVE  /\ ServedPipe(j, serve["client"][j])'
                          /\ ServedTarget(j, serve["server"][j])'
        BY DEF Served
      <4>1. ServedPipe(j, serve["client"][j]) /\ ServedTarget(j, serve["server"][j])
        BY DEF InTurn, Served
      <4>2. ServedPipe(j, serve["client"][j])'
        BY <2>1, <3>1, <3>2, <4>1 DEF ServedPipe
      <4>3. ServedTarget(j, serve["server"][j])'
        BY <3>1, <3>2, <4>1 DEF ServedTarget
      <4> QED
        BY <4>2, <4>3
    <3>7. StreamOfLastDial'
      <4>1. dial.res = "none" /\ ~(client.status = "Idle" /\ dial.pc = "idle")
        BY <2>1 DEF InTurn, OpenPending
      <4> QED
        BY <2>1, <3>1, <4>1 DEF StreamOfLastDial, Exchange, Answers, NoFrame
    <3> QED
      BY <3>3, <3>4, <3>5, <3>6, <3>7 DEF InTurn
  <2> QED
    BY <2>4, <2>5, <2>6
<1> QED
  BY <1>0, <1>2, <1>5, <1>6, <1>7, <1>8, ReadErrOK, ChunkOK, CopyErrServerOK DEF Handle

-----------------------------------------------------------------------------
(* The environment.                                                        *)
LEMMA EnvironmentOK ==
  ASSUME InTurn, OneStream', "cancel" \notin Env,
         \/ CtxCancel \/ ParentCancel \/ Break \/ UNCHANGED vars
         \/ \E k \in Session : UserClose(k) \/ TargetEnd(k)
  PROVE  InTurn'
<1>0. /\ TypeOK /\ client \in ConnState /\ "client" \in End /\ "server" \in End
      /\ client = conn["client"] /\ server = conn["server"]
      /\ client' = conn'["client"] /\ server' = conn'["server"]
      /\ WireIs(wire, dial.k) /\ NoMore(wire, wire)
  BY DEF InTurn, OneStream, TypeOK, client, server, End, OneAtATime, NoMore
<1>1. CASE CtxCancel
  BY <1>1 DEF CtxCancel
<1>2. CASE ParentCancel
  <2> DEFINE c == [client EXCEPT !.ctxDone = TRUE]
  <2>1. conn'["client"] = c /\ \A x \in End : x # "client" => conn'[x] = conn[x]
    BY <1>0, <1>2 DEF ParentCancel, Becomes, TypeOK
  <2>2. /\ c.status = client.status /\ c.onResult = client.onResult /\ c.ctxDone
        /\ c.open = client.open /\ c.streamConn = client.streamConn /\ c.cur = client.cur
    BY <1>0 DEF ConnState
  <2> HIDE DEF c
  <2> QED
    BY <1>0, <1>2, <2>1, <2>2, ShutOK DEF ParentCancel
<1>3. ASSUME NEW k \in Session, UserClose(k)
      PROVE  InTurn'
  <2> DEFINE c == [client EXCEPT !.open = @ \ {k}]
  <2>1. client' = c /\ server' = server /\ UNCHANGED <<wire, dial, serve>>
    BY <1>0, <1>3 DEF UserClose, Becomes, TypeOK
  <2>2. /\ c.open \subseteq client.open /\ c.ctxDone = client.ctxDone
        /\ c.wsOpen = client.wsOpen /\ c.streamConn = client.streamConn
        /\ c.cur = client.cur /\ c.status = client.status /\ c.onResult = client.onResult
    BY <1>0 DEF ConnState
  <2> HIDE DEF c
  <2>3. \A x : Pending(x)' <=> Pending(x)
    BY <2>1 DEF Pending
  <2>4. OneAtATime'
    BY <2>1, <2>2 DEF InTurn, OneAtATime
  <2>5. OpenPending' /\ ClosePending'
    BY <2>1, <2>2, <2>3 DEF InTurn, OpenPending, ClosePending
  <2>6. DialStatus'
    BY <1>0, <2>1, <2>2 DEF InTurn, DialStatus, End
  <2>7. Served'
    BY <2>1, <2>2 DEF InTurn, Served, ServedPipe, ServedTarget
  <2>8. StreamOfLastDial'
    BY <2>1, <2>2, <2>3 DEF InTurn, StreamOfLastDial
  <2> QED
    BY <2>4, <2>5, <2>6, <2>7, <2>8 DEF InTurn
<1>4. ASSUME UNCHANGED <<conn, wire, dial, serve>>
      PROVE  InTurn'
  <2>1. client' = client /\ server' = server
    BY <1>4 DEF client, server
  <2>2. \A x : Pending(x)' <=> Pending(x)
    BY <1>4, <2>1 DEF Pending
  <2>3. OneAtATime' /\ OpenPending' /\ ClosePending' /\ DialStatus' /\ StreamOfLastDial'
    BY <1>4, <2>1, <2>2
    DEF InTurn, OneAtATime, OpenPending, ClosePending, DialStatus, StreamOfLastDial
  <2>4. Served'
    BY <1>4, <2>1 DEF InTurn, Served, ServedPipe, ServedTarget
  <2> QED
    BY <2>3, <2>4 DEF InTurn
<1> QED
  BY <1>1, <1>2, <1>3, <1>4 DEF Break, TargetEnd, vars

-----------------------------------------------------------------------------
LEMMA InTurnInit == Init => InTurn
<1> SUFFICES ASSUME Init PROVE InTurn
  OBVIOUS
<1>1. OneStream
  BY OneStreamInit
<1>2. /\ client = conn["client"] /\ server = conn["server"] /\ "client" \in End /\ "server" \in End
      /\ \A e \in End : /\ conn[e].status = "Idle" /\ conn[e].open = {} /\ conn[e].wsOpen
                        /\ conn[e].cur = NoFrame /\ wire[e] = <<>>
      /\ dial.pc = "idle" /\ ~dial.cancelled
      /\ \A e \in End, k \in Session : serve[e][k].pc = "none"
  BY DEF Init, client, server, End
<1>3. WireIs(wire, dial.k) /\ \A t : ~On(wire, t)
  <2>1. wire \in [End -> Seq(Frame)] /\ \A e \in End : Len(wire[e]) = 0
    BY <1>1, <1>2 DEF OneStream, TypeOK
  <2> QED
    BY <2>1 DEF WireIs, Typed, AtMostOne, On
<1>4. \A t : ~Pending(t)
  BY <1>2, <1>3 DEF Pending, NoFrame
<1>5. OneAtATime /\ OpenPending /\ ClosePending
  BY <1>2, <1>3, <1>4 DEF OneAtATime, OpenPending, ClosePending, NoFrame
<1>6. DialStatus /\ StreamOfLastDial
  BY <1>2 DEF DialStatus, StreamOfLastDial
<1>7. Served
  BY <1>2 DEF Served, ServedPipe, ServedTarget, Active
<1> QED
  BY <1>1, <1>5, <1>6, <1>7 DEF InTurn

LEMMA InTurnStep ==
  ASSUME "cancel" \notin Env, "targetEOF" \notin Env
  PROVE  InTurn /\ [Next /\ ~CopyErr("client")]_vars => InTurn'
<1> SUFFICES ASSUME InTurn, [Next /\ ~CopyErr("client")]_vars PROVE InTurn'
  OBVIOUS
<1>1. OneStream'
  BY OneStreamStep DEF InTurn
<1>2. ASSUME NEW e \in End, Step(e), ~CopyErr("client")
      PROVE  InTurn'
  <2>1. CASE e = "client"
    BY <1>1, <1>2, <2>1, HandleClientOK, PingOK, CloseOK, ServePipeOK DEF Step
  <2>2. CASE e = "server"
    BY <1>1, <1>2, <2>2, HandleServerOK, PingOK, CloseOK, ServeTargetOK DEF Step
  <2> QED
    BY <2>1, <2>2 DEF End
<1>3. CASE ClientStep
  BY <1>1, <1>3, DialSendOK, DialOK, EnvironmentOK DEF ClientStep
<1>4. CASE UNCHANGED vars \/ Break \/ \E k \in Session : TargetEnd(k)
  BY <1>1, <1>4, EnvironmentOK
<1> QED
  BY <1>2, <1>3, <1>4 DEF Next

(* However often a Conn is used again, the pipe of the client and the      *)
(* connection of the server are of the same DialContext call whenever both *)
(* ends are streams: with any number of chunks in both directions, until a *)
(* chunk comes late, as long as no dial is cancelled and no target ends    *)
(* its stream first.  Dials may fail, targets may talk first or be reset   *)
(* and pipes closed at any moment; the TCP connection, either process or   *)
(* the Conn may go away.                                                   *)
THEOREM PipeMeetsItsTarget ==
  ASSUME "cancel" \notin Env, "targetEOF" \notin Env
  PROVE  TimelySpec => []PipeTarget
<1>1. InTurn => PipeTarget
  BY DEF InTurn, PipeTarget, DialStatus, StreamOfLastDial, client, server, End
<1> QED
  BY <1>1, InTurnInit, InTurnStep, PTL DEF TimelySpec

(* Under the same conditions an open stream of a Conn that is not done     *)
(* always has its serveStream goroutine, at both ends.                     *)
THEOREM OpenStreamIsServed ==
  ASSUME "cancel" \notin Env, "targetEOF" \notin Env
  PROVE  TimelySpec => []StreamServed
<1>1. InTurn => StreamServed
  <2> SUFFICES ASSUME InTurn, NEW e \in End, ~conn[e].ctxDone, NEW k \in conn[e].open
               PROVE  \/ serve[e][k].pc = "start"
                      \/ serve[e][k].conn = k /\ serve[e][k].pc \notin {"ended", "panic"}
    BY DEF StreamServed
  <2>1. k \in Session
    <3>1. conn[e] \in ConnState
      BY DEF InTurn, OneStream, TypeOK
    <3> QED
      BY <3>1 DEF ConnState
  <2>2. ServedPipe(k, serve["client"][k]) /\ ServedTarget(k, serve["server"][k])
    BY <2>1 DEF InTurn, Served
  <2> QED
    BY <2>2 DEF ServedPipe, ServedTarget, client, server, End
<1> QED
  BY <1>1, InTurnInit, InTurnStep, PTL DEF TimelySpec

=============================================================================
