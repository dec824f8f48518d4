----------------------------- MODULE PacketConn -----------------------------
(***************************************************************************)
(* The packet mode of wpn.Conn (src/conn.go): ListenPacketContext and the  *)
(* ConnPacketPipe it returns on the client, servePacket on the server, and *)
(* the goroutine that handleBinary starts for each packet to hand it over  *)
(* packetDataCh.                                                           *)
(*                                                                         *)
(* Listen k asks the server for socket k; its pipe and the channel made    *)
(* for it have the same number.  Steps and locks are as in module Conn,    *)
(* which has the end of a Conn in all detail; here an end of a Conn whose  *)
(* context is done is closed some time later (ConnCloses), and the other   *)
(* end follows.                                                            *)
(***************************************************************************)
EXTENDS SequencesExt

CONSTANTS
  MaxListen,  \* bound: ListenPacketContext calls made on this Conn
  MaxInput,   \* bound: packets received by the sockets, packets written by
              \* the user and events of the environment, together (see Input)
  ChanCap,    \* capacity of packetDataCh
  Network,    \* what Network() of an address returns
  Addrs       \* what String() of it returns, for the n-th packet

Byte == 0 .. 255

ASSUME PacketAssumption ==
  /\ MaxListen \in Nat \ {0} /\ MaxInput \in Nat
  /\ ChanCap \in Nat \ {0}
  /\ Network \in Seq(Byte) /\ Addrs \in Seq(Seq(Byte))
  /\ MaxInput <= Len(Addrs)

VARIABLES
  conn,    \* the Conn of each end, with the state of the goroutines of Handle
  wire,    \* wire[e]: the frames on their way to end e
  listen,  \* the ListenPacketContext call in progress, or the last one
  pipe,    \* pipe[k]: the ConnPacketPipe of listen k
  buf,     \* buf[k]: the packets in channel k
  hand,    \* hand[e]: the goroutines that hand a packet over
  serve,   \* serve[k]: the servePacket goroutine of socket k
  read,    \* the ReadFrom call of the pipe's user
  write,   \* its WriteTo call, and how many there were
  got,     \* the packets that ReadFrom has returned
  inputs   \* how many inputs there were

vars == <<conn, wire, listen, pipe, buf, hand, serve, read, write, got, inputs>>
userVars == <<read, write, got>>

-----------------------------------------------------------------------------
End == {"client", "server"}
Peer(e) == IF e = "client" THEN "server" ELSE "client"
None == 0
Listen == 1 .. MaxListen
Status == {"Idle", "Packet", "InOper", "Closed"}

(* The data of the n-th packet of socket or pipe k: n bytes that name it.  *)
Data(k, n) == [i \in 1 .. n |-> k * (MaxInput + 1) + n]

Packet == [network : Seq(Byte), addr : Seq(Byte), data : Seq(Nat)]
Sent(k, n) == [network |-> Network, addr |-> Addrs[n], data |-> Data(k, n)]

(* Mutant: the length is written as a signed byte would be.                *)
SevenBits(n) == n % 128

LengthByte(n) == n % 256

(* sendPacketData: two strings, each behind its length, then the data.     *)
Format(p) ==
  <<LengthByte(Len(p.network))>> \o p.network \o
  <<LengthByte(Len(p.addr))>> \o p.addr \o p.data

(* handleBinary reads a frame back; it is never too short for the lengths  *)
(* in it.  What is read of the data comes from at most one Read of the     *)
(* message: a prefix of it, not empty unless there is no data.             *)
Parsed(f) ==
  LET l == f[1]
      m == f[l + 2]
      data == SubSeq(f, l + m + 3, Len(f)) IN
  {[network |-> SubSeq(f, 2, l + 1), addr |-> SubSeq(f, l + 3, l + m + 2),
    data |-> SubSeq(data, 1, i)] : i \in IF data = <<>> THEN {0} ELSE 1 .. Len(data)}

Frame ==
  [t : {"open"}, k : Listen, f : {<<>>}] \cup [t : {"data"}, k : {None}, f : Seq(Nat)]
    \cup [t : {"replyTrue", "replyFalse", "error"}, k : {None}, f : {<<>>}]
Cmd(t) == [t |-> t, k |-> None, f |-> <<>>]
OpenCmd(k) == [Cmd("open") EXCEPT !.k = k]
DataFrame(p) == [Cmd("data") EXCEPT !.f = Format(p)]

(* The fields of Conn, and as in module Conn: open, the sockets not yet    *)
(* closed; closedCh, the channels that are; opening, the socket that the   *)
(* handler of P asks the PacketListener for, with Conn.lock held.          *)
ConnState ==
  [status : Status, packetConn : Listen \cup {None}, packetDataCh : Listen \cup {None},
   onResult : Listen \cup {None}, onCmdErr : Listen \cup {None},
   open : SUBSET Listen, closedCh : SUBSET Listen, opening : Listen \cup {None},
   ctxDone : BOOLEAN, handle : {"run", "returned"}, crashed : BOOLEAN]

(* stale: an earlier call was cancelled before its answer came.            *)
ListenState ==
  [pc : {"idle", "sent", "select", "accepted", "stuck"}, k : Listen \cup {None},
   res : {"none", "ok", "fail"}, cancelled : BOOLEAN, stale : BOOLEAN]

Handover == [at : {"start", "select"}, ch : Listen \cup {None}, p : Packet]

ServePC == {"none", "start", "check", "read", "write", "fail", "sendErr", "return",
            "ended"}
Serving == [pc : ServePC, conn : Listen \cup {None}, n : 0 .. MaxInput]

NoRead == [pc |-> "idle", k |-> None, ch |-> None]

Init ==
  /\ conn = [e \in End |->
       [status |-> "Idle", packetConn |-> None, packetDataCh |-> None,
        onResult |-> None, onCmdErr |-> None, open |-> {}, closedCh |-> {},
        opening |-> None, ctxDone |-> FALSE, handle |-> "run", crashed |-> FALSE]]
  /\ wire = [e \in End |-> <<>>]
  /\ listen = [pc |-> "idle", k |-> None, res |-> "none", cancelled |-> FALSE,
               stale |-> FALSE]
  /\ pipe = [k \in Listen |-> "none"]
  /\ buf = [k \in Listen |-> <<>>]
  /\ hand = [e \in End |-> {}]
  /\ serve = [k \in Listen |-> [pc |-> "none", conn |-> None, n |-> 0]]
  /\ read = NoRead
  /\ write = [pc |-> "idle", k |-> None, n |-> 0]
  /\ got = <<>>
  /\ inputs = 0

client == conn["client"]
server == conn["server"]
Alive(e) == ~conn[e].crashed
Becomes(e, c) == conn' = [conn EXCEPT ![e] = c]

LockFree(e) ==
  /\ conn[e].opening = None
  /\ e = "client" => listen.pc \notin {"sent", "stuck"}

-----------------------------------------------------------------------------
(* Sending and closing.  w is the wire as the step has left it so far.     *)

Received(e) == [wire EXCEPT ![e] = Tail(@)]

(* Mutant: the channel is closed with the Conn.                            *)
CloseAndChannel(c) ==
  [c EXCEPT !.open = @ \ {c.packetConn}, !.packetConn = None,
            !.closedCh = @ \cup ({c.packetDataCh} \ {None}), !.packetDataCh = None]

CloseSocket(c) == [c EXCEPT !.open = @ \ {c.packetConn}, !.packetConn = None]

closeWithErr(c) ==
  IF c.status = "Closed" THEN c
  ELSE [CloseSocket(c) EXCEPT !.status = "Closed", !.ctxDone = TRUE]

(* A write fails when the context is done; when the peer is gone it fails, *)
(* or the frame is lost.                                                   *)
Gone(e) == conn[e].ctxDone \/ conn[e].crashed
Reads(e) == conn[e].handle = "run" /\ ~conn[e].crashed
Sends(e, c, w, f) ==
  /\ ~conn[e].ctxDone
  /\ Becomes(e, c)
  /\ wire' = IF Reads(Peer(e)) THEN [w EXCEPT ![Peer(e)] = Append(@, f)] ELSE w
SendFails(e, c, w) ==
  (conn[e].ctxDone \/ Gone(Peer(e))) /\ Becomes(e, closeWithErr(c)) /\ wire' = w

ListenOver == [listen EXCEPT !.pc = "idle", !.res = "none", !.cancelled = FALSE]

(* A panic of any goroutine ends the client's process; the server closes   *)
(* no channel, so none of its own can panic here.                          *)
Panics ==
  /\ Becomes("client", [client EXCEPT !.crashed = TRUE])
  /\ wire' = [wire EXCEPT !["client"] = <<>>]
  /\ hand' = [hand EXCEPT !["client"] = {}]
  /\ listen' = ListenOver
  /\ read' = NoRead /\ write' = [write EXCEPT !.pc = "idle"]
  /\ buf' = [k \in Listen |-> <<>>]
  /\ UNCHANGED <<pipe, serve, got>>

-----------------------------------------------------------------------------
(* ListenPacketContext.                                                    *)

ListenSend ==
  LET k == listen.k + 1
      c == [client EXCEPT !.onResult = k]
      Call(pc) == [listen EXCEPT !.pc = pc, !.k = k] IN
  /\ listen.pc = "idle" /\ k \in Listen
  /\ LockFree("client")
  /\ client.status = "Idle"
  /\ \/ Sends("client", c, wire, OpenCmd(k)) /\ listen' = Call("sent")
     \/ SendFails("client", c, wire) /\ listen' = Call("idle")
  /\ UNCHANGED <<pipe, buf, hand, serve, userVars>>

ListenInOper ==
  /\ listen.pc = "sent"
  /\ Becomes("client", [client EXCEPT !.status = "InOper", !.packetDataCh = listen.k])
  /\ listen' = [listen EXCEPT !.pc = "select"]
  /\ UNCHANGED <<wire, pipe, buf, hand, serve, userVars>>

(* case res := <-resCh.  The channel of a call that failed is left behind. *)
ListenResult ==
  /\ listen.pc = "select"
  /\ \/ /\ listen.res = "ok"
        /\ listen' = [listen EXCEPT !.pc = "accepted"]
        /\ UNCHANGED conn
     \/ /\ listen.res = "fail"
        /\ listen' = ListenOver
        /\ Becomes("client", [client EXCEPT !.status = "Idle"])
  /\ UNCHANGED <<wire, pipe, buf, hand, serve, userVars>>

(* Mutant: the channel is given up, and not closed.                        *)
ForgetChannel(c) == [c EXCEPT !.packetDataCh = None]

CloseChannel(c) ==
  [c EXCEPT !.closedCh = @ \cup {c.packetDataCh}, !.packetDataCh = None]

(* case <-ctx.Done().  If the answer was already taken from the wire,      *)
(* closeAndWaitForIdle locks Conn.lock, which this goroutine holds.        *)
ListenCancel ==
  LET c == [client EXCEPT !.status = "Idle"] IN
  /\ listen.pc = "select"
  /\ listen.cancelled
  /\ LockFree("client")
  /\ IF c.onResult = None
     THEN listen' = [listen EXCEPT !.pc = "stuck"] /\ Becomes("client", c)
     ELSE /\ listen' = [ListenOver EXCEPT !.stale = TRUE]
          /\ Becomes("client", [CloseChannel(c) EXCEPT !.onResult = None])
  /\ UNCHANGED <<wire, pipe, buf, hand, serve, userVars>>

(* Mutant: ListenPacketContext does not watch the context of the Conn.     *)
ListenIgnoresConn == FALSE

(* case <-c.ctx.Done()                                                     *)
ListenConnDone ==
  /\ listen.pc = "select"
  /\ client.ctxDone
  /\ listen' = ListenOver
  /\ UNCHANGED <<conn, wire, pipe, buf, hand, serve, userVars>>

ListenAccept ==
  /\ listen.pc = "accepted"
  /\ LockFree("client")
  /\ Becomes("client", [client EXCEPT !.onCmdErr = listen.k, !.status = "Packet"])
  /\ pipe' = [pipe EXCEPT ![listen.k] = "open"]
  /\ listen' = ListenOver
  /\ UNCHANGED <<wire, buf, hand, serve, userVars>>

ListenPacket ==
  ListenInOper \/ ListenResult \/ ListenCancel \/ ListenConnDone \/ ListenAccept

-----------------------------------------------------------------------------
(* servePacket, the goroutine started for socket k.                        *)

ServeGoto(k, pc) == serve' = [serve EXCEPT ![k].pc = pc]

ServeStart(k) ==
  /\ serve[k].pc = "start"
  /\ serve' = [serve EXCEPT ![k].pc = "check", ![k].conn = server.packetConn]
  /\ UNCHANGED <<conn, wire, listen, pipe, buf, hand, userVars>>

ServeCheck(k) ==
  /\ serve[k].pc = "check"
  /\ ServeGoto(k, IF server.status = "Packet" THEN "read" ELSE "ended")
  /\ UNCHANGED <<conn, wire, listen, pipe, buf, hand, userVars>>

(* conn.ReadFrom returns a packet.                                         *)
ServeReadFrom(k) ==
  /\ serve[k].pc = "read"
  /\ serve[k].conn \in server.open
  /\ serve' = [serve EXCEPT ![k].pc = "write", ![k].n = @ + 1]
  /\ UNCHANGED <<conn, wire, listen, pipe, buf, hand, userVars>>

ServeReadErr(k) ==
  /\ serve[k].pc = "read"
  /\ serve[k].conn \notin server.open
  /\ ServeGoto(k, "fail")
  /\ UNCHANGED <<conn, wire, listen, pipe, buf, hand, userVars>>

(* sendPacketData                                                          *)
ServeWrite(k) ==
  /\ serve[k].pc = "write"
  /\ \/ /\ Sends("server", server, wire, DataFrame(Sent(serve[k].conn, serve[k].n)))
        /\ ServeGoto(k, "read")
     \/ SendFails("server", server, wire) /\ ServeGoto(k, "return")
  /\ UNCHANGED <<listen, pipe, buf, hand, userVars>>

(* ok := c.status == StatusPacket, under the lock.                         *)
ServeStatus(k) ==
  /\ serve[k].pc = "fail"
  /\ LockFree("server")
  /\ ServeGoto(k, IF server.status = "Packet" THEN "sendErr" ELSE "return")
  /\ UNCHANGED <<conn, wire, listen, pipe, buf, hand, userVars>>

ServeSendErr(k) ==
  /\ serve[k].pc = "sendErr"
  /\ Sends("server", server, wire, Cmd("error")) \/ SendFails("server", server, wire)
  /\ ServeGoto(k, "return")
  /\ UNCHANGED <<listen, pipe, buf, hand, userVars>>

(* The deferred conn.Close().                                              *)
ServeReturn(k) ==
  /\ serve[k].pc = "return"
  /\ Becomes("server", [server EXCEPT !.open = @ \ {serve[k].conn}])
  /\ ServeGoto(k, "ended")
  /\ UNCHANGED <<wire, listen, pipe, buf, hand, userVars>>

servePacket(k) ==
  \/ ServeStart(k) \/ ServeCheck(k) \/ ServeReadErr(k) \/ ServeWrite(k)
  \/ ServeStatus(k) \/ ServeSendErr(k) \/ ServeReturn(k)

-----------------------------------------------------------------------------
(* Handle.  The handler of X is left out: in this mode nobody sends it.    *)

Reading(e) == conn[e].handle = "run" /\ conn[e].opening = None
AtHead(e, t) == Reading(e) /\ wire[e] # <<>> /\ Head(wire[e]).t = t
Incoming(e, t) == AtHead(e, t) /\ LockFree(e)

Answered(e, c, t) == Sends(e, [c EXCEPT !.opening = None], wire, Cmd(t))
AnswerFails(e, c) ==
  SendFails(e, [c EXCEPT !.opening = None, !.handle = "returned"], wire)

(* Mutant: a Conn that serves a socket is asked for another one.           *)
OpenAnyStatus(e) == TRUE

MayOpen(e) == conn[e].status = "Idle"

(* P: refused with a close of the Conn unless Idle.                        *)
HandleOpen(e) ==
  /\ Incoming(e, "open")
  /\ IF MayOpen(e)
     THEN /\ Becomes(e, [conn[e] EXCEPT !.opening = Head(wire[e]).k])
          /\ wire' = Received(e)
     ELSE Becomes(e, closeWithErr(conn[e])) /\ wire' = Received(e)
  /\ UNCHANGED <<listen, pipe, buf, hand, serve, userVars>>

ListenerOk(e) ==
  LET k == conn[e].opening
      c == [conn[e] EXCEPT !.status = "Packet", !.packetConn = k, !.open = @ \cup {k}] IN
  /\ k # None
  /\ \/ Answered(e, c, "replyTrue") /\ ServeGoto(k, "start")
     \/ AnswerFails(e, c) /\ UNCHANGED serve
  /\ UNCHANGED <<listen, pipe, buf, hand, userVars>>

ListenerErr(e) ==
  /\ conn[e].opening # None
  /\ Answered(e, conn[e], "replyFalse") \/ AnswerFails(e, conn[e])
  /\ UNCHANGED <<listen, pipe, buf, hand, serve, userVars>>

HandleReply(e) ==
  /\ \E t \in {"replyTrue", "replyFalse"} :
       /\ Incoming(e, t)
       /\ listen' = IF conn[e].onResult = listen.k
                    THEN [listen EXCEPT !.res = IF t = "replyTrue" THEN "ok" ELSE "fail"]
                    ELSE listen
  /\ Becomes(e, [conn[e] EXCEPT !.onResult = None])
  /\ wire' = Received(e)
  /\ UNCHANGED <<pipe, buf, hand, serve, userVars>>

(* Mutant: the Conn is made Idle, as after the E of a stream.              *)
CmdErrIdle(c) == [CloseChannel(c) EXCEPT !.onCmdErr = None, !.status = "Idle"]

CmdErr(c) == [CloseChannel(c) EXCEPT !.onCmdErr = None]

(* E: onCmdErr clears itself, closes the pipe and the channel.             *)
HandleError(e) ==
  LET k == conn[e].onCmdErr IN
  /\ Incoming(e, "error")
  /\ IF conn[e].status # "Idle" /\ k # None
     THEN /\ Becomes(e, CmdErr(conn[e]))
          /\ pipe' = [pipe EXCEPT ![k] = "failed"]
     ELSE UNCHANGED <<conn, pipe>>
  /\ wire' = Received(e)
  /\ UNCHANGED <<listen, buf, hand, serve, userVars>>

(* A packet: dropped unless the status is StatusPacket; else a goroutine   *)
(* is started for it, at either end.                                       *)
HandleData(e) ==
  /\ Incoming(e, "data")
  /\ \E p \in Parsed(Head(wire[e]).f) :
       hand' = IF conn[e].status = "Packet"
               THEN [hand EXCEPT ![e] = @ \cup {[at |-> "start", ch |-> None, p |-> p]}]
               ELSE hand
  /\ wire' = Received(e)
  /\ UNCHANGED <<conn, listen, pipe, buf, serve, userVars>>

Handle(e) ==
  \/ HandleOpen(e) \/ ListenerOk(e) \/ (conn[e].ctxDone /\ ListenerErr(e))
  \/ HandleReply(e) \/ HandleError(e) \/ HandleData(e)

-----------------------------------------------------------------------------
(* The end of a Conn, as module Conn has it: its context is done because   *)
(* the Client shuts down or the peer is gone ...                           *)
ConnDone(e) ==
  /\ ~conn[e].ctxDone
  /\ Becomes(e, [conn[e] EXCEPT !.ctxDone = TRUE])
  /\ UNCHANGED <<wire, listen, pipe, buf, hand, serve, userVars>>

(* ... and then Handle returns and the Conn is closed, by a goroutine that *)
(* closes the socket or, if it is the one that pings, leaves it open.      *)
ConnCloses(e) ==
  /\ Reading(e)
  /\ conn[e].ctxDone
  /\ \E c \in {closeWithErr(conn[e]), [conn[e] EXCEPT !.status = "Closed"]} :
       Becomes(e, [c EXCEPT !.handle = "returned"])
  /\ wire' = [wire EXCEPT ![e] = <<>>]
  /\ UNCHANGED <<listen, pipe, buf, hand, serve, userVars>>

-----------------------------------------------------------------------------
(* The goroutine of handleBinary: it looks at packetDataCh when it comes   *)
(* to its select, and may find the channel of then, none, or one that is   *)
(* closed later, on which a send panics.                                   *)

HandStart(e, h) ==
  /\ h.at = "start"
  /\ hand' = [hand EXCEPT ![e] = (@ \ {h}) \cup
                {[h EXCEPT !.at = "select", !.ch = conn[e].packetDataCh]}]
  /\ UNCHANGED <<conn, wire, listen, pipe, buf, serve, userVars>>

HandSend(e, h) ==
  /\ h.at = "select"
  /\ h.ch # None
  /\ IF h.ch \in conn[e].closedCh
     THEN Panics
     ELSE /\ Len(buf[h.ch]) < ChanCap
          /\ buf' = [buf EXCEPT ![h.ch] = Append(@, h.p)]
          /\ hand' = [hand EXCEPT ![e] = @ \ {h}]
          /\ UNCHANGED <<conn, wire, listen, pipe, serve, userVars>>

(* Mutant: the goroutine waits for the channel only.                       *)
HandForEver(e, h) == FALSE

HandDone(e, h) ==
  /\ h.at = "select"
  /\ conn[e].ctxDone
  /\ hand' = [hand EXCEPT ![e] = @ \ {h}]
  /\ UNCHANGED <<conn, wire, listen, pipe, buf, serve, userVars>>

HandOver(e) ==
  \E h \in hand[e] : HandStart(e, h) \/ HandSend(e, h) \/ HandDone(e, h)

-----------------------------------------------------------------------------
(* ConnPacketPipe.  Its user reads and writes in goroutines of their own   *)
(* and uses the pipe until it closes it; Close sets p.conn to nil, and so  *)
(* does onCmdErr, and both methods look at p.conn twice.                   *)

ReadFrom(k) ==
  /\ read.pc = "idle"
  /\ pipe[k] \in {"open", "failed"}
  /\ IF pipe[k] = "open"
     THEN /\ read' = [pc |-> "called", k |-> k, ch |-> None]
          /\ UNCHANGED <<conn, wire, listen, pipe, buf, hand, serve, write, got>>
     ELSE Panics

ReadSelect ==
  /\ read.pc = "called"
  /\ IF pipe[read.k] = "open"
     THEN /\ read' = [read EXCEPT !.pc = "select", !.ch = client.packetDataCh]
          /\ UNCHANGED <<conn, wire, listen, pipe, buf, hand, serve, write, got>>
     ELSE Panics

(* The context, or the deadline, is done.                                  *)
ReadDone ==
  /\ read.pc = "select"
  /\ read' = NoRead
  /\ UNCHANGED <<conn, wire, listen, pipe, buf, hand, serve, write, got>>

(* A packet, or nil once the channel is closed and empty.                  *)
ReadPacket ==
  /\ read.pc = "select"
  /\ read.ch # None
  /\ \/ /\ buf[read.ch] # <<>>
        /\ got' = Append(got, [k |-> read.k, p |-> Head(buf[read.ch])])
        /\ buf' = [buf EXCEPT ![read.ch] = Tail(@)]
     \/ /\ buf[read.ch] = <<>>
        /\ read.ch \in client.closedCh
        /\ UNCHANGED <<buf, got>>
  /\ read' = NoRead
  /\ UNCHANGED <<conn, wire, listen, pipe, hand, serve, write>>

WriteTo(k) ==
  /\ write.pc = "idle"
  /\ pipe[k] \in {"open", "failed"}
  /\ IF pipe[k] = "open"
     THEN /\ write' = [pc |-> "called", k |-> k, n |-> write.n + 1]
          /\ UNCHANGED <<conn, wire, listen, pipe, buf, hand, serve, read, got>>
     ELSE Panics

WriteSend ==
  /\ write.pc = "called"
  /\ IF pipe[write.k] = "open"
     THEN /\ \/ Sends("client", client, wire, DataFrame(Sent(write.k, write.n)))
             \/ SendFails("client", client, wire)
          /\ write' = [write EXCEPT !.pc = "idle"]
          /\ UNCHANGED <<listen, pipe, buf, hand, serve, read, got>>
     ELSE Panics

(* A write whose deadline passes ends the whole Conn.                      *)
WriteLate ==
  /\ write.pc = "called"
  /\ pipe[write.k] = "open"
  /\ Becomes("client", closeWithErr(client))
  /\ write' = [write EXCEPT !.pc = "idle"]
  /\ UNCHANGED <<wire, listen, pipe, buf, hand, serve, read, got>>

PipeClose(k) ==
  /\ pipe[k] \in {"open", "failed"}
  /\ pipe' = [pipe EXCEPT ![k] = "closed"]
  /\ UNCHANGED <<conn, wire, listen, buf, hand, serve, userVars>>

-----------------------------------------------------------------------------
(* The environment.                                                        *)

CtxCancel ==
  /\ listen.pc = "select"
  /\ ~listen.cancelled
  /\ listen' = [listen EXCEPT !.cancelled = TRUE]
  /\ UNCHANGED <<conn, wire, pipe, buf, hand, serve, userVars>>

SocketErr(k) ==
  /\ serve[k].pc = "read"
  /\ ServeGoto(k, "fail")
  /\ UNCHANGED <<conn, wire, listen, pipe, buf, hand, userVars>>

(* The user closes its pipe, a ctx is cancelled, a deadline passes, the    *)
(* PacketListener or a socket of the server fails, the Client shuts down.  *)
Event ==
  \/ /\ Alive("client")
     /\ \/ CtxCancel \/ ReadDone \/ WriteLate \/ ConnDone("client")
        \/ \E k \in Listen : PipeClose(k)
  \/ ListenerErr("server")
  \/ \E k \in Listen : SocketErr(k)

-----------------------------------------------------------------------------
ReadEnd == ReadSelect \/ (client.ctxDone /\ ReadDone) \/ ReadPacket
PeerDone(e) == Gone(Peer(e)) /\ ConnDone(e)

Step ==
  \/ \E e \in End :
       Alive(e) /\ (Handle(e) \/ HandOver(e) \/ PeerDone(e) \/ ConnCloses(e))
  \/ /\ Alive("client")
     /\ \/ ListenSend \/ ListenPacket \/ ReadEnd \/ WriteSend
        \/ \E k \in Listen : ReadFrom(k)
  \/ \E k \in Listen : servePacket(k)

(* A socket receives a packet, the user writes one, or there is an event.  *)
Input ==
  \/ \E k \in Listen : ServeReadFrom(k) \/ (Alive("client") /\ WriteTo(k))
  \/ Event

Next ==
  \/ Step /\ UNCHANGED inputs
  \/ Input /\ inputs < MaxInput /\ inputs' = inputs + 1

Spec == Init /\ [][Next]_vars

(* As in module Conn; a ReadFrom or WriteTo that was called goes on, and   *)
(* nobody has to call one.                                                 *)
Fairness ==
  /\ \A e \in End :
       /\ WF_vars(Alive(e) /\ Handle(e) /\ UNCHANGED inputs)
       /\ WF_vars(Alive(e) /\ ConnCloses(e) /\ UNCHANGED inputs)
       /\ WF_vars(Alive(e) /\ PeerDone(e) /\ UNCHANGED inputs)
       /\ WF_vars(Alive(e) /\ HandOver(e) /\ UNCHANGED inputs)
  /\ WF_vars(Alive("client") /\ ListenPacket /\ UNCHANGED inputs)
  /\ WF_vars(Alive("client") /\ ReadEnd /\ UNCHANGED inputs)
  /\ WF_vars(Alive("client") /\ WriteSend /\ UNCHANGED inputs)
  /\ \A k \in Listen : WF_vars(servePacket(k) /\ UNCHANGED inputs)

FairSpec == Spec /\ Fairness

-----------------------------------------------------------------------------
(* Type correctness; servePacket past its test has a socket.               *)
TypeOK ==
  /\ conn \in [End -> ConnState]
  /\ wire \in [End -> Seq(Frame)]
  /\ listen \in ListenState
  /\ pipe \in [Listen -> {"none", "open", "failed", "closed"}]
  /\ buf \in [Listen -> Seq(Packet)]
  /\ \A k \in Listen : Len(buf[k]) <= ChanCap
  /\ hand \in [End -> SUBSET Handover]
  /\ serve \in [Listen -> Serving]
  /\ \A k \in Listen : serve[k].pc \notin {"none", "start", "check", "ended"}
                         => serve[k].conn # None
  /\ read \in [pc : {"idle", "called", "select"}, k : Listen \cup {None},
               ch : Listen \cup {None}]
  /\ write \in [pc : {"idle", "called"}, k : Listen \cup {None}, n : 0 .. MaxInput]
  /\ got \in Seq([k : Listen, p : Packet])
  /\ inputs \in 0 .. MaxInput

-----------------------------------------------------------------------------
(* What ReadFrom returns comes from the socket that was opened for its     *)
(* pipe, with the address it came with, each packet once, though each is   *)
(* handed over by a goroutine of its own; and so does what arrives at the  *)
(* server.  Data may be cut, and is never that of another packet.          *)
IsPacket(p, k, n) ==
  /\ p.network = Network /\ p.addr = Addrs[n]
  /\ p.data # <<>> /\ IsPrefix(p.data, Data(k, n))

PacketFaithful ==
  /\ \A g \in ToSet(got) : \E k \in Listen : \E n \in 1 .. serve[k].n :
       IsPacket(g.p, k, n) /\ (k = g.k \/ listen.stale)
  /\ \A i, j \in DOMAIN got : got[i].p.data[1] = got[j].p.data[1] => i = j
  /\ \A h \in hand["server"] : \E k \in Listen, n \in 1 .. write.n : IsPacket(h.p, k, n)

(* A Conn gives out one packet pipe in its life: from then on its status   *)
(* is never Idle again, and the server serves the socket of that pipe.     *)
OnePipe ==
  \A k \in Listen : pipe[k] # "none" =>
    /\ client.status \in {"Packet", "Closed"}
    /\ \A j \in Listen \ {k} : pipe[j] = "none"
    /\ server.packetConn \in {k, None} \/ listen.stale

(* The answer to a cancelled call may be taken for that of the next: its   *)
(* pipe then gets the packets of another socket, until the server, which   *)
(* is asked for a socket while it serves one, closes the Conn.             *)
StalePipeEnds ==
  (\E k \in Listen : pipe[k] = "open" /\ server.packetConn \notin {k, None})
    ~> Gone("server")

(* The client's process panics only over a pipe that is closed: by its     *)
(* user during a call, or by an E of the server, which also closes the     *)
(* channel under the goroutines that hand packets over.                    *)
PanicNeedsClosedPipe ==
  client.crashed => \E k \in Listen : pipe[k] \in {"closed", "failed"}

(* ListenPacketContext returns, unless its ctx is done just after its      *)
(* answer has come (the same deadlock as in DialContext).                  *)
ListenReturns ==
  listen.pc # "idle" ~> listen.pc \in {"idle", "stuck"}

(* A ReadFrom that waits ends when either end of the Conn is gone, and     *)
(* when the server has reported an error.                                  *)
ReadEnds ==
  (read.pc = "select" /\ (Gone("server") \/ client.ctxDone \/ pipe[read.k] = "failed"))
    ~> read.pc # "select"

(* The goroutines that hand packets over, at the server too, where nothing *)
(* ever takes one from them, end with the connection.                      *)
HandoversEnd ==
  (\E e \in End : Gone(e)) ~> \A e \in End : hand[e] = {}

=============================================================================
