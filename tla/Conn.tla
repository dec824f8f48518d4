-------------------------------- MODULE Conn --------------------------------
(***************************************************************************)
(* The stream mode of wpn.Conn (src/conn.go): the client's Conn and the    *)
(* server's Conn at the two ends of one websocket.                         *)
(*                                                                         *)
(* Each end runs the Handle loop, the ping goroutine that Handle starts    *)
(* and one serveStream goroutine per stream it ever served.  The client    *)
(* also runs DialContext; dial k asks for target k, its pipe is stream k   *)
(* of the client and the connection the server opens for it is stream k of *)
(* the server.  A critical section of Conn.lock that does not block is one *)
(* step; the lock is held across steps exactly where the code blocks with  *)
(* it (LockFree).  Fields written without the lock in the code (closing,   *)
(* the ping goroutine, parts of DialContext) are written without it here.  *)
(***************************************************************************)
EXTENDS Naturals, Sequences

CONSTANTS
  MaxDial,   \* bound: DialContext calls made on this Conn
  MaxData,   \* bound: reads that return data, per stream and end
  Env        \* the events of the environment that may happen

EnvEvents ==
  { "userClose",    \* the caller closes the pipe DialContext gave it
    "cancel",       \* the ctx given to DialContext is cancelled
    "dialFail",     \* the server's Dialer returns an error
    "targetEOF",    \* a target ends its byte stream
    "targetReset",  \* a target resets its connection
    "banner",       \* a target may talk before it was talked to
    "break",        \* the TCP connection under the websocket is lost
    "shutdown" }    \* the Client shuts down: it cancels the parent context of
                    \* its Conns, then it closes them

ASSUME BoundsAssumption == MaxDial \in Nat \ {0} /\ MaxData \in Nat
ASSUME EnvAssumption == Env \subseteq EnvEvents

VARIABLES
  conn,   \* the Conn of each end, with the state of the goroutines of Handle
  link,   \* the TCP connection is up
  wire,   \* wire[e]: the frames on their way to end e
  dial,   \* the DialContext call in progress, or the last one
  serve,  \* the serveStream goroutines: serve[e][k] was started for stream k
  ended,  \* what the target of stream k did to its connection
  sent,   \* how many chunks stream k of this end has produced
  got     \* the chunks written into stream k of this end

dataVars == <<ended, sent, got>>
vars == <<conn, link, wire, dial, serve, dataVars>>

-----------------------------------------------------------------------------
End == {"client", "server"}
Peer(e) == IF e = "client" THEN "server" ELSE "client"

None == 0
Session == 1 .. MaxDial
Stream == Session \cup {None}
Status == {"Idle", "Stream", "InOper", "Closed"}

(* The frames: the commands X, S, R, RT, RF and E, a binary chunk, and the *)
(* close frame of the websocket with a normal or an error code.            *)
Command ==
  {"close", "reply", "replyTrue", "replyFalse", "error", "normalClosure",
   "internalError"}
Frame ==
  [t : Command, k : {None}, n : {0}] \cup [t : {"open"}, k : Session, n : {0}]
    \cup [t : {"data"}, k : Session, n : 0 .. MaxData]
NoFrame == [t |-> "none", k |-> None, n |-> 0]
Cmd(t) == [t |-> t, k |-> None, n |-> 0]
OpenCmd(k) == [t |-> "open", k |-> k, n |-> 0]
Chunk(k, n) == [t |-> "data", k |-> k, n |-> n]

NoCallback == [kind |-> "none", k |-> None]
Callback == [kind : {"dial", "close"}, k : Session] \cup {NoCallback}

(* The fields of Conn, and: open, the streams (pipes, target connections)  *)
(* of this end that are not closed; wsOpen, this end has not closed its    *)
(* websocket; ctxDone, Conn.ctx is done; handle and ping, the goroutines   *)
(* of Handle; cur, the frame whose handler blocks with Conn.lock held.     *)
ConnState ==
  [status : Status, streamConn : Stream, onResult : Callback, onCmdErr : Stream,
   open : SUBSET Session, wsOpen : BOOLEAN, ctxDone : BOOLEAN,
   handle : {"run", "returned", "panic"}, ping : {"run", "ended"},
   cur : Frame \cup {NoFrame}]

Dialing ==
  {d \in [pc : {"idle", "sent", "select", "accepted", "stuck"}, k : Stream,
          res : {"none", "ok", "fail"}, cancelled : BOOLEAN] :
     d.pc # "idle" => d.k # None}

ServePC == {"none", "start", "check", "read", "write", "eof", "fail",
            "setResult", "sendClose", "wait", "sendErr", "return", "ended",
            "panic"}
Serving ==
  {s \in [pc : ServePC, conn : Stream, n : 0 .. MaxData, done : BOOLEAN] :
     s.pc \notin {"none", "start", "check", "ended", "panic"} => s.conn # None}

(* Conn.lock is free: neither a handler nor DialContext blocks with it.    *)
LockFree(e) ==
  /\ conn[e].cur = NoFrame
  /\ e = "client" => dial.pc \notin {"sent", "stuck"}

(* A write on the websocket (external: nhooyr.io/websocket) fails once the *)
(* websocket is closed at this end or its context is done.  When the TCP   *)
(* connection is lost it fails, or it seems to succeed and the frame is    *)
(* lost.                                                                   *)
MaySucceed(e) == conn[e].wsOpen /\ ~conn[e].ctxDone
MayFail(e) == ~(link /\ MaySucceed(e))
Put(w, e, f) == IF link THEN [w EXCEPT ![Peer(e)] = Append(@, f)] ELSE w
Received(e) == [wire EXCEPT ![e] = Tail(@)]

(* A panic that nothing recovers has ended the process of this end.        *)
Crashed(e) ==
  \/ conn[e].handle = "panic"
  \/ \E k \in Session : serve[e][k].pc = "panic"

Init ==
  /\ conn = [e \in End |->
       [status |-> "Idle", streamConn |-> None, onResult |-> NoCallback,
        onCmdErr |-> None, open |-> {}, wsOpen |-> TRUE, ctxDone |-> FALSE,
        handle |-> "run", ping |-> "run", cur |-> NoFrame]]
  /\ link = TRUE
  /\ wire = [e \in End |-> <<>>]
  /\ dial = [pc |-> "idle", k |-> None, res |-> "none", cancelled |-> FALSE]
  /\ serve = [e \in End |-> [k \in Session |->
       [pc |-> "none", conn |-> None, n |-> 0, done |-> FALSE]]]
  /\ ended = [k \in Session |-> "no"]
  /\ sent = [e \in End |-> [k \in Session |-> 0]]
  /\ got = [e \in End |-> [k \in Session |-> <<>>]]

-----------------------------------------------------------------------------
(* Closing a Conn.  c is the Conn of end e and w the wire as the step has  *)
(* left them so far.                                                       *)

Becomes(e, c) == conn' = [conn EXCEPT ![e] = c]

(* Mutant: the stream is forgotten without being closed.                   *)
ForgetStream(c) == [c EXCEPT !.streamConn = None]

CloseStream(c) ==
  [c EXCEPT !.open = @ \ {c.streamConn}, !.streamConn = None]

closeWithCode(e, c, w, code) ==
  IF c.status = "Closed"
  THEN Becomes(e, c) /\ wire' = w
  ELSE /\ Becomes(e, [CloseStream(c) EXCEPT
                        !.status = "Closed", !.wsOpen = FALSE, !.ctxDone = TRUE])
       /\ wire' = IF c.wsOpen THEN Put(w, e, Cmd(code)) ELSE w

(* sendCmd, and the other writes that end in closeWithErr if they fail:    *)
(* the frame is sent, or the Conn is closed.                               *)
Sent(e, c, w, f) == MaySucceed(e) /\ Becomes(e, c) /\ wire' = Put(w, e, f)
SendFails(e, c, w) == MayFail(e) /\ closeWithCode(e, c, w, "internalError")

(* Conn.Close: by the Client once its context is cancelled, by ServeHTTP's *)
(* defer once Handle has returned.                                         *)
Close(e) ==
  /\ IF e = "client" THEN "shutdown" \in Env /\ conn[e].ctxDone
                     ELSE conn[e].handle = "returned"
  /\ LockFree(e)
  /\ conn[e].status # "Closed"
  /\ closeWithCode(e, conn[e], wire, "normalClosure")
  /\ UNCHANGED <<link, dial, serve, dataVars>>

-----------------------------------------------------------------------------
(* DialContext.  Client.DialContext calls it for one target at a time, on  *)
(* a Conn whose last pipe was closed or whose last dial failed.            *)

client == conn["client"]

(* Under the lock: install onResult and send the open command.  If status  *)
(* is not Idle the call returns a StatusError and changes nothing.         *)
DialSend ==
  LET k == dial.k + 1
      c == [client EXCEPT !.onResult = [kind |-> "dial", k |-> k]]
      Call(pc) == [pc |-> pc, k |-> k, res |-> "none", cancelled |-> FALSE] IN
  /\ dial.pc = "idle" /\ k \in Session /\ dial.k \notin client.open
  /\ LockFree("client")
  /\ client.status = "Idle"
  /\ \/ Sent("client", c, wire, OpenCmd(k)) /\ dial' = Call("sent")
     \/ SendFails("client", c, wire) /\ dial' = Call("idle")
  /\ UNCHANGED <<link, serve, dataVars>>

DialInOper ==
  /\ dial.pc = "sent"
  /\ Becomes("client", [client EXCEPT !.status = "InOper"])
  /\ dial' = [dial EXCEPT !.pc = "select"]
  /\ UNCHANGED <<link, wire, serve, dataVars>>

(* case res := <-resCh                                                     *)
DialResult ==
  /\ dial.pc = "select"
  /\ \/ /\ dial.res = "ok"
        /\ dial' = [dial EXCEPT !.pc = "accepted"]
        /\ UNCHANGED conn
     \/ /\ dial.res = "fail"
        /\ dial' = [dial EXCEPT !.pc = "idle"]
        /\ Becomes("client", [client EXCEPT !.status = "Idle"])
  /\ UNCHANGED <<link, wire, serve, dataVars>>

(* case <-ctx.Done().  If the answer was already taken from the wire,      *)
(* closeAndWaitForIdle locks Conn.lock, which this goroutine holds.        *)
DialCancel ==
  /\ dial.pc = "select"
  /\ dial.cancelled
  /\ LockFree("client")
  /\ dial' = [dial EXCEPT !.pc = IF client.onResult = NoCallback
                                 THEN "stuck" ELSE "idle"]
  /\ Becomes("client", [client EXCEPT !.status = "Idle", !.onResult = NoCallback])
  /\ UNCHANGED <<link, wire, serve, dataVars>>

(* Mutant: DialContext does not watch the context of the Conn.             *)
DialIgnoresConn == FALSE

(* Mutant: DialContext goes on when the Conn is done.                      *)
DialConnDoneGoesOn ==
  /\ dial.pc = "select"
  /\ client.ctxDone
  /\ dial' = [dial EXCEPT !.pc = "accepted"]
  /\ UNCHANGED <<conn, link, wire, serve, dataVars>>

(* case <-c.ctx.Done()                                                     *)
DialConnDone ==
  /\ dial.pc = "select"
  /\ client.ctxDone
  /\ dial' = [dial EXCEPT !.pc = "idle"]
  /\ UNCHANGED <<conn, link, wire, serve, dataVars>>

(* Mutant: a streamConn that is left over is taken for the new pipe.       *)
KeepPipe(c, k) ==
  [c EXCEPT !.streamConn = IF @ = None THEN k ELSE @, !.open = @ \cup {k},
            !.onCmdErr = k, !.status = "Stream"]

NewPipe(c, k) ==
  [c EXCEPT !.streamConn = k, !.open = @ \cup {k}, !.onCmdErr = k,
            !.status = "Stream"]

(* Under the lock again: make the pipe, become a stream, serve it.         *)
DialAccept ==
  /\ dial.pc = "accepted"
  /\ LockFree("client")
  /\ Becomes("client", NewPipe(client, dial.k))
  /\ serve' = [serve EXCEPT !["client"][dial.k].pc = "start"]
  /\ dial' = [dial EXCEPT !.pc = "idle"]
  /\ UNCHANGED <<link, wire, dataVars>>

Dial ==
  DialInOper \/ DialResult \/ DialCancel \/ DialConnDone \/ DialAccept

-----------------------------------------------------------------------------
(* serveStream, the goroutine started for stream k of end e.               *)

Goto(e, k, pc) == serve' = [serve EXCEPT ![e][k].pc = pc]

(* conn := c.streamConn, without the lock.                                 *)
ServeStart(e, k) ==
  /\ serve[e][k].pc = "start"
  /\ serve' = [serve EXCEPT ![e][k].pc = "check",
                            ![e][k].conn = conn[e].streamConn]
  /\ UNCHANGED <<conn, link, wire, dial, dataVars>>

(* Mutant: a conn that was already nil is used.                            *)
ServeCheckNil(e, k) ==
  /\ serve[e][k].pc = "check"
  /\ Goto(e, k, IF conn[e].status # "Stream" THEN "ended" ELSE "read")
  /\ UNCHANGED <<conn, link, wire, dial, dataVars>>

(* The unlocked test of status; a deferred Close of a nil conn panics.     *)
ServeCheck(e, k) ==
  /\ serve[e][k].pc = "check"
  /\ Goto(e, k, IF conn[e].status # "Stream" THEN "ended"
                ELSE IF serve[e][k].conn = None THEN "panic" ELSE "read")
  /\ UNCHANGED <<conn, link, wire, dial, dataVars>>

(* Mutant: the next read does not wait until the buffer was written.       *)
ReadAhead(e, k) == serve[e][k].pc \in {"read", "write"}

AtRead(e, k) == serve[e][k].pc = "read"

(* conn.Read returns data: what the user wrote into the pipe, or what the  *)
(* target sent, which unless it is one that talks first is an answer.      *)
ServeReadData(e, k) ==
  LET c == serve[e][k].conn IN
  /\ AtRead(e, k)
  /\ c \in conn[e].open
  /\ sent[e][c] < MaxData
  /\ e = "server" => /\ ended[c] = "no"
                     /\ "banner" \in Env \/ got[e][c] # <<>>
  /\ sent' = [sent EXCEPT ![e][c] = @ + 1]
  /\ serve' = [serve EXCEPT ![e][k].pc = "write", ![e][k].n = sent[e][c] + 1]
  /\ UNCHANGED <<conn, link, wire, dial, ended, got>>

(* Mutant: the end of a stream is not told from an error.                  *)
EndIsError(e, c) == "fail"

(* io.EOF and io.ErrClosedPipe: every failed read of a pipe, and the one   *)
(* of a connection that its target ended and this end did not close.       *)
ReadError(e, c) ==
  IF e = "client" \/ (c \in conn[e].open /\ ended[c] = "eof")
  THEN "eof" ELSE "fail"

(* conn.Read fails.                                                        *)
ServeReadErr(e, k) ==
  LET c == serve[e][k].conn IN
  /\ AtRead(e, k)
  /\ c \in conn[e].open => e = "server" /\ ended[c] # "no"
  /\ Goto(e, k, ReadError(e, c))
  /\ UNCHANGED <<conn, link, wire, dial, dataVars>>

ServeWrite(e, k) ==
  LET s == serve[e][k] IN
  /\ s.pc = "write"
  /\ \/ Sent(e, conn[e], wire, Chunk(s.conn, s.n)) /\ Goto(e, k, "read")
     \/ SendFails(e, conn[e], wire) /\ Goto(e, k, "return")
  /\ UNCHANGED <<link, dial, dataVars>>

(* ok := c.status == StatusStream, under the lock.                         *)
ServeStatus(e, k) ==
  /\ serve[e][k].pc \in {"eof", "fail"}
  /\ LockFree(e)
  /\ Goto(e, k, IF conn[e].status # "Stream" THEN "return"
                ELSE IF serve[e][k].pc = "eof" THEN "setResult" ELSE "sendErr")
  /\ UNCHANGED <<conn, link, wire, dial, dataVars>>

ServeSendErr(e, k) ==
  /\ serve[e][k].pc = "sendErr"
  /\ Sent(e, conn[e], wire, Cmd("error")) \/ SendFails(e, conn[e], wire)
  /\ Goto(e, k, "return")
  /\ UNCHANGED <<link, dial, dataVars>>

(* closeAndWaitForIdle: install onResult, send X, wait for the answer.     *)
ServeSetResult(e, k) ==
  /\ serve[e][k].pc = "setResult"
  /\ LockFree(e)
  /\ Becomes(e, [conn[e] EXCEPT !.onResult = [kind |-> "close", k |-> k]])
  /\ Goto(e, k, "sendClose")
  /\ UNCHANGED <<link, wire, dial, dataVars>>

ServeSendClose(e, k) ==
  /\ serve[e][k].pc = "sendClose"
  /\ \/ Sent(e, conn[e], wire, Cmd("close")) /\ Goto(e, k, "wait")
     \/ SendFails(e, conn[e], wire) /\ Goto(e, k, "return")
  /\ UNCHANGED <<link, dial, dataVars>>

ServeWait(e, k) ==
  /\ serve[e][k].pc = "wait"
  /\ serve[e][k].done \/ conn[e].ctxDone
  /\ Goto(e, k, "return")
  /\ UNCHANGED <<conn, link, wire, dial, dataVars>>

(* Mutant: the deferred Close is missing.                                  *)
ServeReturnLeaves(e, k) ==
  /\ serve[e][k].pc = "return"
  /\ Goto(e, k, "ended")
  /\ UNCHANGED <<conn, link, wire, dial, dataVars>>

(* The deferred conn.Close().                                              *)
ServeReturn(e, k) ==
  /\ serve[e][k].pc = "return"
  /\ Becomes(e, [conn[e] EXCEPT !.open = @ \ {serve[e][k].conn}])
  /\ Goto(e, k, "ended")
  /\ UNCHANGED <<link, wire, dial, dataVars>>

serveStream(e, k) ==
  \/ ServeStart(e, k) \/ ServeCheck(e, k)
  \/ ServeReadErr(e, k) \/ ServeWrite(e, k)
  \/ ServeStatus(e, k) \/ ServeSendErr(e, k)
  \/ ServeSetResult(e, k) \/ ServeSendClose(e, k) \/ ServeWait(e, k)
  \/ ServeReturn(e, k)

-----------------------------------------------------------------------------
(* Handle: the loop takes the next frame off the websocket and runs its    *)
(* handler, all of it under Conn.lock.                                     *)

Reading(e) == conn[e].handle = "run" /\ conn[e].cur = NoFrame
AtHead(e, t) == Reading(e) /\ wire[e] # <<>> /\ Head(wire[e]).t = t
Incoming(e, t) == AtHead(e, t) /\ LockFree(e)

(* The handler sends a command as its last step; if that fails Handle      *)
(* returns the error.                                                      *)
Answered(e, c, w, t) == Sent(e, [c EXCEPT !.cur = NoFrame], w, Cmd(t))
AnswerFails(e, c, w) ==
  SendFails(e, [c EXCEPT !.cur = NoFrame, !.handle = "returned"], w)

(* X: back to Idle whatever the status was, close the stream, answer R.    *)
HandleClose(e) ==
  /\ Incoming(e, "close")
  /\ LET c == CloseStream([conn[e] EXCEPT !.status = "Idle"]) IN
     Answered(e, c, Received(e), "reply") \/ AnswerFails(e, c, Received(e))
  /\ UNCHANGED <<link, dial, serve, dataVars>>

(* S: refused with a close of the Conn unless Idle; else the Dialer runs,  *)
(* with the lock held.                                                     *)
HandleOpen(e) ==
  /\ Incoming(e, "open")
  /\ IF conn[e].status # "Idle"
     THEN closeWithCode(e, conn[e], Received(e), "internalError")
     ELSE /\ Becomes(e, [conn[e] EXCEPT !.cur = Head(wire[e])])
          /\ wire' = Received(e)
  /\ UNCHANGED <<link, dial, serve, dataVars>>

DialTargetOk(e) ==
  LET k == conn[e].cur.k
      c == [conn[e] EXCEPT !.status = "Stream", !.streamConn = k,
                           !.open = @ \cup {k}] IN
  /\ conn[e].cur.t = "open"
  /\ \/ Answered(e, c, wire, "replyTrue") /\ Goto(e, k, "start")
     \/ AnswerFails(e, c, wire) /\ UNCHANGED serve
  /\ UNCHANGED <<link, dial, dataVars>>

(* Mutant: a failed dial is answered like one that succeeded.              *)
DialTargetErrTrue(e) ==
  /\ conn[e].cur.t = "open"
  /\ "dialFail" \in Env \/ conn[e].ctxDone
  /\ Answered(e, conn[e], wire, "replyTrue") \/ AnswerFails(e, conn[e], wire)
  /\ UNCHANGED <<link, dial, serve, dataVars>>

DialTargetErr(e) ==
  /\ conn[e].cur.t = "open"
  /\ "dialFail" \in Env \/ conn[e].ctxDone
  /\ Answered(e, conn[e], wire, "replyFalse") \/ AnswerFails(e, conn[e], wire)
  /\ UNCHANGED <<link, dial, serve, dataVars>>

(* R, RT, RF: run onResult, which clears itself.  Dial's hands over the    *)
(* answer; closeAndWaitForIdle's makes the Conn Idle and wakes its caller. *)
HandleReply(e) ==
  LET cb == conn[e].onResult IN
  /\ \E t \in {"reply", "replyTrue", "replyFalse"} :
       /\ Incoming(e, t)
       /\ dial' = IF cb.kind = "dial" /\ cb.k = dial.k
                  THEN [dial EXCEPT !.res = IF t = "replyTrue" THEN "ok" ELSE "fail"]
                  ELSE dial
  /\ Becomes(e, [conn[e] EXCEPT !.onResult = NoCallback,
                                !.status = IF cb.kind = "close" THEN "Idle" ELSE @])
  /\ serve' = IF cb.kind = "close" THEN [serve EXCEPT ![e][cb.k].done = TRUE] ELSE serve
  /\ wire' = Received(e)
  /\ UNCHANGED <<link, dataVars>>

(* E: run onCmdErr, which clears itself and closes the pipe.               *)
HandleError(e) ==
  /\ Incoming(e, "error")
  /\ IF conn[e].status # "Idle"
     THEN Becomes(e, [conn[e] EXCEPT !.open = @ \ {conn[e].onCmdErr},
                                     !.onCmdErr = None])
     ELSE UNCHANGED conn
  /\ wire' = Received(e)
  /\ UNCHANGED <<link, dial, serve, dataVars>>

(* A chunk: dropped unless there is a stream; else copied into it with the *)
(* lock held.                                                              *)
HandleData(e) ==
  /\ Incoming(e, "data")
  /\ IF conn[e].status = "Stream" /\ conn[e].streamConn # None
     THEN Becomes(e, [conn[e] EXCEPT !.cur = Head(wire[e])])
     ELSE UNCHANGED conn
  /\ wire' = Received(e)
  /\ UNCHANGED <<link, dial, serve, dataVars>>

(* The stream takes what io.Copy writes: it is open and not reset.         *)
TakesData(e) ==
  LET k == conn[e].streamConn IN
  k \in conn[e].open /\ (e = "server" => ended[k] # "reset")

CopyOk(e) ==
  LET f == conn[e].cur IN
  /\ f.t = "data"
  /\ TakesData(e)
  /\ got' = [got EXCEPT ![e][conn[e].streamConn] = Append(@, <<f.k, f.n>>)]
  /\ Becomes(e, [conn[e] EXCEPT !.cur = NoFrame])
  /\ UNCHANGED <<link, wire, dial, serve, ended, sent>>

(* io.Copy is, for all anyone can tell, in the Write of a stream that is   *)
(* open and whose other side does not read: neither the context nor the    *)
(* end of the connection wakes it, only a close of the stream does.        *)
CopyBlocked(e) == conn[e].cur.t = "data" /\ TakesData(e)

(* io.Copy returns an error: its Write fails, for the stream was closed or *)
(* reset, or its read of the rest of the message does, for the websocket   *)
(* failed.  A closing that does not take the lock may have set streamConn  *)
(* to nil in the meantime: then the handler panics, which ServeHTTP        *)
(* recovers and a client does not.                                         *)
CopyErr(e) ==
  LET c == [conn[e] EXCEPT !.status = "Idle"] IN
  /\ c.cur.t = "data"
  /\ ~TakesData(e) \/ MayFail(e)
  /\ IF c.streamConn = None
     THEN /\ Becomes(e, [c EXCEPT !.cur = NoFrame, !.handle =
                           IF e = "client" THEN "panic" ELSE "returned"])
          /\ UNCHANGED wire
     ELSE \/ Answered(e, CloseStream(c), wire, "error")
          \/ AnswerFails(e, CloseStream(c), wire)
  /\ UNCHANGED <<link, dial, serve, dataVars>>

(* Reader fails.  A normal close by the peer, or io.EOF from a lost        *)
(* connection, cancels the context only; any other error closes the Conn.  *)
HandleReadErr(e) ==
  LET c == [conn[e] EXCEPT !.handle = "returned"] IN
  /\ \/ /\ AtHead(e, "normalClosure") \/ (Reading(e) /\ ~link)
        /\ Becomes(e, [c EXCEPT !.ctxDone = TRUE])
        /\ UNCHANGED wire
     \/ /\ AtHead(e, "internalError") \/ (Reading(e) /\ MayFail(e))
        /\ closeWithCode(e, c, wire, "internalError")
  /\ UNCHANGED <<link, dial, serve, dataVars>>

Handle(e) ==
  \/ HandleClose(e) \/ HandleOpen(e) \/ DialTargetOk(e) \/ DialTargetErr(e)
  \/ HandleReply(e) \/ HandleError(e) \/ HandleData(e) \/ CopyErr(e)
  \/ HandleReadErr(e)

-----------------------------------------------------------------------------

(* The ping goroutine, which takes no lock.  When the context is done it   *)
(* closes the websocket, and not the stream; when a ping fails, the Conn.  *)
Ping(e) ==
  LET c == [conn[e] EXCEPT !.ping = "ended"] IN
  /\ conn[e].ping = "run"
  /\ \/ /\ c.ctxDone
        /\ Becomes(e, [c EXCEPT !.status = "Closed", !.wsOpen = FALSE])
        /\ wire' = IF c.wsOpen THEN Put(wire, e, Cmd("internalError")) ELSE wire
     \/ /\ MayFail(e)
        /\ closeWithCode(e, c, wire, "internalError")
  /\ UNCHANGED <<link, dial, serve, dataVars>>

-----------------------------------------------------------------------------
(* The environment: the caller of DialContext, the targets, the network.   *)

UserClose(k) ==
  /\ "userClose" \in Env
  /\ k \in client.open
  /\ Becomes("client", [client EXCEPT !.open = @ \ {k}])
  /\ UNCHANGED <<link, wire, dial, serve, dataVars>>

CtxCancel ==
  /\ "cancel" \in Env
  /\ dial.pc = "select"
  /\ ~dial.cancelled
  /\ dial' = [dial EXCEPT !.cancelled = TRUE]
  /\ UNCHANGED <<conn, link, wire, serve, dataVars>>

TargetEnd(k) ==
  /\ k \in conn["server"].open
  /\ ended[k] = "no"
  /\ \/ "targetEOF" \in Env /\ ended' = [ended EXCEPT ![k] = "eof"]
     \/ "targetReset" \in Env /\ ended' = [ended EXCEPT ![k] = "reset"]
  /\ UNCHANGED <<conn, link, wire, dial, serve, sent, got>>

(* The connection is also torn down under a websocket whose context is     *)
(* done, and by the end of a process.                                      *)
Break ==
  /\ link
  /\ "break" \in Env \/ \E e \in End : conn[e].ctxDone \/ Crashed(e)
  /\ link' = FALSE
  /\ UNCHANGED <<conn, wire, dial, serve, dataVars>>

ParentCancel ==
  /\ "shutdown" \in Env
  /\ ~client.ctxDone
  /\ Becomes("client", [client EXCEPT !.ctxDone = TRUE])
  /\ UNCHANGED <<link, wire, dial, serve, dataVars>>

-----------------------------------------------------------------------------
Step(e) ==
  /\ ~Crashed(e)
  /\ \/ Handle(e) \/ CopyOk(e) \/ Ping(e) \/ Close(e)
     \/ \E k \in Session : serveStream(e, k) \/ ServeReadData(e, k)

ClientStep ==
  /\ ~Crashed("client")
  /\ \/ DialSend \/ Dial \/ CtxCancel \/ ParentCancel
     \/ \E k \in Session : UserClose(k)

Next ==
  \/ \E e \in End : Step(e)
  \/ ClientStep
  \/ \E k \in Session : TargetEnd(k)
  \/ Break

Spec == Init /\ [][Next]_vars

(* Every goroutine that can go on eventually does: Go's scheduler starves  *)
(* none, a Dialer returns, and Close is ServeHTTP's deferred call.  The    *)
(* callers, the targets and the network owe nothing: no fairness for new   *)
(* dials, reads of data, an io.Copy into a stream that nobody reads or     *)
(* closes, or the actions of the environment.                              *)
Fairness ==
  /\ \A e \in End :
       /\ WF_vars(~Crashed(e) /\ ~CopyBlocked(e) /\ Handle(e))
       /\ WF_vars(~Crashed(e) /\ Ping(e))
       /\ \A k \in Session : WF_vars(~Crashed(e) /\ serveStream(e, k))
  /\ WF_vars(~Crashed("server") /\ Close("server"))
  /\ WF_vars(~Crashed("client") /\ Dial)

FairSpec == Spec /\ Fairness

(* Chunks come in time: each one that the client takes off the wire can be *)
(* copied into its pipe; none comes after its user has closed it.  Of what *)
(* holds until the first chunk comes late this says what it is; a late one *)
(* has the client leave the stream without the server, see handleBinary.   *)
TimelySpec == Init /\ [][Next /\ ~CopyErr("client")]_vars

-----------------------------------------------------------------------------
(* Type correctness of the fields of Conn, of DialContext and of the       *)
(* goroutines: in particular serveStream past its test has a stream, and a *)
(* callback, a dial under way and a frame on the wire name an actual one.  *)
TypeOK ==
  /\ conn \in [End -> ConnState]
  /\ link \in BOOLEAN
  /\ wire \in [End -> Seq(Frame)]
  /\ dial \in Dialing
  /\ serve \in [End -> [Session -> Serving]]
  /\ ended \in [Session -> {"no", "eof", "reset"}]
  /\ sent \in [End -> [Session -> 0 .. MaxData]]
  /\ got \in [End -> [Session -> Seq(Session \X (0 .. MaxData))]]

-----------------------------------------------------------------------------
(* A Conn carries one stream: no pipe and no connection to a target stays  *)
(* open once streamConn has moved on from it, so none leaks when a Conn is *)
(* used again.  Needs targets that do not end their stream first.          *)
NoOrphanStream == \A e \in End : conn[e].open \subseteq {conn[e].streamConn}

(* When both ends are in StatusStream the pipe of the client and the       *)
(* connection of the server belong to the same DialContext call: no answer *)
(* of the server is taken for the answer to another dial.                  *)
PipeTarget ==
  (\A e \in End : conn[e].status = "Stream" /\ conn[e].streamConn # None)
    => client.streamConn = conn["server"].streamConn

(* While the Conn is alive every open stream has its serveStream goroutine *)
(* running, the only one that notices its end and closes it.               *)
StreamServed ==
  \A e \in End : ~conn[e].ctxDone => \A k \in conn[e].open :
    \/ serve[e][k].pc = "start"
    \/ serve[e][k].conn = k /\ serve[e][k].pc \notin {"ended", "panic"}

(* What was written into a stream is a prefix of what the other end read:  *)
(* nothing is lost, doubled, reordered or taken from another stream.       *)
StreamIntegrity ==
  \A e \in End, k \in Session :
    \A i \in DOMAIN got[e][k] : got[e][k][i] = <<k, i>>

(* A DialContext call always returns.                                      *)
DialReturns == dial.pc # "idle" ~> dial.pc = "idle"

(* Handle of end e is held for good by an io.Copy: the ping goroutine,     *)
(* which alone could still have closed the stream, has found the context   *)
(* done first and has ended.                                               *)
HeldByCopy(e) == CopyBlocked(e) /\ conn[e].ctxDone /\ conn[e].ping = "ended"


(* When the TCP connection is lost the server closes the connection to the *)
(* target ("will automatically close connection if an error occurred").    *)
LostConnReleasesTarget == ~link ~> conn["server"].open = {}

=============================================================================
