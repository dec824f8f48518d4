----------------------------- MODULE ConnProofs -----------------------------
(***************************************************************************)
(* Proofs about Conn: type correctness, that a Conn that is used again and *)
(* again never leaves a stream of an earlier use open, and that its first  *)
(* stream carries what was read, in order and without gaps.                *)
(***************************************************************************)
EXTENDS Conn, TLAPS

LEMMA SessionFacts == None \notin Session /\ Session \subseteq Nat /\ 0 \in 0 .. MaxData
BY BoundsAssumption DEF None, Session

(* The frames the code sends are frames.                                   *)
LEMMA FrameFacts ==
  /\ \A t \in Command : Cmd(t) \in Frame
  /\ \A k \in Session : OpenCmd(k) \in Frame
  /\ \A k \in Session, n \in 0 .. MaxData : Chunk(k, n) \in Frame
BY SessionFacts DEF Frame, Cmd, OpenCmd, Chunk

(* A frame put on the wire, or taken off it, leaves sequences of frames.   *)
LEMMA PutType ==
  ASSUME NEW w \in [End -> Seq(Frame)], NEW e \in End, NEW f \in Frame
  PROVE  Put(w, e, f) \in [End -> Seq(Frame)]
BY DEF Put, Peer, End

LEMMA ReceivedType ==
  ASSUME TypeOK, NEW e \in End, wire[e] # <<>>
  PROVE  /\ Received(e) \in [End -> Seq(Frame)]
         /\ Head(wire[e]) \in Frame
BY DEF TypeOK, Received

(* Closing, and sending a command, turn Conns into Conns.                  *)
LEMMA CloseStreamType ==
  ASSUME NEW c \in ConnState
  PROVE  CloseStream(c) \in ConnState
BY DEF CloseStream, ConnState, Stream

LEMMA CloseType ==
  ASSUME TypeOK, NEW e \in End, NEW c \in ConnState,
         NEW w \in [End -> Seq(Frame)], NEW code \in Command,
         closeWithCode(e, c, w, code)
  PROVE  conn' \in [End -> ConnState] /\ wire' \in [End -> Seq(Frame)]
<1> DEFINE d == [CloseStream(c) EXCEPT
                   !.status = "Closed", !.wsOpen = FALSE, !.ctxDone = TRUE]
<1>1. d \in ConnState
  BY CloseStreamType DEF ConnState, Status
<1>2. Put(w, e, Cmd(code)) \in [End -> Seq(Frame)]
  BY PutType, FrameFacts
<1> QED
  BY <1>1, <1>2 DEF closeWithCode, Becomes, TypeOK

LEMMA SentType ==
  ASSUME TypeOK, NEW e \in End, NEW c \in ConnState,
         NEW w \in [End -> Seq(Frame)], NEW f \in Frame, Sent(e, c, w, f)
  PROVE  conn' \in [End -> ConnState] /\ wire' \in [End -> Seq(Frame)]
BY PutType DEF Sent, Becomes, TypeOK

LEMMA SendFailsType ==
  ASSUME TypeOK, NEW e \in End, NEW c \in ConnState,
         NEW w \in [End -> Seq(Frame)], SendFails(e, c, w)
  PROVE  conn' \in [End -> ConnState] /\ wire' \in [End -> Seq(Frame)]
BY CloseType DEF SendFails, Command

(* The updates that give a Boolean field another value.                    *)
LEMMA FlagTypes ==
  /\ \A s \in Serving : [s EXCEPT !.done = TRUE] \in Serving
  /\ \A c \in ConnState :
       [c EXCEPT !.status = "Closed", !.wsOpen = FALSE] \in ConnState
<1>1. ASSUME NEW s \in Serving
      PROVE  [s EXCEPT !.done = TRUE] \in Serving
  BY DEF Serving
<1>2. ASSUME NEW c \in ConnState
      PROVE  [c EXCEPT !.status = "Closed", !.wsOpen = FALSE] \in ConnState
  BY DEF ConnState, Status
<1> QED
  BY <1>1, <1>2

(* A goroutine that moves on stays well formed.                            *)
LEMMA GotoType ==
  ASSUME TypeOK, NEW e \in End, NEW k \in Session, NEW pc \in ServePC,
         pc \notin {"none", "start", "check", "ended", "panic"}
           => serve[e][k].conn # None,
         Goto(e, k, pc)
  PROVE  serve' \in [End -> [Session -> Serving]]
<1> DEFINE s == [serve[e][k] EXCEPT !.pc = pc]
<1>1. serve[e][k] \in Serving /\ serve[e] \in [Session -> Serving]
  BY DEF TypeOK
<1>2. s \in Serving
  BY <1>1 DEF Serving
<1>3. serve' = [serve EXCEPT ![e] = [serve[e] EXCEPT ![k] = s]]
  BY DEF Goto
<1> QED
  BY <1>1, <1>2, <1>3 DEF TypeOK

-----------------------------------------------------------------------------
(* Each action keeps the types: DialContext.                               *)
LEMMA DialType ==
  ASSUME TypeOK, DialSend \/ Dial
  PROVE  TypeOK'
<1> USE SessionFacts
<1>0. /\ client \in ConnState /\ dial \in Dialing /\ "client" \in End
      /\ wire \in [End -> Seq(Frame)]
  BY DEF TypeOK, client, End
<1>1. CASE DialSend
  <2> DEFINE k == dial.k + 1
             c == [client EXCEPT !.onResult = [kind |-> "dial", k |-> k]]
  <2>1. k \in Session /\ OpenCmd(k) \in Frame
    BY <1>1, FrameFacts DEF DialSend
  <2>2. c \in ConnState
    BY <1>0, <2>1 DEF ConnState, Callback
  <2>3. \/ Sent("client", c, wire, OpenCmd(k))
        \/ SendFails("client", c, wire)
    BY <1>1 DEF DialSend
  <2>4. conn' \in [End -> ConnState] /\ wire' \in [End -> Seq(Frame)]
    BY <1>0, <2>1, <2>2, <2>3, SentType, SendFailsType
  <2>5. dial' \in Dialing
    <3>1. PICK pc \in {"sent", "idle"} :
            dial' = [pc |-> pc, k |-> k, res |-> "none", cancelled |-> FALSE]
      BY <1>1 DEF DialSend
    <3> QED
      BY <2>1, <3>1 DEF Dialing, Stream
  <2> QED
    BY <1>1, <2>4, <2>5 DEF DialSend, TypeOK, dataVars
<1>2. CASE DialInOper
  BY <1>0, <1>2 DEF DialInOper, Becomes, TypeOK, ConnState, Status, Dialing, dataVars
<1>3. CASE DialResult
  <2>1. [client EXCEPT !.status = "Idle"] \in ConnState
    BY <1>0 DEF ConnState, Status
  <2>2. conn' \in [End -> ConnState]
    BY <1>3, <2>1 DEF DialResult, Becomes, TypeOK
  <2>3. dial' \in Dialing
    BY <1>0, <1>3 DEF DialResult, Dialing
  <2> QED
    BY <1>3, <2>2, <2>3 DEF DialResult, TypeOK, dataVars
<1>4. CASE DialCancel
  BY <1>0, <1>4 DEF DialCancel, Becomes, TypeOK, ConnState, Status, Callback, Dialing,
                    dataVars
<1>5. CASE DialConnDone
  BY <1>0, <1>5 DEF DialConnDone, TypeOK, Dialing, dataVars
<1>6. CASE DialAccept
  <2>1. dial.k \in Session
    BY <1>0, <1>6 DEF DialAccept, Dialing, Stream
  <2>2. NewPipe(client, dial.k) \in ConnState
    BY <1>0, <2>1 DEF NewPipe, ConnState, Status, Stream
  <2>3. Goto("client", dial.k, "start")
    BY <1>6 DEF DialAccept, Goto
  <2>4. serve' \in [End -> [Session -> Serving]]
    BY <1>0, <2>1, <2>3, GotoType DEF ServePC
  <2> QED
    BY <1>0, <1>6, <2>2, <2>4 DEF DialAccept, Becomes, TypeOK, Dialing, dataVars
<1> QED
  BY <1>1, <1>2, <1>3, <1>4, <1>5, <1>6 DEF Dial

(* serveStream.                                                            *)
LEMMA ServeType ==
  ASSUME TypeOK, NEW e \in End, NEW k \in Session,
         serveStream(e, k) \/ ServeReadData(e, k)
  PROVE  TypeOK'
<1> USE SessionFacts
<1> DEFINE s == serve[e][k]
<1>0. /\ conn[e] \in ConnState /\ wire \in [End -> Seq(Frame)]
      /\ s \in Serving /\ serve[e] \in [Session -> Serving]
  BY DEF TypeOK
<1>1. CASE ServeStart(e, k)
  <2> DEFINE t == [s EXCEPT !.pc = "check", !.conn = conn[e].streamConn]
  <2>1. t \in Serving
    BY <1>0 DEF Serving, ServePC, ConnState
  <2>2. serve' = [serve EXCEPT ![e] = [serve[e] EXCEPT ![k] = t]]
    BY <1>1 DEF ServeStart
  <2> QED
    BY <1>0, <1>1, <2>1, <2>2 DEF ServeStart, TypeOK, dataVars
<1>2. CASE ServeCheck(e, k)
  BY <1>0, <1>2, GotoType DEF ServeCheck, TypeOK, ServePC, dataVars
<1>3. CASE ServeReadData(e, k)
  <2> DEFINE c == s.conn
             t == [s EXCEPT !.pc = "write", !.n = sent[e][c] + 1]
  <2>1. c \in Session /\ sent[e][c] + 1 \in 0 .. MaxData
    BY <1>0, <1>3, BoundsAssumption DEF ServeReadData, ConnState, TypeOK
  <2>2. t \in Serving
    BY <1>0, <2>1 DEF Serving, ServePC
  <2>3. serve' = [serve EXCEPT ![e] = [serve[e] EXCEPT ![k] = t]]
    BY <1>3 DEF ServeReadData
  <2>4. serve' \in [End -> [Session -> Serving]]
    BY <1>0, <2>2, <2>3 DEF TypeOK
  <2>5. sent' = [sent EXCEPT ![e] = [sent[e] EXCEPT ![c] = sent[e][c] + 1]]
    BY <1>3 DEF ServeReadData
  <2>6. sent' \in [End -> [Session -> 0 .. MaxData]]
    BY <2>1, <2>5 DEF TypeOK
  <2> QED
    BY <1>3, <2>4, <2>6 DEF ServeReadData, TypeOK
<1>4. CASE ServeReadErr(e, k)
  <2>1. serve[e][k].conn # None /\ ReadError(e, s.conn) \in {"eof", "fail"}
    BY <1>0, <1>4 DEF ServeReadErr, AtRead, Serving, ReadError
  <2> QED
    <3>1. serve' \in [End -> [Session -> Serving]]
      BY <1>4, <2>1, GotoType DEF ServeReadErr, ServePC
    <3> QED
      BY <1>4, <3>1 DEF ServeReadErr, TypeOK, dataVars
<1>5. CASE ServeWrite(e, k)
  <2>1. s.conn \in Session /\ s.n \in 0 .. MaxData
    BY <1>0, <1>5 DEF ServeWrite, Serving, Stream
  <2>2. Chunk(s.conn, s.n) \in Frame
    BY <2>1, FrameFacts
  <2>3. conn' \in [End -> ConnState] /\ wire' \in [End -> Seq(Frame)]
    BY <1>0, <1>5, <2>2, SentType, SendFailsType DEF ServeWrite
  <2>4. serve' \in [End -> [Session -> Serving]]
    BY <1>5, <2>1, GotoType DEF ServeWrite, ServePC
  <2> QED
    BY <1>5, <2>3, <2>4 DEF ServeWrite, TypeOK, dataVars
<1>6. CASE ServeStatus(e, k)
  <2>1. s.conn # None
    BY <1>0, <1>6 DEF ServeStatus, Serving
  <2> QED
    BY <1>6, <2>1, GotoType DEF ServeStatus, TypeOK, ServePC, dataVars
<1>7. CASE ServeSendErr(e, k)
  <2>1. s.conn # None
    BY <1>0, <1>7 DEF ServeSendErr, Serving
  <2>2. conn' \in [End -> ConnState] /\ wire' \in [End -> Seq(Frame)]
    <3>1. Cmd("error") \in Frame
      BY FrameFacts DEF Command
    <3> QED
      BY <1>0, <1>7, <3>1, SentType, SendFailsType DEF ServeSendErr
  <2> QED
    BY <1>7, <2>1, <2>2, GotoType DEF ServeSendErr, TypeOK, ServePC, dataVars
<1>8. CASE ServeSetResult(e, k)
  <2>1. s.conn # None
    BY <1>0, <1>8 DEF ServeSetResult, Serving
  <2>2. [conn[e] EXCEPT !.onResult = [kind |-> "close", k |-> k]] \in ConnState
    BY <1>0 DEF ConnState, Callback
  <2>3. serve' \in [End -> [Session -> Serving]]
    BY <1>8, <2>1, GotoType DEF ServeSetResult, ServePC
  <2> QED
    BY <1>8, <2>2, <2>3 DEF ServeSetResult, Becomes, TypeOK, dataVars
<1>9. CASE ServeSendClose(e, k)
  <2>1. s.conn # None
    BY <1>0, <1>9 DEF ServeSendClose, Serving
  <2>2. conn' \in [End -> ConnState] /\ wire' \in [End -> Seq(Frame)]
    <3>1. Cmd("close") \in Frame
      BY FrameFacts DEF Command
    <3> QED
      BY <1>0, <1>9, <3>1, SentType, SendFailsType DEF ServeSendClose
  <2>3. Goto(e, k, "wait") \/ Goto(e, k, "return")
    BY <1>9 DEF ServeSendClose
  <2>4. serve' \in [End -> [Session -> Serving]]
    BY <2>1, <2>3, GotoType DEF ServePC
  <2> QED
    BY <1>9, <2>2, <2>4 DEF ServeSendClose, TypeOK, dataVars
<1>10. CASE ServeWait(e, k)
  <2>1. s.conn # None
    BY <1>0, <1>10 DEF ServeWait, Serving
  <2> QED
    BY <1>10, <2>1, GotoType DEF ServeWait, TypeOK, ServePC, dataVars
<1>11. CASE ServeReturn(e, k)
  <2>1. [conn[e] EXCEPT !.open = @ \ {s.conn}] \in ConnState
    BY <1>0 DEF ConnState
  <2>2. serve' \in [End -> [Session -> Serving]]
    BY <1>11, GotoType DEF ServeReturn, ServePC
  <2> QED
    BY <1>11, <2>1, <2>2 DEF ServeReturn, Becomes, TypeOK, dataVars
<1> QED
  BY <1>1, <1>2, <1>3, <1>4, <1>5, <1>6, <1>7, <1>8, <1>9, <1>10, <1>11
  DEF serveStream

(* The handlers.                                                           *)
LEMMA HandleType ==
  ASSUME TypeOK, NEW e \in End, Handle(e) \/ CopyOk(e)
  PROVE  TypeOK'
<1> USE SessionFacts
<1>0. /\ conn[e] \in ConnState /\ wire \in [End -> Seq(Frame)]
      /\ dial \in Dialing /\ serve[e] \in [Session -> Serving]
      /\ got[e] \in [Session -> Seq(Session \X (0 .. MaxData))]
  BY DEF TypeOK
<1>1. ASSUME NEW t, Incoming(e, t) \/ AtHead(e, t)
      PROVE  Received(e) \in [End -> Seq(Frame)] /\ Head(wire[e]) \in Frame
  BY <1>1, ReceivedType DEF Incoming, AtHead
<1>2. ASSUME NEW c \in ConnState, NEW w \in [End -> Seq(Frame)],
             NEW t \in Command, Answered(e, c, w, t) \/ AnswerFails(e, c, w)
      PROVE  conn' \in [End -> ConnState] /\ wire' \in [End -> Seq(Frame)]
  <2>1. /\ [c EXCEPT !.cur = NoFrame] \in ConnState
        /\ [c EXCEPT !.cur = NoFrame, !.handle = "returned"] \in ConnState
        /\ Cmd(t) \in Frame
    BY FrameFacts DEF ConnState
  <2> QED
    BY <1>2, <2>1, SentType, SendFailsType DEF Answered, AnswerFails
<1>3. CASE HandleClose(e)
  <2>1. CloseStream([conn[e] EXCEPT !.status = "Idle"]) \in ConnState
    <3>1. [conn[e] EXCEPT !.status = "Idle"] \in ConnState
      BY <1>0 DEF ConnState, Status
    <3> QED
      BY <3>1, CloseStreamType
  <2>2. conn' \in [End -> ConnState] /\ wire' \in [End -> Seq(Frame)]
    BY <1>1, <1>2, <1>3, <2>1 DEF HandleClose, Command
  <2> QED
    BY <1>3, <2>2 DEF HandleClose, TypeOK, dataVars
<1>4. CASE HandleOpen(e)
  <2>1. Received(e) \in [End -> Seq(Frame)] /\ Head(wire[e]) \in Frame
    BY <1>1, <1>4 DEF HandleOpen
  <2>2. [conn[e] EXCEPT !.cur = Head(wire[e])] \in ConnState
    BY <1>0, <2>1 DEF ConnState
  <2>3. conn' \in [End -> ConnState] /\ wire' \in [End -> Seq(Frame)]
    <3>1. CASE conn[e].status # "Idle"
      BY <1>0, <1>4, <2>1, <3>1, CloseType DEF HandleOpen, Command
    <3>2. CASE conn[e].status = "Idle"
      BY <1>4, <2>1, <2>2, <3>2 DEF HandleOpen, Becomes, TypeOK
    <3> QED
      BY <3>1, <3>2
  <2> QED
    BY <1>4, <2>3 DEF HandleOpen, TypeOK, dataVars
<1>5. CASE DialTargetOk(e)
  <2> DEFINE k == conn[e].cur.k
             c == [conn[e] EXCEPT !.status = "Stream", !.streamConn = k,
                                  !.open = @ \cup {k}]
  <2>1. k \in Session
    BY <1>0, <1>5 DEF DialTargetOk, ConnState, Frame, NoFrame, Command
  <2>2. c \in ConnState
    BY <1>0, <2>1 DEF ConnState, Status, Stream
  <2>3. conn' \in [End -> ConnState] /\ wire' \in [End -> Seq(Frame)]
    BY <1>0, <1>2, <1>5, <2>2 DEF DialTargetOk, Command
  <2>4. serve' \in [End -> [Session -> Serving]]
    <3>1. CASE Goto(e, k, "start")
      BY <2>1, <3>1, GotoType DEF ServePC
    <3>2. CASE UNCHANGED serve
      BY <3>2 DEF TypeOK
    <3> QED
      BY <1>5, <3>1, <3>2 DEF DialTargetOk
  <2> QED
    BY <1>5, <2>3, <2>4 DEF DialTargetOk, TypeOK, dataVars
<1>6. CASE DialTargetErr(e)
  <2>1. conn' \in [End -> ConnState] /\ wire' \in [End -> Seq(Frame)]
    BY <1>0, <1>2, <1>6 DEF DialTargetErr, Command
  <2> QED
    BY <1>6, <2>1 DEF DialTargetErr, TypeOK, dataVars
<1>7. CASE HandleReply(e)
  <2> DEFINE cb == conn[e].onResult
             c == [conn[e] EXCEPT !.onResult = NoCallback,
                     !.status = IF cb.kind = "close" THEN "Idle" ELSE @]
  <2>1. cb \in Callback
    BY <1>0 DEF ConnState
  <2>2. c \in ConnState
    BY <1>0 DEF ConnState, Status, Callback
  <2>3. conn' \in [End -> ConnState]
    BY <1>7, <2>2 DEF HandleReply, Becomes, TypeOK
  <2>4. wire' \in [End -> Seq(Frame)]
    BY <1>1, <1>7 DEF HandleReply
  <2>5. dial' \in Dialing
    BY <1>0, <1>7 DEF HandleReply, Dialing
  <2>6. serve' \in [End -> [Session -> Serving]]
    <3>1. CASE cb.kind = "close"
      <4>1. cb.k \in Session
        BY <2>1, <3>1 DEF Callback, NoCallback
      <4>2. [serve[e][cb.k] EXCEPT !.done = TRUE] \in Serving
        <5>1. serve[e][cb.k] \in Serving
          BY <1>0, <4>1
        <5> QED
          BY <5>1, FlagTypes
      <4>3. serve' = [serve EXCEPT ![e] = [serve[e] EXCEPT ![cb.k] =
                        [serve[e][cb.k] EXCEPT !.done = TRUE]]]
        BY <1>7, <3>1 DEF HandleReply
      <4> QED
        BY <4>1, <4>2, <4>3 DEF TypeOK
    <3>2. CASE cb.kind # "close"
      BY <1>7, <3>2 DEF HandleReply, TypeOK
    <3> QED
      BY <3>1, <3>2
  <2> QED
    BY <1>7, <2>3, <2>4, <2>5, <2>6 DEF HandleReply, TypeOK, dataVars
<1>8. CASE HandleError(e)
  <2>1. [conn[e] EXCEPT !.open = @ \ {conn[e].onCmdErr}, !.onCmdErr = None]
          \in ConnState
    BY <1>0 DEF ConnState, Stream
  <2>2. conn' \in [End -> ConnState]
    BY <1>8, <2>1 DEF HandleError, Becomes, TypeOK
  <2>3. wire' \in [End -> Seq(Frame)]
    BY <1>1, <1>8 DEF HandleError
  <2> QED
    BY <1>8, <2>2, <2>3 DEF HandleError, TypeOK, dataVars
<1>9. CASE HandleData(e)
  <2>1. Received(e) \in [End -> Seq(Frame)] /\ Head(wire[e]) \in Frame
    BY <1>1, <1>9 DEF HandleData
  <2>2. [conn[e] EXCEPT !.cur = Head(wire[e])] \in ConnState
    BY <1>0, <2>1 DEF ConnState
  <2>3. conn' \in [End -> ConnState]
    BY <1>9, <2>2 DEF HandleData, Becomes, TypeOK
  <2> QED
    BY <1>9, <2>1, <2>3 DEF HandleData, TypeOK, dataVars
<1>10. CASE CopyOk(e)
  <2> DEFINE f == conn[e].cur
             k == conn[e].streamConn
             g == Append(got[e][k], <<f.k, f.n>>)
  <2>1. k \in Session /\ <<f.k, f.n>> \in Session \X (0 .. MaxData)
    BY <1>0, <1>10 DEF CopyOk, TakesData, ConnState, Frame, NoFrame, Command
  <2>2. g \in Seq(Session \X (0 .. MaxData))
    <3>1. got[e][k] \in Seq(Session \X (0 .. MaxData))
      BY <1>0, <2>1
    <3> HIDE DEF f, k
    <3> QED
      BY <2>1, <3>1
  <2>3. got' = [got EXCEPT ![e] = [got[e] EXCEPT ![k] = g]]
    BY <1>10 DEF CopyOk
  <2>4. got' \in [End -> [Session -> Seq(Session \X (0 .. MaxData))]]
    BY <2>1, <2>2, <2>3 DEF TypeOK
  <2>5. [conn[e] EXCEPT !.cur = NoFrame] \in ConnState
    BY <1>0 DEF ConnState
  <2>6. conn' \in [End -> ConnState]
    BY <1>10, <2>5 DEF CopyOk, Becomes, TypeOK
  <2> QED
    BY <1>10, <2>4, <2>6 DEF CopyOk, TypeOK
<1>11. CASE CopyErr(e)
  <2> DEFINE c == [conn[e] EXCEPT !.status = "Idle"]
  <2>0. c \in ConnState
    BY <1>0 DEF ConnState, Status
  <2>1. c \in ConnState /\ CloseStream(c) \in ConnState
    BY <2>0, CloseStreamType
  <2>2. CASE c.streamConn = None
    <3> DEFINE d == [c EXCEPT !.cur = NoFrame, !.handle =
                       IF e = "client" THEN "panic" ELSE "returned"]
    <3>1. d \in ConnState
      BY <2>1 DEF ConnState
    <3>2. Becomes(e, d) /\ UNCHANGED wire
      BY <1>11, <2>2 DEF CopyErr
    <3> QED
      BY <1>11, <3>1, <3>2 DEF CopyErr, Becomes, TypeOK, dataVars
  <2>3. CASE c.streamConn # None
    <3>1. conn' \in [End -> ConnState] /\ wire' \in [End -> Seq(Frame)]
      BY <1>0, <1>2, <1>11, <2>1, <2>3 DEF CopyErr, Command
    <3> QED
      BY <1>11, <3>1 DEF CopyErr, TypeOK, dataVars
  <2> QED
    BY <2>2, <2>3
<1>12. CASE HandleReadErr(e)
  <2> DEFINE c == [conn[e] EXCEPT !.handle = "returned"]
  <2>1. c \in ConnState /\ [c EXCEPT !.ctxDone = TRUE] \in ConnState
    BY <1>0 DEF ConnState
  <2>2. conn' \in [End -> ConnState] /\ wire' \in [End -> Seq(Frame)]
    <3>1. CASE Becomes(e, [c EXCEPT !.ctxDone = TRUE]) /\ UNCHANGED wire
      BY <2>1, <3>1 DEF Becomes, TypeOK
    <3>2. CASE closeWithCode(e, c, wire, "internalError")
      BY <1>0, <2>1, <3>2, CloseType DEF Command
    <3> QED
      BY <1>12, <3>1, <3>2 DEF HandleReadErr
  <2> QED
    BY <1>12, <2>2 DEF HandleReadErr, TypeOK, dataVars
<1> QED
  BY <1>3, <1>4, <1>5, <1>6, <1>7, <1>8, <1>9, <1>10, <1>11, <1>12 DEF Handle

(* Pings, Close and the environment.                                       *)
LEMMA OtherType ==
  ASSUME TypeOK,
         \/ \E e \in End : Ping(e) \/ Close(e)
         \/ CtxCancel \/ ParentCancel \/ Break
         \/ \E k \in Session : UserClose(k) \/ TargetEnd(k)
  PROVE  TypeOK'
<1> USE SessionFacts
<1>0. client \in ConnState /\ dial \in Dialing /\ "client" \in End
  BY DEF TypeOK, client, End
<1>1. ASSUME NEW e \in End, Ping(e)
      PROVE  TypeOK'
  <2> DEFINE c == [conn[e] EXCEPT !.ping = "ended"]
             d == [c EXCEPT !.status = "Closed", !.wsOpen = FALSE]
  <2>1. c \in ConnState
    <3>1. conn[e] \in ConnState
      BY DEF TypeOK
    <3> QED
      BY <3>1 DEF ConnState
  <2>1a. d \in ConnState
    BY <2>1, FlagTypes
  <2>2. Put(wire, e, Cmd("internalError")) \in [End -> Seq(Frame)]
    BY PutType, FrameFacts DEF Command, TypeOK
  <2>3. conn' \in [End -> ConnState] /\ wire' \in [End -> Seq(Frame)]
    <3>1. CASE Becomes(e, d) /\ wire' \in {Put(wire, e, Cmd("internalError")), wire}
      BY <2>1a, <2>2, <3>1 DEF Becomes, TypeOK
    <3>2. CASE closeWithCode(e, c, wire, "internalError")
      BY <2>1, <3>2, CloseType DEF Command, TypeOK
    <3> QED
      BY <1>1, <3>1, <3>2 DEF Ping
  <2> QED
    BY <1>1, <2>3 DEF Ping, TypeOK, dataVars
<1>2. ASSUME NEW e \in End, Close(e)
      PROVE  TypeOK'
  <2>1. conn' \in [End -> ConnState] /\ wire' \in [End -> Seq(Frame)]
    BY <1>2, CloseType DEF Close, Command, TypeOK
  <2> QED
    BY <1>2, <2>1 DEF Close, TypeOK, dataVars
<1>3. CASE CtxCancel
  BY <1>0, <1>3 DEF CtxCancel, TypeOK, Dialing, dataVars
<1>4. CASE ParentCancel
  <2>1. [client EXCEPT !.ctxDone = TRUE] \in ConnState
    BY <1>0 DEF ConnState
  <2> QED
    BY <1>4, <2>1 DEF ParentCancel, Becomes, TypeOK, dataVars
<1>5. CASE Break
  BY <1>5 DEF Break, TypeOK, dataVars
<1>6. ASSUME NEW k \in Session, UserClose(k)
      PROVE  TypeOK'
  <2>1. [client EXCEPT !.open = @ \ {k}] \in ConnState
    BY <1>0 DEF ConnState
  <2> QED
    BY <1>6, <2>1 DEF UserClose, Becomes, TypeOK, dataVars
<1>7. ASSUME NEW k \in Session, TargetEnd(k)
      PROVE  TypeOK'
  BY <1>7 DEF TargetEnd, TypeOK
<1> QED
  BY <1>1, <1>2, <1>3, <1>4, <1>5, <1>6, <1>7

(* The types hold at the start and every step keeps them.                  *)
LEMMA TypeInit == Init => TypeOK
BY SessionFacts DEF Init, TypeOK, ConnState, Status, Stream, Callback, NoCallback, NoFrame,
                    Dialing, Serving, ServePC, None

LEMMA TypeStep == TypeOK /\ [Next]_vars => TypeOK'
<1> SUFFICES ASSUME TypeOK, [Next]_vars PROVE TypeOK'
  OBVIOUS
<1>1. CASE Next
  BY <1>1, DialType, ServeType, HandleType, OtherType DEF Next, Step, ClientStep
<1>2. CASE UNCHANGED vars
  BY <1>2 DEF vars, dataVars, TypeOK
<1> QED
  BY <1>1, <1>2

(* Type correctness of the stream mode of Conn, for any number of dials,   *)
(* any amount of data and every environment.                               *)
THEOREM TypeCorrect == Spec => []TypeOK
BY TypeInit, TypeStep, PTL DEF Spec

-----------------------------------------------------------------------------
(* The inductive invariant behind NoOrphanStream.                          *)

(* What every Conn of end e satisfies.  The client, the only one who       *)
(* dials, is never asked to.  The server never calls closeAndWaitForIdle,  *)
(* whose callback would leave streamConn set in an Idle Conn; so it has no *)
(* stream when it takes the next open command.                             *)
EndSound(e, c) ==
  /\ c.open \subseteq {c.streamConn}
  /\ e = "client" => c.cur.t # "open"
  /\ e = "server" => /\ c.onResult.kind # "close"
                     /\ c.status = "Idle" => c.streamConn = None
                     /\ c.cur.t = "open" => c.streamConn = None

(* No open command is on its way to the client.                            *)
WireSound(w) == w["client"] \in Seq({f \in Frame : f.t # "open"})

(* A pipe that is open is the one of the last dial, and none is open while *)
(* DialContext runs: so the new pipe finds no other.                       *)
PipeOfLastDial ==
  /\ client.open \subseteq {dial.k}
  /\ dial.pc # "idle" => client.open = {}

(* No target ends its stream, so serveStream of the server sees no EOF.    *)
NoServerEOF ==
  \A k \in Session : /\ ended[k] # "eof"
                     /\ serve["server"][k].pc \notin {"eof", "setResult"}

OneStream ==
  /\ TypeOK
  /\ \A e \in End : EndSound(e, conn[e])
  /\ WireSound(wire)
  /\ PipeOfLastDial
  /\ NoServerEOF

(* Closing a Conn or sending a command keeps its end sound, touches no     *)
(* other end, opens no stream and asks the client for none.                *)
LEMMA PutSound ==
  ASSUME NEW w \in [End -> Seq(Frame)], WireSound(w), NEW e \in End, NEW f \in Frame,
         e = "server" => f.t # "open"
  PROVE  WireSound(Put(w, e, f))
<1>1. CASE e = "server"
  BY <1>1 DEF WireSound, Put, Peer, End
<1>2. CASE e = "client"
  BY <1>2 DEF WireSound, Put, Peer, End
<1> QED
  BY <1>1, <1>2 DEF End

LEMMA CloseSound ==
  ASSUME TypeOK, NEW e \in End, NEW c \in ConnState, EndSound(e, c),
         NEW w \in [End -> Seq(Frame)], WireSound(w), NEW code \in Command,
         closeWithCode(e, c, w, code)
  PROVE  /\ EndSound(e, conn'[e])
         /\ \A x \in End : x # e => conn'[x] = conn[x]
         /\ conn'[e].open \subseteq c.open
         /\ WireSound(wire')
<1> DEFINE d == [CloseStream(c) EXCEPT
                   !.status = "Closed", !.wsOpen = FALSE, !.ctxDone = TRUE]
<1>1. EndSound(e, d) /\ d.open \subseteq c.open
  BY DEF EndSound, CloseStream, ConnState
<1>2. Becomes(e, c) \/ Becomes(e, d)
  BY DEF closeWithCode
<1>3. WireSound(Put(w, e, Cmd(code)))
  BY PutSound, FrameFacts DEF Cmd, Command
<1>4. WireSound(wire')
  BY <1>3 DEF closeWithCode
<1> HIDE DEF d
<1> QED
  BY <1>1, <1>2, <1>4 DEF Becomes, TypeOK

LEMMA WriteSound ==
  ASSUME TypeOK, NEW e \in End, NEW c \in ConnState, EndSound(e, c),
         NEW w \in [End -> Seq(Frame)], WireSound(w), NEW f \in Frame,
         e = "server" => f.t # "open",
         Sent(e, c, w, f) \/ SendFails(e, c, w)
  PROVE  /\ EndSound(e, conn'[e])
         /\ \A x \in End : x # e => conn'[x] = conn[x]
         /\ conn'[e].open \subseteq c.open
         /\ WireSound(wire')
<1>1. CASE Sent(e, c, w, f)
  BY <1>1, PutSound DEF Sent, Becomes, TypeOK
<1>2. CASE SendFails(e, c, w)
  BY <1>2, CloseSound DEF SendFails, Command
<1> QED
  BY <1>1, <1>2

(* Assigning a Conn does the same if the Conn assigned is sound.           *)
LEMMA BecomesSound ==
  ASSUME TypeOK, NEW e \in End, NEW c, EndSound(e, c), Becomes(e, c)
  PROVE  /\ EndSound(e, conn'[e])
         /\ conn'[e] = c
         /\ \A x \in End : x # e => conn'[x] = conn[x]
BY DEF Becomes, TypeOK

(* A handler that ends with a command.                                     *)
LEMMA AnswerSound ==
  ASSUME TypeOK, NEW e \in End, NEW c \in ConnState,
         EndSound(e, [c EXCEPT !.cur = NoFrame]),
         NEW w \in [End -> Seq(Frame)], WireSound(w), NEW t \in Command,
         Answered(e, c, w, t) \/ AnswerFails(e, c, w)
  PROVE  /\ EndSound(e, conn'[e])
         /\ \A x \in End : x # e => conn'[x] = conn[x]
         /\ conn'[e].open \subseteq c.open
         /\ WireSound(wire')
<1> DEFINE a == [c EXCEPT !.cur = NoFrame]
           b == [c EXCEPT !.cur = NoFrame, !.handle = "returned"]
<1>1. a \in ConnState /\ a.open = c.open
  BY DEF ConnState
<1>2. b \in ConnState /\ b.open = c.open
  BY DEF ConnState
<1>3. EndSound(e, b)
  BY DEF EndSound, ConnState
<1>4. Cmd(t) \in Frame /\ Cmd(t).t # "open"
  BY FrameFacts DEF Cmd, Command
<1>5. Sent(e, a, w, Cmd(t)) \/ SendFails(e, b, w)
  BY DEF Answered, AnswerFails
<1> HIDE DEF a, b
<1>6. CASE Sent(e, a, w, Cmd(t))
  BY <1>1, <1>4, <1>6, WriteSound DEF a
<1>7. CASE SendFails(e, b, w)
  BY <1>2, <1>3, <1>4, <1>7, WriteSound
<1> QED
  BY <1>5, <1>6, <1>7

(* Taking a frame off the wire: the client gets no open command.           *)
LEMMA ReceivedSound ==
  ASSUME TypeOK, WireSound(wire), NEW e \in End, wire[e] # <<>>
  PROVE  /\ WireSound(Received(e))
         /\ e = "client" => Head(wire[e]).t # "open"
<1>1. CASE e = "client"
  BY <1>1 DEF TypeOK, WireSound, Received
<1>2. CASE e = "server"
  BY <1>2 DEF TypeOK, WireSound, Received
<1> QED
  BY <1>1, <1>2 DEF End

LEMMA GotoMoves ==
  ASSUME TypeOK, NEW e \in End, NEW k \in Session, NEW pc, Goto(e, k, pc)
  PROVE  \A x \in End, j \in Session :
           \/ serve'[x][j].pc = serve[x][j].pc
           \/ x = e /\ serve'[x][j].pc = pc
BY DEF TypeOK, Goto, Serving

LEMMA ServingMoves ==
  ASSUME TypeOK, NEW e \in End, NEW k \in Session, NEW t,
         serve' = [serve EXCEPT ![e] = [serve[e] EXCEPT ![k] = t]]
  PROVE  \A x \in End, j \in Session :
           serve'[x][j].pc = serve[x][j].pc \/ serve'[x][j].pc = t.pc
<1>1. \A x \in End, j \in Session :
        serve'[x][j] = serve[x][j] \/ serve'[x][j] = t
  BY DEF TypeOK
<1> QED
  BY <1>1

(* What is left to show of a step that changes one end, opens no pipe and  *)
(* does not move the call of DialContext.                                  *)
LEMMA StepSound ==
  ASSUME OneStream, TypeOK', NEW e \in End, EndSound(e, conn'[e]),
         \A x \in End : x # e => conn'[x] = conn[x],
         e = "client" => conn'[e].open \subseteq conn[e].open,
         WireSound(wire'), dial'.k = dial.k, dial'.pc = dial.pc, NoServerEOF'
  PROVE  OneStream'
<1>1. \A x \in End : EndSound(x, conn'[x])
  BY DEF OneStream
<1>2. client'.open \subseteq client.open
  BY DEF client, End
<1>3. PipeOfLastDial'
  BY <1>2 DEF OneStream, PipeOfLastDial
<1> QED
  BY <1>1, <1>3 DEF OneStream

(* Each action keeps the invariant: DialContext.                           *)
LEMMA DialSound ==
  ASSUME OneStream, TypeOK', DialSend \/ Dial
  PROVE  OneStream'
<1> USE DEF OneStream
<1>0. /\ client \in ConnState /\ dial \in Dialing /\ wire \in [End -> Seq(Frame)]
      /\ "client" \in End /\ "server" \in End /\ EndSound("client", client)
      /\ End = {"client", "server"}
  BY DEF TypeOK, client, End
<1>1. CASE DialSend
  <2> DEFINE k == dial.k + 1
             c == [client EXCEPT !.onResult = [kind |-> "dial", k |-> k]]
  <2>1. c \in ConnState /\ EndSound("client", c) /\ c.open = {}
    BY <1>0, <1>1 DEF DialSend, ConnState, Callback, EndSound, PipeOfLastDial
  <2>2. OpenCmd(k) \in Frame
    BY <1>1, FrameFacts DEF DialSend
  <2>3. Sent("client", c, wire, OpenCmd(k)) \/ SendFails("client", c, wire)
    BY <1>1 DEF DialSend
  <2>4. /\ EndSound("client", conn'["client"]) /\ conn'["server"] = conn["server"]
        /\ conn'["client"].open \subseteq c.open /\ WireSound(wire')
    BY <1>0, <2>1, <2>2, <2>3, WriteSound
  <2>5. PipeOfLastDial'
    BY <2>1, <2>4 DEF PipeOfLastDial, client
  <2> QED
    BY <1>0, <1>1, <2>4, <2>5 DEF DialSend, NoServerEOF, dataVars
<1>2. CASE DialInOper
  <2> DEFINE c == [client EXCEPT !.status = "InOper"]
  <2>1. EndSound("client", c) /\ c.open = client.open
    BY <1>0 DEF EndSound, ConnState
  <2>2. EndSound("client", conn'["client"]) /\ conn'["server"] = conn["server"]
    BY <1>0, <1>2, <2>1, BecomesSound DEF DialInOper
  <2>3. conn'["client"].open = client.open
    BY <1>0, <1>2, <2>1, BecomesSound DEF DialInOper
  <2>4. PipeOfLastDial'
    BY <1>0, <1>2, <2>3 DEF DialInOper, PipeOfLastDial, client, Dialing
  <2> QED
    BY <1>0, <1>2, <2>2, <2>4 DEF DialInOper, NoServerEOF, dataVars
<1>3. CASE DialResult
  <2> DEFINE c == [client EXCEPT !.status = "Idle"]
  <2>1. EndSound("client", c) /\ c.open = client.open
    BY <1>0 DEF EndSound, ConnState
  <2>2. CASE Becomes("client", c)
    <3>1. EndSound("client", conn'["client"]) /\ conn'["server"] = conn["server"]
      BY <1>0, <2>1, <2>2, BecomesSound
    <3>2. conn'["client"].open = client.open
      BY <1>0, <2>1, <2>2, BecomesSound
    <3>3. PipeOfLastDial'
      BY <1>0, <1>3, <3>2 DEF DialResult, PipeOfLastDial, client, Dialing
    <3> QED
      BY <1>0, <1>3, <3>1, <3>3 DEF DialResult, NoServerEOF, dataVars
  <2>3. CASE UNCHANGED conn
    <3>1. PipeOfLastDial'
      BY <1>0, <1>3, <2>3 DEF DialResult, PipeOfLastDial, client, Dialing
    <3> QED
      BY <1>0, <1>3, <2>3, <3>1 DEF DialResult, NoServerEOF, dataVars
  <2> QED
    BY <1>3, <2>2, <2>3 DEF DialResult
<1>4. CASE DialCancel
  <2> DEFINE c == [client EXCEPT !.status = "Idle", !.onResult = NoCallback]
  <2>1. EndSound("client", c) /\ c.open = client.open
    BY <1>0 DEF EndSound, ConnState
  <2>2. EndSound("client", conn'["client"]) /\ conn'["server"] = conn["server"]
    BY <1>0, <1>4, <2>1, BecomesSound DEF DialCancel
  <2>3. conn'["client"].open = client.open
    BY <1>0, <1>4, <2>1, BecomesSound DEF DialCancel
  <2>4. PipeOfLastDial'
    BY <1>0, <1>4, <2>3 DEF DialCancel, PipeOfLastDial, client, Dialing
  <2> QED
    BY <1>0, <1>4, <2>2, <2>4 DEF DialCancel, NoServerEOF, dataVars
<1>5. CASE DialConnDone
  <2>1. PipeOfLastDial'
    BY <1>0, <1>5 DEF DialConnDone, PipeOfLastDial, client, Dialing
  <2> QED
    BY <1>5, <2>1 DEF DialConnDone, NoServerEOF, dataVars
<1>6. CASE DialAccept
  <2> DEFINE c == NewPipe(client, dial.k)
  <2>1. dial.k \in Session /\ client.open = {}
    BY <1>0, <1>6 DEF DialAccept, Dialing, Stream, PipeOfLastDial
  <2>2. EndSound("client", c) /\ c.open = {dial.k}
    BY <1>0, <2>1 DEF NewPipe, EndSound, ConnState
  <2> HIDE DEF c
  <2>3. EndSound("client", conn'["client"]) /\ conn'["server"] = conn["server"]
    BY <1>0, <1>6, <2>2, BecomesSound DEF DialAccept, c
  <2>4. conn'["client"].open = {dial.k}
    BY <1>0, <1>6, <2>2, BecomesSound DEF DialAccept, c
  <2>5. PipeOfLastDial'
    BY <1>0, <1>6, <2>4 DEF DialAccept, PipeOfLastDial, client, Dialing
  <2>6. Goto("client", dial.k, "start")
    BY <1>6 DEF DialAccept, Goto
  <2>7. NoServerEOF'
    BY <1>0, <1>6, <2>1, <2>6, GotoMoves DEF DialAccept, NoServerEOF, dataVars
  <2> QED
    BY <1>0, <1>6, <2>3, <2>5, <2>7 DEF DialAccept
<1> QED
  BY <1>1, <1>2, <1>3, <1>4, <1>5, <1>6 DEF Dial

(* serveStream.                                                            *)
LEMMA ServeSound ==
  ASSUME OneStream, TypeOK', NEW e \in End, NEW k \in Session,
         serveStream(e, k) \/ ServeReadData(e, k)
  PROVE  OneStream'
<1> USE DEF OneStream
<1> DEFINE s == serve[e][k]
<1>0. /\ conn[e] \in ConnState /\ wire \in [End -> Seq(Frame)]
      /\ EndSound(e, conn[e])
  BY DEF TypeOK
<1>s. s \in Serving
  BY DEF TypeOK
<1>1. ASSUME NEW pc, Goto(e, k, pc), UNCHANGED dataVars,
             e = "server" => pc \notin {"eof", "setResult"}
      PROVE  NoServerEOF'
  BY <1>1, GotoMoves DEF NoServerEOF, dataVars, End
<1>2. ASSUME UNCHANGED <<conn, wire, dial>>, NoServerEOF'
      PROVE  OneStream'
  BY <1>2 DEF PipeOfLastDial, client
<1>3. CASE ServeStart(e, k)
  <2>1. \A x \in End, j \in Session :
          serve'[x][j].pc = serve[x][j].pc \/ serve'[x][j].pc = "check"
    <3> DEFINE t == [s EXCEPT !.pc = "check", !.conn = conn[e].streamConn]
    <3>1. t.pc = "check"
      BY <1>s DEF Serving
    <3>2. serve' = [serve EXCEPT ![e] = [serve[e] EXCEPT ![k] = t]]
      BY <1>3 DEF ServeStart
    <3> HIDE DEF t
    <3> QED
      BY <3>1, <3>2, ServingMoves
  <2> QED
    BY <1>2, <1>3, <2>1 DEF ServeStart, NoServerEOF, dataVars, End
<1>4. CASE ServeCheck(e, k)
  BY <1>1, <1>2, <1>4 DEF ServeCheck
<1>5. CASE ServeReadData(e, k)
  <2>1. \A x \in End, j \in Session :
          serve'[x][j].pc = serve[x][j].pc \/ serve'[x][j].pc = "write"
    <3> DEFINE t == [s EXCEPT !.pc = "write", !.n = sent[e][s.conn] + 1]
    <3>1. t.pc = "write"
      BY <1>s DEF Serving
    <3>2. serve' = [serve EXCEPT ![e] = [serve[e] EXCEPT ![k] = t]]
      BY <1>5 DEF ServeReadData
    <3> HIDE DEF t
    <3> QED
      BY <3>1, <3>2, ServingMoves
  <2> QED
    BY <1>2, <1>5, <2>1 DEF ServeReadData, NoServerEOF, End
<1>6. CASE ServeReadErr(e, k)
  <2>1. e = "server" => ReadError(e, s.conn) = "fail"
    <3>1. s.conn \in conn[e].open => s.conn \in Session
      BY <1>0 DEF ConnState
    <3> QED
      BY <3>1 DEF ReadError, NoServerEOF
  <2> QED
    BY <1>1, <1>2, <1>6, <2>1 DEF ServeReadErr
<1>7. CASE ServeStatus(e, k)
  <2>1. e = "server" => s.pc # "eof"
    BY DEF NoServerEOF
  <2> QED
    BY <1>1, <1>2, <1>7, <2>1 DEF ServeStatus
<1>8. CASE ServeSetResult(e, k)
  <2> DEFINE c == [conn[e] EXCEPT !.onResult = [kind |-> "close", k |-> k]]
  <2>1. e = "client"
    BY <1>8 DEF ServeSetResult, NoServerEOF, End
  <2>2. EndSound(e, c) /\ c.open = conn[e].open
    BY <1>0, <2>1 DEF EndSound, ConnState
  <2>3. /\ EndSound(e, conn'[e]) /\ conn'[e].open = conn[e].open
        /\ \A x \in End : x # e => conn'[x] = conn[x]
    BY <1>8, <2>2, BecomesSound DEF ServeSetResult
  <2>4. NoServerEOF'
    BY <1>1, <1>8, <2>1 DEF ServeSetResult
  <2> QED
    BY <1>8, <2>3, <2>4, StepSound DEF ServeSetResult
<1>9. CASE ServeWait(e, k)
  BY <1>1, <1>2, <1>9 DEF ServeWait
<1>10. CASE ServeReturn(e, k)
  <2> DEFINE c == [conn[e] EXCEPT !.open = @ \ {s.conn}]
  <2>1. EndSound(e, c) /\ c.open \subseteq conn[e].open
    BY <1>0 DEF EndSound, ConnState
  <2>2. /\ EndSound(e, conn'[e]) /\ conn'[e].open \subseteq conn[e].open
        /\ \A x \in End : x # e => conn'[x] = conn[x]
    BY <1>10, <2>1, BecomesSound DEF ServeReturn
  <2>3. NoServerEOF'
    BY <1>1, <1>10 DEF ServeReturn
  <2> QED
    BY <1>10, <2>2, <2>3, StepSound DEF ServeReturn
<1>11. CASE ServeWrite(e, k) \/ ServeSendErr(e, k) \/ ServeSendClose(e, k)
  <2>1. PICK f \in Frame : /\ f.t # "open"
                           /\ Sent(e, conn[e], wire, f) \/ SendFails(e, conn[e], wire)
    <3>1. CASE ServeWrite(e, k)
      <4>1. s.conn \in Session /\ s.n \in 0 .. MaxData
        BY <1>s, <3>1 DEF ServeWrite, Serving, Stream
      <4>2. Chunk(s.conn, s.n) \in Frame /\ Chunk(s.conn, s.n).t # "open"
        BY <4>1, FrameFacts DEF Chunk
      <4> QED
        BY <3>1, <4>2 DEF ServeWrite
    <3>2. CASE ServeSendErr(e, k) \/ ServeSendClose(e, k)
      <4>1. \A t \in {"error", "close"} : Cmd(t) \in Frame /\ Cmd(t).t # "open"
        BY FrameFacts DEF Cmd, Command
      <4> QED
        BY <3>2, <4>1 DEF ServeSendErr, ServeSendClose
    <3> QED
      BY <1>11, <3>1, <3>2
  <2>2. /\ EndSound(e, conn'[e]) /\ \A x \in End : x # e => conn'[x] = conn[x]
        /\ conn'[e].open \subseteq conn[e].open /\ WireSound(wire')
    BY <1>0, <2>1, WriteSound
  <2>3. NoServerEOF' /\ UNCHANGED dial
    BY <1>1, <1>11 DEF ServeWrite, ServeSendErr, ServeSendClose
  <2> QED
    BY <2>2, <2>3, StepSound
<1> QED
  BY <1>3, <1>4, <1>5, <1>6, <1>7, <1>8, <1>9, <1>10, <1>11 DEF serveStream

(* Handle.                                                                 *)
LEMMA HandleSound ==
  ASSUME OneStream, TypeOK', NEW e \in End, Handle(e) \/ CopyOk(e)
  PROVE  OneStream'
<1> USE DEF OneStream
<1> DEFINE c == conn[e]
<1>0. /\ c \in ConnState /\ wire \in [End -> Seq(Frame)] /\ dial \in Dialing
      /\ EndSound(e, c) /\ e \in {"client", "server"}
  BY DEF TypeOK, End
<1>1. ASSUME NEW t, AtHead(e, t)
      PROVE  /\ Received(e) \in [End -> Seq(Frame)] /\ Head(wire[e]) \in Frame
             /\ Head(wire[e]).t = t /\ c.cur = NoFrame
             /\ WireSound(Received(e)) /\ (e = "client" => t # "open")
  BY <1>1, ReceivedType, ReceivedSound DEF AtHead, Reading
<1>2. ASSUME UNCHANGED <<serve, ended>>
      PROVE  NoServerEOF'
  BY <1>2 DEF NoServerEOF
<1>3. CASE HandleClose(e)
  <2> DEFINE d == CloseStream([c EXCEPT !.status = "Idle"])
  <2>1. d \in ConnState /\ EndSound(e, [d EXCEPT !.cur = NoFrame])
    BY <1>0, SessionFacts DEF CloseStream, ConnState, Status, Stream, EndSound, NoFrame
  <2>2. d.open \subseteq c.open
    BY <1>0 DEF CloseStream, ConnState
  <2>3. Answered(e, d, Received(e), "reply") \/ AnswerFails(e, d, Received(e))
    BY <1>3 DEF HandleClose
  <2>4. Received(e) \in [End -> Seq(Frame)] /\ WireSound(Received(e))
    BY <1>1, <1>3 DEF HandleClose, Incoming
  <2>5. /\ EndSound(e, conn'[e]) /\ WireSound(wire') /\ conn'[e].open \subseteq d.open
        /\ \A x \in End : x # e => conn'[x] = conn[x]
    <3> HIDE DEF d
    <3> QED
      BY <2>1, <2>3, <2>4, AnswerSound DEF Command
  <2> QED
    BY <1>2, <1>3, <2>2, <2>5, StepSound DEF HandleClose, dataVars
<1>4. CASE HandleOpen(e)
  <2> DEFINE d == [c EXCEPT !.cur = Head(wire[e])]
  <2>1. /\ Received(e) \in [End -> Seq(Frame)] /\ WireSound(Received(e))
        /\ e = "server"
    BY <1>0, <1>1, <1>4 DEF HandleOpen, Incoming
  <2>2. CASE c.status # "Idle"
    <3>1. closeWithCode(e, c, Received(e), "internalError")
      BY <1>4, <2>2 DEF HandleOpen
    <3>2. /\ EndSound(e, conn'[e]) /\ WireSound(wire') /\ conn'[e].open \subseteq c.open
          /\ \A x \in End : x # e => conn'[x] = conn[x]
      BY <1>0, <2>1, <3>1, CloseSound DEF Command
    <3> QED
      BY <1>2, <1>4, <3>2, StepSound DEF HandleOpen, dataVars
  <2>3. CASE c.status = "Idle"
    <3>1. EndSound(e, d) /\ d.open = c.open
      BY <1>0, <2>1, <2>3 DEF EndSound, ConnState
    <3>2. Becomes(e, d) /\ wire' = Received(e)
      BY <1>4, <2>3 DEF HandleOpen
    <3>3. /\ EndSound(e, conn'[e]) /\ conn'[e].open = c.open
          /\ \A x \in End : x # e => conn'[x] = conn[x]
      <4> HIDE DEF d
      <4> QED
        BY <3>1, <3>2, BecomesSound
    <3> QED
      BY <1>2, <1>4, <2>1, <3>2, <3>3, StepSound DEF HandleOpen, dataVars
  <2> QED
    BY <2>2, <2>3
<1>5. CASE DialTargetOk(e)
  <2> DEFINE k == c.cur.k
             d == [c EXCEPT !.status = "Stream", !.streamConn = k,
                            !.open = @ \cup {k}]
  <2>1. c.cur.t = "open" /\ e = "server"
    BY <1>0, <1>5 DEF DialTargetOk, EndSound
  <2>2. k \in Session /\ c.open = {}
    BY <1>0, <2>1, SessionFacts DEF ConnState, EndSound, Frame, NoFrame, Command
  <2>3. d \in ConnState
    BY <1>0, <2>2 DEF ConnState, Status, Stream
  <2>4. EndSound(e, [d EXCEPT !.cur = NoFrame])
    BY <1>0, <2>2 DEF ConnState, EndSound, NoFrame
  <2>5. Answered(e, d, wire, "replyTrue") \/ AnswerFails(e, d, wire)
    BY <1>5 DEF DialTargetOk
  <2>6. /\ EndSound(e, conn'[e]) /\ WireSound(wire')
        /\ \A x \in End : x # e => conn'[x] = conn[x]
    <3> HIDE DEF d
    <3> QED
      BY <1>0, <2>3, <2>4, <2>5, AnswerSound DEF Command
  <2>7. NoServerEOF'
    <3>1. CASE Goto(e, k, "start")
      BY <1>5, <2>2, <3>1, GotoMoves DEF DialTargetOk, NoServerEOF, dataVars, End
    <3>2. CASE UNCHANGED serve
      BY <1>2, <1>5, <3>2 DEF DialTargetOk, dataVars
    <3> QED
      BY <1>5, <3>1, <3>2 DEF DialTargetOk
  <2> QED
    BY <1>5, <2>1, <2>6, <2>7, StepSound DEF DialTargetOk
<1>6. CASE DialTargetErr(e)
  <2>1. EndSound(e, [c EXCEPT !.cur = NoFrame])
    BY <1>0 DEF EndSound, ConnState, NoFrame
  <2>2. /\ EndSound(e, conn'[e]) /\ WireSound(wire') /\ conn'[e].open \subseteq c.open
        /\ \A x \in End : x # e => conn'[x] = conn[x]
    BY <1>0, <1>6, <2>1, AnswerSound DEF DialTargetErr, Command
  <2> QED
    BY <1>2, <1>6, <2>2, StepSound DEF DialTargetErr, dataVars
<1>7. CASE HandleReply(e)
  <2> DEFINE cb == c.onResult
             d == [c EXCEPT !.onResult = NoCallback,
                            !.status = IF cb.kind = "close" THEN "Idle" ELSE @]
  <2>1. EndSound(e, d) /\ d.open = c.open
    BY <1>0 DEF EndSound, ConnState, NoCallback
  <2>2. Becomes(e, d) /\ wire' = Received(e) /\ WireSound(Received(e))
    BY <1>1, <1>7 DEF HandleReply, Incoming
  <2>3. /\ EndSound(e, conn'[e]) /\ conn'[e].open = c.open
        /\ \A x \in End : x # e => conn'[x] = conn[x]
    <3> HIDE DEF d
    <3> QED
      BY <2>1, <2>2, BecomesSound
  <2>4. dial'.k = dial.k /\ dial'.pc = dial.pc
    BY <1>0, <1>7 DEF HandleReply, Dialing
  <2>5. NoServerEOF'
    <3>1. CASE cb.kind = "close"
      <4>1. e = "client" /\ cb.k \in Session
        BY <1>0, <3>1 DEF EndSound, ConnState, Callback, NoCallback
      <4>2. serve' = [serve EXCEPT ![e] = [serve[e] EXCEPT ![cb.k] =
                        [serve[e][cb.k] EXCEPT !.done = TRUE]]]
        BY <1>7, <3>1 DEF HandleReply
      <4>3. serve'["server"] = serve["server"]
        BY <4>1, <4>2 DEF TypeOK, End
      <4> QED
        BY <1>7, <4>3 DEF HandleReply, NoServerEOF, dataVars
    <3>2. CASE cb.kind # "close"
      BY <1>2, <1>7, <3>2 DEF HandleReply, dataVars
    <3> QED
      BY <3>1, <3>2
  <2> QED
    BY <2>2, <2>3, <2>4, <2>5, StepSound
<1>8. CASE HandleError(e)
  <2> DEFINE d == [c EXCEPT !.open = @ \ {c.onCmdErr}, !.onCmdErr = None]
  <2>1. EndSound(e, d) /\ d.open \subseteq c.open
    BY <1>0 DEF EndSound, ConnState
  <2>2. Becomes(e, d) \/ UNCHANGED conn
    BY <1>8 DEF HandleError
  <2>3. wire' = Received(e) /\ WireSound(Received(e))
    BY <1>1, <1>8 DEF HandleError, Incoming
  <2>4. /\ EndSound(e, conn'[e]) /\ conn'[e].open \subseteq c.open
        /\ \A x \in End : x # e => conn'[x] = conn[x]
    <3> HIDE DEF d
    <3> QED
      BY <1>0, <2>1, <2>2, BecomesSound
  <2> QED
    BY <1>2, <1>8, <2>3, <2>4, StepSound DEF HandleError, dataVars
<1>9. CASE HandleData(e)
  <2> DEFINE d == [c EXCEPT !.cur = Head(wire[e])]
  <2>1. /\ wire' = Received(e) /\ WireSound(Received(e))
        /\ Head(wire[e]).t = "data"
    BY <1>1, <1>9 DEF HandleData, Incoming
  <2>2. EndSound(e, d) /\ d.open = c.open
    BY <1>0, <2>1 DEF EndSound, ConnState
  <2>3. Becomes(e, d) \/ UNCHANGED conn
    BY <1>9 DEF HandleData
  <2>4. /\ EndSound(e, conn'[e]) /\ conn'[e].open = c.open
        /\ \A x \in End : x # e => conn'[x] = conn[x]
    <3> HIDE DEF d
    <3> QED
      BY <1>0, <2>2, <2>3, BecomesSound
  <2> QED
    BY <1>2, <1>9, <2>1, <2>4, StepSound DEF HandleData, dataVars
<1>10. CASE CopyOk(e)
  <2> DEFINE d == [c EXCEPT !.cur = NoFrame]
  <2>1. EndSound(e, d) /\ d.open = c.open
    BY <1>0 DEF EndSound, ConnState, NoFrame
  <2>2. /\ EndSound(e, conn'[e]) /\ conn'[e].open = c.open
        /\ \A x \in End : x # e => conn'[x] = conn[x]
    <3>1. Becomes(e, d)
      BY <1>10 DEF CopyOk
    <3> HIDE DEF d
    <3> QED
      BY <2>1, <3>1, BecomesSound
  <2> QED
    BY <1>2, <1>10, <2>2, StepSound DEF CopyOk
<1>11. CASE CopyErr(e)
  <2> DEFINE i == [c EXCEPT !.status = "Idle"]
  <2>1. CASE c.streamConn = None
    <3> DEFINE d == [i EXCEPT !.cur = NoFrame, !.handle =
                       IF e = "client" THEN "panic" ELSE "returned"]
    <3>1. EndSound(e, d) /\ d.open = c.open
      BY <1>0, <2>1 DEF EndSound, ConnState, NoFrame
    <3>2. Becomes(e, d) /\ UNCHANGED wire
      BY <1>0, <1>11, <2>1 DEF CopyErr, ConnState
    <3>3. /\ EndSound(e, conn'[e]) /\ conn'[e].open = c.open
          /\ \A x \in End : x # e => conn'[x] = conn[x]
      <4> HIDE DEF d
      <4> QED
        BY <3>1, <3>2, BecomesSound
    <3> QED
      BY <1>2, <1>11, <3>2, <3>3, StepSound DEF CopyErr, dataVars
  <2>2. CASE c.streamConn # None
    <3> DEFINE d == CloseStream(i)
    <3>1. d \in ConnState /\ EndSound(e, [d EXCEPT !.cur = NoFrame])
      BY <1>0, SessionFacts DEF CloseStream, ConnState, Status, Stream, EndSound, NoFrame
    <3>2. d.open \subseteq c.open
      BY <1>0 DEF CloseStream, ConnState
    <3>3. Answered(e, d, wire, "error") \/ AnswerFails(e, d, wire)
      BY <1>0, <1>11, <2>2 DEF CopyErr, ConnState
    <3>4. /\ EndSound(e, conn'[e]) /\ WireSound(wire') /\ conn'[e].open \subseteq d.open
          /\ \A x \in End : x # e => conn'[x] = conn[x]
      <4> HIDE DEF d
      <4> QED
        BY <1>0, <3>1, <3>3, AnswerSound DEF Command
    <3> QED
      BY <1>2, <1>11, <3>2, <3>4, StepSound DEF CopyErr, dataVars
  <2> QED
    BY <2>1, <2>2
<1>12. CASE HandleReadErr(e)
  <2> DEFINE d == [c EXCEPT !.handle = "returned"]
             x == [d EXCEPT !.ctxDone = TRUE]
  <2>1. d \in ConnState /\ EndSound(e, d) /\ d.open = c.open
    BY <1>0 DEF EndSound, ConnState
  <2>2. EndSound(e, x) /\ x.open = c.open
    BY <1>0 DEF EndSound, ConnState
  <2>3. \/ Becomes(e, x) /\ UNCHANGED wire
        \/ closeWithCode(e, d, wire, "internalError")
    BY <1>12 DEF HandleReadErr
  <2>4. /\ EndSound(e, conn'[e]) /\ WireSound(wire') /\ conn'[e].open \subseteq c.open
        /\ \A y \in End : y # e => conn'[y] = conn[y]
    <3> HIDE DEF d, x
    <3> QED
      BY <1>0, <2>1, <2>2, <2>3, BecomesSound, CloseSound DEF Command
  <2> QED
    BY <1>2, <1>12, <2>4, StepSound DEF HandleReadErr, dataVars
<1> QED
  BY <1>3, <1>4, <1>5, <1>6, <1>7, <1>8, <1>9, <1>10, <1>11, <1>12 DEF Handle

(* Pings, Close and an environment in which no target ends its stream.     *)
LEMMA OtherSound ==
  ASSUME OneStream, TypeOK', "targetEOF" \notin Env,
         \/ \E e \in End : Ping(e) \/ Close(e)
         \/ CtxCancel \/ ParentCancel \/ Break
         \/ \E k \in Session : UserClose(k) \/ TargetEnd(k)
  PROVE  OneStream'
<1> USE DEF OneStream
<1>0. /\ client \in ConnState /\ dial \in Dialing /\ wire \in [End -> Seq(Frame)]
      /\ "client" \in End /\ EndSound("client", client) /\ client = conn["client"]
  BY DEF TypeOK, client, End
<1>1. ASSUME UNCHANGED <<serve, ended>>
      PROVE  NoServerEOF'
  BY <1>1 DEF NoServerEOF
<1>2. ASSUME NEW e \in End, Ping(e)
      PROVE  OneStream'
  <2> DEFINE c == [conn[e] EXCEPT !.ping = "ended"]
             d == [c EXCEPT !.status = "Closed", !.wsOpen = FALSE]
  <2>0. conn[e] \in ConnState /\ EndSound(e, conn[e])
    BY DEF TypeOK
  <2>1. c \in ConnState /\ EndSound(e, c) /\ c.open = conn[e].open
    BY <2>0 DEF EndSound, ConnState
  <2>2. EndSound(e, d) /\ d.open = conn[e].open
    BY <2>0 DEF EndSound, ConnState
  <2>3. WireSound(Put(wire, e, Cmd("internalError")))
    BY <1>0, PutSound, FrameFacts DEF Cmd, Command
  <2>4. \/ /\ Becomes(e, d)
           /\ wire' \in {Put(wire, e, Cmd("internalError")), wire}
        \/ closeWithCode(e, c, wire, "internalError")
    BY <1>2 DEF Ping
  <2>5. /\ EndSound(e, conn'[e]) /\ WireSound(wire') /\ conn'[e].open \subseteq conn[e].open
        /\ \A x \in End : x # e => conn'[x] = conn[x]
    <3> HIDE DEF c, d
    <3> QED
      BY <1>0, <2>1, <2>2, <2>3, <2>4, BecomesSound, CloseSound DEF Command
  <2> QED
    BY <1>1, <1>2, <2>5, StepSound DEF Ping, dataVars
<1>3. ASSUME NEW e \in End, Close(e)
      PROVE  OneStream'
  <2>1. conn[e] \in ConnState /\ EndSound(e, conn[e])
    BY DEF TypeOK
  <2>2. /\ EndSound(e, conn'[e]) /\ WireSound(wire') /\ conn'[e].open \subseteq conn[e].open
        /\ \A x \in End : x # e => conn'[x] = conn[x]
    BY <1>0, <1>3, <2>1, CloseSound DEF Close, Command
  <2> QED
    BY <1>1, <1>3, <2>2, StepSound DEF Close, dataVars
<1>4. CASE CtxCancel
  <2>1. dial'.k = dial.k /\ dial'.pc = dial.pc
    BY <1>0, <1>4 DEF CtxCancel, Dialing
  <2> QED
    BY <1>0, <1>1, <1>4, <2>1, StepSound DEF CtxCancel, dataVars
<1>5. CASE ParentCancel
  <2> DEFINE c == [client EXCEPT !.ctxDone = TRUE]
  <2>1. EndSound("client", c) /\ c.open = client.open
    BY <1>0 DEF EndSound, ConnState
  <2>2. /\ EndSound("client", conn'["client"])
        /\ conn'["client"].open = conn["client"].open
        /\ \A x \in End : x # "client" => conn'[x] = conn[x]
    BY <1>0, <1>5, <2>1, BecomesSound DEF ParentCancel
  <2> QED
    BY <1>0, <1>1, <1>5, <2>2, StepSound DEF ParentCancel, dataVars
<1>6. CASE Break
  BY <1>0, <1>1, <1>6, StepSound DEF Break, dataVars
<1>7. ASSUME NEW k \in Session, UserClose(k)
      PROVE  OneStream'
  <2> DEFINE c == [client EXCEPT !.open = @ \ {k}]
  <2>1. EndSound("client", c) /\ c.open \subseteq client.open
    BY <1>0 DEF EndSound, ConnState
  <2>2. /\ EndSound("client", conn'["client"])
        /\ conn'["client"].open \subseteq conn["client"].open
        /\ \A x \in End : x # "client" => conn'[x] = conn[x]
    BY <1>0, <1>7, <2>1, BecomesSound DEF UserClose
  <2> QED
    BY <1>0, <1>1, <1>7, <2>2, StepSound DEF UserClose, dataVars
<1>8. ASSUME NEW k \in Session, TargetEnd(k)
      PROVE  OneStream'
  <2>1. ended' = [ended EXCEPT ![k] = "reset"] /\ UNCHANGED <<conn, wire, dial, serve>>
    BY <1>8 DEF TargetEnd
  <2>2. NoServerEOF'
    BY <2>1 DEF NoServerEOF, TypeOK
  <2> QED
    BY <1>0, <2>1, <2>2, StepSound
<1> QED
  BY <1>2, <1>3, <1>4, <1>5, <1>6, <1>7, <1>8

(* The invariant holds at the start and every step keeps it.               *)
LEMMA OneStreamInit == Init => OneStream
<1> SUFFICES ASSUME Init PROVE OneStream
  OBVIOUS
<1>1. TypeOK
  BY TypeInit
<1>2. /\ \A e \in End : EndSound(e, conn[e])
      /\ PipeOfLastDial /\ NoServerEOF
  BY DEF Init, EndSound, PipeOfLastDial, NoServerEOF, client, NoFrame, NoCallback, None, End
<1>3. WireSound(wire)
  BY DEF Init, WireSound, End
<1> QED
  BY <1>1, <1>2, <1>3 DEF OneStream

LEMMA OneStreamStep ==
  ASSUME "targetEOF" \notin Env
  PROVE  OneStream /\ [Next]_vars => OneStream'
<1> SUFFICES ASSUME OneStream, [Next]_vars PROVE OneStream'
  OBVIOUS
<1>1. TypeOK'
  BY TypeStep DEF OneStream
<1>2. CASE Next
  BY <1>1, <1>2, DialSound, ServeSound, HandleSound, OtherSound
  DEF Next, Step, ClientStep
<1>3. CASE UNCHANGED vars
  BY <1>3 DEF vars, dataVars, OneStream, TypeOK, PipeOfLastDial, NoServerEOF, client
<1> QED
  BY <1>2, <1>3

(* With targets that do not end their stream first, a Conn never leaves a  *)
(* pipe or a connection to a target open behind: whatever the number of    *)
(* dials and chunks, and whether streams are closed or reset, dials fail   *)
(* or are cancelled, or the connection, a process or the Conn goes away.   *)
THEOREM NoStreamLeaks ==
  ASSUME "targetEOF" \notin Env
  PROVE  Spec => []NoOrphanStream
<1>1. OneStream => NoOrphanStream
  BY DEF OneStream, NoOrphanStream, EndSound
<1> QED
  BY <1>1, OneStreamInit, OneStreamStep, PTL DEF Spec

-----------------------------------------------------------------------------
(* StreamIntegrity of the first stream of a Conn. The chunks between two   *)
(* ends are a counting argument: Written(e) were read by the peer, Top(e)  *)
(* of them were sent, Have(e) were taken from the wire; the chunks on the  *)
(* wire carry the numbers in between, each behind its predecessor. The     *)
(* steps that neither send nor take a chunk, nor open the stream, are Calm *)
(* and keep all of it; eight actions remain.                               *)

(* The goroutine that sends to e, what it has read, and how much of it has *)
(* been sent; what e has received; a stream into which e copies.           *)
Writer(e) == serve[Peer(e)][1]
Written(e) == sent[Peer(e)][1]
Top(e) == IF Writer(e).pc = "write" THEN Written(e) - 1 ELSE Written(e)
Have(e) == IF conn[e].cur.t = "data" THEN Len(got[e][1]) + 1 ELSE Len(got[e][1])
Flowing(e) == conn[e].status = "Stream" /\ conn[e].streamConn # None
Early == {"none", "start", "check"}
Live == Early \cup {"read", "write"}

(* Every frame is one of the first stream.                                 *)
OfFirst(w) == \A i \in 1 .. Len(w) : w[i].k \in {None, 1}

(* Only the first dial was made.                                           *)
FirstOnly ==
  /\ dial.k \in {None, 1} /\ 1 \in Session
  /\ \A e \in End :
       /\ conn[e].streamConn \in {None, 1}
       /\ conn[e].cur.k \in {None, 1}
       /\ OfFirst(wire[e])
       /\ serve[e][1].conn \in {None, 1}
       /\ \A k \in Session : k # 1 => serve[e][k].pc = "none" /\ got[e][k] = <<>>

(* A wire that holds a command t, and one that holds one open command at  *)
(* most.                                                                   *)
Has(w, t) == \E i \in 1 .. Len(w) : w[i].t = t
OneOpen(w) ==
  \A i, j \in 1 .. Len(w) : w[i].t = "open" /\ w[j].t = "open" => i = j

(* The server has yet to answer the open command.                          *)
Unopened ==
  \/ dial.k = 0
  \/ Has(wire["server"], "open")
  \/ conn["server"].cur.t = "open"

(* How far the first dial has come: until the server answered it no stream *)
(* exists at either end, and until DialContext made the pipe the client    *)
(* serves none; there is one open command, and none for the client.        *)
Opening ==
  /\ client.cur.t # "open" /\ ~Has(wire["client"], "open")
  /\ conn["server"].onResult.kind # "dial"
  /\ dial.k = 0 => /\ dial.pc = "idle" /\ ~Has(wire["server"], "open")
                   /\ conn["server"].cur.t # "open"
  /\ OneOpen(wire["server"])
  /\ conn["server"].cur.t = "open" => ~Has(wire["server"], "open")
  /\ Unopened =>
       /\ conn["server"].status # "Stream" /\ serve["server"][1].pc = "none"
       /\ ~Has(wire["client"], "replyTrue")
       /\ dial.res # "ok" /\ dial.pc # "accepted"
       /\ serve["client"][1].pc = "none"
  /\ dial.pc # "idle" => serve["client"][1].pc = "none"

(* The chunks on a wire: their numbers, that each follows its predecessor, *)
(* or what was received, and that the last one is there.                   *)
Upto(w, t) ==
  \A i \in 1 .. Len(w) : w[i].t = "data" => w[i].n \in 1 .. t /\ w[i].k = 1
Sorted(w, h) ==
  /\ \A i, j \in 1 .. Len(w) :
       w[i].t = "data" /\ w[j].t = "data" /\ w[i].n = w[j].n => i = j
  /\ \A i \in 1 .. Len(w) : w[i].t = "data" =>
       /\ w[i].n > h
       /\ \/ w[i].n = h + 1
          \/ \E j \in 1 .. i - 1 : w[j].t = "data" /\ w[j].n + 1 = w[i].n
Reaches(w, h, t) ==
  t = h \/ \E i \in 1 .. Len(w) : w[i].t = "data" /\ w[i].n = t

(* Of the end e: no chunk is ahead of what its peer read; those on the     *)
(* wire into a stream are the successors of what arrived, in order, as far *)
(* as the peer has sent; those written into the stream are 1, 2, 3 and so  *)
(* on, and so is the one whose io.Copy waits.                              *)
Bounded(e) ==
  /\ Have(e) <= Written(e) /\ Upto(wire[e], Top(e))
  /\ Writer(e).pc = "write" => Writer(e).n = Written(e) /\ Written(e) >= 1
  /\ Writer(e).pc \in Early => Written(e) = 0
InOrder(e) ==
  Flowing(e) =>
    /\ Sorted(wire[e], Have(e))
    /\ (link /\ Writer(e).pc \in Live) => Reaches(wire[e], Have(e), Top(e))
Arrived(e) ==
  /\ \A i \in 1 .. Len(got[e][1]) : got[e][1][i] = <<1, i>>
  /\ conn[e].cur.t = "data" =>
       conn[e].streamConn = None \/ conn[e].cur = Chunk(1, Len(got[e][1]) + 1)
(* A target speaks only when it was spoken to.                             *)
Answering == sent["server"][1] > 0 => got["server"][1] # <<>>
Chunks == Answering /\ \A e \in End : Bounded(e) /\ InOrder(e) /\ Arrived(e)

-----------------------------------------------------------------------------
(* A wire from which a frame that is no chunk may be taken and to which    *)
(* one may be added that is none of T.                                     *)
Kept(v, w, T) ==
  \/ v = w
  \/ \E f \in Frame : f.t \notin T /\ v = Append(w, f)
  \/ w # <<>> /\ Head(w).t # "data" /\ v = Tail(w)

LEMMA KeptPlaces ==
  ASSUME NEW w \in Seq(Frame), NEW v \in Seq(Frame), NEW T, Kept(v, w, T)
  PROVE  \E d \in {0, 1} :
           /\ \A i \in 1 .. Len(v) :
                \/ i + d \in 1 .. Len(w) /\ v[i] = w[i + d]
                \/ v[i].t \notin T /\ i = Len(w) + 1
           /\ \A i \in 1 .. Len(w) :
                \/ i - d \in 1 .. Len(v) /\ v[i - d] = w[i]
                \/ d = 1 /\ i = 1 /\ w[i].t # "data"
<1>1. CASE v = w
  <2>1. \A i \in 1 .. Len(w) : i + 0 \in 1 .. Len(w) /\ i - 0 = i /\ i + 0 = i
    OBVIOUS
  <2> QED
    BY <1>1, <2>1
<1>2. ASSUME NEW f \in Frame, f.t \notin T, v = Append(w, f)
      PROVE  \A i \in 1 .. Len(v) :
               \/ i + 0 \in 1 .. Len(w) /\ v[i] = w[i + 0]
               \/ v[i].t \notin T /\ i = Len(w) + 1
  BY <1>2
<1>3. ASSUME NEW f \in Frame, f.t \notin T, v = Append(w, f)
      PROVE  \A i \in 1 .. Len(w) : i - 0 \in 1 .. Len(v) /\ v[i - 0] = w[i]
  BY <1>3
<1>4. CASE w # <<>> /\ Head(w).t # "data" /\ v = Tail(w)
  <2>1. Len(v) = Len(w) - 1 /\ Len(w) \in Nat \ {0} /\ Len(v) \in Nat /\ w[1].t # "data"
        /\ \A i \in 1 .. Len(v) : v[i] = w[i + 1]
    BY <1>4
  <2>2. \A i \in 1 .. Len(v) : i + 1 \in 1 .. Len(w) /\ v[i] = w[i + 1]
    BY <2>1
  <2>3. \A i \in 1 .. Len(w) : i = 1 \/ (i - 1 \in 1 .. Len(v) /\ (i - 1) + 1 = i)
    BY <2>1
  <2> QED
    BY <2>1, <2>2, <2>3
<1> QED
  BY <1>1, <1>2, <1>3, <1>4 DEF Kept

LEMMA KeptChunks ==
  ASSUME NEW w \in Seq(Frame), NEW v \in Seq(Frame), NEW T, "data" \in T, Kept(v, w, T),
         NEW h \in Nat, NEW t \in Nat
  PROVE  /\ Upto(w, t) => Upto(v, t)
         /\ Sorted(w, h) => Sorted(v, h)
         /\ Reaches(w, h, t) => Reaches(v, h, t)
<1>1. PICK d \in {0, 1} :
        /\ \A i \in 1 .. Len(v) :
             \/ i + d \in 1 .. Len(w) /\ v[i] = w[i + d]
             \/ v[i].t \notin T /\ i = Len(w) + 1
        /\ \A i \in 1 .. Len(w) :
             \/ i - d \in 1 .. Len(v) /\ v[i - d] = w[i]
             \/ d = 1 /\ i = 1 /\ w[i].t # "data"
  BY KeptPlaces
<1>2. \A i \in 1 .. Len(v) : v[i].t = "data" => i + d \in 1 .. Len(w) /\ v[i] = w[i + d]
  BY <1>1
<1>3. \A i \in 1 .. Len(w) : w[i].t = "data" => i - d \in 1 .. Len(v) /\ v[i - d] = w[i]
  BY <1>1
<1>4. Upto(w, t) => Upto(v, t)
  BY <1>2 DEF Upto
<1>5. Reaches(w, h, t) => Reaches(v, h, t)
  BY <1>3 DEF Reaches
<1>6. ASSUME Sorted(w, h) PROVE Sorted(v, h)
  <2>1. ASSUME NEW i \in 1 .. Len(v), NEW j \in 1 .. Len(v),
               v[i].t = "data" /\ v[j].t = "data" /\ v[i].n = v[j].n
        PROVE  i = j
    <3>1. i + d \in 1 .. Len(w) /\ v[i] = w[i + d] /\ j + d \in 1 .. Len(w) /\ v[j] = w[j + d]
      BY <1>2, <2>1
    <3>2. i + d = j + d
      BY <1>6, <2>1, <3>1 DEF Sorted
    <3> QED
      BY <3>2
  <2>2. ASSUME NEW i \in 1 .. Len(v), v[i].t = "data"
        PROVE  /\ v[i].n > h
               /\ \/ v[i].n = h + 1
                  \/ \E j \in 1 .. i - 1 : v[j].t = "data" /\ v[j].n + 1 = v[i].n
    <3>1. i + d \in 1 .. Len(w) /\ v[i] = w[i + d]
      BY <1>2, <2>2
    <3>2. w[i + d].n > h /\ (w[i + d].n = h + 1
            \/ \E j \in 1 .. i + d - 1 : w[j].t = "data" /\ w[j].n + 1 = w[i + d].n)
      BY <1>6, <2>2, <3>1 DEF Sorted
    <3>3. ASSUME NEW j \in 1 .. i + d - 1, w[j].t = "data" /\ w[j].n + 1 = w[i + d].n
          PROVE  \E l \in 1 .. i - 1 : v[l].t = "data" /\ v[l].n + 1 = v[i].n
      <4>1. j \in 1 .. Len(w)
        BY <3>1
      <4>2. j - d \in 1 .. Len(v) /\ v[j - d] = w[j]
        BY <1>3, <3>3, <4>1
      <4>3. j - d \in 1 .. i - 1
        BY <4>2
      <4> QED
        BY <3>1, <3>3, <4>2, <4>3
    <3> QED
      BY <3>1, <3>2, <3>3
  <2> QED
    BY <2>1, <2>2 DEF Sorted
<1> QED
  BY <1>4, <1>5, <1>6

LEMMA KeptFrames ==
  ASSUME NEW w \in Seq(Frame), NEW v \in Seq(Frame), NEW T, Kept(v, w, T)
  PROVE  /\ \A t \in T : Has(v, t) => Has(w, t)
         /\ "open" \in T /\ OneOpen(w) => OneOpen(v)
         /\ ({"data", "open"} \subseteq T /\ OfFirst(w))
              => OfFirst(v)
<1>1. PICK d \in {0, 1} :
        /\ \A i \in 1 .. Len(v) :
             \/ i + d \in 1 .. Len(w) /\ v[i] = w[i + d]
             \/ v[i].t \notin T /\ i = Len(w) + 1
        /\ \A i \in 1 .. Len(w) :
             \/ i - d \in 1 .. Len(v) /\ v[i - d] = w[i]
             \/ d = 1 /\ i = 1 /\ w[i].t # "data"
  BY KeptPlaces
<1>2. \A t \in T : Has(v, t) => Has(w, t)
  BY <1>1 DEF Has
<1>3. ASSUME "open" \in T, OneOpen(w) PROVE OneOpen(v)
  <2> SUFFICES ASSUME NEW i \in 1 .. Len(v), NEW j \in 1 .. Len(v),
                      v[i].t = "open" /\ v[j].t = "open"
               PROVE  i = j
    BY DEF OneOpen
  <2>1. i + d \in 1 .. Len(w) /\ v[i] = w[i + d] /\ j + d \in 1 .. Len(w) /\ v[j] = w[j + d]
    BY <1>1, <1>3
  <2>2. i + d = j + d
    BY <1>3, <2>1 DEF OneOpen
  <2> QED
    BY <2>2
<1>4. ASSUME {"data", "open"} \subseteq T, OfFirst(w),
             NEW i \in 1 .. Len(v)
      PROVE  v[i].k \in {None, 1}
  <2>1. v[i] \in Frame
    OBVIOUS
  <2>2. v[i].t \notin T => v[i].k = None
    BY <1>4, <2>1 DEF Frame
  <2> QED
    BY <1>1, <1>4, <2>2 DEF OfFirst
<1> QED
  BY <1>2, <1>3, <1>4 DEF OfFirst

(* The next chunk is the next one.                                         *)
LEMMA TakenChunk ==
  ASSUME NEW w \in Seq(Frame), w # <<>>, Head(w).t = "data",
         NEW h \in Nat, NEW t \in Nat, Sorted(w, h), Upto(w, t)
  PROVE  /\ Head(w) = Chunk(1, h + 1) /\ h + 1 <= t
         /\ Sorted(Tail(w), h + 1)
         /\ Reaches(w, h, t) => Reaches(Tail(w), h + 1, t)
<1> DEFINE v == Tail(w)
<1>1. /\ Len(w) \in Nat \ {0} /\ Len(v) = Len(w) - 1 /\ Head(w) = w[1]
      /\ \A i \in 1 .. Len(v) : v[i] = w[i + 1]
  OBVIOUS
<1> HIDE DEF v
<1>2. /\ w[1].n = h + 1 /\ w[1].k = 1 /\ w[1].n \in 1 .. t
  BY <1>1 DEF Sorted, Upto
<1>3. w[1] = Chunk(1, h + 1)
  <2>1. w[1] \in Frame
    BY <1>1
  <2> QED
    BY <1>1, <1>2, <2>1 DEF Frame, Chunk
<1>4. ASSUME NEW i \in 1 .. Len(v), NEW j \in 1 .. Len(v),
             v[i].t = "data" /\ v[j].t = "data" /\ v[i].n = v[j].n
      PROVE  i = j
  <2>1. i + 1 \in 1 .. Len(w) /\ v[i] = w[i + 1] /\ j + 1 \in 1 .. Len(w) /\ v[j] = w[j + 1]
    BY <1>1
  <2>2. i + 1 = j + 1
    BY <1>4, <2>1 DEF Sorted
  <2> QED
    BY <2>2
<1>5. ASSUME NEW i \in 1 .. Len(v), v[i].t = "data"
      PROVE  /\ v[i].n > h + 1
             /\ \/ v[i].n = h + 1 + 1
                \/ \E j \in 1 .. i - 1 : v[j].t = "data" /\ v[j].n + 1 = v[i].n
  <2>1. i + 1 \in 1 .. Len(w) /\ v[i] = w[i + 1] /\ 1 \in 1 .. Len(w) /\ i + 1 # 1
    BY <1>1
  <2>2. w[i + 1].n # h + 1
    <3>1. w[1].t = "data" /\ w[i + 1].t = "data"
      BY <1>1, <1>5, <2>1
    <3> QED
      BY <1>2, <2>1, <3>1 DEF Sorted
  <2>3. w[i + 1].n > h
    BY <1>5, <2>1 DEF Sorted
  <2>4. PICK j \in 1 .. i + 1 - 1 : w[j].t = "data" /\ w[j].n + 1 = w[i + 1].n
    BY <1>5, <2>1, <2>2 DEF Sorted
  <2>5. w[i + 1].n \in Nat
    <3>1. w[i + 1] \in Frame
      BY <2>1
    <3> QED
      BY <1>5, <2>1, <3>1, BoundsAssumption DEF Frame, Command
  <2>6. CASE j = 1
    BY <1>2, <2>1, <2>2, <2>3, <2>4, <2>5, <2>6
  <2>7. CASE j # 1
    <3>1. j - 1 \in 1 .. i - 1 /\ j - 1 \in 1 .. Len(v) /\ j - 1 + 1 = j
      BY <1>1, <2>7
    <3>2. v[j - 1] = w[j]
      BY <1>1, <3>1
    <3> QED
      BY <2>1, <2>2, <2>3, <2>4, <2>5, <3>1, <3>2
  <2> QED
    BY <2>6, <2>7
<1>6. Sorted(v, h + 1)
  BY <1>4, <1>5 DEF Sorted
<1>7. ASSUME Reaches(w, h, t) PROVE Reaches(v, h + 1, t)
  <2>1. PICK i \in 1 .. Len(w) : w[i].t = "data" /\ w[i].n = t
    BY <1>2, <1>7 DEF Reaches
  <2>2. CASE i = 1
    BY <1>2, <2>1, <2>2 DEF Reaches
  <2>3. CASE i # 1
    <3>1. i - 1 \in 1 .. Len(v) /\ i - 1 + 1 = i
      BY <1>1, <2>3
    <3>2. v[i - 1] = w[i]
      BY <1>1, <3>1
    <3> QED
      BY <2>1, <3>1, <3>2 DEF Reaches
  <2> QED
    BY <2>2, <2>3
<1> QED
  BY <1>1, <1>2, <1>3, <1>6, <1>7 DEF v

(* A chunk that follows what was sent is in its place.                     *)
LEMMA SentChunk ==
  ASSUME NEW w \in Seq(Frame), NEW h \in Nat, NEW t \in Nat, h <= t, t + 1 <= MaxData,
         1 \in Session, Upto(w, t)
  PROVE  LET v == Append(w, Chunk(1, t + 1)) IN
           /\ Upto(v, t + 1)
           /\ (Sorted(w, h) /\ Reaches(w, h, t)) => (Sorted(v, h) /\ Reaches(v, h, t + 1))
<1> DEFINE f == Chunk(1, t + 1)
           v == Append(w, f)
<1>0. f \in Frame /\ f.t = "data" /\ f.n = t + 1 /\ f.k = 1
  BY FrameFacts, BoundsAssumption DEF Chunk
<1> HIDE DEF f
<1>1. /\ Len(w) \in Nat /\ Len(v) = Len(w) + 1 /\ v[Len(w) + 1] = f
      /\ \A i \in 1 .. Len(w) : v[i] = w[i]
  BY <1>0
<1> HIDE DEF v
<1>2. \A i \in 1 .. Len(v) :
        \/ i \in 1 .. Len(w) /\ v[i] = w[i]
        \/ i = Len(w) + 1 /\ v[i] = f
  BY <1>1
<1>3. Upto(v, t + 1)
  <2> SUFFICES ASSUME NEW i \in 1 .. Len(v), v[i].t = "data"
               PROVE  v[i].n \in 1 .. t + 1 /\ v[i].k = 1
    BY DEF Upto
  <2>1. CASE i \in 1 .. Len(w) /\ v[i] = w[i]
    BY <2>1 DEF Upto
  <2>2. CASE v[i] = f
    BY <1>0, <2>2
  <2> QED
    BY <1>2, <2>1, <2>2
<1>4. \A i \in 1 .. Len(w) : w[i].t = "data" => w[i].n # t + 1
  BY DEF Upto
<1>5. ASSUME Sorted(w, h), Reaches(w, h, t) PROVE Sorted(v, h)
  <2>1. ASSUME NEW i \in 1 .. Len(v), NEW j \in 1 .. Len(v),
               v[i].t = "data" /\ v[j].t = "data" /\ v[i].n = v[j].n
        PROVE  i = j
    <3>1. CASE (i \in 1 .. Len(w) /\ v[i] = w[i]) /\ (j \in 1 .. Len(w) /\ v[j] = w[j])
      BY <1>5, <2>1, <3>1 DEF Sorted
    <3>2. CASE (i \in 1 .. Len(w) /\ v[i] = w[i]) /\ (j = Len(w) + 1 /\ v[j] = f)
      BY <1>0, <1>4, <2>1, <3>2
    <3>3. CASE (i = Len(w) + 1 /\ v[i] = f) /\ (j \in 1 .. Len(w) /\ v[j] = w[j])
      BY <1>0, <1>4, <2>1, <3>3
    <3> QED
      BY <1>2, <3>1, <3>2, <3>3
  <2>2. ASSUME NEW i \in 1 .. Len(v), v[i].t = "data"
        PROVE  /\ v[i].n > h
               /\ \/ v[i].n = h + 1
                  \/ \E j \in 1 .. i - 1 : v[j].t = "data" /\ v[j].n + 1 = v[i].n
    <3>1. CASE i \in 1 .. Len(w) /\ v[i] = w[i]
      <4>1. w[i].n > h /\ (w[i].n = h + 1
              \/ \E j \in 1 .. i - 1 : w[j].t = "data" /\ w[j].n + 1 = w[i].n)
        BY <1>5, <2>2, <3>1 DEF Sorted
      <4>2. \A j \in 1 .. i - 1 : v[j] = w[j]
        BY <1>1, <3>1
      <4> QED
        BY <3>1, <4>1, <4>2
    <3>2. CASE i = Len(w) + 1 /\ v[i] = f
      <4>1. CASE t = h
        BY <1>0, <3>2, <4>1
      <4>2. ASSUME NEW j \in 1 .. Len(w), w[j].t = "data" /\ w[j].n = t
            PROVE  j \in 1 .. i - 1 /\ v[j].t = "data" /\ v[j].n + 1 = v[i].n
        BY <1>0, <1>1, <3>2, <4>2
      <4>3. v[i].n > h
        BY <1>0, <3>2
      <4> QED
        BY <1>5, <4>1, <4>2, <4>3 DEF Reaches
    <3> QED
      BY <1>2, <3>1, <3>2
  <2> QED
    BY <2>1, <2>2 DEF Sorted
<1>6. Reaches(v, h, t + 1)
  BY <1>0, <1>1 DEF Reaches
<1> QED
  BY <1>3, <1>5, <1>6 DEF v, f

(* A step that moves no chunk: what becomes of a Conn c, of a goroutine    *)
(* (from p to q), and of the call of DialContext.                          *)
Tame(e, c) ==
  /\ c.streamConn \in {None, conn[e].streamConn}
  /\ c.status = "Stream" => conn[e].status = "Stream"
  /\ c.cur.t = "data" => c.cur = conn[e].cur
  /\ c.cur.t = "data" \/ conn[e].cur.t # "data" \/ c.status # "Stream"
SameOpen(e, c) ==
  /\ c.cur = NoFrame \/ c.cur = conn[e].cur
  /\ c.onResult.kind = "dial" => e = "client" \/ conn[e].onResult.kind = "dial"

Moves(p, q) ==
  \/ q = p \/ (p = "start" /\ q = "check") \/ (p = "check" /\ q = "read")
  \/ p # "none" /\ q \notin Live
ServeMoves ==
  \A e \in End, k \in Session :
    /\ Moves(serve[e][k].pc, serve'[e][k].pc)
    /\ serve'[e][k].n = serve[e][k].n
    /\ serve'[e][k].conn \in {serve[e][k].conn, conn[e].streamConn}

DialMoves ==
  /\ dial'.k = dial.k
  /\ dial'.pc # "idle" => dial.pc # "idle"
  /\ dial'.pc = "accepted" => dial.pc = "accepted" \/ dial.res = "ok"
  /\ dial'.res = "ok" => dial.res = "ok" \/ Has(wire["client"], "replyTrue")

(* Chunks are left alone; and so is the opening of the stream.             *)
Opens == {"data", "open", "replyTrue"}
ChunksAlone ==
  /\ \A e \in End : Tame(e, conn'[e]) /\ Kept(wire'[e], wire[e], {"data"})
  /\ ServeMoves /\ sent' = sent /\ got' = got /\ (link' => link)
OpeningAlone ==
  /\ \A e \in End :
       /\ conn'[e].streamConn \in {None, conn[e].streamConn}
       /\ conn'[e].status = "Stream" => conn[e].status = "Stream"
       /\ conn'[e].onResult.kind = "dial" => e = "client" \/ conn[e].onResult.kind = "dial"
       /\ conn'[e].cur.t = "open" => conn'[e].cur = conn[e].cur
       /\ conn'[e].cur.k \in {None, 1}
       /\ \A k \in Session : k # 1 => got'[e][k] = got[e][k]
       /\ \A k \in Session : serve[e][k].pc = "none" <=> serve'[e][k].pc = "none"
       /\ \A k \in Session : serve'[e][k].conn \in {serve[e][k].conn, conn[e].streamConn}
       /\ OfFirst(wire'[e])
       /\ \A t \in {"open", "replyTrue"} : Has(wire'[e], t) => Has(wire[e], t)
       /\ OneOpen(wire[e]) => OneOpen(wire'[e])
  /\ DialMoves

(* A goroutine that goes from p to q and neither reads nor sends a chunk.  *)
Steady(p, q) ==
  /\ q = "write" <=> p = "write" /\ q \in Live
  /\ q \in Early => p \in Early
  /\ q \in Live => p \in Live

LEMMA EndFacts ==
  ASSUME NEW e \in End
  PROVE  Peer(e) \in End /\ Peer(e) # e /\ Peer(Peer(e)) = e
BY DEF Peer, End

LEMMA DataTypes ==
  ASSUME TypeOK, 1 \in Session, NEW e \in End
  PROVE  /\ sent[e][1] \in Nat /\ sent[e][1] <= MaxData /\ Written(e) \in Nat
         /\ got[e][1] \in Seq(Session \X (0 .. MaxData)) /\ Len(got[e][1]) \in Nat
         /\ Have(e) \in Nat /\ wire[e] \in Seq(Frame)
         /\ serve[e][1] \in Serving /\ conn[e] \in ConnState
<1>1. sent[e][1] \in 0 .. MaxData /\ sent[Peer(e)][1] \in 0 .. MaxData
  BY EndFacts DEF TypeOK
<1>2. got[e][1] \in Seq(Session \X (0 .. MaxData))
  BY DEF TypeOK
<1>3. Len(got[e][1]) \in Nat
  BY <1>2
<1>4. wire[e] \in Seq(Frame) /\ serve[e][1] \in Serving /\ conn[e] \in ConnState
  BY DEF TypeOK
<1> QED
  BY <1>1, <1>2, <1>3, <1>4, BoundsAssumption DEF Written, Have

LEMMA KeptAt ==
  ASSUME TypeOK, TypeOK', 1 \in Session, NEW e \in End,
         Bounded(e), InOrder(e), Arrived(e),
         Tame(e, conn'[e]), Kept(wire'[e], wire[e], {"data"}),
         Steady(Writer(e).pc, Writer(e).pc'), Writer(e).n' = Writer(e).n,
         got'[e][1] = got[e][1], sent'[Peer(e)][1] = sent[Peer(e)][1], link' => link
  PROVE  (Bounded(e) /\ InOrder(e) /\ Arrived(e))'
<1>2. Written(e) \in Nat /\ Written(e)' = Written(e) /\ Len(got[e][1]) \in Nat
  BY DataTypes DEF Written
<1>3. Have(e) \in Nat /\ Have(e)' \in Nat /\ Have(e)' <= Have(e)
      /\ (Flowing(e)' => Flowing(e) /\ Have(e)' = Have(e))
  BY <1>2 DEF Have, Flowing, Tame
<1>6. /\ Top(e) \in Nat /\ Top(e)' \in Nat /\ Top(e) <= Top(e)'
      /\ Writer(e).pc' \in Live => Writer(e).pc \in Live /\ Top(e)' = Top(e)
  BY <1>2 DEF Top, Steady, Bounded, Live, Early
<1>7. wire[e] \in Seq(Frame) /\ wire'[e] \in Seq(Frame)
  BY DEF TypeOK
<1>8. /\ Upto(wire'[e], Top(e))
      /\ Sorted(wire[e], Have(e)) => Sorted(wire'[e], Have(e))
      /\ Reaches(wire[e], Have(e), Top(e)) => Reaches(wire'[e], Have(e), Top(e))
  BY <1>3, <1>6, <1>7, KeptChunks DEF Bounded
<1>9. Upto(wire'[e], Top(e)')
  BY <1>6, <1>8 DEF Upto
<1>10. Bounded(e)'
  <2>1. Have(e)' <= Written(e)'
    BY <1>2, <1>3 DEF Bounded
  <2>2. Writer(e).pc' = "write" => Writer(e).pc = "write"
    BY DEF Steady, Live, Early
  <2>3. Writer(e).pc' \in Early => Writer(e).pc \in Early
    BY DEF Steady, Live, Early
  <2> QED
    BY <1>2, <1>9, <2>1, <2>2, <2>3 DEF Bounded
<1>11. InOrder(e)'
  <2> SUFFICES ASSUME Flowing(e)'
               PROVE  /\ Sorted(wire'[e], Have(e)')
                      /\ (link' /\ Writer(e).pc' \in Live)
                            => Reaches(wire'[e], Have(e)', Top(e)')
    BY DEF InOrder
  <2>1. Flowing(e) /\ Have(e)' = Have(e)
    BY <1>3
  <2> QED
    BY <1>6, <1>8, <2>1 DEF InOrder
<1>12. Arrived(e)'
  BY <1>2 DEF Arrived, Tame
<1> QED
  BY <1>10, <1>11, <1>12

LEMMA ChunksKept ==
  ASSUME TypeOK, TypeOK', Chunks, ChunksAlone, 1 \in Session
  PROVE  Chunks'
<1>1. Answering'
  BY DEF Chunks, Answering, ChunksAlone
<1>2. ASSUME NEW e \in End
      PROVE  (Bounded(e) /\ InOrder(e) /\ Arrived(e))'
  <2>1. Peer(e) \in End /\ Bounded(e) /\ InOrder(e) /\ Arrived(e)
    BY EndFacts DEF Chunks
  <2>2. /\ Moves(Writer(e).pc, Writer(e).pc') /\ Writer(e).n' = Writer(e).n
        /\ sent'[Peer(e)][1] = sent[Peer(e)][1] /\ got'[e][1] = got[e][1]
    BY <2>1 DEF ChunksAlone, ServeMoves, Writer
  <2>3. Steady(Writer(e).pc, Writer(e).pc')
    BY <2>2 DEF Moves, Steady, Live, Early
  <2> QED
    BY <2>1, <2>2, <2>3, KeptAt DEF ChunksAlone
<1> QED
  BY <1>1, <1>2 DEF Chunks

LEMMA OpeningKept ==
  ASSUME TypeOK, FirstOnly, Opening, OpeningAlone
  PROVE  FirstOnly' /\ Opening'
<1>0. "client" \in End /\ "server" \in End
  BY DEF End
<1>1. FirstOnly'
  BY DEF FirstOnly, OpeningAlone, DialMoves
<1>2. Unopened' => Unopened
  BY <1>0 DEF Unopened, OpeningAlone, DialMoves
<1>3. /\ client'.cur.t # "open" /\ ~Has(wire'["client"], "open")
      /\ conn'["server"].onResult.kind # "dial"
  BY <1>0 DEF Opening, OpeningAlone, client
<1>4. dial'.k = 0 => /\ dial'.pc = "idle" /\ ~Has(wire'["server"], "open")
                     /\ conn'["server"].cur.t # "open"
  BY <1>0 DEF Opening, OpeningAlone, DialMoves
<1>5. /\ OneOpen(wire'["server"])
      /\ conn'["server"].cur.t = "open" => ~Has(wire'["server"], "open")
  BY <1>0 DEF Opening, OpeningAlone
<1>6. 1 \in Session
  BY DEF FirstOnly
<1>7. Unopened' =>
       /\ conn'["server"].status # "Stream" /\ serve'["server"][1].pc = "none"
       /\ ~Has(wire'["client"], "replyTrue")
       /\ dial'.res # "ok" /\ dial'.pc # "accepted"
       /\ serve'["client"][1].pc = "none"
  BY <1>0, <1>2, <1>6 DEF Opening, OpeningAlone, DialMoves
<1>8. dial'.pc # "idle" => serve'["client"][1].pc = "none"
  BY <1>0, <1>6 DEF Opening, OpeningAlone, DialMoves
<1> QED
  BY <1>1, <1>3, <1>4, <1>5, <1>7, <1>8 DEF Opening

(* A step that leaves both alone; and the invariant.                       *)
Calm ==
  /\ \A e \in End : /\ Tame(e, conn'[e]) /\ SameOpen(e, conn'[e])
                    /\ Kept(wire'[e], wire[e], Opens)
  /\ ServeMoves /\ DialMoves /\ sent' = sent /\ got' = got /\ (link' => link)

Intact == FirstOnly /\ Opening /\ Chunks

LEMMA CalmKeeps ==
  ASSUME TypeOK, TypeOK', Intact, Calm
  PROVE  Intact'
<1>1. ChunksAlone
  BY DEF Calm, ChunksAlone, Kept, Opens
<1>2. ASSUME NEW e \in End
      PROVE  /\ conn'[e].streamConn \in {None, conn[e].streamConn}
             /\ conn'[e].status = "Stream" => conn[e].status = "Stream"
             /\ conn'[e].onResult.kind = "dial" => e = "client" \/ conn[e].onResult.kind = "dial"
             /\ conn'[e].cur.t = "open" => conn'[e].cur = conn[e].cur
             /\ conn'[e].cur.k \in {None, 1}
             /\ \A k \in Session : k # 1 => got'[e][k] = got[e][k]
             /\ \A k \in Session : serve[e][k].pc = "none" <=> serve'[e][k].pc = "none"
             /\ \A k \in Session : serve'[e][k].conn \in {serve[e][k].conn, conn[e].streamConn}
             /\ OfFirst(wire'[e])
             /\ \A t \in {"open", "replyTrue"} : Has(wire'[e], t) => Has(wire[e], t)
             /\ OneOpen(wire[e]) => OneOpen(wire'[e])
  <2>1. Tame(e, conn'[e]) /\ SameOpen(e, conn'[e]) /\ Kept(wire'[e], wire[e], Opens)
    BY DEF Calm
  <2>2. conn[e].cur.k \in {None, 1} /\ OfFirst(wire[e])
    BY DEF Intact, FirstOnly
  <2>3. wire[e] \in Seq(Frame) /\ wire'[e] \in Seq(Frame)
    BY DEF TypeOK
  <2>4. /\ \A t \in {"open", "replyTrue"} : Has(wire'[e], t) => Has(wire[e], t)
        /\ OneOpen(wire[e]) => OneOpen(wire'[e])
        /\ OfFirst(wire'[e])
    BY <2>1, <2>2, <2>3, KeptFrames DEF Opens
  <2>5. \A k \in Session : serve[e][k].pc = "none" <=> serve'[e][k].pc = "none"
    BY DEF Calm, ServeMoves, Moves, Live, Early
  <2>6. \A k \in Session : serve'[e][k].conn \in {serve[e][k].conn, conn[e].streamConn}
    BY DEF Calm, ServeMoves
  <2>7. conn'[e].cur.t = "open" => conn'[e].cur = conn[e].cur
    BY <2>1 DEF SameOpen, NoFrame
  <2>8. conn'[e].cur.k \in {None, 1}
    BY <2>1, <2>2 DEF SameOpen, NoFrame
  <2> QED
    BY <2>1, <2>4, <2>5, <2>6, <2>7, <2>8 DEF Tame, SameOpen, Calm
<1>3. OpeningAlone
  BY <1>2 DEF OpeningAlone, Calm
<1>4. 1 \in Session
  BY DEF Intact, FirstOnly
<1> QED
  BY <1>1, <1>3, <1>4, ChunksKept, OpeningKept DEF Intact

(* Calm, as far as the two ends and the wires go.                          *)
Ends == \A e \in End : /\ Tame(e, conn'[e]) /\ SameOpen(e, conn'[e])
                       /\ Kept(wire'[e], wire[e], Opens)

(* The wire as the loop of Handle leaves it to a handler.                  *)
Basis(e, w) ==
  \/ w = wire
  \/ wire[e] # <<>> /\ Head(wire[e]).t # "data" /\ w = Received(e)

LEMMA StillTame ==
  ASSUME TypeOK, NEW e \in End
  PROVE  Tame(e, conn[e]) /\ SameOpen(e, conn[e]) /\ Kept(wire[e], wire[e], Opens)
BY DEF Tame, SameOpen, Kept

LEMMA PutKept ==
  ASSUME TypeOK, NEW e \in End, NEW w, Basis(e, w), NEW f \in Frame, NEW T, f.t \notin T
  PROVE  /\ w \in [End -> Seq(Frame)]
         /\ \A x \in End : Kept(w[x], wire[x], T) /\ Kept(Put(w, e, f)[x], wire[x], T)
<1>1. w \in [End -> Seq(Frame)]
  BY ReceivedType DEF Basis, TypeOK
<1>2. \A x \in End : Kept(w[x], wire[x], T)
  BY DEF Basis, Kept, Received, TypeOK
<1>3. Peer(e) \in End /\ Peer(e) # e
  BY DEF Peer, End
<1>4. w[Peer(e)] = wire[Peer(e)]
  BY <1>3 DEF Basis, Received, TypeOK
<1>5. CASE link
  <2>1. Put(w, e, f) = [w EXCEPT ![Peer(e)] = Append(@, f)]
    BY <1>5 DEF Put
  <2>2. Put(w, e, f)[Peer(e)] = Append(wire[Peer(e)], f)
    BY <1>1, <1>3, <1>4, <2>1
  <2>3. \A x \in End : x # Peer(e) => Put(w, e, f)[x] = w[x]
    BY <1>1, <2>1
  <2>4. Kept(Put(w, e, f)[Peer(e)], wire[Peer(e)], T)
    BY <2>2 DEF Kept
  <2> QED
    BY <1>1, <1>2, <2>3, <2>4
<1>6. CASE ~link
  BY <1>1, <1>2, <1>6 DEF Put
<1> QED
  BY <1>5, <1>6

LEMMA BecomesTame ==
  ASSUME TypeOK, NEW e \in End, NEW c, Tame(e, c), SameOpen(e, c), Becomes(e, c)
  PROVE  \A x \in End : Tame(x, conn'[x]) /\ SameOpen(x, conn'[x])
<1>1. conn'[e] = c /\ \A x \in End : x # e => conn'[x] = conn[x]
  BY DEF Becomes, TypeOK
<1> QED
  BY <1>1, StillTame

LEMMA ShutTame ==
  ASSUME TypeOK, NEW e \in End, NEW c \in ConnState, NEW w, Basis(e, w),
         Tame(e, c), SameOpen(e, c), NEW code \in Command, code # "replyTrue",
         closeWithCode(e, c, w, code)
  PROVE  Ends
<1> DEFINE d == [CloseStream(c) EXCEPT
                   !.status = "Closed", !.wsOpen = FALSE, !.ctxDone = TRUE]
<1>1. Tame(e, d) /\ SameOpen(e, d)
  BY DEF Tame, SameOpen, CloseStream, ConnState
<1>2. Becomes(e, c) \/ Becomes(e, d)
  BY DEF closeWithCode
<1>3. wire' = w \/ wire' = Put(w, e, Cmd(code))
  BY DEF closeWithCode
<1>4. Cmd(code) \in Frame /\ Cmd(code).t \notin Opens
  BY FrameFacts DEF Cmd, Opens, Command
<1>5. \A x \in End : Kept(wire'[x], wire[x], Opens)
  BY <1>3, <1>4, PutKept
<1> HIDE DEF d
<1>6. \A x \in End : Tame(x, conn'[x]) /\ SameOpen(x, conn'[x])
  BY <1>1, <1>2, BecomesTame
<1> QED
  BY <1>5, <1>6 DEF Ends

LEMMA WriteTame ==
  ASSUME TypeOK, NEW e \in End, NEW c \in ConnState, NEW w, Basis(e, w),
         Tame(e, c), SameOpen(e, c), NEW t \in Command, t # "replyTrue",
         Sent(e, c, w, Cmd(t)) \/ SendFails(e, c, w)
  PROVE  Ends
<1>1. CASE Sent(e, c, w, Cmd(t))
  <2>1. Cmd(t) \in Frame /\ Cmd(t).t \notin Opens
    BY FrameFacts DEF Cmd, Opens, Command
  <2>2. Becomes(e, c) /\ wire' = Put(w, e, Cmd(t))
    BY <1>1 DEF Sent
  <2>3. \A x \in End : Kept(wire'[x], wire[x], Opens)
    BY <2>1, <2>2, PutKept
  <2> QED
    BY <2>2, <2>3, BecomesTame DEF Ends
<1>2. CASE SendFails(e, c, w)
  BY <1>2, ShutTame DEF SendFails, Command
<1> QED
  BY <1>1, <1>2

LEMMA AnswerTame ==
  ASSUME TypeOK, NEW e \in End, NEW c \in ConnState, NEW w, Basis(e, w),
         Tame(e, [c EXCEPT !.cur = NoFrame]), SameOpen(e, [c EXCEPT !.cur = NoFrame]),
         NEW t \in Command, t # "replyTrue",
         Answered(e, c, w, t) \/ AnswerFails(e, c, w)
  PROVE  Ends
<1> DEFINE a == [c EXCEPT !.cur = NoFrame]
           b == [c EXCEPT !.cur = NoFrame, !.handle = "returned"]
<1>1. a \in ConnState
  BY DEF ConnState
<1>2. b \in ConnState /\ Tame(e, b) /\ SameOpen(e, b)
  BY DEF ConnState, Tame, SameOpen
<1>3. Sent(e, a, w, Cmd(t)) \/ SendFails(e, b, w)
  BY DEF Answered, AnswerFails
<1> HIDE DEF a, b
<1>4. CASE Sent(e, a, w, Cmd(t))
  BY <1>1, <1>4, WriteTame DEF a
<1>5. CASE SendFails(e, b, w)
  BY <1>2, <1>5, WriteTame
<1> QED
  BY <1>3, <1>4, <1>5

-----------------------------------------------------------------------------
LEMMA Stays ==
  /\ serve' = serve => ServeMoves
  /\ dial' = dial => DialMoves
BY DEF ServeMoves, Moves, DialMoves

LEMMA GotoServes ==
  ASSUME TypeOK, NEW e \in End, NEW k \in Session, NEW q,
         Moves(serve[e][k].pc, q), Goto(e, k, q)
  PROVE  ServeMoves
<1>1. \A x \in End, j \in Session :
        \/ serve'[x][j] = serve[x][j]
        \/ x = e /\ j = k /\ serve'[x][j] = [serve[e][k] EXCEPT !.pc = q]
  BY DEF Goto, TypeOK
<1>2. [serve[e][k] EXCEPT !.pc = q].pc = q /\ [serve[e][k] EXCEPT !.pc = q].n = serve[e][k].n
      /\ [serve[e][k] EXCEPT !.pc = q].conn = serve[e][k].conn
  BY DEF TypeOK, Serving
<1> QED
  BY <1>1, <1>2 DEF ServeMoves, Moves

(* Of a wire that nobody touches.                                          *)
LEMMA OnlyConn ==
  ASSUME TypeOK, NEW e \in End, NEW c, Tame(e, c), SameOpen(e, c), Becomes(e, c),
         wire' = wire
  PROVE  Ends
BY BecomesTame, StillTame DEF Ends

LEMMA NoEnds ==
  ASSUME TypeOK, conn' = conn, wire' = wire
  PROVE  Ends
BY StillTame DEF Ends

LEMMA DialCalm ==
  ASSUME TypeOK, Intact,
         DialInOper \/ DialResult \/ DialCancel \/ DialConnDone \/ CtxCancel
  PROVE  Calm
<1>0. "client" \in End /\ client = conn["client"] /\ client \in ConnState
  BY DEF End, client, TypeOK
<1>1. sent' = sent /\ got' = got /\ (link' => link) /\ serve' = serve /\ wire' = wire
  BY DEF DialInOper, DialResult, DialCancel, DialConnDone, CtxCancel, dataVars
<1>2. DialMoves
  BY DEF DialInOper, DialResult, DialCancel, DialConnDone, CtxCancel, DialMoves, TypeOK, Dialing
<1>3. \/ conn' = conn
      \/ Becomes("client", [client EXCEPT !.status = "InOper"])
      \/ Becomes("client", [client EXCEPT !.status = "Idle"])
      \/ Becomes("client", [client EXCEPT !.status = "Idle", !.onResult = NoCallback])
  BY DEF DialInOper, DialResult, DialCancel, DialConnDone, CtxCancel
<1>4. /\ Tame("client", [client EXCEPT !.status = "InOper"])
      /\ SameOpen("client", [client EXCEPT !.status = "InOper"])
      /\ Tame("client", [client EXCEPT !.status = "Idle"])
      /\ SameOpen("client", [client EXCEPT !.status = "Idle"])
      /\ Tame("client", [client EXCEPT !.status = "Idle", !.onResult = NoCallback])
      /\ SameOpen("client", [client EXCEPT !.status = "Idle", !.onResult = NoCallback])
  BY <1>0 DEF ConnState, Tame, SameOpen, NoCallback
<1>5. Ends
  BY <1>0, <1>1, <1>3, <1>4, OnlyConn, NoEnds
<1> QED
  BY <1>1, <1>2, <1>5, Stays DEF Calm, Ends

LEMMA ServeCalm ==
  ASSUME TypeOK, NEW e \in End, NEW k \in Session,
         \/ ServeStart(e, k) \/ ServeCheck(e, k) \/ ServeReadErr(e, k)
         \/ ServeStatus(e, k) \/ ServeSendErr(e, k) \/ ServeSetResult(e, k)
         \/ ServeSendClose(e, k) \/ ServeWait(e, k) \/ ServeReturn(e, k)
  PROVE  Calm
<1>0. conn[e] \in ConnState /\ Tame(e, conn[e]) /\ SameOpen(e, conn[e]) /\ Basis(e, wire)
  BY StillTame DEF TypeOK, Basis
<1>1. sent' = sent /\ got' = got /\ (link' => link) /\ dial' = dial
  BY DEF ServeStart, ServeCheck, ServeReadErr, ServeStatus, ServeSendErr, ServeSetResult,
         ServeSendClose, ServeWait, ServeReturn, dataVars
<1>2. ServeMoves
  <2>1. CASE ServeStart(e, k)
    <3>1. \A x \in End, j \in Session :
            \/ serve'[x][j] = serve[x][j]
            \/ x = e /\ j = k
               /\ serve'[x][j] = [serve[e][k] EXCEPT !.pc = "check", !.conn = conn[e].streamConn]
      BY <2>1 DEF ServeStart, TypeOK, Serving
    <3> DEFINE s == [serve[e][k] EXCEPT !.pc = "check", !.conn = conn[e].streamConn]
    <3>2. s.pc = "check" /\ s.n = serve[e][k].n /\ s.conn = conn[e].streamConn
      BY DEF TypeOK, Serving
    <3>3. serve[e][k].pc = "start"
      BY <2>1 DEF ServeStart
    <3> QED
      BY <3>1, <3>2, <3>3 DEF ServeMoves, Moves
  <2>2. CASE ServeCheck(e, k)
    BY <2>2, GotoServes DEF ServeCheck, Moves, Live, Early
  <2>3. CASE ServeReadErr(e, k)
    BY <2>3, GotoServes DEF ServeReadErr, AtRead, ReadError, Moves, Live, Early
  <2>4. CASE ServeStatus(e, k)
    BY <2>4, GotoServes DEF ServeStatus, Moves, Live, Early
  <2>5. CASE ServeSendErr(e, k)
    BY <2>5, GotoServes DEF ServeSendErr, Moves, Live, Early
  <2>6. CASE ServeSetResult(e, k)
    BY <2>6, GotoServes DEF ServeSetResult, Moves, Live, Early
  <2>7. CASE ServeSendClose(e, k)
    BY <2>7, GotoServes DEF ServeSendClose, Moves, Live, Early
  <2>8. CASE ServeWait(e, k)
    BY <2>8, GotoServes DEF ServeWait, Moves, Live, Early
  <2>9. CASE ServeReturn(e, k)
    BY <2>9, GotoServes DEF ServeReturn, Moves, Live, Early
  <2> QED
    BY <2>1, <2>2, <2>3, <2>4, <2>5, <2>6, <2>7, <2>8, <2>9
<1>3. Ends
  <2>1. CASE conn' = conn /\ wire' = wire
    BY <2>1, NoEnds
  <2>2. CASE ServeSendErr(e, k)
    <3>1. Sent(e, conn[e], wire, Cmd("error")) \/ SendFails(e, conn[e], wire)
      BY <2>2 DEF ServeSendErr
    <3> QED
      BY <1>0, <3>1, WriteTame DEF Command
  <2>3. CASE ServeSetResult(e, k)
    <3> DEFINE c == [conn[e] EXCEPT !.onResult = [kind |-> "close", k |-> k]]
    <3>1. Tame(e, c) /\ SameOpen(e, c)
      BY <1>0 DEF ConnState, Tame, SameOpen
    <3>2. Becomes(e, c) /\ wire' = wire
      BY <2>3 DEF ServeSetResult
    <3> HIDE DEF c
    <3> QED
      BY <3>1, <3>2, OnlyConn
  <2>4. CASE ServeSendClose(e, k)
    <3>1. Sent(e, conn[e], wire, Cmd("close")) \/ SendFails(e, conn[e], wire)
      BY <2>4 DEF ServeSendClose
    <3> QED
      BY <1>0, <3>1, WriteTame DEF Command
  <2>5. CASE ServeReturn(e, k)
    <3> DEFINE c == [conn[e] EXCEPT !.open = @ \ {serve[e][k].conn}]
    <3>1. Tame(e, c) /\ SameOpen(e, c)
      BY <1>0 DEF ConnState, Tame, SameOpen
    <3>2. Becomes(e, c) /\ wire' = wire
      BY <2>5 DEF ServeReturn
    <3> HIDE DEF c
    <3> QED
      BY <3>1, <3>2, OnlyConn
  <2> QED
    BY <2>1, <2>2, <2>3, <2>4, <2>5 DEF ServeStart, ServeCheck, ServeReadErr, ServeStatus, ServeWait
<1> QED
  BY <1>1, <1>2, <1>3, Stays DEF Calm, Ends

LEMMA HandleCalm ==
  ASSUME TypeOK, Intact, NEW e \in End,
         \/ HandleClose(e) \/ (HandleOpen(e) /\ conn[e].status # "Idle")
         \/ DialTargetErr(e) \/ HandleReply(e) \/ HandleError(e)
         \/ CopyErr(e) \/ HandleReadErr(e)
  PROVE  Calm
<1>0. conn[e] \in ConnState /\ Tame(e, conn[e]) /\ SameOpen(e, conn[e]) /\ Basis(e, wire)
  BY StillTame DEF TypeOK, Basis
<1>1. sent' = sent /\ got' = got /\ (link' => link)
  BY DEF HandleClose, HandleOpen, DialTargetErr, HandleReply, HandleError, CopyErr,
         HandleReadErr, dataVars
<1>2. CASE HandleClose(e)
  <2> DEFINE c == CloseStream([conn[e] EXCEPT !.status = "Idle"])
  <2>1. c \in ConnState
    <3>1. [conn[e] EXCEPT !.status = "Idle"] \in ConnState
      BY <1>0 DEF ConnState, Status
    <3> QED
      BY <3>1, CloseStreamType
  <2>2. Tame(e, [c EXCEPT !.cur = NoFrame]) /\ SameOpen(e, [c EXCEPT !.cur = NoFrame])
    BY <1>0 DEF CloseStream, ConnState, Tame, SameOpen, NoFrame
  <2>3. Basis(e, Received(e))
    BY <1>2 DEF HandleClose, Incoming, AtHead, Basis
  <2>4. Answered(e, c, Received(e), "reply") \/ AnswerFails(e, c, Received(e))
    BY <1>2 DEF HandleClose
  <2>5. serve' = serve /\ dial' = dial
    BY <1>2 DEF HandleClose
  <2> HIDE DEF c
  <2>6. Ends
    BY <2>1, <2>2, <2>3, <2>4, AnswerTame DEF Command
  <2> QED
    BY <1>1, <2>5, <2>6, Stays DEF Calm, Ends
<1>3. CASE HandleOpen(e) /\ conn[e].status # "Idle"
  <2>1. Basis(e, Received(e))
    BY <1>3 DEF HandleOpen, Incoming, AtHead, Basis
  <2>2. closeWithCode(e, conn[e], Received(e), "internalError") /\ serve' = serve /\ dial' = dial
    BY <1>3 DEF HandleOpen
  <2>3. Ends
    BY <1>0, <2>1, <2>2, ShutTame DEF Command
  <2> QED
    BY <1>1, <2>2, <2>3, Stays DEF Calm, Ends
<1>4. CASE DialTargetErr(e)
  <2> DEFINE c == conn[e]
  <2>1. Tame(e, [c EXCEPT !.cur = NoFrame]) /\ SameOpen(e, [c EXCEPT !.cur = NoFrame])
    BY <1>0, <1>4 DEF ConnState, Tame, SameOpen, NoFrame, DialTargetErr
  <2>2. Answered(e, c, wire, "replyFalse") \/ AnswerFails(e, c, wire)
    BY <1>4 DEF DialTargetErr
  <2>3. serve' = serve /\ dial' = dial
    BY <1>4 DEF DialTargetErr
  <2>4. Ends
    BY <1>0, <2>1, <2>2, AnswerTame DEF Command
  <2> QED
    BY <1>1, <2>3, <2>4, Stays DEF Calm, Ends
<1>5. CASE HandleReply(e)
  <2> DEFINE cb == conn[e].onResult
             c == [conn[e] EXCEPT !.onResult = NoCallback,
                                  !.status = IF cb.kind = "close" THEN "Idle" ELSE @]
  <2>1. PICK t \in {"reply", "replyTrue", "replyFalse"} :
          /\ Incoming(e, t)
          /\ dial' = IF cb.kind = "dial" /\ cb.k = dial.k
                     THEN [dial EXCEPT !.res = IF t = "replyTrue" THEN "ok" ELSE "fail"]
                     ELSE dial
    BY <1>5 DEF HandleReply
  <2>2. /\ wire[e] # <<>> /\ Head(wire[e]).t = t /\ Basis(e, Received(e))
    BY <2>1 DEF Incoming, AtHead, Basis
  <2>3. t = "replyTrue" => Has(wire[e], "replyTrue")
    BY <2>2 DEF Has, TypeOK
  <2>4. DialMoves
    <3>1. cb.kind = "dial" => e = "client"
      BY DEF Intact, Opening, End
    <3> QED
      BY <2>1, <2>3, <3>1 DEF DialMoves, TypeOK, Dialing
  <2>5. Tame(e, c) /\ SameOpen(e, c)
    BY <1>0 DEF ConnState, Tame, SameOpen, NoCallback
  <2>6. Becomes(e, c) /\ wire' = Received(e)
    BY <1>5 DEF HandleReply
  <2> HIDE DEF c
  <2>7. \A x \in End : Tame(x, conn'[x]) /\ SameOpen(x, conn'[x])
    BY <2>5, <2>6, BecomesTame
  <2>8. \A x \in End : Kept(wire'[x], wire[x], Opens)
    <3>1. Cmd("reply") \in Frame /\ Cmd("reply").t \notin Opens
      BY FrameFacts DEF Cmd, Command, Opens
    <3> QED
      BY <2>2, <2>6, <3>1, PutKept
  <2>9. ServeMoves
    <3>1. CASE cb.kind = "close"
      <4>1. cb.k \in Session /\ serve' = [serve EXCEPT ![e][cb.k].done = TRUE]
        BY <1>0, <1>5, <3>1 DEF HandleReply, ConnState, Callback, NoCallback
      <4>2. \A x \in End, j \in Session :
              serve'[x][j] = serve[x][j] \/ serve'[x][j] = [serve[x][j] EXCEPT !.done = TRUE]
        BY <4>1 DEF TypeOK
      <4>3. \A x \in End, j \in Session :
              /\ [serve[x][j] EXCEPT !.done = TRUE].pc = serve[x][j].pc
              /\ [serve[x][j] EXCEPT !.done = TRUE].n = serve[x][j].n
              /\ [serve[x][j] EXCEPT !.done = TRUE].conn = serve[x][j].conn
        BY DEF TypeOK, Serving
      <4>4. ASSUME NEW x \in End, NEW j \in Session
            PROVE  /\ serve'[x][j].pc = serve[x][j].pc
                   /\ serve'[x][j].n = serve[x][j].n
                   /\ serve'[x][j].conn = serve[x][j].conn
        <5> DEFINE s == [serve[x][j] EXCEPT !.done = TRUE]
        <5>1. serve'[x][j] = serve[x][j] \/ serve'[x][j] = s
          BY <4>2
        <5>2. s.pc = serve[x][j].pc /\ s.n = serve[x][j].n /\ s.conn = serve[x][j].conn
          BY <4>3
        <5> HIDE DEF s
        <5> QED
          BY <5>1, <5>2
      <4> QED
        BY <4>4 DEF ServeMoves, Moves
    <3>2. CASE cb.kind # "close"
      BY <1>5, <3>2, Stays DEF HandleReply
    <3> QED
      BY <3>1, <3>2
  <2> QED
    BY <1>1, <2>4, <2>7, <2>8, <2>9 DEF Calm
<1>6. CASE HandleError(e)
  <2> DEFINE c == [conn[e] EXCEPT !.open = @ \ {conn[e].onCmdErr}, !.onCmdErr = None]
  <2>1. Tame(e, c) /\ SameOpen(e, c)
    BY <1>0 DEF ConnState, Tame, SameOpen
  <2>2. (Becomes(e, c) \/ conn' = conn) /\ wire' = Received(e) /\ serve' = serve /\ dial' = dial
    BY <1>6 DEF HandleError
  <2>3. Basis(e, Received(e))
    BY <1>6 DEF HandleError, Incoming, AtHead, Basis
  <2> HIDE DEF c
  <2>4. \A x \in End : Tame(x, conn'[x]) /\ SameOpen(x, conn'[x])
    BY <2>1, <2>2, BecomesTame, StillTame
  <2>5. \A x \in End : Kept(wire'[x], wire[x], Opens)
    <3>1. Cmd("reply") \in Frame /\ Cmd("reply").t \notin Opens
      BY FrameFacts DEF Cmd, Command, Opens
    <3> QED
      BY <2>2, <2>3, <3>1, PutKept
  <2> QED
    BY <1>1, <2>2, <2>4, <2>5, Stays DEF Calm
<1>7. CASE CopyErr(e)
  <2> DEFINE c == [conn[e] EXCEPT !.status = "Idle"]
             d == [c EXCEPT !.cur = NoFrame, !.handle =
                             IF e = "client" THEN "panic" ELSE "returned"]
  <2>1. c \in ConnState /\ CloseStream(c) \in ConnState
    <3>1. c \in ConnState
      BY <1>0 DEF ConnState, Status
    <3> QED
      BY <3>1, CloseStreamType
  <2>2. /\ Tame(e, [CloseStream(c) EXCEPT !.cur = NoFrame])
        /\ SameOpen(e, [CloseStream(c) EXCEPT !.cur = NoFrame])
    BY <1>0 DEF ConnState, Tame, SameOpen, CloseStream, NoFrame
  <2>3. Tame(e, d) /\ SameOpen(e, d)
    BY <1>0 DEF ConnState, Tame, SameOpen, NoFrame
  <2>4. \/ Becomes(e, d) /\ wire' = wire
        \/ Answered(e, CloseStream(c), wire, "error")
        \/ AnswerFails(e, CloseStream(c), wire)
    BY <1>7 DEF CopyErr
  <2>5. serve' = serve /\ dial' = dial
    BY <1>7 DEF CopyErr
  <2> HIDE DEF c, d
  <2>6. CASE Becomes(e, d) /\ wire' = wire
    <3>1. Ends
      BY <2>3, <2>6, OnlyConn
    <3> QED
      BY <1>1, <2>5, <3>1, Stays DEF Calm, Ends
  <2>7. CASE Answered(e, CloseStream(c), wire, "error") \/ AnswerFails(e, CloseStream(c), wire)
    <3>1. Ends
      BY <1>0, <2>1, <2>2, <2>7, AnswerTame DEF Command
    <3> QED
      BY <1>1, <2>5, <3>1, Stays DEF Calm, Ends
  <2> QED
    BY <2>4, <2>6, <2>7
<1>8. CASE HandleReadErr(e)
  <2> DEFINE c == [conn[e] EXCEPT !.handle = "returned"]
             d == [c EXCEPT !.ctxDone = TRUE]
  <2>1. c \in ConnState /\ Tame(e, c) /\ SameOpen(e, c) /\ Tame(e, d) /\ SameOpen(e, d)
    BY <1>0 DEF ConnState, Tame, SameOpen
  <2>2. \/ Becomes(e, d) /\ wire' = wire
        \/ closeWithCode(e, c, wire, "internalError")
    BY <1>8 DEF HandleReadErr
  <2>3. serve' = serve /\ dial' = dial
    BY <1>8 DEF HandleReadErr
  <2> HIDE DEF c, d
  <2>4. Ends
    BY <1>0, <2>1, <2>2, OnlyConn, ShutTame DEF Command
  <2> QED
    BY <1>1, <2>3, <2>4, Stays DEF Calm, Ends
<1> QED
  BY <1>2, <1>3, <1>4, <1>5, <1>6, <1>7, <1>8

LEMMA OtherCalm ==
  ASSUME TypeOK,
         \/ \E e \in End : Ping(e) \/ Close(e)
         \/ \E k \in Session : UserClose(k) \/ TargetEnd(k)
         \/ Break \/ ParentCancel
  PROVE  Calm
<1>1. sent' = sent /\ got' = got /\ (link' => link) /\ serve' = serve /\ dial' = dial
  <2>1. CASE \E e \in End : Ping(e)
    <3>1. PICK e \in End : Ping(e)
      BY <2>1
    <3>2. UNCHANGED <<link, dial, serve, dataVars>>
      BY <3>1 DEF Ping
    <3> QED
      BY <3>2 DEF dataVars
  <2>2. CASE \E e \in End : Close(e)
    BY <2>2 DEF Close, dataVars
  <2>3. CASE \E k \in Session : UserClose(k)
    BY <2>3 DEF UserClose, dataVars
  <2>4. CASE \E k \in Session : TargetEnd(k)
    BY <2>4 DEF TargetEnd
  <2>5. CASE Break
    BY <2>5 DEF Break, dataVars
  <2>6. CASE ParentCancel
    BY <2>6 DEF ParentCancel, dataVars
  <2> QED
    BY <2>1, <2>2, <2>3, <2>4, <2>5, <2>6
<1>2. \A e \in End : /\ conn[e] \in ConnState
                     /\ Tame(e, conn[e]) /\ SameOpen(e, conn[e]) /\ Basis(e, wire)
  BY StillTame DEF TypeOK, Basis
<1>3. ASSUME NEW e \in End, Ping(e) PROVE Ends
  <2> DEFINE c == [conn[e] EXCEPT !.ping = "ended"]
             d == [c EXCEPT !.status = "Closed", !.wsOpen = FALSE]
  <2>1. c \in ConnState /\ Tame(e, c) /\ SameOpen(e, c)
    BY <1>2 DEF ConnState, Tame, SameOpen
  <2>2. Tame(e, d) /\ SameOpen(e, d)
    BY <1>2 DEF ConnState, Tame, SameOpen
  <2>3. \/ Becomes(e, d) /\ (wire' = wire \/ wire' = Put(wire, e, Cmd("internalError")))
        \/ closeWithCode(e, c, wire, "internalError")
    BY <1>3 DEF Ping
  <2> HIDE DEF c, d
  <2>4. CASE Becomes(e, d) /\ (wire' = wire \/ wire' = Put(wire, e, Cmd("internalError")))
    <3>1. Cmd("internalError") \in Frame /\ Cmd("internalError").t \notin Opens
      BY FrameFacts DEF Cmd, Command, Opens
    <3>2. \A x \in End : Kept(wire'[x], wire[x], Opens)
      BY <1>2, <2>4, <3>1, PutKept
    <3> QED
      BY <2>2, <2>4, <3>2, BecomesTame DEF Ends
  <2>5. CASE closeWithCode(e, c, wire, "internalError")
    BY <1>2, <2>1, <2>5, ShutTame DEF Command
  <2> QED
    BY <2>3, <2>4, <2>5
<1>4. ASSUME NEW e \in End, Close(e) PROVE Ends
  <2>1. closeWithCode(e, conn[e], wire, "normalClosure")
    BY <1>4 DEF Close
  <2> QED
    BY <1>2, <2>1, ShutTame DEF Command
<1>5. ASSUME NEW k \in Session, UserClose(k) PROVE Ends
  <2> DEFINE c == [client EXCEPT !.open = @ \ {k}]
  <2>1. "client" \in End /\ Tame("client", c) /\ SameOpen("client", c)
    BY <1>2 DEF ConnState, Tame, SameOpen, End, client
  <2>2. Becomes("client", c) /\ wire' = wire
    BY <1>5 DEF UserClose
  <2> HIDE DEF c
  <2> QED
    BY <2>1, <2>2, OnlyConn
<1>6. ASSUME ParentCancel PROVE Ends
  <2> DEFINE c == [client EXCEPT !.ctxDone = TRUE]
  <2>1. "client" \in End /\ Tame("client", c) /\ SameOpen("client", c)
    BY <1>2 DEF ConnState, Tame, SameOpen, End, client
  <2>2. Becomes("client", c) /\ wire' = wire
    BY <1>6 DEF ParentCancel
  <2> HIDE DEF c
  <2> QED
    BY <2>1, <2>2, OnlyConn
<1>7. ASSUME Break \/ \E k \in Session : TargetEnd(k) PROVE Ends
  BY <1>7, NoEnds DEF Break, TargetEnd
<1>8. Ends
  BY <1>3, <1>4, <1>5, <1>6, <1>7
<1> QED
  BY <1>1, <1>8, Stays DEF Calm, Ends

(* Frames when one is taken or added.                                      *)
LEMMA TailFrames ==
  ASSUME NEW w \in Seq(Frame), w # <<>>
  PROVE  /\ \A t : Has(Tail(w), t) => Has(w, t)
         /\ OneOpen(w) => OneOpen(Tail(w))
         /\ (OneOpen(w) /\ Head(w).t = "open") => ~Has(Tail(w), "open")
         /\ OfFirst(w)
              => (Head(w).k \in {None, 1} /\ OfFirst(Tail(w)))
         /\ Has(w, Head(w).t)
<1> DEFINE v == Tail(w)
<1>1. /\ Len(w) \in Nat \ {0} /\ Len(v) = Len(w) - 1 /\ Head(w) = w[1]
      /\ \A i \in 1 .. Len(v) : v[i] = w[i + 1] /\ i + 1 \in 1 .. Len(w) /\ i + 1 # 1
  OBVIOUS
<1> HIDE DEF v
<1>2. \A t : Has(v, t) => Has(w, t)
  BY <1>1 DEF Has
<1>3. ASSUME OneOpen(w) PROVE OneOpen(v)
  <2> SUFFICES ASSUME NEW i \in 1 .. Len(v), NEW j \in 1 .. Len(v),
                      v[i].t = "open" /\ v[j].t = "open"
               PROVE  i = j
    BY DEF OneOpen
  <2>1. i + 1 = j + 1
    BY <1>1, <1>3 DEF OneOpen
  <2> QED
    BY <2>1
<1>4. ASSUME OneOpen(w), Head(w).t = "open", NEW i \in 1 .. Len(v), v[i].t = "open"
      PROVE  FALSE
  <2>1. 1 \in 1 .. Len(w) /\ i + 1 \in 1 .. Len(w) /\ i + 1 # 1
    BY <1>1
  <2> QED
    BY <1>1, <1>4, <2>1 DEF OneOpen
<1>5. OfFirst(w)
         => (Head(w).k \in {None, 1} /\ OfFirst(v))
  BY <1>1 DEF OfFirst
<1>6. Has(w, Head(w).t)
  BY <1>1 DEF Has
<1> QED
  BY <1>2, <1>3, <1>4, <1>5, <1>6 DEF v, Has

LEMMA AppendFrames ==
  ASSUME NEW w \in Seq(Frame), NEW f \in Frame
  PROVE  /\ \A t : Has(Append(w, f), t) => Has(w, t) \/ t = f.t
         /\ (OneOpen(w) /\ (f.t = "open" => ~Has(w, "open"))) => OneOpen(Append(w, f))
         /\ (f.k \in {None, 1} /\ OfFirst(w))
              => OfFirst(Append(w, f))
<1> DEFINE v == Append(w, f)
<1>1. /\ Len(w) \in Nat /\ Len(v) = Len(w) + 1 /\ v[Len(w) + 1] = f
      /\ \A i \in 1 .. Len(w) : v[i] = w[i]
  OBVIOUS
<1> HIDE DEF v
<1>2. \A i \in 1 .. Len(v) :
        \/ i \in 1 .. Len(w) /\ v[i] = w[i]
        \/ i = Len(w) + 1 /\ v[i] = f
  BY <1>1
<1>3. \A t : Has(v, t) => Has(w, t) \/ t = f.t
  BY <1>2 DEF Has
<1>4. ASSUME OneOpen(w), f.t = "open" => ~Has(w, "open") PROVE OneOpen(v)
  BY <1>2, <1>4 DEF OneOpen, Has
<1>5. (f.k \in {None, 1} /\ OfFirst(w))
         => OfFirst(v)
  BY <1>2 DEF OfFirst
<1> QED
  BY <1>3, <1>4, <1>5 DEF v

(* An end to which no chunk was sent.                                      *)
LEMMA EmptyEnd ==
  ASSUME TypeOK, TypeOK', 1 \in Session, NEW e \in End, Bounded(e), Written(e) = 0,
         got'[e][1] = got[e][1], sent'[Peer(e)] = sent[Peer(e)],
         serve'[Peer(e)] = serve[Peer(e)], wire'[e] = wire[e],
         conn'[e].cur.t # "data"
  PROVE  (Bounded(e) /\ InOrder(e) /\ Arrived(e))'
<1>1. Have(e) = 0 /\ Len(got[e][1]) = 0 /\ Have(e)' = 0 /\ Written(e)' = 0
  BY DataTypes DEF Bounded, Have, Written
<1>2. Top(e) = 0 /\ Top(e)' = 0 /\ Writer(e)' = Writer(e) /\ Writer(e).pc # "write"
  BY <1>1 DEF Top, Bounded, Writer
<1>3. \A i \in 1 .. Len(wire[e]) : wire[e][i].t # "data"
  BY <1>2 DEF Bounded, Upto
<1>4. Bounded(e)'
  BY <1>1, <1>2, <1>3 DEF Bounded, Upto
<1>5. InOrder(e)'
  BY <1>1, <1>2, <1>3 DEF InOrder, Sorted, Reaches
<1>6. Arrived(e)'
  BY <1>1 DEF Arrived
<1> QED
  BY <1>4, <1>5, <1>6

(* The two ends.                                                           *)
IntactParts == /\ "client" \in End /\ "server" \in End
               /\ Peer("client") = "server" /\ Peer("server") = "client"

LEMMA TwoEnds == IntactParts /\ End = {"client", "server"}
BY DEF IntactParts, End, Peer

(* The wire with one more frame.                                           *)
LEMMA PutEnds ==
  ASSUME TypeOK, NEW e \in End, NEW f \in Frame
  PROVE  /\ Put(wire, e, f)[e] = wire[e]
         /\ Put(wire, e, f)[Peer(e)] = IF link THEN Append(wire[Peer(e)], f) ELSE wire[Peer(e)]
BY EndFacts DEF Put, TypeOK

LEMMA ReceivedEnds ==
  ASSUME TypeOK, NEW e \in End
  PROVE  /\ Received(e)[e] = Tail(wire[e])
         /\ \A x \in End : x # e => Received(e)[x] = wire[x]
BY DEF Received, TypeOK

(* The open command of the first dial is sent, and taken.                  *)
LEMMA DialSendFirst ==
  ASSUME TypeOK, TypeOK', Intact, DialSend, dial'.k <= 1
  PROVE  Intact'
<1> DEFINE k == dial.k + 1
           c == [client EXCEPT !.onResult = [kind |-> "dial", k |-> k]]
<1>0. IntactParts /\ client = conn["client"] /\ client \in ConnState
  BY TwoEnds DEF client, TypeOK, IntactParts
<1>1. dial.k = 0 /\ dial'.k = 1 /\ 1 \in Session
  <2>1. dial'.k = k /\ k \in Session /\ dial.k \in Nat
    BY SessionFacts DEF DialSend, TypeOK, Dialing, Stream, None
  <2> QED
    BY <2>1 DEF Session
<1>2. Unopened
  BY <1>1 DEF Unopened
<1>3. c \in ConnState /\ Tame("client", c) /\ SameOpen("client", c)
  BY <1>0, <1>1 DEF ConnState, Callback, Tame, SameOpen
<1>4. /\ sent' = sent /\ got' = got /\ link' = link /\ serve' = serve
      /\ dial'.res = "none" /\ dial'.pc \in {"sent", "idle"}
  BY DEF DialSend, dataVars
<1>5. Sent("client", c, wire, OpenCmd(1)) \/ SendFails("client", c, wire)
  BY <1>1 DEF DialSend
<1>6. OpenCmd(1) \in Frame /\ OpenCmd(1).t = "open" /\ OpenCmd(1).k = 1
  BY <1>1, FrameFacts DEF OpenCmd
<1> HIDE DEF c
<1>7. /\ \A e \in End : Tame(e, conn'[e]) /\ SameOpen(e, conn'[e])
      /\ \A e \in End : Kept(wire'[e], wire[e], {"data"})
      /\ wire'["client"] = wire["client"]
      /\ OneOpen(wire'["server"])
      /\ OfFirst(wire'["server"])
  <2>1. CASE Sent("client", c, wire, OpenCmd(1))
    <3>1. wire' = Put(wire, "client", OpenCmd(1)) /\ Becomes("client", c)
      BY <2>1 DEF Sent
    <3>2. wire'["client"] = wire["client"]
          /\ (wire'["server"] = wire["server"] \/ wire'["server"] = Append(wire["server"], OpenCmd(1)))
      BY <1>0, <1>6, <3>1, PutEnds DEF IntactParts
    <3>3. ~Has(wire["server"], "open") /\ OneOpen(wire["server"])
          /\ OfFirst(wire["server"])
          /\ wire["server"] \in Seq(Frame)
      BY <1>0, <1>1 DEF Intact, Opening, FirstOnly, TypeOK, IntactParts
    <3>4. /\ OneOpen(wire'["server"])
          /\ OfFirst(wire'["server"])
      <4> DEFINE v == Append(wire["server"], OpenCmd(1))
      <4>1. OneOpen(v) /\ OfFirst(v)
        <5>1. /\ (OneOpen(wire["server"])
                    /\ (OpenCmd(1).t = "open" => ~Has(wire["server"], "open"))) => OneOpen(v)
              /\ (OpenCmd(1).k \in {None, 1}
                    /\ OfFirst(wire["server"]))
                   => OfFirst(v)
          BY <1>6, <3>3, AppendFrames, Zenon
        <5> QED
          BY <1>6, <3>3, <5>1, Zenon
      <4> HIDE DEF v
      <4>2. wire'["server"] = wire["server"] \/ wire'["server"] = v
        BY <3>2 DEF v
      <4> QED
        BY <3>3, <4>1, <4>2
    <3>5. \A e \in End : Kept(wire'[e], wire[e], {"data"})
      <4>1. Basis("client", wire) /\ "client" \in End /\ OpenCmd(1).t \notin {"data"}
        BY <1>0, <1>6 DEF Basis, IntactParts
      <4> QED
        BY <1>6, <3>1, <4>1, PutKept
    <3> QED
      BY <1>0, <1>3, <3>1, <3>2, <3>4, <3>5, BecomesTame DEF IntactParts
  <2>2. CASE SendFails("client", c, wire)
    <3>1. Ends
      BY <1>0, <1>3, <2>2, ShutTame DEF SendFails, Command, Basis, IntactParts
    <3>2. wire'["client"] = wire["client"]
      <4>1. Cmd("internalError") \in Frame
        BY FrameFacts DEF Command
      <4> QED
        BY <1>0, <2>2, <4>1, PutEnds DEF SendFails, closeWithCode, IntactParts
    <3>3. wire["server"] \in Seq(Frame) /\ wire'["server"] \in Seq(Frame)
          /\ Kept(wire'["server"], wire["server"], Opens)
          /\ OneOpen(wire["server"])
          /\ OfFirst(wire["server"])
      BY <1>0, <3>1 DEF TypeOK, Ends, Intact, Opening, FirstOnly, IntactParts
    <3>4. /\ OneOpen(wire'["server"])
          /\ OfFirst(wire'["server"])
      BY <3>3, KeptFrames DEF Opens
    <3> QED
      BY <3>1, <3>2, <3>4 DEF Ends, Kept, Opens
  <2> QED
    BY <1>5, <2>1, <2>2
<1>8. ChunksAlone
  BY <1>4, <1>7, Stays DEF ChunksAlone
<1>9. FirstOnly'
  <2>1. \A e \in End : conn'[e].streamConn \in {None, 1} /\ conn'[e].cur.k \in {None, 1}
    BY <1>7 DEF Intact, FirstOnly, Tame, SameOpen, NoFrame
  <2>2. \A e \in End : OfFirst(wire'[e])
    BY <1>7, TwoEnds DEF Intact, FirstOnly, IntactParts
  <2> QED
    BY <1>1, <1>4, <2>1, <2>2 DEF Intact, FirstOnly
<1>10. Opening'
  <2>1. /\ conn'["client"].cur.t # "open" /\ conn'["server"].cur.t # "open"
        /\ conn'["server"].onResult.kind # "dial" /\ conn'["server"].status # "Stream"
    BY <1>0, <1>1, <1>2, <1>7 DEF Intact, Opening, IntactParts, Tame, SameOpen, client, NoFrame
  <2>2. /\ ~Has(wire'["client"], "open") /\ ~Has(wire'["client"], "replyTrue")
        /\ serve'["server"][1].pc = "none" /\ serve'["client"][1].pc = "none"
    BY <1>2, <1>4, <1>7 DEF Intact, Opening
  <2> QED
    BY <1>1, <1>4, <1>7, <2>1, <2>2 DEF Opening, client
<1> QED
  BY <1>1, <1>8, <1>9, <1>10, ChunksKept DEF Intact

LEMMA HandleOpenFirst ==
  ASSUME TypeOK, TypeOK', Intact, NEW e \in End, HandleOpen(e), conn[e].status = "Idle"
  PROVE  Intact'
<1> DEFINE c == [conn[e] EXCEPT !.cur = Head(wire[e])]
<1>0. IntactParts /\ conn[e] \in ConnState /\ wire[e] \in Seq(Frame) /\ wire'[e] \in Seq(Frame)
  BY TwoEnds DEF TypeOK
<1>1. /\ wire[e] # <<>> /\ Head(wire[e]).t = "open" /\ conn[e].cur = NoFrame
      /\ Becomes(e, c) /\ wire' = Received(e)
      /\ sent' = sent /\ got' = got /\ link' = link /\ serve' = serve /\ dial' = dial
  BY DEF HandleOpen, Incoming, AtHead, Reading, dataVars
<1>2. c.streamConn = conn[e].streamConn /\ c.status = "Idle" /\ c.cur = Head(wire[e])
      /\ c.onResult = conn[e].onResult
  BY <1>0 DEF ConnState, HandleOpen
<1> HIDE DEF c
<1>3. conn'[e] = c /\ \A x \in End : x # e => conn'[x] = conn[x]
  BY <1>1 DEF Becomes, TypeOK
<1>4. wire'[e] = Tail(wire[e]) /\ \A x \in End : x # e => wire'[x] = wire[x]
  BY <1>1, ReceivedEnds
<1>5. /\ OneOpen(wire[e]) => OneOpen(wire'[e]) /\ ~Has(wire'[e], "open")
      /\ \A t : Has(wire'[e], t) => Has(wire[e], t)
      /\ Has(wire[e], "open") /\ Head(wire[e]).k \in {None, 1}
      /\ OfFirst(wire'[e])
  BY <1>0, <1>1, <1>4, TailFrames DEF Intact, FirstOnly
<1>6. e = "server"
  BY <1>5, TwoEnds DEF Intact, Opening
<1>7. FirstOnly'
  BY <1>1, <1>2, <1>3, <1>4, <1>5 DEF Intact, FirstOnly
<1>8. Unopened
  BY <1>5, <1>6 DEF Unopened
<1>9. Opening'
  <2>1. /\ conn'["client"] = conn["client"] /\ wire'["client"] = wire["client"]
        /\ conn'["server"] = c /\ dial.k # 0
    BY <1>0, <1>3, <1>4, <1>5, <1>6 DEF IntactParts, Intact, Opening
  <2> QED
    BY <1>1, <1>2, <1>5, <1>6, <1>8, <2>1 DEF Intact, Opening, client
<1>10. ChunksAlone
  <2>1. \A x \in End : Kept(wire'[x], wire[x], {"data"})
    BY <1>1, <1>4 DEF Kept
  <2>2. \A x \in End : Tame(x, conn'[x])
    BY <1>1, <1>2, <1>3, StillTame DEF Tame, NoFrame
  <2> QED
    BY <1>1, <2>1, <2>2, Stays DEF ChunksAlone
<1> QED
  BY <1>7, <1>9, <1>10, ChunksKept DEF Intact, FirstOnly

(* Making the pipe, and the connection to the target: nothing was sent     *)
(* before.                                                                 *)
LEMMA NothingSent ==
  ASSUME TypeOK, Intact, serve["client"][1].pc = "none"
  PROVE  Written("server") = 0 /\ Written("client") = 0
<1>0. IntactParts /\ 1 \in Session
  BY TwoEnds DEF Intact, FirstOnly
<1>1. Bounded("client") /\ Bounded("server") /\ Answering
  BY <1>0 DEF Intact, Chunks, IntactParts
<1>2. Written("server") = 0
  BY <1>0, <1>1 DEF Bounded, Writer, Early, IntactParts
<1>3. Len(got["server"][1]) = 0
  BY <1>0, <1>1, <1>2, DataTypes DEF Bounded, Have, IntactParts
<1>4. got["server"][1] = <<>>
  BY <1>0, <1>3, DataTypes DEF IntactParts
<1>5. sent["server"][1] = 0
  BY <1>0, <1>1, <1>4, DataTypes DEF Answering, IntactParts
<1> QED
  BY <1>0, <1>2, <1>5 DEF Written, IntactParts

LEMMA DialAcceptFirst ==
  ASSUME TypeOK, TypeOK', Intact, DialAccept
  PROVE  Intact'
<1> DEFINE c == NewPipe(client, dial.k)
<1>0. IntactParts /\ client = conn["client"] /\ client \in ConnState /\ 1 \in Session
  BY TwoEnds DEF client, TypeOK, IntactParts, Intact, FirstOnly
<1>1. dial.pc = "accepted" /\ dial.k = 1 /\ client.cur = NoFrame
      /\ ~Unopened /\ serve["client"][1].pc = "none"
  <2>1. dial.pc = "accepted" /\ client.cur = NoFrame
    BY <1>0 DEF DialAccept, LockFree
  <2>2. ~Unopened /\ serve["client"][1].pc = "none"
    BY <2>1 DEF Intact, Opening
  <2>3. dial.k \in {None, 1} /\ dial.k # 0
    BY <2>2 DEF Intact, FirstOnly, Unopened
  <2> QED
    BY <2>1, <2>2, <2>3 DEF None
<1>2. c.cur = NoFrame /\ c.streamConn = 1 /\ c.onResult = client.onResult
  BY <1>0, <1>1 DEF NewPipe, ConnState
<1>3. /\ Becomes("client", c) /\ wire' = wire /\ link' = link /\ sent' = sent /\ got' = got
      /\ serve' = [serve EXCEPT !["client"][1].pc = "start"]
      /\ dial' = [dial EXCEPT !.pc = "idle"]
  BY <1>1 DEF DialAccept, dataVars
<1> HIDE DEF c
<1>4. conn'["client"] = c /\ conn'["server"] = conn["server"]
  BY <1>0, <1>3 DEF Becomes, TypeOK, IntactParts
<1>5. /\ serve'["server"] = serve["server"]
      /\ serve'["client"][1] = [serve["client"][1] EXCEPT !.pc = "start"]
      /\ \A k \in Session : k # 1 => serve'["client"][k] = serve["client"][k]
  BY <1>0, <1>3 DEF TypeOK, IntactParts
<1>6. /\ serve'["client"][1].pc = "start" /\ serve'["client"][1].n = serve["client"][1].n
      /\ serve'["client"][1].conn = serve["client"][1].conn
  BY <1>0, <1>5, DataTypes DEF Serving, IntactParts
<1>7. dial'.k = 1 /\ dial'.pc = "idle" /\ dial'.res = dial.res
  BY <1>1, <1>3 DEF TypeOK, Dialing
<1>8. (Bounded("client") /\ InOrder("client") /\ Arrived("client"))'
  <2>1. Bounded("client") /\ Written("client") = 0
    BY <1>0, <1>1, NothingSent DEF Intact, Chunks, IntactParts
  <2>2. conn'["client"].cur.t # "data"
    BY <1>2, <1>4 DEF NoFrame
  <2> QED
    BY <1>0, <1>3, <1>5, <2>1, <2>2, EmptyEnd DEF IntactParts
<1>9. (Bounded("server") /\ InOrder("server") /\ Arrived("server"))'
  <2>1. Bounded("server") /\ InOrder("server") /\ Arrived("server")
    BY <1>0 DEF Intact, Chunks, IntactParts
  <2>2. Tame("server", conn'["server"]) /\ Kept(wire'["server"], wire["server"], {"data"})
    BY <1>0, <1>3, <1>4, StillTame DEF IntactParts, Kept
  <2>3. /\ Steady(Writer("server").pc, Writer("server").pc')
        /\ Writer("server").n' = Writer("server").n
    BY <1>0, <1>1, <1>6 DEF Writer, Steady, Live, Early, IntactParts
  <2>4. got'["server"][1] = got["server"][1] /\ (link' => link)
        /\ sent'[Peer("server")][1] = sent[Peer("server")][1]
    BY <1>3
  <2> QED
    BY <1>0, <2>1, <2>2, <2>3, <2>4, KeptAt DEF IntactParts
<1>10. Chunks'
  BY <1>3, <1>8, <1>9, TwoEnds DEF Chunks, Answering, Intact
<1>11. FirstOnly'
  <2>1. \A e \in End : conn'[e].streamConn \in {None, 1} /\ conn'[e].cur.k \in {None, 1}
    BY <1>2, <1>4, TwoEnds DEF Intact, FirstOnly, NoFrame
  <2>2. \A e \in End : /\ serve'[e][1].conn \in {None, 1}
                       /\ \A k \in Session : k # 1 => serve'[e][k].pc = "none"
    <3>1. ASSUME NEW e \in End
        PROVE  /\ serve[e][1].conn \in {None, 1}
               /\ \A k \in Session : k # 1 => serve[e][k].pc = "none"
      BY DEF Intact, FirstOnly
    <3>2. ASSUME NEW e \in End
        PROVE  /\ serve'[e][1].conn = serve[e][1].conn
               /\ \A k \in Session : k # 1 => serve'[e][k] = serve[e][k]
      BY <1>5, <1>6, TwoEnds
    <3> QED
      BY <3>1, <3>2
  <2> QED
    BY <1>3, <1>7, <2>1, <2>2 DEF Intact, FirstOnly
<1>12. Opening'
  <2>1. ~Unopened'
    BY <1>1, <1>3, <1>4, <1>7 DEF Unopened
  <2> QED
    BY <1>0, <1>1, <1>2, <1>3, <1>4, <1>7, <2>1 DEF Intact, Opening, client, NoFrame
<1> QED
  BY <1>10, <1>11, <1>12 DEF Intact

LEMMA DialTargetFirst ==
  ASSUME TypeOK, TypeOK', Intact, NEW e \in End, DialTargetOk(e)
  PROVE  Intact'
<1> DEFINE s == conn["server"]
           c == [s EXCEPT !.status = "Stream", !.streamConn = 1, !.open = @ \cup {1}]
           a == [c EXCEPT !.cur = NoFrame]
           b == [c EXCEPT !.cur = NoFrame, !.handle = "returned"]
           d == [CloseStream(b) EXCEPT
                   !.status = "Closed", !.wsOpen = FALSE, !.ctxDone = TRUE]
<1>0. IntactParts /\ s \in ConnState /\ 1 \in Session
  BY TwoEnds DEF TypeOK, IntactParts, Intact, FirstOnly
<1>1. e = "server" /\ s.cur.t = "open" /\ s.cur.k = 1
  <2>1. conn[e].cur.t = "open"
    BY DEF DialTargetOk
  <2>2. e = "server"
    BY <2>1, TwoEnds DEF Intact, Opening, client
  <2>3. s.cur \in Frame \cup {NoFrame} /\ s.cur.k \in {None, 1}
    BY <1>0 DEF ConnState, Intact, FirstOnly, IntactParts
  <2>4. s.cur.k # None
    BY <2>1, <2>2, <2>3, SessionFacts DEF Frame, NoFrame, Command
  <2> QED
    BY <2>1, <2>2, <2>3, <2>4
<1>2. Unopened
  BY <1>1 DEF Unopened
<1>3. /\ sent' = sent /\ got' = got /\ link' = link /\ dial' = dial
      /\ \/ Answered("server", c, wire, "replyTrue") /\ Goto("server", 1, "start")
         \/ AnswerFails("server", c, wire) /\ serve' = serve
  BY <1>1 DEF DialTargetOk, dataVars
<1>4. c \in ConnState /\ a \in ConnState /\ b \in ConnState
  <2>1. c \in ConnState
    BY <1>0 DEF ConnState, Status, Stream
  <2> QED
    BY <2>1 DEF ConnState
<1>5. CASE AnswerFails("server", c, wire) /\ serve' = serve
  <2>1. b.status = "Stream"
    BY <1>4 DEF ConnState
  <2>2. closeWithCode("server", b, wire, "internalError")
    BY <1>5 DEF AnswerFails, SendFails
  <2>3. Becomes("server", d)
        /\ (wire' = wire \/ wire' = Put(wire, "server", Cmd("internalError")))
    BY <2>1, <2>2 DEF closeWithCode
  <2>4. d.streamConn = None /\ d.status = "Closed" /\ d.cur = NoFrame
        /\ d.onResult = s.onResult
    BY <1>0, <1>4 DEF CloseStream, ConnState
  <2>5. Tame("server", d) /\ SameOpen("server", d)
    BY <1>1, <2>4 DEF Tame, SameOpen, NoFrame
  <2> HIDE DEF d
  <2>6. \A x \in End : Kept(wire'[x], wire[x], Opens)
    <3>1. Cmd("internalError") \in Frame /\ Cmd("internalError").t \notin Opens
          /\ Basis("server", wire)
      BY FrameFacts DEF Cmd, Command, Opens, Basis
    <3> QED
      BY <1>0, <2>3, <3>1, PutKept DEF IntactParts
  <2>7. Ends
    BY <1>0, <2>3, <2>5, <2>6, BecomesTame DEF Ends, IntactParts
  <2>8. Calm
    BY <1>3, <1>5, <2>7, Stays DEF Calm, Ends
  <2> QED
    BY <2>8, CalmKeeps
<1>6. CASE Answered("server", c, wire, "replyTrue") /\ Goto("server", 1, "start")
  <2>1. /\ Becomes("server", a) /\ wire' = Put(wire, "server", Cmd("replyTrue"))
        /\ Goto("server", 1, "start")
    BY <1>6 DEF Answered, Sent
  <2>2. a.cur = NoFrame /\ a.streamConn = 1 /\ a.onResult = s.onResult
    BY <1>0, <1>4 DEF ConnState
  <2> HIDE DEF a, c
  <2>3. conn'["server"] = a /\ conn'["client"] = conn["client"]
    BY <1>0, <2>1 DEF Becomes, TypeOK, IntactParts
  <2>4. /\ serve'["client"] = serve["client"]
        /\ serve'["server"][1] = [serve["server"][1] EXCEPT !.pc = "start"]
        /\ \A k \in Session : k # 1 => serve'["server"][k] = serve["server"][k]
    BY <1>0, <2>1 DEF Goto, TypeOK, IntactParts
  <2>5. /\ serve'["server"][1].pc = "start" /\ serve'["server"][1].n = serve["server"][1].n
        /\ serve'["server"][1].conn = serve["server"][1].conn
    BY <1>0, <2>4, DataTypes DEF Serving, IntactParts
  <2>6. serve["client"][1].pc = "none" /\ serve["server"][1].pc = "none"
    BY <1>2 DEF Intact, Opening
  <2>7. Cmd("replyTrue") \in Frame /\ Cmd("replyTrue").t = "replyTrue"
        /\ Cmd("replyTrue").k = None
    BY FrameFacts DEF Cmd, Command
  <2>8. /\ wire'["server"] = wire["server"]
        /\ \/ wire'["client"] = wire["client"]
           \/ wire'["client"] = Append(wire["client"], Cmd("replyTrue"))
    BY <1>0, <2>1, <2>7, PutEnds DEF IntactParts
  <2>9. (Bounded("server") /\ InOrder("server") /\ Arrived("server"))'
    <3>1. Bounded("server") /\ Written("server") = 0
      BY <1>0, <2>6, NothingSent DEF Intact, Chunks, IntactParts
    <3>2. conn'["server"].cur.t # "data"
      BY <2>2, <2>3 DEF NoFrame
    <3> QED
      BY <1>0, <1>3, <2>4, <2>8, <3>1, <3>2, EmptyEnd DEF IntactParts
  <2>10. (Bounded("client") /\ InOrder("client") /\ Arrived("client"))'
    <3>1. Bounded("client") /\ InOrder("client") /\ Arrived("client")
      BY <1>0 DEF Intact, Chunks, IntactParts
    <3>2. Tame("client", conn'["client"])
      BY <1>0, <2>3, StillTame DEF IntactParts
    <3>3. Kept(wire'["client"], wire["client"], {"data"})
      BY <2>7, <2>8 DEF Kept
    <3>4. /\ Steady(Writer("client").pc, Writer("client").pc')
          /\ Writer("client").n' = Writer("client").n
      BY <1>0, <2>5, <2>6 DEF Writer, Steady, Live, Early, IntactParts
    <3>5. got'["client"][1] = got["client"][1] /\ (link' => link)
          /\ sent'[Peer("client")][1] = sent[Peer("client")][1]
      BY <1>3
    <3> QED
      BY <1>0, <3>1, <3>2, <3>3, <3>4, <3>5, KeptAt DEF IntactParts
  <2>11. Chunks'
    BY <1>3, <2>9, <2>10, TwoEnds DEF Chunks, Answering, Intact
  <2>12. OfFirst(wire'["client"]) /\ ~Has(wire'["client"], "open")
    <3>1. wire["client"] \in Seq(Frame) /\ OfFirst(wire["client"]) /\ ~Has(wire["client"], "open")
      BY <1>0 DEF TypeOK, IntactParts, Intact, FirstOnly, Opening
    <3> DEFINE v == Append(wire["client"], Cmd("replyTrue"))
    <3>2. OfFirst(v) /\ ~Has(v, "open")
      BY <2>7, <3>1, AppendFrames
    <3> QED
      BY <2>8, <3>1, <3>2
  <2>13. FirstOnly'
    <3>1. \A x \in End : /\ conn'[x].streamConn \in {None, 1} /\ conn'[x].cur.k \in {None, 1}
                         /\ OfFirst(wire'[x])
      BY <2>2, <2>3, <2>8, <2>12, TwoEnds DEF Intact, FirstOnly, NoFrame
    <3>2. \A x \in End : /\ serve'[x][1].conn \in {None, 1}
                         /\ \A k \in Session : k # 1 => serve'[x][k].pc = "none"
      <4>1. ASSUME NEW x \in End
          PROVE  /\ serve[x][1].conn \in {None, 1}
                 /\ \A k \in Session : k # 1 => serve[x][k].pc = "none"
        BY DEF Intact, FirstOnly
      <4>2. ASSUME NEW x \in End
          PROVE  /\ serve'[x][1].conn = serve[x][1].conn
                 /\ \A k \in Session : k # 1 => serve'[x][k] = serve[x][k]
        BY <2>4, <2>5, TwoEnds
      <4> QED
        BY <4>1, <4>2
    <3> QED
      BY <1>3, <3>1, <3>2 DEF Intact, FirstOnly
  <2>14. Opening'
    <3>1. ~Unopened'
      <4>1. dial'.k # 0 /\ ~Has(wire'["server"], "open")
        BY <1>1, <1>3, <2>8 DEF Intact, Opening
      <4> QED
        BY <2>2, <2>3, <4>1 DEF Unopened, NoFrame
    <3>2. conn'["client"].cur.t # "open" /\ conn'["server"].onResult.kind # "dial"
          /\ OneOpen(wire'["server"]) /\ dial'.k # 0 /\ conn'["server"].cur.t # "open"
      BY <1>1, <1>3, <2>2, <2>3, <2>8 DEF Intact, Opening, client, NoFrame
    <3>3. dial'.pc # "idle" => serve'["client"][1].pc = "none"
      BY <2>4, <2>6
    <3> QED
      BY <2>12, <3>1, <3>2, <3>3 DEF Opening, client
  <2> QED
    BY <2>11, <2>13, <2>14 DEF Intact
<1> HIDE DEF c
<1> QED
  BY <1>3, <1>5, <1>6

(* What was sent is no more than was read, and no less than arrived.       *)
LEMMA TopFacts ==
  ASSUME TypeOK, 1 \in Session, NEW e \in End, Bounded(e)
  PROVE  /\ Top(e) \in Nat /\ Top(e) <= Written(e)
         /\ (Flowing(e) /\ InOrder(e) /\ link /\ Writer(e).pc \in Live) => Have(e) <= Top(e)
<1>1. Top(e) \in Nat /\ Top(e) <= Written(e) /\ Have(e) \in Nat
  BY DataTypes DEF Top, Bounded
<1>2. ASSUME Sorted(wire[e], Have(e)), Reaches(wire[e], Have(e), Top(e))
      PROVE  Have(e) <= Top(e)
  BY <1>1, <1>2 DEF Sorted, Reaches
<1> QED
  BY <1>1, <1>2 DEF InOrder

(* The opening is left alone by a step of the goroutine or of the handler. *)
LEMMA OpeningStays ==
  ASSUME TypeOK, Intact, dial' = dial,
         \A e \in End :
           /\ conn'[e].streamConn = conn[e].streamConn /\ conn'[e].status = conn[e].status
           /\ conn'[e].onResult = conn[e].onResult
           /\ conn'[e].cur.t # "open" \/ conn'[e].cur = conn[e].cur
           /\ conn'[e].cur.k \in {None, 1}
           /\ OfFirst(wire'[e])
           /\ \A t \in {"open", "replyTrue"} : Has(wire'[e], t) => Has(wire[e], t)
           /\ OneOpen(wire[e]) => OneOpen(wire'[e]),
         \A e \in End, k \in Session :
           /\ k # 1 => got'[e][k] = got[e][k]
           /\ serve[e][k].pc = "none" <=> serve'[e][k].pc = "none"
           /\ serve'[e][k].conn = serve[e][k].conn
  PROVE  FirstOnly' /\ Opening'
<1>1. DialMoves
  BY Stays
<1>2. OpeningAlone
  BY <1>1 DEF OpeningAlone
<1> QED
  BY <1>2, OpeningKept DEF Intact

(* The parts of the invariant, of each end.                                *)
LEMMA SameWires ==
  ASSUME Intact
  PROVE  \A e \in End :
           /\ OfFirst(wire[e]) /\ conn[e].cur.k \in {None, 1}
           /\ Bounded(e) /\ InOrder(e) /\ Arrived(e)
BY DEF Intact, FirstOnly, Chunks

(* A chunk is read, sent, taken from the wire and copied.                  *)
LEMMA ServeReadFirst ==
  ASSUME TypeOK, TypeOK', Intact, "banner" \notin Env,
         NEW e \in End, NEW k \in Session, ServeReadData(e, k)
  PROVE  Intact'
<1> DEFINE p == Peer(e)
<1>0. p \in End /\ p # e /\ Peer(p) = e /\ 1 \in Session /\ End = {e, p}
  BY EndFacts, TwoEnds DEF Intact, FirstOnly, Peer, End
<1>1. k = 1 /\ serve[e][1].pc = "read"
  BY DEF ServeReadData, AtRead, Intact, FirstOnly
<1>2. serve[e][1].conn = 1
  <2>1. serve[e][1].conn \in conn[e].open
    BY <1>1 DEF ServeReadData
  <2>2. conn[e].open \subseteq Session
    BY DEF TypeOK, ConnState
  <2> QED
    BY <2>1, <2>2, SessionFacts DEF Intact, FirstOnly
<1>3. /\ conn' = conn /\ wire' = wire /\ link' = link /\ dial' = dial /\ got' = got
      /\ sent' = [sent EXCEPT ![e][1] = @ + 1]
      /\ serve' = [serve EXCEPT ![e][1].pc = "write", ![e][1].n = sent[e][1] + 1]
      /\ e = "server" => got["server"][1] # <<>>
  BY <1>1, <1>2 DEF ServeReadData
<1>4. /\ sent'[e][1] = sent[e][1] + 1 /\ sent'[p] = sent[p]
      /\ serve'[p] = serve[p]
      /\ serve'[e][1] = [serve[e][1] EXCEPT !.pc = "write", !.n = sent[e][1] + 1]
      /\ \A j \in Session : j # 1 => serve'[e][j] = serve[e][j]
  BY <1>0, <1>3 DEF TypeOK
<1>5. /\ serve'[e][1].pc = "write" /\ serve'[e][1].n = sent[e][1] + 1
      /\ serve'[e][1].conn = serve[e][1].conn
  BY <1>0, <1>4, DataTypes DEF Serving
<1> HIDE DEF p
<1>6. Bounded(p) /\ InOrder(p) /\ Arrived(p) /\ Bounded(e) /\ InOrder(e) /\ Arrived(e)
  BY <1>0, SameWires
<1>7. (Bounded(p) /\ InOrder(p) /\ Arrived(p))'
  <2>1. Written(p) = sent[e][1] /\ Written(p)' = Written(p) + 1 /\ Written(p) \in Nat
        /\ Writer(p).pc = "read" /\ Writer(p).pc' = "write" /\ Writer(p).n' = Written(p)'
    BY <1>0, <1>1, <1>4, <1>5, DataTypes DEF Written, Writer
  <2>2. Top(p)' = Top(p)
    BY <2>1 DEF Top
  <2>3. Have(p)' = Have(p) /\ Have(p) \in Nat /\ (Flowing(p)' <=> Flowing(p))
    BY <1>0, <1>3, DataTypes DEF Have, Flowing
  <2>4. Bounded(p)'
    BY <1>3, <1>6, <2>1, <2>2, <2>3 DEF Bounded, Early
  <2>5. InOrder(p)'
    BY <1>3, <1>6, <2>1, <2>2, <2>3 DEF InOrder, Live
  <2>6. Arrived(p)'
    BY <1>3, <1>6 DEF Arrived
  <2> QED
    BY <2>4, <2>5, <2>6
<1>8. (Bounded(e) /\ InOrder(e) /\ Arrived(e))'
  <2>1. Tame(e, conn'[e]) /\ Kept(wire'[e], wire[e], {"data"})
    BY <1>3, StillTame DEF Kept
  <2>2. Steady(Writer(e).pc, Writer(e).pc') /\ Writer(e).n' = Writer(e).n
    BY <1>0, <1>4 DEF Writer, Steady, Live, p
  <2>3. got'[e][1] = got[e][1] /\ sent'[Peer(e)][1] = sent[Peer(e)][1] /\ (link' => link)
    BY <1>3, <1>4 DEF p
  <2> QED
    BY <1>0, <1>6, <2>1, <2>2, <2>3, KeptAt
<1>9. Answering'
  BY <1>0, <1>3, <1>4, TwoEnds DEF Intact, Chunks, Answering
<1>10. FirstOnly' /\ Opening'
  <2>1. \A x \in End, j \in Session :
           /\ j # 1 => got'[x][j] = got[x][j]
           /\ serve[x][j].pc = "none" <=> serve'[x][j].pc = "none"
           /\ serve'[x][j].conn = serve[x][j].conn
    <3>1. ASSUME NEW j \in Session
          PROVE  /\ serve[e][j].pc = "none" <=> serve'[e][j].pc = "none"
                 /\ serve'[e][j].conn = serve[e][j].conn
      <4>1. CASE j = 1
        BY <1>1, <1>5, <4>1
      <4>2. CASE j # 1
        BY <1>4, <4>2
      <4> QED
        BY <4>1, <4>2
    <3>2. serve'[p] = serve[p] /\ got' = got
      BY <1>3, <1>4
    <3> QED
      BY <1>0, <3>1, <3>2
  <2> QED
    BY <1>3, <2>1, SameWires, OpeningStays
<1> QED
  BY <1>0, <1>7, <1>8, <1>9, <1>10 DEF Intact, Chunks

LEMMA ServeWriteFirst ==
  ASSUME TypeOK, TypeOK', Intact, NEW e \in End, NEW k \in Session, ServeWrite(e, k)
  PROVE  Intact'
<1> DEFINE p == Peer(e)
           f == Chunk(1, Top(p) + 1)
<1>0. p \in End /\ p # e /\ Peer(p) = e /\ 1 \in Session /\ End = {e, p}
  BY EndFacts, TwoEnds DEF Intact, FirstOnly, Peer, End
<1>1. k = 1 /\ serve[e][1].pc = "write" /\ Writer(p) = serve[e][1]
  BY <1>0 DEF ServeWrite, Intact, FirstOnly, Writer
<1>2. Bounded(p) /\ InOrder(p) /\ Arrived(p) /\ Bounded(e) /\ InOrder(e) /\ Arrived(e)
  BY <1>0, SameWires
<1>3. serve[e][1].conn = 1
  BY <1>0, <1>1, DataTypes DEF Serving, Intact, FirstOnly
<1>4. /\ Top(p) + 1 = Written(p) /\ serve[e][1].n = Written(p) /\ Written(p) \in Nat
      /\ Written(p) <= MaxData /\ Top(p) \in Nat
  <2>1. Written(p) = sent[e][1]
    BY <1>0 DEF Written
  <2> QED
    BY <1>0, <1>1, <1>2, <2>1, DataTypes, TopFacts DEF Bounded, Top
<1>5. /\ sent' = sent /\ got' = got /\ link' = link /\ dial' = dial
      /\ \/ Sent(e, conn[e], wire, f) /\ Goto(e, 1, "read")
         \/ SendFails(e, conn[e], wire) /\ Goto(e, 1, "return")
  BY <1>1, <1>3, <1>4 DEF ServeWrite, dataVars
<1> HIDE DEF p
<1>6. CASE SendFails(e, conn[e], wire) /\ Goto(e, 1, "return")
  <2>1. Ends
    BY <1>6, StillTame, ShutTame DEF SendFails, Command, Basis, TypeOK
  <2>2. ServeMoves
    BY <1>0, <1>1, <1>6, GotoServes DEF Moves, Live, Early
  <2>3. Calm
    BY <1>5, <2>1, <2>2, Stays DEF Calm, Ends
  <2> QED
    BY <2>3, CalmKeeps
<1>7. CASE Sent(e, conn[e], wire, f) /\ Goto(e, 1, "read")
  <2>0. f \in Frame /\ f.t = "data" /\ f.k = 1
    <3>1. Top(p) + 1 \in 0 .. MaxData
      BY <1>4, BoundsAssumption
    <3> QED
      BY <1>0, <3>1, FrameFacts DEF Chunk
  <2>1. conn' = conn /\ wire' = Put(wire, e, f)
    BY <1>7 DEF Sent, Becomes, TypeOK
  <2>2. /\ serve'[p] = serve[p]
        /\ serve'[e][1] = [serve[e][1] EXCEPT !.pc = "read"]
        /\ \A j \in Session : j # 1 => serve'[e][j] = serve[e][j]
    BY <1>0, <1>7 DEF Goto, TypeOK
  <2>3. /\ serve'[e][1].pc = "read" /\ serve'[e][1].n = serve[e][1].n
        /\ serve'[e][1].conn = serve[e][1].conn
    BY <1>0, <2>2, DataTypes DEF Serving
  <2>4. wire'[e] = wire[e] /\ wire'[p] = IF link THEN Append(wire[p], f) ELSE wire[p]
    BY <2>0, <2>1, PutEnds DEF p
  <2>5. wire[p] \in Seq(Frame) /\ Have(p) \in Nat
    BY <1>0, DataTypes
  <2> HIDE DEF f
  <2>6. /\ Written(p)' = Written(p) /\ Writer(p).pc' = "read" /\ Top(p)' = Top(p) + 1
        /\ Have(p)' = Have(p) /\ (Flowing(p)' <=> Flowing(p))
    BY <1>0, <1>4, <1>5, <2>1, <2>3 DEF Written, Writer, Top, Have, Flowing
  <2>7. ASSUME link
        PROVE  /\ Upto(wire'[p], Top(p) + 1)
               /\ Flowing(p) => /\ Sorted(wire'[p], Have(p))
                                /\ Reaches(wire'[p], Have(p), Top(p) + 1)
    <3>1. wire'[p] = Append(wire[p], Chunk(1, Top(p) + 1)) /\ Top(p) + 1 <= MaxData
          /\ Upto(wire[p], Top(p))
      BY <1>2, <1>4, <2>4, <2>7 DEF f, Bounded
    <3>2. Upto(wire'[p], Top(p) + 1)
      BY <1>0, <1>4, <2>5, <3>1, SentChunk
    <3>3. ASSUME Flowing(p)
          PROVE  Sorted(wire'[p], Have(p)) /\ Reaches(wire'[p], Have(p), Top(p) + 1)
      <4>1. /\ Sorted(wire[p], Have(p)) /\ Reaches(wire[p], Have(p), Top(p))
            /\ Have(p) <= Top(p)
        BY <1>0, <1>1, <1>2, <2>7, <3>3, TopFacts DEF InOrder, Live
      <4> QED
        BY <1>0, <1>4, <2>5, <3>1, <4>1, SentChunk
    <3> QED
      BY <3>2, <3>3
  <2>8. (Bounded(p) /\ InOrder(p) /\ Arrived(p))'
    <3>1. Upto(wire'[p], Top(p) + 1)
      <4>1. Upto(wire[p], Top(p)) => Upto(wire[p], Top(p) + 1)
        BY <1>4 DEF Upto
      <4> QED
        BY <1>2, <2>4, <2>7, <4>1 DEF Bounded
    <3>2. Bounded(p)'
      BY <1>2, <2>6, <3>1 DEF Bounded, Early
    <3>3. Flowing(p) => Sorted(wire'[p], Have(p))
      BY <1>2, <2>4, <2>7 DEF InOrder
    <3>4. InOrder(p)'
      BY <1>5, <2>6, <2>7, <3>3 DEF InOrder
    <3>5. Arrived(p)'
      BY <1>2, <1>5, <2>1 DEF Arrived
    <3> QED
      BY <3>2, <3>4, <3>5
  <2>9. (Bounded(e) /\ InOrder(e) /\ Arrived(e))'
    <3>1. Tame(e, conn'[e]) /\ Kept(wire'[e], wire[e], {"data"})
      BY <2>1, <2>4, StillTame DEF Kept
    <3>2. Steady(Writer(e).pc, Writer(e).pc') /\ Writer(e).n' = Writer(e).n
      BY <2>2 DEF Writer, Steady, Live, p
    <3> QED
      BY <1>0, <1>2, <1>5, <3>1, <3>2, KeptAt
  <2>10. \A x \in End :
           /\ OfFirst(wire'[x])
           /\ \A t \in {"open", "replyTrue"} : Has(wire'[x], t) => Has(wire[x], t)
           /\ OneOpen(wire[x]) => OneOpen(wire'[x])
    <3> DEFINE v == Append(wire[p], f)
    <3>1. /\ OfFirst(v) /\ (OneOpen(wire[p]) => OneOpen(v))
          /\ \A t \in {"open", "replyTrue"} : Has(v, t) => Has(wire[p], t)
      BY <1>0, <2>0, <2>5, SameWires, AppendFrames
    <3> HIDE DEF v
    <3>2. wire'[p] = wire[p] \/ wire'[p] = v
      BY <2>4 DEF v
    <3> QED
      BY <1>0, <2>4, <3>1, <3>2, SameWires
  <2>11. FirstOnly' /\ Opening'
    <3>1. \A x \in End, j \in Session :
             /\ j # 1 => got'[x][j] = got[x][j]
             /\ serve[x][j].pc = "none" <=> serve'[x][j].pc = "none"
             /\ serve'[x][j].conn = serve[x][j].conn
      <4>1. ASSUME NEW j \in Session
            PROVE  /\ serve[e][j].pc = "none" <=> serve'[e][j].pc = "none"
                   /\ serve'[e][j].conn = serve[e][j].conn
        <5>1. CASE j = 1
          BY <1>1, <2>3, <5>1
        <5>2. CASE j # 1
          BY <2>2, <5>2
        <5> QED
          BY <5>1, <5>2
      <4>2. serve'[p] = serve[p] /\ got' = got
        BY <1>5, <2>2
      <4> QED
        BY <1>0, <4>1, <4>2
    <3> QED
      BY <1>5, <2>1, <2>10, <3>1, SameWires, OpeningStays
  <2> QED
    BY <1>0, <1>5, <2>8, <2>9, <2>11 DEF Intact, Chunks, Answering
<1> HIDE DEF f
<1> QED
  BY <1>5, <1>6, <1>7

LEMMA HandleDataFirst ==
  ASSUME TypeOK, TypeOK', Intact, NEW e \in End, HandleData(e)
  PROVE  Intact'
<1> DEFINE p == Peer(e)
           c == [conn[e] EXCEPT !.cur = Head(wire[e])]
<1>0. p \in End /\ p # e /\ 1 \in Session /\ End = {e, p}
  BY EndFacts, TwoEnds DEF Intact, FirstOnly, Peer, End
<1>1. /\ wire[e] # <<>> /\ Head(wire[e]).t = "data" /\ conn[e].cur = NoFrame
      /\ IF Flowing(e) THEN Becomes(e, c) ELSE conn' = conn
      /\ wire' = Received(e)
      /\ sent' = sent /\ got' = got /\ link' = link /\ serve' = serve /\ dial' = dial
  BY DEF HandleData, Incoming, AtHead, Reading, Flowing, dataVars
<1>2. /\ c.cur = Head(wire[e]) /\ c.status = conn[e].status
      /\ c.streamConn = conn[e].streamConn /\ c.onResult = conn[e].onResult
  BY <1>0, DataTypes DEF ConnState
<1> HIDE DEF c, p
<1>3. conn'[p] = conn[p] /\ (IF Flowing(e) THEN conn'[e] = c ELSE conn'[e] = conn[e])
  BY <1>0, <1>1 DEF Becomes, TypeOK
<1>4. wire'[e] = Tail(wire[e]) /\ wire'[p] = wire[p]
  BY <1>0, <1>1, ReceivedEnds
<1>5. wire[e] \in Seq(Frame) /\ Have(e) \in Nat /\ Top(e) \in Nat /\ Top(e) <= Written(e)
      /\ Bounded(e) /\ InOrder(e) /\ Arrived(e) /\ OfFirst(wire[e])
  BY <1>0, DataTypes, TopFacts, SameWires
<1>6. /\ Have(e) = Len(got[e][1]) /\ Written(e)' = Written(e) /\ Top(e)' = Top(e)
      /\ Writer(e)' = Writer(e) /\ (Flowing(e)' <=> Flowing(e))
  BY <1>1, <1>2, <1>3 DEF Have, Written, Top, Writer, Flowing, NoFrame
<1>7. Upto(wire'[e], Top(e))
  <2>1. /\ Len(Tail(wire[e])) \in Nat
        /\ \A i \in 1 .. Len(Tail(wire[e])) :
             i + 1 \in 1 .. Len(wire[e]) /\ Tail(wire[e])[i] = wire[e][i + 1]
    BY <1>1, <1>5
  <2> QED
    BY <1>4, <1>5, <2>1 DEF Upto, Bounded
<1>8. ASSUME Flowing(e)
      PROVE  (Bounded(e) /\ InOrder(e) /\ Arrived(e))'
  <2>1. /\ Head(wire[e]) = Chunk(1, Have(e) + 1) /\ Have(e) + 1 <= Top(e)
        /\ Sorted(wire'[e], Have(e) + 1)
        /\ Reaches(wire[e], Have(e), Top(e)) => Reaches(wire'[e], Have(e) + 1, Top(e))
    BY <1>1, <1>4, <1>5, <1>8, TakenChunk DEF InOrder, Bounded
  <2>2. conn'[e].cur = Chunk(1, Have(e) + 1) /\ conn'[e].cur.t = "data"
        /\ Have(e)' = Have(e) + 1 /\ conn'[e].cur.k = 1
    BY <1>1, <1>2, <1>3, <1>6, <1>8, <2>1 DEF Have, Chunk
  <2>3. Have(e) + 1 <= Written(e)
    BY <1>5, <1>0, <2>1, DataTypes
  <2>4. Bounded(e)'
    BY <1>5, <1>6, <1>7, <2>2, <2>3 DEF Bounded
  <2>5. InOrder(e)'
    BY <1>1, <1>5, <1>6, <1>8, <2>1, <2>2 DEF InOrder
  <2>6. Arrived(e)'
    BY <1>1, <1>5, <1>6, <2>2 DEF Arrived
  <2> QED
    BY <2>2, <2>4, <2>5, <2>6
<1>9. ASSUME ~Flowing(e)
      PROVE  (Bounded(e) /\ InOrder(e) /\ Arrived(e))'
  <2>1. Have(e)' = Have(e) /\ conn'[e] = conn[e]
    BY <1>1, <1>3, <1>9 DEF Have
  <2>2. Bounded(e)'
    BY <1>5, <1>6, <1>7, <2>1 DEF Bounded
  <2>3. InOrder(e)'
    BY <1>6, <1>9 DEF InOrder
  <2>4. Arrived(e)'
    BY <1>1, <1>5, <2>1 DEF Arrived
  <2> QED
    BY <1>0, <2>1, <2>2, <2>3, <2>4
<1>10. (Bounded(p) /\ InOrder(p) /\ Arrived(p))'
  <2>1. Tame(p, conn'[p]) /\ Kept(wire'[p], wire[p], {"data"})
    BY <1>0, <1>3, <1>4, StillTame DEF Kept
  <2>2. Steady(Writer(p).pc, Writer(p).pc') /\ Writer(p).n' = Writer(p).n
    BY <1>1 DEF Writer, Steady, Live, Early
  <2> QED
    BY <1>0, <1>1, <2>1, <2>2, SameWires, KeptAt
<1>11. /\ OfFirst(wire'[e]) /\ Head(wire[e]).k \in {None, 1}
       /\ \A t : Has(wire'[e], t) => Has(wire[e], t)
       /\ OneOpen(wire[e]) => OneOpen(wire'[e])
  BY <1>1, <1>4, <1>5, TailFrames
<1>12. /\ conn'[e].streamConn = conn[e].streamConn /\ conn'[e].status = conn[e].status
       /\ conn'[e].onResult = conn[e].onResult
       /\ conn'[e].cur.t # "open" /\ conn'[e].cur.k \in {None, 1}
  BY <1>1, <1>2, <1>3, <1>11 DEF NoFrame
<1>13. \A x \in End :
           /\ conn'[x].streamConn = conn[x].streamConn /\ conn'[x].status = conn[x].status
           /\ conn'[x].onResult = conn[x].onResult
           /\ conn'[x].cur.t # "open" \/ conn'[x].cur = conn[x].cur
           /\ conn'[x].cur.k \in {None, 1}
           /\ OfFirst(wire'[x])
           /\ \A t \in {"open", "replyTrue"} : Has(wire'[x], t) => Has(wire[x], t)
           /\ OneOpen(wire[x]) => OneOpen(wire'[x])
  BY <1>0, <1>3, <1>4, <1>11, <1>12, SameWires
<1>14. FirstOnly' /\ Opening'
  BY <1>1, <1>13, OpeningStays
<1>15. (Bounded(e) /\ InOrder(e) /\ Arrived(e))'
  BY <1>8, <1>9
<1> QED
  BY <1>0, <1>1, <1>10, <1>14, <1>15 DEF Intact, Chunks, Answering

LEMMA CopyOkFirst ==
  ASSUME TypeOK, TypeOK', Intact, NEW e \in End, CopyOk(e)
  PROVE  Intact'
<1> DEFINE p == Peer(e)
           c == [conn[e] EXCEPT !.cur = NoFrame]
           n == Len(got[e][1]) + 1
<1>0. p \in End /\ p # e /\ 1 \in Session /\ End = {e, p}
  BY EndFacts, TwoEnds DEF Intact, FirstOnly, Peer, End
<1>1. conn[e].cur.t = "data" /\ conn[e].streamConn = 1
  <2>1. conn[e].streamConn \in conn[e].open /\ conn[e].open \subseteq Session
    BY <1>0, DataTypes DEF CopyOk, TakesData, ConnState
  <2>2. conn[e].streamConn \in {None, 1}
    BY DEF Intact, FirstOnly
  <2> QED
    BY <2>1, <2>2, SessionFacts DEF CopyOk
<1>2. Bounded(e) /\ InOrder(e) /\ Arrived(e)
  BY SameWires
<1>3. conn[e].cur = Chunk(1, n)
  BY <1>1, SessionFacts, <1>0, <1>2 DEF Arrived
<1>4. /\ got' = [got EXCEPT ![e][1] = Append(@, <<1, n>>)] /\ Becomes(e, c)
      /\ wire' = wire /\ sent' = sent /\ link' = link /\ serve' = serve /\ dial' = dial
  BY <1>1, <1>3 DEF CopyOk, Chunk
<1>5. /\ got'[e][1] = Append(got[e][1], <<1, n>>) /\ got'[p] = got[p]
      /\ \A k \in Session : k # 1 => got'[e][k] = got[e][k]
  BY <1>0, <1>4 DEF TypeOK
<1>6. /\ Len(got'[e][1]) = n /\ n \in Nat /\ got'[e][1] # <<>>
      /\ \A i \in 1 .. n : got'[e][1][i] = IF i = n THEN <<1, n>> ELSE got[e][1][i]
  <2>1. Len(got[e][1]) \in Nat /\ n \in Nat
    BY <1>0, DataTypes
  <2>2. ASSUME NEW g, g = got[e][1]
        PROVE  /\ Len(Append(g, <<1, n>>)) = n /\ Append(g, <<1, n>>) # <<>>
               /\ \A i \in 1 .. n : Append(g, <<1, n>>)[i] = IF i = n THEN <<1, n>> ELSE g[i]
    <3>1. g \in Seq(Session \X (0 .. MaxData)) /\ Len(g) + 1 = n
      BY <1>0, <2>2, DataTypes
    <3> HIDE DEF n
    <3> QED
      BY <2>1, <3>1
  <2> QED
    BY <1>5, <2>1, <2>2
<1>7. c.cur = NoFrame /\ c.status = conn[e].status
      /\ c.streamConn = conn[e].streamConn /\ c.onResult = conn[e].onResult
  BY <1>0, DataTypes DEF ConnState
<1> HIDE DEF c, p
<1>8. conn'[p] = conn[p] /\ conn'[e] = c
  BY <1>0, <1>4 DEF Becomes, TypeOK
<1>9. /\ Have(e)' = Have(e) /\ Written(e)' = Written(e) /\ Top(e)' = Top(e)
      /\ Writer(e)' = Writer(e) /\ (Flowing(e)' <=> Flowing(e))
  BY <1>1, <1>4, <1>6, <1>7, <1>8 DEF Have, Written, Top, Writer, Flowing, NoFrame
<1>10. (Bounded(e) /\ InOrder(e) /\ Arrived(e))'
  <2>1. Bounded(e)' /\ InOrder(e)'
    BY <1>2, <1>4, <1>9 DEF Bounded, InOrder
  <2>2. \A i \in 1 .. n : i = n \/ i \in 1 .. Len(got[e][1])
    <3>1. Len(got[e][1]) \in Nat
      BY <1>0, DataTypes
    <3> QED
      BY <3>1
  <2>3. \A i \in 1 .. n : got'[e][1][i] = <<1, i>>
    BY <1>2, <1>6, <2>2 DEF Arrived
  <2>4. conn'[e].cur.t # "data"
    BY <1>7, <1>8 DEF NoFrame
  <2>5. Arrived(e)'
    BY <1>6, <2>3, <2>4 DEF Arrived
  <2> QED
    BY <2>1, <2>5
<1>11. (Bounded(p) /\ InOrder(p) /\ Arrived(p))'
  <2>1. Tame(p, conn'[p]) /\ Kept(wire'[p], wire[p], {"data"})
    BY <1>0, <1>4, <1>8, StillTame DEF Kept
  <2>2. Steady(Writer(p).pc, Writer(p).pc') /\ Writer(p).n' = Writer(p).n
    BY <1>4 DEF Writer, Steady, Live, Early
  <2> QED
    BY <1>0, <1>4, <1>5, <2>1, <2>2, SameWires, KeptAt
<1>12. Answering'
  <2>1. got'["server"][1] = got["server"][1] \/ got'["server"][1] # <<>>
    BY <1>0, <1>5, <1>6, TwoEnds DEF IntactParts
  <2> QED
    BY <1>4, <2>1 DEF Answering, Intact, Chunks
<1>13. \A x \in End :
           /\ conn'[x].streamConn = conn[x].streamConn /\ conn'[x].status = conn[x].status
           /\ conn'[x].onResult = conn[x].onResult
           /\ conn'[x].cur.t # "open" \/ conn'[x].cur = conn[x].cur
           /\ conn'[x].cur.k \in {None, 1}
  BY <1>0, <1>7, <1>8, SameWires DEF NoFrame
<1>14. FirstOnly' /\ Opening'
  <2>1. \A x \in End, j \in Session : j # 1 => got'[x][j] = got[x][j]
    BY <1>0, <1>5
  <2> QED
    BY <1>4, <1>13, <2>1, SameWires, OpeningStays
<1> QED
  BY <1>0, <1>10, <1>11, <1>12, <1>14 DEF Intact, Chunks

(* The dials are counted upwards.                                          *)
LEMMA DialGrows ==
  ASSUME TypeOK, [Next]_vars
  PROVE  dial.k \in Nat /\ dial'.k \in Nat /\ dial.k <= dial'.k
<1>1. dial.k \in Nat
  <2>1. dial.k \in Stream
    BY DEF TypeOK, Dialing
  <2>2. Stream \subseteq Nat
    BY SessionFacts DEF Stream, None
  <2> QED
    BY <2>1, <2>2
<1>2. CASE DialSend
  BY <1>1, <1>2 DEF DialSend
<1>3. CASE dial'.k = dial.k
  BY <1>1, <1>3
<1>4. CASE dial' = dial
  BY <1>1, <1>4
<1>5. CASE UNCHANGED vars
  BY <1>4, <1>5 DEF vars
<1>6. ASSUME DialInOper \/ DialResult \/ DialCancel \/ DialConnDone \/ DialAccept \/ CtxCancel
      PROVE  dial'.k = dial.k
  BY <1>6 DEF DialInOper, DialResult, DialCancel, DialConnDone, DialAccept, CtxCancel, TypeOK,
              Dialing
<1>7. ASSUME NEW e \in End, Step(e)
      PROVE  dial'.k = dial.k
  <2>1. CASE HandleReply(e)
    BY <2>1 DEF HandleReply, TypeOK, Dialing
  <2>2. CASE Handle(e) /\ ~HandleReply(e)
    BY <2>2 DEF Handle, HandleClose, HandleOpen, DialTargetOk, DialTargetErr, HandleError,
                HandleData, CopyErr, HandleReadErr
  <2>3. CASE CopyOk(e) \/ Ping(e) \/ Close(e)
    BY <2>3 DEF CopyOk, Ping, Close
  <2>4. CASE \E k \in Session : serveStream(e, k) \/ ServeReadData(e, k)
    BY <2>4 DEF serveStream, ServeReadData, ServeStart, ServeCheck, ServeReadErr, ServeWrite,
                ServeStatus, ServeSendErr, ServeSetResult, ServeSendClose, ServeWait, ServeReturn
  <2> QED
    BY <1>7, <2>1, <2>2, <2>3, <2>4 DEF Step
<1>8. ASSUME ClientStep PROVE DialSend \/ dial'.k = dial.k
  BY <1>6, <1>8 DEF ClientStep, Dial, ParentCancel, UserClose
<1>9. ASSUME (\E k \in Session : TargetEnd(k)) \/ Break PROVE dial' = dial
  BY <1>9 DEF TargetEnd, Break
<1>10. CASE Next
  BY <1>2, <1>3, <1>4, <1>7, <1>8, <1>9, <1>10 DEF Next
<1> QED
  BY <1>5, <1>10

-----------------------------------------------------------------------------
LEMMA FirstInit ==
  ASSUME Init
  PROVE  Intact
<1>0. 1 \in Session
  BY BoundsAssumption DEF Session
<1>1. FirstOnly
  BY <1>0 DEF Init, FirstOnly, NoFrame, OfFirst
<1>2. Opening
  BY <1>0, TwoEnds DEF Init, Opening, Unopened, IntactParts, client, Has, OneOpen, NoFrame, NoCallback, None
<1>3. ASSUME NEW e \in End
      PROVE  Bounded(e) /\ InOrder(e) /\ Arrived(e)
  <2>1. Peer(e) \in End
    BY EndFacts
  <2>2. /\ Written(e) = 0 /\ Writer(e).pc = "none" /\ got[e][1] = <<>>
        /\ conn[e].cur.t = "none" /\ conn[e].status = "Idle" /\ wire[e] = <<>>
    BY <1>0, <2>1 DEF Init, Written, Writer, NoFrame
  <2>3. Have(e) = 0 /\ Top(e) = 0
    BY <2>2 DEF Have, Top
  <2> QED
    BY <2>2, <2>3 DEF Bounded, InOrder, Arrived, Early, Flowing, Upto
<1>4. Answering
  BY <1>0, TwoEnds DEF Init, Answering, IntactParts
<1> QED
  BY <1>1, <1>2, <1>3, <1>4 DEF Intact, Chunks

LEMMA FirstStep ==
  ASSUME "banner" \notin Env, TypeOK, dial.k <= 1 => Intact, [Next]_vars, dial'.k <= 1
  PROVE  Intact'
<1>0. TypeOK'
  BY TypeStep
<1>1. Intact
  BY DialGrows
<1>2. CASE UNCHANGED vars
  BY <1>1, <1>2 DEF vars, dataVars, Intact, FirstOnly, Opening, Unopened, client, Chunks, Answering,
              Bounded, InOrder, Arrived, Writer, Written, Top, Have, Flowing
<1>3. ASSUME NEW e \in End, Step(e)
      PROVE  Intact'
  <2>1. CASE HandleOpen(e) /\ conn[e].status = "Idle"
    BY <1>0, <1>1, <2>1, HandleOpenFirst
  <2>2. CASE DialTargetOk(e)
    BY <1>0, <1>1, <2>2, DialTargetFirst
  <2>3. CASE HandleData(e)
    BY <1>0, <1>1, <2>3, HandleDataFirst
  <2>4. CASE CopyOk(e)
    BY <1>0, <1>1, <2>4, CopyOkFirst
  <2>5. CASE \/ HandleClose(e) \/ (HandleOpen(e) /\ conn[e].status # "Idle")
             \/ DialTargetErr(e) \/ HandleReply(e) \/ HandleError(e)
             \/ CopyErr(e) \/ HandleReadErr(e)
    BY <1>0, <1>1, <2>5, HandleCalm, CalmKeeps
  <2>6. CASE Ping(e) \/ Close(e)
    BY <1>0, <1>1, <2>6, OtherCalm, CalmKeeps
  <2>7. ASSUME NEW k \in Session, serveStream(e, k) \/ ServeReadData(e, k)
        PROVE  Intact'
    <3>1. CASE ServeReadData(e, k)
      BY <1>0, <1>1, <3>1, ServeReadFirst
    <3>2. CASE ServeWrite(e, k)
      BY <1>0, <1>1, <3>2, ServeWriteFirst
    <3>3. CASE \/ ServeStart(e, k) \/ ServeCheck(e, k) \/ ServeReadErr(e, k)
               \/ ServeStatus(e, k) \/ ServeSendErr(e, k) \/ ServeSetResult(e, k)
               \/ ServeSendClose(e, k) \/ ServeWait(e, k) \/ ServeReturn(e, k)
      BY <1>0, <1>1, <3>3, ServeCalm, CalmKeeps
    <3> QED
      BY <2>7, <3>1, <3>2, <3>3 DEF serveStream
  <2>8. ASSUME Handle(e)
        PROVE  Intact'
    BY <2>1, <2>2, <2>3, <2>5, <2>8 DEF Handle
  <2> QED
    BY <1>3, <2>4, <2>6, <2>7, <2>8 DEF Step
<1>4. ASSUME ClientStep
      PROVE  Intact'
  <2>1. CASE DialSend
    BY <1>0, <1>1, <2>1, DialSendFirst
  <2>2. CASE DialAccept
    BY <1>0, <1>1, <2>2, DialAcceptFirst
  <2>3. CASE DialInOper \/ DialResult \/ DialCancel \/ DialConnDone \/ CtxCancel
    BY <1>0, <1>1, <2>3, DialCalm, CalmKeeps
  <2>4. CASE ParentCancel \/ \E k \in Session : UserClose(k)
    BY <1>0, <1>1, <2>4, OtherCalm, CalmKeeps
  <2> QED
    BY <1>4, <2>1, <2>2, <2>3, <2>4 DEF ClientStep, Dial
<1>5. ASSUME (\E k \in Session : TargetEnd(k)) \/ Break
      PROVE  Intact'
  BY <1>0, <1>1, <1>5, OtherCalm, CalmKeeps
<1> QED
  BY <1>2, <1>3, <1>4, <1>5 DEF Next

LEMMA IntactStreams == TypeOK /\ Intact => StreamIntegrity
<1> SUFFICES ASSUME TypeOK, Intact, NEW e \in End, NEW k \in Session,
                    NEW i \in DOMAIN got[e][k]
             PROVE  got[e][k][i] = <<k, i>>
  BY DEF StreamIntegrity
<1>1. k = 1
  <2>1. k # 1 => got[e][k] = <<>>
    BY DEF Intact, FirstOnly
  <2> QED
    BY <2>1
<1>2. i \in 1 .. Len(got[e][1])
  BY <1>1 DEF TypeOK
<1> QED
  BY <1>1, <1>2, SameWires DEF Arrived

(* With targets that speak only when they were spoken to, and until        *)
(* DialContext is called a second time on a Conn: what was written into a  *)
(* stream is, chunk by chunk, what the other end read; nothing is lost in  *)
(* the middle, doubled or reordered, whatever the number of chunks, and    *)
(* whether the stream is closed, reset or cancelled, the dial fails, or    *)
(* the connection, a process or the Conn goes away. Both conditions are    *)
(* needed: the run of ConnStaleChunk.cfg shows a chunk of the first stream *)
(* in the second one, and a target that speaks first loses chunks to a     *)
(* client that has not made the pipe yet.                                  *)
THEOREM FirstStreamIntact ==
  ASSUME "banner" \notin Env
  PROVE  Spec => [](dial.k <= 1 => StreamIntegrity)
<1> DEFINE Inv == TypeOK /\ (dial.k <= 1 => Intact)
<1>1. Init => Inv
  BY TypeInit, FirstInit
<1>2. Inv /\ [Next]_vars => Inv'
  BY TypeStep, FirstStep
<1>3. Inv => (dial.k <= 1 => StreamIntegrity)
  BY IntactStreams
<1> QED
  BY <1>1, <1>2, <1>3, PTL DEF Spec

=============================================================================
