-------------------------- MODULE ConnTunnelProofs --------------------------
(***************************************************************************)
(* The proofs that a Conn implements the safety part of the Tunnel its     *)
(* users see: its sessions for any number of dials, with chunks that come  *)
(* in time, and all of it for the first dial however its stream ends.      *)
(***************************************************************************)
EXTENDS ConnTunnel, ConnReuseProofs

Started(e, k) == serve[e][k].pc # "none"
Asking == dial.pc \in {"sent", "select", "accepted"}
Down == ~link \/ \E e \in End : conn[e].ctxDone \/ Crashed(e)

(* What the callers have, without the order of CASE.                       *)
PipeIs(k) ==
  /\ Started("client", k) =>
       PipeOf(k) = IF k \in client.open THEN "open" ELSE "closed"
  /\ ~Started("client", k) /\ k > dial.k => PipeOf(k) = "none"
  /\ ~Started("client", k) /\ k < dial.k => PipeOf(k) = "failed"
  /\ ~Started("client", k) /\ k = dial.k =>
       PipeOf(k) = IF Asking THEN "asked"
                   ELSE IF dial.cancelled THEN "abandoned" ELSE "failed"

TargetIs(k) ==
  /\ Started("server", k) =>
       TargetOf(k) = IF k \in server.open THEN "open" ELSE "closed"
  /\ ~Started("server", k) => TargetOf(k) = "none"

UsersSee == \A k \in Session : k \in Nat /\ dial.k \in Nat /\ PipeIs(k) /\ TargetIs(k)

LEMMA UsersSeeIt == TypeOK => UsersSee
<1> SUFFICES ASSUME TypeOK, NEW k \in Session
             PROVE  k \in Nat /\ dial.k \in Nat /\ PipeIs(k) /\ TargetIs(k)
  BY DEF UsersSee
<1>1. k \in Nat /\ dial.k \in Nat
  <2>1. dial.k \in Stream
    BY DEF TypeOK, Dialing
  <2> QED
    BY <2>1, BoundsAssumption DEF Stream, Session, None
<1>2. PipeIs(k)
  <2>1. CASE Started("client", k)
    BY <2>1 DEF PipeOf, Started, PipeIs
  <2>2. CASE ~Started("client", k) /\ k > dial.k
    BY <1>1, <2>2 DEF PipeOf, Started, PipeIs
  <2>3. CASE ~Started("client", k) /\ k < dial.k
    BY <1>1, <2>3 DEF PipeOf, Started, PipeIs
  <2>4. CASE ~Started("client", k) /\ k = dial.k
    BY <1>1, <2>4 DEF PipeOf, Started, Asking, PipeIs
  <2> QED
    BY <1>1, <2>1, <2>2, <2>3, <2>4
<1>3. TargetIs(k)
  BY DEF TargetOf, Started, server, TargetIs
<1> QED
  BY <1>1, <1>2, <1>3

LEMMA UsersSeeNext == TypeOK' => UsersSee'
BY UsersSeeIt, PTL

(* The steps of the Tunnel, from what happens to each session.             *)
PipesSame == \A j \in Session : PipeOf(j)' = PipeOf(j)
TargetsSame == \A j \in Session : TargetOf(j)' = TargetOf(j)
EndedSame == \A j \in Session : (ended[j] # "no")' <=> ended[j] # "no"

LEMMA Pointwise ==
  /\ PipesSame => [k \in Session |-> PipeOf(k)]' = [k \in Session |-> PipeOf(k)]
  /\ TargetsSame => [k \in Session |-> TargetOf(k)]' = [k \in Session |-> TargetOf(k)]
  /\ EndedSame => [k \in Session |-> ended[k] # "no"]' = [k \in Session |-> ended[k] # "no"]
BY DEF PipesSame, TargetsSame, EndedSame

LEMMA TunnelStutter ==
  ASSUME PipesSame, TargetsSame, EndedSame, Down' <=> Down
  PROVE  UNCHANGED S!vars
BY Pointwise DEF S!vars, Down

LEMMA PipeStep ==
  ASSUME NEW k \in Session, NEW s, PipeOf(k)' = s,
         \A j \in Session : j # k => PipeOf(j)' = PipeOf(j)
  PROVE  S!Becomes(k, s)
BY DEF S!Becomes

LEMMA TunnelClosePipe ==
  ASSUME NEW k \in Session, PipeOf(k) = "open", PipeOf(k)' = "closed",
         \A j \in Session : j # k => PipeOf(j)' = PipeOf(j),
         TargetsSame, EndedSame, Down' <=> Down
  PROVE  S!Next
<1>1. S!ClosePipe(k)
  BY Pointwise, PipeStep DEF S!ClosePipe, Down
<1> QED
  BY <1>1 DEF S!Next

-----------------------------------------------------------------------------
(* What the proof needs beside InTurn: how far the server has come with    *)
(* the last dial, and what its serveStream goroutines may still close.     *)

Leaving == {"fail", "sendErr", "return"}

(* The server has no connection for a dial that it was not asked for, has  *)
(* not yet made or has refused, and has one for a dial that it confirmed.  *)
Answer ==
  /\ \A k \in Session : Started("server", k) => k <= dial.k
  /\ Pending("open") \/ Pending("replyFalse") => ~Started("server", dial.k)
  /\ dial.pc # "idle" /\ dial.res = "fail" => ~Started("server", dial.k)
  /\ Pending("replyTrue") => Started("server", dial.k)
  /\ dial.pc # "idle" /\ dial.res = "ok" => Started("server", dial.k)
  /\ Pending("close") => Started("client", dial.k)

(* serveStream closes a connection that is still open only if its target   *)
(* has ended it, or the Conn is done or has lost its link: a goroutine of  *)
(* an earlier stream has no later one.                                     *)
Closes(s) ==
  /\ s.conn # None => Started("server", s.conn)
  /\ s.pc \in Leaving /\ s.conn \in server.open =>
       ended[s.conn] # "no" \/ server.ctxDone \/ ~link

Reached ==
  /\ Answer
  /\ server.streamConn # None => Started("server", server.streamConn)
  /\ \A k \in Session : Closes(serve["server"][k])

-----------------------------------------------------------------------------
(* The other steps of the Tunnel.                                          *)

PipesSameBut(k) == \A j \in Session : j # k => PipeOf(j)' = PipeOf(j)
TargetsSameBut(k) == \A j \in Session : j # k => TargetOf(j)' = TargetOf(j)
DownSame == Down' <=> Down

LEMMA TargetStep ==
  ASSUME NEW k \in Session, NEW s, TargetOf(k)' = s, TargetsSameBut(k)
  PROVE  [j \in Session |-> TargetOf(j)]' =
           [[j \in Session |-> TargetOf(j)] EXCEPT ![k] = s]
BY DEF TargetsSameBut

LEMMA TunnelDown ==
  ASSUME Down', EndedSame,
         \/ PipesSame /\ TargetsSame
         \/ \E k \in Session : /\ PipeOf(k) = "open" /\ PipeOf(k)' = "closed"
                               /\ PipesSameBut(k) /\ TargetsSame
         \/ \E k \in Session : /\ TargetOf(k) = "open" /\ TargetOf(k)' = "closed"
                               /\ TargetsSameBut(k) /\ PipesSame
  PROVE  S!Next
<1>1. CASE PipesSame /\ TargetsSame
  <2>1. S!GoDown
    BY <1>1, Pointwise DEF S!GoDown, Down
  <2> QED
    BY <2>1 DEF S!Next
<1>2. ASSUME NEW k \in Session, PipeOf(k) = "open", PipeOf(k)' = "closed",
             PipesSameBut(k), TargetsSame
      PROVE  S!Next
  <2>1. S!Becomes(k, "closed")
    BY <1>2, PipeStep DEF PipesSameBut
  <2>2. S!GoDown
    BY <1>2, <2>1, Pointwise DEF S!GoDown, Down
  <2> QED
    BY <2>2 DEF S!Next
<1>3. ASSUME NEW k \in Session, TargetOf(k) = "open", TargetOf(k)' = "closed",
             TargetsSameBut(k), PipesSame
      PROVE  S!Next
  <2>1. S!GoDown
    BY <1>3, Pointwise, TargetStep DEF S!GoDown, Down
  <2> QED
    BY <2>1 DEF S!Next
<1> QED
  BY <1>1, <1>2, <1>3

LEMMA TunnelRelease ==
  ASSUME NEW k \in Session, TargetOf(k) = "open", TargetOf(k)' = "closed",
         PipeOf(k) = "closed" \/ ended[k] # "no",
         TargetsSameBut(k), PipesSame, EndedSame, DownSame
  PROVE  S!Next
<1>1. S!Release(k)
  BY Pointwise, TargetStep DEF S!Release, Down, DownSame
<1> QED
  BY <1>1 DEF S!Next

LEMMA TunnelAsk ==
  ASSUME NEW k \in Session, PipeOf(k) = "none", PipeOf(k)' = "asked", PipesSameBut(k),
         \A j \in Session : j < k => PipeOf(j) \in {"failed", "abandoned", "closed"},
         TargetsSame, EndedSame, DownSame
  PROVE  S!Next
<1>1. S!Ask(k)
  BY Pointwise, PipeStep DEF S!Ask, Down, DownSame, PipesSameBut
<1> QED
  BY <1>1 DEF S!Next

LEMMA TunnelFail ==
  ASSUME NEW k \in Session, PipeOf(k)' = "failed", PipesSameBut(k),
         \/ PipeOf(k) = "asked" /\ TargetOf(k) = "none"
         \/ PipeOf(k) \in {"none", "asked"} /\ Down,
         TargetsSame, EndedSame, DownSame
  PROVE  S!Next
<1>1. S!Fail(k)
  BY Pointwise, PipeStep DEF S!Fail, Down, DownSame, PipesSameBut
<1> QED
  BY <1>1 DEF S!Next

LEMMA TunnelAbandon ==
  ASSUME NEW k \in Session, PipeOf(k) = "asked", PipeOf(k)' = "abandoned", PipesSameBut(k),
         TargetsSame, EndedSame, DownSame
  PROVE  S!Next
<1>1. S!Abandon(k)
  BY Pointwise, PipeStep DEF S!Abandon, Down, DownSame, PipesSameBut
<1> QED
  BY <1>1 DEF S!Next

LEMMA TunnelEstablish ==
  ASSUME NEW k \in Session, PipeOf(k) = "asked", PipeOf(k)' = "open", PipesSameBut(k),
         TargetOf(k) # "none", TargetsSame, EndedSame, DownSame
  PROVE  S!Next
<1>1. S!Establish(k)
  BY Pointwise, PipeStep DEF S!Establish, Down, DownSame, PipesSameBut
<1> QED
  BY <1>1 DEF S!Next

LEMMA TunnelConnect ==
  ASSUME NEW k \in Session, TargetOf(k) = "none", TargetOf(k)' = "open", TargetsSameBut(k),
         PipeOf(k) \in {"asked", "abandoned"} \/ Down, \A j \in Session : TargetOf(j) # "open",
         PipesSame, EndedSame, DownSame
  PROVE  S!Next
<1>1. S!Connect(k)
  BY Pointwise, TargetStep DEF S!Connect, Down, DownSame
<1> QED
  BY <1>1 DEF S!Next

LEMMA TunnelTargetEnds ==
  ASSUME NEW k \in Session, TargetOf(k) = "open", ended'[k] # "no",
         \A j \in Session : j # k => ended'[j] = ended[j],
         PipesSame, TargetsSame, DownSame
  PROVE  S!Next
<1>1. [j \in Session |-> ended[j] # "no"]' =
        [[j \in Session |-> ended[j] # "no"] EXCEPT ![k] = TRUE]
  OBVIOUS
<1>2. S!TargetEnds(k)
  BY <1>1, Pointwise DEF S!TargetEnds, Down, DownSame
<1> QED
  BY <1>2 DEF S!Next

-----------------------------------------------------------------------------
(* Most steps of an end change little that a user sees: they may close the *)
(* stream and bring the tunnel down.                                       *)

Modest(e) ==
  /\ \A x \in End : x # e => conn'[x] = conn[x]
  /\ \A x \in End, k \in Session : x # e => serve'[x][k] = serve[x][k]
  /\ conn'[e].open \subseteq conn[e].open
  /\ conn[e].ctxDone => conn'[e].ctxDone
  /\ \A k \in Session : Started(e, k)' <=> Started(e, k)
  /\ dial'.k = dial.k
  /\ dial'.cancelled = dial.cancelled \/ dial'.pc \in {"sent", "select", "accepted"}
  /\ dial'.pc = dial.pc \/ {dial.pc, dial'.pc} \subseteq {"sent", "select", "accepted"}
  /\ UNCHANGED <<link, ended>>
Subdued(e) == Modest(e) /\ conn'[e].streamConn \in {conn[e].streamConn, None}

(* The server gives up a connection for a reason.                          *)
HasReason ==
  \A k \in server.open \ server'.open :
    Down' \/ ended[k] # "no" \/ PipeOf(k) = "closed"

LEMMA DownStays ==
  ASSUME NEW e \in End, ~Crashed(e), link' => link,
         \A x \in End : x # e => conn'[x] = conn[x],
         \A x \in End, k \in Session : x # e => serve'[x][k] = serve[x][k],
         conn[e].ctxDone => conn'[e].ctxDone
  PROVE  Down => Down'
<1>1. \A x \in End : x # e => (Crashed(x)' <=> Crashed(x))
  BY DEF Crashed
<1>2. ASSUME NEW x \in End, conn[x].ctxDone \/ Crashed(x)
      PROVE  conn'[x].ctxDone \/ Crashed(x)'
  BY <1>1, <1>2
<1> QED
  BY <1>2 DEF Down

LEMMA ClientSimulates ==
  ASSUME TypeOK, TypeOK', ~Crashed("client"), Modest("client"),
         NEW x, client.open \subseteq {x}
  PROVE  [S!Next]_S!vars
<1>0. /\ "client" \in End /\ "server" \in End /\ UsersSee /\ UsersSee'
  BY UsersSeeIt, UsersSeeNext DEF End
<1>1. /\ server' = server /\ client'.open \subseteq client.open
      /\ \A k \in Session : /\ Started("client", k)' <=> Started("client", k)
                            /\ Started("server", k)' <=> Started("server", k)
      /\ dial'.k = dial.k /\ (Asking' <=> Asking)
      /\ Asking \/ dial'.cancelled = dial.cancelled
      /\ UNCHANGED <<link, ended>>
  BY <1>0 DEF Modest, server, client, Started, Asking, dataVars
<1>2. Down => Down'
  BY <1>0, DownStays DEF Modest
<1>3. TargetsSame /\ EndedSame
  <2>1. ASSUME NEW k \in Session
        PROVE  TargetOf(k)' = TargetOf(k)
    <3>1. TargetIs(k) /\ TargetIs(k)'
      BY <1>0 DEF UsersSee
    <3> QED
      BY <1>1, <3>1 DEF TargetIs
  <2> QED
    BY <1>1, <2>1 DEF TargetsSame, EndedSame
<1>4. ASSUME NEW k \in Session
      PROVE  \/ PipeOf(k)' = PipeOf(k)
             \/ PipeOf(k) = "open" /\ PipeOf(k)' = "closed" /\ k = x
  <2>1. k \in Nat /\ dial.k \in Nat /\ PipeIs(k) /\ PipeIs(k)'
    BY <1>0 DEF UsersSee
  <2>2. CASE Started("client", k)
    BY <1>0, <1>1, <2>1, <2>2 DEF PipeIs
  <2>3. CASE ~Started("client", k)
    <3>1. ~Started("client", k)'
      BY <1>1, <2>3
    <3>2. CASE k > dial.k
      BY <1>1, <2>1, <2>3, <3>1, <3>2 DEF PipeIs
    <3>3. CASE k < dial.k
      BY <1>1, <2>1, <2>3, <3>1, <3>3 DEF PipeIs
    <3>4. CASE k = dial.k
      BY <1>1, <2>1, <2>3, <3>1, <3>4 DEF PipeIs
    <3> QED
      BY <2>1, <3>2, <3>3, <3>4
  <2> QED
    BY <2>2, <2>3
<1>5. \/ PipesSame
      \/ \E k \in Session : PipeOf(k) = "open" /\ PipeOf(k)' = "closed" /\ PipesSameBut(k)
  <2>1. CASE \E k \in Session : PipeOf(k)' # PipeOf(k)
    <3>1. PICK k \in Session : PipeOf(k)' # PipeOf(k)
      BY <2>1
    <3> QED
      BY <1>4, <3>1 DEF PipesSameBut
  <2>2. CASE ~\E k \in Session : PipeOf(k)' # PipeOf(k)
    BY <2>2 DEF PipesSame
  <2> QED
    BY <2>1, <2>2
<1>6. CASE Down'
  BY <1>1, <1>3, <1>5, <1>6, TunnelDown
<1>7. CASE ~Down'
  <2>1. Down' <=> Down
    BY <1>2, <1>7
  <2>2. CASE PipesSame
    BY <1>1, <1>3, <2>1, <2>2, TunnelStutter
  <2>3. ASSUME NEW k \in Session, PipeOf(k) = "open", PipeOf(k)' = "closed", PipesSameBut(k)
        PROVE  S!Next
    BY <1>1, <1>3, <2>1, <2>3, TunnelClosePipe DEF PipesSameBut
  <2> QED
    BY <1>5, <2>2, <2>3
<1> QED
  BY <1>6, <1>7

LEMMA ServerSimulates ==
  ASSUME TypeOK, TypeOK', ~Crashed("server"), Modest("server"), HasReason,
         NEW x, server.open \subseteq {x}
  PROVE  [S!Next]_S!vars
<1>0. /\ "client" \in End /\ "server" \in End /\ UsersSee /\ UsersSee'
  BY UsersSeeIt, UsersSeeNext DEF End
<1>1. /\ client' = client /\ server'.open \subseteq server.open
      /\ \A k \in Session : /\ Started("client", k)' <=> Started("client", k)
                            /\ Started("server", k)' <=> Started("server", k)
      /\ dial'.k = dial.k /\ (Asking' <=> Asking)
      /\ Asking \/ dial'.cancelled = dial.cancelled
      /\ UNCHANGED <<link, ended>>
  BY <1>0 DEF Modest, server, client, Started, Asking, dataVars
<1>2. Down => Down'
  BY <1>0, DownStays DEF Modest
<1>3. PipesSame /\ EndedSame
  <2>1. ASSUME NEW k \in Session
        PROVE  PipeOf(k)' = PipeOf(k)
    <3>1. k \in Nat /\ dial.k \in Nat /\ PipeIs(k) /\ PipeIs(k)'
      BY <1>0 DEF UsersSee
    <3>2. CASE k > dial.k
      BY <1>1, <3>1, <3>2 DEF PipeIs
    <3>3. CASE k < dial.k
      BY <1>1, <3>1, <3>3 DEF PipeIs
    <3>4. CASE k = dial.k
      BY <1>1, <3>1, <3>4 DEF PipeIs
    <3> QED
      BY <3>1, <3>2, <3>3, <3>4
  <2> QED
    BY <1>1, <2>1 DEF PipesSame, EndedSame
<1>4. ASSUME NEW k \in Session
      PROVE  \/ TargetOf(k)' = TargetOf(k)
             \/ /\ TargetOf(k) = "open" /\ TargetOf(k)' = "closed"
                /\ k = x /\ k \in server.open \ server'.open
  <2>1. TargetIs(k) /\ TargetIs(k)'
    BY <1>0 DEF UsersSee
  <2> QED
    BY <1>0, <1>1, <2>1 DEF TargetIs
<1>5. \/ TargetsSame
      \/ \E k \in server.open \ server'.open :
           k \in Session /\ TargetOf(k) = "open" /\ TargetOf(k)' = "closed" /\ TargetsSameBut(k)
  <2>1. CASE \E k \in Session : TargetOf(k)' # TargetOf(k)
    <3>1. PICK k \in Session : TargetOf(k)' # TargetOf(k)
      BY <2>1
    <3> QED
      BY <1>4, <3>1 DEF TargetsSameBut
  <2>2. CASE ~\E k \in Session : TargetOf(k)' # TargetOf(k)
    BY <2>2 DEF TargetsSame
  <2> QED
    BY <2>1, <2>2
<1>6. CASE Down'
  BY <1>1, <1>3, <1>5, <1>6, TunnelDown
<1>7. CASE ~Down'
  <2>1. Down' <=> Down
    BY <1>2, <1>7
  <2>2. CASE TargetsSame
    BY <1>1, <1>3, <2>1, <2>2, TunnelStutter
  <2>3. ASSUME NEW k \in server.open \ server'.open, k \in Session, TargetOf(k) = "open",
               TargetOf(k)' = "closed", TargetsSameBut(k)
        PROVE  S!Next
    BY <1>1, <1>3, <1>7, <2>1, <2>3, TunnelRelease DEF HasReason, DownSame
  <2> QED
    BY <1>5, <2>2, <2>3
<1> QED
  BY <1>6, <1>7

-----------------------------------------------------------------------------
(* What a step of end e does to the frames that matter and to the          *)
(* goroutines of the server.                                               *)

Asks == {"open", "replyFalse"}

FramesKept ==
  /\ (\E t \in Asks : Pending(t)') => \E t \in Asks : Pending(t)
  /\ Pending("replyTrue")' => Pending("replyTrue")
  /\ Pending("close")' => Pending("close") \/ (dial.k \in Session /\ Started("client", dial.k))

ResultKept ==
  dial'.pc # "idle" =>
    \/ dial'.res = "none"
    \/ dial.pc # "idle" /\ dial'.res = dial.res
    \/ dial'.res = "ok" /\ Pending("replyTrue")
    \/ dial'.res = "fail" /\ Pending("replyFalse")

Effect(e) ==
  /\ Subdued(e) /\ FramesKept /\ ResultKept
  /\ \A k \in Session : Closes(serve'["server"][k])
  /\ e = "server" => HasReason

(* A frame that matters belongs to an actual dial.                         *)
NamesDial ==
  /\ \A t \in Asks \cup {"replyTrue", "close"} : Pending(t) => dial.k \in Session
  /\ dial.pc # "idle" => dial.k \in Session

LEMMA NamesDialOK == InTurn => NamesDial
<1> SUFFICES ASSUME InTurn PROVE NamesDial
  OBVIOUS
<1>1. client.onResult \in Callback /\ dial \in Dialing
  BY DEF InTurn, OneStream, TypeOK, client, End, ConnState
<1>2. client.onResult.kind # "none" => client.onResult.k \in Session
  BY <1>1 DEF Callback, NoCallback
<1>3. dial.pc # "idle" => dial.k \in Session
  BY <1>1 DEF Dialing, Stream
<1> QED
  BY <1>2, <1>3 DEF NamesDial, InTurn, OpenPending, ClosePending, Asks

LEMMA NamesDialNext == InTurn' => NamesDial'
BY NamesDialOK, PTL

(* A step that opens no connection and starts no dial keeps Reached.       *)
LEMMA ReachedKept ==
  ASSUME InTurn, InTurn', Reached, FramesKept, ResultKept, dial'.k = dial.k,
         \A k \in Session : /\ Started("server", k)' <=> Started("server", k)
                            /\ Started("client", k) => Started("client", k)'
                            /\ ended[k] # "no" => ended'[k] # "no"
                            /\ Closes(serve'["server"][k]),
         server'.streamConn \in {server.streamConn, None}, server'.open \subseteq server.open,
         server.ctxDone => server'.ctxDone, link' => link
  PROVE  Reached'
<1>0. /\ server \in ConnState /\ NamesDial /\ NamesDial'
      /\ \A k \in Session : serve'["server"][k] \in Serving
  BY NamesDialOK, NamesDialNext DEF InTurn, OneStream, TypeOK, server, End
<1>1. Answer'
  <2>1. \A k \in Session : Started("server", k)' => k <= dial'.k
    BY DEF Reached, Answer
  <2>2. (\E t \in Asks : Pending(t)') => ~Started("server", dial.k)'
    BY <1>0 DEF Reached, Answer, FramesKept, NamesDial, Asks
  <2>3. dial'.pc # "idle" /\ dial'.res = "fail" => ~Started("server", dial.k)'
    BY <1>0 DEF Reached, Answer, ResultKept, NamesDial, Asks
  <2>4. Pending("replyTrue")' => Started("server", dial.k)'
    BY <1>0 DEF Reached, Answer, FramesKept, NamesDial, Asks
  <2>5. dial'.pc # "idle" /\ dial'.res = "ok" => Started("server", dial.k)'
    BY <1>0 DEF Reached, Answer, ResultKept, NamesDial, Asks
  <2>6. Pending("close")' => Started("client", dial.k)'
    BY <1>0 DEF Reached, Answer, FramesKept, NamesDial, Asks
  <2> QED
    BY <2>1, <2>2, <2>3, <2>4, <2>5, <2>6 DEF Answer, Asks
<1>2. server'.streamConn # None => Started("server", server.streamConn)'
  BY <1>0 DEF Reached, ConnState, Stream
<1>3. ASSUME NEW k \in Session
      PROVE  Closes(serve["server"][k])'
  <2>1. serve'["server"][k].conn \in Stream /\ Closes(serve'["server"][k])
    BY <1>0 DEF Serving
  <2>2. server'.open \subseteq Session
    BY <1>0 DEF ConnState
  <2> QED
    BY <2>1, <2>2 DEF Closes, Stream
<1> QED
  BY <1>1, <1>2, <1>3 DEF Reached

-----------------------------------------------------------------------------
(* The effect of each step.                                                *)

LEMMA PendingShrinks ==
  ASSUME NoMore(wire, wire'),
         server'.cur.t = "open" => server.cur.t = "open"
  PROVE  FramesKept
BY DEF FramesKept, Pending, NoMore, Exchange, Answers, Asks

(* The goroutine that a step moves on, if any, was started.                *)
GoroutinesKept(e) ==
  /\ \A x \in End, k \in Session : x # e => serve'[x][k] = serve[x][k]
  /\ \A k \in Session : Started(e, k)' <=> Started(e, k)
  /\ \A k \in Session : Closes(serve'["server"][k])

LEMMA NoGoroutineMoves ==
  ASSUME Reached, UNCHANGED serve, NEW e \in End
  PROVE  GoroutinesKept(e)
BY DEF Reached, GoroutinesKept, Started

LEMMA ShutEffect ==
  ASSUME InTurn, Reached, NEW e \in End, NEW c \in ConnState, NEW w,
         WireIs(w, dial.k), NoMore(wire, w),
         NEW code \in Closure, closeWithCode(e, c, w, code),
         c.ctxDone = conn[e].ctxDone, c.cur \in {conn[e].cur, NoFrame},
         \/ c.status = "Closed" /\ c.open = conn[e].open /\ c.streamConn = conn[e].streamConn
         \/ c.status # "Closed" /\ c.open \ {c.streamConn} \subseteq conn[e].open,
         GoroutinesKept(e), UNCHANGED <<link, dial, dataVars>>
  PROVE  Effect(e)
<1>1. /\ Shut(c, conn'[e]) /\ \A x \in End : x # e => conn'[x] = conn[x]
      /\ WireIs(wire', dial.k) /\ NoMore(w, wire')
  BY CloseFacts DEF InTurn, OneStream
<1>2. NoMore(wire, wire')
  BY <1>1 DEF NoMore
<1>3. server'.cur.t = "open" => server.cur.t = "open"
  BY <1>1 DEF Shut, server, NoFrame, End
<1>4. FramesKept
  BY <1>2, <1>3, PendingShrinks
<1>5. Subdued(e)
  BY <1>1 DEF Subdued, Modest, dataVars, Shut, GoroutinesKept
<1>6. e = "server" => HasReason
  BY <1>1 DEF HasReason, Shut, server, Down
<1> QED
  BY <1>4, <1>5, <1>6 DEF Effect, GoroutinesKept, ResultKept

LEMMA ReadErrEffect ==
  ASSUME InTurn, Reached, NEW e \in End, HandleReadErr(e)
  PROVE  Effect(e)
<1> DEFINE c == [conn[e] EXCEPT !.handle = "returned"]
           d == [c EXCEPT !.ctxDone = TRUE]
<1>0. /\ TypeOK /\ conn[e] \in ConnState /\ WireIs(wire, dial.k) /\ NoMore(wire, wire)
      /\ UNCHANGED <<link, dial, serve, dataVars>>
  BY DEF InTurn, OneStream, TypeOK, OneAtATime, NoMore, HandleReadErr
<1>1. GoroutinesKept(e)
  BY <1>0, NoGoroutineMoves
<1>2. CASE Becomes(e, d) /\ UNCHANGED wire
  <2>1. conn'[e] = d /\ \A x \in End : x # e => conn'[x] = conn[x]
    BY <1>0, <1>2 DEF Becomes, TypeOK
  <2>2. /\ d.ctxDone /\ d.cur = conn[e].cur /\ d.open = conn[e].open
        /\ d.streamConn = conn[e].streamConn
    BY <1>0 DEF ConnState
  <2> HIDE DEF d
  <2>3. server'.cur.t = "open" => server.cur.t = "open"
    BY <2>1, <2>2 DEF server, End
  <2>4. FramesKept
    BY <1>0, <1>2, <2>3, PendingShrinks
  <2>5. Subdued(e)
    BY <1>0, <1>1, <2>1, <2>2 DEF Subdued, Modest, dataVars, GoroutinesKept
  <2>6. e = "server" => HasReason
    BY <2>1, <2>2 DEF HasReason, server, Down
  <2> QED
    BY <1>0, <1>1, <2>4, <2>5, <2>6 DEF Effect, GoroutinesKept, ResultKept
<1>3. CASE closeWithCode(e, c, wire, "internalError")
  <2>1. /\ c \in ConnState /\ c.status = conn[e].status
        /\ c.ctxDone = conn[e].ctxDone /\ c.open = conn[e].open /\ c.cur = conn[e].cur
        /\ c.streamConn = conn[e].streamConn
    BY <1>0 DEF ConnState
  <2> HIDE DEF c
  <2> QED
    BY <1>0, <1>1, <1>3, <2>1, ShutEffect DEF Closure
<1> QED
  BY <1>2, <1>3 DEF HandleReadErr

LEMMA PingEffect ==
  ASSUME InTurn, Reached, NEW e \in End, Ping(e)
  PROVE  Effect(e)
<1> DEFINE c == [conn[e] EXCEPT !.ping = "ended"]
           d == [c EXCEPT !.status = "Closed", !.wsOpen = FALSE]
<1>0. /\ TypeOK /\ conn[e] \in ConnState /\ WireIs(wire, dial.k) /\ NoMore(wire, wire)
      /\ UNCHANGED <<link, dial, serve, dataVars>>
  BY DEF InTurn, OneStream, TypeOK, OneAtATime, NoMore, Ping
<1>1. GoroutinesKept(e)
  BY <1>0, NoGoroutineMoves
<1>2. /\ c \in ConnState /\ c.status = conn[e].status /\ c.ctxDone = conn[e].ctxDone
      /\ c.open = conn[e].open /\ c.cur = conn[e].cur /\ c.streamConn = conn[e].streamConn
  BY <1>0 DEF ConnState
<1>3. CASE /\ c.ctxDone /\ Becomes(e, d)
           /\ wire' = IF c.wsOpen THEN Put(wire, e, Cmd("internalError")) ELSE wire
  <2>1. conn'[e] = d /\ \A x \in End : x # e => conn'[x] = conn[x]
    BY <1>0, <1>3 DEF Becomes, TypeOK
  <2>2. /\ d.ctxDone = c.ctxDone /\ d.open = c.open /\ d.cur = c.cur
        /\ d.streamConn = c.streamConn
    <3> HIDE DEF c
    <3> QED
      BY <1>2 DEF ConnState
  <2>3. NoMore(wire, Put(wire, e, Cmd("internalError")))
    <3>1. /\ Cmd("internalError") \in Frame /\ Cmd("internalError").t = "internalError"
          /\ Cmd("internalError").t \in Allowed(Peer(e))
          /\ Cmd("internalError").t \notin Exchange
      BY FrameKinds DEF Closure
    <3> QED
      BY <1>0, <3>1, PutFacts DEF NoMore
  <2> HIDE DEF c, d
  <2>4. NoMore(wire, wire')
    BY <1>0, <1>3, <2>3
  <2>5. server'.cur.t = "open" => server.cur.t = "open"
    BY <1>2, <2>1, <2>2 DEF server, End
  <2>6. FramesKept
    BY <2>4, <2>5, PendingShrinks
  <2>7. Subdued(e)
    BY <1>0, <1>1, <1>2, <2>1, <2>2 DEF Subdued, Modest, dataVars, GoroutinesKept
  <2>8. e = "server" => HasReason
    BY <1>2, <2>1, <2>2 DEF HasReason, server, Down
  <2> QED
    BY <1>0, <1>1, <2>6, <2>7, <2>8 DEF Effect, GoroutinesKept, ResultKept
<1>4. CASE closeWithCode(e, c, wire, "internalError")
  <2> HIDE DEF c
  <2> QED
    BY <1>0, <1>1, <1>2, <1>4, ShutEffect DEF Closure
<1> QED
  BY <1>3, <1>4 DEF Ping

LEMMA CloseEffect ==
  ASSUME InTurn, Reached, NEW e \in End, Close(e)
  PROVE  Effect(e)
<1>1. /\ TypeOK /\ conn[e] \in ConnState /\ WireIs(wire, dial.k) /\ NoMore(wire, wire)
      /\ conn[e].status # "Closed" /\ conn[e].open \ {conn[e].streamConn} \subseteq conn[e].open
      /\ closeWithCode(e, conn[e], wire, "normalClosure") /\ UNCHANGED <<link, dial, serve, dataVars>>
  BY DEF InTurn, OneStream, TypeOK, OneAtATime, NoMore, Close
<1>2. GoroutinesKept(e)
  BY <1>1, NoGoroutineMoves
<1> QED
  BY <1>1, <1>2, ShutEffect DEF Closure

(* The handler of a chunk takes it, or has copied it.                      *)
LEMMA ChunkEffect ==
  ASSUME InTurn, Reached, NEW e \in End, HandleData(e) \/ CopyOk(e)
  PROVE  Effect(e)
<1> DEFINE f == IF HandleData(e) THEN Head(wire[e]) ELSE NoFrame
           c == [conn[e] EXCEPT !.cur = f]
<1>0. /\ TypeOK /\ conn[e] \in ConnState /\ WireIs(wire, dial.k) /\ NoMore(wire, wire)
      /\ NoFrame.t = "none"
  BY DEF InTurn, OneStream, TypeOK, OneAtATime, NoMore, NoFrame
<1>1. /\ NoMore(wire, wire') /\ f.t # "open" /\ UNCHANGED <<link, dial, serve, ended>>
      /\ Becomes(e, c) \/ UNCHANGED conn
  <2>1. CASE HandleData(e)
    <3>1. wire[e] # <<>> /\ Head(wire[e]).t = "data" /\ wire' = Received(e)
      BY <2>1 DEF HandleData, Incoming, AtHead
    <3>2. NoMore(wire, wire')
      BY <1>0, <3>1, ReceivedFacts
    <3> QED
      BY <2>1, <3>1, <3>2 DEF HandleData, dataVars
  <2>2. CASE ~HandleData(e) /\ CopyOk(e)
    BY <1>0, <2>2 DEF CopyOk
  <2> QED
    BY <2>1, <2>2
<1>2. /\ c.open = conn[e].open /\ c.streamConn = conn[e].streamConn
      /\ c.ctxDone = conn[e].ctxDone /\ c.cur = f
  BY <1>0 DEF ConnState
<1>3. conn'[e] \in {conn[e], c} /\ \A x \in End : x # e => conn'[x] = conn[x]
  BY <1>0, <1>1 DEF Becomes, TypeOK
<1> HIDE DEF c, f
<1>4. server'.cur.t = "open" => server.cur.t = "open"
  BY <1>1, <1>2, <1>3 DEF server, End
<1>5. FramesKept
  BY <1>1, <1>4, PendingShrinks
<1>6. Subdued(e)
  BY <1>1, <1>2, <1>3 DEF Subdued, Modest, Started
<1>7. e = "server" => HasReason
  BY <1>2, <1>3 DEF HasReason, server
<1> QED
  BY <1>1, <1>5, <1>6, <1>7 DEF Effect, Reached, ResultKept

(* A copy fails at the server: its target has reset the connection, the    *)
(* connection is closed, or the websocket is no more.                      *)
LEMMA CopyErrEffect ==
  ASSUME InTurn, Reached, CopyErr("server"), ~Crashed("server")
  PROVE  Effect("server")
<1> DEFINE c == [server EXCEPT !.status = "Idle"]
           d == CloseStream(c)
<1>0. /\ TypeOK /\ server \in ConnState /\ "client" \in End /\ "server" \in End
      /\ server = conn["server"] /\ server' = conn'["server"] /\ Peer("server") = "client"
      /\ server.open \subseteq {server.streamConn} /\ server.open \subseteq Session
      /\ None \notin Session /\ NoFrame.t = "none"
      /\ WireIs(wire, dial.k) /\ NoMore(wire, wire) /\ UNCHANGED <<link, dial, serve, dataVars>>
  BY SessionFacts DEF InTurn, OneStream, TypeOK, EndSound, OneAtATime, server, End,
     Peer, NoMore, NoFrame, ConnState, CopyErr
<1>1. /\ c \in ConnState /\ c.status = "Idle" /\ c.streamConn = server.streamConn
      /\ c.open = server.open /\ c.ctxDone = server.ctxDone
  BY <1>0 DEF ConnState, Status
<1>2. /\ d \in ConnState /\ d.status = "Idle" /\ d.open = {} /\ d.streamConn = None
      /\ d.ctxDone = server.ctxDone
  <2> HIDE DEF c
  <2>1. d \in ConnState
    BY <1>1, CloseStreamType
  <2>2. /\ d.status = c.status /\ d.open = c.open \ {c.streamConn}
        /\ d.streamConn = None /\ d.ctxDone = c.ctxDone
    BY <1>1 DEF CloseStream, ConnState
  <2> QED
    BY <1>0, <1>1, <2>1, <2>2
<1>3. \/ /\ c.streamConn = None /\ UNCHANGED wire
         /\ Becomes("server", [c EXCEPT !.cur = NoFrame, !.handle = "returned"])
      \/ Answered("server", d, wire, "error")
      \/ AnswerFails("server", d, wire)
  BY <1>0 DEF CopyErr
<1>4. \A k \in server.open : Down \/ ended[k] # "no"
  <2>1. ~TakesData("server") \/ MayFail("server")
    BY DEF CopyErr
  <2>2. CASE MayFail("server")
    BY <1>0, <2>2 DEF MayFail, MaySucceed, Down, InTurn, DialStatus
  <2>3. CASE ~TakesData("server")
    BY <1>0, <2>3 DEF TakesData
  <2> QED
    BY <2>1, <2>2, <2>3
<1>5. GoroutinesKept("server")
  BY <1>0, NoGoroutineMoves
<1> HIDE DEF c, d
<1>6. ASSUME NEW a, Becomes("server", a), NoMore(wire, wire'), a.open = {}, a.cur = NoFrame,
             a.ctxDone = server.ctxDone, a.streamConn \in {server.streamConn, None}
      PROVE  Effect("server")
  <2>1. server' = a /\ \A x \in End : x # "server" => conn'[x] = conn[x]
    BY <1>0, <1>6 DEF Becomes, TypeOK
  <2>2. FramesKept
    BY <1>0, <1>6, <2>1, PendingShrinks
  <2>3. Subdued("server")
    BY <1>0, <1>5, <1>6, <2>1 DEF Subdued, Modest, dataVars, GoroutinesKept
  <2>4. HasReason
    <3>1. Down => Down'
      BY <1>0, <1>5, <1>6, <2>1, DownStays DEF GoroutinesKept
    <3> QED
      BY <1>4, <3>1 DEF HasReason
  <2> QED
    BY <1>0, <1>5, <2>2, <2>3, <2>4 DEF Effect, ResultKept, GoroutinesKept
<1>7. CASE /\ c.streamConn = None /\ UNCHANGED wire
           /\ Becomes("server", [c EXCEPT !.cur = NoFrame, !.handle = "returned"])
  <2> DEFINE a == [c EXCEPT !.cur = NoFrame, !.handle = "returned"]
  <2>1. /\ a.open = c.open /\ a.cur = NoFrame /\ a.ctxDone = c.ctxDone
        /\ a.streamConn = c.streamConn
    BY <1>1 DEF ConnState
  <2>2. c.open = {}
    BY <1>0, <1>1, <1>7
  <2> HIDE DEF a
  <2> QED
    BY <1>0, <1>1, <1>6, <1>7, <2>1, <2>2 DEF a
<1>8. CASE Answered("server", d, wire, "error")
  <2> DEFINE a == [d EXCEPT !.cur = NoFrame]
  <2>1. Becomes("server", a) /\ wire' = Put(wire, "server", Cmd("error"))
    BY <1>8 DEF Answered, Sent
  <2>2. /\ a.open = {} /\ a.cur = NoFrame /\ a.ctxDone = d.ctxDone /\ a.streamConn = None
    BY <1>2 DEF ConnState
  <2>3. NoMore(wire, wire')
    <3>1. /\ Cmd("error") \in Frame /\ Cmd("error").t = "error"
          /\ "error" \in Allowed(Peer("server")) /\ "error" \notin Exchange
      BY FrameFacts, FrameKinds DEF Cmd, Command, Allowed, Peer
    <3> QED
      BY <1>0, <2>1, <3>1, PutFacts DEF NoMore
  <2> HIDE DEF a
  <2> QED
    BY <1>2, <1>6, <2>1, <2>2, <2>3
<1>9. CASE AnswerFails("server", d, wire)
  <2> DEFINE a == [d EXCEPT !.cur = NoFrame, !.handle = "returned"]
  <2>1. /\ a \in ConnState /\ a.status = "Idle" /\ a.open = {} /\ a.cur = NoFrame
        /\ a.ctxDone = d.ctxDone
    BY <1>2 DEF ConnState
  <2>2. closeWithCode("server", a, wire, "internalError")
    BY <1>9 DEF AnswerFails, SendFails
  <2> HIDE DEF a
  <2> QED
    BY <1>0, <1>2, <1>5, <2>1, <2>2, ShutEffect DEF Closure
<1> QED
  BY <1>3, <1>7, <1>8, <1>9

LEMMA HandleClientEffect ==
  ASSUME InTurn, Reached, Handle("client") \/ CopyOk("client"), ~CopyErr("client")
  PROVE  Effect("client")
<1>0. /\ TypeOK /\ client \in ConnState /\ "client" \in End /\ "server" \in End
      /\ client = conn["client"] /\ server = conn["server"] /\ client' = conn'["client"]
      /\ server' = conn'["server"] /\ client.cur.t # "open" /\ WireIs(wire, dial.k)
      /\ client.onResult \in Callback
  BY DEF InTurn, OneStream, TypeOK, EndSound, client, server, End, OneAtATime, ConnState
<1>1. ASSUME NEW t, AtHead("client", t)
      PROVE  t \in Allowed("client") /\ On(wire, t) /\ NoMore(wire, Received("client"))
  BY <1>0, <1>1, ReceivedFacts DEF AtHead
<1>2. CASE \/ HandleClose("client") \/ HandleOpen("client")
           \/ DialTargetOk("client") \/ DialTargetErr("client")
  <2>1. CASE DialTargetOk("client") \/ DialTargetErr("client")
    BY <1>0, <2>1 DEF DialTargetOk, DialTargetErr
  <2>2. CASE HandleClose("client") \/ HandleOpen("client")
    BY <1>1, <2>2 DEF HandleClose, HandleOpen, Incoming, Allowed, Answers, Closure
  <2> QED
    BY <1>2, <2>1, <2>2
<1>3. CASE HandleReply("client")
  <2> DEFINE cb == client.onResult
             c == [client EXCEPT !.onResult = NoCallback,
                     !.status = IF cb.kind = "close" THEN "Idle" ELSE @]
  <2>1. PICK t \in Answers :
          /\ Incoming("client", t)
          /\ dial' = IF cb.kind = "dial" /\ cb.k = dial.k
                     THEN [dial EXCEPT !.res = IF t = "replyTrue" THEN "ok" ELSE "fail"]
                     ELSE dial
    BY <1>0, <1>3 DEF HandleReply, Answers
  <2>2. /\ Pending(t) /\ NoMore(wire, wire') /\ UNCHANGED <<link, dataVars>>
    BY <1>0, <1>1, <1>3, <2>1 DEF HandleReply, Incoming, Pending
  <2>3. client' = c /\ server' = server
    BY <1>0, <1>3 DEF HandleReply, Becomes, TypeOK
  <2>4. /\ c.open = client.open /\ c.ctxDone = client.ctxDone
        /\ c.streamConn = client.streamConn
    BY <1>0 DEF ConnState
  <2>5. FramesKept
    BY <2>2, <2>3, PendingShrinks
  <2>6. /\ serve'["server"] = serve["server"]
        /\ \A k \in Session : serve'["client"][k].pc = serve["client"][k].pc
    <3>1. CASE cb.kind = "close"
      <4>1. cb.k \in Session
        BY <1>0, <3>1 DEF Callback, NoCallback
      <4>2. serve' = [serve EXCEPT !["client"][cb.k].done = TRUE]
        BY <1>0, <1>3, <3>1 DEF HandleReply
      <4>3. /\ serve["client"] \in [Session -> Serving]
            /\ serve \in [End -> [Session -> Serving]]
        BY <1>0 DEF TypeOK
      <4>4. \A j \in Session :
              \/ serve'["client"][j] = serve["client"][j]
              \/ serve'["client"][j] = [serve["client"][j] EXCEPT !.done = TRUE]
        BY <1>0, <4>2, <4>3
      <4>5. ASSUME NEW j \in Session
            PROVE  [serve["client"][j] EXCEPT !.done = TRUE].pc = serve["client"][j].pc
        <5>1. serve["client"][j] \in Serving
          BY <4>3
        <5> QED
          BY <5>1 DEF Serving
      <4> QED
        BY <1>0, <4>2, <4>3, <4>4, <4>5
    <3>2. CASE cb.kind # "close"
      BY <1>0, <1>3, <3>2 DEF HandleReply
    <3> QED
      BY <3>1, <3>2
  <2>7. /\ dial'.pc = dial.pc /\ dial'.k = dial.k /\ dial'.cancelled = dial.cancelled
        /\ \/ dial'.res = dial.res
           \/ cb.kind = "dial" /\ dial'.res = IF t = "replyTrue" THEN "ok" ELSE "fail"
    <3>1. dial \in Dialing
      BY <1>0 DEF TypeOK
    <3> QED
      BY <2>1, <3>1 DEF Dialing
  <2>8. t = "reply" => cb.kind = "close"
    BY <2>2 DEF InTurn, ClosePending
  <2>9. ResultKept
    BY <2>2, <2>7, <2>8 DEF ResultKept, Answers
  <2> HIDE DEF c, cb
  <2>10. Subdued("client")
    BY <1>0, <2>2, <2>3, <2>4, <2>6, <2>7 DEF Subdued, Modest, dataVars, Started, End
  <2> QED
    BY <2>5, <2>6, <2>9, <2>10 DEF Effect, Reached
<1>4. CASE HandleError("client")
  <2> DEFINE c == [client EXCEPT !.open = @ \ {client.onCmdErr}, !.onCmdErr = None]
  <2>1. /\ NoMore(wire, wire') /\ UNCHANGED <<link, dial, serve, dataVars>>
    BY <1>1, <1>4 DEF HandleError, Incoming
  <2>2. client' \in {client, c} /\ server' = server
    BY <1>0, <1>4 DEF HandleError, Becomes, TypeOK
  <2>3. /\ c.open \subseteq client.open /\ c.ctxDone = client.ctxDone
        /\ c.streamConn = client.streamConn
    BY <1>0 DEF ConnState
  <2> HIDE DEF c
  <2>4. FramesKept
    BY <2>1, <2>2, PendingShrinks
  <2>5. Subdued("client")
    BY <1>0, <2>1, <2>2, <2>3 DEF Subdued, Modest, dataVars, Started, End
  <2> QED
    BY <2>1, <2>4, <2>5 DEF Effect, Reached, ResultKept
<1> QED
  BY <1>0, <1>2, <1>3, <1>4, ReadErrEffect, ChunkEffect DEF Handle

(* The Dialer of the server succeeds, and RT is sent.                      *)
Connects ==
  /\ client' = client /\ serve'["client"] = serve["client"]
  /\ server.open = {} /\ server'.open = {dial.k} /\ server'.streamConn = dial.k
  /\ server'.ctxDone = server.ctxDone /\ server'.handle = server.handle
  /\ dial.k \in Session /\ Pending("open")
  /\ \A t \in Exchange : Pending(t)' => t = "replyTrue"
  /\ serve'["server"][dial.k].pc = "start"
  /\ serve'["server"][dial.k].conn = serve["server"][dial.k].conn
  /\ \A k \in Session : k # dial.k => serve'["server"][k] = serve["server"][k]
  /\ UNCHANGED <<link, dial, dataVars>>

LEMMA HandleServerEffect ==
  ASSUME InTurn, Reached, Handle("server") \/ CopyOk("server"), ~Crashed("server")
  PROVE  Effect("server") \/ Connects
<1>0. /\ TypeOK /\ server \in ConnState /\ "client" \in End
      /\ "server" \in End /\ client = conn["client"] /\ server = conn["server"]
      /\ client' = conn'["client"] /\ server' = conn'["server"]
      /\ WireIs(wire, dial.k) /\ server.open \subseteq {server.streamConn}
      /\ Peer("server") = "client" /\ NoMore(wire, wire)
  BY DEF InTurn, OneStream, TypeOK, client, server, End, OneAtATime, EndSound, Peer, NoMore
<1>1. ASSUME NEW t, AtHead("server", t)
      PROVE  /\ t \in Allowed("server") /\ On(wire, t) /\ NoMore(wire, Received("server"))
             /\ WireIs(Received("server"), dial.k)
             /\ t \in Exchange => Quiet(Received("server"))
             /\ Head(wire["server"]).t = t
  BY <1>0, <1>1, ReceivedFacts DEF AtHead
<1>2. CASE HandleReply("server") \/ HandleError("server")
  BY <1>1, <1>2 DEF HandleError, HandleReply, Incoming, Allowed, Closure
<1>3. ASSUME NEW c \in ConnState, NEW w, AnswerFails("server", c, w), WireIs(w, dial.k),
             NoMore(wire, w), UNCHANGED <<link, dial, serve, dataVars>>,
             c.ctxDone = server.ctxDone,
             \/ /\ c.status = "Closed" /\ c.open = server.open
                /\ c.streamConn = server.streamConn
             \/ c.status # "Closed" /\ c.open \ {c.streamConn} \subseteq server.open
      PROVE  Effect("server")
  <2> DEFINE d == [c EXCEPT !.cur = NoFrame, !.handle = "returned"]
  <2>1. /\ d \in ConnState /\ d.status = c.status /\ d.ctxDone = c.ctxDone
        /\ d.open = c.open /\ d.cur = NoFrame /\ d.streamConn = c.streamConn
    BY DEF ConnState
  <2>2. closeWithCode("server", d, w, "internalError")
    BY <1>3 DEF AnswerFails, SendFails
  <2>3. GoroutinesKept("server")
    BY <1>0, <1>3, NoGoroutineMoves
  <2> HIDE DEF d
  <2> QED
    BY <1>0, <1>3, <2>1, <2>2, <2>3, ShutEffect DEF Closure
<1>4. ASSUME NEW c \in ConnState, NEW w, NEW t \in Answers, Answered("server", c, w, t),
             WireIs(w, dial.k), Quiet(w)
      PROVE  /\ client' = client /\ server'.open = c.open
             /\ server'.streamConn = c.streamConn /\ server'.ctxDone = c.ctxDone
             /\ server'.handle = c.handle
             /\ \A x \in Exchange : Pending(x)' => x = t
  <2> DEFINE d == [c EXCEPT !.cur = NoFrame]
  <2>1. /\ d.ctxDone = c.ctxDone /\ d.open = c.open /\ d.cur = NoFrame
        /\ d.streamConn = c.streamConn /\ d.handle = c.handle
    BY DEF ConnState
  <2>2. client' = client /\ server' = d /\ wire' = Put(w, "server", Cmd(t))
    BY <1>0, <1>4 DEF Answered, Sent, Becomes, TypeOK
  <2>3. /\ Cmd(t) \in Frame /\ Cmd(t).t = t /\ t \in Allowed(Peer("server"))
        /\ t # "open"
    BY <1>0, FrameFacts DEF Cmd, Command, Answers, Allowed
  <2>4. \A x : On(wire', x) => On(w, x) \/ x = t
    BY <1>0, <1>4, <2>2, <2>3, PutFacts
  <2> HIDE DEF d
  <2>5. \A x \in Exchange : Pending(x)' => x = t
    BY <1>4, <2>1, <2>2, <2>4 DEF Pending, Quiet, NoFrame
  <2> QED
    BY <2>1, <2>2, <2>5
<1>5. CASE HandleClose("server")
  <2> DEFINE i == [server EXCEPT !.status = "Idle"]
             c == CloseStream(i)
             w == Received("server")
  <2>1. /\ On(wire, "close") /\ NoMore(wire, w) /\ WireIs(w, dial.k) /\ Quiet(w)
        /\ UNCHANGED <<link, dial, serve, dataVars>>
    BY <1>1, <1>5 DEF HandleClose, Incoming, Exchange
  <2>2. c \in ConnState
    <3>1. i \in ConnState
      BY <1>0 DEF ConnState, Status
    <3> QED
      BY <3>1, CloseStreamType
  <2>3. /\ c.status = "Idle" /\ c.open = {}
        /\ c.ctxDone = server.ctxDone /\ c.streamConn = None
    BY <1>0 DEF CloseStream, ConnState
  <2>4. Answered("server", c, w, "reply") \/ AnswerFails("server", c, w)
    BY <1>0, <1>5 DEF HandleClose
  <2> HIDE DEF c, w
  <2>5. CASE AnswerFails("server", c, w)
    BY <1>3, <2>1, <2>2, <2>3, <2>5
  <2>6. CASE Answered("server", c, w, "reply")
    <3>1. /\ client' = client /\ server'.open = {} /\ server'.ctxDone = server.ctxDone
          /\ server'.streamConn = None
          /\ \A x \in Exchange : Pending(x)' => x = "reply"
      BY <1>4, <2>1, <2>2, <2>3, <2>6 DEF Answers
    <3>2. FramesKept
      BY <3>1 DEF FramesKept, Exchange, Answers, Asks
    <3>3. Subdued("server")
      BY <1>0, <2>1, <3>1 DEF Subdued, Modest, dataVars, Started, End
    <3>4. HasReason
      <4> SUFFICES ASSUME NEW k \in server.open, ~server.ctxDone, ~client.ctxDone
                   PROVE  PipeOf(k) = "closed"
        BY <1>0, <3>1 DEF HasReason, Down
      <4>1. k \in Session /\ UsersSee
        BY <1>0, UsersSeeIt DEF ConnState
      <4>2. k = dial.k
        <5>1. ServedTarget(k, serve["server"][k])
          BY <4>1 DEF InTurn, Served
        <5> QED
          BY <1>0, <5>1 DEF ServedTarget, InTurn, StreamOfLastDial
      <4>3. Pending("close") /\ Started("client", k) /\ PipeIs(k)
        BY <2>1, <4>1, <4>2 DEF Pending, Reached, Answer, UsersSee
      <4>4. client.open = {}
        BY <4>3 DEF InTurn, ClosePending
      <4> QED
        BY <4>3, <4>4 DEF PipeIs
    <3> QED
      BY <2>1, <3>2, <3>3, <3>4 DEF Effect, Reached, ResultKept
  <2> QED
    BY <2>4, <2>5, <2>6
<1>6. CASE HandleOpen("server")
  <2> DEFINE w == Received("server")
             f == Head(wire["server"])
             c == [server EXCEPT !.cur = f]
  <2>1. /\ On(wire, "open") /\ NoMore(wire, w) /\ WireIs(w, dial.k) /\ Quiet(w)
        /\ f.t = "open" /\ UNCHANGED <<link, dial, serve, dataVars>>
    BY <1>1, <1>6 DEF HandleOpen, Incoming, Exchange
  <2>2. GoroutinesKept("server")
    BY <1>0, <2>1, NoGoroutineMoves
  <2>3. CASE server.status # "Idle"
    <3>1. closeWithCode("server", server, w, "internalError")
      BY <1>0, <1>6, <2>3 DEF HandleOpen
    <3>2. \/ server.status = "Closed"
          \/ server.status # "Closed" /\ server.open \ {server.streamConn} \subseteq server.open
      BY <1>0
    <3> QED
      BY <1>0, <2>1, <2>2, <3>1, <3>2, ShutEffect DEF Closure
  <2>4. CASE server.status = "Idle"
    <3>1. client' = client /\ server' = c /\ wire' = w
      BY <1>0, <1>6, <2>4 DEF HandleOpen, Becomes, TypeOK
    <3>2. /\ c.open = server.open /\ c.cur = f /\ c.ctxDone = server.ctxDone
          /\ c.streamConn = server.streamConn
      BY <1>0 DEF ConnState
    <3> HIDE DEF c, w, f
    <3>3. Pending("open") /\ \A x \in Exchange : Pending(x)' => x = "open"
      BY <2>1, <3>1 DEF Pending, Quiet
    <3>4. FramesKept
      BY <3>3 DEF FramesKept, Exchange, Answers, Asks
    <3>5. Subdued("server")
      BY <1>0, <2>1, <3>1, <3>2 DEF Subdued, Modest, dataVars, Started, End
    <3>6. HasReason
      BY <3>1, <3>2 DEF HasReason
    <3> QED
      BY <2>1, <3>4, <3>5, <3>6 DEF Effect, Reached, ResultKept
  <2> QED
    BY <2>3, <2>4
<1>7. CASE DialTargetErr("server")
  <2>1. /\ server.cur.t = "open" /\ Pending("open") /\ Quiet(wire)
        /\ UNCHANGED <<link, dial, serve, dataVars>>
    BY <1>0, <1>7 DEF DialTargetErr, Pending, InTurn, OneAtATime
  <2>2. CASE AnswerFails("server", server, wire)
    BY <1>0, <1>3, <2>1, <2>2
  <2>3. CASE Answered("server", server, wire, "replyFalse")
    <3>1. /\ client' = client /\ server'.open = server.open
          /\ server'.ctxDone = server.ctxDone /\ server'.streamConn = server.streamConn
          /\ \A x \in Exchange : Pending(x)' => x = "replyFalse"
      BY <1>0, <1>4, <2>1, <2>3 DEF Answers
    <3>2. FramesKept
      BY <2>1, <3>1 DEF FramesKept, Exchange, Answers, Asks
    <3>3. Subdued("server")
      BY <1>0, <2>1, <3>1 DEF Subdued, Modest, dataVars, Started, End
    <3>4. HasReason
      BY <3>1 DEF HasReason
    <3> QED
      BY <2>1, <3>2, <3>3, <3>4 DEF Effect, Reached, ResultKept
  <2> QED
    BY <1>0, <1>7, <2>2, <2>3 DEF DialTargetErr
<1>8. CASE DialTargetOk("server")
  <2> DEFINE k == server.cur.k
             c == [server EXCEPT !.status = "Stream", !.streamConn = k, !.open = @ \cup {k}]
  <2>1. /\ server.cur.t = "open" /\ Pending("open") /\ Quiet(wire)
        /\ UNCHANGED <<link, dial, dataVars>> /\ k = dial.k /\ server.open = {}
    <3>1. server.cur.t = "open" /\ UNCHANGED <<link, dial, dataVars>>
      BY <1>0, <1>8 DEF DialTargetOk
    <3>2. server.open = {}
      <4>1. EndSound("server", server) /\ server.open \subseteq Session
        BY <1>0 DEF InTurn, OneStream, ConnState
      <4> QED
        BY <3>1, <4>1, SessionFacts DEF EndSound
    <3> QED
      BY <3>1, <3>2 DEF Pending, InTurn, OneAtATime
  <2>2. k \in Session
    BY <2>1, NamesDialOK DEF NamesDial, Asks
  <2>3. /\ c \in ConnState /\ c.status = "Stream" /\ c.open = {k} /\ c.streamConn = k
        /\ c.ctxDone = server.ctxDone /\ c.handle = server.handle
    BY <1>0, <2>1, <2>2 DEF ConnState, Status, Stream
  <2>4. \/ Answered("server", c, wire, "replyTrue") /\ Goto("server", k, "start")
        \/ AnswerFails("server", c, wire) /\ UNCHANGED serve
    BY <1>0, <1>8 DEF DialTargetOk
  <2> HIDE DEF c, k
  <2>5. CASE AnswerFails("server", c, wire) /\ UNCHANGED serve
    BY <1>0, <1>3, <2>1, <2>3, <2>5
  <2>6. CASE Answered("server", c, wire, "replyTrue") /\ Goto("server", k, "start")
    <3>1. /\ client' = client /\ server'.open = {k} /\ server'.ctxDone = server.ctxDone
          /\ server'.streamConn = k /\ server'.handle = server.handle
          /\ \A x \in Exchange : Pending(x)' => x = "replyTrue"
      BY <1>0, <1>4, <2>1, <2>3, <2>6 DEF Answers
    <3>2. /\ \A x \in End, j \in Session : <<x, j>> # <<"server", k>> => serve'[x][j] = serve[x][j]
          /\ serve'["server"][k].pc = "start"
          /\ serve'["server"][k].conn = serve["server"][k].conn
      BY <1>0, <2>2, <2>6, GotoFacts
    <3>3. serve'["client"] = serve["client"]
      BY <1>0, <2>6 DEF Goto, TypeOK
    <3> QED
      BY <1>0, <2>1, <2>2, <3>1, <3>2, <3>3 DEF Connects
  <2> QED
    BY <2>4, <2>5, <2>6
<1> QED
  BY <1>0, <1>2, <1>5, <1>6, <1>7, <1>8, ReadErrEffect, ChunkEffect, CopyErrEffect DEF Handle

-----------------------------------------------------------------------------
(* serveStream.                                                            *)

(* The goroutine of stream k moves on.                                     *)
LEMMA MoveKeeps ==
  ASSUME Reached, NEW e \in End, NEW k \in Session,
         \A x \in End, j \in Session : <<x, j>> # <<e, k>> => serve'[x][j] = serve[x][j],
         serve[e][k].pc # "none", serve'[e][k].pc # "none",
         e = "server" => Closes(serve'[e][k])
  PROVE  GoroutinesKept(e)
<1>1. "server" \in End /\ \A j \in Session : Closes(serve["server"][j])
  BY DEF End, Reached
<1>2. ASSUME NEW j \in Session
      PROVE  Closes(serve'["server"][j])
  <2>1. CASE <<"server", j>> = <<e, k>>
    BY <2>1
  <2>2. CASE <<"server", j>> # <<e, k>>
    <3>1. serve'["server"][j] = serve["server"][j]
      BY <1>1, <2>2
    <3> QED
      BY <1>1, <3>1
  <2> QED
    BY <2>1, <2>2
<1>3. ASSUME NEW j \in Session
      PROVE  Started(e, j)' <=> Started(e, j)
  <2>1. CASE j = k
    BY <2>1 DEF Started
  <2>2. CASE j # k
    <3>1. serve'[e][j] = serve[e][j]
      BY <2>2
    <3> QED
      BY <3>1 DEF Started
  <2> QED
    BY <2>1, <2>2
<1> QED
  BY <1>2, <1>3 DEF GoroutinesKept

(* It does no more than that, and perhaps closes the stream for a reason.  *)
LEMMA MoveEffect ==
  ASSUME InTurn, NEW e \in End, GoroutinesKept(e), UNCHANGED <<link, dial, wire, ended>>,
         \A x \in End : x # e => conn'[x] = conn[x],
         conn'[e].open \subseteq conn[e].open,
         conn'[e].streamConn = conn[e].streamConn,
         conn'[e].ctxDone = conn[e].ctxDone, conn'[e].cur = conn[e].cur,
         e = "server" => HasReason
  PROVE  Effect(e)
<1>1. server'.cur = server.cur /\ NoMore(wire, wire')
  BY DEF server, End, NoMore
<1>2. FramesKept
  BY <1>1, PendingShrinks
<1>3. Subdued(e)
  BY DEF Subdued, Modest, dataVars, GoroutinesKept
<1> QED
  BY <1>2, <1>3 DEF Effect, ResultKept, GoroutinesKept

(* It sends a chunk.                                                       *)
LEMMA ChunkMoves ==
  ASSUME NEW e \in End, GoroutinesKept(e), UNCHANGED <<conn, link, dial, dataVars>>,
         NoMore(wire, wire')
  PROVE  Effect(e)
<1>1. client' = client /\ server' = server
  BY DEF client, server
<1>2. FramesKept
  BY <1>1, PendingShrinks
<1>3. Subdued(e)
  BY DEF Subdued, Modest, dataVars, GoroutinesKept
<1>4. HasReason
  BY <1>1 DEF HasReason
<1> QED
  BY <1>2, <1>3, <1>4 DEF Effect, ResultKept, GoroutinesKept

LEMMA ServePipeEffect ==
  ASSUME InTurn, Reached, NEW k \in Session,
         serveStream("client", k) \/ ServeReadData("client", k)
  PROVE  Effect("client")
<1> DEFINE s == serve["client"][k]
           t == serve'["client"][k]
<1>0. /\ TypeOK /\ client \in ConnState /\ s \in Serving /\ "client" \in End
      /\ "server" \in End /\ client = conn["client"] /\ server = conn["server"]
      /\ client' = conn'["client"] /\ server' = conn'["server"]
      /\ ServedPipe(k, s) /\ WireIs(wire, dial.k) /\ NoMore(wire, wire)
  BY DEF InTurn, OneStream, TypeOK, client, server, End, Served, OneAtATime, NoMore
<1>1. ASSUME NEW pc, Goto("client", k, pc), pc # "none", s.pc # "none"
      PROVE  GoroutinesKept("client")
  <2>1. /\ t.pc = pc /\ \A x \in End, j \in Session :
                          <<x, j>> # <<"client", k>> => serve'[x][j] = serve[x][j]
    BY <1>0, <1>1, GotoFacts
  <2> QED
    BY <1>0, <1>1, <2>1, MoveKeeps
<1>2. ASSUME NEW pc, Goto("client", k, pc), pc # "none", s.pc # "none",
             UNCHANGED <<conn, link, wire, dial, dataVars>>
      PROVE  Effect("client")
  BY <1>0, <1>1, <1>2, MoveEffect DEF dataVars
<1>3. CASE ServeStart("client", k)
  <2>1. /\ t.pc = "check" /\ s.pc = "start"
        /\ \A x \in End, j \in Session :
             <<x, j>> # <<"client", k>> => serve'[x][j] = serve[x][j]
    BY <1>0, <1>3 DEF ServeStart, TypeOK, Serving
  <2>2. GoroutinesKept("client")
    BY <1>0, <2>1, MoveKeeps
  <2> QED
    BY <1>0, <1>3, <2>2, MoveEffect DEF ServeStart, dataVars
<1>4. CASE ServeCheck("client", k)
  <2>1. PICK pc \in {"ended", "panic", "read"} : Goto("client", k, pc)
    BY <1>4 DEF ServeCheck
  <2> QED
    BY <1>2, <1>4, <2>1 DEF ServeCheck
<1>5. CASE ServeReadErr("client", k)
  <2>1. PICK pc \in {"eof", "fail"} : Goto("client", k, pc)
    BY <1>5 DEF ServeReadErr, ReadError
  <2> QED
    BY <1>2, <1>5, <2>1 DEF ServeReadErr, AtRead
<1>6. CASE ServeStatus("client", k)
  <2>1. PICK pc \in {"return", "setResult", "sendErr"} : Goto("client", k, pc)
    BY <1>6 DEF ServeStatus
  <2> QED
    BY <1>2, <1>6, <2>1 DEF ServeStatus
<1>7. CASE ServeWait("client", k)
  BY <1>2, <1>7 DEF ServeWait
<1>8. CASE ServeSetResult("client", k)
  <2> DEFINE c == [client EXCEPT !.onResult = [kind |-> "close", k |-> k]]
  <2>1. /\ client' = c /\ server' = server /\ GoroutinesKept("client")
        /\ UNCHANGED <<link, wire, dial, dataVars>>
    BY <1>0, <1>1, <1>8 DEF ServeSetResult, Becomes, TypeOK
  <2>2. /\ c.open = client.open /\ c.streamConn = client.streamConn
        /\ c.ctxDone = client.ctxDone /\ c.cur = client.cur
    BY <1>0 DEF ConnState
  <2> HIDE DEF c
  <2> QED
    BY <1>0, <2>1, <2>2, MoveEffect DEF End, dataVars
<1>9. CASE ServeReturn("client", k)
  <2> DEFINE c == [client EXCEPT !.open = @ \ {s.conn}]
  <2>1. /\ client' = c /\ server' = server /\ GoroutinesKept("client")
        /\ UNCHANGED <<link, wire, dial, dataVars>>
    BY <1>0, <1>1, <1>9 DEF ServeReturn, Becomes, TypeOK
  <2>2. /\ c.open \subseteq client.open /\ c.streamConn = client.streamConn
        /\ c.ctxDone = client.ctxDone /\ c.cur = client.cur
    BY <1>0 DEF ConnState
  <2> HIDE DEF c
  <2> QED
    BY <1>0, <2>1, <2>2, MoveEffect DEF End, dataVars
<1>10. CASE ServeSendClose("client", k)
  <2>1. s.pc = "sendClose" /\ k = dial.k /\ UNCHANGED <<link, dial, dataVars>>
    BY <1>0, <1>10 DEF ServeSendClose, ServedPipe, Active
  <2>2. CASE SendFails("client", client, wire) /\ Goto("client", k, "return")
    <3>1. GoroutinesKept("client") /\ closeWithCode("client", client, wire, "internalError")
      BY <1>1, <2>1, <2>2 DEF SendFails
    <3>2. client.open \ {client.streamConn} \subseteq client.open
      OBVIOUS
    <3> QED
      BY <1>0, <2>1, <3>1, <3>2, ShutEffect DEF Closure
  <2>3. CASE Sent("client", client, wire, Cmd("close")) /\ Goto("client", k, "wait")
    <3>1. /\ GoroutinesKept("client") /\ client' = client /\ server' = server
          /\ wire' = Put(wire, "client", Cmd("close"))
      BY <1>0, <1>1, <2>1, <2>3 DEF Sent, Becomes, TypeOK
    <3>2. \A x : On(wire', x) => On(wire, x) \/ x = "close"
      <4>1. /\ Cmd("close") \in Frame /\ Cmd("close").t = "close"
            /\ "close" \in Allowed(Peer("client"))
        BY FrameFacts DEF Cmd, Command, Allowed, Peer
      <4>2. Quiet(wire)
        <5> SUFFICES ASSUME NEW x \in Exchange, On(wire, x) PROVE FALSE
          BY DEF Quiet
        <5>1. Pending(x)
          BY DEF Pending
        <5>2. CASE x \in {"close", "reply"}
          <6>1. s.pc \notin Active
            BY <5>1, <5>2 DEF InTurn, ClosePending
          <6> QED
            BY <2>1, <6>1 DEF Active
        <5>3. CASE x \in {"open", "replyTrue", "replyFalse"}
          <6>1. client.onResult = [kind |-> "dial", k |-> dial.k]
            BY <5>1, <5>3 DEF InTurn, OpenPending
          <6> QED
            BY <1>0, <2>1, <6>1 DEF ServedPipe
        <5> QED
          BY <5>2, <5>3 DEF Exchange, Answers
      <4> QED
        BY <1>0, <3>1, <4>1, <4>2, PutFacts
    <3>3. FramesKept
      <4>1. Started("client", dial.k) /\ dial.k \in Session
        BY <2>1 DEF Started
      <4> QED
        BY <3>1, <3>2, <4>1 DEF FramesKept, Pending, Asks
    <3>4. Subdued("client")
      BY <1>0, <2>1, <3>1 DEF Subdued, Modest, dataVars, GoroutinesKept, End
    <3> QED
      BY <2>1, <3>1, <3>3, <3>4 DEF Effect, ResultKept, GoroutinesKept
  <2> QED
    BY <1>0, <1>10, <2>2, <2>3 DEF ServeSendClose
<1>11. CASE ServeWrite("client", k)
  <2>1. s.pc = "write" /\ UNCHANGED <<link, dial, dataVars>>
    BY <1>11 DEF ServeWrite
  <2>2. CASE SendFails("client", client, wire) /\ Goto("client", k, "return")
    <3>1. GoroutinesKept("client") /\ closeWithCode("client", client, wire, "internalError")
      BY <1>1, <2>1, <2>2 DEF SendFails
    <3>2. client.open \ {client.streamConn} \subseteq client.open
      OBVIOUS
    <3> QED
      BY <1>0, <2>1, <3>1, <3>2, ShutEffect DEF Closure
  <2>3. CASE /\ Sent("client", client, wire, Chunk(s.conn, s.n))
             /\ Goto("client", k, "read")
    <3>1. GoroutinesKept("client")
      BY <1>1, <2>1, <2>3
    <3>2. UNCHANGED conn /\ NoMore(wire, wire')
      BY <1>0, <2>1, <2>3, ChunkSent
    <3> QED
      BY <1>0, <2>1, <3>1, <3>2, ChunkMoves
  <2> QED
    BY <1>0, <1>11, <2>2, <2>3 DEF ServeWrite
<1>12. CASE ServeSendErr("client", k)
  BY <1>0, <1>12 DEF ServeSendErr, ServedPipe
<1>13. CASE ServeReadData("client", k)
  <2>1. /\ t.pc = "write" /\ s.pc = "read"
        /\ \A x \in End, j \in Session :
             <<x, j>> # <<"client", k>> => serve'[x][j] = serve[x][j]
    BY <1>0, <1>13, ReadMoves
  <2>3. UNCHANGED <<conn, link, wire, dial, ended>>
    BY <1>13 DEF ServeReadData
  <2>2. GoroutinesKept("client")
    BY <1>0, <2>1, MoveKeeps
  <2> QED
    BY <1>0, <2>2, <2>3, MoveEffect
<1> QED
  BY <1>3, <1>4, <1>5, <1>6, <1>7, <1>8, <1>9, <1>10, <1>11, <1>12, <1>13 DEF serveStream

LEMMA ServeTargetEffect ==
  ASSUME InTurn, Reached, NEW k \in Session,
         serveStream("server", k) \/ ServeReadData("server", k)
  PROVE  Effect("server")
<1> DEFINE s == serve["server"][k]
           t == serve'["server"][k]
<1>0. /\ TypeOK /\ server \in ConnState /\ s \in Serving /\ "client" \in End
      /\ "server" \in End /\ client = conn["client"] /\ server = conn["server"]
      /\ client' = conn'["client"] /\ server' = conn'["server"]
      /\ ServedTarget(k, s) /\ WireIs(wire, dial.k) /\ NoMore(wire, wire) /\ Closes(s)
  BY DEF InTurn, OneStream, TypeOK, client, server, End, Served, OneAtATime, NoMore, Reached
<1>1. ASSUME NEW pc, Goto("server", k, pc), pc # "none", s.pc # "none",
             pc \in Leaving => \/ s.pc \in Leaving \/ s.conn \notin server.open
                               \/ ended[s.conn] # "no" \/ server.ctxDone \/ ~link
      PROVE  GoroutinesKept("server")
  <2>1. /\ t.pc = pc /\ t.conn = s.conn
        /\ \A x \in End, j \in Session :
             <<x, j>> # <<"server", k>> => serve'[x][j] = serve[x][j]
    BY <1>0, <1>1, GotoFacts
  <2>2. Closes(t)
    <3> HIDE DEF s, t
    <3> QED
      BY <1>0, <1>1, <2>1 DEF Closes
  <2> QED
    BY <1>0, <1>1, <2>1, <2>2, MoveKeeps
<1>2. ASSUME NEW pc, Goto("server", k, pc), pc # "none", s.pc # "none",
             pc \in Leaving => \/ s.pc \in Leaving \/ s.conn \notin server.open
                               \/ ended[s.conn] # "no" \/ server.ctxDone \/ ~link,
             UNCHANGED <<conn, link, wire, dial, dataVars>>
      PROVE  Effect("server")
  <2>1. HasReason
    BY <1>0, <1>2 DEF HasReason
  <2> QED
    BY <1>0, <1>1, <1>2, <2>1, MoveEffect DEF dataVars
<1>3. CASE ServeStart("server", k)
  <2>1. /\ t.pc = "check" /\ t.conn = server.streamConn /\ s.pc = "start"
        /\ \A x \in End, j \in Session :
             <<x, j>> # <<"server", k>> => serve'[x][j] = serve[x][j]
    BY <1>0, <1>3 DEF ServeStart, TypeOK, Serving
  <2>2. Closes(t)
    BY <2>1 DEF Closes, Reached, Leaving
  <2>3. GoroutinesKept("server")
    BY <1>0, <2>1, <2>2, MoveKeeps
  <2>4. HasReason
    BY <1>0, <1>3 DEF HasReason, ServeStart
  <2> QED
    BY <1>0, <1>3, <2>3, <2>4, MoveEffect DEF ServeStart, dataVars
<1>4. CASE ServeCheck("server", k)
  <2>1. PICK pc \in {"ended", "panic", "read"} : Goto("server", k, pc)
    BY <1>4 DEF ServeCheck
  <2> QED
    BY <1>2, <1>4, <2>1 DEF ServeCheck, Leaving
<1>5. CASE ServeReadErr("server", k)
  <2>1. PICK pc \in {"eof", "fail"} : Goto("server", k, pc)
    BY <1>5 DEF ServeReadErr, ReadError
  <2>2. s.pc = "read" /\ (s.conn \notin server.open \/ ended[s.conn] # "no")
    BY <1>0, <1>5 DEF ServeReadErr, AtRead
  <2> QED
    BY <1>2, <1>5, <2>1, <2>2 DEF ServeReadErr
<1>6. CASE ServeStatus("server", k)
  <2>1. s.pc = "fail"
    BY <1>0, <1>6 DEF ServeStatus, ServedTarget
  <2>2. PICK pc \in {"return", "sendErr"} : Goto("server", k, pc)
    BY <1>6, <2>1 DEF ServeStatus
  <2> QED
    BY <1>2, <1>6, <2>1, <2>2 DEF ServeStatus, Leaving
<1>7. CASE ServeSendErr("server", k)
  <2>1. /\ s.pc = "sendErr" /\ UNCHANGED <<link, dial, dataVars>> /\ Goto("server", k, "return")
    BY <1>7 DEF ServeSendErr
  <2>2. GoroutinesKept("server")
    BY <1>1, <2>1 DEF Leaving
  <2>3. CASE SendFails("server", server, wire)
    <3>1. closeWithCode("server", server, wire, "internalError")
      BY <2>3 DEF SendFails
    <3>2. server.open \ {server.streamConn} \subseteq server.open
      OBVIOUS
    <3> QED
      BY <1>0, <2>1, <2>2, <3>1, <3>2, ShutEffect DEF Closure
  <2>4. CASE Sent("server", server, wire, Cmd("error"))
    <3>1. /\ client' = client /\ server' = server
          /\ wire' = Put(wire, "server", Cmd("error"))
      BY <1>0, <2>4 DEF Sent, Becomes, TypeOK
    <3>2. NoMore(wire, wire')
      <4>1. /\ Cmd("error") \in Frame /\ Cmd("error").t = "error"
            /\ "error" \in Allowed(Peer("server")) /\ "error" \notin Exchange
        BY FrameFacts, FrameKinds DEF Cmd, Command, Allowed, Peer
      <4> QED
        BY <1>0, <3>1, <4>1, PutFacts DEF NoMore
    <3>3. FramesKept
      BY <3>1, <3>2, PendingShrinks
    <3>4. Subdued("server")
      BY <1>0, <2>1, <2>2, <3>1 DEF Subdued, Modest, dataVars, GoroutinesKept, End
    <3>5. HasReason
      BY <3>1 DEF HasReason
    <3> QED
      BY <2>1, <2>2, <3>3, <3>4, <3>5 DEF Effect, ResultKept, GoroutinesKept
  <2> QED
    BY <1>0, <1>7, <2>3, <2>4 DEF ServeSendErr
<1>8. CASE ServeReturn("server", k)
  <2> DEFINE c == [server EXCEPT !.open = @ \ {s.conn}]
  <2>1. s.pc = "return" /\ Goto("server", k, "ended") /\ UNCHANGED <<link, wire, dial, dataVars>>
    BY <1>8 DEF ServeReturn
  <2>2. client' = client /\ server' = c /\ GoroutinesKept("server")
    BY <1>0, <1>1, <1>8, <2>1 DEF ServeReturn, Becomes, TypeOK, Leaving
  <2>3. /\ c.open = server.open \ {s.conn} /\ c.streamConn = server.streamConn
        /\ c.ctxDone = server.ctxDone /\ c.cur = server.cur
    BY <1>0 DEF ConnState
  <2> HIDE DEF c
  <2>4. HasReason
    <3>1. server.ctxDone \/ ~link => Down'
      BY <1>0, <2>1, <2>2, <2>3 DEF Down
    <3> QED
      BY <1>0, <2>1, <2>2, <2>3, <3>1 DEF HasReason, Closes, Leaving
  <2> QED
    BY <1>0, <2>1, <2>2, <2>3, <2>4, MoveEffect DEF End, dataVars
<1>9. CASE \/ ServeSetResult("server", k) \/ ServeSendClose("server", k)
           \/ ServeWait("server", k)
  BY <1>0, <1>9 DEF ServeSetResult, ServeSendClose, ServeWait, ServedTarget
<1>10. CASE ServeReadData("server", k)
  <2>1. /\ t.pc = "write" /\ t.conn = s.conn /\ s.pc = "read"
        /\ \A x \in End, j \in Session :
             <<x, j>> # <<"server", k>> => serve'[x][j] = serve[x][j]
    BY <1>0, <1>10, ReadMoves
  <2>5. UNCHANGED <<conn, link, wire, dial, ended>>
    BY <1>10 DEF ServeReadData
  <2>2. Closes(t)
    BY <1>0, <2>1 DEF Closes, Leaving
  <2>3. GoroutinesKept("server")
    BY <1>0, <2>1, <2>2, MoveKeeps
  <2>4. HasReason
    BY <1>0, <2>5 DEF HasReason
  <2> QED
    BY <1>0, <2>3, <2>4, <2>5, MoveEffect
<1>11. CASE ServeWrite("server", k)
  <2>1. s.pc = "write" /\ UNCHANGED <<link, dial, dataVars>>
    BY <1>11 DEF ServeWrite
  <2>2. CASE SendFails("server", server, wire) /\ Goto("server", k, "return")
    <3>1. server.ctxDone \/ ~link
      BY <1>0, <2>2 DEF SendFails, MayFail, MaySucceed, InTurn, DialStatus
    <3>2. GoroutinesKept("server") /\ closeWithCode("server", server, wire, "internalError")
      BY <1>1, <2>1, <2>2, <3>1 DEF SendFails
    <3>3. server.open \ {server.streamConn} \subseteq server.open
      OBVIOUS
    <3> QED
      BY <1>0, <2>1, <3>2, <3>3, ShutEffect DEF Closure
  <2>3. CASE /\ Sent("server", server, wire, Chunk(s.conn, s.n))
             /\ Goto("server", k, "read")
    <3>1. GoroutinesKept("server")
      BY <1>1, <2>1, <2>3 DEF Leaving
    <3>2. UNCHANGED conn /\ NoMore(wire, wire')
      BY <1>0, <2>1, <2>3, ChunkSent
    <3> QED
      BY <1>0, <2>1, <3>1, <3>2, ChunkMoves
  <2> QED
    BY <1>0, <1>11, <2>2, <2>3 DEF ServeWrite
<1> QED
  BY <1>3, <1>4, <1>5, <1>6, <1>7, <1>8, <1>9, <1>10, <1>11 DEF serveStream

-----------------------------------------------------------------------------
(* The steps with that effect implement a step of the Tunnel.              *)
LEMMA EffectOK ==
  ASSUME InTurn, InTurn', Reached, NEW e \in End, ~Crashed(e), Effect(e)
  PROVE  Reached' /\ [S!Next]_S!vars
<1>1. /\ TypeOK /\ TypeOK' /\ "server" \in End
      /\ client.open \subseteq {dial.k} /\ server.open \subseteq {server.streamConn}
  BY DEF InTurn, OneStream, PipeOfLastDial, EndSound, server, End
<1>2. /\ Subdued(e) /\ Modest(e) /\ FramesKept /\ ResultKept /\ dial'.k = dial.k /\ UNCHANGED ended
      /\ \A k \in Session : Closes(serve'["server"][k])
  BY DEF Effect, Subdued, Modest, dataVars
<1>3. CASE e = "client"
  <2>1. /\ server' = server /\ link' = link
        /\ \A k \in Session : serve'["server"][k] = serve["server"][k]
    BY <1>1, <1>2, <1>3 DEF Subdued, Modest, dataVars, server
  <2>2. \A k \in Session : Started("client", k)' <=> Started("client", k)
    BY <1>2, <1>3 DEF Subdued, Modest, dataVars
  <2>3. Reached'
    BY <1>2, <2>1, <2>2, ReachedKept DEF Started
  <2> QED
    BY <1>1, <1>2, <1>3, <2>3, ClientSimulates
<1>4. CASE e = "server"
  <2>1. "client" \in End /\ \A k \in Session : serve'["client"][k] = serve["client"][k]
    BY <1>2, <1>4 DEF Subdued, Modest, dataVars, End
  <2>2. /\ \A k \in Session : Started("server", k)' <=> Started("server", k)
        /\ server'.streamConn \in {server.streamConn, None}
        /\ server'.open \subseteq server.open
        /\ server.ctxDone => server'.ctxDone
        /\ link' = link
    BY <1>2, <1>4 DEF Subdued, Modest, dataVars, server
  <2>3. Reached'
    BY <1>2, <2>1, <2>2, ReachedKept DEF Started
  <2> QED
    BY <1>1, <1>2, <1>4, <2>3, ServerSimulates DEF Effect
<1> QED
  BY <1>3, <1>4 DEF End

LEMMA DownSameIf ==
  ASSUME \A x \in End : conn'[x].ctxDone = conn[x].ctxDone /\ conn'[x].handle = conn[x].handle,
         \A x \in End, k \in Session : serve'[x][k].pc = "panic" <=> serve[x][k].pc = "panic",
         UNCHANGED link
  PROVE  DownSame
<1>1. \A x \in End : Crashed(x)' <=> Crashed(x)
  BY DEF Crashed
<1> QED
  BY <1>1 DEF DownSame, Down

(* The Dialer of the server succeeds: the target is reached.               *)
LEMMA ConnectOK ==
  ASSUME InTurn, InTurn', Reached, Connects
  PROVE  Reached' /\ [S!Next]_S!vars
<1> DEFINE k == dial.k
<1>0. /\ TypeOK /\ TypeOK' /\ UsersSee /\ UsersSee' /\ k \in Session
      /\ client = conn["client"] /\ server = conn["server"]
      /\ client' = conn'["client"] /\ server' = conn'["server"] /\ End = {"client", "server"}
      /\ UNCHANGED <<link, dial, ended>>
  BY UsersSeeIt, UsersSeeNext DEF InTurn, OneStream, Connects, client, server, End, dataVars
<1>1. /\ Started("server", k)' /\ ~Started("server", k)
      /\ \A j \in Session : Started("client", j)' <=> Started("client", j)
      /\ \A j \in Session : j # k => (Started("server", j)' <=> Started("server", j))
  BY <1>0 DEF Connects, Started, Reached, Answer
<1>2. DownSame
  <2>1. \A x \in End, j \in Session : serve'[x][j].pc = "panic" <=> serve[x][j].pc = "panic"
    <3>1. serve["server"][k].pc # "panic" /\ serve'["server"][k].pc # "panic"
      BY <1>0, <1>1 DEF Started, Connects
    <3> QED
      BY <1>0, <3>1 DEF Connects
  <2> QED
    BY <1>0, <2>1, DownSameIf DEF Connects
<1>3. PipesSame
  <2> SUFFICES ASSUME NEW j \in Session PROVE PipeOf(j)' = PipeOf(j)
    BY DEF PipesSame
  <2>1. /\ j \in Nat /\ dial.k \in Nat /\ PipeIs(j) /\ PipeIs(j)' /\ client' = client
        /\ (Asking' <=> Asking)
    BY <1>0 DEF UsersSee, Connects, Asking
  <2>2. CASE j > dial.k
    BY <1>0, <1>1, <2>1, <2>2 DEF PipeIs
  <2>3. CASE j < dial.k
    BY <1>0, <1>1, <2>1, <2>3 DEF PipeIs
  <2>4. CASE j = dial.k
    BY <1>0, <1>1, <2>1, <2>4 DEF PipeIs
  <2> QED
    BY <2>1, <2>2, <2>3, <2>4
<1>4. /\ TargetOf(k) = "none" /\ TargetOf(k)' = "open" /\ TargetsSameBut(k)
      /\ \A j \in Session : TargetOf(j) # "open"
  <2>1. \A j \in Session : TargetIs(j) /\ TargetIs(j)'
    BY <1>0 DEF UsersSee
  <2> QED
    BY <1>0, <1>1, <2>1 DEF TargetIs, TargetsSameBut, Connects
<1>5. PipeOf(k) = "asked" \/ Down
  <2>1. dial.pc \in {"sent", "select"} \/ client.ctxDone
    BY DEF InTurn, OpenPending, Connects
  <2>2. CASE dial.pc \in {"sent", "select"}
    <3>1. ~Started("client", k) /\ PipeIs(k) /\ Asking
      BY <1>0, <2>2 DEF InTurn, Served, ServedPipe, Started, UsersSee, Asking
    <3> QED
      BY <3>1 DEF PipeIs
  <2> QED
    BY <1>0, <2>1, <2>2 DEF Down
<1>6. S!Next
  BY <1>0, <1>2, <1>3, <1>4, <1>5, TunnelConnect DEF EndedSame
<1>7. Reached'
  <2>1. Answer'
    <3>1. \A j \in Session : j \in Nat /\ k \in Nat
      BY <1>0 DEF UsersSee
    <3>2. dial.res = "none"
      BY DEF InTurn, OpenPending, Connects
    <3>3. \A t \in Exchange : Pending(t)' => t = "replyTrue"
      BY DEF Connects
    <3> QED
      BY <1>0, <1>1, <3>1, <3>2, <3>3 DEF Reached, Answer, Exchange, Answers
  <2>2. Started("server", server.streamConn)'
    BY <1>1 DEF Connects, Started
  <2>3. ASSUME NEW j \in Session
        PROVE  Closes(serve["server"][j])'
    <3>1. /\ Closes(serve["server"][j]) /\ serve["server"][j].conn \in Stream
          /\ serve'["server"][j].conn = serve["server"][j].conn
      <4>1. serve["server"][j] \in Serving /\ Closes(serve["server"][j])
        BY <1>0 DEF Reached, TypeOK
      <4>2. serve'["server"][j].conn = serve["server"][j].conn
        BY DEF Connects
      <4> QED
        BY <4>1, <4>2 DEF Serving
    <3>2. serve'["server"][j].conn # k
      BY <1>0, <1>1, <3>1, SessionFacts DEF Closes
    <3>3. server'.open = {k}
      BY DEF Connects
    <3>4. serve'["server"][j].conn # None => Started("server", serve["server"][j].conn)'
      BY <1>0, <1>1, <3>1 DEF Closes, Stream, Started
    <3> QED
      BY <3>2, <3>3, <3>4 DEF Closes
  <2> QED
    BY <2>1, <2>2, <2>3 DEF Reached
<1> QED
  BY <1>6, <1>7

-----------------------------------------------------------------------------
(* DialContext.                                                            *)

(* The call of DialContext for dial k returns.                             *)
DialDone(k) ==
  /\ k = dial.k /\ k \in Session /\ dial.pc \in {"select", "accepted"}
  /\ dial'.k = k /\ dial'.pc \in {"idle", "stuck"} /\ dial'.cancelled = dial.cancelled
  /\ server' = server /\ client'.ctxDone = client.ctxDone /\ client'.handle = client.handle
  /\ \A j \in Session : serve'["server"][j] = serve["server"][j]
  /\ \A j \in Session : j # k => serve'["client"][j] = serve["client"][j]
  /\ serve'["client"][k].pc # "panic" /\ serve["client"][k].pc = "none"
  /\ client.open = {} /\ client'.open \subseteq {k}
  /\ UNCHANGED <<link, wire, dataVars>>

LEMMA DialDoneSeen ==
  ASSUME TypeOK, TypeOK', NEW k, DialDone(k)
  PROVE  /\ DownSame /\ TargetsSame /\ EndedSame /\ PipesSameBut(k)
         /\ PipeOf(k) = "asked"
<1>0. /\ UsersSee /\ UsersSee' /\ k \in Session
      /\ client = conn["client"] /\ server = conn["server"]
      /\ client' = conn'["client"] /\ server' = conn'["server"] /\ End = {"client", "server"}
      /\ UNCHANGED <<link, ended>>
  BY UsersSeeIt, UsersSeeNext DEF DialDone, client, server, End, dataVars
<1>1. /\ ~Started("client", k)
      /\ \A j \in Session : Started("server", j)' <=> Started("server", j)
      /\ \A j \in Session : j # k => (Started("client", j)' <=> Started("client", j))
  BY <1>0 DEF DialDone, Started
<1>2. DownSame
  <2>1. \A x \in End, j \in Session : serve'[x][j].pc = "panic" <=> serve[x][j].pc = "panic"
    <3>1. serve["client"][k].pc # "panic" /\ serve'["client"][k].pc # "panic"
      BY DEF DialDone
    <3> QED
      BY <1>0, <3>1 DEF DialDone
  <2> QED
    BY <1>0, <2>1, DownSameIf DEF DialDone
<1>3. TargetsSame /\ EndedSame
  <2>1. \A j \in Session : TargetIs(j) /\ TargetIs(j)'
    BY <1>0 DEF UsersSee
  <2> QED
    BY <1>0, <1>1, <2>1 DEF TargetIs, TargetsSame, EndedSame, DialDone
<1>4. PipesSameBut(k) /\ PipeOf(k) = "asked"
  <2>1. ASSUME NEW j \in Session, j # k
        PROVE  PipeOf(j)' = PipeOf(j)
    <3>1. j \in Nat /\ dial.k \in Nat /\ PipeIs(j) /\ PipeIs(j)' /\ dial'.k = dial.k
      BY <1>0 DEF UsersSee, DialDone
    <3>2. j \notin client.open /\ j \notin client'.open /\ dial.k = k
      BY <2>1 DEF DialDone
    <3>3. CASE j > dial.k
      BY <1>1, <2>1, <3>1, <3>2, <3>3 DEF PipeIs
    <3>4. CASE j < dial.k
      BY <1>1, <2>1, <3>1, <3>2, <3>4 DEF PipeIs
    <3> QED
      BY <2>1, <3>1, <3>2, <3>3, <3>4
  <2>2. PipeOf(k) = "asked"
    <3>1. PipeIs(k) /\ Asking /\ dial.k = k
      BY <1>0 DEF UsersSee, DialDone, Asking
    <3> QED
      BY <1>1, <3>1 DEF PipeIs
  <2> QED
    BY <2>1, <2>2 DEF PipesSameBut
<1> QED
  BY <1>0, <1>2, <1>3, <1>4

LEMMA DialDoneKeeps ==
  ASSUME InTurn, InTurn', Reached, NEW k, DialDone(k), dial'.pc = "idle"
  PROVE  /\ Reached' /\ DownSame /\ TargetsSame /\ EndedSame /\ PipesSameBut(k)
         /\ PipeOf(k) = "asked"
<1>0. /\ TypeOK /\ TypeOK' /\ NoMore(wire, wire) /\ UNCHANGED <<wire, ended>>
      /\ \A j \in Session : Started("server", j)' <=> Started("server", j)
  BY DEF InTurn, OneStream, DialDone, dataVars, NoMore, Started
<1>1. FramesKept
  BY <1>0, PendingShrinks DEF DialDone
<1>2. /\ ResultKept /\ dial'.k = dial.k
      /\ \A j \in Session : Started("client", j) => Started("client", j)'
      /\ \A j \in Session : Closes(serve'["server"][j])
      /\ server' = server /\ link' = link
  BY DEF ResultKept, DialDone, Reached, Started
<1>3. Reached'
  BY <1>0, <1>1, <1>2, ReachedKept
<1> QED
  BY <1>0, <1>3, DialDoneSeen

LEMMA DialStepOK ==
  ASSUME InTurn, InTurn', Reached, ~Crashed("client"), Dial
  PROVE  Reached' /\ [S!Next]_S!vars
<1>0. /\ TypeOK /\ TypeOK' /\ client \in ConnState /\ dial \in Dialing /\ "client" \in End
      /\ "server" \in End /\ client = conn["client"] /\ server = conn["server"]
      /\ client' = conn'["client"] /\ server' = conn'["server"] /\ NoMore(wire, wire)
      /\ UsersSee /\ UsersSee'
  BY UsersSeeIt, UsersSeeNext DEF InTurn, OneStream, TypeOK, client, server, End, NoMore
<1>1. ASSUME UNCHANGED <<link, wire, serve, dataVars>>, server' = server,
             client'.open = client.open, client'.streamConn = client.streamConn,
             client'.ctxDone = client.ctxDone, dial'.k = dial.k, dial'.cancelled = dial.cancelled,
             dial'.res = dial.res, {dial.pc, dial'.pc} \subseteq {"sent", "select", "accepted"}
      PROVE  Reached' /\ [S!Next]_S!vars
  <2>1. FramesKept /\ ResultKept
    BY <1>0, <1>1, PendingShrinks DEF ResultKept
  <2>2. Subdued("client")
    BY <1>0, <1>1 DEF Subdued, Modest, dataVars, Started, End
  <2>3. Effect("client")
    BY <1>1, <2>1, <2>2 DEF Effect, Reached
  <2> QED
    BY <1>0, <2>3, EffectOK
<1>2. CASE DialInOper
  <2> DEFINE c == [client EXCEPT !.status = "InOper"]
  <2>1. client' = c /\ server' = server /\ UNCHANGED <<link, wire, serve, dataVars>>
    BY <1>0, <1>2 DEF DialInOper, Becomes, TypeOK
  <2>2. c.open = client.open /\ c.streamConn = client.streamConn /\ c.ctxDone = client.ctxDone
    BY <1>0 DEF ConnState
  <2>3. /\ dial'.k = dial.k /\ dial'.cancelled = dial.cancelled /\ dial'.res = dial.res
        /\ dial.pc = "sent" /\ dial'.pc = "select"
    BY <1>0, <1>2 DEF DialInOper, Dialing
  <2> HIDE DEF c
  <2> QED
    BY <1>1, <2>1, <2>2, <2>3
<1>3. ASSUME DialResult, dial.res = "ok"
      PROVE  Reached' /\ [S!Next]_S!vars
  <2>1. /\ dial'.k = dial.k /\ dial'.cancelled = dial.cancelled /\ dial'.res = dial.res
        /\ dial.pc = "select" /\ dial'.pc = "accepted" /\ UNCHANGED conn
    BY <1>0, <1>3 DEF DialResult, Dialing
  <2> QED
    BY <1>0, <1>1, <1>3, <2>1 DEF DialResult
<1>4. ASSUME dial.pc = "select", dial' = [dial EXCEPT !.pc = "idle"],
             \/ dial.res = "fail" /\ Becomes("client", [client EXCEPT !.status = "Idle"])
             \/ client.ctxDone /\ UNCHANGED conn,
             UNCHANGED <<link, wire, serve, dataVars>>
      PROVE  Reached' /\ [S!Next]_S!vars
  <2> DEFINE c == [client EXCEPT !.status = "Idle"]
  <2>0. PICK k \in Session : k = dial.k
    BY <1>0, <1>4 DEF Dialing, Stream
  <2>1. serve["client"][k].pc = "none" /\ client.open = {}
    BY <1>0, <1>4, <2>0 DEF Dialing, Stream, InTurn, Served, ServedPipe, OneStream, PipeOfLastDial
  <2>2. client' \in {client, c} /\ server' = server
    BY <1>0, <1>4 DEF Becomes, TypeOK
  <2>3. c.open = client.open /\ c.handle = client.handle /\ c.ctxDone = client.ctxDone
    BY <1>0 DEF ConnState
  <2>4. dial'.k = k /\ dial'.pc = "idle" /\ dial'.cancelled = dial.cancelled
    BY <1>0, <1>4, <2>0 DEF Dialing
  <2> HIDE DEF c
  <2>5. DialDone(k)
    BY <1>4, <2>0, <2>1, <2>2, <2>3, <2>4 DEF DialDone
  <2>6. /\ Reached' /\ DownSame /\ TargetsSame /\ EndedSame /\ PipesSameBut(k)
        /\ PipeOf(k) = "asked"
    BY <2>4, <2>5, DialDoneKeeps
  <2>7. PipeOf(k)' = "failed"
    <3>1. PipeIs(k)' /\ ~Started("client", k)' /\ ~Asking' /\ ~dial'.cancelled
      BY <1>0, <1>4, <2>1, <2>4 DEF UsersSee, Started, Asking, InTurn, DialStatus
    <3> QED
      BY <2>4, <3>1 DEF PipeIs
  <2>8. TargetOf(k) = "none" \/ Down
    <3>1. CASE dial.res = "fail"
      BY <1>0, <1>4, <2>0, <3>1 DEF Reached, Answer, UsersSee, TargetIs
    <3>2. CASE client.ctxDone
      BY <1>0, <3>2 DEF Down
    <3> QED
      BY <1>4, <3>1, <3>2
  <2>9. S!Next
    BY <2>1, <2>6, <2>7, <2>8, TunnelFail
  <2> QED
    BY <2>6, <2>9
<1>5. CASE DialCancel
  BY <1>5 DEF DialCancel, InTurn, DialStatus
<1>6. CASE DialAccept
  <2>0. PICK k \in Session : k = dial.k
    BY <1>0, <1>6 DEF DialAccept, Dialing, Stream
  <2> DEFINE c == NewPipe(client, k)
  <2>1. /\ dial.pc = "accepted" /\ serve["client"][k].pc = "none"
        /\ client.open = {} /\ dial.res = "ok"
    BY <1>0, <1>6, <2>0
    DEF DialAccept, Dialing, Stream, InTurn, Served, ServedPipe, OneStream, PipeOfLastDial, DialStatus
  <2>2. c.open = {k} /\ c.handle = client.handle /\ c.ctxDone = client.ctxDone
    BY <1>0, <2>1 DEF NewPipe, ConnState
  <2>3. client' = c /\ server' = server /\ UNCHANGED <<link, wire, dataVars>>
    BY <1>0, <1>6, <2>0 DEF DialAccept, Becomes, TypeOK
  <2>4. dial'.pc = "idle" /\ dial'.k = k /\ dial'.cancelled = dial.cancelled
    BY <1>0, <1>6, <2>0 DEF DialAccept, Dialing
  <2>5. /\ serve'["server"] = serve["server"]
        /\ \A j \in Session : j # k => serve'["client"][j] = serve["client"][j]
        /\ serve'["client"][k].pc = "start"
    BY <1>0, <1>6, <2>0 DEF DialAccept, TypeOK, Serving
  <2> HIDE DEF c
  <2>6. DialDone(k)
    BY <2>0, <2>1, <2>2, <2>3, <2>4, <2>5 DEF DialDone
  <2>7. /\ Reached' /\ DownSame /\ TargetsSame /\ EndedSame /\ PipesSameBut(k)
        /\ PipeOf(k) = "asked"
    BY <2>4, <2>6, DialDoneKeeps
  <2>8. PipeOf(k)' = "open"
    <3>1. PipeIs(k)' /\ Started("client", k)'
      BY <1>0, <2>1, <2>5 DEF UsersSee, Started
    <3> QED
      BY <2>2, <2>3, <3>1 DEF PipeIs
  <2>9. TargetOf(k) # "none"
    <3>1. TargetIs(k) /\ Started("server", k)
      BY <1>0, <2>0, <2>1 DEF Reached, Answer, UsersSee
    <3> QED
      BY <3>1 DEF TargetIs
  <2>10. S!Next
    BY <2>1, <2>7, <2>8, <2>9, TunnelEstablish
  <2> QED
    BY <2>7, <2>10
<1>7. CASE DialConnDone
  BY <1>4, <1>7 DEF DialConnDone
<1>8. CASE DialResult
  BY <1>3, <1>4, <1>8 DEF DialResult
<1> QED
  BY <1>2, <1>5, <1>6, <1>7, <1>8 DEF Dial

LEMMA DialSendStepOK ==
  ASSUME InTurn, InTurn', Reached, ~Crashed("client"), DialSend
  PROVE  Reached' /\ [S!Next]_S!vars
<1>0. /\ TypeOK /\ TypeOK' /\ client \in ConnState /\ "client" \in End /\ End = {"client", "server"}
      /\ "server" \in End /\ client = conn["client"] /\ server = conn["server"]
      /\ client' = conn'["client"] /\ server' = conn'["server"] /\ UsersSee /\ UsersSee'
      /\ Peer("client") = "server" /\ NamesDial'
  BY UsersSeeIt, UsersSeeNext, NamesDialNext
  DEF InTurn, OneStream, TypeOK, client, server, End, Peer
<1>1. PICK k \in Session : k = dial.k + 1
  BY DEF DialSend
<1> DEFINE c == [client EXCEPT !.onResult = [kind |-> "dial", k |-> k]]
<1>2. /\ dial.pc = "idle" /\ client.status = "Idle" /\ client.open = {}
      /\ UNCHANGED <<link, serve, ended>> /\ ~dial.cancelled
      /\ dial.k \in Nat /\ k \in Nat
  BY <1>0, <1>1
  DEF DialSend, InTurn, OneStream, PipeOfLastDial, DialStatus, dataVars, UsersSee
<1>3. Quiet(wire) /\ server.cur.t # "open"
  BY <1>2, AtRest
<1>4. WireIs(wire, k)
  BY <1>3, QuietTyped DEF InTurn, OneAtATime
<1>5. /\ c \in ConnState /\ c.open = {} /\ c.status = "Idle"
      /\ c.ctxDone = client.ctxDone /\ c.handle = client.handle
  BY <1>0, <1>2 DEF ConnState, Callback
<1>6. PICK pc \in {"sent", "idle"} :
        /\ dial' = [pc |-> pc, k |-> k, res |-> "none", cancelled |-> FALSE]
        /\ \/ pc = "sent" /\ Sent("client", c, wire, OpenCmd(k))
           \/ pc = "idle" /\ SendFails("client", c, wire)
  BY <1>1 DEF DialSend, c
<1> HIDE DEF c
<1>7. dial'.pc = pc /\ dial'.k = k /\ dial'.res = "none" /\ ~dial'.cancelled
  BY <1>6
<1>8. /\ server' = server /\ client'.open = {}
      /\ \A t \in Exchange : On(wire', t) => t = "open"
      /\ pc = "sent" => client'.ctxDone = client.ctxDone /\ client'.handle = client.handle
      /\ pc = "idle" => client'.ctxDone /\ Down
  <2>1. CASE Sent("client", c, wire, OpenCmd(k)) /\ pc = "sent"
    <3>1. OpenCmd(k) \in Frame /\ OpenCmd(k).t = "open" /\ OpenCmd(k).k = k
      BY <1>1, FrameFacts DEF OpenCmd
    <3>2. \A t : On(Put(wire, "client", OpenCmd(k)), t) => On(wire, t) \/ t = "open"
      BY <1>0, <1>3, <1>4, <3>1, PutFacts DEF Allowed
    <3>3. client' = c /\ server' = server
      BY <1>0, <2>1 DEF Sent, Becomes, TypeOK
    <3> QED
      BY <1>3, <1>5, <2>1, <3>2, <3>3 DEF Sent, Quiet
  <2>2. CASE SendFails("client", c, wire) /\ pc = "idle"
    <3>1. /\ Shut(c, conn'["client"]) /\ conn'["server"] = conn["server"] /\ NoMore(wire, wire')
      BY <1>0, <1>4, <1>5, <2>2, CloseFacts DEF SendFails, Closure
    <3>2. client'.open = {} /\ client'.ctxDone
      BY <1>0, <1>5, <3>1 DEF Shut
    <3>3. Down
      BY <1>0, <2>2 DEF SendFails, MayFail, MaySucceed, Down, InTurn, DialStatus
    <3> QED
      BY <1>0, <1>3, <2>2, <3>1, <3>2, <3>3 DEF NoMore, Quiet
  <2> QED
    BY <1>6, <2>1, <2>2
<1>9. DownSame
  <2>1. CASE pc = "sent"
    BY <1>0, <1>2, <1>8, <2>1, DownSameIf
  <2>2. CASE pc = "idle"
    BY <1>0, <1>8, <2>2 DEF DownSame, Down
  <2> QED
    BY <2>1, <2>2
<1>10. TargetsSame /\ EndedSame /\ \A x \in End, j \in Session : Started(x, j)' <=> Started(x, j)
  <2>1. \A j \in Session : TargetIs(j) /\ TargetIs(j)'
    BY <1>0 DEF UsersSee
  <2>2. \A x \in End, j \in Session : Started(x, j)' <=> Started(x, j)
    BY <1>2 DEF Started
  <2> QED
    BY <1>0, <1>2, <1>8, <2>1, <2>2 DEF TargetIs, TargetsSame, EndedSame
<1>11. ~Started("client", k) /\ ~Started("server", k)
  <2>1. ServedPipe(k, serve["client"][k])
    BY DEF InTurn, Served
  <2> QED
    BY <1>1, <1>2, <2>1 DEF ServedPipe, Started, Reached, Answer
<1>12. /\ PipeOf(k) = "none" /\ PipeOf(k)' = IF pc = "sent" THEN "asked" ELSE "failed"
  <2>1. PipeIs(k) /\ PipeIs(k)'
    BY <1>0 DEF UsersSee
  <2>2. ~Started("client", k)' /\ (Asking' <=> pc = "sent")
    BY <1>0, <1>7, <1>10, <1>11 DEF Asking
  <2> QED
    BY <1>1, <1>2, <1>7, <1>11, <2>1, <2>2 DEF PipeIs
<1>13. ASSUME NEW j \in Session, j # k
       PROVE  /\ PipeOf(j)' = PipeOf(j)
              /\ j < k => PipeOf(j) \in {"failed", "abandoned", "closed"}
  <2>1. /\ PipeIs(j) /\ PipeIs(j)' /\ j \in Nat /\ ~Asking
        /\ (Started("client", j)' <=> Started("client", j))
    BY <1>0, <1>2, <1>10 DEF UsersSee, Asking
  <2>2. CASE Started("client", j)
    BY <1>2, <1>8, <2>1, <2>2 DEF PipeIs
  <2>3. CASE ~Started("client", j) /\ j > k
    BY <1>1, <1>2, <1>7, <2>1, <2>3 DEF PipeIs
  <2>4. CASE ~Started("client", j) /\ j < k
    <3>1. j < dial'.k
      BY <1>7, <2>4
    <3>2. PipeOf(j)' = "failed"
      BY <2>1, <2>4, <3>1 DEF PipeIs
    <3>3. CASE j = dial.k
      BY <1>2, <2>1, <2>4, <3>2, <3>3 DEF PipeIs
    <3>4. CASE j < dial.k
      BY <1>2, <2>1, <2>4, <3>2, <3>4 DEF PipeIs
    <3> QED
      BY <1>1, <1>2, <2>1, <2>4, <3>3, <3>4
  <2> QED
    BY <1>2, <1>13, <2>1, <2>2, <2>3, <2>4
<1>14. PipesSameBut(k) /\ \A j \in Session : j < k => PipeOf(j) \in {"failed", "abandoned", "closed"}
  <2>1. \A j \in Session : j < k => j # k
    BY <1>2, SessionFacts
  <2> QED
    BY <1>13, <2>1 DEF PipesSameBut
<1>15. S!Next
  <2>1. CASE pc = "sent"
    BY <1>2, <1>9, <1>10, <1>12, <1>14, <2>1, TunnelAsk
  <2>2. CASE pc = "idle"
    BY <1>2, <1>8, <1>9, <1>10, <1>12, <1>14, <2>2, TunnelFail
  <2> QED
    BY <2>1, <2>2
<1>16. Reached'
  <2>1. \A t \in Exchange : Pending(t)' => t = "open"
    BY <1>3, <1>8 DEF Pending
  <2>2. ~Started("server", k)' /\ \A j \in Session : Started("server", j)' => j <= k
    <3>1. ASSUME NEW j \in Session, Started("server", j)'
          PROVE  j <= k
      <4>1. j <= dial.k /\ j \in Nat
        BY <1>0, <1>10, <3>1, SessionFacts DEF Reached, Answer
      <4> QED
        BY <1>1, <1>2, <4>1
    <3> QED
      BY <1>0, <1>10, <1>11, <3>1
  <2>3. Answer'
    BY <1>7, <2>1, <2>2 DEF Answer, Exchange, Answers
  <2>4. \A j \in Session : Closes(serve["server"][j])'
    BY <1>2, <1>8 DEF Reached, Closes, Started
  <2> QED
    BY <1>2, <1>8, <2>3, <2>4 DEF Reached, Started
<1> QED
  BY <1>15, <1>16

-----------------------------------------------------------------------------
(* The environment.                                                        *)
LEMMA EnvironmentStepOK ==
  ASSUME InTurn, InTurn', Reached, "cancel" \notin Env,
         \/ ~Crashed("client") /\ (CtxCancel \/ ParentCancel \/ \E k \in Session : UserClose(k))
         \/ Break \/ UNCHANGED vars \/ \E k \in Session : TargetEnd(k)
  PROVE  Reached' /\ [S!Next]_S!vars
<1>0. /\ TypeOK /\ TypeOK' /\ client \in ConnState /\ server \in ConnState /\ "client" \in End
      /\ "server" \in End /\ client = conn["client"] /\ server = conn["server"]
      /\ client' = conn'["client"] /\ server' = conn'["server"] /\ NoMore(wire, wire)
      /\ UsersSee /\ UsersSee' /\ server.open \subseteq {server.streamConn}
  BY UsersSeeIt, UsersSeeNext
  DEF InTurn, OneStream, TypeOK, client, server, End, NoMore, EndSound
<1>1. CASE CtxCancel
  BY <1>1 DEF CtxCancel
<1>2. ASSUME NEW d \in ConnState, Becomes("client", d), ~Crashed("client"),
             UNCHANGED <<link, wire, dial, serve, dataVars>>,
             d.open \subseteq client.open, d.streamConn = client.streamConn,
             client.ctxDone => d.ctxDone
      PROVE  Reached' /\ [S!Next]_S!vars
  <2>1. client' = d /\ server' = server
    BY <1>0, <1>2 DEF Becomes, TypeOK
  <2>2. FramesKept
    BY <1>0, <1>2, <2>1, PendingShrinks
  <2>3. Subdued("client")
    BY <1>0, <1>2, <2>1 DEF Subdued, Modest, dataVars, Started, End
  <2>4. Effect("client")
    BY <1>2, <2>2, <2>3 DEF Effect, Reached, ResultKept
  <2> QED
    BY <1>0, <1>2, <2>4, EffectOK
<1>3. CASE ParentCancel /\ ~Crashed("client")
  <2> DEFINE d == [client EXCEPT !.ctxDone = TRUE]
  <2>1. d \in ConnState /\ d.open = client.open /\ d.streamConn = client.streamConn /\ d.ctxDone
    BY <1>0 DEF ConnState
  <2>2. Becomes("client", d) /\ UNCHANGED <<link, wire, dial, serve, dataVars>>
    BY <1>3 DEF ParentCancel
  <2> HIDE DEF d
  <2> QED
    BY <1>2, <1>3, <2>1, <2>2
<1>4. ASSUME NEW k \in Session, UserClose(k), ~Crashed("client")
      PROVE  Reached' /\ [S!Next]_S!vars
  <2> DEFINE d == [client EXCEPT !.open = @ \ {k}]
  <2>1. /\ d \in ConnState /\ d.open \subseteq client.open
        /\ d.streamConn = client.streamConn /\ d.ctxDone = client.ctxDone
    BY <1>0 DEF ConnState
  <2>2. Becomes("client", d) /\ UNCHANGED <<link, wire, dial, serve, dataVars>>
    BY <1>4 DEF UserClose
  <2> HIDE DEF d
  <2> QED
    BY <1>2, <1>4, <2>1, <2>2
<1>5. ASSUME UNCHANGED <<conn, wire, dial, serve>>, link' => link,
             \A k \in Session : ended[k] # "no" => ended'[k] # "no"
      PROVE  Reached' /\ PipesSame /\ TargetsSame
  <2>1. client' = client /\ server' = server
    BY <1>0, <1>5
  <2>2. FramesKept /\ ResultKept
    BY <1>0, <1>5, <2>1, PendingShrinks DEF ResultKept
  <2>3. \A k \in Session : Closes(serve'["server"][k])
    BY <1>5 DEF Reached
  <2>4. Reached'
    BY <1>5, <2>1, <2>2, <2>3, ReachedKept DEF Started
  <2>5. PipesSame /\ TargetsSame
    BY <1>5, <2>1 DEF PipesSame, TargetsSame, PipeOf, TargetOf
  <2> QED
    BY <2>4, <2>5
<1>6. CASE UNCHANGED vars
  <2>1. PipesSame /\ TargetsSame /\ EndedSame /\ (Down' <=> Down)
    BY <1>5, <1>6 DEF vars, dataVars, EndedSame, Down, Crashed
  <2> QED
    BY <1>5, <1>6, <2>1, TunnelStutter DEF vars, dataVars
<1>7. CASE Break
  <2>1. PipesSame /\ TargetsSame /\ EndedSame /\ Down' /\ Reached'
    BY <1>5, <1>7 DEF Break, dataVars, EndedSame, Down
  <2> QED
    BY <2>1, TunnelDown
<1>8. ASSUME NEW k \in Session, TargetEnd(k)
      PROVE  Reached' /\ [S!Next]_S!vars
  <2>1. /\ k \in server.open /\ ended'[k] # "no"
        /\ \A j \in Session : j # k => ended'[j] = ended[j]
        /\ UNCHANGED <<conn, link, wire, dial, serve>>
    BY <1>0, <1>8 DEF TargetEnd, TypeOK
  <2>2. DownSame
    BY <2>1, DownSameIf
  <2>3. PipesSame /\ TargetsSame /\ Reached'
    BY <1>5, <2>1
  <2>4. TargetOf(k) = "open"
    <3>1. TargetIs(k) /\ Started("server", k)
      BY <1>0, <2>1, SessionFacts DEF UsersSee, Reached
    <3> QED
      BY <2>1, <3>1 DEF TargetIs
  <2>5. S!Next
    BY <2>1, <2>2, <2>3, <2>4, TunnelTargetEnds
  <2> QED
    BY <2>3, <2>5
<1> QED
  BY <1>1, <1>3, <1>4, <1>6, <1>7, <1>8

-----------------------------------------------------------------------------
LEMMA ReachedInit == Init => Reached
<1> SUFFICES ASSUME Init PROVE Reached
  OBVIOUS
<1>1. /\ \A k \in Session : ~Started("server", k) /\ serve["server"][k].conn = None
                            /\ serve["server"][k].pc = "none"
      /\ dial.pc = "idle" /\ server.streamConn = None
      /\ server.cur = NoFrame /\ \A e \in End : wire[e] = <<>>
  BY DEF Init, Started, server, End
<1>2. \A t : ~Pending(t)
  <2>1. \A e \in End : Len(wire[e]) = 0
    BY <1>1
  <2> QED
    BY <1>1, <2>1 DEF Pending, On, NoFrame
<1>3. Answer
  BY <1>1, <1>2 DEF Answer
<1>4. \A k \in Session : Closes(serve["server"][k])
  BY <1>1 DEF Closes, Leaving
<1> QED
  BY <1>1, <1>3, <1>4 DEF Reached

LEMMA TunnelInit == Init => S!Init
<1> SUFFICES ASSUME Init PROVE S!Init
  OBVIOUS
<1>1. /\ \A e \in End, k \in Session : serve[e][k].pc = "none"
      /\ "client" \in End /\ "server" \in End
      /\ dial.k = 0 /\ link /\ \A e \in End : ~conn[e].ctxDone /\ conn[e].handle = "run"
      /\ \A k \in Session : k \in Nat /\ k > 0 /\ ended[k] = "no"
  BY BoundsAssumption DEF Init, End, None, Session
<1>2. UsersSee
  BY TypeInit, UsersSeeIt
<1>3. ASSUME NEW k \in Session
      PROVE  PipeOf(k) = "none" /\ TargetOf(k) = "none"
  <2>1. PipeIs(k) /\ TargetIs(k) /\ ~Started("client", k) /\ ~Started("server", k) /\ k > dial.k
    BY <1>1, <1>2 DEF UsersSee, Started
  <2> QED
    BY <2>1 DEF PipeIs, TargetIs
<1>4. ~Down
  BY <1>1 DEF Down, Crashed
<1>5. sent = [e \in End |-> [k \in Session |-> 0]] /\ got = [e \in End |-> [k \in Session |-> <<>>]]
  BY DEF Init
<1> QED
  BY <1>1, <1>3, <1>4, <1>5 DEF S!Init, S!End, End, Down

LEMMA TunnelStep ==
  ASSUME "cancel" \notin Env, InTurn, InTurn', Reached, [Next /\ ~CopyErr("client")]_vars
  PROVE  Reached' /\ [S!Next]_S!vars
<1>1. ASSUME NEW e \in End, Step(e), ~CopyErr("client")
      PROVE  Reached' /\ [S!Next]_S!vars
  <2>1. CASE e = "client"
    <3>1. Effect("client") /\ ~Crashed("client") /\ "client" \in End
      BY <1>1, <2>1, HandleClientEffect, PingEffect, CloseEffect, ServePipeEffect DEF Step
    <3> QED
      BY <3>1, EffectOK
  <2>2. CASE e = "server"
    <3>1. (Effect("server") \/ Connects) /\ ~Crashed("server") /\ "server" \in End
      BY <1>1, <2>2, HandleServerEffect, PingEffect, CloseEffect, ServeTargetEffect DEF Step
    <3> QED
      BY <3>1, EffectOK, ConnectOK
  <2> QED
    BY <2>1, <2>2 DEF End
<1>2. CASE ClientStep
  BY <1>2, DialSendStepOK, DialStepOK, EnvironmentStepOK DEF ClientStep
<1>3. CASE UNCHANGED vars \/ Break \/ \E k \in Session : TargetEnd(k)
  BY <1>3, EnvironmentStepOK
<1> QED
  BY <1>1, <1>2, <1>3 DEF Next

(* However often a Conn is used and whatever its streams carry, its users  *)
(* see the sessions of a Tunnel: every DialContext gives a pipe to a       *)
(* connection with its own target or an error, no connection of a target   *)
(* is given up without a reason or left beside the one of a later dial;    *)
(* under the conditions of PipeMeetsItsTarget, until a chunk comes late.   *)
THEOREM ConnImplementsTunnel ==
  ASSUME "cancel" \notin Env, "targetEOF" \notin Env
  PROVE  TimelySpec => SessionsAreTunnel
<1>1. Init => InTurn /\ Reached
  BY InTurnInit, ReachedInit
<1>2. InTurn /\ Reached /\ [Next /\ ~CopyErr("client")]_vars => InTurn' /\ Reached'
  BY InTurnStep, TunnelStep
<1>3. InTurn /\ Reached /\ InTurn' /\ [Next /\ ~CopyErr("client")]_vars => [S!Next]_S!vars
  BY TunnelStep
<1>4. TimelySpec => S!Safety
  BY <1>1, <1>2, <1>3, TunnelInit, PTL DEF TimelySpec, S!Safety
<1> QED
  BY <1>4 DEF SessionsAreTunnel

-----------------------------------------------------------------------------
(* The first stream of a Conn, with chunks and however it ends.            *)

(* A step that touches no chunk is a step of the whole Tunnel if it is one *)
(* of the sessions.                                                        *)
LEMMA ChunksRest ==
  ASSUME UNCHANGED <<sent, got>>
  PROVE  /\ S!Next => T!Next
         /\ UNCHANGED S!vars => UNCHANGED T!vars
<1>1. ASSUME NEW k \in Session,
             \/ S!Ask(k) \/ S!Connect(k) \/ S!Establish(k) \/ S!Fail(k) \/ S!Abandon(k)
             \/ S!ClosePipe(k) \/ S!Release(k) \/ S!TargetEnds(k)
      PROVE  \/ T!Ask(k) \/ T!Connect(k) \/ T!Establish(k) \/ T!Fail(k) \/ T!Abandon(k)
             \/ T!ClosePipe(k) \/ T!Release(k) \/ T!TargetEnds(k)
  BY <1>1 DEF S!Becomes, T!Becomes, S!Ask, T!Ask, S!Connect, T!Connect, S!Establish,
     T!Establish, S!Fail, T!Fail, S!Abandon, T!Abandon, S!ClosePipe, T!ClosePipe,
     S!Release, T!Release, S!TargetEnds, T!TargetEnds
<1>2. S!GoDown => T!GoDown
  BY DEF S!GoDown, T!GoDown, S!Becomes, T!Becomes
<1>3. ASSUME NEW k \in Session, NEW e \in S!End
      PROVE  ~S!Produce(e, k) /\ ~S!Deliver(e, k)
  <2>1. S!End = End /\ S!Peer(e) \in End
    BY DEF S!End, S!Peer, End
  <2>2. ~S!Produce(e, k)
    BY <2>1 DEF S!Produce
  <2>3. ~S!Deliver(e, k)
    BY <2>1 DEF S!Deliver
  <2> QED
    BY <2>2, <2>3
<1>4. S!Next => T!Next
  BY <1>1, <1>2, <1>3 DEF S!Next, T!Next
<1> QED
  BY <1>4 DEF S!vars, T!vars

LEMMA ChunksInit == Init => T!Init
BY TunnelInit DEF Init, S!Init, T!Init, T!End, End

(* The server was asked and made no connection; the pipe has been closed;  *)
(* a serveStream that will send X; one of the server that has seen the end *)
(* of its stream, or could not write.                                      *)
Refused == ~Unopened /\ ~Started("server", 1)
PipeClosed == Started("client", 1) /\ 1 \notin client.open
Closing == {"eof", "setResult", "sendClose"}
Ending == Closing \cup {"fail", "wait", "sendErr", "return"}

(* A websocket is closed when the context is done; only serveStream, once  *)
(* started, has an open stream; the server never has a pipe for E.         *)
Upright ==
  /\ \A e \in End : /\ conn[e].wsOpen \/ conn[e].ctxDone
                    /\ \A k \in conn[e].open : Started(e, k)
  /\ server.onCmdErr = None

(* What the server has answered is true, and DialContext gives up only     *)
(* when it was told, or cancelled, or the Conn is done.                    *)
Told ==
  /\ Has(wire["client"], "replyFalse") => Refused
  /\ Has(wire["client"], "replyTrue") => Started("server", 1)
  /\ dial.res = "fail" => Refused \/ Started("client", 1)
  /\ dial.res = "ok" => Started("server", 1)
  /\ dial.pc = "accepted" => Started("server", 1)
  /\ (dial.k = 1 /\ ~Asking /\ ~dial.cancelled /\ ~Started("client", 1) /\ Unopened) => Down

(* An X and its answer mean that the pipe is closed, and a serveStream of  *)
(* the server ends with a reason.                                          *)
Reasons ==
  /\ Has(wire["server"], "close") \/ Has(wire["client"], "reply") => PipeClosed
  /\ serve["client"][1].pc \in Closing => 1 \notin client.open
  /\ (serve["server"][1].pc \in Ending /\ 1 \in server.open) => ended[1] # "no" \/ Down

FirstTunnel == Upright /\ Told /\ Reasons

-----------------------------------------------------------------------------
(* What most steps of an end e do: to its Conn, from which a connection    *)
(* goes only for a reason, to the wires, to the goroutines and the dial.   *)

Soft(e, c) ==
  /\ c.open \subseteq conn[e].open
  /\ c.wsOpen \/ c.ctxDone
  /\ c.onCmdErr \in {conn[e].onCmdErr, None}
  /\ conn[e].ctxDone => c.ctxDone
  /\ c.cur.t = "open" => conn[e].cur.t = "open" \/ Has(wire[e], "open")
  /\ e = "server" => \A k \in server.open \ c.open :
       c.ctxDone \/ Down \/ ended[k] # "no" \/ PipeOf(k) = "closed"
SoftConn(e) == Soft(e, conn'[e]) /\ \A x \in End : x # e => conn'[x] = conn[x]

(* A wire with no frame that is not there; one to which e has sent a t, or *)
(* the end of the websocket.                                               *)
Kinds == Command \cup {"open", "data"}
Less(w) ==
  /\ w \in [End -> Seq(Frame)]
  /\ \A x \in End, u \in Kinds : Has(w[x], u) => Has(wire[x], u)
Adds(e, t) ==
  \A x \in End, u \in Kinds :
    Has(wire'[x], u) =>
      \/ Has(wire[x], u)
      \/ x = Peer(e) /\ u \in {t, "normalClosure", "internalError"}

LEMMA SoftSelf ==
  ASSUME TypeOK, Upright, NEW e \in End
  PROVE  Soft(e, conn[e]) /\ conn[e] \in ConnState /\ Less(wire)
BY DEF Soft, Upright, server, TypeOK, Less

LEMMA ReceivedLess ==
  ASSUME TypeOK, NEW e \in End, wire[e] # <<>>
  PROVE  Less(Received(e)) /\ Has(wire[e], Head(wire[e]).t)
<1>1. wire[e] \in Seq(Frame) /\ Received(e) \in [End -> Seq(Frame)]
  BY ReceivedType DEF TypeOK
<1>2. \A x \in End : \A u : Has(Received(e)[x], u) => Has(wire[x], u)
  BY <1>1, ReceivedEnds, TailFrames
<1>3. Has(wire[e], Head(wire[e]).t)
  BY <1>1, TailFrames
<1> QED
  BY <1>1, <1>2, <1>3 DEF Less

LEMMA PutMore ==
  ASSUME NEW w, Less(w), NEW e \in End, NEW f \in Frame, NEW x \in End,
         NEW u \in Kinds, Has(Put(w, e, f)[x], u)
  PROVE  Has(wire[x], u) \/ (x = Peer(e) /\ u = f.t)
<1>1. w[x] \in Seq(Frame)
  BY DEF Less
<1>2. Put(w, e, f)[x] = w[x] \/ (x = Peer(e) /\ Put(w, e, f)[x] = Append(w[x], f))
  BY EndFacts DEF Put, Less
<1>3. Has(w[x], u) \/ (x = Peer(e) /\ u = f.t)
  BY <1>1, <1>2, AppendFrames
<1> QED
  BY <1>3 DEF Less

LEMMA BecomesSoft ==
  ASSUME TypeOK, NEW e \in End, NEW c, Soft(e, c), Becomes(e, c)
  PROVE  SoftConn(e) /\ conn'[e] = c
BY DEF Becomes, TypeOK, SoftConn

LEMMA ShutSoft ==
  ASSUME TypeOK, NEW e \in End, NEW c \in ConnState, Soft(e, c), NEW w, Less(w),
         NEW code \in {"normalClosure", "internalError"}, closeWithCode(e, c, w, code), NEW t
  PROVE  SoftConn(e) /\ Adds(e, t) /\ conn'[e].cur = c.cur
<1> DEFINE d == [CloseStream(c) EXCEPT
                   !.status = "Closed", !.wsOpen = FALSE, !.ctxDone = TRUE]
<1>1. Soft(e, d) /\ d.cur = c.cur
  BY DEF Soft, CloseStream, ConnState
<1>2. Becomes(e, c) \/ Becomes(e, d)
  BY DEF closeWithCode
<1>3. wire' = w \/ wire' = Put(w, e, Cmd(code))
  BY DEF closeWithCode
<1> HIDE DEF d
<1>4. SoftConn(e) /\ conn'[e].cur = c.cur
  BY <1>1, <1>2, BecomesSoft
<1>5. Cmd(code) \in Frame /\ Cmd(code).t = code
  BY FrameFacts DEF Cmd, Command
<1>6. ASSUME NEW x \in End, NEW u \in Kinds, Has(wire'[x], u)
      PROVE  Has(wire[x], u) \/ (x = Peer(e) /\ u = code)
  <2>1. CASE wire' = w
    BY <1>6, <2>1 DEF Less
  <2>2. CASE wire' = Put(w, e, Cmd(code))
    BY <1>5, <1>6, <2>2, PutMore
  <2> QED
    BY <1>3, <2>1, <2>2
<1>7. Adds(e, t)
  BY <1>6 DEF Adds
<1> QED
  BY <1>4, <1>7

LEMMA WriteSoft ==
  ASSUME TypeOK, NEW e \in End, NEW c \in ConnState, Soft(e, c), NEW w, Less(w),
         NEW f \in Frame, Sent(e, c, w, f) \/ SendFails(e, c, w)
  PROVE  SoftConn(e) /\ Adds(e, f.t) /\ conn'[e].cur = c.cur
<1>1. CASE Sent(e, c, w, f)
  <2>1. Becomes(e, c) /\ wire' = Put(w, e, f)
    BY <1>1 DEF Sent
  <2>2. Adds(e, f.t)
    BY <2>1, PutMore DEF Adds
  <2> QED
    BY <2>1, <2>2, BecomesSoft
<1>2. CASE SendFails(e, c, w)
  BY <1>2, ShutSoft DEF SendFails
<1> QED
  BY <1>1, <1>2

LEMMA AnswerSoft ==
  ASSUME TypeOK, NEW e \in End, NEW c \in ConnState, Soft(e, c), NEW w, Less(w),
         NEW t \in Command, Answered(e, c, w, t) \/ AnswerFails(e, c, w)
  PROVE  SoftConn(e) /\ Adds(e, t) /\ conn'[e].cur = NoFrame
<1> DEFINE a == [c EXCEPT !.cur = NoFrame]
           b == [c EXCEPT !.cur = NoFrame, !.handle = "returned"]
<1>1. a \in ConnState /\ Soft(e, a) /\ b \in ConnState /\ Soft(e, b)
      /\ a.cur = NoFrame /\ b.cur = NoFrame
  BY DEF ConnState, Soft, NoFrame
<1>2. Sent(e, a, w, Cmd(t)) \/ SendFails(e, b, w)
  BY DEF Answered, AnswerFails
<1>3. Cmd(t) \in Frame /\ Cmd(t).t = t
  BY FrameFacts DEF Cmd
<1> HIDE DEF a, b
<1>4. CASE Sent(e, a, w, Cmd(t))
  BY <1>1, <1>3, <1>4, WriteSoft
<1>5. CASE SendFails(e, b, w)
  BY <1>1, <1>5, ShutSoft DEF SendFails
<1> QED
  BY <1>2, <1>4, <1>5

(* The frames that say something of the dial are true; serveStream of e    *)
(* ends for a reason; DialContext goes on waiting.                         *)
Signals ==
  /\ Has(wire'["client"], "replyFalse") => Has(wire["client"], "replyFalse") \/ Refused'
  /\ Has(wire'["client"], "replyTrue") => Has(wire["client"], "replyTrue")
  /\ Has(wire'["client"], "reply") => Has(wire["client"], "reply") \/ Has(wire["server"], "close")
  /\ Has(wire'["server"], "close") => Has(wire["server"], "close") \/ PipeClosed
  /\ Has(wire'["server"], "open") => Has(wire["server"], "open")
Serves(e) ==
  /\ \A x \in End, k \in Session : x # e => serve'[x][k] = serve[x][k]
  /\ \A k \in Session : Started(e, k)' <=> Started(e, k)
  /\ e = "client" /\ serve'[e][1].pc \in Closing =>
       serve[e][1].pc \in Closing \/ 1 \notin client.open
  /\ e = "server" /\ serve'[e][1].pc \in Ending =>
       serve[e][1].pc \in Ending \/ 1 \notin server.open \/ ended[1] # "no" \/ Down
Waits ==
  /\ dial'.k = dial.k /\ (dial'.pc = dial.pc \/ (Asking /\ Asking'))
  /\ dial'.cancelled = dial.cancelled \/ Asking'
  /\ dial'.pc = "accepted" => dial.pc = "accepted" \/ dial.res = "ok"
  /\ dial'.res = "fail" => \/ dial.res = "fail" \/ Has(wire["client"], "replyFalse")
                           \/ Has(wire["client"], "reply")
  /\ dial'.res = "ok" => dial.res = "ok" \/ Has(wire["client"], "replyTrue")

Gentle(e) ==
  SoftConn(e) /\ Signals /\ Serves(e) /\ Waits /\ UNCHANGED <<link, ended>>

(* The invariant of the first stream.                                      *)
First == TypeOK /\ Intact /\ FirstTunnel

LEMMA FirstFacts ==
  ASSUME First
  PROVE  /\ 1 \in Session /\ "client" \in End /\ "server" \in End /\ End = {"client", "server"}
         /\ TypeOK /\ Intact /\ Upright /\ Told /\ Reasons
         /\ client = conn["client"] /\ server = conn["server"]
         /\ client \in ConnState /\ server \in ConnState
         /\ \A e \in End, k \in Session : Started(e, k) => k = 1
         /\ client.open \subseteq {1} /\ server.open \subseteq {1}
<1>1. /\ 1 \in Session /\ "client" \in End /\ "server" \in End /\ End = {"client", "server"}
      /\ TypeOK /\ Intact /\ Upright /\ Told /\ Reasons
      /\ client = conn["client"] /\ server = conn["server"]
      /\ client \in ConnState /\ server \in ConnState
  BY DEF First, Intact, FirstOnly, FirstTunnel, End, client, server, TypeOK
<1>2. \A e \in End, k \in Session : Started(e, k) => k = 1
  BY <1>1 DEF Intact, FirstOnly, Started
<1>3. client.open \subseteq Session /\ server.open \subseteq Session
  BY <1>1 DEF ConnState
<1> QED
  BY <1>1, <1>2, <1>3 DEF Upright

LEMMA GentleFacts ==
  ASSUME First, NEW e \in End, ~Crashed(e), Gentle(e)
  PROVE  /\ \A x \in End, k \in Session : Started(x, k)' <=> Started(x, k)
         /\ \A x \in End : conn'[x].open \subseteq conn[x].open
         /\ Unopened' => Unopened
         /\ Down => Down'
         /\ PipeClosed => PipeClosed'
         /\ Refused => Refused'
         /\ Asking' <=> Asking
<1>0. 1 \in Session /\ "client" \in End /\ "server" \in End
  BY FirstFacts
<1>1. \A x \in End, k \in Session : Started(x, k)' <=> Started(x, k)
  BY DEF Gentle, Serves, Started
<1>2. /\ \A x \in End : conn'[x].open \subseteq conn[x].open
      /\ \A x \in End : conn'[x].cur.t = "open" =>
           conn[x].cur.t = "open" \/ Has(wire[x], "open")
  BY DEF Gentle, SoftConn, Soft
<1>3. Unopened' => Unopened
  BY <1>0, <1>2 DEF Gentle, Signals, Waits, Unopened
<1>4. Down => Down'
  BY DownStays DEF Gentle, SoftConn, Soft, Serves
<1> QED
  BY <1>0, <1>1, <1>2, <1>3, <1>4 DEF PipeClosed, Refused, client, Asking, Gentle, Waits

LEMMA GentleKeeps ==
  ASSUME First, NEW e \in End, ~Crashed(e), Gentle(e)
  PROVE  FirstTunnel'
<1>0. /\ 1 \in Session /\ "client" \in End /\ "server" \in End /\ End = {"client", "server"}
      /\ Upright /\ Told /\ Reasons /\ client = conn["client"] /\ server = conn["server"]
      /\ client' = conn'["client"] /\ server' = conn'["server"]
  BY FirstFacts DEF client, server
<1>1. /\ \A x \in End, k \in Session : Started(x, k)' <=> Started(x, k)
      /\ \A x \in End : conn'[x].open \subseteq conn[x].open
      /\ Unopened' => Unopened
      /\ Down => Down'
      /\ PipeClosed => PipeClosed'
      /\ Refused => Refused'
      /\ Asking' <=> Asking
  BY GentleFacts
<1>2. \A x \in End : conn'[x].open \subseteq Session
  BY <1>0, <1>1 DEF First, TypeOK, ConnState
<1>3. Upright'
  <2>1. \A x \in End : conn'[x].wsOpen \/ conn'[x].ctxDone
    BY <1>0 DEF Upright, Gentle, SoftConn, Soft
  <2>2. \A x \in End : \A k \in conn'[x].open : Started(x, k)'
    BY <1>0, <1>1, <1>2 DEF Upright
  <2>3. server'.onCmdErr = None
    BY <1>0 DEF Upright, Gentle, SoftConn, Soft
  <2> QED
    BY <2>1, <2>2, <2>3 DEF Upright
<1>4. Told'
  <2>1. Has(wire'["client"], "replyFalse") => Refused'
    BY <1>0, <1>1 DEF Told, Gentle, Signals
  <2>2. Has(wire'["client"], "replyTrue") => Started("server", 1)'
    BY <1>0, <1>1 DEF Told, Gentle, Signals
  <2>3. dial'.res = "fail" => Refused' \/ Started("client", 1)'
    BY <1>0, <1>1 DEF Told, Reasons, PipeClosed, Gentle, Waits
  <2>4. (dial'.res = "ok" \/ dial'.pc = "accepted") => Started("server", 1)'
    BY <1>0, <1>1 DEF Told, Gentle, Waits
  <2>5. (dial'.k = 1 /\ ~Asking' /\ ~dial'.cancelled /\ ~Started("client", 1)' /\ Unopened')
          => Down'
    BY <1>0, <1>1 DEF Told, Gentle, Waits
  <2> QED
    BY <2>1, <2>2, <2>3, <2>4, <2>5 DEF Told
<1>5. Reasons'
  <2>1. Has(wire'["server"], "close") \/ Has(wire'["client"], "reply") => PipeClosed'
    BY <1>0, <1>1 DEF Reasons, Gentle, Signals
  <2>2. serve'["client"][1].pc \in Closing => 1 \notin client'.open
    BY <1>0, <1>1 DEF Reasons, Gentle, Serves
  <2>3. (serve'["server"][1].pc \in Ending /\ 1 \in server'.open) => ended'[1] # "no" \/ Down'
    BY <1>0, <1>1 DEF Reasons, Gentle, Serves
  <2> QED
    BY <2>1, <2>2, <2>3 DEF Reasons
<1> QED
  BY <1>3, <1>4, <1>5 DEF FirstTunnel

(* And for the users of the Conn they are steps of the Tunnel.             *)
LEMMA GentleSimulates ==
  ASSUME First, TypeOK', NEW e \in End, ~Crashed(e), Gentle(e), UNCHANGED <<sent, got>>
  PROVE  [T!Next]_T!vars
<1>0. /\ TypeOK /\ client.open \subseteq {1} /\ server.open \subseteq {1}
      /\ e \in {"client", "server"} /\ server' = conn'["server"]
  BY FirstFacts DEF server
<1>1. Modest(e)
  BY DEF Modest, Gentle, SoftConn, Soft, Serves, Waits, Asking, dataVars
<1>2. e = "server" => HasReason
  <2>1. conn'[e].ctxDone \/ Down => Down'
    BY GentleFacts DEF Down
  <2> QED
    BY <1>0, <2>1 DEF HasReason, Gentle, SoftConn, Soft
<1> QED
  BY <1>0, <1>1, <1>2, ChunksRest, ClientSimulates, ServerSimulates

-----------------------------------------------------------------------------
(* The steps that are gentle.                                              *)

LEMMA AddsSignals ==
  ASSUME First, NEW e \in End, NEW t, Adds(e, t), t \notin {"open", "replyTrue"},
         t = "replyFalse" => Refused',
         t = "reply" /\ e = "server" => Has(wire["server"], "close"),
         t = "close" /\ e = "client" => PipeClosed
  PROVE  Signals
<1>1. /\ "client" \in End /\ "server" \in End /\ Peer("client") = "server"
      /\ Peer("server") = "client" /\ e \in {"client", "server"}
  BY DEF Peer, End
<1>2. {"replyFalse", "replyTrue", "reply", "close", "open"} \subseteq Kinds
  BY DEF Kinds, Command
<1> QED
  BY <1>1, <1>2 DEF Signals, Adds

LEMMA LessSignals ==
  ASSUME First, NEW e \in End, Less(wire')
  PROVE  Signals
<1>1. Adds(e, "error")
  BY DEF Adds, Less
<1> QED
  BY <1>1, AddsSignals

LEMMA Rests ==
  ASSUME NEW e \in End
  PROVE  /\ serve' = serve => Serves(e)
         /\ dial' = dial => Waits
BY DEF Serves, Waits, Started, Asking

(* serveStream goes on and notes a stream.                                 *)
LEMMA ServeNotesConn ==
  ASSUME TypeOK, NEW e \in End, NEW k \in Session, ServeStart(e, k)
  PROVE  /\ serve'[e][k].pc = "check"
         /\ \A x \in End, j \in Session : <<x, j>> # <<e, k>> => serve'[x][j] = serve[x][j]
BY DEF ServeStart, TypeOK, Serving

(* It goes on and notes the number of a chunk.                             *)
LEMMA ServeNotesChunk ==
  ASSUME TypeOK, NEW e \in End, NEW k \in Session, ServeReadData(e, k)
  PROVE  /\ serve'[e][k].pc = "write"
         /\ \A x \in End, j \in Session : <<x, j>> # <<e, k>> => serve'[x][j] = serve[x][j]
BY DEF ServeReadData, TypeOK, Serving

LEMMA GotoStarts ==
  ASSUME First, NEW e \in End, NEW k \in Session, NEW q, Goto(e, k, q),
         serve[e][k].pc # "none", q # "none",
         e = "client" /\ q \in Closing =>
           serve[e][k].pc \in Closing \/ serve[e][k].conn \notin client.open,
         e = "server" /\ q \in Ending =>
           \/ serve[e][k].pc \in Ending \/ serve[e][k].conn \notin server.open
           \/ ended[1] # "no" \/ Down,
         serve[e][k].conn # None
  PROVE  Serves(e) /\ k = 1 /\ serve[e][1].conn = 1
<1>1. k = 1 /\ TypeOK /\ e \in {"client", "server"} /\ serve[e][k].conn = 1
  BY FirstFacts DEF Started, Intact, FirstOnly
<1>2. /\ serve'[e][k].pc = q
      /\ \A x \in End, j \in Session : <<x, j>> # <<e, k>> => serve'[x][j] = serve[x][j]
  <2>1. TypeOK /\ Goto(e, k, q)
    BY <1>1
  <2> QED
    BY <2>1, GotoFacts
<1>3. /\ serve'[e][1].pc = q
      /\ \A x \in End, j \in Session : <<x, j>> # <<e, 1>> => serve'[x][j] = serve[x][j]
  BY <1>1, <1>2
<1> QED
  BY <1>1, <1>3 DEF Serves, Started

LEMMA FailsDown ==
  ASSUME First, NEW e \in End, MayFail(e)
  PROVE  Down
<1>1. conn[e].wsOpen \/ conn[e].ctxDone
  BY FirstFacts DEF Upright
<1> QED
  BY <1>1 DEF MayFail, MaySucceed, Down

LEMMA ClosedPipe ==
  ASSUME First, PipeClosed
  PROVE  PipeOf(1) = "closed"
<1>1. PipeIs(1)
  BY FirstFacts, UsersSeeIt DEF UsersSee
<1> QED
  BY <1>1 DEF PipeIs, PipeClosed

LEMMA HandleGentle ==
  ASSUME First, NEW e \in End,
         \/ HandleClose(e) \/ HandleOpen(e) \/ DialTargetErr(e) \/ HandleReply(e)
         \/ HandleError(e) \/ HandleData(e)
  PROVE  Gentle(e)
<1>0. /\ TypeOK /\ Upright /\ Reasons /\ Intact /\ conn[e] \in ConnState /\ Soft(e, conn[e])
      /\ Less(wire) /\ server = conn["server"] /\ client = conn["client"]
      /\ server.open \subseteq {1} /\ e \in {"client", "server"} /\ 1 \in Session
      /\ "server" \in End /\ "client" \in End
  BY FirstFacts, SoftSelf
<1>1. ASSUME NEW t, Incoming(e, t)
      PROVE  Less(Received(e)) /\ Has(wire[e], t) /\ wire[e] # <<>> /\ Head(wire[e]).t = t
  BY <1>0, <1>1, ReceivedLess DEF Incoming, AtHead
<1>2. CASE HandleClose(e)
  <2> DEFINE i == [conn[e] EXCEPT !.status = "Idle"]
             c == CloseStream(i)
  <2>1. Less(Received(e)) /\ Has(wire[e], "close") /\ UNCHANGED <<link, dial, serve, ended>>
        /\ (Answered(e, c, Received(e), "reply") \/ AnswerFails(e, c, Received(e)))
    BY <1>1, <1>2 DEF HandleClose, dataVars
  <2>2. c \in ConnState
    <3>1. i \in ConnState
      BY <1>0 DEF ConnState, Status
    <3> QED
      BY <3>1, CloseStreamType
  <2>3. e = "server" => \A k \in server.open : PipeOf(k) = "closed"
    BY <1>0, <2>1, ClosedPipe DEF Reasons
  <2>4. Soft(e, c)
    <3>1. /\ c.open \subseteq conn[e].open /\ c.wsOpen = conn[e].wsOpen
          /\ c.ctxDone = conn[e].ctxDone /\ c.onCmdErr = conn[e].onCmdErr
          /\ c.cur = conn[e].cur
      BY <1>0 DEF CloseStream, ConnState
    <3> HIDE DEF c
    <3> QED
      BY <1>0, <2>3, <3>1 DEF Soft
  <2> HIDE DEF c
  <2>5. SoftConn(e) /\ Adds(e, "reply")
    BY <1>0, <2>1, <2>2, <2>4, AnswerSoft DEF Command
  <2>6. Signals
    BY <2>1, <2>5, AddsSignals
  <2> QED
    BY <2>1, <2>5, <2>6, Rests DEF Gentle
<1>3. CASE HandleOpen(e)
  <2>1. Less(Received(e)) /\ Has(wire[e], "open") /\ UNCHANGED <<link, dial, serve, ended>>
    BY <1>1, <1>3 DEF HandleOpen, dataVars
  <2>2. CASE closeWithCode(e, conn[e], Received(e), "internalError")
    <3>1. SoftConn(e) /\ Adds(e, "error")
      BY <1>0, <2>1, <2>2, ShutSoft
    <3>2. Signals
      BY <3>1, AddsSignals
    <3> QED
      BY <2>1, <3>1, <3>2, Rests DEF Gentle
  <2>3. CASE Becomes(e, [conn[e] EXCEPT !.cur = Head(wire[e])]) /\ wire' = Received(e)
    <3> DEFINE c == [conn[e] EXCEPT !.cur = Head(wire[e])]
    <3>1. Soft(e, c)
      BY <1>0, <2>1 DEF Soft, ConnState
    <3> HIDE DEF c
    <3>2. SoftConn(e) /\ Signals
      BY <1>0, <2>1, <2>3, <3>1, BecomesSoft, LessSignals DEF c
    <3> QED
      BY <2>1, <3>2, Rests DEF Gentle
  <2> QED
    BY <1>3, <2>2, <2>3 DEF HandleOpen
<1>4. CASE DialTargetErr(e)
  <2>1. /\ conn[e].cur.t = "open" /\ UNCHANGED <<link, dial, serve, ended>>
        /\ (Answered(e, conn[e], wire, "replyFalse") \/ AnswerFails(e, conn[e], wire))
    BY <1>4 DEF DialTargetErr, dataVars
  <2>2. /\ e = "server" /\ ~Has(wire["server"], "open") /\ dial.k # 0
        /\ ~Started("server", 1)
    BY <1>0, <2>1 DEF Intact, Opening, Unopened, Started
  <2>3. SoftConn(e) /\ Adds(e, "replyFalse") /\ conn'[e].cur = NoFrame
    BY <1>0, <2>1, AnswerSoft DEF Command
  <2>4. ~Has(wire'["server"], "open")
    BY <1>0, <2>2, <2>3 DEF Adds, Kinds, Peer
  <2>5. Refused'
    BY <2>1, <2>2, <2>3, <2>4 DEF Refused, Unopened, Started, NoFrame
  <2>6. Signals
    BY <2>3, <2>5, AddsSignals
  <2> QED
    BY <2>1, <2>3, <2>6, Rests DEF Gentle
<1>5. CASE HandleReply(e)
  <2> DEFINE cb == conn[e].onResult
             c == [conn[e] EXCEPT !.onResult = NoCallback,
                                  !.status = IF cb.kind = "close" THEN "Idle" ELSE @]
  <2>1. PICK t \in {"reply", "replyTrue", "replyFalse"} :
          /\ Incoming(e, t)
          /\ dial' = IF cb.kind = "dial" /\ cb.k = dial.k
                     THEN [dial EXCEPT !.res = IF t = "replyTrue" THEN "ok" ELSE "fail"]
                     ELSE dial
    BY <1>5 DEF HandleReply
  <2>2. Less(wire') /\ Has(wire[e], t) /\ UNCHANGED <<link, ended>> /\ Becomes(e, c)
    BY <1>1, <1>5, <2>1 DEF HandleReply, dataVars
  <2>3. Soft(e, c)
    BY <1>0 DEF Soft, ConnState
  <2>4. Waits
    <3>1. cb.kind = "dial" => e = "client"
      BY <1>0 DEF Intact, Opening
    <3>2. dial \in Dialing
      BY <1>0 DEF TypeOK
    <3> QED
      BY <2>1, <2>2, <3>1, <3>2 DEF Waits, Dialing, Asking
  <2>5. Serves(e)
    <3>1. CASE cb.kind = "close"
      <4>1. cb.k \in Session /\ serve' = [serve EXCEPT ![e][cb.k].done = TRUE]
        BY <1>0, <1>5, <3>1 DEF HandleReply, ConnState, Callback, NoCallback
      <4>2. \A x \in End, j \in Session :
              \/ serve'[x][j] = serve[x][j]
              \/ x = e /\ serve'[x][j] = [serve[x][j] EXCEPT !.done = TRUE]
        BY <1>0, <4>1 DEF TypeOK
      <4>3. \A x \in End, j \in Session :
              [serve[x][j] EXCEPT !.done = TRUE].pc = serve[x][j].pc
        BY <1>0 DEF TypeOK, Serving
      <4>4. ASSUME NEW j \in Session PROVE serve'[e][j].pc = serve[e][j].pc
        BY <4>2, <4>3
      <4> QED
        BY <1>0, <4>2, <4>4 DEF Serves, Started
    <3>2. CASE cb.kind # "close"
      BY <1>5, <3>2, Rests DEF HandleReply
    <3> QED
      BY <3>1, <3>2
  <2> HIDE DEF c, cb
  <2>6. SoftConn(e) /\ Signals
    BY <1>0, <2>2, <2>3, BecomesSoft, LessSignals
  <2> QED
    BY <2>2, <2>4, <2>5, <2>6 DEF Gentle
<1>6. CASE HandleError(e)
  <2> DEFINE c == [conn[e] EXCEPT !.open = @ \ {conn[e].onCmdErr}, !.onCmdErr = None]
  <2>1. /\ Less(wire') /\ UNCHANGED <<link, dial, serve, ended>>
        /\ Becomes(e, c) \/ conn' = conn
    BY <1>1, <1>6 DEF HandleError, dataVars
  <2>2. Soft(e, c)
    BY <1>0, SessionFacts DEF Soft, ConnState, Upright
  <2> HIDE DEF c
  <2>3. SoftConn(e) /\ Signals
    BY <1>0, <2>1, <2>2, BecomesSoft, LessSignals DEF SoftConn
  <2> QED
    BY <2>1, <2>3, Rests DEF Gentle
<1>7. CASE HandleData(e)
  <2> DEFINE c == [conn[e] EXCEPT !.cur = Head(wire[e])]
  <2>1. /\ Less(wire') /\ UNCHANGED <<link, dial, serve, ended>> /\ Head(wire[e]).t = "data"
        /\ Becomes(e, c) \/ conn' = conn
    BY <1>1, <1>7 DEF HandleData, dataVars
  <2>2. Soft(e, c)
    BY <1>0, <2>1 DEF Soft, ConnState
  <2> HIDE DEF c
  <2>3. SoftConn(e) /\ Signals
    BY <1>0, <2>1, <2>2, BecomesSoft, LessSignals DEF SoftConn
  <2> QED
    BY <2>1, <2>3, Rests DEF Gentle
<1> QED
  BY <1>2, <1>3, <1>4, <1>5, <1>6, <1>7

LEMMA FailureGentle ==
  ASSUME First, NEW e \in End, CopyErr(e) \/ HandleReadErr(e) \/ Ping(e) \/ Close(e)
  PROVE  Gentle(e)
<1>0. /\ TypeOK /\ Upright /\ Reasons /\ Intact /\ conn[e] \in ConnState /\ Soft(e, conn[e])
      /\ Less(wire) /\ server = conn["server"] /\ client = conn["client"]
      /\ server.open \subseteq {1} /\ e \in {"client", "server"} /\ 1 \in Session
  BY FirstFacts, SoftSelf
<1>1. UNCHANGED <<link, dial, serve, ended>>
  BY DEF CopyErr, HandleReadErr, Ping, Close, dataVars
<1>2. ASSUME NEW t \in {"error", "internalError"}, SoftConn(e),
             Adds(e, t) \/ wire' = wire
      PROVE  Gentle(e)
  <2>1. Signals
    BY <1>0, <1>2, AddsSignals, LessSignals
  <2> QED
    BY <1>1, <1>2, <2>1, Rests DEF Gentle
<1>3. ASSUME NEW c \in ConnState, Soft(e, c), NEW code \in {"normalClosure", "internalError"},
             closeWithCode(e, c, wire, code)
      PROVE  Gentle(e)
  BY <1>0, <1>2, <1>3, ShutSoft
<1>4. CASE CopyErr(e)
  <2> DEFINE c == [conn[e] EXCEPT !.status = "Idle"]
             d == [c EXCEPT !.cur = NoFrame, !.handle =
                             IF e = "client" THEN "panic" ELSE "returned"]
             b == CloseStream(c)
  <2>1. /\ c \in ConnState /\ b \in ConnState
    <3>1. c \in ConnState
      BY <1>0 DEF ConnState, Status
    <3> QED
      BY <3>1, CloseStreamType
  <2>2. Soft(e, d)
    BY <1>0 DEF Soft, ConnState, NoFrame
  <2>3. ~TakesData(e) \/ MayFail(e)
    BY <1>4 DEF CopyErr
  <2>4. e = "server" /\ server.streamConn \in server.open =>
          Down \/ ended[server.streamConn] # "no"
    BY <1>0, <2>3, FailsDown DEF TakesData
  <2>5. Soft(e, b)
    <3>1. /\ b.open = conn[e].open \ {conn[e].streamConn} /\ b.wsOpen = conn[e].wsOpen
          /\ b.ctxDone = conn[e].ctxDone /\ b.onCmdErr = conn[e].onCmdErr
          /\ b.cur = conn[e].cur
      BY <1>0 DEF CloseStream, ConnState
    <3> HIDE DEF b
    <3> QED
      BY <1>0, <2>4, <3>1 DEF Soft
  <2>6. \/ Becomes(e, d) /\ wire' = wire
        \/ Answered(e, b, wire, "error") \/ AnswerFails(e, b, wire)
    BY <1>4 DEF CopyErr
  <2> HIDE DEF b, d
  <2>7. CASE Becomes(e, d) /\ wire' = wire
    BY <1>0, <1>2, <2>2, <2>7, BecomesSoft
  <2>8. CASE Answered(e, b, wire, "error") \/ AnswerFails(e, b, wire)
    BY <1>0, <1>2, <2>1, <2>5, <2>8, AnswerSoft DEF Command
  <2> QED
    BY <2>6, <2>7, <2>8
<1>5. CASE HandleReadErr(e)
  <2> DEFINE c == [conn[e] EXCEPT !.handle = "returned"]
             d == [c EXCEPT !.ctxDone = TRUE]
  <2>1. c \in ConnState /\ Soft(e, c) /\ Soft(e, d)
    BY <1>0 DEF ConnState, Soft
  <2>2. \/ Becomes(e, d) /\ wire' = wire
        \/ closeWithCode(e, c, wire, "internalError")
    BY <1>5 DEF HandleReadErr
  <2> HIDE DEF c, d
  <2> QED
    BY <1>0, <1>2, <1>3, <2>1, <2>2, BecomesSoft
<1>6. CASE Ping(e)
  <2> DEFINE c == [conn[e] EXCEPT !.ping = "ended"]
             d == [c EXCEPT !.status = "Closed", !.wsOpen = FALSE]
  <2>1. c \in ConnState /\ Soft(e, c) /\ (conn[e].ctxDone => Soft(e, d))
        /\ c.ctxDone = conn[e].ctxDone
    BY <1>0 DEF ConnState, Soft
  <2>2. \/ /\ c.ctxDone /\ Becomes(e, d)
           /\ (wire' = wire \/ wire' = Put(wire, e, Cmd("internalError")))
        \/ closeWithCode(e, c, wire, "internalError")
    BY <1>6 DEF Ping
  <2> HIDE DEF c, d
  <2>3. CASE /\ c.ctxDone /\ Becomes(e, d)
             /\ (wire' = wire \/ wire' = Put(wire, e, Cmd("internalError")))
    <3>1. Cmd("internalError") \in Frame /\ Cmd("internalError").t = "internalError"
      BY FrameFacts DEF Cmd, Command
    <3>2. Adds(e, "internalError") \/ wire' = wire
      BY <1>0, <2>3, <3>1, PutMore DEF Adds
    <3> QED
      BY <1>0, <1>2, <2>1, <2>3, <3>2, BecomesSoft
  <2> QED
    BY <1>3, <2>1, <2>2, <2>3
<1>7. CASE Close(e)
  BY <1>0, <1>3, <1>7 DEF Close
<1> QED
  BY <1>4, <1>5, <1>6, <1>7

LEMMA ServeGentle ==
  ASSUME First, NEW e \in End, NEW k \in Session, serveStream(e, k)
  PROVE  Gentle(e)
<1> DEFINE s == serve[e][k]
<1>0. /\ TypeOK /\ Upright /\ Reasons /\ Intact /\ conn[e] \in ConnState /\ Soft(e, conn[e])
      /\ Less(wire) /\ server = conn["server"] /\ client = conn["client"]
      /\ server.open \subseteq {1} /\ client.open \subseteq {1}
      /\ e \in {"client", "server"} /\ 1 \in Session /\ s \in Serving
  <2>1. TypeOK
    BY FirstFacts
  <2>2. s \in Serving
    BY <2>1 DEF TypeOK
  <2> QED
    BY <2>1, <2>2, FirstFacts, SoftSelf
<1>1. UNCHANGED <<link, dial, ended>> /\ Waits
  <2>1. UNCHANGED <<link, dial, dataVars>>
    BY DEF serveStream, ServeStart, ServeCheck, ServeReadErr, ServeWrite, ServeStatus,
           ServeSendErr, ServeSetResult, ServeSendClose, ServeWait, ServeReturn
  <2> QED
    BY <2>1, Rests DEF dataVars
<1>2. ASSUME UNCHANGED <<conn, wire>>, Serves(e)
      PROVE  Gentle(e)
  <2>1. Signals
    BY <1>0, <1>2, LessSignals
  <2> QED
    BY <1>0, <1>1, <1>2, <2>1 DEF Gentle, SoftConn
<1>3. ASSUME NEW f \in Frame, Sent(e, conn[e], wire, f) \/ SendFails(e, conn[e], wire),
             f.t \in {"data", "error"} \/ (f.t = "close" /\ (e = "client" => PipeClosed)),
             Serves(e)
      PROVE  Gentle(e)
  <2>1. SoftConn(e) /\ Adds(e, f.t)
    BY <1>0, <1>3, WriteSoft
  <2>2. Signals
    BY <1>3, <2>1, AddsSignals
  <2> QED
    BY <1>1, <1>3, <2>1, <2>2 DEF Gentle
<1>4. ASSUME NEW c, Soft(e, c), Becomes(e, c), UNCHANGED wire, Serves(e)
      PROVE  Gentle(e)
  <2>1. SoftConn(e) /\ Signals
    BY <1>0, <1>4, BecomesSoft, LessSignals
  <2> QED
    BY <1>1, <1>4, <2>1 DEF Gentle
<1>5. s.pc \notin {"none", "start", "check", "ended", "panic"} => s.conn # None
  BY <1>0 DEF Serving
<1>6. CASE ServeStart(e, k)
  <2>1. k = 1 /\ s.pc = "start"
    BY <1>6, FirstFacts DEF ServeStart, Started
  <2>2. /\ serve'[e][k].pc = "check"
        /\ \A x \in End, j \in Session : <<x, j>> # <<e, k>> => serve'[x][j] = serve[x][j]
    BY <1>0, <1>6, ServeNotesConn
  <2>3. Serves(e)
    BY <2>1, <2>2 DEF Serves, Started, Closing, Ending
  <2> QED
    BY <1>2, <1>6, <2>3 DEF ServeStart
<1>7. CASE ServeCheck(e, k)
  <2>1. PICK q \in {"ended", "panic", "read"} : Goto(e, k, q)
    BY <1>7 DEF ServeCheck
  <2>2. k = 1 /\ s.pc = "check"
    BY <1>7, FirstFacts DEF ServeCheck, Started
  <2>3. /\ serve'[e][1].pc = q
        /\ \A x \in End, j \in Session : <<x, j>> # <<e, 1>> => serve'[x][j] = serve[x][j]
    BY <1>0, <2>1, <2>2, GotoFacts
  <2>4. Serves(e)
    BY <2>2, <2>3 DEF Serves, Started, Closing, Ending
  <2> QED
    BY <1>2, <1>7, <2>4 DEF ServeCheck
<1>8. CASE ServeReadErr(e, k)
  <2>1. PICK q \in {"eof", "fail"} : Goto(e, k, q)
    BY <1>8 DEF ServeReadErr, ReadError
  <2>2. /\ s.pc = "read" /\ s.conn \in {None, 1}
        /\ s.conn \in conn[e].open => e = "server" /\ ended[s.conn] # "no"
    <3>1. s.pc = "read" /\ k = 1
      BY <1>8, FirstFacts DEF ServeReadErr, AtRead, Started
    <3> QED
      BY <1>0, <1>8, <3>1 DEF ServeReadErr, Intact, FirstOnly
  <2>3. Serves(e)
    BY <1>0, <1>5, <2>1, <2>2, GotoStarts
  <2> QED
    BY <1>2, <1>8, <2>3 DEF ServeReadErr
<1>9. CASE ServeWrite(e, k)
  <2>1. /\ s.pc = "write" /\ s.conn \in Session /\ s.n \in 0 .. MaxData
        /\ Chunk(s.conn, s.n) \in Frame /\ Chunk(s.conn, s.n).t = "data"
    <3>1. s.pc = "write" /\ s.conn \in Stream /\ s.conn # None /\ s.n \in 0 .. MaxData
      BY <1>0, <1>5, <1>9 DEF ServeWrite, Serving
    <3> QED
      BY <3>1, FrameFacts DEF Stream, Chunk
  <2>2. \/ Sent(e, conn[e], wire, Chunk(s.conn, s.n)) /\ Goto(e, k, "read")
        \/ SendFails(e, conn[e], wire) /\ Goto(e, k, "return") /\ Down
    BY <1>9, FailsDown DEF ServeWrite, SendFails
  <2>3. Serves(e)
    BY <1>5, <2>1, <2>2, GotoStarts DEF Closing, Ending
  <2> QED
    BY <1>3, <2>1, <2>2, <2>3
<1>10. CASE ServeStatus(e, k)
  <2>1. \/ Goto(e, k, "return") /\ s.pc \in {"eof", "fail"}
        \/ Goto(e, k, "setResult") /\ s.pc = "eof"
        \/ Goto(e, k, "sendErr") /\ s.pc = "fail"
    BY <1>10 DEF ServeStatus
  <2>2. Serves(e)
    BY <1>5, <2>1, GotoStarts DEF Closing, Ending
  <2> QED
    BY <1>2, <1>10, <2>2 DEF ServeStatus
<1>11. CASE ServeSendErr(e, k)
  <2>1. /\ s.pc = "sendErr" /\ Goto(e, k, "return")
        /\ (Sent(e, conn[e], wire, Cmd("error")) \/ SendFails(e, conn[e], wire))
        /\ Cmd("error") \in Frame /\ Cmd("error").t = "error"
    BY <1>11, FrameFacts DEF ServeSendErr, Cmd, Command
  <2>2. Serves(e)
    BY <1>5, <2>1, GotoStarts DEF Closing, Ending
  <2> QED
    BY <1>3, <2>1, <2>2
<1>12. CASE ServeSetResult(e, k)
  <2> DEFINE c == [conn[e] EXCEPT !.onResult = [kind |-> "close", k |-> k]]
  <2>1. Becomes(e, c) /\ Goto(e, k, "sendClose") /\ s.pc = "setResult" /\ UNCHANGED wire
    BY <1>12 DEF ServeSetResult
  <2>2. Serves(e)
    BY <1>5, <2>1, GotoStarts DEF Closing, Ending
  <2>3. Soft(e, c)
    BY <1>0 DEF Soft, ConnState
  <2> HIDE DEF c
  <2> QED
    BY <1>4, <2>1, <2>2, <2>3
<1>13. CASE ServeSendClose(e, k)
  <2>1. /\ s.pc = "sendClose" /\ (Goto(e, k, "wait") \/ Goto(e, k, "return"))
        /\ (Sent(e, conn[e], wire, Cmd("close")) \/ SendFails(e, conn[e], wire))
        /\ Cmd("close") \in Frame /\ Cmd("close").t = "close"
    BY <1>13, FrameFacts DEF ServeSendClose, Cmd, Command
  <2>2. Serves(e) /\ k = 1
    BY <1>5, <2>1, GotoStarts DEF Closing, Ending
  <2>3. e = "client" => PipeClosed
    BY <1>0, <2>1, <2>2 DEF Reasons, Closing, PipeClosed, Started
  <2> QED
    BY <1>3, <2>1, <2>2, <2>3
<1>14. CASE ServeWait(e, k)
  <2>1. s.pc = "wait" /\ Goto(e, k, "return")
    BY <1>14 DEF ServeWait
  <2>2. Serves(e)
    BY <1>5, <2>1, GotoStarts DEF Closing, Ending
  <2> QED
    BY <1>2, <1>14, <2>2 DEF ServeWait
<1>15. CASE ServeReturn(e, k)
  <2> DEFINE c == [conn[e] EXCEPT !.open = @ \ {s.conn}]
  <2>1. Becomes(e, c) /\ Goto(e, k, "ended") /\ s.pc = "return" /\ UNCHANGED wire
    BY <1>15 DEF ServeReturn
  <2>2. Serves(e) /\ k = 1 /\ s.conn = 1
    BY <1>5, <2>1, GotoStarts DEF Closing, Ending
  <2>3. Soft(e, c)
    <3>1. /\ c.open = conn[e].open \ {1} /\ c.wsOpen = conn[e].wsOpen
          /\ c.ctxDone = conn[e].ctxDone /\ c.onCmdErr = conn[e].onCmdErr
          /\ c.cur = conn[e].cur
      BY <1>0, <2>2 DEF ConnState
    <3>2. e = "server" /\ 1 \in server.open => Down \/ ended[1] # "no"
      BY <1>0, <2>1, <2>2 DEF Reasons, Ending
    <3> HIDE DEF c
    <3> QED
      BY <1>0, <3>1, <3>2 DEF Soft
  <2> HIDE DEF c
  <2> QED
    BY <1>4, <2>1, <2>2, <2>3
<1> QED
  BY <1>6, <1>7, <1>8, <1>9, <1>10, <1>11, <1>12, <1>13, <1>14, <1>15 DEF serveStream

-----------------------------------------------------------------------------
(* Chunks: reading one is Produce, writing one into a stream is Deliver.   *)

LEMMA UsersUnmoved ==
  ASSUME First, TypeOK', UNCHANGED <<link, dial>>,
         \A x \in End : /\ conn'[x].open = conn[x].open
                        /\ conn'[x].ctxDone = conn[x].ctxDone
                        /\ conn'[x].handle = conn[x].handle,
         \A x \in End, k \in Session :
           /\ Started(x, k)' <=> Started(x, k)
           /\ serve'[x][k].pc = "panic" <=> serve[x][k].pc = "panic"
  PROVE  PipesSame /\ TargetsSame /\ DownSame
<1>0. /\ UsersSee /\ UsersSee' /\ "client" \in End /\ "server" \in End
      /\ client' = conn'["client"] /\ server' = conn'["server"]
      /\ client = conn["client"] /\ server = conn["server"]
  BY FirstFacts, UsersSeeIt, UsersSeeNext DEF client, server
<1>1. DownSame
  BY DownSameIf
<1>2. ASSUME NEW j \in Session
      PROVE  PipeOf(j)' = PipeOf(j) /\ TargetOf(j)' = TargetOf(j)
  <2>1. /\ j \in Nat /\ dial.k \in Nat /\ PipeIs(j) /\ PipeIs(j)' /\ TargetIs(j) /\ TargetIs(j)'
        /\ dial'.k = dial.k /\ dial'.cancelled = dial.cancelled
        /\ (Asking' <=> Asking) /\ (Started("client", j)' <=> Started("client", j))
        /\ (Started("server", j)' <=> Started("server", j))
        /\ client'.open = client.open /\ server'.open = server.open
    BY <1>0 DEF UsersSee, Asking
  <2>2. TargetOf(j)' = TargetOf(j)
    BY <1>0, <2>1 DEF TargetIs
  <2>3. CASE Started("client", j)
    BY <1>0, <2>1, <2>2, <2>3 DEF PipeIs
  <2>4. CASE ~Started("client", j) /\ j > dial.k
    BY <1>0, <2>1, <2>2, <2>4 DEF PipeIs
  <2>5. CASE ~Started("client", j) /\ j < dial.k
    BY <1>0, <2>1, <2>2, <2>5 DEF PipeIs
  <2>6. CASE ~Started("client", j) /\ j = dial.k
    BY <1>0, <2>1, <2>2, <2>6 DEF PipeIs
  <2> QED
    BY <2>1, <2>2, <2>3, <2>4, <2>5, <2>6
<1> QED
  BY <1>1, <1>2 DEF PipesSame, TargetsSame

LEMMA OpenAtEnd ==
  ASSUME First, NEW e \in End, 1 \in conn[e].open
  PROVE  IF e = "client" THEN PipeOf(1) = "open" ELSE TargetOf(1) = "open"
<1>1. Started(e, 1) /\ PipeIs(1) /\ TargetIs(1) /\ e \in {"client", "server"}
  BY FirstFacts, UsersSeeIt DEF UsersSee, Upright
<1> QED
  BY <1>1 DEF PipeIs, TargetIs, client, server

LEMMA ReadOK ==
  ASSUME First, TypeOK', NEW e \in End, NEW k \in Session, ~Crashed(e), ServeReadData(e, k)
  PROVE  FirstTunnel' /\ [T!Next]_T!vars
<1>0. /\ TypeOK /\ Intact /\ 1 \in Session /\ Less(wire) /\ Soft(e, conn[e])
      /\ e \in {"client", "server"}
  BY FirstFacts, SoftSelf
<1> DEFINE s == serve[e][k]
<1>1. /\ s.pc = "read" /\ s.conn \in conn[e].open
      /\ sent' = [sent EXCEPT ![e][s.conn] = @ + 1]
      /\ UNCHANGED <<conn, link, wire, dial, ended, got>>
  BY DEF ServeReadData, AtRead
<1>2. k = 1 /\ s.conn = 1
  <2>1. k = 1
    BY <1>1, FirstFacts DEF Started
  <2>2. s.conn # None
    <3>1. s \in Serving
      BY <1>0 DEF TypeOK
    <3> HIDE DEF s
    <3> QED
      BY <1>1, <3>1 DEF Serving
  <2> QED
    BY <1>0, <2>1, <2>2 DEF Intact, FirstOnly
<1>3. /\ serve'[e][1].pc = "write"
      /\ \A x \in End, j \in Session : <<x, j>> # <<e, 1>> => serve'[x][j] = serve[x][j]
  <2>1. /\ serve'[e][k].pc = "write"
        /\ \A x \in End, j \in Session : <<x, j>> # <<e, k>> => serve'[x][j] = serve[x][j]
    BY <1>0, ServeNotesChunk
  <2> QED
    BY <1>2, <2>1
<1>4. /\ \A x \in End, j \in Session : Started(x, j)' <=> Started(x, j)
      /\ \A x \in End, j \in Session : serve'[x][j].pc = "panic" <=> serve[x][j].pc = "panic"
  <2>1. serve[e][1].pc = "read"
    BY <1>1, <1>2
  <2>2. ASSUME NEW x \in End, NEW j \in Session
        PROVE  /\ Started(x, j)' <=> Started(x, j)
               /\ serve'[x][j].pc = "panic" <=> serve[x][j].pc = "panic"
    <3>1. CASE x = e /\ j = 1
      BY <1>3, <2>1, <3>1 DEF Started
    <3>2. CASE ~(x = e /\ j = 1)
      BY <1>3, <3>2 DEF Started
    <3> QED
      BY <3>1, <3>2
  <2> QED
    BY <2>2
<1>5. FirstTunnel'
  <2>1. Serves(e)
    BY <1>0, <1>3, <1>4 DEF Serves, Closing, Ending
  <2>2. Signals /\ Waits /\ SoftConn(e)
    BY <1>0, <1>1, LessSignals, Rests DEF SoftConn
  <2> QED
    BY <1>1, <2>1, <2>2, GentleKeeps DEF Gentle
<1>6. T!Next
  <2>1. PipesSame /\ TargetsSame /\ DownSame /\ EndedSame
    BY <1>1, <1>4, UsersUnmoved DEF EndedSame
  <2>2. IF e = "client" THEN PipeOf(1) = "open" ELSE TargetOf(1) = "open"
    BY <1>1, <1>2, OpenAtEnd
  <2>3. T!Produce(e, 1)
    BY <1>0, <1>1, <1>2, <2>1, <2>2, Pointwise DEF T!Produce, T!OpenAt, Down, DownSame
  <2> QED
    BY <1>0, <2>3 DEF T!Next, T!End
<1> QED
  BY <1>5, <1>6

LEMMA CopyOK ==
  ASSUME First, TypeOK', NEW e \in End, ~Crashed(e), CopyOk(e)
  PROVE  FirstTunnel' /\ [T!Next]_T!vars
<1> DEFINE c == [conn[e] EXCEPT !.cur = NoFrame]
           n == Len(got[e][1])
<1>0. /\ TypeOK /\ Intact /\ 1 \in Session /\ Less(wire) /\ conn[e] \in ConnState
      /\ Soft(e, conn[e]) /\ e \in {"client", "server"}
  BY FirstFacts, SoftSelf
<1>1. /\ conn[e].cur.t = "data" /\ conn[e].streamConn \in conn[e].open
      /\ got' = [got EXCEPT ![e][conn[e].streamConn] =
                   Append(@, <<conn[e].cur.k, conn[e].cur.n>>)]
      /\ Becomes(e, c) /\ UNCHANGED <<link, wire, dial, serve, ended, sent>>
  BY DEF CopyOk, TakesData
<1>2. conn[e].streamConn = 1
  <2>1. conn[e].streamConn \in {None, 1} /\ None \notin Session
    BY <1>0, SessionFacts DEF Intact, FirstOnly
  <2> QED
    BY <1>0, <1>1, <2>1 DEF ConnState
<1>3. conn[e].cur.k = 1 /\ conn[e].cur.n = n + 1 /\ n < sent[Peer(e)][1]
  <2>1. Arrived(e) /\ Bounded(e)
    BY <1>0 DEF Intact, Chunks
  <2>2. conn[e].cur = Chunk(1, n + 1)
    BY <1>1, <1>2, <2>1, SessionFacts DEF Arrived, None
  <2>3. n + 1 <= sent[Peer(e)][1]
    BY <1>1, <2>1 DEF Bounded, Have, Written
  <2>4. n \in Nat /\ sent[Peer(e)][1] \in Nat
    BY <1>0, DataTypes DEF Written
  <2> QED
    BY <2>2, <2>3, <2>4 DEF Chunk
<1>4. got' = [got EXCEPT ![e][1] = Append(@, <<1, Len(@) + 1>>)]
  BY <1>1, <1>2, <1>3
<1>5. /\ Soft(e, c) /\ c.open = conn[e].open /\ c.ctxDone = conn[e].ctxDone
      /\ c.handle = conn[e].handle
  BY <1>0 DEF Soft, ConnState, NoFrame
<1> HIDE DEF c
<1>6. SoftConn(e) /\ conn'[e] = c /\ \A x \in End : x # e => conn'[x] = conn[x]
  BY <1>0, <1>1, <1>5, BecomesSoft DEF SoftConn
<1>7. FirstTunnel'
  <2>1. Signals /\ Waits /\ Serves(e)
    BY <1>0, <1>1, LessSignals, Rests
  <2> QED
    BY <1>1, <1>6, <2>1, GentleKeeps DEF Gentle
<1>8. T!Next
  <2>1. PipesSame /\ TargetsSame /\ DownSame /\ EndedSame
    <3>1. /\ UNCHANGED <<link, dial, serve, ended>>
          /\ \A x \in End : /\ conn'[x].open = conn[x].open
                            /\ conn'[x].ctxDone = conn[x].ctxDone
                            /\ conn'[x].handle = conn[x].handle
      BY <1>1, <1>5, <1>6
    <3>2. \A x \in End, j \in Session : Started(x, j)' <=> Started(x, j)
      BY <3>1 DEF Started
    <3> QED
      BY <3>1, <3>2, UsersUnmoved DEF EndedSame
  <2>2. IF e = "client" THEN PipeOf(1) = "open" ELSE TargetOf(1) = "open"
    BY <1>1, <1>2, OpenAtEnd
  <2>3. T!Deliver(e, 1)
    BY <1>0, <1>1, <1>3, <1>4, <2>1, <2>2, Pointwise
    DEF T!Deliver, T!OpenAt, T!Peer, Peer, Down, DownSame
  <2> QED
    BY <1>0, <2>3 DEF T!Next, T!End
<1> QED
  BY <1>7, <1>8

-----------------------------------------------------------------------------
(* The target is reached, or RT could not be sent.                         *)
LEMMA DialTargetOK ==
  ASSUME First, TypeOK', NEW e \in End, ~Crashed(e), DialTargetOk(e)
  PROVE  FirstTunnel' /\ [T!Next]_T!vars
<1> DEFINE c == [server EXCEPT !.status = "Stream", !.streamConn = 1, !.open = @ \cup {1}]
           a == [c EXCEPT !.cur = NoFrame]
           b == [c EXCEPT !.cur = NoFrame, !.handle = "returned"]
<1>0. /\ TypeOK /\ Intact /\ Upright /\ Told /\ Reasons /\ 1 \in Session /\ Less(wire)
      /\ "client" \in End /\ "server" \in End /\ client = conn["client"]
      /\ server = conn["server"] /\ client' = conn'["client"] /\ server' = conn'["server"]
      /\ server \in ConnState /\ server.open \subseteq {1} /\ UsersSee /\ UsersSee'
      /\ Peer("server") = "client" /\ End = {"client", "server"}
  BY FirstFacts, SoftSelf, UsersSeeIt, UsersSeeNext DEF client, server, Peer
<1>1. e = "server" /\ server.cur.t = "open" /\ Unopened
  BY <1>0 DEF DialTargetOk, Intact, Opening, Unopened
<1>2. server.cur.k = 1
  <2>1. server.cur \in Frame
    BY <1>0, <1>1 DEF ConnState, NoFrame
  <2>2. server.cur.k \in Session
    BY <1>1, <2>1 DEF Frame, Command
  <2> QED
    BY <1>0, <2>2, SessionFacts DEF Intact, FirstOnly
<1>3. /\ ~Started("server", 1) /\ ~Started("client", 1) /\ server.open = {} /\ dial.k = 1
      /\ dial.res # "ok" /\ dial.pc # "accepted" /\ ~Has(wire["server"], "open")
      /\ ~Has(wire["client"], "replyTrue")
  BY <1>0, <1>1 DEF Intact, Opening, FirstOnly, Started, Upright, None
<1>4. /\ UNCHANGED <<link, dial, ended, sent, got>>
      /\ \/ Sent("server", a, wire, Cmd("replyTrue")) /\ Goto("server", 1, "start")
         \/ SendFails("server", b, wire) /\ UNCHANGED serve
  BY <1>0, <1>1, <1>2 DEF DialTargetOk, Answered, AnswerFails, dataVars
<1>5. CASE SendFails("server", b, wire) /\ UNCHANGED serve
  <2> DEFINE d == [CloseStream(b) EXCEPT !.status = "Closed", !.wsOpen = FALSE, !.ctxDone = TRUE]
  <2>1. /\ b.status = "Stream" /\ d.open = {} /\ d.ctxDone /\ d.onCmdErr = server.onCmdErr
        /\ d.cur = NoFrame
    BY <1>0, <1>3 DEF ConnState, CloseStream
  <2>2. Becomes("server", d) /\ (wire' = wire \/ wire' = Put(wire, "server", Cmd("internalError")))
    BY <1>5, <2>1 DEF SendFails, closeWithCode
  <2> HIDE DEF b, d
  <2>3. Soft("server", d)
    BY <1>0, <1>3, <2>1 DEF Soft, NoFrame
  <2>4. SoftConn("server")
    BY <1>0, <2>2, <2>3, BecomesSoft
  <2>5. Cmd("internalError") \in Frame /\ Cmd("internalError").t = "internalError"
    BY FrameFacts DEF Cmd, Command
  <2>6. Signals
    <3>1. CASE wire' = wire
      BY <1>0, <3>1, LessSignals
    <3>2. CASE wire' = Put(wire, "server", Cmd("internalError"))
      <4>1. Adds("server", "internalError")
        BY <1>0, <2>5, <3>2, PutMore DEF Adds
      <4> QED
        BY <1>0, <4>1, AddsSignals
    <3> QED
      BY <2>2, <3>1, <3>2
  <2>7. Gentle("server")
    BY <1>0, <1>4, <1>5, <2>4, <2>6, Rests DEF Gentle
  <2> QED
    BY <1>0, <1>1, <1>4, <2>7, GentleKeeps, GentleSimulates
<1>6. CASE Sent("server", a, wire, Cmd("replyTrue")) /\ Goto("server", 1, "start")
  <2>1. /\ a.open = {1} /\ a.wsOpen = server.wsOpen /\ a.ctxDone = server.ctxDone
        /\ a.onCmdErr = server.onCmdErr /\ a.handle = server.handle /\ a.cur = NoFrame
    BY <1>0, <1>3 DEF ConnState
  <2> HIDE DEF a
  <2>2. server' = a /\ client' = client /\ wire' = Put(wire, "server", Cmd("replyTrue"))
    BY <1>0, <1>6 DEF Sent, Becomes, TypeOK
  <2>3. Cmd("replyTrue") \in Frame /\ Cmd("replyTrue").t = "replyTrue"
    BY FrameFacts DEF Cmd, Command
  <2>4. \A x \in End, u \in Kinds :
          Has(wire'[x], u) => Has(wire[x], u) \/ (x = "client" /\ u = "replyTrue")
    BY <1>0, <2>2, <2>3, PutMore
  <2>5. {"replyFalse", "replyTrue", "reply", "close", "open"} \subseteq Kinds
    BY DEF Kinds, Command
  <2>6. /\ serve'["server"][1].pc = "start"
        /\ \A x \in End, j \in Session : <<x, j>> # <<"server", 1>> => serve'[x][j] = serve[x][j]
    BY <1>0, <1>6, GotoFacts
  <2>7. /\ Started("server", 1)' /\ ~Started("client", 1)' /\ ~Unopened'
        /\ serve["server"][1].pc = "none"
        /\ \A j \in Session : Started("client", j)' <=> Started("client", j)
        /\ \A j \in Session : j # 1 => (Started("server", j)' <=> Started("server", j))
    BY <1>0, <1>3, <1>4, <2>1, <2>2, <2>4, <2>5, <2>6 DEF Started, Unopened, NoFrame
  <2>8. FirstTunnel'
    <3>1. Upright'
      <4>1. \A x \in End : conn'[x].wsOpen \/ conn'[x].ctxDone
        BY <1>0, <2>1, <2>2 DEF Upright
      <4>2. \A j \in conn'["client"].open : Started("client", j)'
        <5>1. client.open \subseteq Session
          BY <1>0 DEF TypeOK, ConnState
        <5> QED
          BY <1>0, <2>2, <2>7, <5>1 DEF Upright
      <4>3. \A j \in conn'["server"].open : Started("server", j)'
        BY <1>0, <2>1, <2>2, <2>7
      <4>4. server'.onCmdErr = None
        BY <1>0, <2>1, <2>2 DEF Upright
      <4> QED
        BY <1>0, <4>1, <4>2, <4>3, <4>4 DEF Upright
    <3>2. Told'
      <4>1. ~Has(wire["client"], "replyFalse") /\ dial.res # "fail"
        BY <1>0, <1>1, <1>3 DEF Told, Refused
      <4> QED
        BY <1>0, <1>3, <1>4, <2>4, <2>5, <2>7, <4>1 DEF Told
    <3>3. Reasons'
      <4>1. ~Has(wire["server"], "close") /\ ~Has(wire["client"], "reply")
        BY <1>0, <1>3 DEF Reasons, PipeClosed
      <4>2. serve'["client"][1].pc = "none"
        BY <1>0, <1>3, <2>6 DEF Started
      <4> QED
        BY <1>0, <2>4, <2>5, <2>6, <4>1, <4>2 DEF Reasons, Closing, Ending
    <3> QED
      BY <3>1, <3>2, <3>3 DEF FirstTunnel
  <2>9. DownSame
    <3>1. ASSUME NEW x \in End, NEW j \in Session
          PROVE  serve'[x][j].pc = "panic" <=> serve[x][j].pc = "panic"
      BY <2>6, <2>7
    <3>2. \A x \in End : conn'[x].ctxDone = conn[x].ctxDone /\ conn'[x].handle = conn[x].handle
      BY <1>0, <2>1, <2>2
    <3> QED
      BY <1>4, <3>1, <3>2, DownSameIf
  <2>10. PipesSame /\ EndedSame
    <3>1. ASSUME NEW j \in Session PROVE PipeOf(j)' = PipeOf(j)
      <4>1. /\ j \in Nat /\ dial.k \in Nat /\ PipeIs(j) /\ PipeIs(j)' /\ dial' = dial
            /\ (Asking' <=> Asking) /\ (Started("client", j)' <=> Started("client", j))
            /\ client'.open = client.open
        BY <1>0, <1>4, <2>2, <2>7 DEF UsersSee, Asking
      <4>2. CASE Started("client", j)
        BY <4>1, <4>2 DEF PipeIs
      <4>3. CASE ~Started("client", j) /\ j > dial.k
        BY <4>1, <4>3 DEF PipeIs
      <4>4. CASE ~Started("client", j) /\ j < dial.k
        BY <4>1, <4>4 DEF PipeIs
      <4>5. CASE ~Started("client", j) /\ j = dial.k
        BY <4>1, <4>5 DEF PipeIs
      <4> QED
        BY <4>1, <4>2, <4>3, <4>4, <4>5
    <3> QED
      BY <1>4, <3>1 DEF PipesSame, EndedSame
  <2>11. /\ TargetOf(1) = "none" /\ TargetOf(1)' = "open" /\ TargetsSameBut(1)
         /\ \A j \in Session : TargetOf(j) # "open"
    <3>1. \A j \in Session : TargetIs(j) /\ TargetIs(j)'
      BY <1>0 DEF UsersSee
    <3>2. \A j \in Session : j # 1 => ~Started("server", j)
      BY FirstFacts
    <3> QED
      BY <1>0, <1>3, <2>1, <2>2, <2>7, <3>1, <3>2 DEF TargetIs, TargetsSameBut
  <2>12. PipeOf(1) \in {"asked", "abandoned"} \/ Down
    <3>1. PipeIs(1)
      BY <1>0 DEF UsersSee
    <3>2. CASE Asking \/ dial.cancelled
      BY <1>3, <3>1, <3>2 DEF PipeIs
    <3>3. CASE ~Asking /\ ~dial.cancelled
      BY <1>0, <1>1, <1>3, <3>3 DEF Told
    <3> QED
      BY <3>2, <3>3
  <2>13. T!Next
    BY <1>0, <1>4, <2>9, <2>10, <2>11, <2>12, TunnelConnect, ChunksRest
  <2> QED
    BY <2>8, <2>13
<1> QED
  BY <1>4, <1>5, <1>6

-----------------------------------------------------------------------------
(* DialContext and the environment.                                        *)

LEMMA WaitGentle ==
  ASSUME First, ~Crashed("client"),
         \/ CtxCancel \/ DialInOper \/ (DialResult /\ dial.res = "ok")
         \/ ParentCancel \/ \E k \in Session : UserClose(k)
  PROVE  Gentle("client") /\ UNCHANGED <<sent, got>>
<1>0. /\ TypeOK /\ Soft("client", client) /\ Less(wire) /\ client \in ConnState /\ dial \in Dialing
      /\ client = conn["client"] /\ "client" \in End
  <2>1. "client" \in End
    BY FirstFacts
  <2> QED
    BY <2>1, FirstFacts, SoftSelf DEF TypeOK
<1>1. UNCHANGED <<link, wire, serve, ended, sent, got>>
  BY DEF CtxCancel, DialInOper, DialResult, ParentCancel, UserClose, dataVars
<1>2. Signals /\ Serves("client")
  BY <1>0, <1>1, LessSignals, Rests
<1>3. Waits
  <2>1. CASE CtxCancel
    BY <1>0, <2>1 DEF CtxCancel, Waits, Asking, Dialing
  <2>2. CASE DialInOper
    BY <1>0, <2>2 DEF DialInOper, Waits, Asking, Dialing
  <2>3. CASE DialResult /\ dial.res = "ok"
    BY <1>0, <2>3 DEF DialResult, Waits, Asking, Dialing
  <2>4. CASE UNCHANGED dial
    BY <1>0, <2>4, Rests
  <2> QED
    BY <2>1, <2>2, <2>3, <2>4 DEF ParentCancel, UserClose
<1>4. SoftConn("client")
  <2>1. CASE UNCHANGED conn
    BY <1>0, <2>1 DEF SoftConn
  <2>2. CASE DialInOper
    <3> DEFINE c == [client EXCEPT !.status = "InOper"]
    <3>1. Soft("client", c) /\ Becomes("client", c)
      BY <1>0, <2>2 DEF DialInOper, Soft, ConnState
    <3> HIDE DEF c
    <3> QED
      BY <1>0, <3>1, BecomesSoft
  <2>3. CASE ParentCancel
    <3> DEFINE c == [client EXCEPT !.ctxDone = TRUE]
    <3>1. Soft("client", c) /\ Becomes("client", c)
      BY <1>0, <2>3 DEF ParentCancel, Soft, ConnState
    <3> HIDE DEF c
    <3> QED
      BY <1>0, <3>1, BecomesSoft
  <2>4. ASSUME NEW k \in Session, UserClose(k)
        PROVE  SoftConn("client")
    <3> DEFINE c == [client EXCEPT !.open = @ \ {k}]
    <3>1. Soft("client", c) /\ Becomes("client", c)
      BY <1>0, <2>4 DEF UserClose, Soft, ConnState
    <3> HIDE DEF c
    <3> QED
      BY <1>0, <3>1, BecomesSoft
  <2>5. (CtxCancel \/ (DialResult /\ dial.res = "ok")) => UNCHANGED conn
    BY DEF CtxCancel, DialResult
  <2> QED
    BY <2>1, <2>2, <2>3, <2>4, <2>5
<1> QED
  BY <1>1, <1>2, <1>3, <1>4 DEF Gentle

(* The call returns without a pipe.                                        *)
LEMMA DialEndsOK ==
  ASSUME First, TypeOK', dial.pc = "select", dial'.pc \in {"idle", "stuck"},
         dial'.k = dial.k, dial'.res = dial.res, dial'.cancelled = dial.cancelled,
         dial.res = "fail" \/ client.ctxDone \/ dial.cancelled,
         NEW c \in ConnState, Becomes("client", c), c.open = client.open,
         c.ctxDone = client.ctxDone, c.handle = client.handle, c.wsOpen = client.wsOpen,
         UNCHANGED <<link, wire, serve, dataVars>>
  PROVE  FirstTunnel' /\ [T!Next]_T!vars
<1>0. /\ TypeOK /\ Intact /\ Upright /\ Told /\ Reasons /\ 1 \in Session /\ UsersSee /\ UsersSee'
      /\ "client" \in End /\ "server" \in End /\ End = {"client", "server"}
      /\ client = conn["client"] /\ server = conn["server"] /\ client.open \subseteq {1}
      /\ client' = c /\ server' = server /\ conn'["client"] = c
      /\ conn'["server"] = conn["server"]
  BY FirstFacts, UsersSeeIt, UsersSeeNext DEF client, server, Becomes, TypeOK
<1>1. dial.k = 1 /\ serve["client"][1].pc = "none" /\ client.open = {}
  BY <1>0 DEF Intact, Opening, FirstOnly, TypeOK, Dialing, Upright, Started
<1>2. /\ \A x \in End, j \in Session : Started(x, j)' <=> Started(x, j)
      /\ Unopened' <=> Unopened
      /\ Refused' <=> Refused
      /\ PipeClosed' <=> PipeClosed
  BY <1>0 DEF Started, Unopened, Refused, PipeClosed
<1>3. DialDone(1)
  BY <1>0, <1>1 DEF DialDone
<1>4. /\ DownSame /\ TargetsSame /\ EndedSame /\ PipesSameBut(1)
      /\ PipeOf(1) = "asked" /\ UNCHANGED <<sent, got>>
  BY <1>0, <1>3, DialDoneSeen DEF DialDone, dataVars
<1>5. dial.cancelled \/ Down \/ Refused
  BY <1>0, <1>1 DEF Told, Started, Down
<1>6. FirstTunnel'
  <2>1. Upright'
    <3>1. \A x \in End : conn'[x].wsOpen \/ conn'[x].ctxDone
      BY <1>0 DEF Upright
    <3>2. \A x \in End : conn'[x].open = conn[x].open /\ conn[x].open \subseteq Session
      BY <1>0 DEF TypeOK, ConnState
    <3> QED
      BY <1>0, <1>2, <3>1, <3>2 DEF Upright
  <2>2. Told'
    <3>1. dial'.k = 1 /\ ~Asking' /\ ~dial'.cancelled /\ Unopened' => Down'
      BY <1>2, <1>4, <1>5 DEF DownSame, Refused
    <3> QED
      BY <1>0, <1>2, <3>1 DEF Told
  <2>3. Reasons'
    BY <1>0, <1>2, <1>4 DEF Reasons, DownSame, dataVars
  <2> QED
    BY <2>1, <2>2, <2>3 DEF FirstTunnel
<1>7. PipeOf(1)' = IF dial.cancelled THEN "abandoned" ELSE "failed"
  <2>1. PipeIs(1)' /\ ~Started("client", 1)' /\ ~Asking'
    BY <1>0, <1>1 DEF UsersSee, Started, Asking
  <2> QED
    BY <1>1, <2>1 DEF PipeIs
<1>8. CASE dial.cancelled
  BY <1>0, <1>4, <1>6, <1>7, <1>8, TunnelAbandon, ChunksRest
<1>9. CASE ~dial.cancelled
  <2>1. TargetOf(1) = "none" \/ Down
    BY <1>0, <1>5, <1>9 DEF UsersSee, TargetIs, Refused
  <2> QED
    BY <1>0, <1>4, <1>6, <1>7, <1>9, <2>1, TunnelFail, ChunksRest
<1> QED
  BY <1>8, <1>9

LEMMA DialAcceptOK ==
  ASSUME First, TypeOK', DialAccept
  PROVE  FirstTunnel' /\ [T!Next]_T!vars
<1> DEFINE c == NewPipe(client, 1)
<1>0. /\ TypeOK /\ Intact /\ Upright /\ Told /\ Reasons /\ 1 \in Session /\ UsersSee /\ UsersSee'
      /\ "client" \in End /\ "server" \in End /\ End = {"client", "server"}
      /\ client = conn["client"] /\ server = conn["server"] /\ client \in ConnState
      /\ client' = conn'["client"] /\ server' = conn'["server"] /\ client.open \subseteq {1}
      /\ server.open \subseteq Session
  BY FirstFacts, UsersSeeIt, UsersSeeNext DEF client, server, ConnState
<1>1. /\ dial.pc = "accepted" /\ dial.k = 1 /\ serve["client"][1].pc = "none" /\ client.open = {}
      /\ Started("server", 1) /\ UNCHANGED <<link, wire, dataVars>>
  <2>1. dial.pc = "accepted" /\ UNCHANGED <<link, wire, dataVars>> /\ dial \in Dialing
    BY <1>0 DEF DialAccept, TypeOK
  <2>2. dial.k = 1
    BY <1>0, <2>1 DEF Intact, FirstOnly, Dialing
  <2>3. serve["client"][1].pc = "none"
    BY <1>0, <2>1 DEF Intact, Opening
  <2>4. client.open = {}
    BY <1>0, <2>3 DEF Upright, Started
  <2>5. Started("server", 1)
    BY <1>0, <2>1 DEF Told
  <2> QED
    BY <2>1, <2>2, <2>3, <2>4, <2>5
<1>2. /\ c.open = {1} /\ c.ctxDone = client.ctxDone /\ c.handle = client.handle
      /\ c.wsOpen = client.wsOpen
  BY <1>0, <1>1 DEF NewPipe, ConnState
<1>3. client' = c /\ server' = server /\ conn'["client"] = c /\ conn'["server"] = conn["server"]
  BY <1>0, <1>1 DEF DialAccept, Becomes, TypeOK
<1>4. /\ dial'.pc = "idle" /\ dial'.k = 1 /\ dial'.cancelled = dial.cancelled
      /\ dial'.res = dial.res
  BY <1>0, <1>1 DEF DialAccept, TypeOK, Dialing
<1>5. /\ serve'["server"] = serve["server"]
      /\ \A j \in Session : j # 1 => serve'["client"][j] = serve["client"][j]
      /\ serve'["client"][1].pc = "start"
  BY <1>0, <1>1 DEF DialAccept, TypeOK, Serving
<1> HIDE DEF c
<1>6. DialDone(1)
  BY <1>0, <1>1, <1>2, <1>3, <1>4, <1>5 DEF DialDone
<1>7. /\ DownSame /\ TargetsSame /\ EndedSame /\ PipesSameBut(1)
      /\ PipeOf(1) = "asked" /\ UNCHANGED <<sent, got>>
  BY <1>0, <1>6, DialDoneSeen DEF DialDone, dataVars
<1>8. /\ Started("client", 1)' /\ Started("server", 1)'
      /\ \A j \in Session : Started("server", j)' <=> Started("server", j)
  BY <1>0, <1>1, <1>5 DEF Started
<1>9. FirstTunnel'
  <2>1. Upright'
    <3>1. \A x \in End : conn'[x].wsOpen \/ conn'[x].ctxDone
      BY <1>0, <1>2, <1>3 DEF Upright
    <3>2. \A j \in conn'["client"].open : Started("client", j)'
      BY <1>2, <1>3, <1>8
    <3>3. \A j \in conn'["server"].open : Started("server", j)'
      BY <1>0, <1>3, <1>8 DEF Upright
    <3> QED
      BY <1>0, <1>3, <3>1, <3>2, <3>3 DEF Upright
  <2>2. Told'
    <3>1. ~Has(wire["client"], "replyFalse")
      BY <1>0, <1>1 DEF Told, Refused
    <3> QED
      BY <1>1, <1>4, <1>8, <3>1 DEF Told
  <2>3. Reasons'
    <3>1. ~Has(wire["server"], "close") /\ ~Has(wire["client"], "reply")
      BY <1>0, <1>1 DEF Reasons, PipeClosed, Started
    <3>2. serve'["client"][1].pc \notin Closing
      BY <1>5 DEF Closing
    <3> QED
      BY <1>0, <1>1, <1>3, <1>5, <1>7, <3>1, <3>2 DEF Reasons, DownSame, dataVars
  <2> QED
    BY <2>1, <2>2, <2>3 DEF FirstTunnel
<1>10. PipeOf(1)' = "open" /\ TargetOf(1) # "none"
  <2>1. PipeIs(1)' /\ TargetIs(1)
    BY <1>0 DEF UsersSee
  <2> QED
    BY <1>1, <1>2, <1>3, <1>8, <2>1 DEF PipeIs, TargetIs
<1> QED
  BY <1>0, <1>7, <1>9, <1>10, TunnelEstablish, ChunksRest

LEMMA DialContextOK ==
  ASSUME First, TypeOK', ~Crashed("client"), Dial
  PROVE  FirstTunnel' /\ [T!Next]_T!vars
<1> DEFINE a == [client EXCEPT !.status = "Idle"]
           b == [client EXCEPT !.status = "Idle", !.onResult = NoCallback]
<1>0. /\ TypeOK /\ client \in ConnState /\ dial \in Dialing /\ client = conn["client"]
      /\ "client" \in End /\ client.open \subseteq {1}
  BY FirstFacts DEF TypeOK
<1>1. /\ a \in ConnState /\ a.open = client.open /\ a.ctxDone = client.ctxDone
      /\ a.handle = client.handle /\ a.wsOpen = client.wsOpen
  BY <1>0 DEF ConnState, Status
<1>2. /\ b \in ConnState /\ b.open = client.open /\ b.ctxDone = client.ctxDone
      /\ b.handle = client.handle /\ b.wsOpen = client.wsOpen
  BY <1>0, <1>1 DEF ConnState, Callback
<1> HIDE DEF a, b
<1>3. CASE DialInOper \/ (DialResult /\ dial.res = "ok")
  BY <1>0, <1>3, WaitGentle, GentleKeeps, GentleSimulates
<1>4. CASE DialResult /\ dial.res = "fail"
  <2>1. /\ dial.pc = "select" /\ dial'.pc = "idle" /\ dial'.k = dial.k /\ dial'.res = dial.res
        /\ dial'.cancelled = dial.cancelled /\ Becomes("client", a)
        /\ UNCHANGED <<link, wire, serve, dataVars>>
    BY <1>0, <1>4 DEF DialResult, Dialing, a
  <2> QED
    BY <1>1, <1>4, <2>1, DialEndsOK
<1>5. CASE DialCancel
  <2>1. /\ dial.pc = "select" /\ dial'.pc \in {"idle", "stuck"} /\ dial'.k = dial.k
        /\ dial'.res = dial.res /\ dial.cancelled /\ dial'.cancelled = dial.cancelled
        /\ Becomes("client", b) /\ UNCHANGED <<link, wire, serve, dataVars>>
    BY <1>0, <1>5 DEF DialCancel, Dialing, b
  <2> QED
    BY <1>2, <2>1, DialEndsOK
<1>6. CASE DialConnDone
  <2>1. /\ dial.pc = "select" /\ dial'.pc = "idle" /\ dial'.k = dial.k /\ dial'.res = dial.res
        /\ dial'.cancelled = dial.cancelled /\ client.ctxDone
        /\ UNCHANGED <<conn, link, wire, serve, dataVars>>
    BY <1>0, <1>6 DEF DialConnDone, Dialing
  <2>2. Becomes("client", client)
    BY <1>0, <2>1 DEF Becomes, TypeOK
  <2> QED
    BY <1>0, <2>1, <2>2, DialEndsOK
<1>7. CASE DialAccept
  BY <1>7, DialAcceptOK
<1>8. CASE DialResult
  <2>1. dial.res = "ok" \/ dial.res = "fail"
    BY <1>8 DEF DialResult
  <2>2. CASE dial.res = "ok"
    BY <1>3, <1>8, <2>2
  <2>3. CASE dial.res = "fail"
    BY <1>4, <1>8, <2>3
  <2> QED
    BY <2>1, <2>2, <2>3
<1>9. CASE DialInOper
  BY <1>3, <1>9
<1>10. DialInOper \/ DialResult \/ DialCancel \/ DialConnDone \/ DialAccept
  BY DEF Dial
<1> QED
  BY <1>5, <1>6, <1>7, <1>8, <1>9, <1>10

(* The open command of the first dial is sent, or cannot be.               *)
LEMMA DialSendFirstOK ==
  ASSUME First, TypeOK', ~Crashed("client"), DialSend, dial'.k <= 1
  PROVE  FirstTunnel' /\ [T!Next]_T!vars
<1> DEFINE c == [client EXCEPT !.onResult = [kind |-> "dial", k |-> 1]]
           d == [CloseStream(c) EXCEPT !.status = "Closed", !.wsOpen = FALSE, !.ctxDone = TRUE]
<1>0. /\ TypeOK /\ Intact /\ Upright /\ Told /\ Reasons /\ 1 \in Session /\ UsersSee /\ UsersSee'
      /\ "client" \in End /\ "server" \in End /\ End = {"client", "server"}
      /\ client = conn["client"] /\ server = conn["server"] /\ client \in ConnState
      /\ client' = conn'["client"] /\ server' = conn'["server"] /\ Peer("client") = "server"
      /\ dial.k \in {0, 1}
  BY FirstFacts, UsersSeeIt, UsersSeeNext
  DEF client, server, Peer, Intact, FirstOnly, None
<1>1. PICK k \in Session : k = dial.k + 1 /\ dial'.k = k
  BY DEF DialSend
<1>2. dial.k = 0 /\ k = 1
  BY <1>0, <1>1
<1>3. PICK pc \in {"sent", "idle"} :
        /\ dial' = [pc |-> pc, k |-> 1, res |-> "none", cancelled |-> FALSE]
        /\ \/ pc = "sent" /\ Sent("client", c, wire, OpenCmd(1))
           \/ pc = "idle" /\ SendFails("client", c, wire)
  BY <1>1, <1>2 DEF DialSend
<1>4. /\ UNCHANGED <<link, serve, ended, sent, got>> /\ client.status = "Idle"
      /\ dial.pc = "idle"
  BY DEF DialSend, dataVars
<1>5. /\ ~Started("client", 1) /\ ~Started("server", 1) /\ Unopened
      /\ ~Has(wire["client"], "replyTrue") /\ ~Has(wire["server"], "open")
      /\ client.open = {} /\ server.open = {}
  <2>1. Unopened
    BY <1>2 DEF Unopened
  <2>2. /\ ~Started("client", 1) /\ ~Started("server", 1)
        /\ ~Has(wire["client"], "replyTrue") /\ ~Has(wire["server"], "open")
    BY <1>0, <1>2, <2>1 DEF Intact, Opening, Started
  <2>3. client.open \subseteq {1} /\ server.open \subseteq {1}
    BY FirstFacts
  <2> QED
    BY <1>0, <2>1, <2>2, <2>3 DEF Upright
<1>6. /\ ~Has(wire["client"], "replyFalse") /\ ~Has(wire["client"], "reply")
      /\ ~Has(wire["server"], "close")
  BY <1>0, <1>5 DEF Told, Reasons, Refused, PipeClosed
<1>7. /\ c.open = {} /\ c.wsOpen = client.wsOpen /\ c.ctxDone = client.ctxDone
      /\ c.handle = client.handle /\ c.status = "Idle"
      /\ d.open = {} /\ d.ctxDone /\ d.handle = client.handle
  BY <1>0, <1>4, <1>5 DEF ConnState, CloseStream
<1>8. /\ pc = "sent" => Becomes("client", c) /\ wire' = Put(wire, "client", OpenCmd(1))
      /\ pc = "idle" => /\ Becomes("client", d) /\ Down
                        /\ (wire' = wire \/ wire' = Put(wire, "client", Cmd("internalError")))
  <2>1. CASE pc = "sent"
    BY <1>3, <2>1 DEF Sent
  <2>2. CASE pc = "idle"
    <3>1. SendFails("client", c, wire)
      BY <1>3, <2>2
    <3>2. Down
      BY <1>0, <3>1, FailsDown DEF SendFails
    <3> QED
      BY <1>7, <2>2, <3>1, <3>2 DEF SendFails, closeWithCode
  <2> QED
    BY <2>1, <2>2
<1> HIDE DEF c, d
<1>9. \A x \in End, u \in Kinds :
        Has(wire'[x], u) => Has(wire[x], u) \/ u \in {"open", "internalError"}
  <2>1. Less(wire)
    BY <1>0, FirstFacts, SoftSelf
  <2>2. /\ OpenCmd(1) \in Frame /\ OpenCmd(1).t = "open"
        /\ Cmd("internalError") \in Frame /\ Cmd("internalError").t = "internalError"
    BY <1>0, FrameFacts DEF OpenCmd, Cmd, Command
  <2>3. \/ wire' = wire \/ wire' = Put(wire, "client", OpenCmd(1))
        \/ wire' = Put(wire, "client", Cmd("internalError"))
    BY <1>3, <1>8
  <2> QED
    BY <1>0, <2>1, <2>2, <2>3, PutMore
<1>10. {"replyFalse", "replyTrue", "reply", "close"} \subseteq Kinds
  BY DEF Kinds, Command
<1>11. /\ client' \in {c, d} /\ server' = server /\ client'.open = {}
       /\ client'.wsOpen \/ client'.ctxDone
       /\ client'.handle = client.handle
       /\ pc = "sent" => client'.ctxDone = client.ctxDone
       /\ pc = "idle" => client'.ctxDone /\ Down
  BY <1>0, <1>3, <1>7, <1>8 DEF Becomes, TypeOK, Upright
<1>12. \A x \in End, j \in Session : Started(x, j)' <=> Started(x, j)
  BY <1>4 DEF Started
<1>13. DownSame
  <2>1. CASE pc = "sent"
    BY <1>0, <1>4, <1>11, <2>1, DownSameIf
  <2>2. CASE pc = "idle"
    BY <1>0, <1>11, <2>2 DEF DownSame, Down
  <2> QED
    BY <1>3, <2>1, <2>2
<1>14. FirstTunnel'
  <2>1. Upright'
    BY <1>0, <1>5, <1>11 DEF Upright
  <2>2. Told'
    <3>1. ~Asking' => Down'
      BY <1>3, <1>11, <1>13 DEF Asking, DownSame
    <3> QED
      BY <1>0, <1>3, <1>5, <1>6, <1>9, <1>10, <3>1 DEF Told
  <2>3. Reasons'
    BY <1>0, <1>4, <1>5, <1>6, <1>9, <1>10 DEF Reasons, Started, Closing, Ending
  <2> QED
    BY <2>1, <2>2, <2>3 DEF FirstTunnel
<1>15. TargetsSame /\ EndedSame
  <2>1. \A j \in Session : TargetIs(j) /\ TargetIs(j)'
    BY <1>0 DEF UsersSee
  <2> QED
    BY <1>0, <1>4, <1>11, <1>12, <2>1 DEF TargetIs, TargetsSame, EndedSame
<1>16. PipeOf(1) = "none" /\ PipeOf(1)' = IF pc = "sent" THEN "asked" ELSE "failed"
  <2>1. PipeIs(1) /\ PipeIs(1)' /\ ~Started("client", 1)' /\ (Asking' <=> pc = "sent")
    BY <1>0, <1>3, <1>5, <1>12 DEF UsersSee, Asking
  <2> QED
    BY <1>2, <1>3, <1>5, <2>1 DEF PipeIs
<1>17. /\ PipesSameBut(1)
       /\ \A j \in Session : j < 1 => PipeOf(j) \in {"failed", "abandoned", "closed"}
  <2>1. \A j \in Session : j \in Nat /\ j # 0
    BY SessionFacts DEF None
  <2>2. ASSUME NEW j \in Session, j # 1 PROVE PipeOf(j)' = PipeOf(j)
    <3>1. ~Started("client", j) /\ ~Started("client", j)'
      BY <1>0, <1>12, <2>2, FirstFacts
    <3>2. j > dial.k /\ j > dial'.k
      BY <1>2, <1>3, <2>1, <2>2
    <3> QED
      BY <1>0, <3>1, <3>2 DEF UsersSee, PipeIs
  <2> QED
    BY <2>1, <2>2 DEF PipesSameBut
<1>18. CASE pc = "sent"
  BY <1>0, <1>4, <1>13, <1>14, <1>15, <1>16, <1>17, <1>18, TunnelAsk, ChunksRest
<1>19. CASE pc = "idle"
  BY <1>0, <1>4, <1>11, <1>13, <1>14, <1>15, <1>16, <1>17, <1>19, TunnelFail, ChunksRest
<1> QED
  BY <1>3, <1>18, <1>19

(* A target ends or resets its connection; the network breaks.             *)
LEMMA OutsideOK ==
  ASSUME First, TypeOK', Break \/ UNCHANGED vars \/ \E k \in Session : TargetEnd(k)
  PROVE  FirstTunnel' /\ [T!Next]_T!vars
<1>0. /\ TypeOK /\ Upright /\ Told /\ Reasons /\ 1 \in Session /\ "server" \in End
      /\ server = conn["server"] /\ server.open \subseteq {1}
  BY FirstFacts
<1>1. UNCHANGED <<conn, wire, dial, serve, sent, got>>
  BY DEF Break, TargetEnd, vars, dataVars
<1>2. PipesSame /\ TargetsSame
  BY <1>1 DEF PipesSame, TargetsSame, PipeOf, TargetOf, client
<1>3. ASSUME Down => Down', ended[1] # "no" => ended'[1] # "no"
      PROVE  FirstTunnel'
  <2>1. /\ \A x \in End, j \in Session : Started(x, j)' <=> Started(x, j)
        /\ Unopened' <=> Unopened
        /\ Refused' <=> Refused
        /\ PipeClosed' <=> PipeClosed
        /\ Asking' <=> Asking
    BY <1>1 DEF Started, Unopened, Refused, PipeClosed, Asking, client
  <2>2. Upright'
    BY <1>0, <1>1 DEF Upright, Started, server
  <2>3. Told'
    BY <1>0, <1>1, <1>3, <2>1 DEF Told, Started
  <2>4. Reasons'
    BY <1>0, <1>1, <1>3, <2>1 DEF Reasons, client, server
  <2> QED
    BY <2>2, <2>3, <2>4 DEF FirstTunnel
<1>4. CASE UNCHANGED vars
  <2>1. UNCHANGED <<link, ended>>
    BY <1>4 DEF vars, dataVars
  <2>2. (Down' <=> Down) /\ EndedSame
    BY <1>1, <2>1 DEF Down, Crashed, EndedSame
  <2> QED
    BY <1>1, <1>2, <1>3, <2>1, <2>2, TunnelStutter, ChunksRest
<1>5. CASE Break
  <2>1. UNCHANGED ended /\ Down'
    BY <1>5 DEF Break, dataVars, Down
  <2>2. EndedSame
    BY <2>1 DEF EndedSame
  <2> QED
    BY <1>1, <1>2, <1>3, <2>1, <2>2, TunnelDown, ChunksRest
<1>6. ASSUME NEW k \in Session, TargetEnd(k)
      PROVE  FirstTunnel' /\ [T!Next]_T!vars
  <2>1. /\ k \in server.open /\ ended'[k] # "no" /\ UNCHANGED link
        /\ \A j \in Session : j # k => ended'[j] = ended[j]
    BY <1>0, <1>6 DEF TargetEnd, TypeOK
  <2>2. k = 1
    BY <1>0, <2>1
  <2>3. DownSame
    BY <1>1, <2>1, DownSameIf
  <2>4. TargetOf(1) = "open"
    BY <1>0, <2>1, <2>2, OpenAtEnd
  <2>5. T!Next
    BY <1>0, <1>1, <1>2, <2>1, <2>2, <2>3, <2>4, TunnelTargetEnds, ChunksRest
  <2> QED
    BY <1>3, <2>1, <2>2, <2>3, <2>5 DEF DownSame
<1> QED
  BY <1>4, <1>5, <1>6

LEMMA FirstTunnelStep ==
  ASSUME First, [Next]_vars, dial'.k <= 1
  PROVE  FirstTunnel' /\ [T!Next]_T!vars
<1>0. TypeOK /\ TypeOK'
  BY FirstFacts, TypeStep
<1>1. ASSUME NEW e \in End, ~Crashed(e), Gentle(e), UNCHANGED <<sent, got>>
      PROVE  FirstTunnel' /\ [T!Next]_T!vars
  BY <1>0, <1>1, GentleKeeps, GentleSimulates
<1>2. ASSUME NEW e \in End, Step(e)
      PROVE  FirstTunnel' /\ [T!Next]_T!vars
  <2>1. CASE DialTargetOk(e)
    BY <1>0, <1>2, <2>1, DialTargetOK DEF Step
  <2>2. CASE \/ HandleClose(e) \/ HandleOpen(e) \/ DialTargetErr(e) \/ HandleReply(e)
             \/ HandleError(e) \/ HandleData(e)
    <3>1. UNCHANGED <<sent, got>>
      BY <2>2 DEF HandleClose, HandleOpen, DialTargetErr, HandleReply, HandleError, HandleData,
                  dataVars
    <3> QED
      BY <1>1, <1>2, <2>2, <3>1, HandleGentle DEF Step
  <2>3. CASE CopyErr(e) \/ HandleReadErr(e) \/ Ping(e) \/ Close(e)
    <3>1. UNCHANGED <<sent, got>>
      BY <2>3 DEF CopyErr, HandleReadErr, Ping, Close, dataVars
    <3> QED
      BY <1>1, <1>2, <2>3, <3>1, FailureGentle DEF Step
  <2>4. CASE CopyOk(e)
    BY <1>0, <1>2, <2>4, CopyOK DEF Step
  <2>5. ASSUME NEW k \in Session, serveStream(e, k)
        PROVE  FirstTunnel' /\ [T!Next]_T!vars
    <3>1. UNCHANGED <<sent, got>>
      BY <2>5 DEF serveStream, ServeStart, ServeCheck, ServeReadErr, ServeWrite, ServeStatus,
                  ServeSendErr, ServeSetResult, ServeSendClose, ServeWait, ServeReturn, dataVars
    <3> QED
      BY <1>1, <1>2, <2>5, <3>1, ServeGentle DEF Step
  <2>6. ASSUME NEW k \in Session, ServeReadData(e, k)
        PROVE  FirstTunnel' /\ [T!Next]_T!vars
    BY <1>0, <1>2, <2>6, ReadOK DEF Step
  <2> QED
    BY <1>2, <2>1, <2>2, <2>3, <2>4, <2>5, <2>6 DEF Step, Handle
<1>3. CASE ClientStep
  <2>1. ~Crashed("client") /\ "client" \in End
    BY <1>3 DEF ClientStep, End
  <2>2. CASE DialSend
    BY <1>0, <2>1, <2>2, DialSendFirstOK
  <2>3. CASE Dial
    BY <1>0, <2>1, <2>3, DialContextOK
  <2>4. CASE CtxCancel \/ ParentCancel \/ \E k \in Session : UserClose(k)
    BY <1>1, <2>1, <2>4, WaitGentle
  <2> QED
    BY <1>3, <2>2, <2>3, <2>4 DEF ClientStep
<1>4. CASE UNCHANGED vars \/ Break \/ \E k \in Session : TargetEnd(k)
  BY <1>0, <1>4, OutsideOK
<1> QED
  BY <1>2, <1>3, <1>4 DEF Next

LEMMA FirstTunnelInit == Init => FirstTunnel
<1> SUFFICES ASSUME Init PROVE FirstTunnel
  OBVIOUS
<1>1. /\ \A e \in End : /\ conn[e].wsOpen /\ conn[e].open = {} /\ conn[e].onCmdErr = None
                        /\ wire[e] = <<>>
      /\ \A e \in End, k \in Session : serve[e][k].pc = "none"
      /\ dial.k = 0 /\ dial.pc = "idle" /\ dial.res = "none"
      /\ "client" \in End /\ "server" \in End /\ 1 \in Session
  BY FirstInit DEF Init, End, None, Intact, FirstOnly
<1>2. \A e \in End : \A t : ~Has(wire[e], t)
  <2>1. \A e \in End : Len(wire[e]) = 0
    BY <1>1
  <2> QED
    BY <2>1 DEF Has
<1>3. Upright
  BY <1>1 DEF Upright, server
<1>4. Told
  BY <1>1, <1>2 DEF Told
<1>5. Reasons
  BY <1>1, <1>2 DEF Reasons, Closing, Ending
<1> QED
  BY <1>3, <1>4, <1>5 DEF FirstTunnel

(* The first DialContext of a Conn is a session of the Tunnel, whatever    *)
(* happens to it: a target that ends or resets its connection, a caller    *)
(* that gives up or closes the pipe, a lost TCP connection or a shutdown.  *)
(* The pipe leads to the target that was asked for, chunks of any number   *)
(* pass in order in both directions, and the server gives the connection   *)
(* up only for a reason.  Targets do not speak first: a chunk that arrives *)
(* before DialContext made the pipe is dropped by handleBinary.            *)
THEOREM FirstStreamIsTunnel ==
  ASSUME "banner" \notin Env
  PROVE  Spec => T!Init /\ [][dial'.k <= 1 => T!Next]_T!vars
<1> DEFINE Inv == TypeOK /\ (dial.k <= 1 => Intact /\ FirstTunnel)
<1>1. Init => Inv
  BY TypeInit, FirstInit, FirstTunnelInit
<1>2. ASSUME Inv, [Next]_vars
      PROVE  Inv' /\ [dial'.k <= 1 => T!Next]_T!vars
  <2>1. TypeOK'
    BY <1>2, TypeStep
  <2>2. ASSUME dial'.k <= 1
        PROVE  Intact' /\ FirstTunnel' /\ [T!Next]_T!vars
    <3>1. dial.k <= 1
      BY <1>2, <2>2, DialGrows
    <3>2. First
      BY <1>2, <3>1 DEF First
    <3>3. Intact'
      BY <1>2, <2>2, FirstStep
    <3> QED
      BY <1>2, <2>2, <3>2, <3>3, FirstTunnelStep
  <2> QED
    BY <2>1, <2>2
<1> QED
  BY <1>1, <1>2, ChunksInit, PTL DEF Spec

(* On a Conn that is dialled once all that its users see are steps of the  *)
(* Tunnel.                                                                 *)
THEOREM OneStreamImplementsTunnel ==
  ASSUME "banner" \notin Env, MaxDial = 1
  PROVE  Spec => ImplementsTunnelSteps
<1>1. TypeOK /\ TypeOK' /\ [Next]_vars => dial'.k <= 1
  <2>1. TypeOK' => dial'.k \in Stream
    BY DEF TypeOK, Dialing
  <2>2. \A k \in Stream : k <= 1
    BY DEF Stream, Session, None
  <2> QED
    BY <2>1, <2>2
<1>2. Spec => []TypeOK
  BY TypeInit, TypeStep, PTL DEF Spec
<1>3. TypeOK /\ TypeOK' /\ [Next]_vars /\ [dial'.k <= 1 => T!Next]_T!vars => [T!Next]_T!vars
  BY <1>1
<1>4. Spec => T!Safety
  BY <1>2, <1>3, FirstStreamIsTunnel, PTL DEF Spec, T!Safety
<1> QED
  BY <1>4 DEF ImplementsTunnelSteps

=============================================================================
