-------------------------- MODULE PacketConnProofs --------------------------
(***************************************************************************)
(* Proofs about the packet mode of wpn.Conn (module PacketConn), for any   *)
(* number of ListenPacketContext calls, inputs and addresses.              *)
(*                                                                         *)
(* None of the four invariants is inductive.  IInv adds what the code      *)
(* relies on without looking: which end sends which frame, that a frame    *)
(* of data was written by sendPacketData, that no pipe comes before the    *)
(* last ListenPacketContext has returned, which channel is whose, and that *)
(* as long as no call was cancelled at most one request is on its way.     *)
(*                                                                         *)
(* PInv, in the second half of the module, follows the packets from the    *)
(* socket to the user: one socket is served, every packet that is on the   *)
(* wire, with a goroutine, in a channel or returned by ReadFrom was sent   *)
(* from it, and no packet is in two places, or twice in one.               *)
(***************************************************************************)
EXTENDS PacketConn, TLAPS

-----------------------------------------------------------------------------
(* The client sends P and packets, the server answers, reports errors and  *)
(* sends packets; each packet was written by sendPacketData.               *)
FrameSound(e, f) ==
  /\ e = "client" => f.t # "open"
  /\ e = "server" => f.t \in {"open", "data"}
  /\ f.t = "data" => \E p \in Packet : f.f = Format(p)

WireSound(w) ==
  /\ w \in [End -> Seq(Frame)]
  /\ \A e \in End : \A i \in 1 .. Len(w[e]) : FrameSound(e, w[e][i])

(* The frames that ask for a socket, or answer; at most one is on w, and   *)
(* it is about socket k.                                                   *)
Request == {"open", "replyTrue", "replyFalse"}
On(w, t) == \E e \in End : \E i \in 1 .. Len(w[e]) : w[e][i].t = t
Quiet(w) == \A t \in Request : ~On(w, t)
OneRequest(w, k) ==
  /\ \A d, e \in End : \A i \in 1 .. Len(w[d]), j \in 1 .. Len(w[e]) :
       w[d][i].t \in Request /\ w[e][j].t \in Request => d = e /\ i = j
  /\ \A e \in End : \A i \in 1 .. Len(w[e]) : w[e][i].t = "open" => w[e][i].k = k

(* The client opens no socket.  The server has no channel, and no socket   *)
(* while it is idle; it serves one only when it is not idle any more.      *)
EndSound ==
  /\ client.opening = None
  /\ server.packetDataCh = None /\ server.closedCh = {} /\ server.status # "InOper"
  /\ \A h \in hand["server"] : h.ch = None
  /\ server.opening # None => server.status = "Idle"
  /\ server.status = "Idle" =>
       server.packetConn = None /\ \A k \in Listen : serve[k].pc = "none"
  /\ server.status = "Packet" => server.packetConn # None
  /\ \A k \in Listen : serve[k].pc = "check" /\ serve[k].conn = None
                         => server.status = "Closed"

(* A call of ReadFrom or WriteTo is one of a pipe that was given out.      *)
CallSound ==
  /\ read.pc # "idle" => read.k # None /\ pipe[read.k] # "none"
  /\ write.pc # "idle" => write.k # None /\ write.n > 0 /\ pipe[write.k] # "none"
  /\ write.n <= inputs
  /\ \A k \in Listen : serve[k].n <= inputs /\ (serve[k].pc = "write" => serve[k].n > 0)

(* A pipe is that of the last ListenPacketContext, which has returned, and *)
(* then the Conn is never idle again.                                      *)
PipeOfLastListen ==
  /\ \A k \in Listen : pipe[k] # "none" =>
       k = listen.k /\ listen.pc = "idle" /\ client.status \in {"Packet", "Closed"}
  /\ client.status = "Packet" => listen.k # None /\ pipe[listen.k] # "none"
  /\ listen.pc # "idle" => listen.k # None

(* packetDataCh is the channel of a call from the moment it is InOper; it  *)
(* is closed once, when its call is cancelled or by the E of its pipe, and *)
(* only a pipe has packets handed over.                                    *)
ChannelSound ==
  /\ client.packetDataCh <= listen.k
  /\ \A k \in client.closedCh : k <= listen.k
  /\ listen.pc \in {"select", "accepted", "stuck"} => client.packetDataCh = listen.k
  /\ listen.pc # "idle" => listen.k \notin client.closedCh
  /\ client.onCmdErr # None =>
       /\ client.onCmdErr = listen.k /\ client.packetDataCh = listen.k
       /\ pipe[listen.k] # "none" /\ listen.k \notin client.closedCh
  /\ \A k \in Listen : pipe[k] # "none" =>
       /\ client.packetDataCh \in {k, None}
       /\ k \in client.closedCh => pipe[k] \in {"closed", "failed"}
  /\ \A h \in hand["client"] :
       listen.k # None /\ pipe[listen.k] # "none" /\ h.ch \in {listen.k, None}

(* No pipe was given out, and none will be.                                *)
NoPipe == \A k \in Listen : pipe[k] = "none"
Over == client.ctxDone /\ listen.pc = "idle" /\ NoPipe

(* The request of the last call is on the wire, with the PacketListener,   *)
(* or answered; as long as there is no good answer there is no socket.     *)
Opening == server.opening # None
Told == listen.res # "none"
Exchange ==
  /\ OneRequest(wire, listen.k)
  /\ Opening \/ Told => Quiet(wire)
  /\ ~(Opening /\ Told)
  /\ ~Quiet(wire) \/ Opening =>
       listen.pc \in {"sent", "select"} /\ client.onResult = listen.k
  /\ Told => listen.pc \in {"select", "accepted", "stuck"}
  /\ server.opening \in {None, listen.k} /\ server.packetConn \in {None, listen.k}
  /\ On(wire, "replyFalse") \/ listen.res = "fail" \/ (listen.pc = "idle" /\ NoPipe)
       => server.packetConn = None

IInv ==
  /\ TypeOK
  /\ WireSound(wire)
  /\ EndSound
  /\ CallSound
  /\ PipeOfLastListen
  /\ ChannelSound
  /\ listen.stale \/ Over \/ Exchange
  /\ PanicNeedsClosedPipe

-----------------------------------------------------------------------------
(* The codec.                                                              *)

LEMMA ListenFacts ==
  /\ None \notin Listen /\ Listen \subseteq Nat /\ None \in Nat
  /\ "client" \in End /\ "server" \in End
  /\ Peer("client") = "server" /\ Peer("server") = "client"
BY PacketAssumption DEF Listen, None, End, Peer

LEMMA SubSeqOf ==
  ASSUME NEW S, NEW T, NEW f \in Seq(T), NEW i \in Nat \ {0}, NEW j \in Nat,
         j <= Len(f), \A x \in i .. j : f[x] \in S
  PROVE  SubSeq(f, i, j) \in Seq(S)
<1>1. SubSeq(f, i, j) = [x \in 1 .. j - i + 1 |-> f[i + x - 1]]
  BY DEF SubSeq
<1>2. \A x \in 1 .. j - i + 1 : f[i + x - 1] \in S
  OBVIOUS
<1>3. CASE j - i + 1 \in Nat
  BY <1>1, <1>2, <1>3 DEF Seq
<1>4. CASE j - i + 1 \notin Nat
  <2>1. SubSeq(f, i, j) = << >>
    BY <1>1, <1>4
  <2> QED
    BY <2>1
<1> QED
  BY <1>3, <1>4

LEMMA Modulo ==
  ASSUME NEW x \in Nat
  PROVE  /\ x % 256 \in Byte /\ x % 256 <= x
         /\ x < 256 => x % 256 = x
         /\ x >= 256 => (x % 256) + 256 <= x
BY DEF Byte

(* Whatever the lengths, which are written modulo 256, what handleBinary   *)
(* reads back from a packet that was formatted is a packet: it never runs  *)
(* into the data when it takes the two strings.                            *)
LEMMA ParsedFacts ==
  ASSUME NEW p \in Packet
  PROVE  Format(p) \in Seq(Nat) /\ Parsed(Format(p)) \subseteq Packet
<1> DEFINE a == p.network
           b == p.addr
           d == p.data
           l == Len(a) % 256
           m == Len(b) % 256
           s1 == <<l>> \o a
           s2 == s1 \o <<m>>
           s == s2 \o b
           f == s \o d
<1>0. a \in Seq(Byte) /\ b \in Seq(Byte) /\ d \in Seq(Nat)
  BY DEF Packet
<1>1. /\ l \in Byte /\ m \in Byte /\ Byte \subseteq Nat
      /\ Len(a) \in Nat /\ Len(b) \in Nat /\ Len(d) \in Nat
      /\ l <= Len(a) /\ m <= Len(b)
      /\ (Len(a) < 256 => l = Len(a)) /\ (Len(a) >= 256 => l + 256 <= Len(a))
  <2>1. Len(a) \in Nat /\ Len(b) \in Nat /\ Len(d) \in Nat /\ Byte \subseteq Nat
    BY <1>0 DEF Byte
  <2>2. /\ l \in Byte /\ l <= Len(a)
        /\ (Len(a) < 256 => l = Len(a)) /\ (Len(a) >= 256 => l + 256 <= Len(a))
    BY <2>1, Modulo
  <2>3. m \in Byte /\ m <= Len(b)
    BY <2>1, Modulo
  <2> QED
    BY <2>1, <2>2, <2>3
<1>2. f = Format(p)
  BY DEF Format, LengthByte
<1> HIDE DEF a, b, d, l, m
<1>3. s1 \in Seq(Byte) /\ Len(s1) = 1 + Len(a) /\ s1[1] = l
  BY <1>0, <1>1
<1> HIDE DEF s1
<1>4. /\ s2 \in Seq(Byte) /\ Len(s2) = 2 + Len(a) /\ s2[1] = l /\ s2[Len(a) + 2] = m
  BY <1>1, <1>3
<1> HIDE DEF s2
<1>5. /\ s \in Seq(Byte) /\ Len(s) = 2 + Len(a) + Len(b)
      /\ s[1] = l /\ s[Len(a) + 2] = m
  BY <1>0, <1>1, <1>4
<1> HIDE DEF s
<1>6. /\ f \in Seq(Nat) /\ Len(f) = Len(s) + Len(d) /\ Len(s) \in Nat
      /\ \A i \in 1 .. Len(s) : f[i] = s[i]
  <2>1. s \in Seq(Nat)
    <3>1. ASSUME NEW i \in 1 .. Len(s) PROVE s[i] \in Nat
      <4>1. s[i] \in Byte
        BY <1>5
      <4> QED
        BY <1>1, <4>1, Zenon
    <3> QED
      BY <1>5, <3>1
  <2> QED
    BY <1>0, <2>1
<1>7. f[1] = l
  BY <1>1, <1>5, <1>6
<1>8. \A i \in 1 .. Len(s) : f[i] \in Byte
  BY <1>5, <1>6
<1> HIDE DEF f
<1>9. l \in Nat /\ m \in Nat /\ l + 2 \in 1 .. Len(s)
  BY <1>1, <1>5
<1> DEFINE n == f[l + 2]
<1>10. l + n + 2 <= Len(s) /\ n \in Nat
  <2>1. n \in Byte
    BY <1>8, <1>9
  <2>2. n \in Nat /\ n <= 255
    BY <2>1 DEF Byte
  <2>3. CASE Len(a) < 256
    <3>1. n = m
      BY <1>1, <1>5, <1>6, <1>9, <2>3
    <3> QED
      BY <1>1, <1>5, <1>9, <2>2, <2>3, <3>1
  <2>4. CASE Len(a) >= 256
    BY <1>1, <1>5, <1>9, <2>2, <2>4
  <2> QED
    BY <1>1, <2>3, <2>4
<1> HIDE DEF n
<1>11. SubSeq(f, 2, l + 1) \in Seq(Byte)
  <2>1. \A x \in 2 .. l + 1 : f[x] \in Byte
    BY <1>6, <1>8, <1>9, <1>10
  <2> QED
    BY <1>6, <1>9, <1>10, <2>1, SubSeqOf
<1>12. SubSeq(f, l + 3, l + n + 2) \in Seq(Byte)
  <2>1. \A x \in l + 3 .. l + n + 2 : f[x] \in Byte
    BY <1>6, <1>8, <1>9, <1>10
  <2>2. l + 3 \in Nat \ {0} /\ l + n + 2 \in Nat /\ l + n + 2 <= Len(f)
    BY <1>1, <1>6, <1>9, <1>10
  <2> QED
    BY <1>6, <2>1, <2>2, SubSeqOf
<1> DEFINE e == SubSeq(f, l + n + 3, Len(f))
<1>13. e \in Seq(Nat)
  <2>1. \A x \in l + n + 3 .. Len(f) : f[x] \in Nat
    BY <1>6, <1>9, <1>10
  <2> QED
    BY <1>1, <1>6, <1>9, <1>10, <2>1, SubSeqOf
<1> HIDE DEF e
<1>14. ASSUME NEW i \in IF e = <<>> THEN {0} ELSE 1 .. Len(e)
       PROVE  SubSeq(e, 1, i) \in Seq(Nat)
  <2>1. i \in Nat /\ i <= Len(e)
    BY <1>13
  <2> QED
    BY <1>13, <2>1, SubSeqOf
<1>15. Parsed(f) = {[network |-> SubSeq(f, 2, l + 1), addr |-> SubSeq(f, l + 3, l + n + 2),
                     data |-> SubSeq(e, 1, i)] : i \in IF e = <<>> THEN {0} ELSE 1 .. Len(e)}
  BY <1>7 DEF Parsed, n, e
<1>16. Parsed(f) \subseteq Packet
  <2> SUFFICES ASSUME NEW q \in Parsed(f) PROVE q \in Packet
    OBVIOUS
  <2>1. PICK i \in IF e = <<>> THEN {0} ELSE 1 .. Len(e) :
          q = [network |-> SubSeq(f, 2, l + 1), addr |-> SubSeq(f, l + 3, l + n + 2),
               data |-> SubSeq(e, 1, i)]
    BY <1>15
  <2>2. SubSeq(e, 1, i) \in Seq(Nat)
    BY <1>14
  <2> QED
    BY <1>11, <1>12, <2>1, <2>2 DEF Packet
<1> QED
  BY <1>2, <1>6, <1>16

(* What a socket or a pipe sends.                                          *)
LEMMA SentFacts ==
  ASSUME NEW k \in Nat, NEW n \in 1 .. MaxInput
  PROVE  Sent(k, n) \in Packet
<1>1. n \in 1 .. Len(Addrs) /\ Addrs[n] \in Seq(Byte) /\ n \in Nat
  BY PacketAssumption
<1>2. Data(k, n) \in Seq(Nat)
  <2> DEFINE d == k * (MaxInput + 1) + n
  <2>1. MaxInput + 1 \in Nat
    BY PacketAssumption
  <2>2. k * (MaxInput + 1) \in Nat
    BY <2>1
  <2>3. d \in Nat
    BY <1>1, <2>2
  <2> HIDE DEF d
  <2>4. [i \in 1 .. n |-> d] \in Seq(Nat)
    BY <1>1, <2>3
  <2> QED
    BY <2>4 DEF Data, d
<1> QED
  BY <1>1, <1>2, PacketAssumption DEF Sent, Packet

-----------------------------------------------------------------------------
(* The wire: v carries no request that w does not.                         *)

Fewer(w, v) ==
  /\ \A t \in Request : On(v, t) => On(w, t)
  /\ \A k : OneRequest(w, k) => OneRequest(v, k)

LEMMA FewerFacts ==
  /\ \A w : Fewer(w, w)
  /\ \A u, v, w : Fewer(u, v) /\ Fewer(v, w) => Fewer(u, w)
  /\ \A w, v : Fewer(w, v) /\ Quiet(w) => Quiet(v)
BY DEF Fewer, Quiet

LEMMA PutFacts ==
  ASSUME NEW w, WireSound(w), NEW e \in End, NEW f \in Frame, FrameSound(e, f)
  PROVE  LET v == [w EXCEPT ![e] = Append(@, f)] IN
           /\ WireSound(v)
           /\ f.t \notin Request => Fewer(w, v)
           /\ \A k : (f.t = "open" => f.k = k) /\ Quiet(w) => OneRequest(v, k)
           /\ \A t \in Request : On(v, t) => On(w, t) \/ t = f.t
<1> DEFINE v == [w EXCEPT ![e] = Append(@, f)]
<1>1. v \in [End -> Seq(Frame)]
  BY DEF WireSound
<1>2. \A d \in End : d # e => v[d] = w[d]
  BY DEF WireSound
<1>3. /\ Len(w[e]) \in Nat /\ Len(v[e]) = Len(w[e]) + 1 /\ v[e][Len(w[e]) + 1] = f
      /\ \A i \in 1 .. Len(w[e]) : v[e][i] = w[e][i]
  BY DEF WireSound
<1> HIDE DEF v
<1>4. \A d \in End : \A i \in 1 .. Len(v[d]) :
        \/ i \in 1 .. Len(w[d]) /\ v[d][i] = w[d][i]
        \/ d = e /\ i = Len(w[e]) + 1 /\ v[d][i] = f
  BY <1>2, <1>3
<1>5. WireSound(v)
  BY <1>1, <1>4 DEF WireSound
<1>6. \A t \in Request : On(v, t) => On(w, t) \/ t = f.t
  BY <1>4 DEF On
<1>7. ASSUME NEW k, f.t = "open" => f.k = k,
             (OneRequest(w, k) /\ f.t \notin Request) \/ Quiet(w)
      PROVE  OneRequest(v, k)
  <2>1. CASE OneRequest(w, k) /\ f.t \notin Request
    <3>1. "open" \in Request
      BY DEF Request
    <3>2. \A d \in End : \A i \in 1 .. Len(v[d]) :
            v[d][i].t \in Request => i \in 1 .. Len(w[d]) /\ v[d][i] = w[d][i]
      BY <1>4, <2>1
    <3>3. ASSUME NEW a \in End, NEW d \in End,
                 NEW i \in 1 .. Len(v[a]), NEW j \in 1 .. Len(v[d]),
                 v[a][i].t \in Request, v[d][j].t \in Request
          PROVE  a = d /\ i = j
      <4>1. i \in 1 .. Len(w[a]) /\ v[a][i] = w[a][i]
        BY <3>2, <3>3
      <4>2. j \in 1 .. Len(w[d]) /\ v[d][j] = w[d][j]
        BY <3>2, <3>3
      <4> QED
        BY <2>1, <3>3, <4>1, <4>2 DEF OneRequest
    <3>4. ASSUME NEW d \in End, NEW i \in 1 .. Len(v[d]), v[d][i].t = "open"
          PROVE  v[d][i].k = k
      BY <2>1, <3>1, <3>2, <3>4 DEF OneRequest
    <3> QED
      BY <3>3, <3>4 DEF OneRequest
  <2>2. CASE Quiet(w)
    <3>1. \A d \in End : \A i \in 1 .. Len(w[d]) : w[d][i].t \notin Request
      BY <2>2 DEF Quiet, On
    <3>2. "open" \in Request
      BY DEF Request
    <3>3. \A d \in End : \A i \in 1 .. Len(v[d]) :
            v[d][i].t \in Request => d = e /\ i = Len(w[e]) + 1 /\ v[d][i] = f
      BY <1>4, <3>1
    <3> QED
      BY <1>7, <3>2, <3>3 DEF OneRequest
  <2> QED
    BY <1>7, <2>1, <2>2
<1>8. f.t \notin Request => Fewer(w, v)
  BY <1>6, <1>7 DEF Fewer, Request
<1> QED
  BY <1>5, <1>6, <1>7, <1>8 DEF v

LEMMA ReceivedFacts ==
  ASSUME WireSound(wire), NEW e \in End, wire[e] # <<>>
  PROVE  LET f == Head(wire[e]) IN
           /\ WireSound(Received(e)) /\ Fewer(wire, Received(e))
           /\ f \in Frame /\ FrameSound(e, f) /\ On(wire, f.t)
           /\ \A k : OneRequest(wire, k) =>
                /\ f.t \in Request => Quiet(Received(e))
                /\ f.t = "open" => f.k = k
<1> DEFINE v == [wire EXCEPT ![e] = Tail(@)]
           f == Head(wire[e])
<1>1. v = Received(e) /\ v \in [End -> Seq(Frame)]
  BY DEF Received, WireSound
<1>2. \A d \in End : d # e => v[d] = wire[d]
  BY DEF WireSound
<1>3. /\ Len(wire[e]) \in Nat /\ Len(wire[e]) >= 1 /\ Len(v[e]) = Len(wire[e]) - 1
      /\ \A i \in 1 .. Len(v[e]) : v[e][i] = wire[e][i + 1]
      /\ f = wire[e][1] /\ 1 \in 1 .. Len(wire[e])
  BY DEF WireSound
<1>4. f \in Frame /\ FrameSound(e, f) /\ On(wire, f.t)
  BY <1>3 DEF WireSound, On
<1> HIDE DEF v, f
<1>5. \A d \in End : \A i \in 1 .. Len(v[d]) :
        \/ d # e /\ i \in 1 .. Len(wire[d]) /\ v[d][i] = wire[d][i]
        \/ d = e /\ i \in Nat /\ i + 1 \in 1 .. Len(wire[d]) /\ i + 1 # 1 /\ v[d][i] = wire[d][i + 1]
  BY <1>2, <1>3
<1>6. \A d \in End : \A i \in 1 .. Len(v[d]) : \E j \in 1 .. Len(wire[d]) :
        v[d][i] = wire[d][j]
  BY <1>5
<1>7. WireSound(v)
  BY <1>1, <1>6 DEF WireSound
<1>8. \A t \in Request : On(v, t) => On(wire, t)
  BY <1>6 DEF On
<1>9. ASSUME NEW k, OneRequest(wire, k)
      PROVE  OneRequest(v, k) /\ (f.t \in Request => Quiet(v)) /\ (f.t = "open" => f.k = k)
  <2>1. ASSUME NEW a \in End, NEW d \in End,
               NEW i \in 1 .. Len(v[a]), NEW j \in 1 .. Len(v[d]),
               v[a][i].t \in Request, v[d][j].t \in Request
        PROVE  a = d /\ i = j
    <3>1. /\ \/ a # e /\ i \in 1 .. Len(wire[a]) /\ v[a][i] = wire[a][i]
             \/ a = e /\ i \in Nat /\ i + 1 \in 1 .. Len(wire[a]) /\ v[a][i] = wire[a][i + 1]
          /\ \/ d # e /\ j \in 1 .. Len(wire[d]) /\ v[d][j] = wire[d][j]
             \/ d = e /\ j \in Nat /\ j + 1 \in 1 .. Len(wire[d]) /\ v[d][j] = wire[d][j + 1]
      BY <1>5
    <3>2. PICK x \in 1 .. Len(wire[a]) :
            v[a][i] = wire[a][x] /\ x = IF a = e THEN i + 1 ELSE i
      BY <3>1
    <3>3. PICK y \in 1 .. Len(wire[d]) :
            v[d][j] = wire[d][y] /\ y = IF d = e THEN j + 1 ELSE j
      BY <3>1
    <3>4. a = d /\ x = y
      BY <1>9, <2>1, <3>2, <3>3 DEF OneRequest
    <3>5. i \in Nat /\ j \in Nat
      BY <3>1
    <3> QED
      BY <3>2, <3>3, <3>4, <3>5
  <2>2. ASSUME NEW d \in End, NEW i \in 1 .. Len(v[d]), v[d][i].t = "open"
        PROVE  v[d][i].k = k
    BY <1>6, <1>9, <2>2 DEF OneRequest
  <2>3. ASSUME f.t \in Request, NEW d \in End, NEW i \in 1 .. Len(v[d]), v[d][i].t \in Request
        PROVE  FALSE
    <3>1. \/ d # e /\ i \in 1 .. Len(wire[d]) /\ v[d][i] = wire[d][i]
          \/ d = e /\ i + 1 \in 1 .. Len(wire[d]) /\ i + 1 # 1 /\ v[d][i] = wire[d][i + 1]
      BY <1>5
    <3> QED
      BY <1>3, <1>9, <2>3, <3>1 DEF OneRequest
  <2>4. f.t = "open" => f.k = k
    BY <1>3, <1>9 DEF OneRequest
  <2>5. OneRequest(v, k)
    BY <2>1, <2>2 DEF OneRequest
  <2>6. f.t \in Request => Quiet(v)
    BY <2>3 DEF Quiet, On
  <2> QED
    BY <2>4, <2>5, <2>6
<1>10. Fewer(wire, v)
  BY <1>8, <1>9 DEF Fewer
<1> QED
  BY <1>1, <1>4, <1>7, <1>9, <1>10 DEF f

LEMMA ClearedFacts ==
  ASSUME WireSound(wire), NEW e \in End
  PROVE  LET v == [wire EXCEPT ![e] = <<>>] IN WireSound(v) /\ Fewer(wire, v)
<1> DEFINE v == [wire EXCEPT ![e] = <<>>]
<1>1. v \in [End -> Seq(Frame)]
  BY DEF WireSound
<1>2. /\ \A d \in End : d # e => v[d] = wire[d]
      /\ Len(v[e]) = 0
  BY DEF WireSound
<1> HIDE DEF v
<1>3. \A d \in End : \A i \in 1 .. Len(v[d]) : d # e /\ v[d] = wire[d]
  BY <1>2
<1>4. WireSound(v)
  BY <1>1, <1>3 DEF WireSound
<1>5. Fewer(wire, v)
  BY <1>3 DEF Fewer, On, OneRequest
<1> QED
  BY <1>4, <1>5 DEF v

-----------------------------------------------------------------------------
(* Conns.  d is c, or c with its context done or closed.                   *)

Fades(c, d) ==
  /\ d.status \in {c.status, "Closed"}
  /\ d.packetConn = c.packetConn \/ (d.packetConn = None /\ d.status = "Closed")
  /\ d.packetDataCh = c.packetDataCh /\ d.closedCh = c.closedCh
  /\ d.onResult = c.onResult /\ d.onCmdErr = c.onCmdErr
  /\ d.opening = c.opening /\ d.crashed = c.crashed
  /\ c.ctxDone => d.ctxDone

LEMMA CloseFacts ==
  ASSUME NEW c \in ConnState
  PROVE  /\ closeWithErr(c) \in ConnState
         /\ Fades(c, closeWithErr(c)) /\ Fades(c, c)
         /\ closeWithErr(c).status = "Closed"
         /\ c.status # "Closed" => closeWithErr(c).ctxDone
<1> DEFINE o == c.open \ {c.packetConn}
           d == [c EXCEPT !.open = o, !.packetConn = None, !.status = "Closed",
                          !.ctxDone = TRUE]
<1>1. c.status # "Closed" => closeWithErr(c) = d
  BY DEF closeWithErr, CloseSocket, ConnState
<1>2. c.status = "Closed" => closeWithErr(c) = c
  BY DEF closeWithErr
<1>3. d \in ConnState
  BY DEF ConnState, Status
<1>4. Fades(c, d) /\ Fades(c, c) /\ d.status = "Closed" /\ d.ctxDone
  BY DEF ConnState, Fades
<1> QED
  BY <1>1, <1>2, <1>3, <1>4

LEMMA BecomesFacts ==
  ASSUME conn \in [End -> ConnState], NEW e \in End, NEW c \in ConnState, Becomes(e, c)
  PROVE  /\ conn' \in [End -> ConnState] /\ conn'[e] = c
         /\ \A x \in End : x # e => conn'[x] = conn[x]
BY DEF Becomes

LEMMA SendsFacts ==
  ASSUME conn \in [End -> ConnState], NEW e \in End, NEW c \in ConnState,
         NEW w, WireSound(w), NEW f \in Frame, FrameSound(Peer(e), f), Sends(e, c, w, f)
  PROVE  /\ conn' \in [End -> ConnState] /\ conn'[e] = c
         /\ \A x \in End : x # e => conn'[x] = conn[x]
         /\ WireSound(wire')
         /\ f.t \notin Request => Fewer(w, wire')
         /\ \A k : (f.t = "open" => f.k = k) /\ Quiet(w) => OneRequest(wire', k)
         /\ \A t \in Request : On(wire', t) => On(w, t) \/ t = f.t
<1> DEFINE v == [w EXCEPT ![Peer(e)] = Append(@, f)]
<1>1. Peer(e) \in End
  BY DEF Peer, End
<1>2. /\ WireSound(v)
      /\ f.t \notin Request => Fewer(w, v)
      /\ \A k : (f.t = "open" => f.k = k) /\ Quiet(w) => OneRequest(v, k)
      /\ \A t \in Request : On(v, t) => On(w, t) \/ t = f.t
  BY <1>1, PutFacts
<1>3. wire' = v \/ wire' = w
  BY DEF Sends
<1>4. Quiet(w) => \A k : OneRequest(w, k)
  BY DEF Quiet, On, OneRequest, Request
<1>5. /\ conn' \in [End -> ConnState] /\ conn'[e] = c
      /\ \A x \in End : x # e => conn'[x] = conn[x]
  BY BecomesFacts DEF Sends
<1> HIDE DEF v
<1> QED
  BY <1>2, <1>3, <1>4, <1>5, FewerFacts

LEMMA SendFailsFacts ==
  ASSUME conn \in [End -> ConnState], NEW e \in End, NEW c \in ConnState, NEW w,
         SendFails(e, c, w)
  PROVE  /\ conn' \in [End -> ConnState] /\ conn'[e] = closeWithErr(c)
         /\ \A x \in End : x # e => conn'[x] = conn[x]
         /\ wire' = w
BY CloseFacts, BecomesFacts DEF SendFails

-----------------------------------------------------------------------------
(* Most steps change nothing of what the calls of ListenPacketContext have *)
(* done: an end of the Conn may be closed, frames are taken, or sent that  *)
(* are no request, and goroutines move on.                                 *)

HandsOK ==
  /\ \A h \in hand["server"] : h.ch = None
  /\ \A h \in hand["client"] :
       listen.k # None /\ pipe[listen.k] # "none" /\ h.ch \in {listen.k, None}

LEMMA Fade ==
  ASSUME IInv, TypeOK', \A e \in End : Fades(conn[e], conn'[e]),
         UNCHANGED <<listen, pipe>>, WireSound(wire'), Fewer(wire, wire'),
         HandsOK', CallSound', server.opening # None => server'.status = server.status,
         \A k \in Listen : serve[k].pc = "none" => serve'[k].pc = "none",
         \A k \in Listen : serve'[k].pc = "check" /\ serve'[k].conn = None
                             => server'.status = "Closed"
  PROVE  IInv'
<1>1. /\ Fades(client, client') /\ Fades(server, server')
      /\ listen' = listen /\ pipe' = pipe
  BY ListenFacts DEF client, server
<1>2. EndSound'
  <2>1. /\ client'.opening = None /\ server'.packetDataCh = None /\ server'.closedCh = {}
        /\ server'.status # "InOper"
        /\ server'.opening # None => server'.status = "Idle"
        /\ server'.status = "Packet" => server'.packetConn # None
    BY <1>1 DEF IInv, EndSound, Fades
  <2>2. server'.status = "Idle" =>
          server'.packetConn = None /\ \A k \in Listen : serve'[k].pc = "none"
    BY <1>1 DEF IInv, EndSound, Fades
  <2> QED
    BY <2>1, <2>2 DEF EndSound, HandsOK
<1>3. PipeOfLastListen'
  BY <1>1 DEF IInv, PipeOfLastListen, Fades
<1>4. ChannelSound'
  BY <1>1 DEF IInv, ChannelSound, Fades, HandsOK
<1>5. PanicNeedsClosedPipe'
  BY <1>1 DEF IInv, PanicNeedsClosedPipe, Fades
<1>6. (listen.stale \/ Over \/ Exchange)'
  <2>1. Over => Over'
    BY <1>1 DEF Over, NoPipe, Fades
  <2>2. ASSUME Exchange PROVE Exchange'
    <3>1. OneRequest(wire', listen'.k)
      BY <1>1, <2>2 DEF Exchange, Fewer
    <3>2. /\ Quiet(wire) => Quiet(wire')
          /\ On(wire', "replyFalse") => On(wire, "replyFalse")
      BY FewerFacts DEF Fewer, Request
    <3>3. (Opening' <=> Opening) /\ (Told' <=> Told) /\ (NoPipe' <=> NoPipe)
      BY <1>1 DEF Opening, Told, NoPipe, Fades
    <3>4. /\ server'.opening = server.opening /\ client'.onResult = client.onResult
          /\ server'.packetConn \in {server.packetConn, None}
      BY <1>1 DEF Fades
    <3> QED
      BY <1>1, <2>2, <3>1, <3>2, <3>3, <3>4 DEF Exchange
  <2> QED
    BY <1>1, <2>1, <2>2 DEF IInv
<1> QED
  BY <1>2, <1>3, <1>4, <1>5, <1>6 DEF IInv

-----------------------------------------------------------------------------
(* servePacket.                                                            *)

InputsGrow == inputs' \in Nat /\ inputs <= inputs' /\ inputs' <= MaxInput

LEMMA ServeMove ==
  ASSUME IInv, InputsGrow, NEW k \in Listen, NEW s \in Serving, serve[k].pc # "none",
         serve' = [serve EXCEPT ![k] = s], UNCHANGED <<listen, pipe, buf, hand, userVars>>,
         s.pc \notin {"none", "start", "check", "ended"} => s.conn # None,
         s.n <= inputs', s.pc = "write" => s.n > 0,
         s.pc = "check" /\ s.conn = None => server'.status = "Closed",
         conn' \in [End -> ConnState], conn'["client"] = conn["client"],
         Fades(conn["server"], conn'["server"]), WireSound(wire'), Fewer(wire, wire')
  PROVE  IInv'
<1>0. /\ TypeOK /\ serve \in [Listen -> Serving] /\ inputs \in Nat
      /\ listen' = listen /\ pipe' = pipe /\ hand' = hand /\ buf' = buf
      /\ read' = read /\ write' = write /\ got' = got
      /\ CallSound /\ EndSound /\ ChannelSound
  BY DEF IInv, TypeOK, userVars
<1>1. /\ serve' \in [Listen -> Serving] /\ serve'[k] = s
      /\ \A j \in Listen : j # k => serve'[j] = serve[j]
  BY <1>0
<1>2. TypeOK'
  <2>1. \A j \in Listen : serve'[j].pc \notin {"none", "start", "check", "ended"}
                            => serve'[j].conn # None
    BY <1>0, <1>1 DEF TypeOK
  <2>2. wire' \in [End -> Seq(Frame)] /\ inputs' \in 0 .. MaxInput
    BY PacketAssumption DEF WireSound, InputsGrow
  <2> QED
    BY <1>0, <1>1, <2>1, <2>2 DEF TypeOK
<1>3. \A e \in End : Fades(conn[e], conn'[e])
  <2>1. conn["client"] \in ConnState
    BY <1>0 DEF TypeOK, End
  <2> QED
    BY <2>1, CloseFacts DEF End
<1>4. server.opening = None
  BY <1>0 DEF EndSound
<1>5. HandsOK'
  BY <1>0 DEF HandsOK, EndSound, ChannelSound
<1>6. CallSound'
  <2>1. ASSUME NEW j \in Listen
        PROVE  serve'[j].n <= inputs' /\ (serve'[j].pc = "write" => serve'[j].n > 0)
    <3>1. CASE j = k
      BY <1>1, <3>1
    <3>2. CASE j # k
      <4>1. serve'[j] = serve[j] /\ serve[j] \in Serving /\ serve[j].n <= inputs
        BY <1>0, <1>1, <3>2 DEF CallSound
      <4>2. serve[j].n \in Nat
        BY <4>1 DEF Serving
      <4> QED
        BY <1>0, <4>1, <4>2 DEF CallSound, InputsGrow
    <3> QED
      BY <3>1, <3>2
  <2>2. write.n \in Nat
    BY <1>0 DEF TypeOK
  <2>3. write'.n <= inputs'
    BY <1>0, <2>2 DEF CallSound, InputsGrow
  <2> QED
    BY <1>0, <2>1, <2>3 DEF CallSound
<1>7. \A j \in Listen : serve[j].pc = "none" => serve'[j].pc = "none"
  BY <1>1
<1>8. \A j \in Listen : serve'[j].pc = "check" /\ serve'[j].conn = None
                          => server'.status = "Closed"
  <2>1. server.status = "Closed" => server'.status = "Closed"
    BY DEF Fades, server
  <2> QED
    BY <1>0, <1>1, <2>1 DEF EndSound
<1> QED
  BY <1>0, <1>2, <1>3, <1>4, <1>5, <1>6, <1>7, <1>8, Fade

LEMMA ServeOK ==
  ASSUME IInv, InputsGrow, NEW k \in Listen,
         servePacket(k) \/ SocketErr(k) \/ (ServeReadFrom(k) /\ inputs' = inputs + 1)
  PROVE  IInv'
<1> DEFINE s == serve[k]
<1>0. /\ TypeOK /\ s \in Serving /\ serve \in [Listen -> Serving] /\ conn \in [End -> ConnState]
      /\ server \in ConnState /\ server = conn["server"] /\ WireSound(wire) /\ EndSound
      /\ CallSound /\ inputs \in Nat /\ client' = conn'["client"] /\ server' = conn'["server"]
      /\ Fewer(wire, wire)
  BY ListenFacts, FewerFacts DEF IInv, TypeOK, server, client
<1>1. /\ s.pc \in ServePC /\ s.conn \in Listen \cup {None} /\ s.n \in 0 .. MaxInput
      /\ s.n \in Nat /\ s.n <= inputs /\ s.n <= inputs' /\ (s.pc = "write" => s.n > 0)
      /\ s.pc \notin {"none", "start", "check", "ended"} => s.conn # None
  <2>1. /\ s.pc \in ServePC /\ s.conn \in Listen \cup {None} /\ s.n \in 0 .. MaxInput
        /\ s.n \in Nat
    BY <1>0 DEF Serving
  <2>2. s.n <= inputs /\ (s.pc = "write" => s.n > 0)
    BY <1>0 DEF CallSound
  <2>3. s.pc \notin {"none", "start", "check", "ended"} => s.conn # None
    BY <1>0 DEF TypeOK
  <2>4. s.n <= inputs'
    BY <1>0, <2>1, <2>2 DEF InputsGrow
  <2> HIDE DEF s
  <2> QED
    BY <2>1, <2>2, <2>3, <2>4
<1>2. ASSUME NEW pc \in ServePC \ {"none"}, ServeGoto(k, pc)
      PROVE  serve' = [serve EXCEPT ![k] = [s EXCEPT !.pc = pc]]
             /\ [s EXCEPT !.pc = pc] \in Serving
             /\ [s EXCEPT !.pc = pc].pc = pc /\ [s EXCEPT !.pc = pc].n = s.n
             /\ [s EXCEPT !.pc = pc].conn = s.conn
  BY <1>0, <1>2 DEF ServeGoto, Serving
<1>3. ASSUME UNCHANGED <<conn, wire>>
      PROVE  /\ conn' \in [End -> ConnState] /\ conn'["client"] = conn["client"]
             /\ Fades(conn["server"], conn'["server"]) /\ WireSound(wire') /\ Fewer(wire, wire')
             /\ server' = server
  <2>1. conn' = conn /\ wire' = wire
    BY <1>3
  <2> QED
    BY <1>0, <2>1, CloseFacts
<1>4. CASE ServeStart(k)
  <2> DEFINE t == [s EXCEPT !.pc = "check", !.conn = server.packetConn]
  <2>1. serve' = [serve EXCEPT ![k] = t] /\ s.pc = "start"
        /\ UNCHANGED <<conn, wire>> /\ UNCHANGED <<listen, pipe, buf, hand, userVars>>
    BY <1>0, <1>4 DEF ServeStart, Serving
  <2>2. /\ t \in Serving /\ t.pc = "check" /\ t.conn = server.packetConn /\ t.n = s.n
    BY <1>0 DEF Serving, ServePC, ConnState
  <2>3. server.packetConn = None => server.status = "Closed"
    BY <1>0, <2>1 DEF EndSound, ConnState, Status
  <2> HIDE DEF t
  <2> QED
    BY <1>0, <1>1, <1>3, <2>1, <2>2, <2>3, ServeMove
<1>5. CASE ServeCheck(k)
  <2>1. PICK pc \in {"read", "ended"} : ServeGoto(k, pc) /\ (pc = "read" => server.status = "Packet")
    BY <1>5 DEF ServeCheck
  <2>2. s.pc = "check" /\ UNCHANGED <<conn, wire>> /\ UNCHANGED <<listen, pipe, buf, hand, userVars>>
    BY <1>5 DEF ServeCheck
  <2>3. pc = "read" => s.conn # None
    BY <1>0, <2>1, <2>2 DEF EndSound
  <2>4. pc \in ServePC \ {"none"} /\ pc # "check"
    BY <2>1 DEF ServePC
  <2> DEFINE t == [s EXCEPT !.pc = pc]
  <2>5. serve' = [serve EXCEPT ![k] = t] /\ t \in Serving /\ t.pc = pc /\ t.n = s.n /\ t.conn = s.conn
    BY <1>2, <2>1, <2>4
  <2> HIDE DEF t
  <2> QED
    BY <1>0, <1>1, <1>3, <2>1, <2>2, <2>3, <2>4, <2>5, ServeMove
<1>6. CASE ServeReadFrom(k) /\ inputs' = inputs + 1
  <2> DEFINE t == [s EXCEPT !.pc = "write", !.n = @ + 1]
  <2>1. serve' = [serve EXCEPT ![k] = t] /\ s.pc = "read"
        /\ UNCHANGED <<conn, wire>> /\ UNCHANGED <<listen, pipe, buf, hand, userVars>>
    BY <1>0, <1>6 DEF ServeReadFrom, Serving
  <2>2. s.n + 1 \in 0 .. MaxInput /\ s.n + 1 <= inputs'
    BY <1>0, <1>1, <1>6, PacketAssumption DEF InputsGrow
  <2>3. /\ t \in Serving /\ t.pc = "write" /\ t.conn = s.conn /\ t.n = s.n + 1
    BY <1>0, <2>2 DEF Serving, ServePC
  <2>4. t.n > 0
    BY <1>1, <2>3
  <2> HIDE DEF t
  <2> QED
    BY <1>0, <1>1, <1>3, <2>1, <2>2, <2>3, <2>4, ServeMove
<1>7. CASE ServeReadErr(k) \/ SocketErr(k) \/ ServeStatus(k)
  <2>1. PICK pc \in {"fail", "sendErr", "return"} : ServeGoto(k, pc)
    BY <1>7 DEF ServeReadErr, SocketErr, ServeStatus
  <2>2. s.pc \in {"read", "fail"} /\ UNCHANGED <<conn, wire>>
        /\ UNCHANGED <<listen, pipe, buf, hand, userVars>>
    BY <1>7 DEF ServeReadErr, SocketErr, ServeStatus
  <2>3. pc \in ServePC \ {"none"} /\ pc # "check" /\ pc # "write" /\ s.conn # None
    BY <1>1, <2>1, <2>2 DEF ServePC
  <2> DEFINE t == [s EXCEPT !.pc = pc]
  <2>4. serve' = [serve EXCEPT ![k] = t] /\ t \in Serving /\ t.pc = pc /\ t.n = s.n /\ t.conn = s.conn
    BY <1>2, <2>1, <2>3
  <2> HIDE DEF t
  <2> QED
    BY <1>0, <1>1, <1>3, <2>1, <2>2, <2>3, <2>4, ServeMove
<1>8. CASE ServeWrite(k) \/ ServeSendErr(k)
  <2>1. /\ s.pc \in {"write", "sendErr"} /\ s.conn # None /\ s.conn \in Nat
        /\ UNCHANGED <<listen, pipe, buf, hand, userVars>>
    BY <1>1, <1>8, ListenFacts DEF ServeWrite, ServeSendErr
  <2>2. PICK pc \in {"read", "return"} : ServeGoto(k, pc)
    BY <1>8 DEF ServeWrite, ServeSendErr
  <2>3. pc \in ServePC \ {"none"} /\ pc # "check" /\ pc # "write"
    BY <2>2 DEF ServePC
  <2> DEFINE t == [s EXCEPT !.pc = pc]
             f == DataFrame(Sent(s.conn, s.n))
  <2>4. serve' = [serve EXCEPT ![k] = t] /\ t \in Serving /\ t.pc = pc /\ t.n = s.n /\ t.conn = s.conn
    BY <1>2, <2>2, <2>3
  <2>5. /\ conn' \in [End -> ConnState] /\ conn'["client"] = conn["client"]
        /\ Fades(conn["server"], conn'["server"]) /\ WireSound(wire') /\ Fewer(wire, wire')
    <3>1. CASE SendFails("server", server, wire)
      BY <1>0, <3>1, SendFailsFacts, CloseFacts, ListenFacts
    <3>2. ASSUME NEW g \in Frame, FrameSound("client", g), g.t \notin Request,
                 Sends("server", server, wire, g)
          PROVE  /\ conn' \in [End -> ConnState] /\ conn'["client"] = conn["client"]
                 /\ Fades(conn["server"], conn'["server"])
                 /\ WireSound(wire') /\ Fewer(wire, wire')
      BY <1>0, <3>2, SendsFacts, CloseFacts, ListenFacts
    <3>3. CASE ServeWrite(k) /\ Sends("server", server, wire, f)
      <4>1. s.n \in 1 .. MaxInput
        BY <1>1, <3>3 DEF ServeWrite
      <4>2. Sent(s.conn, s.n) \in Packet
        BY <2>1, <4>1, SentFacts
      <4>3. f.t = "data" /\ f.f = Format(Sent(s.conn, s.n)) /\ f.k = None
            /\ f = [t |-> "data", k |-> None, f |-> Format(Sent(s.conn, s.n))]
        BY DEF DataFrame, Cmd
      <4>4. f \in Frame
        BY <4>2, <4>3, ParsedFacts DEF Frame
      <4>5. FrameSound("client", f) /\ f.t \notin Request
        BY <4>2, <4>3 DEF FrameSound, Request
      <4> HIDE DEF f
      <4> QED
        BY <3>2, <3>3, <4>4, <4>5
    <3>4. CASE ServeSendErr(k) /\ Sends("server", server, wire, Cmd("error"))
      <4>1. Cmd("error") \in Frame /\ FrameSound("client", Cmd("error"))
            /\ Cmd("error").t \notin Request
        BY DEF Cmd, Frame, FrameSound, Request
      <4> QED
        BY <3>2, <3>4, <4>1
    <3> QED
      BY <1>8, <3>1, <3>3, <3>4 DEF ServeWrite, ServeSendErr
  <2> HIDE DEF t
  <2> QED
    BY <1>0, <1>1, <2>1, <2>2, <2>3, <2>4, <2>5, ServeMove
<1>9. CASE ServeReturn(k)
  <2> DEFINE d == [server EXCEPT !.open = @ \ {s.conn}]
             t == [s EXCEPT !.pc = "ended"]
  <2>1. /\ s.pc = "return" /\ Becomes("server", d) /\ ServeGoto(k, "ended") /\ wire' = wire
        /\ UNCHANGED <<listen, pipe, buf, hand, userVars>>
    BY <1>9 DEF ServeReturn
  <2>2. d \in ConnState
    <3>1. server.open \ {s.conn} \in SUBSET Listen
      BY <1>0 DEF ConnState
    <3> QED
      BY <1>0, <3>1 DEF ConnState
  <2>3. Fades(server, d)
    BY <1>0 DEF ConnState, Fades
  <2>4. conn' \in [End -> ConnState] /\ conn'["server"] = d /\ conn'["client"] = conn["client"]
    BY <1>0, <2>1, <2>2, BecomesFacts, ListenFacts
  <2>5. "ended" \in ServePC \ {"none"}
    BY DEF ServePC
  <2>6. serve' = [serve EXCEPT ![k] = t] /\ t \in Serving /\ t.pc = "ended" /\ t.n = s.n
    BY <1>2, <2>1, <2>5
  <2> HIDE DEF t, d
  <2> QED
    BY <1>0, <1>1, <2>1, <2>3, <2>4, <2>6, ServeMove
<1> QED
  BY <1>4, <1>5, <1>6, <1>7, <1>8, <1>9 DEF servePacket

-----------------------------------------------------------------------------
(* The other steps that leave the calls of ListenPacketContext alone.      *)

HandsTyped == hand \in [End -> SUBSET Handover] /\ HandsOK

UserOK ==
  /\ buf \in [Listen -> Seq(Packet)] /\ \A k \in Listen : Len(buf[k]) <= ChanCap
  /\ read \in [pc : {"idle", "called", "select"}, k : Listen \cup {None},
               ch : Listen \cup {None}]
  /\ write \in [pc : {"idle", "called"}, k : Listen \cup {None}, n : 0 .. MaxInput]
  /\ got \in Seq([k : Listen, p : Packet])
  /\ read.pc # "idle" => read.k # None /\ pipe[read.k] # "none"
  /\ write.pc # "idle" => write.k # None /\ write.n > 0 /\ pipe[write.k] # "none"
  /\ write.n <= inputs

LEMMA Kept ==
  ASSUME IInv, InputsGrow
  PROVE  /\ HandsTyped /\ UserOK
         /\ UNCHANGED <<hand, listen, pipe>> => HandsTyped'
         /\ UNCHANGED <<buf, read, write, got, pipe>> => UserOK'
         /\ UNCHANGED serve =>
              /\ serve' \in [Listen -> Serving]
              /\ \A k \in Listen : serve'[k].pc \notin {"none", "start", "check", "ended"}
                                     => serve'[k].conn # None
              /\ \A k \in Listen : serve'[k].n <= inputs' /\ (serve'[k].pc = "write" => serve'[k].n > 0)
<1>1. HandsTyped
  BY DEF IInv, TypeOK, HandsTyped, HandsOK, EndSound, ChannelSound
<1>2. UserOK
  BY DEF IInv, TypeOK, UserOK, CallSound
<1>3. UNCHANGED <<hand, listen, pipe>> => HandsTyped'
  BY <1>1 DEF HandsTyped, HandsOK
<1>4. UNCHANGED <<buf, read, write, got, pipe>> => UserOK'
  <2> SUFFICES ASSUME UNCHANGED <<buf, read, write, got, pipe>> PROVE UserOK'
    OBVIOUS
  <2>1. /\ buf' = buf /\ read' = read /\ write' = write /\ got' = got /\ pipe' = pipe
        /\ write.n \in Nat /\ inputs \in Nat
    BY <1>2 DEF UserOK, IInv, TypeOK
  <2>2. write'.n <= inputs'
    BY <1>2, <2>1 DEF UserOK, InputsGrow
  <2> QED
    BY <1>2, <2>1, <2>2 DEF UserOK
<1>5. ASSUME UNCHANGED serve
      PROVE  /\ serve' \in [Listen -> Serving]
             /\ \A k \in Listen : serve'[k].pc \notin {"none", "start", "check", "ended"}
                                    => serve'[k].conn # None
             /\ \A k \in Listen : serve'[k].n <= inputs' /\ (serve'[k].pc = "write" => serve'[k].n > 0)
  <2>1. serve' = serve /\ serve \in [Listen -> Serving] /\ inputs \in Nat
    BY <1>5 DEF IInv, TypeOK
  <2>2. ASSUME NEW k \in Listen PROVE serve[k].n <= inputs'
    <3>1. serve[k].n \in Nat /\ serve[k].n <= inputs
      BY <2>1 DEF IInv, CallSound, Serving
    <3> QED
      BY <2>1, <3>1 DEF InputsGrow
  <2> QED
    BY <2>1, <2>2 DEF IInv, TypeOK, CallSound
<1> QED
  BY <1>1, <1>2, <1>3, <1>4, <1>5

LEMMA Quietly ==
  ASSUME IInv, InputsGrow, UNCHANGED <<listen, pipe, serve>>,
         conn' \in [End -> ConnState], \A e \in End : Fades(conn[e], conn'[e]),
         server.opening # None => server'.status = server.status,
         WireSound(wire'), Fewer(wire, wire'), HandsTyped', UserOK'
  PROVE  IInv'
<1>1. /\ serve' \in [Listen -> Serving] /\ serve' = serve
      /\ \A k \in Listen : serve'[k].pc \notin {"none", "start", "check", "ended"}
                             => serve'[k].conn # None
      /\ \A k \in Listen : serve'[k].n <= inputs' /\ (serve'[k].pc = "write" => serve'[k].n > 0)
  BY Kept
<1>2. TypeOK'
  <2>1. listen' \in ListenState /\ pipe' \in [Listen -> {"none", "open", "failed", "closed"}]
    BY DEF IInv, TypeOK
  <2>2. wire' \in [End -> Seq(Frame)] /\ inputs' \in 0 .. MaxInput
    BY PacketAssumption DEF WireSound, InputsGrow
  <2> QED
    BY <1>1, <2>1, <2>2 DEF TypeOK, HandsTyped, UserOK
<1>3. CallSound'
  BY <1>1 DEF CallSound, UserOK
<1>4. HandsOK'
  BY DEF HandsTyped
<1>5. \A k \in Listen : serve'[k].pc = "check" /\ serve'[k].conn = None
                          => server'.status = "Closed"
  <2>1. server.status = "Closed" => server'.status = "Closed"
    BY ListenFacts DEF Fades, server
  <2> QED
    BY <1>1, <2>1 DEF IInv, EndSound
<1> QED
  BY <1>1, <1>2, <1>3, <1>4, <1>5, Fade

(* One end of the Conn is closed, or nothing of it changes.                *)
LEMMA OneEnd ==
  ASSUME TypeOK, NEW e \in End, NEW c \in ConnState, Fades(conn[e], c), Becomes(e, c),
         e = "server" => server.opening = None
  PROVE  /\ conn' \in [End -> ConnState] /\ \A x \in End : Fades(conn[x], conn'[x])
         /\ server.opening # None => server'.status = server.status
<1>1. /\ conn' \in [End -> ConnState] /\ conn'[e] = c
      /\ \A x \in End : x # e => conn'[x] = conn[x]
  BY BecomesFacts DEF TypeOK
<1>2. \A x \in End : Fades(conn[x], conn'[x])
  <2>1. \A x \in End : Fades(conn[x], conn[x])
    BY CloseFacts DEF TypeOK
  <2> QED
    BY <1>1, <2>1
<1> QED
  BY <1>1, <1>2, ListenFacts DEF server

LEMMA NoEnd ==
  ASSUME TypeOK, UNCHANGED conn
  PROVE  /\ conn' \in [End -> ConnState] /\ \A x \in End : Fades(conn[x], conn'[x])
         /\ server.opening # None => server'.status = server.status
<1>1. \A x \in End : Fades(conn[x], conn[x])
  BY CloseFacts DEF TypeOK
<1> QED
  BY <1>1 DEF TypeOK, server

(* handleBinary starts a goroutine for a packet; the goroutine.            *)
LEMMA HandsStep ==
  ASSUME IInv, InputsGrow, NEW e \in End, HandleData(e)
  PROVE  IInv'
<1>0. /\ TypeOK /\ WireSound(wire) /\ hand \in [End -> SUBSET Handover] /\ HandsOK
      /\ UNCHANGED conn /\ UNCHANGED <<listen, pipe, serve>>
      /\ UNCHANGED <<buf, read, write, got, pipe>> /\ wire[e] # <<>>
      /\ Head(wire[e]).t = "data" /\ wire' = Received(e)
  BY Kept DEF IInv, HandsTyped, HandleData, userVars, Incoming, AtHead
<1> DEFINE f == Head(wire[e])
<1>1. WireSound(wire') /\ Fewer(wire, wire') /\ FrameSound(e, f)
  BY <1>0, ReceivedFacts
<1>2. PICK p \in Parsed(f.f) :
        hand' = IF conn[e].status = "Packet"
                THEN [hand EXCEPT ![e] = @ \cup {[at |-> "start", ch |-> None, p |-> p]}]
                ELSE hand
  BY DEF HandleData
<1>3. p \in Packet
  <2>1. PICK q \in Packet : f.f = Format(q)
    BY <1>0, <1>1 DEF FrameSound
  <2> QED
    BY <2>1, ParsedFacts
<1> DEFINE h == [at |-> "start", ch |-> None, p |-> p]
<1>4. h \in Handover /\ h.ch = None
  BY <1>3 DEF Handover
<1> HIDE DEF h, f
<1>5. CASE conn[e].status = "Packet"
  <2>1. hand' = [hand EXCEPT ![e] = @ \cup {h}]
    BY <1>2, <1>5 DEF h
  <2>2. hand' \in [End -> SUBSET Handover]
    BY <1>0, <1>4, <2>1
  <2>3. hand'["server"] \subseteq hand["server"] \cup {h}
    BY <1>0, <2>1, ListenFacts
  <2>4. \A g \in hand'["server"] : g.ch = None
    BY <1>0, <1>4, <2>3 DEF HandsOK
  <2>5. \A g \in hand'["client"] :
          listen.k # None /\ pipe[listen.k] # "none" /\ g.ch \in {listen.k, None}
    <3>1. CASE e = "client"
      <4>1. listen.k # None /\ pipe[listen.k] # "none"
        BY <1>5, <3>1 DEF IInv, PipeOfLastListen, client
      <4>2. hand'["client"] = hand["client"] \cup {h}
        BY <1>0, <2>1, <3>1, ListenFacts
      <4> QED
        BY <1>0, <1>4, <4>1, <4>2 DEF HandsOK
    <3>2. CASE e # "client"
      <4>1. hand'["client"] = hand["client"]
        BY <1>0, <2>1, <3>2, ListenFacts
      <4> QED
        BY <1>0, <4>1 DEF HandsOK
    <3> QED
      BY <3>1, <3>2
  <2>6. HandsTyped'
    BY <1>0, <2>2, <2>4, <2>5 DEF HandsTyped, HandsOK
  <2> QED
    BY <1>0, <1>1, <2>6, Kept, NoEnd, Quietly
<1>6. CASE conn[e].status # "Packet"
  <2>1. UNCHANGED <<hand, listen, pipe>>
    BY <1>0, <1>2, <1>6
  <2> QED
    BY <1>0, <1>1, <2>1, Kept, NoEnd, Quietly
<1> QED
  BY <1>5, <1>6

(* A process that ends by a panic over a pipe that was closed.             *)
LEMMA PanicsOK ==
  ASSUME IInv, InputsGrow, Panics, NEW k \in Listen, pipe[k] \in {"closed", "failed"}
  PROVE  IInv'
<1> DEFINE c == [client EXCEPT !.crashed = TRUE]
<1>0. /\ TypeOK /\ client \in ConnState /\ client = conn["client"] /\ listen \in ListenState
      /\ server = conn["server"] /\ client' = conn'["client"] /\ server' = conn'["server"]
      /\ k = listen.k /\ listen.pc = "idle" /\ pipe' = pipe
      /\ HandsTyped /\ UserOK
      /\ inputs \in Nat /\ WireSound(wire)
  BY Kept, ListenFacts DEF IInv, TypeOK, client, server, PipeOfLastListen, Panics
<1>1. /\ c \in ConnState /\ c.status = client.status /\ c.packetDataCh = client.packetDataCh
      /\ c.closedCh = client.closedCh /\ c.onCmdErr = client.onCmdErr
      /\ c.onResult = client.onResult /\ c.opening = client.opening
  BY <1>0 DEF ConnState
<1>2. conn' \in [End -> ConnState] /\ client' = c /\ server' = server
  BY <1>0, <1>1, BecomesFacts, ListenFacts DEF Panics, TypeOK
<1> HIDE DEF c
<1>3. /\ listen' \in ListenState /\ listen'.k = listen.k /\ listen'.pc = "idle"
      /\ listen'.stale = listen.stale /\ listen'.res = "none"
  BY <1>0 DEF Panics, ListenOver, ListenState
<1>4. WireSound(wire') /\ Fewer(wire, wire')
  BY <1>0, ClearedFacts, ListenFacts DEF Panics
<1>5. /\ hand' \in [End -> SUBSET Handover] /\ hand'["client"] = {}
      /\ hand'["server"] = hand["server"]
  BY <1>0, ListenFacts DEF Panics, HandsTyped
<1>6. UserOK'
  <2>1. /\ buf' \in [Listen -> Seq(Packet)] /\ \A j \in Listen : buf'[j] = <<>>
    BY DEF Panics
  <2>2. \A j \in Listen : Len(buf'[j]) <= ChanCap
    BY <2>1, PacketAssumption
  <2>3. /\ read' = NoRead
        /\ read' \in [pc : {"idle", "called", "select"}, k : Listen \cup {None},
                      ch : Listen \cup {None}]
        /\ read'.pc = "idle"
    BY DEF Panics, NoRead
  <2>4. /\ write' \in [pc : {"idle", "called"}, k : Listen \cup {None}, n : 0 .. MaxInput]
        /\ write'.pc = "idle" /\ write'.n = write.n /\ write.n \in Nat
    <3>1. write' = [write EXCEPT !.pc = "idle"]
      BY DEF Panics
    <3>2. write \in [pc : {"idle", "called"}, k : Listen \cup {None}, n : 0 .. MaxInput]
      BY <1>0 DEF UserOK
    <3> QED
      BY <3>1, <3>2
  <2>5. write'.n <= inputs'
    BY <1>0, <2>4 DEF UserOK, InputsGrow
  <2>6. got' = got
    BY DEF Panics
  <2> QED
    BY <1>0, <2>1, <2>2, <2>3, <2>4, <2>5, <2>6 DEF UserOK
<1>7. /\ serve' = serve /\ serve' \in [Listen -> Serving]
      /\ \A j \in Listen : serve'[j].pc \notin {"none", "start", "check", "ended"}
                             => serve'[j].conn # None
      /\ \A j \in Listen : serve'[j].n <= inputs' /\ (serve'[j].pc = "write" => serve'[j].n > 0)
  BY Kept DEF Panics
<1>8. TypeOK'
  <2>1. wire' \in [End -> Seq(Frame)] /\ inputs' \in 0 .. MaxInput
    BY <1>4, PacketAssumption DEF WireSound, InputsGrow
  <2> QED
    BY <1>0, <1>2, <1>3, <1>5, <1>6, <1>7, <2>1 DEF TypeOK, UserOK
<1>9. EndSound'
  BY <1>1, <1>2, <1>5, <1>7 DEF IInv, EndSound
<1>10. CallSound'
  BY <1>6, <1>7 DEF CallSound, UserOK
<1>11. PipeOfLastListen'
  BY <1>0, <1>1, <1>2, <1>3 DEF IInv, PipeOfLastListen
<1>12. ChannelSound'
  BY <1>0, <1>1, <1>2, <1>3, <1>5 DEF IInv, ChannelSound
<1>13. (listen.stale \/ Over \/ Exchange)'
  <2>1. ASSUME Exchange PROVE Exchange'
    <3>1. OneRequest(wire', listen'.k)
      BY <1>3, <1>4, <2>1 DEF Exchange, Fewer
    <3>2. /\ Quiet(wire) => Quiet(wire')
          /\ On(wire', "replyFalse") => On(wire, "replyFalse")
      BY <1>4, FewerFacts DEF Fewer, Request
    <3>3. (Opening' <=> Opening) /\ ~Told' /\ ~NoPipe'
      BY <1>0, <1>2, <1>3 DEF Opening, Told, NoPipe
    <3> QED
      BY <1>0, <1>1, <1>2, <1>3, <2>1, <3>1, <3>2, <3>3 DEF Exchange
  <2>2. ~Over
    BY DEF Over, NoPipe
  <2> QED
    BY <1>3, <2>1, <2>2 DEF IInv
<1>14. PanicNeedsClosedPipe'
  BY <1>0 DEF PanicNeedsClosedPipe
<1> QED
  BY <1>4, <1>8, <1>9, <1>10, <1>11, <1>12, <1>13, <1>14 DEF IInv

LEMMA HandOverOK ==
  ASSUME IInv, InputsGrow, NEW e \in End, HandOver(e)
  PROVE  IInv'
<1>0. /\ TypeOK /\ hand \in [End -> SUBSET Handover] /\ HandsOK /\ HandsTyped /\ UserOK
      /\ conn[e] \in ConnState /\ WireSound(wire) /\ Fewer(wire, wire)
  BY Kept, FewerFacts DEF IInv, HandsTyped, TypeOK
<1>1. PICK h \in hand[e] : HandStart(e, h) \/ HandSend(e, h) \/ HandDone(e, h)
  BY DEF HandOver
<1>2. h \in Handover /\ (e = "server" => h.ch = None)
      /\ (e = "client" => listen.k # None /\ pipe[listen.k] # "none" /\ h.ch \in {listen.k, None})
  BY <1>0 DEF HandsOK
<1>3. ASSUME NEW g \in Handover, g.ch \in {h.ch, conn[e].packetDataCh},
             hand' = [hand EXCEPT ![e] = (@ \ {h}) \cup {g}],
             UNCHANGED <<conn, wire, listen, pipe, buf, serve, userVars>>
      PROVE  IInv'
  <2>1. /\ UNCHANGED conn /\ UNCHANGED <<listen, pipe, serve>> /\ wire' = wire
        /\ UNCHANGED <<buf, read, write, got, pipe>> /\ listen' = listen /\ pipe' = pipe
    BY <1>3 DEF userVars
  <2>2. /\ hand' \in [End -> SUBSET Handover]
        /\ hand'[e] \subseteq hand[e] \cup {g} /\ \A x \in End : x # e => hand'[x] = hand[x]
    BY <1>0, <1>3
  <2>3. CASE e = "server"
    <3>1. g.ch = None
      BY <1>2, <1>3, <2>3 DEF IInv, EndSound, server
    <3> QED
      BY <1>0, <2>1, <2>2, <2>3, <3>1, ListenFacts, Kept, NoEnd, Quietly DEF HandsTyped, HandsOK
  <2>4. CASE e = "client"
    <3>1. listen.k # None /\ pipe[listen.k] # "none" /\ listen.k \in Listen
      BY <1>0, <1>2, <2>4 DEF TypeOK, ListenState
    <3>2. g.ch \in {listen.k, None}
      BY <1>2, <1>3, <2>4, <3>1 DEF IInv, ChannelSound, client
    <3>3. HandsTyped'
      BY <1>0, <2>1, <2>2, <2>4, <3>1, <3>2, ListenFacts DEF HandsTyped, HandsOK
    <3> QED
      BY <1>0, <2>1, <3>3, Kept, NoEnd, Quietly
  <2> QED
    BY <2>3, <2>4 DEF End
<1>4. CASE HandStart(e, h)
  <2> DEFINE g == [h EXCEPT !.at = "select", !.ch = conn[e].packetDataCh]
  <2>1. g \in Handover /\ g.ch = conn[e].packetDataCh
    BY <1>0, <1>2 DEF Handover, ConnState
  <2>2. hand' = [hand EXCEPT ![e] = (@ \ {h}) \cup {g}]
        /\ UNCHANGED <<conn, wire, listen, pipe, buf, serve, userVars>>
    BY <1>4 DEF HandStart
  <2> HIDE DEF g
  <2> QED
    BY <1>3, <2>1, <2>2
<1>5. ASSUME hand' = [hand EXCEPT ![e] = @ \ {h}], UNCHANGED <<conn, wire, listen, pipe, serve>>,
             UserOK'
      PROVE  IInv'
  <2>1. /\ UNCHANGED conn /\ UNCHANGED <<listen, pipe, serve>> /\ wire' = wire
        /\ listen' = listen /\ pipe' = pipe
    BY <1>5
  <2>2. /\ hand' \in [End -> SUBSET Handover] /\ \A x \in End : hand'[x] \subseteq hand[x]
    BY <1>0, <1>5
  <2>3. HandsTyped'
    BY <1>0, <2>1, <2>2, ListenFacts DEF HandsTyped, HandsOK
  <2> QED
    BY <1>0, <1>5, <2>1, <2>3, NoEnd, Quietly
<1>6. CASE HandDone(e, h)
  <2>1. UserOK'
    BY <1>6, Kept DEF HandDone, userVars
  <2> QED
    BY <1>5, <1>6, <2>1 DEF HandDone
<1>7. CASE HandSend(e, h)
  <2>1. e = "client" /\ h.ch = listen.k /\ h.ch \in Listen /\ pipe[listen.k] # "none"
    BY <1>0, <1>2, <1>7 DEF HandSend, End, TypeOK, ListenState
  <2>2. CASE h.ch \in conn[e].closedCh
    <3>1. pipe[h.ch] \in {"closed", "failed"}
      BY <2>1, <2>2 DEF IInv, ChannelSound, client
    <3> QED
      BY <1>7, <2>1, <2>2, <3>1, PanicsOK DEF HandSend
  <2>3. CASE h.ch \notin conn[e].closedCh
    <3>1. /\ Len(buf[h.ch]) < ChanCap /\ buf' = [buf EXCEPT ![h.ch] = Append(@, h.p)]
          /\ hand' = [hand EXCEPT ![e] = @ \ {h}]
          /\ UNCHANGED <<conn, wire, listen, pipe, serve>>
          /\ UNCHANGED <<conn, wire, listen, pipe, serve, userVars>>
      BY <1>7, <2>3 DEF HandSend, userVars
    <3>2. h.p \in Packet /\ buf \in [Listen -> Seq(Packet)]
      BY <1>0, <1>2 DEF Handover, UserOK
    <3>3. /\ buf' \in [Listen -> Seq(Packet)] /\ Len(buf'[h.ch]) = Len(buf[h.ch]) + 1
          /\ \A j \in Listen : j # h.ch => buf'[j] = buf[j]
      BY <2>1, <3>1, <3>2
    <3>4. Len(buf[h.ch]) \in Nat
      BY <2>1, <3>2
    <3>5. Len(buf'[h.ch]) <= ChanCap
      BY <3>1, <3>3, <3>4, PacketAssumption
    <3>6. \A j \in Listen : Len(buf'[j]) <= ChanCap
      BY <1>0, <3>3, <3>5 DEF UserOK
    <3>7. UserOK'
      <4>1. /\ read' = read /\ write' = write /\ got' = got /\ pipe' = pipe
            /\ write.n \in Nat /\ inputs \in Nat
        BY <1>0, <3>1 DEF userVars, UserOK, TypeOK
      <4>2. write'.n <= inputs'
        BY <1>0, <4>1 DEF UserOK, InputsGrow
      <4> QED
        BY <1>0, <3>3, <3>6, <4>1, <4>2 DEF UserOK
    <3> QED
      BY <1>5, <3>1, <3>7
  <2> QED
    BY <2>2, <2>3
<1> QED
  BY <1>1, <1>4, <1>6, <1>7

(* The end of a Conn, and a P that is refused because it serves a socket.  *)
LEMMA ConnEndOK ==
  ASSUME IInv, InputsGrow, NEW e \in End, ConnDone(e) \/ ConnCloses(e)
  PROVE  IInv'
<1>0. /\ TypeOK /\ conn \in [End -> ConnState] /\ conn[e] \in ConnState /\ WireSound(wire)
      /\ Fewer(wire, wire) /\ UNCHANGED <<listen, pipe, serve>> /\ HandsTyped' /\ UserOK'
      /\ server = conn["server"] /\ server' = conn'["server"]
  BY Kept, FewerFacts DEF IInv, TypeOK, ConnDone, ConnCloses, userVars, server
<1>1. CASE ConnDone(e)
  <2> DEFINE c == [conn[e] EXCEPT !.ctxDone = TRUE]
  <2>1. c \in ConnState /\ Fades(conn[e], c) /\ c.status = conn[e].status
    BY <1>0 DEF ConnState, Fades
  <2>2. Becomes(e, c) /\ wire' = wire
    BY <1>1 DEF ConnDone
  <2> HIDE DEF c
  <2>3. /\ conn' \in [End -> ConnState] /\ conn'[e] = c
        /\ \A x \in End : x # e => conn'[x] = conn[x]
    BY <1>0, <2>1, <2>2, BecomesFacts
  <2>4. \A x \in End : Fades(conn[x], conn'[x])
    BY <1>0, <2>1, <2>3, CloseFacts
  <2>5. server'.status = server.status
    BY <1>0, <2>1, <2>3, ListenFacts
  <2> QED
    BY <1>0, <2>2, <2>3, <2>4, <2>5, Quietly
<1>2. CASE ConnCloses(e)
  <2>1. PICK d \in {closeWithErr(conn[e]), [conn[e] EXCEPT !.status = "Closed"]} :
          Becomes(e, [d EXCEPT !.handle = "returned"])
    BY <1>2 DEF ConnCloses
  <2>2. d \in ConnState /\ Fades(conn[e], d)
    <3>1. [conn[e] EXCEPT !.status = "Closed"] \in ConnState
      BY <1>0 DEF ConnState, Status
    <3>2. Fades(conn[e], [conn[e] EXCEPT !.status = "Closed"])
      BY <1>0 DEF ConnState, Fades
    <3> QED
      BY <1>0, <2>1, <3>1, <3>2, CloseFacts
  <2> DEFINE c == [d EXCEPT !.handle = "returned"]
  <2>3. c \in ConnState /\ Fades(conn[e], c)
    BY <2>2 DEF ConnState, Fades
  <2> HIDE DEF c
  <2>4. WireSound(wire') /\ Fewer(wire, wire')
    BY <1>0, <1>2, ClearedFacts DEF ConnCloses
  <2>5. conn[e].opening = None
    BY <1>2 DEF ConnCloses, Reading
  <2> QED
    BY <1>0, <2>1, <2>3, <2>4, <2>5, OneEnd, Quietly DEF c
<1> QED
  BY <1>1, <1>2

-----------------------------------------------------------------------------
(* ConnPacketPipe.                                                         *)

LEMMA ReadOK ==
  ASSUME IInv, InputsGrow,
         \/ \E k \in Listen : ReadFrom(k)
         \/ ReadSelect \/ ReadDone \/ ReadPacket
  PROVE  IInv'
<1> DEFINE ReadState == [pc : {"idle", "called", "select"}, k : Listen \cup {None},
                         ch : Listen \cup {None}]
<1>0. /\ TypeOK /\ UserOK /\ WireSound(wire) /\ Fewer(wire, wire) /\ client \in ConnState
      /\ read \in ReadState /\ inputs \in Nat /\ write.n \in Nat
  BY Kept, FewerFacts, ListenFacts DEF IInv, TypeOK, UserOK, client
<1>1. ASSUME UNCHANGED <<conn, wire, listen, pipe, hand, serve, write>>, read' \in ReadState,
             read'.pc # "idle" => read'.k # None /\ pipe[read'.k] # "none",
             buf' \in [Listen -> Seq(Packet)], \A k \in Listen : Len(buf'[k]) <= ChanCap,
             got' \in Seq([k : Listen, p : Packet])
      PROVE  IInv'
  <2>1. /\ UNCHANGED conn /\ UNCHANGED <<listen, pipe, serve>> /\ wire' = wire
        /\ UNCHANGED <<hand, listen, pipe>> /\ write' = write /\ pipe' = pipe
    BY <1>1
  <2>2. write'.n <= inputs'
    BY <1>0, <2>1 DEF UserOK, InputsGrow
  <2>3. UserOK'
    BY <1>0, <1>1, <2>1, <2>2 DEF UserOK
  <2> QED
    BY <1>0, <2>1, <2>3, Kept, NoEnd, Quietly
<1>2. ASSUME NEW k \in Listen, ReadFrom(k) PROVE IInv'
  <2>1. CASE pipe[k] = "open"
    <3>1. /\ read' = [pc |-> "called", k |-> k, ch |-> None]
          /\ UNCHANGED <<conn, wire, listen, pipe, hand, serve, write>> /\ buf' = buf /\ got' = got
      BY <1>2, <2>1 DEF ReadFrom
    <3>2. read' \in ReadState /\ read'.k = k
      BY <3>1
    <3> HIDE DEF ReadState
    <3> QED
      BY <1>0, <1>1, <2>1, <3>1, <3>2, ListenFacts DEF UserOK
  <2>2. CASE pipe[k] # "open"
    BY <1>2, <2>2, PanicsOK DEF ReadFrom
  <2> QED
    BY <2>1, <2>2
<1>3. CASE ReadSelect
  <2>1. read.k \in Listen /\ pipe[read.k] # "none" /\ read.pc = "called"
    BY <1>0, <1>3 DEF ReadSelect, UserOK
  <2>2. CASE pipe[read.k] = "open"
    <3>1. /\ read' = [read EXCEPT !.pc = "select", !.ch = client.packetDataCh]
          /\ UNCHANGED <<conn, wire, listen, pipe, hand, serve, write>> /\ buf' = buf /\ got' = got
      BY <1>3, <2>2 DEF ReadSelect
    <3>2. client.packetDataCh \in Listen \cup {None}
      BY <1>0 DEF ConnState
    <3>3. read' \in ReadState /\ read'.k = read.k
      BY <1>0, <3>1, <3>2
    <3> HIDE DEF ReadState
    <3> QED
      BY <1>0, <1>1, <2>1, <3>1, <3>3, ListenFacts DEF UserOK
  <2>3. CASE pipe[read.k] # "open"
    <3>1. pipe[read.k] \in {"closed", "failed"}
      BY <1>0, <2>1, <2>3 DEF TypeOK
    <3> QED
      BY <1>3, <2>1, <2>3, <3>1, PanicsOK DEF ReadSelect
  <2> QED
    BY <2>2, <2>3
<1>4. NoRead \in ReadState /\ NoRead.pc = "idle"
  BY DEF NoRead
<1>5. CASE ReadDone
  <2>1. /\ read' = NoRead /\ buf' = buf /\ got' = got
        /\ UNCHANGED <<conn, wire, listen, pipe, hand, serve, write>>
    BY <1>5 DEF ReadDone
  <2> HIDE DEF ReadState
  <2> QED
    BY <1>0, <1>1, <1>4, <2>1 DEF UserOK
<1>6. CASE ReadPacket
  <2>1. /\ read' = NoRead /\ read.k \in Listen /\ read.ch \in Listen
        /\ UNCHANGED <<conn, wire, listen, pipe, hand, serve, write>>
    BY <1>0, <1>6 DEF ReadPacket, UserOK
  <2>2. /\ buf' \in [Listen -> Seq(Packet)] /\ \A k \in Listen : Len(buf'[k]) <= ChanCap
        /\ got' \in Seq([k : Listen, p : Packet])
    <3>1. CASE buf' = buf /\ got' = got
      BY <1>0, <3>1 DEF UserOK
    <3>2. CASE /\ buf[read.ch] # <<>>
               /\ got' = Append(got, [k |-> read.k, p |-> Head(buf[read.ch])])
               /\ buf' = [buf EXCEPT ![read.ch] = Tail(@)]
      <4>1. buf[read.ch] \in Seq(Packet) /\ Len(buf[read.ch]) <= ChanCap
            /\ Len(buf[read.ch]) \in Nat /\ buf \in [Listen -> Seq(Packet)]
        BY <1>0, <2>1 DEF UserOK
      <4>2. Head(buf[read.ch]) \in Packet /\ Tail(buf[read.ch]) \in Seq(Packet)
            /\ Len(Tail(buf[read.ch])) <= ChanCap
        BY <3>2, <4>1, PacketAssumption
      <4>3. [k |-> read.k, p |-> Head(buf[read.ch])] \in [k : Listen, p : Packet]
        BY <2>1, <4>2
      <4>4. got' \in Seq([k : Listen, p : Packet])
        BY <1>0, <3>2, <4>3 DEF UserOK
      <4>5. \A k \in Listen : buf'[k] = IF k = read.ch THEN Tail(buf[read.ch]) ELSE buf[k]
        BY <3>2, <4>1
      <4>6. buf' \in [Listen -> Seq(Packet)]
        BY <2>1, <3>2, <4>1, <4>2
      <4>7. \A k \in Listen : Len(buf'[k]) <= ChanCap
        BY <1>0, <4>2, <4>5 DEF UserOK
      <4> QED
        BY <4>4, <4>6, <4>7
    <3> QED
      BY <1>6, <3>1, <3>2 DEF ReadPacket
  <2> HIDE DEF ReadState
  <2> QED
    BY <1>0, <1>1, <1>4, <2>1, <2>2
<1> QED
  BY <1>2, <1>3, <1>5, <1>6

LEMMA WriteOK ==
  ASSUME IInv, InputsGrow,
         \/ \E k \in Listen : WriteTo(k) /\ inputs' = inputs + 1
         \/ WriteSend \/ WriteLate
  PROVE  IInv'
<1> DEFINE WriteState == [pc : {"idle", "called"}, k : Listen \cup {None}, n : 0 .. MaxInput]
<1>0. /\ TypeOK /\ UserOK /\ WireSound(wire) /\ Fewer(wire, wire) /\ client \in ConnState
      /\ client = conn["client"]
      /\ write \in WriteState /\ inputs \in Nat /\ write.n \in Nat /\ write.n <= inputs
      /\ write.n <= MaxInput
  <2>1. TypeOK /\ UserOK /\ WireSound(wire) /\ Fewer(wire, wire)
    BY Kept, FewerFacts DEF IInv
  <2>2. client \in ConnState /\ client = conn["client"]
    BY <2>1, ListenFacts DEF TypeOK, client
  <2>3. write \in WriteState /\ inputs \in Nat /\ write.n <= inputs
    BY <2>1 DEF TypeOK, UserOK
  <2>4. write.n \in Nat /\ write.n <= MaxInput
    BY <2>3
  <2> QED
    BY <2>1, <2>2, <2>3, <2>4
<1>1. ASSUME UNCHANGED <<listen, pipe, buf, hand, serve, read, got>>, write' \in WriteState,
             write'.pc # "idle" => write'.k # None /\ write'.n > 0 /\ pipe[write'.k] # "none",
             write'.n <= inputs', WireSound(wire'), Fewer(wire, wire'),
             conn' \in [End -> ConnState], \A x \in End : Fades(conn[x], conn'[x]),
             server.opening # None => server'.status = server.status
      PROVE  IInv'
  <2>1. /\ UNCHANGED <<listen, pipe, serve>> /\ UNCHANGED <<hand, listen, pipe>>
        /\ read' = read /\ pipe' = pipe /\ buf' = buf /\ got' = got
    BY <1>1
  <2>2. UserOK'
    BY <1>0, <1>1, <2>1 DEF UserOK
  <2> QED
    BY <1>0, <1>1, <2>1, <2>2, Kept, Quietly
<1>2. ASSUME NEW k \in Listen, WriteTo(k), inputs' = inputs + 1 PROVE IInv'
  <2>1. CASE pipe[k] = "open"
    <3>1. /\ write' = [pc |-> "called", k |-> k, n |-> write.n + 1]
          /\ UNCHANGED <<listen, pipe, buf, hand, serve, read, got>> /\ UNCHANGED conn
          /\ wire' = wire
      BY <1>2, <2>1 DEF WriteTo
    <3>2. write.n + 1 \in 0 .. MaxInput /\ write.n + 1 > 0 /\ write.n + 1 <= inputs'
      BY <1>0, <1>2, PacketAssumption DEF InputsGrow
    <3>3. write' \in WriteState /\ write'.k = k /\ write'.n = write.n + 1
      BY <3>1, <3>2
    <3> HIDE DEF WriteState
    <3> QED
      BY <1>0, <1>1, <2>1, <3>1, <3>2, <3>3, ListenFacts, NoEnd
  <2>2. CASE pipe[k] # "open"
    BY <1>2, <2>2, PanicsOK DEF WriteTo
  <2> QED
    BY <2>1, <2>2
<1>3. ASSUME write' = [write EXCEPT !.pc = "idle"]
      PROVE  write' \in WriteState /\ write'.pc = "idle" /\ write'.n <= inputs'
  <2>1. write' \in WriteState /\ write'.pc = "idle" /\ write'.n = write.n
    BY <1>0, <1>3
  <2> QED
    BY <1>0, <2>1 DEF InputsGrow
<1>4. ASSUME Becomes("client", closeWithErr(client))
      PROVE  /\ conn' \in [End -> ConnState] /\ \A x \in End : Fades(conn[x], conn'[x])
             /\ server.opening # None => server'.status = server.status
  BY <1>0, <1>4, CloseFacts, OneEnd, ListenFacts
<1>5. CASE WriteLate
  <2>1. /\ write' = [write EXCEPT !.pc = "idle"] /\ wire' = wire
        /\ UNCHANGED <<listen, pipe, buf, hand, serve, read, got>>
        /\ Becomes("client", closeWithErr(client))
    BY <1>5 DEF WriteLate
  <2> HIDE DEF WriteState
  <2> QED
    BY <1>0, <1>1, <1>3, <1>4, <2>1
<1>6. CASE WriteSend
  <2>1. write.k \in Listen /\ pipe[write.k] # "none" /\ write.n > 0 /\ write.pc = "called"
    BY <1>0, <1>6 DEF WriteSend, UserOK
  <2>2. CASE pipe[write.k] = "open"
    <3> DEFINE f == DataFrame(Sent(write.k, write.n))
    <3>1. /\ Sends("client", client, wire, f) \/ SendFails("client", client, wire)
          /\ write' = [write EXCEPT !.pc = "idle"]
          /\ UNCHANGED <<listen, pipe, buf, hand, serve, read, got>>
      BY <1>6, <2>2 DEF WriteSend
    <3>2. /\ conn' \in [End -> ConnState] /\ \A x \in End : Fades(conn[x], conn'[x])
          /\ server.opening # None => server'.status = server.status
          /\ WireSound(wire') /\ Fewer(wire, wire')
      <4>1. CASE SendFails("client", client, wire)
        BY <1>0, <1>4, <4>1 DEF SendFails
      <4>2. CASE Sends("client", client, wire, f)
        <5>1. write.n \in 1 .. MaxInput /\ write.k \in Nat
          <6>1. write.k \in Nat
            BY <2>1, ListenFacts
          <6>2. write.n \in Nat /\ write.n <= MaxInput /\ write.n > 0
            BY <1>0, <2>1
          <6> QED
            BY <6>1, <6>2, PacketAssumption
        <5>2. Sent(write.k, write.n) \in Packet
          BY <5>1, SentFacts
        <5>3. f.t = "data" /\ f.f = Format(Sent(write.k, write.n)) /\ f.k = None
              /\ f = [t |-> "data", k |-> None, f |-> Format(Sent(write.k, write.n))]
          BY DEF DataFrame, Cmd
        <5>4. f \in Frame
          BY <5>2, <5>3, ParsedFacts DEF Frame
        <5>5. FrameSound("server", f) /\ f.t \notin Request
          BY <5>2, <5>3 DEF FrameSound, Request
        <5> HIDE DEF f
        <5>6. WireSound(wire') /\ Fewer(wire, wire')
          BY <1>0, <4>2, <5>4, <5>5, SendsFacts, ListenFacts DEF TypeOK
        <5>7. Becomes("client", client) /\ Fades(client, client)
          BY <1>0, <4>2, CloseFacts DEF Sends
        <5> QED
          BY <1>0, <5>6, <5>7, OneEnd, ListenFacts
      <4> QED
        BY <3>1, <4>1, <4>2
    <3> HIDE DEF WriteState, f
    <3> QED
      BY <1>0, <1>1, <1>3, <3>1, <3>2
  <2>3. CASE pipe[write.k] # "open"
    <3>1. pipe[write.k] \in {"closed", "failed"}
      BY <1>0, <2>1, <2>3 DEF TypeOK
    <3> QED
      BY <1>6, <2>1, <2>3, <3>1, PanicsOK DEF WriteSend
  <2> QED
    BY <2>2, <2>3
<1> QED
  BY <1>2, <1>5, <1>6

-----------------------------------------------------------------------------
(* ListenPacketContext, and the steps that change a pipe.                  *)

PipeState == {"none", "open", "failed", "closed"}

ServeTyped ==
  /\ serve \in [Listen -> Serving]
  /\ \A k \in Listen : serve[k].pc \notin {"none", "start", "check", "ended"}
                         => serve[k].conn # None
  /\ \A k \in Listen : serve[k].n <= inputs /\ (serve[k].pc = "write" => serve[k].n > 0)

LEMMA AssembleServe ==
  ASSUME IInv, InputsGrow, UNCHANGED <<buf, hand, read, write, got>>, ServeTyped',
         conn' \in [End -> ConnState], listen' \in ListenState,
         pipe' \in [Listen -> PipeState],
         \A k \in Listen : pipe[k] # "none" => pipe'[k] # "none",
         WireSound(wire'), EndSound', PipeOfLastListen', ChannelSound',
         (listen.stale \/ Over \/ Exchange)', PanicNeedsClosedPipe'
  PROVE  IInv'
<1>0. /\ buf' = buf /\ hand' = hand /\ read' = read /\ write' = write
      /\ got' = got /\ inputs \in Nat /\ UserOK
  BY Kept DEF IInv, TypeOK
<1>1. write.n \in Nat
  BY <1>0 DEF UserOK
<1>2. write'.n <= inputs'
  BY <1>0, <1>1 DEF UserOK, InputsGrow
<1>3. read.k \in Listen \cup {None} /\ write.k \in Listen \cup {None}
  BY <1>0 DEF UserOK
<1>4. CallSound'
  BY <1>0, <1>2, <1>3 DEF CallSound, UserOK, ServeTyped
<1>5. TypeOK'
  <2>1. wire' \in [End -> Seq(Frame)] /\ inputs' \in 0 .. MaxInput
    BY PacketAssumption DEF WireSound, InputsGrow
  <2>2. hand' \in [End -> SUBSET Handover]
    BY <1>0 DEF IInv, TypeOK
  <2> QED
    BY <1>0, <2>1, <2>2 DEF TypeOK, UserOK, PipeState, ServeTyped
<1> QED
  BY <1>4, <1>5 DEF IInv

LEMMA Assemble ==
  ASSUME IInv, InputsGrow, UNCHANGED <<buf, hand, serve, read, write, got>>,
         conn' \in [End -> ConnState], listen' \in ListenState,
         pipe' \in [Listen -> PipeState],
         \A k \in Listen : pipe[k] # "none" => pipe'[k] # "none",
         WireSound(wire'), EndSound', PipeOfLastListen', ChannelSound',
         (listen.stale \/ Over \/ Exchange)', PanicNeedsClosedPipe'
  PROVE  IInv'
<1>1. ServeTyped'
  BY Kept DEF ServeTyped
<1>2. UNCHANGED <<buf, hand, read, write, got>>
  OBVIOUS
<1> QED
  BY <1>1, <1>2, AssembleServe

LEMMA PipeCloseOK ==
  ASSUME IInv, InputsGrow, NEW k \in Listen, PipeClose(k)
  PROVE  IInv'
<1>0. /\ TypeOK /\ conn' = conn /\ wire' = wire /\ listen' = listen /\ hand' = hand
      /\ serve' = serve /\ UNCHANGED <<buf, hand, serve, read, write, got>>
      /\ client' = client /\ server' = server /\ pipe \in [Listen -> PipeState]
      /\ pipe[k] \in {"open", "failed"} /\ pipe' = [pipe EXCEPT ![k] = "closed"]
      /\ WireSound(wire) /\ EndSound /\ PipeOfLastListen /\ ChannelSound
      /\ listen.k \in Listen \cup {None}
  BY DEF IInv, TypeOK, PipeClose, userVars, client, server, PipeState, ListenState
<1>1. /\ pipe' \in [Listen -> PipeState] /\ pipe'[k] = "closed"
      /\ \A j \in Listen : j # k => pipe'[j] = pipe[j]
  BY <1>0 DEF PipeState
<1>2. \A j \in Listen : (pipe[j] # "none" <=> pipe'[j] # "none")
  BY <1>0, <1>1
<1>3. EndSound'
  BY <1>0 DEF EndSound
<1>4. PipeOfLastListen'
  BY <1>0, <1>2 DEF PipeOfLastListen
<1>5. ChannelSound'
  <2>1. \A h \in hand["client"] :
          listen.k # None /\ pipe'[listen.k] # "none" /\ h.ch \in {listen.k, None}
    BY <1>0, <1>2 DEF ChannelSound
  <2>2. client.onCmdErr # None =>
          /\ client.onCmdErr = listen.k /\ client.packetDataCh = listen.k
          /\ pipe'[listen.k] # "none" /\ listen.k \notin client.closedCh
    BY <1>0, <1>2 DEF ChannelSound
  <2>3. \A j \in Listen : pipe'[j] # "none" =>
          /\ client.packetDataCh \in {j, None}
          /\ j \in client.closedCh => pipe'[j] \in {"closed", "failed"}
    BY <1>0, <1>1, <1>2 DEF ChannelSound
  <2> QED
    BY <1>0, <2>1, <2>2, <2>3 DEF ChannelSound
<1>6. (listen.stale \/ Over \/ Exchange)'
  <2>1. (Over' <=> Over) /\ (Exchange' <=> Exchange)
    BY <1>0, <1>2 DEF Over, NoPipe, Exchange, Opening, Told
  <2> QED
    BY <1>0, <2>1 DEF IInv
<1>7. PanicNeedsClosedPipe'
  BY <1>1 DEF PanicNeedsClosedPipe
<1> QED
  BY <1>0, <1>1, <1>2, <1>3, <1>4, <1>5, <1>6, <1>7, Assemble DEF IInv, TypeOK

(* Steps of ListenPacketContext while there is no pipe.                    *)
LEMMA NoPipeFacts ==
  ASSUME IInv, NoPipe
  PROVE  client.status # "Packet" /\ client.onCmdErr = None /\ hand["client"] = {}
         /\ ~client.crashed
<1>1. listen.k \in Listen \cup {None} /\ client.onCmdErr \in Listen \cup {None}
  BY ListenFacts DEF IInv, TypeOK, ListenState, client, ConnState
<1>2. client.status # "Packet"
  BY <1>1 DEF IInv, PipeOfLastListen, NoPipe
<1>3. client.onCmdErr = None
  BY <1>1 DEF IInv, ChannelSound, NoPipe
<1>4. hand["client"] = {}
  BY <1>1 DEF IInv, ChannelSound, NoPipe
<1>5. ~client.crashed
  BY DEF IInv, PanicNeedsClosedPipe, NoPipe
<1> QED
  BY <1>2, <1>3, <1>4, <1>5

LEMMA NoPipeYet ==
  ASSUME IInv, listen.pc # "idle" \/ client.status \notin {"Packet", "Closed"}
  PROVE  NoPipe
BY DEF IInv, PipeOfLastListen, NoPipe

(* Such a step has only the requests to care about.                        *)
LEMMA NoPipeStep ==
  ASSUME IInv, InputsGrow, NoPipe, UNCHANGED <<pipe, buf, hand, serve, read, write, got>>,
         NEW c \in ConnState, Becomes("client", c), listen' \in ListenState, WireSound(wire'),
         c.opening = None, c.onCmdErr = None, ~c.crashed, c.status # "Packet",
         c.packetDataCh <= listen'.k, \A k \in c.closedCh : k <= listen'.k,
         listen'.pc \in {"select", "accepted", "stuck"} => c.packetDataCh = listen'.k,
         listen'.pc # "idle" => listen'.k \notin c.closedCh /\ listen'.k # None,
         (listen.stale \/ Over \/ Exchange)'
  PROVE  IInv'
<1>0. /\ TypeOK /\ conn' \in [End -> ConnState] /\ client' = c /\ server' = server
      /\ pipe' = pipe /\ hand' = hand /\ serve' = serve
      /\ UNCHANGED <<buf, hand, serve, read, write, got>>
      /\ pipe \in [Listen -> PipeState]
  BY BecomesFacts, ListenFacts DEF IInv, TypeOK, client, server, PipeState
<1>1. hand["client"] = {}
  BY NoPipeFacts
<1>2. EndSound'
  BY <1>0 DEF IInv, EndSound
<1>3. PipeOfLastListen'
  BY <1>0 DEF PipeOfLastListen, NoPipe
<1>4. ChannelSound'
  BY <1>0, <1>1 DEF ChannelSound, NoPipe
<1>5. PanicNeedsClosedPipe'
  BY <1>0 DEF PanicNeedsClosedPipe
<1> QED
  BY <1>0, <1>2, <1>3, <1>4, <1>5, Assemble

LEMMA ListenSendOK ==
  ASSUME IInv, InputsGrow, ListenSend
  PROVE  IInv'
<1> DEFINE k == listen.k + 1
           c == [client EXCEPT !.onResult = k]
           f == OpenCmd(k)
<1>0. /\ TypeOK /\ client \in ConnState /\ client = conn["client"] /\ listen \in ListenState
      /\ listen.k \in Nat /\ WireSound(wire) /\ conn \in [End -> ConnState]
      /\ client' = conn'["client"] /\ server = conn["server"] /\ server' = conn'["server"]
      /\ client.packetDataCh \in Nat /\ client.closedCh \subseteq Nat
  BY ListenFacts DEF IInv, TypeOK, client, server, ListenState, ConnState
<1>1. /\ listen.pc = "idle" /\ k \in Listen /\ client.status = "Idle"
      /\ UNCHANGED <<pipe, buf, hand, serve, read, write, got>> /\ pipe' = pipe
  BY DEF ListenSend, userVars
<1>2. NoPipe /\ NoPipe'
  BY <1>1, NoPipeYet DEF NoPipe
<1>3. client.onCmdErr = None /\ ~client.crashed /\ client.opening = None
  BY <1>2, NoPipeFacts DEF IInv, EndSound
<1>4. /\ c \in ConnState /\ c.status = "Idle" /\ c.onCmdErr = None /\ ~c.crashed
      /\ c.opening = None /\ c.packetDataCh = client.packetDataCh
      /\ c.closedCh = client.closedCh /\ c.onResult = k
  BY <1>0, <1>1, <1>3 DEF ConnState
<1>5. /\ c.packetDataCh <= k /\ \A j \in c.closedCh : j <= k /\ k \notin c.closedCh
      /\ k # None
  BY <1>0, <1>4, ListenFacts DEF IInv, ChannelSound, None
<1>6. CASE Sends("client", c, wire, f) /\ listen' = [listen EXCEPT !.pc = "sent", !.k = k]
  <2>1. f \in Frame /\ FrameSound("server", f) /\ f.t = "open" /\ f.k = k
    BY <1>1 DEF OpenCmd, Cmd, Frame, FrameSound
  <2>2. /\ listen' \in ListenState /\ listen'.pc = "sent" /\ listen'.k = k
        /\ listen'.res = listen.res /\ listen'.stale = listen.stale
    BY <1>0, <1>1, <1>6 DEF ListenState
  <2> HIDE DEF c, f, k
  <2>3. /\ conn'["client"] = c /\ conn'["server"] = conn["server"] /\ WireSound(wire')
        /\ \A j : (f.t = "open" => f.k = j) /\ Quiet(wire) => OneRequest(wire', j)
        /\ \A t \in Request : On(wire', t) => On(wire, t) \/ t = f.t
    BY <1>0, <1>4, <1>6, <2>1, SendsFacts, ListenFacts
  <2>4. (listen.stale \/ Over \/ Exchange)'
    <3>1. CASE listen.stale
      BY <2>2, <3>1
    <3>2. CASE Over
      BY <1>0, <1>6, <3>2 DEF Over, Sends
    <3>3. CASE Exchange
      <4>1. Quiet(wire) /\ ~Opening /\ ~Told /\ server.packetConn = None
        BY <1>1, <1>2, <3>3 DEF Exchange
      <4>2. OneRequest(wire', listen'.k)
        BY <2>1, <2>2, <2>3, <4>1
      <4>3. ~Opening' /\ ~Told' /\ server' = server /\ client'.onResult = listen'.k
        BY <1>0, <1>4, <2>2, <2>3, <4>1 DEF Opening, Told
      <4>4. ~On(wire', "replyFalse")
        BY <2>1, <2>3, <4>1 DEF Quiet, Request
      <4>5. listen'.res = "none" /\ listen'.pc = "sent" /\ server.opening = None
        BY <2>2, <4>1 DEF Told, Opening
      <4> QED
        BY <4>1, <4>2, <4>3, <4>4, <4>5 DEF Exchange
    <3> QED
      BY <3>1, <3>2, <3>3 DEF IInv
  <2>5. Becomes("client", c)
    BY <1>6 DEF Sends
  <2> QED
    BY <1>0, <1>1, <1>2, <1>4, <1>5, <2>2, <2>3, <2>4, <2>5, NoPipeStep
<1>7. CASE SendFails("client", c, wire) /\ listen' = [listen EXCEPT !.pc = "idle", !.k = k]
  <2>1. /\ listen' \in ListenState /\ listen'.pc = "idle" /\ listen'.k = k
    BY <1>0, <1>1, <1>7 DEF ListenState
  <2> DEFINE d == closeWithErr(c)
  <2> HIDE DEF c, k
  <2>2. /\ d \in ConnState /\ Fades(c, d) /\ d.status = "Closed" /\ d.ctxDone
    BY <1>4, CloseFacts
  <2>3. Becomes("client", d) /\ wire' = wire
    BY <1>7 DEF SendFails
  <2> HIDE DEF d
  <2>4. client' = d
    BY <1>0, <2>2, <2>3, BecomesFacts, ListenFacts
  <2>5. Over'
    BY <1>2, <2>1, <2>2, <2>4 DEF Over
  <2>6. /\ d.opening = None /\ d.onCmdErr = None /\ ~d.crashed
        /\ d.packetDataCh <= k /\ \A j \in d.closedCh : j <= k
    BY <1>4, <1>5, <2>2 DEF Fades
  <2> QED
    BY <1>0, <1>1, <1>2, <2>1, <2>2, <2>3, <2>5, <2>6, NoPipeStep
<1> QED
  BY <1>6, <1>7 DEF ListenSend

LEMMA ListenInOperOK ==
  ASSUME IInv, InputsGrow, ListenInOper
  PROVE  IInv'
<1> DEFINE c == [client EXCEPT !.status = "InOper", !.packetDataCh = listen.k]
<1>0. /\ TypeOK /\ client \in ConnState /\ client = conn["client"] /\ listen \in ListenState
      /\ WireSound(wire) /\ conn \in [End -> ConnState] /\ listen.k \in Nat
      /\ client' = conn'["client"] /\ server = conn["server"] /\ server' = conn'["server"]
  BY ListenFacts DEF IInv, TypeOK, client, server, ListenState
<1>1. /\ listen.pc = "sent" /\ Becomes("client", c) /\ wire' = wire
      /\ listen' = [listen EXCEPT !.pc = "select"]
      /\ UNCHANGED <<pipe, buf, hand, serve, read, write, got>> /\ pipe' = pipe
  BY DEF ListenInOper, userVars
<1>2. NoPipe /\ NoPipe'
  BY <1>1, NoPipeYet DEF NoPipe
<1>3. /\ client.onCmdErr = None /\ ~client.crashed /\ client.opening = None
      /\ listen.k \in Listen /\ listen.k # None /\ listen.k \notin client.closedCh
      /\ \A k \in client.closedCh : k <= listen.k
  BY <1>0, <1>1, <1>2, NoPipeFacts, ListenFacts
     DEF IInv, EndSound, ListenState, PipeOfLastListen, ChannelSound
<1>4. /\ c \in ConnState /\ c.status = "InOper" /\ c.onCmdErr = None /\ ~c.crashed
      /\ c.opening = None /\ c.packetDataCh = listen.k
      /\ c.closedCh = client.closedCh /\ c.onResult = client.onResult
      /\ c.ctxDone = client.ctxDone
  BY <1>0, <1>3 DEF ConnState, Status
<1>5. /\ listen' \in ListenState /\ listen'.pc = "select" /\ listen'.k = listen.k
      /\ listen'.res = listen.res /\ listen'.stale = listen.stale
  BY <1>0, <1>1 DEF ListenState
<1> HIDE DEF c
<1>6. conn'["client"] = c /\ conn'["server"] = conn["server"]
  BY <1>0, <1>1, <1>4, BecomesFacts, ListenFacts
<1>7. (listen.stale \/ Over \/ Exchange)'
  <2>1. ~Over
    BY <1>1 DEF Over
  <2>2. ASSUME Exchange PROVE Exchange'
    <3>1. (Opening' <=> Opening) /\ (Told' <=> Told) /\ server' = server
          /\ client'.onResult = client.onResult
      BY <1>0, <1>4, <1>5, <1>6 DEF Opening, Told
    <3> QED
      BY <1>1, <1>5, <2>2, <3>1 DEF Exchange
  <2> QED
    BY <1>5, <2>1, <2>2 DEF IInv
<1> QED
  BY <1>0, <1>1, <1>2, <1>3, <1>4, <1>5, <1>7, NoPipeStep

LEMMA ListenSelectOK ==
  ASSUME IInv, InputsGrow, ListenResult \/ ListenCancel \/ ListenConnDone \/ CtxCancel
  PROVE  IInv'
<1>0. /\ TypeOK /\ client \in ConnState /\ client = conn["client"] /\ listen \in ListenState
      /\ WireSound(wire) /\ conn \in [End -> ConnState] /\ listen.k \in Nat
      /\ client' = conn'["client"] /\ server = conn["server"] /\ server' = conn'["server"]
      /\ client.closedCh \subseteq Nat
  BY ListenFacts DEF IInv, TypeOK, client, server, ListenState, ConnState
<1>1. /\ listen.pc = "select" /\ wire' = wire /\ pipe' = pipe
      /\ UNCHANGED <<pipe, buf, hand, serve, read, write, got>>
  BY DEF ListenResult, ListenCancel, ListenConnDone, CtxCancel, userVars
<1>2. NoPipe /\ NoPipe' /\ ~Over
  BY <1>1, NoPipeYet DEF NoPipe, Over
<1>3. /\ client.onCmdErr = None /\ ~client.crashed /\ client.opening = None
      /\ client.status # "Packet" /\ client.packetDataCh = listen.k
      /\ listen.k \in Listen /\ listen.k # None /\ listen.k \notin client.closedCh
      /\ \A k \in client.closedCh : k <= listen.k
  BY <1>0, <1>1, <1>2, NoPipeFacts, ListenFacts
     DEF IInv, EndSound, ListenState, PipeOfLastListen, ChannelSound
<1>4. ASSUME UNCHANGED conn PROVE Becomes("client", client)
  BY <1>0, <1>4 DEF Becomes
(* The status may become idle.                                             *)
<1>5. ASSUME NEW c \in {client, [client EXCEPT !.status = "Idle"]}, Becomes("client", c),
             listen' \in ListenState, listen'.k = listen.k,
             (listen.stale \/ Over \/ Exchange)'
      PROVE  IInv'
  <2>1. /\ c \in ConnState /\ c.opening = None /\ c.onCmdErr = None /\ ~c.crashed
        /\ c.status # "Packet" /\ c.packetDataCh = listen.k /\ c.closedCh = client.closedCh
    BY <1>0, <1>3, <1>5 DEF ConnState, Status
  <2> QED
    BY <1>0, <1>1, <1>2, <1>3, <1>5, <2>1, NoPipeStep
<1>6. ASSUME NEW c \in {client, [client EXCEPT !.status = "Idle"]}, Becomes("client", c)
      PROVE  /\ server' = server /\ client'.onResult = client.onResult
             /\ client'.ctxDone = client.ctxDone /\ (Opening' <=> Opening)
  <2>1. c \in ConnState /\ c.onResult = client.onResult /\ c.ctxDone = client.ctxDone
    BY <1>0, <1>6 DEF ConnState, Status
  <2> QED
    BY <1>0, <1>6, <2>1, BecomesFacts, ListenFacts DEF Opening
<1>7. ASSUME listen' = ListenOver
      PROVE  /\ listen' \in ListenState /\ listen'.k = listen.k /\ listen'.pc = "idle"
             /\ listen'.res = "none" /\ listen'.stale = listen.stale
  BY <1>0, <1>7 DEF ListenOver, ListenState
<1>8. CASE ListenResult
  <2>1. CASE listen.res = "ok" /\ listen' = [listen EXCEPT !.pc = "accepted"] /\ UNCHANGED conn
    <3>1. /\ listen' \in ListenState /\ listen'.k = listen.k /\ listen'.pc = "accepted"
          /\ listen'.res = "ok" /\ listen'.stale = listen.stale
      BY <1>0, <2>1 DEF ListenState
    <3>2. Becomes("client", client)
      BY <1>4, <2>1
    <3>3. Exchange => Exchange'
      BY <1>1, <1>6, <2>1, <3>1, <3>2 DEF Exchange, Told
    <3> QED
      BY <1>2, <1>5, <3>1, <3>2, <3>3 DEF IInv
  <2>2. CASE /\ listen.res = "fail" /\ listen' = ListenOver
             /\ Becomes("client", [client EXCEPT !.status = "Idle"])
    <3>1. ASSUME Exchange PROVE Exchange'
      <4>1. Quiet(wire) /\ ~Opening /\ server.packetConn = None /\ OneRequest(wire, listen.k)
            /\ server.opening = None
        BY <2>2, <3>1 DEF Exchange, Told, Opening
      <4> QED
        BY <1>1, <1>6, <1>7, <2>2, <4>1 DEF Exchange, Told
    <3> QED
      BY <1>2, <1>5, <1>7, <2>2, <3>1 DEF IInv
  <2> QED
    BY <1>8, <2>1, <2>2 DEF ListenResult
<1>9. CASE ListenConnDone
  <2>1. Becomes("client", client) /\ listen' = ListenOver /\ client.ctxDone
    BY <1>4, <1>9 DEF ListenConnDone
  <2>2. Over'
    BY <1>2, <1>6, <1>7, <2>1 DEF Over
  <2> QED
    BY <1>5, <1>7, <2>1, <2>2
<1>10. CASE CtxCancel
  <2>1. Becomes("client", client) /\ listen' = [listen EXCEPT !.cancelled = TRUE]
    BY <1>4, <1>10 DEF CtxCancel
  <2>2. /\ listen' \in ListenState /\ listen'.k = listen.k /\ listen'.pc = listen.pc
        /\ listen'.res = listen.res /\ listen'.stale = listen.stale
    BY <1>0, <2>1 DEF ListenState
  <2>3. Exchange => Exchange'
    BY <1>1, <1>6, <2>1, <2>2 DEF Exchange, Told
  <2> QED
    BY <1>2, <1>5, <2>1, <2>2, <2>3 DEF IInv
<1>11. CASE ListenCancel
  <2> DEFINE c == [client EXCEPT !.status = "Idle"]
  <2>1. c \in ConnState /\ c.onResult = client.onResult
    BY <1>0 DEF ConnState, Status
  <2>2. CASE c.onResult = None /\ listen' = [listen EXCEPT !.pc = "stuck"] /\ Becomes("client", c)
    <3>1. /\ listen' \in ListenState /\ listen'.k = listen.k /\ listen'.pc = "stuck"
          /\ listen'.res = listen.res /\ listen'.stale = listen.stale
      BY <1>0, <2>2 DEF ListenState
    <3>2. Exchange => Exchange'
      BY <1>1, <1>3, <1>6, <2>1, <2>2, <3>1 DEF Exchange, Told
    <3> QED
      BY <1>2, <1>5, <2>2, <3>1, <3>2 DEF IInv
  <2>3. CASE /\ listen' = [ListenOver EXCEPT !.stale = TRUE]
             /\ Becomes("client", [CloseChannel(c) EXCEPT !.onResult = None])
    <3>1. /\ listen' \in ListenState /\ listen'.k = listen.k /\ listen'.pc = "idle"
          /\ listen'.stale
      BY <1>0, <2>3 DEF ListenOver, ListenState
    <3> DEFINE d == [CloseChannel(c) EXCEPT !.onResult = None]
               s == client.closedCh \cup {listen.k}
    <3>2. d = [client EXCEPT !.status = "Idle", !.closedCh = s, !.packetDataCh = None,
                             !.onResult = None]
      BY <1>0, <1>3 DEF CloseChannel, ConnState
    <3>3. s \in SUBSET Listen
      BY <1>0, <1>3 DEF ConnState
    <3>4. /\ d \in ConnState /\ d.opening = None /\ d.onCmdErr = None /\ ~d.crashed
          /\ d.status = "Idle" /\ d.packetDataCh = None /\ d.closedCh = s
      BY <1>0, <1>3, <3>2, <3>3 DEF ConnState, Status
    <3>5. None <= listen.k /\ \A k \in s : k <= listen.k
      BY <1>0, <1>3 DEF None
    <3> HIDE DEF d, s
    <3>6. Becomes("client", d)
      BY <2>3 DEF d
    <3> QED
      BY <1>0, <1>1, <1>2, <3>1, <3>4, <3>5, <3>6, NoPipeStep
  <2> QED
    BY <1>11, <2>2, <2>3 DEF ListenCancel
<1> QED
  BY <1>8, <1>9, <1>10, <1>11

LEMMA ListenAcceptOK ==
  ASSUME IInv, InputsGrow, ListenAccept
  PROVE  IInv'
<1> DEFINE k == listen.k
           c == [client EXCEPT !.onCmdErr = k, !.status = "Packet"]
<1>0. /\ TypeOK /\ client \in ConnState /\ client = conn["client"] /\ listen \in ListenState
      /\ WireSound(wire) /\ conn \in [End -> ConnState]
      /\ client' = conn'["client"] /\ server = conn["server"] /\ server' = conn'["server"]
      /\ pipe \in [Listen -> PipeState]
  BY ListenFacts DEF IInv, TypeOK, client, server, PipeState
<1>1. /\ listen.pc = "accepted" /\ Becomes("client", c) /\ wire' = wire
      /\ pipe' = [pipe EXCEPT ![k] = "open"] /\ listen' = ListenOver
      /\ UNCHANGED <<buf, hand, serve, read, write, got>> /\ hand' = hand /\ serve' = serve
  BY DEF ListenAccept, userVars
<1>2. NoPipe /\ ~Over
  BY <1>1, NoPipeYet DEF Over
<1>3. /\ ~client.crashed /\ client.opening = None /\ client.packetDataCh = k
      /\ k \in Listen /\ k # None /\ k \notin client.closedCh
      /\ \A j \in client.closedCh : j <= k
      /\ client.packetDataCh <= k /\ hand["client"] = {}
  BY <1>0, <1>1, <1>2, NoPipeFacts, ListenFacts
     DEF IInv, EndSound, ListenState, PipeOfLastListen, ChannelSound
<1>4. /\ c \in ConnState /\ c.status = "Packet" /\ c.onCmdErr = k /\ ~c.crashed
      /\ c.opening = None /\ c.packetDataCh = k
      /\ c.closedCh = client.closedCh /\ c.onResult = client.onResult
  BY <1>0, <1>3 DEF ConnState, Status
<1>5. /\ listen' \in ListenState /\ listen'.k = k /\ listen'.pc = "idle"
      /\ listen'.res = "none" /\ listen'.stale = listen.stale
  BY <1>0, <1>1 DEF ListenOver, ListenState
<1> HIDE DEF c
<1>6. conn' \in [End -> ConnState] /\ client' = c /\ server' = server
  BY <1>0, <1>1, <1>4, BecomesFacts, ListenFacts
<1>7. /\ pipe' \in [Listen -> PipeState] /\ pipe'[k] = "open"
      /\ \A j \in Listen : j # k => pipe'[j] = "none"
  BY <1>0, <1>1, <1>2, <1>3 DEF PipeState, NoPipe
<1> HIDE DEF k
<1>8. EndSound'
  BY <1>1, <1>4, <1>6 DEF IInv, EndSound
<1>9. PipeOfLastListen'
  BY <1>3, <1>4, <1>5, <1>6, <1>7 DEF PipeOfLastListen
<1>10. ChannelSound'
  BY <1>1, <1>3, <1>4, <1>5, <1>6, <1>7 DEF ChannelSound
<1>11. (listen.stale \/ Over \/ Exchange)'
  <2>1. ASSUME Exchange PROVE Exchange'
    <3>1. Quiet(wire) /\ ~Opening /\ OneRequest(wire, k) /\ server.opening = None
          /\ server.packetConn \in {None, k} /\ ~On(wire, "replyFalse")
      BY <1>1, <2>1 DEF Exchange, Opening, k, Quiet, Request
    <3>2. ~Opening' /\ ~Told' /\ ~NoPipe'
      BY <1>3, <1>5, <1>6, <1>7, <3>1 DEF Opening, Told, NoPipe
    <3> QED
      BY <1>1, <1>5, <1>6, <3>1, <3>2 DEF Exchange
  <2> QED
    BY <1>2, <1>5, <2>1 DEF IInv
<1>12. PanicNeedsClosedPipe'
  BY <1>4, <1>6 DEF PanicNeedsClosedPipe
<1>13. \A j \in Listen : pipe[j] # "none" => pipe'[j] # "none"
  BY <1>2 DEF NoPipe
<1> QED
  BY <1>0, <1>1, <1>5, <1>6, <1>7, <1>8, <1>9, <1>10, <1>11, <1>12, <1>13, Assemble

-----------------------------------------------------------------------------
(* Handle.                                                                 *)

LEMMA HandleReplyOK ==
  ASSUME IInv, InputsGrow, NEW e \in End, HandleReply(e)
  PROVE  IInv'
<1>0. /\ TypeOK /\ client \in ConnState /\ client = conn["client"] /\ listen \in ListenState
      /\ WireSound(wire) /\ conn \in [End -> ConnState]
      /\ client' = conn'["client"] /\ server = conn["server"] /\ server' = conn'["server"]
      /\ pipe \in [Listen -> PipeState]
  BY ListenFacts DEF IInv, TypeOK, client, server, PipeState
<1>1. PICK t \in {"replyTrue", "replyFalse"} :
        /\ Incoming(e, t)
        /\ listen' = IF conn[e].onResult = listen.k
                     THEN [listen EXCEPT !.res = IF t = "replyTrue" THEN "ok" ELSE "fail"]
                     ELSE listen
  BY DEF HandleReply
<1>2. wire[e] # <<>> /\ Head(wire[e]).t = t /\ LockFree(e)
  BY <1>1 DEF Incoming, AtHead
<1>3. /\ wire' = Received(e) /\ WireSound(wire') /\ Fewer(wire, wire') /\ On(wire, t)
      /\ FrameSound(e, Head(wire[e])) /\ t \in Request
      /\ \A k : OneRequest(wire, k) => Quiet(wire')
  BY <1>0, <1>2, ReceivedFacts DEF HandleReply, Request
<1>4. e = "client"
  BY <1>2, <1>3 DEF FrameSound, End
<1> DEFINE c == [client EXCEPT !.onResult = None]
<1>5. /\ c \in ConnState /\ c.status = client.status /\ c.packetDataCh = client.packetDataCh
      /\ c.closedCh = client.closedCh /\ c.onCmdErr = client.onCmdErr
      /\ c.opening = client.opening /\ c.crashed = client.crashed
      /\ c.ctxDone = client.ctxDone /\ c.onResult = None
  BY <1>0 DEF ConnState
<1>6. Becomes("client", c) /\ pipe' = pipe /\ UNCHANGED <<buf, hand, serve, read, write, got>>
      /\ hand' = hand /\ serve' = serve
  BY <1>0, <1>4 DEF HandleReply, userVars
<1> HIDE DEF c
<1>7. conn' \in [End -> ConnState] /\ client' = c /\ server' = server
  BY <1>0, <1>5, <1>6, BecomesFacts, ListenFacts
<1>8. /\ listen' \in ListenState /\ listen'.k = listen.k /\ listen'.pc = listen.pc
      /\ listen'.stale = listen.stale
      /\ client.onResult = listen.k => listen'.res = IF t = "replyTrue" THEN "ok" ELSE "fail"
  <2>1. CASE client.onResult = listen.k
    <3>1. listen' = [listen EXCEPT !.res = IF t = "replyTrue" THEN "ok" ELSE "fail"]
      BY <1>0, <1>1, <1>4, <2>1
    <3> QED
      BY <1>0, <3>1 DEF ListenState
  <2>2. CASE client.onResult # listen.k
    BY <1>0, <1>1, <1>4, <2>2
  <2> QED
    BY <2>1, <2>2
<1>9. EndSound'
  BY <1>5, <1>6, <1>7 DEF IInv, EndSound
<1>10. PipeOfLastListen'
  BY <1>5, <1>6, <1>7, <1>8 DEF IInv, PipeOfLastListen
<1>11. ChannelSound'
  BY <1>5, <1>6, <1>7, <1>8 DEF IInv, ChannelSound
<1>12. (listen.stale \/ Over \/ Exchange)'
  <2>1. Over => Over'
    BY <1>5, <1>6, <1>7, <1>8 DEF Over, NoPipe
  <2>2. ASSUME Exchange PROVE Exchange'
    <3>1. ~Quiet(wire)
      BY <1>3 DEF Quiet
    <3>2. /\ ~Opening /\ ~Told /\ client.onResult = listen.k /\ listen.pc = "select"
          /\ OneRequest(wire, listen.k) /\ server.opening = None
          /\ server.packetConn \in {None, listen.k}
      BY <1>2, <1>4, <2>2, <3>1 DEF Exchange, LockFree, Opening
    <3>3. t = "replyFalse" => server.packetConn = None
      BY <1>3, <2>2 DEF Exchange
    <3>4. Quiet(wire') /\ OneRequest(wire', listen.k) /\ ~On(wire', "replyFalse")
      BY <1>3, <3>2 DEF Fewer, Quiet, Request
    <3>5. ~Opening' /\ (listen'.res = "fail" => t = "replyFalse")
      BY <1>1, <1>7, <1>8, <3>2 DEF Opening
    <3> QED
      BY <1>7, <1>8, <3>2, <3>3, <3>4, <3>5 DEF Exchange
  <2> QED
    BY <1>8, <2>1, <2>2 DEF IInv
<1>13. PanicNeedsClosedPipe'
  BY <1>5, <1>6, <1>7 DEF IInv, PanicNeedsClosedPipe
<1> QED
  BY <1>0, <1>3, <1>6, <1>7, <1>8, <1>9, <1>10, <1>11, <1>12, <1>13, Assemble

LEMMA HandleErrorOK ==
  ASSUME IInv, InputsGrow, NEW e \in End, HandleError(e)
  PROVE  IInv'
<1>0. /\ TypeOK /\ client \in ConnState /\ client = conn["client"] /\ listen \in ListenState
      /\ WireSound(wire) /\ conn \in [End -> ConnState]
      /\ client' = conn'["client"] /\ server = conn["server"] /\ server' = conn'["server"]
      /\ pipe \in [Listen -> PipeState] /\ PipeOfLastListen /\ ChannelSound
  BY ListenFacts DEF IInv, TypeOK, client, server, PipeState
<1>1. /\ wire[e] # <<>> /\ Head(wire[e]).t = "error" /\ wire' = Received(e)
      /\ UNCHANGED <<buf, hand, serve, read, write, got>> /\ listen' = listen
      /\ hand' = hand /\ serve' = serve
  BY DEF HandleError, Incoming, AtHead, userVars
<1>2. /\ WireSound(wire') /\ Fewer(wire, wire') /\ FrameSound(e, Head(wire[e]))
  BY <1>0, <1>1, ReceivedFacts
<1>3. e = "client"
  BY <1>1, <1>2 DEF FrameSound, End
<1> DEFINE k == client.onCmdErr
<1>4. CASE client.status # "Idle" /\ k # None
  <2> DEFINE s == client.closedCh \cup {k}
             c == [client EXCEPT !.closedCh = s, !.packetDataCh = None, !.onCmdErr = None]
  <2>1. /\ k = listen.k /\ client.packetDataCh = k /\ pipe[k] # "none" /\ k \in Listen
    BY <1>0, <1>4 DEF ChannelSound, ConnState
  <2>2. listen.pc = "idle" /\ client.status \in {"Packet", "Closed"}
    BY <1>0, <2>1 DEF PipeOfLastListen
  <2>3. CmdErr(client) = c
    BY <1>0, <2>1 DEF CmdErr, CloseChannel, ConnState
  <2>4. Becomes("client", c) /\ pipe' = [pipe EXCEPT ![k] = "failed"]
    BY <1>0, <1>3, <1>4, <2>3 DEF HandleError
  <2>5. s \in SUBSET Listen
    BY <1>0, <2>1 DEF ConnState
  <2>6. /\ c \in ConnState /\ c.status = client.status /\ c.packetDataCh = None
        /\ c.closedCh = s /\ c.onCmdErr = None
        /\ c.opening = client.opening /\ c.crashed = client.crashed
        /\ c.ctxDone = client.ctxDone /\ c.onResult = client.onResult
    BY <1>0, <2>5 DEF ConnState
  <2> HIDE DEF c
  <2>7. conn' \in [End -> ConnState] /\ client' = c /\ server' = server
    BY <1>0, <2>4, <2>6, BecomesFacts, ListenFacts
  <2>8. /\ pipe' \in [Listen -> PipeState] /\ pipe'[k] = "failed"
        /\ \A j \in Listen : j # k => pipe'[j] = pipe[j]
    BY <1>0, <2>1, <2>4 DEF PipeState
  <2>9. \A j \in Listen : j # k => pipe[j] = "none" /\ pipe'[j] = "none"
    BY <1>0, <2>1, <2>8 DEF PipeOfLastListen
  <2> HIDE DEF k
  <2>10. EndSound'
    BY <1>1, <2>6, <2>7 DEF IInv, EndSound
  <2>11. PipeOfLastListen'
    BY <1>1, <2>1, <2>2, <2>6, <2>7, <2>8, <2>9, ListenFacts DEF PipeOfLastListen
  <2>12. ChannelSound'
    <3>1. \A j \in s : j <= listen.k
      BY <1>0, <2>1, ListenFacts DEF ChannelSound
    <3>2. None <= listen.k
      BY <2>1, ListenFacts DEF None
    <3>3. \A h \in hand["client"] : h.ch \in {listen.k, None}
      BY <1>0 DEF ChannelSound
    <3> QED
      BY <1>1, <2>1, <2>2, <2>6, <2>7, <2>8, <2>9, <3>1, <3>2, <3>3, ListenFacts DEF ChannelSound
  <2>13. (listen.stale \/ Over \/ Exchange)'
    <3>1. ~Over
      BY <2>1 DEF Over, NoPipe
    <3>2. ASSUME Exchange PROVE Exchange'
      <4>1. OneRequest(wire', listen.k) /\ (Quiet(wire) => Quiet(wire'))
            /\ (On(wire', "replyFalse") => On(wire, "replyFalse"))
        BY <1>2, <3>2, FewerFacts DEF Exchange, Fewer, Request
      <4>2. (Opening' <=> Opening) /\ (Told' <=> Told) /\ ~NoPipe'
        BY <1>1, <2>1, <2>7, <2>8 DEF Opening, Told, NoPipe
      <4> QED
        BY <1>1, <2>6, <2>7, <3>2, <4>1, <4>2 DEF Exchange
    <3> QED
      BY <1>1, <3>1, <3>2 DEF IInv
  <2>14. PanicNeedsClosedPipe'
    BY <2>1, <2>8 DEF PanicNeedsClosedPipe
  <2>15. \A j \in Listen : pipe[j] # "none" => pipe'[j] # "none"
    BY <2>8, <2>9
  <2> QED
    BY <1>0, <1>1, <1>2, <2>7, <2>8, <2>10, <2>11, <2>12, <2>13, <2>14, <2>15, Assemble
<1>5. CASE ~(client.status # "Idle" /\ k # None)
  <2>1. UNCHANGED conn /\ UNCHANGED <<listen, pipe, serve>> /\ UNCHANGED <<hand, listen, pipe>>
        /\ UNCHANGED <<buf, read, write, got, pipe>>
    BY <1>0, <1>1, <1>3, <1>5 DEF HandleError
  <2> QED
    BY <1>0, <1>2, <2>1, NoEnd, Kept, Quietly
<1> QED
  BY <1>4, <1>5

(* Steps of the server that leave the client and its pipes alone.          *)
LEMMA ServerStep ==
  ASSUME IInv, InputsGrow, UNCHANGED <<listen, pipe, buf, hand, read, write, got>>,
         NEW d \in ConnState, conn' \in [End -> ConnState], conn'["server"] = d,
         conn'["client"] = conn["client"],
         d.packetDataCh = None, d.closedCh = {}, d.status # "InOper",
         d.opening # None => d.status = "Idle",
         d.status = "Idle" => d.packetConn = None /\ serve' = serve,
         d.status = "Packet" => d.packetConn # None,
         server.status = "Idle", ServeTyped', \A k \in Listen : serve'[k].pc \in {"none", "start"},
         WireSound(wire'), Exchange => Exchange'
  PROVE  IInv'
<1>0. /\ TypeOK /\ client' = client /\ server' = d /\ listen' = listen /\ pipe' = pipe
      /\ hand' = hand /\ UNCHANGED <<buf, hand, read, write, got>>
      /\ listen' \in ListenState /\ pipe' \in [Listen -> PipeState]
      /\ \A k \in Listen : pipe[k] # "none" => pipe'[k] # "none"
  BY DEF IInv, TypeOK, client, server, PipeState
<1>1. EndSound'
  BY <1>0 DEF IInv, EndSound
<1>2. PipeOfLastListen' /\ ChannelSound'
  BY <1>0 DEF IInv, PipeOfLastListen, ChannelSound
<1>3. (listen.stale \/ Over \/ Exchange)' /\ PanicNeedsClosedPipe'
  BY <1>0 DEF IInv, Over, NoPipe, PanicNeedsClosedPipe
<1> QED
  BY <1>0, <1>1, <1>2, <1>3, AssembleServe

LEMMA HandleOpenOK ==
  ASSUME IInv, InputsGrow, NEW e \in End, HandleOpen(e)
  PROVE  IInv'
<1>0. /\ TypeOK /\ server \in ConnState /\ WireSound(wire) /\ conn \in [End -> ConnState]
      /\ client = conn["client"] /\ client' = conn'["client"]
      /\ server = conn["server"] /\ server' = conn'["server"] /\ EndSound
  BY ListenFacts DEF IInv, TypeOK, client, server
<1> DEFINE f == Head(wire[e])
<1>1. /\ wire[e] # <<>> /\ f.t = "open" /\ wire' = Received(e) /\ conn[e].opening = None
      /\ UNCHANGED <<listen, pipe, buf, hand, serve, read, write, got>>
      /\ UNCHANGED <<listen, pipe, buf, hand, read, write, got>>
      /\ UNCHANGED <<listen, pipe, serve>> /\ UNCHANGED <<hand, listen, pipe>>
      /\ UNCHANGED <<buf, read, write, got, pipe>>
      /\ listen' = listen /\ pipe' = pipe /\ serve' = serve
  BY DEF HandleOpen, Incoming, AtHead, Reading, userVars
<1>2. /\ WireSound(wire') /\ Fewer(wire, wire') /\ FrameSound(e, f) /\ f \in Frame
      /\ On(wire, f.t)
      /\ \A k : OneRequest(wire, k) => (f.t \in Request => Quiet(wire')) /\ f.k = k
  BY <1>0, <1>1, ReceivedFacts
<1>3. e = "server" /\ f.k \in Listen
  BY <1>1, <1>2 DEF FrameSound, End, Frame
<1>4. CASE MayOpen(e)
  <2> DEFINE d == [server EXCEPT !.opening = f.k]
  <2>1. Becomes("server", d) /\ server.status = "Idle"
    BY <1>0, <1>3, <1>4 DEF HandleOpen, MayOpen
  <2>2. /\ d \in ConnState /\ d.packetDataCh = None /\ d.closedCh = {} /\ d.status = "Idle"
        /\ d.opening = f.k /\ d.packetConn = None
    BY <1>0, <1>3, <2>1 DEF ConnState, EndSound
  <2> HIDE DEF d, f
  <2>3. /\ conn' \in [End -> ConnState] /\ conn'["server"] = d
        /\ conn'["client"] = conn["client"]
    BY <1>0, <2>1, <2>2, BecomesFacts, ListenFacts
  <2>4. ServeTyped'
    BY <1>1, Kept DEF ServeTyped
  <2>5. \A k \in Listen : serve'[k].pc \in {"none", "start"}
    BY <1>0, <1>1, <2>1 DEF EndSound
  <2>6. ASSUME Exchange PROVE Exchange'
    <3>1. ~Quiet(wire)
      BY <1>1, <1>2 DEF Quiet, Request
    <3>2. ~Told /\ listen.pc \in {"sent", "select"} /\ client.onResult = listen.k
          /\ OneRequest(wire, listen.k)
      BY <2>6, <3>1 DEF Exchange
    <3>3. Quiet(wire') /\ OneRequest(wire', listen.k) /\ f.k = listen.k
      BY <1>1, <1>2, <3>2 DEF Fewer, Request
    <3>4. ~Told' /\ client' = client /\ server' = d
      BY <1>0, <1>1, <2>3, <3>2 DEF Told
    <3> QED
      BY <1>1, <2>2, <3>2, <3>3, <3>4 DEF Exchange
  <2> QED
    BY <1>1, <1>2, <2>1, <2>2, <2>3, <2>4, <2>5, <2>6, ServerStep
<1>5. CASE ~MayOpen(e)
  <2> HIDE DEF f
  <2>1. Becomes("server", closeWithErr(server))
    BY <1>0, <1>3, <1>5 DEF HandleOpen
  <2>2. closeWithErr(server) \in ConnState /\ Fades(server, closeWithErr(server))
    BY <1>0, CloseFacts
  <2>3. /\ conn' \in [End -> ConnState] /\ \A x \in End : Fades(conn[x], conn'[x])
        /\ server.opening # None => server'.status = server.status
    BY <1>0, <1>1, <1>3, <2>1, <2>2, OneEnd
  <2> QED
    BY <1>1, <1>2, <2>3, Kept, Quietly
<1> QED
  BY <1>4, <1>5

LEMMA ListenerAnswers ==
  ASSUME IInv, InputsGrow, NEW e \in End, ListenerOk(e) \/ ListenerErr(e)
  PROVE  IInv'
<1>0. /\ TypeOK /\ server \in ConnState /\ WireSound(wire) /\ conn \in [End -> ConnState]
      /\ client = conn["client"] /\ client' = conn'["client"]
      /\ server = conn["server"] /\ server' = conn'["server"] /\ EndSound
  BY ListenFacts DEF IInv, TypeOK, client, server
<1> DEFINE k == server.opening
           a == [server EXCEPT !.status = "Packet", !.packetConn = k, !.open = @ \cup {k}]
<1>1. e = "server" /\ k # None /\ k \in Listen
  BY <1>0 DEF ListenerOk, ListenerErr, EndSound, End, ConnState
<1>2. /\ UNCHANGED <<listen, pipe, buf, hand, read, write, got>>
      /\ listen' = listen /\ pipe' = pipe
  BY DEF ListenerOk, ListenerErr, userVars
<1>3. /\ server.status = "Idle" /\ server.packetConn = None
      /\ server.packetDataCh = None /\ server.closedCh = {}
      /\ \A j \in Listen : serve[j].pc = "none"
  BY <1>0, <1>1 DEF EndSound
<1>4. /\ a \in ConnState /\ a.status = "Packet" /\ a.packetConn = k /\ a.packetDataCh = None
      /\ a.closedCh = {}
  <2>1. server.open \cup {k} \in SUBSET Listen
    BY <1>0, <1>1 DEF ConnState
  <2> QED
    BY <1>0, <1>1, <1>3, <2>1 DEF ConnState, Status
<1> HIDE DEF a
<1>5. UNCHANGED serve => ServeTyped'
  BY Kept DEF ServeTyped
<1>6. ServeGoto(k, "start") =>
        ServeTyped' /\ \A j \in Listen : serve'[j].pc \in {"none", "start"}
  <2> SUFFICES ASSUME ServeGoto(k, "start")
               PROVE  ServeTyped' /\ \A j \in Listen : serve'[j].pc \in {"none", "start"}
    OBVIOUS
  <2> DEFINE s == [serve[k] EXCEPT !.pc = "start"]
  <2>1. serve \in [Listen -> Serving] /\ serve[k] \in Serving /\ inputs \in Nat
    BY <1>0, <1>1 DEF TypeOK
  <2>2. s \in Serving /\ s.pc = "start" /\ s.n = serve[k].n
    BY <2>1 DEF Serving, ServePC
  <2>3. serve' = [serve EXCEPT ![k] = s]
    BY <2>1 DEF ServeGoto
  <2> HIDE DEF s
  <2>4. /\ serve' \in [Listen -> Serving] /\ serve'[k] = s
        /\ \A j \in Listen : j # k => serve'[j] = serve[j]
    BY <1>1, <2>1, <2>2, <2>3
  <2>5. \A j \in Listen : serve'[j].pc \in {"none", "start"} /\ serve'[j].n = serve[j].n
    BY <1>3, <2>2, <2>4
  <2>6. ASSUME NEW j \in Listen PROVE serve'[j].n <= inputs'
    <3>1. serve[j].n \in Nat /\ serve[j].n <= inputs
      BY <2>1 DEF IInv, CallSound, Serving
    <3> QED
      BY <2>1, <2>5, <3>1 DEF InputsGrow
  <2> QED
    BY <2>4, <2>5, <2>6 DEF ServeTyped
<1>7. ASSUME NEW d, conn'["server"] = d, conn'["client"] = conn["client"],
             d.opening = None, d.packetConn \in {None, k},
             Quiet(wire) => \A j : OneRequest(wire', j),
             On(wire', "replyFalse") => On(wire, "replyFalse") \/ d.packetConn = None
      PROVE  Exchange => Exchange'
  <2> SUFFICES ASSUME Exchange PROVE Exchange'
    OBVIOUS
  <2>1. /\ Opening /\ ~Told /\ Quiet(wire) /\ k = listen.k
        /\ listen.pc \in {"sent", "select"} /\ client.onResult = listen.k
    BY <1>1 DEF Exchange, Opening
  <2>2. OneRequest(wire', listen.k) /\ ~Opening' /\ ~Told' /\ client' = client /\ server' = d
    BY <1>0, <1>2, <1>7, <2>1 DEF Opening, Told
  <2>3. On(wire', "replyFalse") => d.packetConn = None
    BY <1>7, <2>1 DEF Quiet, Request
  <2>4. listen.res = "none"
    BY <2>1 DEF Told
  <2> HIDE DEF k
  <2> QED
    BY <1>2, <1>7, <2>1, <2>2, <2>3, <2>4 DEF Exchange
<1>8. ASSUME NEW c \in {a, server}, NEW t \in {"replyTrue", "replyFalse"},
             Answered("server", c, t), t = "replyFalse" => c = server,
             c = server => UNCHANGED serve, c = a => ServeGoto(k, "start")
      PROVE  IInv'
  <2> DEFINE d == [c EXCEPT !.opening = None]
             f == Cmd(t)
  <2>1. /\ d \in ConnState /\ d.opening = None /\ d.packetDataCh = None /\ d.closedCh = {}
        /\ d.status = c.status /\ d.packetConn = c.packetConn /\ c.packetConn \in {None, k}
        /\ c.status \in {"Idle", "Packet"}
        /\ c.status = "Idle" => c.packetConn = None /\ c = server
        /\ c.status = "Packet" => c.packetConn # None /\ c = a
    BY <1>0, <1>1, <1>3, <1>4, <1>8 DEF ConnState
  <2>2. f \in Frame /\ FrameSound("client", f) /\ f.t = t
    BY <1>8 DEF Cmd, Frame, FrameSound
  <2>3. Sends("server", d, wire, f)
    BY <1>8 DEF Answered
  <2> HIDE DEF d, f
  <2>4. /\ conn' \in [End -> ConnState] /\ conn'["server"] = d /\ conn'["client"] = conn["client"]
        /\ WireSound(wire')
        /\ \A j : (f.t = "open" => f.k = j) /\ Quiet(wire) => OneRequest(wire', j)
        /\ \A r \in Request : On(wire', r) => On(wire, r) \/ r = f.t
    BY <1>0, <2>1, <2>2, <2>3, SendsFacts, ListenFacts
  <2>5. Quiet(wire) => \A j : OneRequest(wire', j)
    BY <1>8, <2>2, <2>4
  <2>6. On(wire', "replyFalse") => On(wire, "replyFalse") \/ d.packetConn = None
    BY <1>3, <1>8, <2>1, <2>2, <2>4 DEF Request
  <2>7. ServeTyped' /\ \A j \in Listen : serve'[j].pc \in {"none", "start"}
    BY <1>3, <1>5, <1>6, <1>8
  <2>8. Exchange => Exchange'
    BY <1>7, <2>1, <2>4, <2>5, <2>6
  <2>9. d.status = "Idle" => d.packetConn = None /\ serve' = serve
    BY <1>8, <2>1
  <2> HIDE DEF k
  <2> QED
    BY <1>2, <1>3, <2>1, <2>4, <2>7, <2>8, <2>9, ServerStep
<1>9. ASSUME NEW c \in {a, server}, AnswerFails("server", c), UNCHANGED serve
      PROVE  IInv'
  <2> DEFINE b == [c EXCEPT !.opening = None, !.handle = "returned"]
             d == closeWithErr(b)
  <2>1. /\ b \in ConnState /\ b.opening = None /\ b.packetDataCh = None /\ b.closedCh = {}
        /\ b.packetConn \in {None, k}
    BY <1>0, <1>3, <1>4, <1>9 DEF ConnState
  <2>2. SendFails("server", b, wire)
    BY <1>9 DEF AnswerFails
  <2> HIDE DEF b
  <2>3. d \in ConnState /\ Fades(b, d) /\ d.status = "Closed"
    BY <2>1, CloseFacts
  <2>4. /\ conn' \in [End -> ConnState] /\ conn'["server"] = d /\ conn'["client"] = conn["client"]
        /\ wire' = wire
    BY <1>0, <2>1, <2>2, SendFailsFacts, ListenFacts
  <2> HIDE DEF d
  <2>5. /\ d.opening = None /\ d.packetDataCh = None /\ d.closedCh = {}
        /\ d.packetConn \in {None, k}
    BY <2>1, <2>3 DEF Fades
  <2>6. Quiet(wire) => \A j : OneRequest(wire', j)
    BY <2>4 DEF Quiet, On, OneRequest, Request
  <2>7. Exchange => Exchange'
    BY <1>7, <2>4, <2>5, <2>6
  <2>8. ServeTyped' /\ \A j \in Listen : serve'[j].pc \in {"none", "start"}
    BY <1>3, <1>5, <1>9
  <2> HIDE DEF k
  <2> QED
    BY <1>0, <1>2, <1>3, <2>3, <2>4, <2>5, <2>7, <2>8, ServerStep
<1>10. CASE ListenerOk(e)
  <2>1. \/ Answered("server", a, "replyTrue") /\ ServeGoto(k, "start")
        \/ AnswerFails("server", a) /\ UNCHANGED serve
    BY <1>0, <1>1, <1>10 DEF ListenerOk, a
  <2>2. a # server
    BY <1>3, <1>4
  <2> HIDE DEF k
  <2> QED
    BY <1>8, <1>9, <2>1, <2>2
<1>11. CASE ListenerErr(e)
  <2>1. /\ Answered("server", server, "replyFalse") \/ AnswerFails("server", server)
        /\ UNCHANGED serve
    BY <1>0, <1>1, <1>11 DEF ListenerErr
  <2>2. a # server
    BY <1>3, <1>4
  <2> HIDE DEF k
  <2> QED
    BY <1>8, <1>9, <2>1, <2>2
<1> QED
  BY <1>10, <1>11

-----------------------------------------------------------------------------
(* The invariant.                                                          *)

LEMMA IInvInit == Init => IInv
<1> SUFFICES ASSUME Init PROVE IInv
  OBVIOUS
<1> DEFINE c == [status |-> "Idle", packetConn |-> None, packetDataCh |-> None,
                 onResult |-> None, onCmdErr |-> None, open |-> {}, closedCh |-> {},
                 opening |-> None, ctxDone |-> FALSE, handle |-> "run", crashed |-> FALSE]
           s == [pc |-> "none", conn |-> None, n |-> 0]
<1>0. 0 \in 0 .. MaxInput /\ 0 <= ChanCap
  BY PacketAssumption
<1>1. c \in ConnState
  BY DEF ConnState, Status
<1>2. s \in Serving
  BY <1>0 DEF Serving, ServePC
<1>3. /\ conn = [e \in End |-> c] /\ serve = [k \in Listen |-> s]
      /\ client = c /\ server = c
  BY ListenFacts DEF Init, client, server
<1>4. /\ listen \in ListenState /\ listen.k = None /\ listen.pc = "idle"
      /\ listen.res = "none" /\ ~listen.stale
  BY DEF Init, ListenState
<1>5. /\ wire = [e \in End |-> <<>>] /\ \A e \in End : wire[e] = <<>> /\ Len(wire[e]) = 0
  BY DEF Init
<1>6. WireSound(wire) /\ Quiet(wire) /\ OneRequest(wire, listen.k)
  <2>1. wire \in [End -> Seq(Frame)]
    BY <1>5
  <2>2. \A e \in End : 1 .. Len(wire[e]) = {}
    BY <1>5
  <2> QED
    BY <2>1, <2>2 DEF WireSound, Quiet, On, OneRequest
<1>7. /\ pipe = [k \in Listen |-> "none"] /\ buf = [k \in Listen |-> <<>>]
      /\ hand = [e \in End |-> {}] /\ read = NoRead /\ got = <<>> /\ inputs = 0
      /\ write = [pc |-> "idle", k |-> None, n |-> 0]
  BY DEF Init
<1>8. TypeOK
  <2>1. conn \in [End -> ConnState] /\ serve \in [Listen -> Serving]
    BY <1>1, <1>2, <1>3
  <2>2. /\ pipe \in [Listen -> {"none", "open", "failed", "closed"}]
        /\ buf \in [Listen -> Seq(Packet)] /\ \A k \in Listen : Len(buf[k]) <= ChanCap
        /\ hand \in [End -> SUBSET Handover] /\ got \in Seq([k : Listen, p : Packet])
    BY <1>0, <1>7
  <2>3. /\ read \in [pc : {"idle", "called", "select"}, k : Listen \cup {None},
                     ch : Listen \cup {None}]
        /\ write \in [pc : {"idle", "called"}, k : Listen \cup {None}, n : 0 .. MaxInput]
    BY <1>0, <1>7 DEF NoRead
  <2>4. \A k \in Listen : serve[k].pc = "none"
    BY <1>3
  <2> QED
    BY <1>0, <1>4, <1>6, <1>7, <2>1, <2>2, <2>3, <2>4 DEF TypeOK, WireSound
<1>9. EndSound /\ CallSound /\ PipeOfLastListen
  <2>1. \A k \in Listen : serve[k].pc = "none" /\ serve[k].n = 0
    BY <1>3
  <2>2. hand["server"] = {} /\ read.pc = "idle" /\ write.pc = "idle" /\ write.n = 0
        /\ \A k \in Listen : pipe[k] = "none"
    BY <1>7, ListenFacts DEF NoRead
  <2>3. EndSound
    BY <1>3, <2>1, <2>2 DEF EndSound
  <2>4. CallSound
    BY <1>7, <2>1, <2>2 DEF CallSound
  <2>5. PipeOfLastListen
    BY <1>3, <1>4, <2>2 DEF PipeOfLastListen
  <2> QED
    BY <2>3, <2>4, <2>5
<1>10. ChannelSound
  <2>1. hand["client"] = {} /\ \A k \in Listen : pipe[k] = "none"
    BY <1>7, ListenFacts
  <2> QED
    BY <1>3, <1>4, <2>1 DEF ChannelSound, None
<1>11. Exchange /\ PanicNeedsClosedPipe
  BY <1>3, <1>4, <1>6 DEF Exchange, Opening, Told, Quiet, Request, PanicNeedsClosedPipe
<1> QED
  BY <1>6, <1>8, <1>9, <1>10, <1>11 DEF IInv

LEMMA IInvStep == IInv /\ [Next]_vars => IInv'
<1> SUFFICES ASSUME IInv, [Next]_vars PROVE IInv'
  OBVIOUS
<1>0. inputs \in Nat /\ inputs <= MaxInput /\ MaxInput \in Nat
  BY PacketAssumption DEF IInv, TypeOK
<1>1. ASSUME Step, UNCHANGED inputs PROVE IInv'
  <2>1. InputsGrow
    BY <1>0, <1>1 DEF InputsGrow
  <2>2. ASSUME NEW e \in End, Handle(e) \/ HandOver(e) \/ PeerDone(e) \/ ConnCloses(e)
        PROVE  IInv'
    BY <2>1, <2>2, HandleOpenOK, ListenerAnswers, HandleReplyOK, HandleErrorOK, HandsStep,
       HandOverOK, ConnEndOK DEF Handle, PeerDone
  <2>3. ASSUME ListenSend \/ ListenPacket PROVE IInv'
    BY <2>1, <2>3, ListenSendOK, ListenInOperOK, ListenSelectOK, ListenAcceptOK DEF ListenPacket
  <2>4. ASSUME ReadEnd \/ \E k \in Listen : ReadFrom(k) PROVE IInv'
    BY <2>1, <2>4, ReadOK DEF ReadEnd
  <2>5. ASSUME WriteSend PROVE IInv'
    BY <2>1, <2>5, WriteOK
  <2>6. ASSUME NEW k \in Listen, servePacket(k) PROVE IInv'
    BY <2>1, <2>6, ServeOK
  <2> QED
    BY <1>1, <2>2, <2>3, <2>4, <2>5, <2>6 DEF Step
<1>2. ASSUME Input, inputs < MaxInput, inputs' = inputs + 1 PROVE IInv'
  <2>1. InputsGrow
    BY <1>0, <1>2 DEF InputsGrow
  <2>2. ASSUME NEW k \in Listen, ServeReadFrom(k) \/ SocketErr(k) PROVE IInv'
    BY <1>2, <2>1, <2>2, ServeOK
  <2>3. ASSUME WriteLate \/ \E k \in Listen : WriteTo(k) PROVE IInv'
    BY <1>2, <2>1, <2>3, WriteOK
  <2>4. ASSUME CtxCancel PROVE IInv'
    BY <2>1, <2>4, ListenSelectOK
  <2>5. ASSUME ReadDone PROVE IInv'
    BY <2>1, <2>5, ReadOK
  <2>6. ASSUME ConnDone("client") PROVE IInv'
    BY <2>1, <2>6, ConnEndOK, ListenFacts
  <2>7. ASSUME NEW k \in Listen, PipeClose(k) PROVE IInv'
    BY <2>1, <2>7, PipeCloseOK
  <2>8. ASSUME ListenerErr("server") PROVE IInv'
    BY <2>1, <2>8, ListenerAnswers, ListenFacts
  <2> QED
    BY <1>2, <2>2, <2>3, <2>4, <2>5, <2>6, <2>7, <2>8 DEF Input, Event
<1>3. ASSUME UNCHANGED vars PROVE IInv'
  <2>1. /\ conn' = conn /\ wire' = wire /\ listen' = listen /\ pipe' = pipe /\ buf' = buf
        /\ hand' = hand /\ serve' = serve /\ read' = read /\ write' = write /\ got' = got
        /\ inputs' = inputs /\ client' = client /\ server' = server
    BY <1>3 DEF vars, client, server
  <2>2. UNCHANGED conn /\ UNCHANGED <<listen, pipe, serve>> /\ UNCHANGED <<hand, listen, pipe>>
        /\ UNCHANGED <<buf, read, write, got, pipe>>
    BY <2>1
  <2>3. InputsGrow /\ WireSound(wire') /\ Fewer(wire, wire')
    BY <1>0, <2>1, FewerFacts DEF InputsGrow, IInv
  <2> QED
    BY <2>2, <2>3, Kept, NoEnd, Quietly DEF IInv
<1> QED
  BY <1>1, <1>2, <1>3 DEF Next

(* The inductive invariant holds of every behaviour of the packet mode, at *)
(* both ends and with the goroutines of servePacket and handleBinary.      *)
THEOREM Invariance == Spec => []IInv
<1> QED
  BY IInvInit, IInvStep, PTL DEF Spec

(* Type correctness of the packet mode, for any number of calls, packets   *)
(* and addresses of any length: servePacket past its test has a socket, no *)
(* nil channel is closed, and what handleBinary reads from a frame is a    *)
(* packet, though the lengths in it are written modulo 256.                *)
THEOREM PacketTypes == Spec => []TypeOK
<1>1. IInv => TypeOK
  BY DEF IInv
<1> QED
  BY <1>1, Invariance, PTL

(* A Conn gives out one ConnPacketPipe in its life and is not idle again,  *)
(* and the server serves the socket of that pipe, unless a call was        *)
(* cancelled before (ListenPacketContext, the handler of P).               *)
THEOREM ConnGivesOnePipe == Spec => []OnePipe
<1>1. IInv => OnePipe
  <2> SUFFICES ASSUME IInv, NEW k \in Listen, pipe[k] # "none"
               PROVE  /\ client.status \in {"Packet", "Closed"}
                      /\ \A j \in Listen \ {k} : pipe[j] = "none"
                      /\ server.packetConn \in {k, None} \/ listen.stale
    BY DEF OnePipe
  <2>1. /\ client.status \in {"Packet", "Closed"} /\ k = listen.k
        /\ \A j \in Listen \ {k} : pipe[j] = "none"
    BY DEF IInv, PipeOfLastListen
  <2>2. ~Over
    BY DEF Over, NoPipe
  <2> QED
    BY <2>1, <2>2 DEF IInv, Exchange
<1> QED
  BY <1>1, Invariance, PTL

(* The process of the client panics only over a pipe that was closed, by   *)
(* its user or by an E: never over a nil channel, the channel of an        *)
(* earlier call or one that a cancelled call has closed.                   *)
THEOREM PanicsOverClosedPipe == Spec => []PanicNeedsClosedPipe
<1>1. IInv => PanicNeedsClosedPipe
  BY DEF IInv
<1> QED
  BY <1>1, Invariance, PTL

-----------------------------------------------------------------------------
(* What the packets carry.                                                 *)

(* The two strings of an address fit behind a length of one byte, as those *)
(* of a net.UDPAddr do ("udp", an IP with its zone, and a port).           *)
AddrsFit == Len(Network) < 256 /\ \A n \in DOMAIN Addrs : Len(Addrs[n]) < 256

(* The first byte of the data of a packet, and of the packet in a frame.   *)
Tag(p) == p.data[1]
FrameTag(f) == f[f[1] + f[f[1] + 2] + 3]
TagOf(k, n) == k * (MaxInput + 1) + n

IsSlice(q, f, i, j) ==
  Len(q) = j - i + 1 /\ \A x \in 1 .. j - i + 1 : q[x] = f[i + x - 1]
IsConcat(q, s, t) ==
  /\ Len(q) = Len(s) + Len(t)
  /\ \A i \in 1 .. Len(s) : q[i] = s[i]
  /\ \A i \in 1 .. Len(t) : q[Len(s) + i] = t[i]

LEMMA SubSeqAt ==
  ASSUME NEW S, NEW f \in Seq(S), NEW i \in Nat \ {0}, NEW j \in Nat, i <= j + 1, j <= Len(f)
  PROVE  SubSeq(f, i, j) \in Seq(S) /\ IsSlice(SubSeq(f, i, j), f, i, j)
<1>1. SubSeq(f, i, j) = [x \in 1 .. j - i + 1 |-> f[i + x - 1]]
  BY DEF SubSeq
<1>2. \A x \in 1 .. j - i + 1 : f[i + x - 1] \in S
  OBVIOUS
<1>3. j - i + 1 \in Nat
  OBVIOUS
<1> QED
  BY <1>1, <1>2, <1>3 DEF Seq, IsSlice

LEMMA ConcatAt ==
  ASSUME NEW S, NEW s \in Seq(S), NEW t \in Seq(S)
  PROVE  s \o t \in Seq(S) /\ IsConcat(s \o t, s, t)
BY DEF IsConcat

LEMMA SameSeq ==
  ASSUME NEW S, NEW s \in Seq(S), NEW t \in Seq(S), Len(s) = Len(t),
         \A i \in 1 .. Len(s) : s[i] = t[i]
  PROVE  s = t
OBVIOUS

LEMMA PrefixOf ==
  ASSUME NEW S, NEW d \in Seq(S), NEW i \in 1 .. Len(d)
  PROVE  LET s == SubSeq(d, 1, i) IN
           s # <<>> /\ IsPrefix(s, d) /\ s[1] = d[1]
<1> DEFINE s == SubSeq(d, 1, i)
<1>1. s \in Seq(S) /\ Len(s) = i /\ \A x \in 1 .. i : s[x] = d[x]
  <2>1. i \in Nat /\ 1 <= i /\ i <= Len(d) /\ 1 \in Nat \ {0} /\ 1 <= i + 1
    OBVIOUS
  <2>2. s \in Seq(S) /\ IsSlice(s, d, 1, i)
    BY <2>1, SubSeqAt
  <2> HIDE DEF s
  <2> QED
    BY <2>1, <2>2 DEF IsSlice
<1>2. SubSeq(s, 1, Len(s)) = s
  <2>1. SubSeq(s, 1, Len(s)) = [x \in 1 .. Len(s) |-> s[x]]
    BY <1>1 DEF SubSeq
  <2> HIDE DEF s
  <2> QED
    BY <1>1, <2>1
<1>3. IsPrefix(s, d)
  <2>1. SubSeq(d, 1, Len(s)) = s
    BY <1>1
  <2> QED
    BY <1>1, <1>2, <2>1 DEF IsPrefix
<1>4. s # <<>> /\ s[1] = d[1]
  <2> HIDE DEF s
  <2> QED
    BY <1>1
<1> QED
  BY <1>3, <1>4

(* What handleBinary makes of the n-th packet of k is that packet, though  *)
(* its data may be cut.                                                    *)
LEMMA ReadsBack ==
  ASSUME AddrsFit, NEW k \in Nat, NEW n \in 1 .. MaxInput
  PROVE  LET f == Format(Sent(k, n)) IN
           /\ FrameTag(f) = TagOf(k, n)
           /\ \A p \in Parsed(f) : IsPacket(p, k, n) /\ Tag(p) = TagOf(k, n)
<1> DEFINE a == Network
           b == Addrs[n]
           d == Data(k, n)
           l == Len(a)
           m == Len(b)
           s1 == <<l>> \o a
           s2 == s1 \o <<m>>
           s == s2 \o b
           f == s \o d
           e == SubSeq(f, l + m + 3, Len(f))
<1>1. /\ a \in Seq(Byte) /\ b \in Seq(Byte) /\ l \in Nat /\ m \in Nat /\ l < 256 /\ m < 256
      /\ n \in Nat /\ n >= 1
  BY PacketAssumption DEF AddrsFit
<1>2. TagOf(k, n) \in Nat
  <2>1. MaxInput \in Nat /\ k * (MaxInput + 1) \in Nat
    BY PacketAssumption
  <2> QED
    BY <1>1, <2>1 DEF TagOf
<1>3. d \in Seq(Nat) /\ Len(d) = n /\ \A i \in 1 .. n : d[i] = TagOf(k, n)
  BY <1>1, <1>2 DEF Data, TagOf
<1>4. f = Format(Sent(k, n))
  <2>1. LengthByte(l) = l /\ LengthByte(m) = m
    BY <1>1, Modulo DEF LengthByte
  <2> QED
    BY <2>1 DEF Format, Sent
<1>5. a \in Seq(Nat) /\ b \in Seq(Nat)
  <2>1. Byte \subseteq Nat
    BY DEF Byte
  <2> HIDE DEF a, b
  <2>2. ASSUME NEW q \in Seq(Byte) PROVE q \in Seq(Nat)
    <3>1. \A i \in 1 .. Len(q) : q[i] \in Byte
      OBVIOUS
    <3>2. \A i \in 1 .. Len(q) : q[i] \in Nat
      BY <2>1, <3>1, Zenon
    <3> QED
      BY <3>2
  <2> QED
    BY <1>1, <2>2
<1>0. l = Len(a) /\ m = Len(b) /\ 1 .. Len(a) = 1 .. l /\ 1 .. Len(b) = 1 .. m
  OBVIOUS
<1> HIDE DEF a, b, d, l, m
<1>6. /\ s1 \in Seq(Nat) /\ Len(s1) = 1 + l /\ s1[1] = l
      /\ \A i \in 1 .. l : s1[1 + i] = a[i]
  BY <1>0, <1>1, <1>5
<1> HIDE DEF s1
<1>7. /\ s2 \in Seq(Nat) /\ Len(s2) = 2 + l /\ s2[1] = l /\ s2[l + 2] = m
      /\ \A i \in 1 .. l : s2[1 + i] = a[i]
  BY <1>1, <1>5, <1>6
<1> HIDE DEF s2
<1>8. /\ s \in Seq(Nat) /\ Len(s) = 2 + l + m /\ s[1] = l /\ s[l + 2] = m
      /\ \A i \in 1 .. l : s[1 + i] = a[i]
      /\ \A i \in 1 .. m : s[2 + l + i] = b[i]
  <2>1. s \in Seq(Nat) /\ IsConcat(s, s2, b)
    BY <1>5, <1>7, ConcatAt
  <2> HIDE DEF s
  <2>2. Len(s) = 2 + l + m /\ s[1] = l /\ s[l + 2] = m
    <3>1. Len(s) = 2 + l + m /\ 1 \in 1 .. Len(s2) /\ l + 2 \in 1 .. Len(s2)
      BY <1>0, <1>1, <1>7, <2>1 DEF IsConcat
    <3>2. s[1] = s2[1] /\ s[l + 2] = s2[l + 2]
      BY <2>1, <3>1 DEF IsConcat
    <3> QED
      BY <1>7, <3>1, <3>2
  <2>3. ASSUME NEW i \in 1 .. l PROVE s[1 + i] = a[i]
    <3>1. 1 + i \in 1 .. Len(s2)
      BY <1>1, <1>7
    <3>2. s[1 + i] = s2[1 + i]
      BY <2>1, <3>1 DEF IsConcat
    <3> QED
      BY <1>7, <3>2
  <2>4. ASSUME NEW i \in 1 .. m PROVE s[2 + l + i] = b[i]
    BY <1>0, <1>1, <1>7, <2>1 DEF IsConcat
  <2> QED
    BY <2>1, <2>2, <2>3, <2>4
<1> HIDE DEF s
<1>9. /\ f \in Seq(Nat) /\ Len(f) = 2 + l + m + n /\ f[1] = l /\ f[l + 2] = m
      /\ \A i \in 1 .. l : f[1 + i] = a[i]
      /\ \A i \in 1 .. m : f[2 + l + i] = b[i]
      /\ \A i \in 1 .. n : f[2 + l + m + i] = d[i]
  <2>1. f \in Seq(Nat) /\ IsConcat(f, s, d)
    BY <1>3, <1>8, ConcatAt
  <2> HIDE DEF f
  <2>2. Len(f) = 2 + l + m + n /\ f[1] = l /\ f[l + 2] = m
    BY <1>1, <1>3, <1>8, <2>1 DEF IsConcat
  <2>3. ASSUME NEW i \in 1 .. l PROVE f[1 + i] = a[i]
    <3>1. 1 + i \in 1 .. Len(s)
      BY <1>1, <1>8
    <3> QED
      BY <1>8, <2>1, <3>1 DEF IsConcat
  <2>4. ASSUME NEW i \in 1 .. m PROVE f[2 + l + i] = b[i]
    <3>1. 2 + l + i \in 1 .. Len(s)
      BY <1>1, <1>8
    <3> QED
      BY <1>8, <2>1, <3>1 DEF IsConcat
  <2>5. ASSUME NEW i \in 1 .. n PROVE f[2 + l + m + i] = d[i]
    <3>1. i \in 1 .. Len(d) /\ Len(s) + i = 2 + l + m + i
      BY <1>1, <1>3, <1>8
    <3> QED
      BY <2>1, <3>1 DEF IsConcat
  <2> QED
    BY <2>1, <2>2, <2>3, <2>4, <2>5
<1> HIDE DEF f
<1>10. SubSeq(f, 2, l + 1) = a
  <2> DEFINE q == SubSeq(f, 2, l + 1)
  <2>0. 2 \in Nat \ {0} /\ l + 1 \in Nat /\ 2 <= (l + 1) + 1 /\ l + 1 <= Len(f)
    BY <1>1, <1>9
  <2>3. q \in Seq(Nat) /\ IsSlice(q, f, 2, l + 1)
    BY <1>9, <2>0, SubSeqAt
  <2> HIDE DEF q
  <2>1. q \in Seq(Nat) /\ Len(q) = l /\ \A x \in 1 .. l : q[x] = f[1 + x]
    BY <1>1, <2>3 DEF IsSlice
  <2>2. Len(q) = Len(a) /\ \A i \in 1 .. Len(q) : q[i] = a[i]
    BY <1>0, <1>1, <1>9, <2>1
  <2>4. q = a
    BY <1>5, <2>1, <2>2, SameSeq
  <2> QED
    BY <2>4 DEF q
<1>11. SubSeq(f, l + 3, l + m + 2) = b
  <2> DEFINE q == SubSeq(f, l + 3, l + m + 2)
  <2>0. l + 3 \in Nat \ {0} /\ l + m + 2 \in Nat /\ l + 3 <= (l + m + 2) + 1 /\ l + m + 2 <= Len(f)
    BY <1>1, <1>9
  <2>1. q \in Seq(Nat) /\ IsSlice(q, f, l + 3, l + m + 2)
    BY <1>9, <2>0, SubSeqAt
  <2> HIDE DEF q
  <2>2. Len(q) = m /\ 1 .. Len(q) = 1 .. m
    BY <1>1, <2>1 DEF IsSlice
  <2>4. ASSUME NEW i \in 1 .. m PROVE q[i] = b[i]
    <3>1. q[i] = f[(l + 3) + i - 1]
      BY <1>1, <2>1 DEF IsSlice
    <3>2. (l + 3) + i - 1 = 2 + l + i
      BY <1>1
    <3> QED
      BY <1>9, <3>1, <3>2
  <2>3. q = b
    BY <1>0, <1>5, <2>1, <2>2, <2>4, SameSeq
  <2> QED
    BY <2>3 DEF q
<1>12. e = d
  <2>0. l + m + 3 \in Nat \ {0} /\ Len(f) \in Nat /\ l + m + 3 <= Len(f) + 1
        /\ Len(f) <= Len(f)
    BY <1>1, <1>9
  <2>1. e \in Seq(Nat) /\ IsSlice(e, f, l + m + 3, Len(f))
    BY <1>9, <2>0, SubSeqAt
  <2> HIDE DEF e
  <2>2. Len(e) = Len(d) /\ \A i \in 1 .. Len(e) : e[i] = d[i]
    BY <1>1, <1>3, <1>9, <2>1 DEF IsSlice
  <2> QED
    BY <1>3, <2>1, <2>2, SameSeq
<1>13. FrameTag(f) = TagOf(k, n)
  <2>1. d[1] = TagOf(k, n) /\ f[l + m + 3] = d[1]
    BY <1>1, <1>3, <1>9
  <2> QED
    BY <1>9, <2>1 DEF FrameTag
<1>14. ASSUME NEW p \in Parsed(f) PROVE IsPacket(p, k, n) /\ Tag(p) = TagOf(k, n)
  <2>1. Parsed(f) = {[network |-> a, addr |-> b, data |-> SubSeq(d, 1, i)] :
                       i \in IF d = <<>> THEN {0} ELSE 1 .. Len(d)}
    BY <1>9, <1>10, <1>11, <1>12 DEF Parsed
  <2>2. d # <<>> /\ d[1] = TagOf(k, n)
    BY <1>1, <1>3
  <2>3. PICK i \in 1 .. Len(d) : p = [network |-> a, addr |-> b, data |-> SubSeq(d, 1, i)]
    BY <2>1, <2>2
  <2>4. /\ SubSeq(d, 1, i) # <<>> /\ IsPrefix(SubSeq(d, 1, i), d)
        /\ SubSeq(d, 1, i)[1] = d[1]
    BY <1>3, PrefixOf
  <2> QED
    BY <2>2, <2>3, <2>4 DEF IsPacket, Tag, a, b, d
<1> QED
  BY <1>4, <1>13, <1>14

(* No two packets have the same first byte.                                *)
LEMMA TagsDiffer ==
  ASSUME NEW k \in Nat, NEW m \in Nat, NEW n \in Nat, TagOf(k, m) = TagOf(k, n)
  PROVE  m = n
<1>1. k * (MaxInput + 1) \in Nat
  BY PacketAssumption
<1> DEFINE x == k * (MaxInput + 1)
<1> HIDE DEF x
<1>2. x \in Nat /\ TagOf(k, m) = x + m /\ TagOf(k, n) = x + n
  BY <1>1 DEF TagOf, x
<1>3. x + m = x + n
  BY <1>2
<1> QED
  BY <1>2, <1>3

-----------------------------------------------------------------------------
(* Where the packets of the server are on their way to the user: in frames *)
(* on the wire w, with the goroutines h that hand them over, in the        *)
(* channels b, and among those that ReadFrom has returned, g.  o[k] is how *)
(* many packets of socket k have been sent.                                *)

From(p, o) ==
  \E k \in Listen : \E n \in 1 .. o[k] : IsPacket(p, k, n) /\ Tag(p) = TagOf(k, n)

WireFrom(w, o) == \A i \in 1 .. Len(w) :
  w[i].t = "data" => \E k \in Listen : \E n \in 1 .. o[k] : w[i].f = Format(Sent(k, n))
HandFrom(h, o) == \A x \in h : From(x.p, o)
BufFrom(b, o) == \A k \in Listen : \A i \in 1 .. Len(b[k]) : From(b[k][i], o)
GotFrom(g, o) == \A i \in 1 .. Len(g) : From(g[i].p, o)

OnWire(w, t) == \E i \in 1 .. Len(w) : w[i].t = "data" /\ FrameTag(w[i].f) = t
InHand(h, t) == \E x \in h : Tag(x.p) = t
InBuf(b, t) == \E k \in Listen : \E i \in 1 .. Len(b[k]) : Tag(b[k][i]) = t
InGot(g, t) == \E i \in 1 .. Len(g) : Tag(g[i].p) = t

(* No place has two packets with the same first byte, nor do two places.   *)
WireOnce(w) == \A i, j \in 1 .. Len(w) :
  w[i].t = "data" /\ w[j].t = "data" /\ FrameTag(w[i].f) = FrameTag(w[j].f) => i = j
HandOnce(h) == \A x, y \in h : Tag(x.p) = Tag(y.p) => x = y
BufOnce(b) == \A j, k \in Listen : \A i \in 1 .. Len(b[j]), l \in 1 .. Len(b[k]) :
  Tag(b[j][i]) = Tag(b[k][l]) => j = k /\ i = l
GotOnce(g) == \A i, j \in 1 .. Len(g) : Tag(g[i].p) = Tag(g[j].p) => i = j
Apart(w, h, b, g) == \A t :
  /\ OnWire(w, t) => ~InHand(h, t) /\ ~InBuf(b, t) /\ ~InGot(g, t)
  /\ InHand(h, t) => ~InBuf(b, t) /\ ~InGot(g, t)
  /\ InBuf(b, t) => ~InGot(g, t)

Origin(w, h, b, g, o) ==
  WireFrom(w, o) /\ HandFrom(h, o) /\ BufFrom(b, o) /\ GotFrom(g, o)
Once(w, h, b, g) ==
  WireOnce(w) /\ HandOnce(h) /\ BufOnce(b) /\ GotOnce(g) /\ Apart(w, h, b, g)

(* v has no frame of data that w does not have: it is w or its tail, maybe *)
(* with another frame, or it was cleared.                                  *)
Less(w, v) == \E c \in {0, 1} : \A i \in 1 .. Len(v) :
  v[i].t = "data" => i + c \in 1 .. Len(w) /\ v[i] = w[i + c]

LEMMA LessOnce ==
  ASSUME NEW w, NEW v, Len(v) \in Nat, Less(w, v)
  PROVE  /\ \A o : WireFrom(w, o) => WireFrom(v, o)
         /\ WireOnce(w) => WireOnce(v)
         /\ \A t : OnWire(v, t) => OnWire(w, t)
<1>1. PICK c \in {0, 1} : \A i \in 1 .. Len(v) :
        v[i].t = "data" => i + c \in 1 .. Len(w) /\ v[i] = w[i + c]
  BY DEF Less
<1>2. \A o : WireFrom(w, o) => WireFrom(v, o)
  BY <1>1 DEF WireFrom
<1>3. ASSUME WireOnce(w), NEW i \in 1 .. Len(v), NEW j \in 1 .. Len(v),
             v[i].t = "data", v[j].t = "data", FrameTag(v[i].f) = FrameTag(v[j].f)
      PROVE  i = j
  <2>1. i + c = j + c
    BY <1>1, <1>3 DEF WireOnce
  <2> QED
    BY <1>1, <2>1
<1>4. \A t : OnWire(v, t) => OnWire(w, t)
  BY <1>1 DEF OnWire
<1> QED
  BY <1>2, <1>3, <1>4 DEF WireOnce

LEMMA LessKeeps ==
  ASSUME NEW w, NEW v, Len(v) \in Nat, Less(w, v), NEW h, NEW h2, h2 \subseteq h, NEW b, NEW g,
         NEW o, Origin(w, h, b, g, o), Once(w, h, b, g)
  PROVE  Origin(v, h2, b, g, o) /\ Once(v, h2, b, g)
<1>1. WireFrom(v, o) /\ WireOnce(v) /\ \A t : OnWire(v, t) => OnWire(w, t)
  BY LessOnce DEF Origin, Once
<1>2. HandFrom(h2, o) /\ HandOnce(h2) /\ \A t : InHand(h2, t) => InHand(h, t)
  BY DEF Origin, Once, HandFrom, HandOnce, InHand
<1>3. Apart(v, h2, b, g)
  BY <1>1, <1>2 DEF Once, Apart
<1> QED
  BY <1>1, <1>2, <1>3 DEF Origin, Once

(* More packets may have been sent.                                        *)
LEMMA MoreKeeps ==
  ASSUME NEW o \in [Listen -> Int], NEW q \in [Listen -> Int],
         \A k \in Listen : o[k] <= q[k]
  PROVE  /\ \A w : WireFrom(w, o) => WireFrom(w, q)
         /\ \A h : HandFrom(h, o) => HandFrom(h, q)
         /\ \A w, h, b, g : Origin(w, h, b, g, o) => Origin(w, h, b, g, q)
<1>1. \A k \in Listen : \A n \in 1 .. o[k] : n \in 1 .. q[k]
  OBVIOUS
<1>2. \A p : From(p, o) => From(p, q)
  BY <1>1 DEF From
<1>3. \A w : WireFrom(w, o) => WireFrom(w, q)
  BY <1>1 DEF WireFrom
<1>4. \A h : HandFrom(h, o) => HandFrom(h, q)
  BY <1>2 DEF HandFrom
<1> QED
  BY <1>2, <1>3, <1>4 DEF Origin, BufFrom, GotFrom

(* All that is on its way comes from the one socket that is served, and    *)
(* its next packet is none of them.                                        *)
LEMMA FreshTag ==
  ASSUME AddrsFit, NEW k \in Listen, NEW n \in Nat, NEW o \in [Listen -> 0 .. MaxInput], o[k] < n,
         \A j \in Listen : o[j] > 0 => j = k,
         NEW w, NEW h, NEW b, NEW g, Origin(w, h, b, g, o)
  PROVE  LET t == TagOf(k, n) IN
           ~OnWire(w, t) /\ ~InHand(h, t) /\ ~InBuf(b, t) /\ ~InGot(g, t)
<1> DEFINE t == TagOf(k, n)
<1>0. MaxInput \in Nat /\ Listen \subseteq Nat
  BY PacketAssumption, ListenFacts
<1>1. ASSUME NEW j \in Listen, NEW m \in 1 .. o[j] PROVE TagOf(j, m) # t /\ m \in 1 .. MaxInput
  <2>1. j = k /\ m \in Nat /\ m < n /\ m \in 1 .. MaxInput
    BY <1>0, <1>1
  <2> QED
    BY <1>0, <2>1, TagsDiffer
<1> HIDE DEF t
<1>2. \A p : From(p, o) => Tag(p) # t
  BY <1>1 DEF From
<1>3. ASSUME NEW i \in 1 .. Len(w), w[i].t = "data" PROVE FrameTag(w[i].f) # t
  <2>0. PICK j \in Listen : \E m \in 1 .. o[j] : w[i].f = Format(Sent(j, m))
    BY <1>3 DEF Origin, WireFrom
  <2>1. PICK m \in 1 .. o[j] : w[i].f = Format(Sent(j, m))
    BY <2>0
  <2>2. FrameTag(Format(Sent(j, m))) = TagOf(j, m)
    BY <1>0, <1>1, ReadsBack
  <2> QED
    BY <1>1, <2>1, <2>2
<1> QED
  BY <1>2, <1>3 DEF Origin, HandFrom, BufFrom, GotFrom, OnWire, InHand, InBuf, InGot, t

LEMMA SendKeeps ==
  ASSUME AddrsFit, NEW k \in Listen, NEW n \in 1 .. MaxInput, NEW o \in [Listen -> 0 .. MaxInput],
         o[k] < n, \A j \in Listen : o[j] > 0 => j = k,
         NEW q \in [Listen -> 0 .. MaxInput], \A j \in Listen : o[j] <= q[j], n <= q[k],
         NEW w \in Seq(Frame), NEW h, NEW b, NEW g, Origin(w, h, b, g, o), Once(w, h, b, g),
         NEW f \in Frame, f.t = "data", f.f = Format(Sent(k, n))
  PROVE  Origin(Append(w, f), h, b, g, q) /\ Once(Append(w, f), h, b, g)
<1> DEFINE v == Append(w, f)
           t == TagOf(k, n)
<1>0. MaxInput \in Nat /\ k \in Nat /\ n \in Nat
  BY PacketAssumption, ListenFacts
<1>1. /\ Len(w) \in Nat /\ Len(v) = Len(w) + 1 /\ v[Len(w) + 1] = f
      /\ \A i \in 1 .. Len(w) : v[i] = w[i]
  OBVIOUS
<1>2. ~OnWire(w, t) /\ ~InHand(h, t) /\ ~InBuf(b, t) /\ ~InGot(g, t)
  BY <1>0, FreshTag
<1>3. Origin(w, h, b, g, q)
  <2>1. o \in [Listen -> Int] /\ q \in [Listen -> Int]
    BY <1>0
  <2> QED
    BY <2>1, MoreKeeps
<1>4. FrameTag(f.f) = t
  BY <1>0, ReadsBack
<1> HIDE DEF v, t
<1>5. n \in 1 .. q[k]
  BY <1>0
<1>6. \A i \in 1 .. Len(v) : (i \in 1 .. Len(w) /\ v[i] = w[i]) \/ (i = Len(w) + 1 /\ v[i] = f)
  BY <1>1
<1>7. WireFrom(v, q)
  BY <1>3, <1>5, <1>6 DEF Origin, WireFrom
<1>8. \A i \in 1 .. Len(w) : w[i].t = "data" => FrameTag(w[i].f) # t
  BY <1>2 DEF OnWire
<1>9. WireOnce(v)
  BY <1>4, <1>6, <1>8 DEF Once, WireOnce
<1>10. \A u : OnWire(v, u) => OnWire(w, u) \/ u = t
  BY <1>4, <1>6 DEF OnWire
<1>11. Apart(v, h, b, g)
  BY <1>2, <1>10 DEF Once, Apart
<1> QED
  BY <1>3, <1>7, <1>9, <1>11 DEF Origin, Once, v

LEMMA TakeKeeps ==
  ASSUME AddrsFit, NEW o \in [Listen -> 0 .. MaxInput],
         NEW w \in Seq(Frame), NEW h, NEW b, NEW g, Origin(w, h, b, g, o), Once(w, h, b, g),
         w # <<>>, Head(w).t = "data", NEW p \in Parsed(Head(w).f), NEW x, x.p = p
  PROVE  Origin(Tail(w), h \cup {x}, b, g, o) /\ Once(Tail(w), h \cup {x}, b, g)
<1> DEFINE v == Tail(w)
           t == Tag(p)
<1>0. MaxInput \in Nat /\ Listen \subseteq Nat
  BY PacketAssumption, ListenFacts
<1>1. /\ Len(w) \in Nat /\ 1 \in 1 .. Len(w) /\ Head(w) = w[1] /\ Len(v) \in Nat
      /\ \A i \in 1 .. Len(v) : i + 1 \in 1 .. Len(w) /\ i + 1 # 1 /\ v[i] = w[i + 1]
  OBVIOUS
<1>14. PICK k \in Listen : \E n \in 1 .. o[k] : w[1].f = Format(Sent(k, n))
  BY <1>1 DEF Origin, WireFrom
<1>2. PICK n \in 1 .. o[k] : w[1].f = Format(Sent(k, n))
  BY <1>14
<1>3. n \in 1 .. MaxInput /\ k \in Nat
  BY <1>0
<1>4. FrameTag(w[1].f) = TagOf(k, n) /\ IsPacket(p, k, n) /\ Tag(p) = TagOf(k, n)
  BY <1>1, <1>2, <1>3, ReadsBack
<1>5. From(p, o)
  BY <1>4 DEF From
<1>6. Less(w, v)
  BY <1>1 DEF Less
<1>7. Origin(v, h, b, g, o) /\ Once(v, h, b, g)
  BY <1>1, <1>6, LessKeeps
<1>8. OnWire(w, t) /\ ~OnWire(v, t)
  <2>1. \A i \in 1 .. Len(v) : v[i].t = "data" => FrameTag(v[i].f) # t
    BY <1>1, <1>4 DEF Once, WireOnce
  <2> QED
    BY <1>1, <1>4, <2>1 DEF OnWire
<1> HIDE DEF v, t
<1>9. ~InHand(h, t) /\ ~InBuf(b, t) /\ ~InGot(g, t)
  BY <1>8 DEF Once, Apart
<1>10. HandFrom(h \cup {x}, o)
  BY <1>5, <1>7 DEF Origin, HandFrom
<1>11. HandOnce(h \cup {x}) /\ \A u : InHand(h \cup {x}, u) => InHand(h, u) \/ u = t
  BY <1>7, <1>9 DEF Once, HandOnce, InHand, t
<1>12. Apart(v, h \cup {x}, b, g)
  BY <1>7, <1>8, <1>9, <1>11 DEF Once, Apart
<1> QED
  BY <1>7, <1>10, <1>11, <1>12 DEF Origin, Once, v

LEMMA StartKeeps ==
  ASSUME NEW o, NEW w, NEW h, NEW b, NEW g, Origin(w, h, b, g, o), Once(w, h, b, g),
         NEW x \in h, NEW y, y.p = x.p
  PROVE  Origin(w, (h \ {x}) \cup {y}, b, g, o) /\ Once(w, (h \ {x}) \cup {y}, b, g)
<1>1. HandFrom((h \ {x}) \cup {y}, o)
  BY DEF Origin, HandFrom
<1>2. HandOnce((h \ {x}) \cup {y}) /\ \A t : InHand((h \ {x}) \cup {y}, t) => InHand(h, t)
  BY DEF Once, HandOnce, InHand
<1>3. Apart(w, (h \ {x}) \cup {y}, b, g)
  BY <1>2 DEF Once, Apart
<1> QED
  BY <1>1, <1>2, <1>3 DEF Origin, Once

LEMMA PutKeeps ==
  ASSUME NEW o, NEW w, NEW h, NEW b \in [Listen -> Seq(Packet)], NEW g,
         Origin(w, h, b, g, o), Once(w, h, b, g), NEW x \in h, x.p \in Packet, NEW c \in Listen
  PROVE  LET d == [b EXCEPT ![c] = Append(@, x.p)] IN
           Origin(w, h \ {x}, d, g, o) /\ Once(w, h \ {x}, d, g)
<1> DEFINE d == [b EXCEPT ![c] = Append(@, x.p)]
           t == Tag(x.p)
<1>1. /\ Len(b[c]) \in Nat /\ Len(d[c]) = Len(b[c]) + 1 /\ d[c][Len(b[c]) + 1] = x.p
      /\ \A i \in 1 .. Len(b[c]) : d[c][i] = b[c][i]
      /\ \A k \in Listen : k # c => d[k] = b[k]
  OBVIOUS
<1>2. InHand(h, t) /\ ~OnWire(w, t) /\ ~InBuf(b, t) /\ ~InGot(g, t) /\ From(x.p, o)
  BY DEF Once, Apart, InHand, Origin, HandFrom
<1> HIDE DEF d, t
<1>3. \A k \in Listen : \A i \in 1 .. Len(d[k]) :
        \/ i \in 1 .. Len(b[k]) /\ d[k][i] = b[k][i]
        \/ k = c /\ i = Len(b[c]) + 1 /\ d[k][i] = x.p
  BY <1>1
<1>4. BufFrom(d, o)
  BY <1>2, <1>3 DEF Origin, BufFrom
<1>5. \A k \in Listen : \A i \in 1 .. Len(b[k]) : Tag(b[k][i]) # t
  BY <1>2 DEF InBuf
<1>6. BufOnce(d)
  <2> SUFFICES ASSUME NEW j \in Listen, NEW k \in Listen,
                      NEW i \in 1 .. Len(d[j]), NEW l \in 1 .. Len(d[k]),
                      Tag(d[j][i]) = Tag(d[k][l])
               PROVE  j = k /\ i = l
    BY DEF BufOnce
  <2>1. CASE i \in 1 .. Len(b[j]) /\ d[j][i] = b[j][i]
    <3>1. Tag(d[j][i]) # t
      BY <1>5, <2>1
    <3>2. l \in 1 .. Len(b[k]) /\ d[k][l] = b[k][l]
      BY <1>3, <3>1 DEF t
    <3> QED
      BY <2>1, <3>2 DEF Once, BufOnce
  <2>2. CASE j = c /\ i = Len(b[c]) + 1 /\ d[j][i] = x.p
    <3>1. Tag(d[k][l]) = t
      BY <2>2 DEF t
    <3>2. k = c /\ l = Len(b[c]) + 1
      BY <1>3, <1>5, <3>1
    <3> QED
      BY <2>2, <3>2
  <2> QED
    BY <1>3, <2>1, <2>2
<1>7. \A u : InBuf(d, u) => InBuf(b, u) \/ u = t
  BY <1>3 DEF InBuf, t
<1>8. HandOnce(h \ {x}) /\ ~InHand(h \ {x}, t) /\ \A u : InHand(h \ {x}, u) => InHand(h, u)
  BY DEF Once, HandOnce, InHand, t
<1>9. Apart(w, h \ {x}, d, g)
  BY <1>2, <1>7, <1>8 DEF Once, Apart
<1>10. HandFrom(h \ {x}, o)
  BY DEF Origin, HandFrom
<1> QED
  BY <1>4, <1>6, <1>8, <1>9, <1>10 DEF Origin, Once, d

LEMMA ReadKeeps ==
  ASSUME NEW o, NEW w, NEW h, NEW b \in [Listen -> Seq(Packet)], NEW S, NEW g \in Seq(S),
         Origin(w, h, b, g, o), Once(w, h, b, g), NEW c \in Listen, b[c] # <<>>,
         NEW r \in S, r.p = Head(b[c])
  PROVE  LET d == [b EXCEPT ![c] = Tail(@)] IN
           Origin(w, h, d, Append(g, r), o) /\ Once(w, h, d, Append(g, r))
<1> DEFINE d == [b EXCEPT ![c] = Tail(@)]
           e == Append(g, r)
           t == Tag(r.p)
<1>1. /\ Len(b[c]) \in Nat /\ 1 \in 1 .. Len(b[c]) /\ r.p = b[c][1]
      /\ \A i \in 1 .. Len(d[c]) : i + 1 \in 1 .. Len(b[c]) /\ i + 1 # 1 /\ d[c][i] = b[c][i + 1]
      /\ \A k \in Listen : k # c => d[k] = b[k]
      /\ \A i \in 1 .. Len(d[c]) : i \in Nat
  OBVIOUS
<1>2. /\ Len(g) \in Nat /\ Len(e) = Len(g) + 1 /\ e[Len(g) + 1] = r
      /\ \A i \in 1 .. Len(g) : e[i] = g[i]
  OBVIOUS
<1>3. InBuf(b, t) /\ From(r.p, o)
  BY <1>1 DEF InBuf, Origin, BufFrom
<1>4. ~OnWire(w, t) /\ ~InHand(h, t) /\ ~InGot(g, t)
  BY <1>3 DEF Once, Apart
<1> HIDE DEF d, e, t
<1>5. \A k \in Listen : \A i \in 1 .. Len(d[k]) : \E j \in 1 .. Len(b[k]) :
        /\ d[k][i] = b[k][j] /\ ~(k = c /\ j = 1)
        /\ j = IF k = c THEN i + 1 ELSE i
  BY <1>1
<1>6. BufFrom(d, o)
  BY <1>5 DEF Origin, BufFrom
<1>7. BufOnce(d)
  <2> SUFFICES ASSUME NEW j \in Listen, NEW k \in Listen, NEW i \in 1 .. Len(d[j]),
                      NEW l \in 1 .. Len(d[k]), Tag(d[j][i]) = Tag(d[k][l])
               PROVE  j = k /\ i = l
    BY DEF BufOnce
  <2>1. PICK x \in 1 .. Len(b[j]) : d[j][i] = b[j][x] /\ x = IF j = c THEN i + 1 ELSE i
    BY <1>5
  <2>2. PICK y \in 1 .. Len(b[k]) : d[k][l] = b[k][y] /\ y = IF k = c THEN l + 1 ELSE l
    BY <1>5
  <2>3. j = k /\ x = y
    BY <2>1, <2>2 DEF Once, BufOnce
  <2>4. i \in Int /\ l \in Int
    OBVIOUS
  <2> QED
    BY <2>1, <2>2, <2>3, <2>4
<1>8. ~InBuf(d, t) /\ \A u : InBuf(d, u) => InBuf(b, u)
  <2>1. \A k \in Listen : \A j \in 1 .. Len(b[k]) : Tag(b[k][j]) = t => k = c /\ j = 1
    BY <1>1 DEF Once, BufOnce, t
  <2> QED
    BY <1>5, <2>1 DEF InBuf
<1>9. \A i \in 1 .. Len(e) : (i \in 1 .. Len(g) /\ e[i] = g[i]) \/ (i = Len(g) + 1 /\ e[i] = r)
  BY <1>2
<1>10. GotFrom(e, o)
  BY <1>3, <1>9 DEF Origin, GotFrom
<1>11. GotOnce(e) /\ \A u : InGot(e, u) => InGot(g, u) \/ u = t
  <2>1. \A i \in 1 .. Len(g) : Tag(g[i].p) # t
    BY <1>4 DEF InGot
  <2> QED
    BY <1>9, <2>1 DEF Once, GotOnce, InGot, t
<1>12. Apart(w, h, d, e)
  BY <1>4, <1>8, <1>11 DEF Once, Apart
<1> QED
  BY <1>6, <1>7, <1>10, <1>11, <1>12 DEF Origin, Once, d, e

(* A panic: only what ReadFrom has returned is left.                       *)
LEMMA PanicKeeps ==
  ASSUME NEW o, NEW w, NEW h, NEW b, NEW g, Origin(w, h, b, g, o), Once(w, h, b, g)
  PROVE  LET d == [k \in Listen |-> <<>>] IN
           Origin(<<>>, {}, d, g, o) /\ Once(<<>>, {}, d, g)
<1> DEFINE d == [k \in Listen |-> <<>>]
           v == <<>>
<1>1. (\A k \in Listen : 1 .. Len(d[k]) = {}) /\ 1 .. Len(v) = {}
  OBVIOUS
<1>2. GotFrom(g, o) /\ GotOnce(g)
  BY DEF Origin, Once
<1> HIDE DEF d, v
<1>3. WireFrom(v, o) /\ HandFrom({}, o) /\ BufFrom(d, o)
  BY <1>1 DEF WireFrom, HandFrom, BufFrom
<1>4. WireOnce(v) /\ HandOnce({}) /\ BufOnce(d) /\ Apart(v, {}, d, g)
  BY <1>1 DEF WireOnce, HandOnce, BufOnce, Apart, OnWire, InHand, InBuf
<1> QED
  BY <1>2, <1>3, <1>4 DEF Origin, Once, d, v

-----------------------------------------------------------------------------
(* Only one socket is ever served, and as long as no call was cancelled it *)
(* is that of the last call, which was told so.                            *)
Served(k) == serve[k].pc # "none"
OneServed ==
  /\ \A k \in Listen : ~Served(k) => serve[k].n = 0 /\ serve[k].conn = None
  /\ \A j, k \in Listen : Served(j) /\ Served(k) => j = k
  /\ \A k \in Listen : Served(k) =>
       serve[k].conn \in {k, None} /\ server.packetConn \in {k, None}

NoAnswer ==
  On(wire, "replyFalse") \/ listen.res = "fail" \/ (listen.pc = "idle" /\ NoPipe)
LastServed ==
  /\ \A k \in Listen : Served(k) => k = listen.k
  /\ NoAnswer => \A k \in Listen : ~Served(k)

(* How many packets each socket, and the user, have sent.                  *)
Out(k) == IF serve[k].pc = "write" THEN serve[k].n - 1 ELSE serve[k].n
OutOf == [k \in Listen |-> Out(k)]
Written == [k \in Listen |-> write.n]

ClientPackets ==
  /\ Origin(wire["client"], hand["client"], buf, got, OutOf)
  /\ Once(wire["client"], hand["client"], buf, got)
ServerPackets == WireFrom(wire["server"], Written) /\ HandFrom(hand["server"], Written)
GotSound == \A i \in 1 .. Len(got) : pipe[got[i].k] # "none"
Packets == ClientPackets /\ ServerPackets /\ GotSound

PInv ==
  /\ IInv
  /\ OneServed
  /\ listen.stale \/ Over \/ LastServed
  /\ Packets

LEMMA PFacts ==
  ASSUME PInv
  PROVE  /\ IInv /\ TypeOK /\ OneServed /\ Packets /\ EndSound /\ CallSound /\ ChannelSound
         /\ PipeOfLastListen
         /\ conn \in [End -> ConnState] /\ wire \in [End -> Seq(Frame)] /\ WireSound(wire)
         /\ hand \in [End -> SUBSET Handover] /\ buf \in [Listen -> Seq(Packet)]
         /\ serve \in [Listen -> Serving] /\ got \in Seq([k : Listen, p : Packet])
         /\ listen \in ListenState /\ write.n \in 0 .. MaxInput /\ write.n \in Nat
         /\ client = conn["client"] /\ server = conn["server"]
         /\ client' = conn'["client"] /\ server' = conn'["server"]
         /\ MaxInput \in Nat /\ Listen \subseteq Nat /\ None \notin Listen
<1>1. /\ IInv /\ TypeOK /\ OneServed /\ Packets /\ EndSound /\ CallSound /\ ChannelSound
      /\ PipeOfLastListen /\ WireSound(wire)
  BY DEF PInv, IInv
<1>2. /\ conn \in [End -> ConnState] /\ wire \in [End -> Seq(Frame)]
      /\ hand \in [End -> SUBSET Handover] /\ buf \in [Listen -> Seq(Packet)]
      /\ serve \in [Listen -> Serving] /\ got \in Seq([k : Listen, p : Packet])
      /\ listen \in ListenState /\ write.n \in 0 .. MaxInput
  BY <1>1 DEF TypeOK
<1>3. /\ client = conn["client"] /\ server = conn["server"]
      /\ client' = conn'["client"] /\ server' = conn'["server"]
  BY DEF client, server
<1>4. MaxInput \in Nat /\ Listen \subseteq Nat /\ None \notin Listen
  BY PacketAssumption, ListenFacts
<1>5. write.n \in Nat
  BY <1>2, <1>4
<1> QED
  BY <1>1, <1>2, <1>3, <1>4, <1>5

OutSound ==
  /\ OutOf \in [Listen -> 0 .. MaxInput] /\ Written \in [Listen -> 0 .. MaxInput]
  /\ \A k \in Listen : OutOf[k] <= serve[k].n /\ OutOf[k] \in Nat
  /\ \A k \in Listen : serve[k].pc = "write" => OutOf[k] + 1 = serve[k].n
  /\ \A k \in Listen : serve[k].pc # "write" => OutOf[k] = serve[k].n
  /\ \A k \in Listen : Written[k] = write.n

LEMMA OutFacts == IInv => OutSound
<1> SUFFICES ASSUME IInv PROVE OutSound
  OBVIOUS
<1>0. MaxInput \in Nat /\ TypeOK
  BY PacketAssumption DEF IInv
<1>1. ASSUME NEW k \in Listen
      PROVE  /\ Out(k) \in 0 .. MaxInput /\ Out(k) <= serve[k].n /\ Out(k) \in Nat
             /\ serve[k].pc = "write" => Out(k) + 1 = serve[k].n
             /\ serve[k].pc # "write" => Out(k) = serve[k].n
  <2>1. serve[k].n \in 0 .. MaxInput /\ (serve[k].pc = "write" => serve[k].n > 0)
    BY <1>0 DEF IInv, TypeOK, CallSound, Serving
  <2> QED
    BY <1>0, <2>1 DEF Out
<1>2. Written \in [Listen -> 0 .. MaxInput] /\ \A k \in Listen : Written[k] = write.n
  BY <1>0 DEF Written, TypeOK
<1>3. OutOf \in [Listen -> 0 .. MaxInput] /\ \A k \in Listen : OutOf[k] = Out(k)
  BY <1>1 DEF OutOf
<1> QED
  BY <1>1, <1>2, <1>3 DEF OutSound

LEMMA OutNext == IInv' => OutSound'
BY OutFacts, PTL

(* Most steps neither send nor take data.                                  *)
WiresLess == \A e \in End : Len(wire'[e]) \in Nat /\ Less(wire[e], wire'[e])

LEMMA AppendLess ==
  ASSUME NEW w \in Seq(Frame), NEW f \in Frame, f.t # "data"
  PROVE  Less(w, Append(w, f)) /\ Len(Append(w, f)) \in Nat
<1> DEFINE v == Append(w, f)
<1>1. \A i \in 1 .. Len(v) : (i + 0 \in 1 .. Len(w) /\ v[i] = w[i + 0]) \/ v[i] = f
  OBVIOUS
<1>2. Len(v) \in Nat
  OBVIOUS
<1> HIDE DEF v
<1>3. Less(w, v)
  BY <1>1 DEF Less
<1> QED
  BY <1>2, <1>3 DEF v

LEMMA TailLess ==
  ASSUME NEW w \in Seq(Frame), w # <<>>
  PROVE  Less(w, Tail(w)) /\ Len(Tail(w)) \in Nat
<1> DEFINE v == Tail(w)
<1>1. Len(v) \in Nat /\ \A i \in 1 .. Len(v) : i + 1 \in 1 .. Len(w) /\ v[i] = w[i + 1]
  OBVIOUS
<1> HIDE DEF v
<1>2. Less(w, v)
  BY <1>1 DEF Less
<1> QED
  BY <1>1, <1>2 DEF v

LEMMA SameLess ==
  ASSUME NEW w \in Seq(Frame)
  PROVE  Less(w, w) /\ Less(w, <<>>) /\ Len(w) \in Nat /\ Len(<<>>) \in Nat
<1>1. Less(w, w)
  <2>1. \A i \in 1 .. Len(w) : i + 0 \in 1 .. Len(w) /\ w[i] = w[i + 0]
    OBVIOUS
  <2> QED
    BY <2>1 DEF Less
<1>2. Less(w, <<>>)
  <2> DEFINE v == <<>>
  <2>1. 1 .. Len(v) = {}
    OBVIOUS
  <2> HIDE DEF v
  <2>2. Less(w, v)
    BY <2>1 DEF Less
  <2> QED
    BY <2>2 DEF v
<1> QED
  BY <1>1, <1>2

LEMMA WiresLessOK ==
  ASSUME wire \in [End -> Seq(Frame)], NEW e \in End,
         \/ wire' = wire
         \/ wire' = Received(e) /\ wire[e] # <<>>
         \/ wire' = [wire EXCEPT ![e] = <<>>]
         \/ \E c : \E f \in Frame : f.t # "data" /\ Sends(e, c, wire, f)
         \/ \E c : SendFails(e, c, wire)
  PROVE  WiresLess
<1>1. \A x \in End : wire[x] \in Seq(Frame)
  OBVIOUS
<1>2. CASE wire' = wire
  BY <1>1, <1>2, SameLess DEF WiresLess
<1>3. CASE wire' = Received(e) /\ wire[e] # <<>>
  <2>1. wire' = [wire EXCEPT ![e] = Tail(wire[e])]
    BY <1>3 DEF Received
  <2>2. wire'[e] = Tail(wire[e]) /\ \A x \in End : x # e => wire'[x] = wire[x]
    BY <2>1
  <2> QED
    BY <1>1, <1>3, <2>2, SameLess, TailLess DEF WiresLess
<1>4. CASE wire' = [wire EXCEPT ![e] = <<>>]
  <2>1. wire'[e] = <<>> /\ \A x \in End : x # e => wire'[x] = wire[x]
    BY <1>4
  <2> QED
    BY <1>1, <2>1, SameLess DEF WiresLess
<1>5. ASSUME NEW c, NEW f \in Frame, f.t # "data", Sends(e, c, wire, f) PROVE WiresLess
  <2>1. wire' = wire \/ wire' = [wire EXCEPT ![Peer(e)] = Append(wire[Peer(e)], f)]
    BY <1>5 DEF Sends
  <2>2. Peer(e) \in End
    BY DEF Peer, End
  <2>3. ASSUME wire' = [wire EXCEPT ![Peer(e)] = Append(wire[Peer(e)], f)] PROVE WiresLess
    <3>1. wire'[Peer(e)] = Append(wire[Peer(e)], f) /\ \A x \in End : x # Peer(e) => wire'[x] = wire[x]
      BY <2>2, <2>3
    <3> QED
      BY <1>1, <1>5, <2>2, <3>1, SameLess, AppendLess DEF WiresLess
  <2> QED
    BY <1>2, <2>1, <2>3
<1>6. ASSUME NEW c, SendFails(e, c, wire) PROVE WiresLess
  BY <1>2, <1>6 DEF SendFails
<1> QED
  BY <1>2, <1>3, <1>4, <1>5, <1>6

PipesStay == \A k \in Listen : pipe[k] # "none" => pipe'[k] # "none"

LEMMA SeqElement ==
  ASSUME NEW S, NEW s \in Seq(S)
  PROVE  \A i \in 1 .. Len(s) : s[i] \in S
OBVIOUS

LEMMA GotStays ==
  ASSUME PInv, PipesStay, got' = got
  PROVE  GotSound'
<1>0. got \in Seq([k : Listen, p : Packet])
  BY PFacts
<1>2. \A i \in 1 .. Len(got) : got[i] \in [k : Listen, p : Packet]
  BY <1>0, SeqElement, Zenon
<1>1. \A i \in 1 .. Len(got) : got[i].k \in Listen
  BY <1>2
<1> QED
  BY <1>1 DEF PipesStay, GotSound, PInv, Packets

LEMMA CalmPackets ==
  ASSUME PInv, IInv', WiresLess, \A e \in End : hand'[e] \subseteq hand[e], buf' = buf, got' = got,
         \A k \in Listen : OutOf[k] <= OutOf'[k], write.n <= write'.n, PipesStay
  PROVE  Packets'
<1>0. /\ OutOf \in [Listen -> Int] /\ OutOf' \in [Listen -> Int]
      /\ Written \in [Listen -> Int] /\ Written' \in [Listen -> Int]
      /\ \A k \in Listen : Written[k] <= Written'[k]
  <2>1. MaxInput \in Nat /\ (\A k \in Listen : Written[k] = write.n)
    BY OutFacts, PacketAssumption DEF PInv, OutSound
  <2>2. /\ OutOf \in [Listen -> 0 .. MaxInput]
        /\ Written \in [Listen -> 0 .. MaxInput]
    BY OutFacts DEF PInv, OutSound
  <2>4. /\ OutOf' \in [Listen -> 0 .. MaxInput] /\ Written' \in [Listen -> 0 .. MaxInput]
        /\ \A k \in Listen : Written'[k] = write'.n
    BY OutNext DEF OutSound
  <2> QED
    BY <2>1, <2>2, <2>4
<1>1. ClientPackets'
  <2>1. /\ Less(wire["client"], wire'["client"]) /\ Len(wire'["client"]) \in Nat
        /\ hand'["client"] \subseteq hand["client"]
    BY ListenFacts DEF WiresLess
  <2>2. /\ Origin(wire'["client"], hand'["client"], buf, got, OutOf)
        /\ Once(wire'["client"], hand'["client"], buf, got)
    BY <2>1, LessKeeps DEF PInv, Packets, ClientPackets
  <2>3. Origin(wire'["client"], hand'["client"], buf, got, OutOf')
    BY <1>0, <2>2, MoreKeeps
  <2> QED
    BY <2>2, <2>3 DEF ClientPackets
<1>2. ServerPackets'
  <2>1. /\ Less(wire["server"], wire'["server"]) /\ Len(wire'["server"]) \in Nat
        /\ hand'["server"] \subseteq hand["server"]
    BY ListenFacts DEF WiresLess
  <2>2. WireFrom(wire'["server"], Written) /\ HandFrom(hand'["server"], Written)
    BY <2>1, LessOnce DEF PInv, Packets, ServerPackets, HandFrom
  <2>3. WireFrom(wire'["server"], Written') /\ HandFrom(hand'["server"], Written')
    BY <1>0, <2>2, MoreKeeps
  <2> QED
    BY <2>3 DEF ServerPackets
<1> QED
  BY <1>1, <1>2, GotStays DEF Packets

-----------------------------------------------------------------------------
(* The steps that neither send nor take data, nor start to serve a socket. *)

WireCalm(e) ==
  \/ wire' = wire
  \/ wire' = Received(e) /\ wire[e] # <<>>
  \/ wire' = [wire EXCEPT ![e] = <<>>]
  \/ \E c : \E f \in Frame : f.t \notin {"data", "replyFalse"} /\ Sends(e, c, wire, f)
  \/ \E c : SendFails(e, c, wire)
NoNewRefusal == On(wire', "replyFalse") => On(wire, "replyFalse")

LEMMA WireCalmOK ==
  ASSUME wire \in [End -> Seq(Frame)], NEW e \in End, WireCalm(e)
  PROVE  WiresLess /\ NoNewRefusal
<1>1. WiresLess
  BY WiresLessOK DEF WireCalm
<1>2. ASSUME NEW x \in End, NEW i \in 1 .. Len(wire'[x]), wire'[x][i].t = "replyFalse"
      PROVE  On(wire, "replyFalse")
  <2>1. CASE wire' = wire \/ \E c : SendFails(e, c, wire)
    <3>1. wire' = wire
      BY <2>1 DEF SendFails
    <3> QED
      BY <1>2, <3>1 DEF On
  <2>2. CASE wire' = Received(e) /\ wire[e] # <<>>
    <3>1. wire' = [wire EXCEPT ![e] = Tail(wire[e])]
      BY <2>2 DEF Received
    <3>2. CASE x = e
      <4>1. wire'[x] = Tail(wire[e])
        BY <3>1, <3>2
      <4>2. i + 1 \in 1 .. Len(wire[e]) /\ wire'[x][i] = wire[e][i + 1]
        BY <1>2, <2>2, <4>1
      <4> QED
        BY <1>2, <4>2 DEF On
    <3>3. CASE x # e
      <4>1. wire'[x] = wire[x]
        BY <3>1, <3>3
      <4> QED
        BY <1>2, <4>1 DEF On
    <3> QED
      BY <3>2, <3>3
  <2>3. CASE wire' = [wire EXCEPT ![e] = <<>>]
    <3>1. x # e
      <4>1. x = e => wire'[x] = <<>>
        BY <2>3
      <4>2. wire'[x] = <<>> => 1 .. Len(wire'[x]) = {}
        OBVIOUS
      <4> QED
        BY <1>2, <4>1, <4>2
    <3>2. wire'[x] = wire[x]
      BY <2>3, <3>1
    <3> QED
      BY <1>2, <3>2 DEF On
  <2>4. ASSUME NEW c, NEW f \in Frame, f.t \notin {"data", "replyFalse"}, Sends(e, c, wire, f)
        PROVE  On(wire, "replyFalse")
    <3>1. wire' = wire \/ wire' = [wire EXCEPT ![Peer(e)] = Append(wire[Peer(e)], f)]
      BY <2>4 DEF Sends
    <3>2. Peer(e) \in End
      BY DEF Peer, End
    <3>3. i \in 1 .. Len(wire[x]) /\ wire'[x][i] = wire[x][i]
      <4>1. CASE wire'[x] = wire[x]
        BY <1>2, <4>1
      <4>2. CASE wire'[x] = Append(wire[x], f)
        <5>1. wire'[x][i] # f
          BY <1>2, <2>4
        <5>2. wire[x] \in Seq(Frame) /\ i \in 1 .. Len(Append(wire[x], f))
          BY <1>2, <4>2
        <5>3. (i \in 1 .. Len(wire[x]) /\ Append(wire[x], f)[i] = wire[x][i]) \/ Append(wire[x], f)[i] = f
          BY <5>2
        <5> QED
          BY <4>2, <5>1, <5>3
      <4>3. wire'[x] = wire[x] \/ wire'[x] = Append(wire[x], f)
        BY <3>1, <3>2
      <4> QED
        BY <4>1, <4>2, <4>3
    <3> QED
      BY <1>2, <3>3 DEF On
  <2> QED
    BY <2>1, <2>2, <2>3, <2>4 DEF WireCalm
<1> QED
  BY <1>1, <1>2 DEF NoNewRefusal, On

(* The socket of the Conn stays, or is given up; its context stays done.   *)
Keeps(c, d) == d.packetConn \in {c.packetConn, None} /\ (c.ctxDone => d.ctxDone)
ConnCalm(e) == conn' = conn \/ \E c : Keeps(conn[e], c) /\ Becomes(e, c)

LEMMA ConnCalmOK ==
  ASSUME conn \in [End -> ConnState], NEW e \in End, ConnCalm(e)
  PROVE  Keeps(client, client') /\ Keeps(server, server')
<1>1. \A x \in End : Keeps(conn[x], conn[x])
  BY DEF Keeps
<1>2. CASE conn' = conn
  BY <1>1, <1>2, ListenFacts DEF client, server
<1>3. ASSUME NEW c, Keeps(conn[e], c), Becomes(e, c) PROVE \A x \in End : Keeps(conn[x], conn'[x])
  <2>1. conn'[e] = c /\ \A x \in End : x # e => conn'[x] = conn[x]
    BY <1>3 DEF Becomes
  <2> QED
    BY <1>1, <1>3, <2>1
<1> QED
  BY <1>2, <1>3, ListenFacts DEF ConnCalm, client, server

LEMMA CloseKeeps ==
  ASSUME NEW c \in ConnState, NEW d \in ConnState, Keeps(c, d)
  PROVE  Keeps(c, closeWithErr(d))
BY CloseFacts DEF Keeps, Fades

Lasting == listen.stale \/ Over \/ LastServed

LEMMA LastKept ==
  ASSUME PInv, listen.stale => listen'.stale, Over => Over', listen'.k = listen.k,
         \A k \in Listen : serve[k].pc = "none" => serve'[k].pc = "none",
         NoAnswer' => NoAnswer
  PROVE  Lasting'
BY DEF PInv, Lasting, LastServed, Served

LEMMA CalmOK ==
  ASSUME PInv, IInv', NEW e \in End, ConnCalm(e), NEW d \in End, WireCalm(d),
         serve' = serve, \A x \in End : hand'[x] \subseteq hand[x], buf' = buf, got' = got,
         write.n <= write'.n, PipesStay, Lasting'
  PROVE  PInv'
<1>1. Keeps(client, client') /\ Keeps(server, server')
  BY PFacts, ConnCalmOK
<1>2. WiresLess
  BY PFacts, WireCalmOK
<1>3. OneServed'
  BY <1>1 DEF PInv, OneServed, Served, Keeps
<1>4. \A k \in Listen : OutOf[k] <= OutOf'[k]
  <2>1. OutOf' = OutOf
    BY DEF OutOf, Out
  <2>2. \A k \in Listen : OutOf[k] \in Nat
    BY OutFacts DEF OutSound, PInv
  <2> QED
    BY <2>1, <2>2
<1>5. Packets'
  BY <1>2, <1>4, CalmPackets
<1> QED
  BY <1>3, <1>5 DEF PInv, Lasting

LEMMA PlainOK ==
  ASSUME PInv, IInv', NEW e \in End, ConnCalm(e), NEW d \in End, WireCalm(d),
         serve' = serve, \A x \in End : hand'[x] \subseteq hand[x], buf' = buf, got' = got,
         write.n <= write'.n, listen' = listen, pipe' = pipe
  PROVE  PInv'
<1>1. Keeps(client, client') /\ NoNewRefusal
  BY PFacts, ConnCalmOK, WireCalmOK
<1>2. (NoAnswer' => NoAnswer) /\ (Over => Over') /\ PipesStay
  BY <1>1 DEF NoAnswer, NoNewRefusal, Over, NoPipe, Keeps, PipesStay
<1>3. Lasting'
  BY <1>2, LastKept
<1> QED
  BY <1>2, <1>3, CalmOK

-----------------------------------------------------------------------------
(* The ends of the Conn.                                                   *)

LEMMA EndsKeep ==
  ASSUME PInv, IInv', NEW e \in End, ConnDone(e) \/ ConnCloses(e) \/ HandleOpen(e)
  PROVE  PInv'
<1>0. /\ serve' = serve /\ buf' = buf /\ hand' = hand /\ got' = got /\ write' = write
      /\ listen' = listen /\ pipe' = pipe /\ conn[e] \in ConnState /\ write.n \in Nat
  BY PFacts DEF ConnDone, ConnCloses, HandleOpen, userVars
<1>1. ConnCalm(e)
  <2> DEFINE c == conn[e]
  <2>1. CASE ConnDone(e)
    <3>1. Becomes(e, [c EXCEPT !.ctxDone = TRUE])
      BY <2>1 DEF ConnDone
    <3>2. Keeps(c, [c EXCEPT !.ctxDone = TRUE])
      BY <1>0 DEF Keeps, ConnState
    <3> QED
      BY <3>1, <3>2 DEF ConnCalm
  <2>2. CASE ConnCloses(e)
    <3>1. PICK d \in {closeWithErr(c), [c EXCEPT !.status = "Closed"]} :
            Becomes(e, [d EXCEPT !.handle = "returned"])
      BY <2>2 DEF ConnCloses
    <3>2. d \in ConnState /\ Keeps(c, d)
      <4>1. [c EXCEPT !.status = "Closed"] \in ConnState /\ Keeps(c, [c EXCEPT !.status = "Closed"])
        BY <1>0 DEF ConnState, Status, Keeps
      <4>2. Keeps(c, c)
        BY DEF Keeps
      <4> QED
        BY <1>0, <3>1, <4>1, <4>2, CloseKeeps, CloseFacts
    <3>3. Keeps(c, [d EXCEPT !.handle = "returned"])
      BY <3>2 DEF Keeps, ConnState
    <3> QED
      BY <3>1, <3>3 DEF ConnCalm
  <2>3. CASE HandleOpen(e)
    <3>1. PICK d \in {[c EXCEPT !.opening = Head(wire[e]).k], closeWithErr(c)} : Becomes(e, d)
      BY <2>3 DEF HandleOpen
    <3>2. Keeps(c, [c EXCEPT !.opening = Head(wire[e]).k]) /\ Keeps(c, c)
      BY <1>0 DEF Keeps, ConnState
    <3>3. Keeps(c, d)
      BY <1>0, <3>1, <3>2, CloseKeeps
    <3> QED
      BY <3>1, <3>3 DEF ConnCalm
  <2> QED
    BY <2>1, <2>2, <2>3
<1>2. WireCalm(e)
  BY DEF WireCalm, ConnDone, ConnCloses, HandleOpen, Incoming, AtHead
<1> QED
  BY <1>0, <1>1, <1>2, PlainOK

-----------------------------------------------------------------------------
(* ListenPacketContext, its environment and the answer to it.              *)

LEMMA OverStays ==
  ASSUME PInv, Over, Keeps(client, client'), listen'.pc = "idle", pipe' = pipe
  PROVE  Over'
BY DEF Over, NoPipe, Keeps

LEMMA ListenKeeps ==
  ASSUME PInv, IInv', ListenSend \/ ListenPacket \/ CtxCancel
  PROVE  PInv'
<1>0. /\ serve' = serve /\ buf' = buf /\ hand' = hand /\ got' = got /\ write' = write
      /\ client \in ConnState /\ write.n \in Nat /\ listen \in ListenState
      /\ PipeOfLastListen /\ TypeOK
  BY PFacts, ListenFacts
     DEF ListenSend, ListenPacket, ListenInOper, ListenResult, ListenCancel, ListenConnDone,
         ListenAccept, CtxCancel, userVars
<1>1. ConnCalm("client")
  <2>1. CASE ListenSend
    <3> DEFINE c == [client EXCEPT !.onResult = listen.k + 1]
    <3>1. /\ c \in ConnState /\ Keeps(client, c)
          /\ Becomes("client", c) \/ Becomes("client", closeWithErr(c))
      BY <1>0, <2>1 DEF ListenSend, Sends, SendFails, ConnState, Keeps
    <3> HIDE DEF c
    <3>2. Keeps(client, closeWithErr(c))
      BY <1>0, <3>1, CloseKeeps
    <3> QED
      BY <3>1, <3>2 DEF ConnCalm, client
  <2>2. CASE ListenInOper
    BY <1>0, <2>2 DEF ListenInOper, ConnCalm, Keeps, ConnState, client
  <2>3. CASE ListenResult
    BY <1>0, <2>3 DEF ListenResult, ConnCalm, Keeps, ConnState, client
  <2>4. CASE ListenCancel
    <3> DEFINE c == [client EXCEPT !.status = "Idle"]
               d == [CloseChannel(c) EXCEPT !.onResult = None]
    <3>1. Becomes("client", c) \/ Becomes("client", d)
      BY <2>4 DEF ListenCancel
    <3>2. Keeps(client, c) /\ Keeps(client, d)
      BY <1>0 DEF Keeps, ConnState, CloseChannel
    <3> QED
      BY <3>1, <3>2 DEF ConnCalm, client
  <2>5. CASE ListenAccept
    <3> DEFINE c == [client EXCEPT !.onCmdErr = listen.k, !.status = "Packet"]
    <3>1. Becomes("client", c) /\ Keeps(client, c)
      BY <1>0, <2>5 DEF ListenAccept, Keeps, ConnState
    <3> QED
      BY <3>1 DEF ConnCalm, client
  <2>6. CASE ListenConnDone \/ CtxCancel
    BY <2>6 DEF ListenConnDone, CtxCancel, ConnCalm
  <2> QED
    BY <2>1, <2>2, <2>3, <2>4, <2>5, <2>6 DEF ListenPacket
<1>2. WireCalm("client")
  <2>1. CASE ListenSend
    <3>1. OpenCmd(listen.k + 1) \in Frame /\ OpenCmd(listen.k + 1).t = "open"
      BY <2>1 DEF ListenSend, OpenCmd, Cmd, Frame
    <3> QED
      BY <2>1, <3>1 DEF ListenSend, WireCalm
  <2>2. CASE ListenPacket \/ CtxCancel
    BY <2>2 DEF ListenPacket, ListenInOper, ListenResult, ListenCancel, ListenConnDone,
                ListenAccept, CtxCancel, WireCalm
  <2> QED
    BY <2>1, <2>2
<1>3. Keeps(client, client') /\ NoNewRefusal
  BY <1>1, <1>2, PFacts, ConnCalmOK, WireCalmOK, ListenFacts
<1>4. Lasting'
  <2>1. listen.pc # "idle" => NoPipe
    BY <1>0 DEF PipeOfLastListen, NoPipe
  <2>2. CASE ListenSend
    <3>1. /\ listen.pc = "idle" /\ pipe' = pipe /\ client.status = "Idle"
          /\ listen'.k = listen.k + 1 /\ listen'.stale = listen.stale /\ listen'.res = listen.res
          /\ listen'.pc = "idle" \/ Sends("client", [client EXCEPT !.onResult = listen.k + 1], wire,
                                          OpenCmd(listen.k + 1))
      BY <1>0, <2>2 DEF ListenSend, ListenState
    <3>2. NoPipe
      BY <1>0, <3>1 DEF PipeOfLastListen, NoPipe
    <3>3. ASSUME Over PROVE Over'
      <4>1. listen'.pc = "idle"
        BY <3>1, <3>3 DEF Over, Sends, client
      <4> QED
        BY <1>3, <3>1, <3>3, <4>1, OverStays
    <3>4. ASSUME LastServed PROVE LastServed'
      <4>1. \A k \in Listen : ~Served(k)
        BY <3>1, <3>2, <3>4 DEF LastServed, NoAnswer
      <4> QED
        BY <1>0, <4>1 DEF LastServed, Served
    <3> QED
      BY <3>1, <3>3, <3>4 DEF Lasting, PInv
  <2>3. CASE ListenConnDone
    <3>1. /\ listen'.pc = "idle" /\ pipe' = pipe /\ client.ctxDone /\ NoPipe
      BY <2>1, <2>3 DEF ListenConnDone, ListenOver
    <3>2. Over'
      BY <1>3, <3>1 DEF Over, NoPipe, Keeps
    <3> QED
      BY <3>2 DEF Lasting
  <2>4. CASE ListenPacket \/ CtxCancel
    <3>1. listen.pc # "idle" /\ NoPipe /\ ~Over
      BY <2>1, <2>4 DEF ListenPacket, ListenInOper, ListenResult, ListenCancel, ListenConnDone,
                        ListenAccept, CtxCancel, Over
    <3>2. listen'.k = listen.k /\ (listen.stale => listen'.stale)
      BY <1>0, <2>4 DEF ListenPacket, ListenInOper, ListenResult, ListenCancel, ListenConnDone,
                        ListenAccept, CtxCancel, ListenOver, ListenState
    <3>3. ASSUME ListenInOper \/ ListenResult \/ ListenAccept \/ CtxCancel
          PROVE  NoAnswer' => NoAnswer
      <4>1. CASE ListenInOper \/ CtxCancel
        BY <1>0, <1>3, <4>1 DEF ListenInOper, CtxCancel, ListenState, NoAnswer, NoNewRefusal
      <4>2. CASE ListenResult
        BY <1>0, <1>3, <4>2 DEF ListenResult, ListenOver, ListenState, NoAnswer, NoNewRefusal
      <4>3. CASE ListenAccept
        <5>1. pipe'[listen.k] # "none" /\ listen.k \in Listen
          <6>1. listen.k # None /\ listen.k \in Listen \cup {None}
            BY <1>0, <4>3 DEF ListenAccept, PipeOfLastListen, ListenState
          <6>2. pipe' = [pipe EXCEPT ![listen.k] = "open"] /\ pipe \in [Listen -> {"none", "open", "failed", "closed"}]
            BY <1>0, <4>3 DEF ListenAccept, TypeOK
          <6> QED
            BY <6>1, <6>2
        <5>2. ~NoPipe'
          BY <5>1 DEF NoPipe
        <5>3. listen'.res = "none"
          BY <1>0, <4>3 DEF ListenAccept, ListenOver, ListenState
        <5> QED
          BY <1>3, <5>2, <5>3 DEF NoAnswer, NoNewRefusal
      <4> QED
        BY <3>3, <4>1, <4>2, <4>3
    <3>4. CASE ListenInOper \/ ListenResult \/ ListenAccept \/ CtxCancel
      BY <1>0, <3>1, <3>2, <3>3, <3>4, LastKept
    <3>5. CASE ListenCancel
      <4>1. listen'.stale \/ listen' = [listen EXCEPT !.pc = "stuck"]
        BY <1>0, <3>5 DEF ListenCancel, ListenOver, ListenState
      <4>2. CASE listen' = [listen EXCEPT !.pc = "stuck"]
        <5>1. NoAnswer' => NoAnswer
          BY <1>0, <1>3, <4>2 DEF ListenState, NoAnswer, NoNewRefusal
        <5> QED
          BY <1>0, <3>1, <3>2, <5>1, LastKept
      <4> QED
        BY <4>1, <4>2 DEF Lasting
    <3> QED
      BY <2>3, <2>4, <3>4, <3>5 DEF ListenPacket
  <2> QED
    BY <2>2, <2>4
<1>5. PipesStay
  <2>1. CASE ListenAccept
    BY <1>0, <2>1 DEF ListenAccept, TypeOK, PipesStay
  <2>2. CASE ~ListenAccept
    BY <2>2 DEF ListenSend, ListenPacket, ListenInOper, ListenResult, ListenCancel,
                ListenConnDone, CtxCancel, PipesStay
  <2> QED
    BY <2>1, <2>2
<1> QED
  BY <1>0, <1>1, <1>2, <1>4, <1>5, CalmOK, ListenFacts

LEMMA ReplyKeeps ==
  ASSUME PInv, IInv', NEW e \in End, HandleReply(e)
  PROVE  PInv'
<1>0. /\ serve' = serve /\ buf' = buf /\ hand' = hand /\ got' = got /\ write' = write
      /\ pipe' = pipe /\ conn[e] \in ConnState /\ write.n \in Nat /\ listen \in ListenState
      /\ wire \in [End -> Seq(Frame)]
  BY PFacts DEF HandleReply, userVars
<1>1. ConnCalm(e)
  BY <1>0 DEF HandleReply, ConnCalm, Keeps, ConnState
<1>2. PICK t \in {"replyTrue", "replyFalse"} :
        /\ AtHead(e, t)
        /\ listen' = listen \/ listen' = [listen EXCEPT !.res = IF t = "replyTrue" THEN "ok" ELSE "fail"]
  BY DEF HandleReply, Incoming
<1>3. wire' = Received(e) /\ wire[e] # <<>> /\ Head(wire[e]).t = t
  BY <1>2 DEF HandleReply, AtHead
<1>4. WireCalm(e)
  BY <1>3 DEF WireCalm
<1>5. Keeps(client, client') /\ NoNewRefusal
  BY <1>1, <1>4, PFacts, ConnCalmOK, WireCalmOK
<1>6. t = "replyFalse" => On(wire, "replyFalse")
  <2>1. 1 \in 1 .. Len(wire[e]) /\ Head(wire[e]) = wire[e][1]
    BY <1>0, <1>3
  <2> QED
    BY <1>3, <2>1 DEF On
<1>7. /\ listen'.pc = listen.pc /\ listen'.k = listen.k /\ listen'.stale = listen.stale
      /\ listen'.res = "fail" => listen.res = "fail" \/ t = "replyFalse"
  BY <1>0, <1>2 DEF ListenState
<1>8. NoAnswer' => NoAnswer
  BY <1>0, <1>5, <1>6, <1>7 DEF NoAnswer, NoNewRefusal, NoPipe
<1>9. Over => Over'
  BY <1>0, <1>5, <1>7, OverStays DEF Over
<1>10. Lasting' /\ PipesStay
  BY <1>0, <1>7, <1>8, <1>9, LastKept DEF PipesStay
<1> QED
  BY <1>0, <1>1, <1>4, <1>10, CalmOK

(* E, and a pipe that its user closes.                                     *)
LEMMA PipeEndsKeep ==
  ASSUME PInv, IInv',
         \/ \E e \in End : HandleError(e)
         \/ \E k \in Listen : PipeClose(k)
  PROVE  PInv'
<1>0. /\ serve' = serve /\ buf' = buf /\ hand' = hand /\ got' = got /\ write' = write
      /\ listen' = listen /\ write.n \in Nat /\ wire \in [End -> Seq(Frame)] /\ TypeOK
  BY PFacts DEF HandleError, PipeClose, userVars
<1>1. \E e \in End : ConnCalm(e)
  <2>1. ASSUME NEW e \in End, HandleError(e) PROVE ConnCalm(e)
    <3>1. conn[e] \in ConnState
      BY PFacts
    <3>2. Keeps(conn[e], CmdErr(conn[e]))
      BY <3>1 DEF CmdErr, CloseChannel, Keeps, ConnState
    <3> QED
      BY <2>1, <3>2 DEF HandleError, ConnCalm
  <2>2. ASSUME NEW k \in Listen, PipeClose(k) PROVE ConnCalm("client")
    BY <2>2 DEF PipeClose, ConnCalm
  <2> QED
    BY <2>1, <2>2, ListenFacts
<1>2. \E d \in End : WireCalm(d)
  BY ListenFacts DEF HandleError, PipeClose, WireCalm, Incoming, AtHead
<1>3. Keeps(client, client') /\ NoNewRefusal
  BY <1>1, <1>2, PFacts, ConnCalmOK, WireCalmOK
<1>4. \A k \in Listen : pipe'[k] = "none" <=> pipe[k] = "none"
  <2>1. pipe' = pipe \/ \E k \in Listen : \E s \in {"failed", "closed"} :
          pipe' = [pipe EXCEPT ![k] = s] /\ pipe[k] # "none"
    <3>1. ASSUME NEW e \in End, HandleError(e), conn[e].onCmdErr # None, pipe' # pipe
          PROVE  /\ conn[e].onCmdErr \in Listen /\ pipe[conn[e].onCmdErr] # "none"
                 /\ pipe' = [pipe EXCEPT ![conn[e].onCmdErr] = "failed"]
      <4>1. conn[e] \in ConnState /\ ChannelSound /\ client = conn["client"]
        BY PFacts
      <4>2. pipe' = [pipe EXCEPT ![conn[e].onCmdErr] = "failed"]
        BY <3>1 DEF HandleError
      <4>3. conn[e].onCmdErr \in Listen
        BY <3>1, <4>1 DEF ConnState
      <4>4. e = "client"
        <5>1. conn[e].status # "Idle" /\ Incoming(e, "error")
          BY <3>1 DEF HandleError
        <5>2. wire[e] # <<>> /\ Head(wire[e]).t = "error"
          BY <5>1 DEF Incoming, AtHead
        <5>3. FrameSound(e, Head(wire[e]))
          <6>1. 1 \in 1 .. Len(wire[e]) /\ Head(wire[e]) = wire[e][1]
            BY <1>0, <5>2
          <6> QED
            BY <6>1, PFacts DEF WireSound
        <5> QED
          BY <5>2, <5>3 DEF FrameSound, End
      <4>5. pipe[conn[e].onCmdErr] # "none"
        BY <3>1, <4>1, <4>4 DEF ChannelSound
      <4> QED
        BY <4>2, <4>3, <4>5
    <3>2. ASSUME NEW k \in Listen, PipeClose(k)
          PROVE  pipe' = [pipe EXCEPT ![k] = "closed"] /\ pipe[k] # "none"
      BY <3>2 DEF PipeClose
    <3> QED
      BY <3>1, <3>2 DEF HandleError
  <2> QED
    BY <1>0, <2>1 DEF TypeOK
<1>5. (NoPipe' <=> NoPipe) /\ PipesStay
  BY <1>4 DEF NoPipe, PipesStay
<1>6. Lasting'
  BY <1>0, <1>3, <1>5, LastKept DEF NoAnswer, NoNewRefusal, Over, Keeps
<1> QED
  BY <1>0, <1>1, <1>2, <1>5, <1>6, CalmOK

-----------------------------------------------------------------------------
(* servePacket, and the answers of the server.                             *)

(* A step of socket k: it stays the only one that is served.               *)
LEMMA ServeKeeps ==
  ASSUME PInv, IInv', NEW k \in Listen, NEW s \in Serving, serve[k].pc # "none",
         serve' = [serve EXCEPT ![k] = s], s.pc # "none",
         s.conn \in {serve[k].conn, server.packetConn},
         ConnCalm("server"), NoNewRefusal, UNCHANGED <<listen, pipe>>
  PROVE  OneServed' /\ Lasting' /\ PipesStay
<1>0. /\ serve'[k] = s /\ \A j \in Listen : j # k => serve'[j] = serve[j]
      /\ Keeps(client, client') /\ Keeps(server, server')
      /\ listen' = listen /\ pipe' = pipe
  BY PFacts, ConnCalmOK, ListenFacts
<1>1. \A j \in Listen : Served(j)' <=> Served(j)
  BY <1>0 DEF Served
<1>2. OneServed'
  <2>1. ASSUME NEW j \in Listen, Served(j)'
        PROVE  serve'[j].conn \in {j, None} /\ server'.packetConn \in {j, None}
    <3>1. serve[j].conn \in {j, None} /\ server.packetConn \in {j, None}
      BY <1>1, <2>1 DEF PInv, OneServed
    <3> QED
      BY <1>0, <3>1 DEF Keeps
  <2>2. \A j \in Listen : serve'[j].pc = "none" => serve'[j].n = 0 /\ serve'[j].conn = None
    BY <1>0, PFacts DEF OneServed, Served
  <2>3. \A i, j \in Listen : Served(i)' /\ Served(j)' => i = j
    BY <1>1, PFacts DEF OneServed
  <2> QED
    BY <2>1, <2>2, <2>3 DEF OneServed, Served
<1>3. (NoAnswer' => NoAnswer) /\ (Over => Over') /\ PipesStay
  BY <1>0 DEF NoAnswer, NoNewRefusal, Over, NoPipe, Keeps, PipesStay
<1>4. Lasting'
  <2>1. \A j \in Listen : serve[j].pc = "none" => serve'[j].pc = "none"
    BY <1>1 DEF Served
  <2> QED
    BY <1>0, <1>3, <2>1, LastKept
<1> QED
  BY <1>2, <1>3, <1>4

LEMMA SocketKeeps ==
  ASSUME AddrsFit, PInv, IInv', NEW k \in Listen,
         servePacket(k) \/ SocketErr(k) \/ ServeReadFrom(k)
  PROVE  PInv'
<1> DEFINE s == serve[k]
           f == DataFrame(Sent(s.conn, s.n))
<1>0. /\ buf' = buf /\ hand' = hand /\ got' = got /\ write' = write /\ listen' = listen
      /\ pipe' = pipe /\ write.n \in Nat /\ wire \in [End -> Seq(Frame)]
      /\ conn \in [End -> ConnState] /\ server \in ConnState /\ server = conn["server"]
      /\ serve \in [Listen -> Serving] /\ s \in Serving /\ s.n \in 0 .. MaxInput
      /\ "server" \in End /\ Peer("server") = "client" /\ "client" \in End /\ MaxInput \in Nat
  BY PFacts, ListenFacts
     DEF servePacket, ServeStart, ServeCheck, ServeReadErr, ServeWrite, ServeStatus,
         ServeSendErr, ServeReturn, SocketErr, ServeReadFrom, userVars, Serving
<1>1. ConnCalm("server")
  <2>1. CASE ServeWrite(k) \/ ServeSendErr(k)
    <3>1. Becomes("server", server) \/ Becomes("server", closeWithErr(server))
      BY <2>1 DEF ServeWrite, ServeSendErr, Sends, SendFails
    <3>2. Keeps(server, server) /\ Keeps(server, closeWithErr(server))
      BY <1>0, CloseKeeps DEF Keeps
    <3> QED
      BY <1>0, <3>1, <3>2 DEF ConnCalm
  <2>2. CASE ServeReturn(k)
    <3>1. Keeps(server, [server EXCEPT !.open = @ \ {s.conn}])
      BY <1>0 DEF Keeps, ConnState
    <3> QED
      BY <1>0, <2>2, <3>1 DEF ServeReturn, ConnCalm
  <2>3. CASE ~(ServeWrite(k) \/ ServeSendErr(k) \/ ServeReturn(k))
    BY <2>3 DEF servePacket, ServeStart, ServeCheck, ServeReadErr, ServeStatus,
                SocketErr, ServeReadFrom, ConnCalm
  <2> QED
    BY <2>1, <2>2, <2>3
<1>2. PICK t \in Serving :
        /\ s.pc # "none" /\ t.pc # "none" /\ serve' = [serve EXCEPT ![k] = t]
        /\ t.conn \in {s.conn, server.packetConn}
        /\ \/ t.n = s.n
           \/ ServeReadFrom(k) /\ t.n = s.n + 1 /\ t.pc = "write" /\ s.pc = "read"
        /\ s.pc = "write" => ServeWrite(k)
        /\ t.pc = "write" => ServeReadFrom(k) /\ t.n = s.n + 1
  <2>1. ASSUME NEW pc \in ServePC \ {"none", "write"}, ServeGoto(k, pc)
        PROVE  LET t == [s EXCEPT !.pc = pc] IN
                 /\ t \in Serving /\ t.pc = pc /\ t.n = s.n /\ t.conn = s.conn
                 /\ serve' = [serve EXCEPT ![k] = t]
    BY <1>0, <2>1 DEF ServeGoto, Serving
  <2>2. CASE ServeStart(k)
    <3> DEFINE t == [s EXCEPT !.pc = "check", !.conn = server.packetConn]
    <3>1. t \in Serving /\ t.pc = "check" /\ t.n = s.n /\ t.conn = server.packetConn
      BY <1>0 DEF Serving, ServePC, ConnState
    <3>2. serve' = [serve EXCEPT ![k] = t] /\ s.pc = "start"
      BY <1>0, <2>2 DEF ServeStart, Serving
    <3> QED
      BY <3>1, <3>2
  <2>3. CASE ServeReadFrom(k)
    <3> DEFINE t == [s EXCEPT !.pc = "write", !.n = @ + 1]
    <3>1. serve' = [serve EXCEPT ![k] = t] /\ s.pc = "read"
      BY <1>0, <2>3 DEF ServeReadFrom, Serving
    <3>2. serve'[k] = t
      BY <1>0, <3>1
    <3>3. t.pc = "write" /\ t.n = s.n + 1 /\ t.conn = s.conn
      BY <1>0 DEF Serving
    <3>4. t \in Serving
      <4>1. serve' \in [Listen -> Serving]
        BY DEF IInv, TypeOK
      <4> QED
        BY <3>2, <4>1
    <3> HIDE DEF t
    <3> QED
      BY <2>3, <3>1, <3>3, <3>4
  <2>4. CASE ServeCheck(k) \/ ServeReadErr(k) \/ SocketErr(k) \/ ServeStatus(k) \/ ServeSendErr(k)
             \/ ServeReturn(k) \/ ServeWrite(k)
    <3>1. PICK pc \in ServePC \ {"none", "write"} : ServeGoto(k, pc)
      BY <2>4 DEF ServeCheck, ServeReadErr, SocketErr, ServeStatus, ServeSendErr, ServeReturn,
                  ServeWrite, ServePC
    <3>2. s.pc # "none" /\ (s.pc = "write" => ServeWrite(k))
      BY <2>4 DEF ServeCheck, ServeReadErr, SocketErr, ServeStatus, ServeSendErr, ServeReturn,
                  ServeWrite
    <3> HIDE DEF s
    <3> QED
      BY <2>1, <3>1, <3>2 DEF s
  <2> QED
    BY <2>2, <2>3, <2>4 DEF servePacket
<1>3. serve'[k] = t /\ \A j \in Listen : j # k => serve'[j] = serve[j]
  BY <1>0, <1>2
<1>4. \A j \in Listen : OutOf[j] <= OutOf'[j]
  <2>1. OutSound /\ OutSound'
    BY OutFacts, OutNext DEF PInv
  <2>2. ASSUME NEW j \in Listen, j # k PROVE OutOf'[j] = OutOf[j]
    BY <1>3, <2>2 DEF OutOf, Out
  <2>3. OutOf[k] <= OutOf'[k]
    <3>1. s.n \in Nat /\ t.n \in Nat
      BY <1>0, <1>2 DEF Serving
    <3>2. t.pc = "write" => s.pc # "write"
      BY <1>2 DEF ServeReadFrom, ServeWrite
    <3>3. OutOf[k] \in Nat /\ OutOf'[k] \in Nat
      BY <2>1 DEF OutSound
    <3>4. /\ s.pc = "write" => OutOf[k] + 1 = s.n
          /\ s.pc # "write" => OutOf[k] = s.n
      BY <2>1 DEF OutSound
    <3>5. /\ t.pc = "write" => OutOf'[k] + 1 = t.n
          /\ t.pc # "write" => OutOf'[k] = t.n
      BY <1>3, <2>1 DEF OutSound
    <3>6. t.n = s.n \/ t.n = s.n + 1
      BY <1>2
    <3>7. t.pc = "write" => t.n = s.n + 1
      BY <1>2
    <3> HIDE DEF s
    <3> QED
      BY <3>1, <3>2, <3>3, <3>4, <3>5, <3>6, <3>7
  <2>4. \A j \in Listen : OutOf[j] \in Nat
    BY <2>1 DEF OutSound
  <2> QED
    BY <2>2, <2>3, <2>4
<1>5. CASE WireCalm("server")
  <2>1. WiresLess /\ NoNewRefusal
    BY <1>0, <1>5, WireCalmOK
  <2>2. OneServed' /\ Lasting' /\ PipesStay
    BY <1>0, <1>1, <1>2, <2>1, ServeKeeps
  <2>3. Packets'
    BY <1>0, <1>4, <2>1, <2>2, CalmPackets
  <2> QED
    BY <2>2, <2>3 DEF PInv, Lasting
<1>6. CASE ServeWrite(k) /\ Sends("server", server, wire, f) /\ Reads("client")
  <2>0. s.pc = "write" /\ t.pc # "write" /\ t.n = s.n
    BY <1>2, <1>6 DEF ServeWrite, ServeReadFrom
  <2>1. /\ s.n \in 1 .. MaxInput /\ s.conn = k
    <3>1. s.n > 0 /\ s.conn # None
      BY <2>0 DEF PInv, IInv, CallSound, TypeOK
    <3>2. s.conn \in {k, None}
      BY <2>0 DEF PInv, OneServed, Served
    <3> QED
      BY <1>0, <3>1, <3>2
  <2>2. f.t = "data" /\ f.f = Format(Sent(k, s.n)) /\ f \in Frame
    <3>1. Sent(k, s.n) \in Packet
      BY <2>1, SentFacts, PFacts
    <3>2. Format(Sent(k, s.n)) \in Seq(Nat)
      BY <3>1, ParsedFacts
    <3> HIDE DEF s
    <3> QED
      BY <2>1, <3>2 DEF DataFrame, Cmd, Frame, s
  <2>3. wire' = [wire EXCEPT !["client"] = Append(wire["client"], f)]
    BY <1>0, <1>6 DEF Sends
  <2> HIDE DEF f
  <2>4. wire'["client"] = Append(wire["client"], f) /\ wire'["server"] = wire["server"]
    BY <1>0, <2>3
  <2>5. NoNewRefusal
    <3>1. ASSUME NEW i \in 1 .. Len(wire'["client"]), wire'["client"][i].t = "replyFalse"
          PROVE  i \in 1 .. Len(wire["client"]) /\ wire["client"][i].t = "replyFalse"
      <4>1. \/ i \in 1 .. Len(wire["client"]) /\ wire'["client"][i] = wire["client"][i]
            \/ wire'["client"][i] = f
        <5>1. wire["client"] \in Seq(Frame)
          BY <1>0
        <5> HIDE <1>0
        <5> QED
          BY <2>2, <2>4, <3>1, <5>1
      <4> QED
        BY <2>2, <3>1, <4>1
    <3> QED
      BY <2>4, <3>1 DEF NoNewRefusal, On, End
  <2>6. OneServed' /\ Lasting' /\ PipesStay
    BY <1>0, <1>1, <1>2, <2>5, ServeKeeps
  <2>7. OutSound /\ OutSound'
    BY OutFacts, OutNext DEF PInv
  <2>8. /\ OutOf[k] < s.n /\ s.n <= OutOf'[k]
        /\ OutOf \in [Listen -> 0 .. MaxInput] /\ OutOf' \in [Listen -> 0 .. MaxInput]
    <3>1. OutOf[k] \in Nat /\ OutOf[k] + 1 = s.n
      BY <2>0, <2>7 DEF OutSound
    <3>2. OutOf'[k] = t.n
      BY <1>3, <2>0, <2>7 DEF OutSound
    <3>3. OutOf \in [Listen -> 0 .. MaxInput] /\ OutOf' \in [Listen -> 0 .. MaxInput]
      BY <2>7 DEF OutSound
    <3>4. s.n \in Nat
      BY <1>0
    <3> HIDE DEF s
    <3> QED
      BY <2>0, <3>1, <3>2, <3>3, <3>4
  <2>9. \A j \in Listen : OutOf[j] > 0 => j = k
    <3> SUFFICES ASSUME NEW j \in Listen, OutOf[j] > 0 PROVE j = k
      OBVIOUS
    <3>1. OutOf[j] \in Nat /\ OutOf[j] <= serve[j].n /\ serve[j].n \in Nat
      BY <1>0, <2>7 DEF OutSound, Serving
    <3>2. Served(j) /\ Served(k)
      BY <2>0, <3>1 DEF PInv, OneServed, Served
    <3> QED
      BY <3>2 DEF PInv, OneServed
  <2>10. wire["client"] \in Seq(Frame) /\ Origin(wire["client"], hand["client"], buf, got, OutOf)
         /\ Once(wire["client"], hand["client"], buf, got)
    BY <1>0 DEF PInv, Packets, ClientPackets
  <2> DEFINE n == s.n
  <2>11. n \in 1 .. MaxInput /\ f.f = Format(Sent(k, n)) /\ OutOf[k] < n /\ n <= OutOf'[k]
    BY <2>1, <2>2, <2>8
  <2> HIDE DEF n, s
  <2>12. /\ Origin(Append(wire["client"], f), hand["client"], buf, got, OutOf')
         /\ Once(Append(wire["client"], f), hand["client"], buf, got)
    BY <1>4, <2>2, <2>8, <2>9, <2>10, <2>11, SendKeeps
  <2>13. ClientPackets'
    BY <1>0, <2>4, <2>12 DEF ClientPackets
  <2>14. ServerPackets'
    BY <1>0, <2>4 DEF PInv, Packets, ServerPackets, Written
  <2> QED
    BY <1>0, <2>6, <2>13, <2>14, GotStays DEF PInv, Lasting, Packets
<1>7. WireCalm("server") \/ (ServeWrite(k) /\ Sends("server", server, wire, f) /\ Reads("client"))
  <2>1. CASE ServeWrite(k)
    BY <1>0, <2>1 DEF ServeWrite, Sends, WireCalm
  <2>2. CASE ServeSendErr(k)
    <3>1. Cmd("error") \in Frame /\ Cmd("error").t = "error"
      BY DEF Cmd, Frame
    <3> QED
      BY <2>2, <3>1 DEF ServeSendErr, WireCalm
  <2>3. CASE ~(ServeWrite(k) \/ ServeSendErr(k))
    BY <2>3 DEF servePacket, ServeStart, ServeCheck, ServeReadErr, ServeStatus, ServeReturn,
                SocketErr, ServeReadFrom, WireCalm
  <2> QED
    BY <2>1, <2>2, <2>3
<1> QED
  BY <1>5, <1>6, <1>7

LEMMA AnswersKeep ==
  ASSUME PInv, IInv', NEW e \in End, ListenerOk(e) \/ ListenerErr(e)
  PROVE  PInv'
<1> DEFINE k == server.opening
           a == [server EXCEPT !.status = "Packet", !.packetConn = k, !.open = @ \cup {k}]
<1>0. /\ buf' = buf /\ hand' = hand /\ got' = got /\ write' = write /\ listen' = listen
      /\ pipe' = pipe /\ write.n \in Nat /\ wire \in [End -> Seq(Frame)]
      /\ server \in ConnState /\ client = conn["client"] /\ client' = conn'["client"]
      /\ server = conn["server"] /\ server' = conn'["server"]
      /\ conn \in [End -> ConnState] /\ serve \in [Listen -> Serving] /\ EndSound
      /\ "server" \in End /\ "client" \in End
  BY PFacts, ListenFacts DEF ListenerOk, ListenerErr, userVars
<1>1. e = "server" /\ k # None /\ k \in Listen
  BY <1>0 DEF ListenerOk, ListenerErr, EndSound, End, ConnState
<1>2. /\ server.status = "Idle" /\ server.packetConn = None
      /\ \A j \in Listen : serve[j].pc = "none" /\ serve[j].n = 0 /\ serve[j].conn = None
  BY <1>0, <1>1 DEF EndSound, PInv, OneServed, Served
<1>3. PICK c \in {a, server}, t \in {"replyTrue", "replyFalse"} :
        /\ Answered("server", c, t) \/ (AnswerFails("server", c) /\ serve' = serve)
        /\ \/ c = a /\ t = "replyTrue" /\ (serve' = serve \/ ServeGoto(k, "start"))
           \/ c = server /\ t = "replyFalse" /\ serve' = serve
        /\ Answered("server", c, t) /\ c = a => ServeGoto(k, "start")
  <2>1. CASE ListenerOk(e)
    <3>1. \/ Answered("server", a, "replyTrue") /\ ServeGoto(k, "start")
          \/ AnswerFails("server", a) /\ UNCHANGED serve
      BY <1>0, <1>1, <2>1 DEF ListenerOk
    <3>2. CASE Answered("server", a, "replyTrue") /\ ServeGoto(k, "start")
      BY <3>2
    <3>3. CASE AnswerFails("server", a) /\ UNCHANGED serve
      <4>1. ~Answered("server", a, "replyTrue") \/ ~AnswerFails("server", a)
            \/ Answered("server", a, "replyTrue")
        OBVIOUS
      <4>2. a.packetConn = k
        BY <1>0 DEF ConnState
      <4>3. closeWithErr([a EXCEPT !.opening = None, !.handle = "returned"]).packetConn = None
        BY <1>0 DEF closeWithErr, CloseSocket, ConnState
      <4>4. server'.packetConn = None
        <5>1. Becomes("server", closeWithErr([a EXCEPT !.opening = None, !.handle = "returned"]))
          BY <3>3 DEF AnswerFails, SendFails
        <5>2. server' = closeWithErr([a EXCEPT !.opening = None, !.handle = "returned"])
          BY <1>0, <5>1 DEF Becomes
        <5> QED
          BY <4>3, <5>2
      <4>5. ~Answered("server", a, "replyTrue")
        <5>1. [a EXCEPT !.opening = None].packetConn = k
          BY <1>0 DEF ConnState
        <5>2. Answered("server", a, "replyTrue") => server' = [a EXCEPT !.opening = None]
          BY <1>0 DEF Answered, Sends, Becomes
        <5> QED
          BY <1>1, <4>4, <5>1, <5>2
      <4> QED
        BY <3>3, <4>5
    <3> QED
      BY <3>1, <3>2, <3>3
  <2>2. CASE ListenerErr(e)
    <3>1. /\ Answered("server", server, "replyFalse") \/ AnswerFails("server", server)
          /\ serve' = serve
      BY <1>0, <1>1, <2>2 DEF ListenerErr
    <3>2. server # a
      <4>1. a.packetConn = k
        BY <1>0 DEF ConnState
      <4> QED
        BY <1>1, <1>2, <4>1
    <3> HIDE DEF a
    <3> QED
      BY <3>1, <3>2
  <2> QED
    BY <2>1, <2>2
<1>4. WiresLess
  <2>1. Cmd(t) \in Frame /\ Cmd(t).t = t /\ t # "data"
    BY DEF Cmd, Frame
  <2>2. (\E d : \E f \in Frame : f.t # "data" /\ Sends("server", d, wire, f))
        \/ (\E d : SendFails("server", d, wire))
    BY <1>3, <2>1 DEF Answered, AnswerFails
  <2> QED
    BY <1>0, <2>2, WiresLessOK
<1>5. client' = client /\ PipesStay
  <2>1. \E d : Becomes("server", d)
    BY <1>3 DEF Answered, AnswerFails, Sends, SendFails
  <2> QED
    BY <1>0, <2>1 DEF Becomes, PipesStay
<1>6. ASSUME serve' = serve PROVE PInv'
  <2>1. OneServed' /\ LastServed'
    BY <1>2, <1>6 DEF OneServed, LastServed, Served
  <2>2. \A j \in Listen : OutOf[j] <= OutOf'[j]
    <3>1. OutOf' = OutOf
      BY <1>6 DEF OutOf, Out
    <3>2. \A j \in Listen : OutOf[j] \in Nat
      BY OutFacts DEF OutSound, PInv
    <3> QED
      BY <3>1, <3>2
  <2>3. Packets'
    BY <1>0, <1>4, <1>5, <2>2, CalmPackets
  <2> QED
    BY <2>1, <2>3 DEF PInv
<1>7. ASSUME Answered("server", a, "replyTrue"), ServeGoto(k, "start") PROVE PInv'
  <2> DEFINE s == [serve[k] EXCEPT !.pc = "start"]
             d == [a EXCEPT !.opening = None]
             f == Cmd("replyTrue")
  <2>1. s \in Serving /\ s.pc = "start" /\ s.n = 0 /\ s.conn = None
    BY <1>0, <1>1, <1>2 DEF Serving, ServePC
  <2>2. serve'[k] = s /\ \A j \in Listen : j # k => serve'[j] = serve[j]
    BY <1>0, <1>1, <1>7 DEF ServeGoto
  <2>3. Sends("server", d, wire, f)
    BY <1>7 DEF Answered
  <2>4. d.packetConn = k
    BY <1>0 DEF ConnState
  <2>5. server' = d
    BY <1>0, <2>3 DEF Sends, Becomes
  <2> HIDE DEF s, d, a
  <2>6. \A j \in Listen : serve'[j].n = 0 /\ serve'[j].conn = None
                          /\ (serve'[j].pc # "none" => j = k) /\ serve'[j].pc # "write"
    BY <1>2, <2>1, <2>2
  <2>7. OneServed'
    BY <2>4, <2>5, <2>6 DEF OneServed, Served
  <2>8. \A j \in Listen : OutOf[j] <= OutOf'[j]
    <3>1. \A j \in Listen : OutOf[j] = 0
      BY <1>2, OutFacts DEF OutSound, PInv
    <3>2. \A j \in Listen : OutOf'[j] \in Nat
      BY OutNext DEF OutSound
    <3> QED
      BY <3>1, <3>2
  <2>9. Packets'
    BY <1>0, <1>4, <1>5, <2>8, CalmPackets
  <2>10. Over => Over'
    BY <1>0, <1>5 DEF Over, NoPipe
  <2>11. ASSUME Exchange PROVE LastServed'
    <3>1. /\ k = listen.k /\ Quiet(wire) /\ ~Told /\ listen.pc \in {"sent", "select"}
      BY <1>1, <2>11 DEF Exchange, Opening
    <3>2. ~On(wire', "replyFalse")
      <4>1. f \in Frame /\ f.t = "replyTrue"
        BY DEF Cmd, Frame
      <4>2. WireCalm("server")
        BY <2>3, <4>1 DEF WireCalm
      <4>3. NoNewRefusal
        BY <1>0, <4>2, WireCalmOK
      <4> QED
        BY <3>1, <4>3 DEF NoNewRefusal, Quiet, Request
    <3>3. ~NoAnswer'
      BY <1>0, <3>1, <3>2 DEF NoAnswer, Told
    <3> QED
      BY <1>0, <2>6, <3>1, <3>3 DEF LastServed, Served
  <2> QED
    BY <1>0, <2>7, <2>9, <2>10, <2>11 DEF PInv, IInv
<1> QED
  BY <1>3, <1>6, <1>7

-----------------------------------------------------------------------------
(* The goroutines of handleBinary, and the user of the pipe.               *)

LEMMA PanicsKeep ==
  ASSUME PInv, IInv', Panics, NEW k \in Listen, pipe[k] # "none"
  PROVE  PInv'
<1>0. /\ conn \in [End -> ConnState] /\ wire \in [End -> Seq(Frame)] /\ client \in ConnState
      /\ "client" \in End /\ "server" \in End /\ hand \in [End -> SUBSET Handover]
      /\ listen \in ListenState
      /\ client = conn["client"] /\ client' = conn'["client"]
      /\ server = conn["server"] /\ server' = conn'["server"]
      /\ serve' = serve /\ pipe' = pipe /\ got' = got
  BY PFacts, ListenFacts DEF Panics
<1>1. /\ server' = server
      /\ wire' = [wire EXCEPT !["client"] = <<>>]
      /\ wire'["client"] = <<>> /\ wire'["server"] = wire["server"]
      /\ hand'["client"] = {} /\ hand'["server"] = hand["server"]
      /\ buf' = [j \in Listen |-> <<>>] /\ write'.n = write.n
  <2>1. server' = server
    BY <1>0 DEF Panics, Becomes
  <2>2. write'.n = write.n
    <3>1. write' = [write EXCEPT !.pc = "idle"]
      BY DEF Panics
    <3>2. write \in [pc : {"idle", "called"}, k : Listen \cup {None}, n : 0 .. MaxInput]
      BY PFacts DEF TypeOK
    <3> QED
      BY <3>1, <3>2
  <2> QED
    BY <1>0, <2>1, <2>2 DEF Panics
<1>2. OneServed'
  BY <1>0, <1>1 DEF PInv, OneServed, Served
<1>3. Lasting'
  <2>1. /\ listen'.stale = listen.stale /\ listen'.k = listen.k /\ listen'.res = "none"
    BY <1>0 DEF Panics, ListenOver, ListenState
  <2>2. ~Over /\ ~NoPipe'
    BY <1>0 DEF Over, NoPipe
  <2>3. NoNewRefusal
    BY <1>0, <1>1, WireCalmOK DEF WireCalm
  <2>4. NoAnswer' => NoAnswer
    BY <2>1, <2>2, <2>3 DEF NoAnswer, NoNewRefusal
  <2> QED
    BY <1>0, <2>1, <2>2, <2>4, LastKept
<1>4. ClientPackets'
  <2>1. OutOf' = OutOf
    BY <1>0 DEF OutOf, Out
  <2>2. /\ Origin(<<>>, {}, [j \in Listen |-> <<>>], got, OutOf)
        /\ Once(<<>>, {}, [j \in Listen |-> <<>>], got)
    BY PanicKeeps DEF PInv, Packets, ClientPackets
  <2> QED
    BY <1>0, <1>1, <2>1, <2>2 DEF ClientPackets
<1>5. ServerPackets' /\ GotSound'
  BY <1>0, <1>1, PFacts DEF Packets, ServerPackets, GotSound, Written
<1> QED
  BY <1>2, <1>3, <1>4, <1>5 DEF PInv, Lasting, Packets

(* Nothing but the packets changes.                                        *)
LEMMA RestKeeps ==
  ASSUME PInv, IInv', listen' = listen, pipe' = pipe, serve' = serve, conn' = conn, NoNewRefusal,
         ClientPackets', ServerPackets', GotSound'
  PROVE  PInv'
<1>1. client' = client /\ server' = server
  BY DEF client, server
<1>2. (NoAnswer' => NoAnswer) /\ (Over => Over')
  BY <1>1 DEF NoAnswer, NoNewRefusal, Over, NoPipe
<1>3. Lasting'
  BY <1>2, LastKept
<1>4. OneServed'
  BY <1>1 DEF PInv, OneServed, Served
<1> QED
  BY <1>3, <1>4 DEF PInv, Lasting, Packets

LEMMA DataKeeps ==
  ASSUME AddrsFit, PInv, IInv', NEW e \in End, HandleData(e)
  PROVE  PInv'
<1>0. /\ listen' = listen /\ pipe' = pipe /\ serve' = serve /\ conn' = conn /\ buf' = buf
      /\ got' = got /\ write' = write /\ wire \in [End -> Seq(Frame)]
      /\ hand \in [End -> SUBSET Handover] /\ write.n \in Nat
      /\ "client" \in End /\ "server" \in End
  BY PFacts, ListenFacts DEF HandleData, userVars
<1>1. wire[e] # <<>> /\ Head(wire[e]).t = "data" /\ wire' = Received(e)
  BY DEF HandleData, Incoming, AtHead
<1>2. wire' = [wire EXCEPT ![e] = Tail(wire[e])]
  BY <1>1 DEF Received
<1>3. WireCalm(e)
  BY <1>1 DEF WireCalm
<1>4. NoNewRefusal
  BY <1>0, <1>3, WireCalmOK
<1>5. PICK p \in Parsed(Head(wire[e]).f) :
        \/ hand' = hand
        \/ hand' = [hand EXCEPT ![e] = hand[e] \cup {[at |-> "start", ch |-> None, p |-> p]}]
  BY DEF HandleData
<1>6. CASE hand' = hand
  <2>1. ConnCalm(e)
    BY <1>0 DEF ConnCalm
  <2>2. write.n <= write'.n
    BY <1>0
  <2> QED
    BY <1>0, <1>3, <1>6, <2>1, <2>2, PlainOK
<1> DEFINE x == [at |-> "start", ch |-> None, p |-> p]
<1>7. CASE hand' = [hand EXCEPT ![e] = hand[e] \cup {x}]
  <2>1. x.p = p
    OBVIOUS
  <2> HIDE DEF x
  <2>2. /\ wire'[e] = Tail(wire[e]) /\ hand'[e] = hand[e] \cup {x}
        /\ \A d \in End : d # e => wire'[d] = wire[d] /\ hand'[d] = hand[d]
    BY <1>0, <1>2, <1>7
  <2>3. OutSound
    BY OutFacts DEF PInv
  <2>4. OutOf' = OutOf /\ Written' = Written
    BY <1>0 DEF OutOf, Out, Written
  <2>5. ClientPackets'
    <3>1. CASE e = "client"
      <4>1. /\ Origin(Tail(wire["client"]), hand["client"] \cup {x}, buf, got, OutOf)
            /\ Once(Tail(wire["client"]), hand["client"] \cup {x}, buf, got)
        <5>1. wire["client"] \in Seq(Frame) /\ OutOf \in [Listen -> 0 .. MaxInput]
              /\ Origin(wire["client"], hand["client"], buf, got, OutOf)
              /\ Once(wire["client"], hand["client"], buf, got)
          BY <1>0, <2>3 DEF OutSound, PInv, Packets, ClientPackets
        <5> QED
          BY <1>1, <1>5, <2>1, <3>1, <5>1, TakeKeeps
      <4> QED
        BY <1>0, <2>2, <2>4, <3>1, <4>1 DEF ClientPackets
    <3>2. CASE e # "client"
      BY <1>0, <2>2, <2>4, <3>2 DEF PInv, Packets, ClientPackets
    <3> QED
      BY <3>1, <3>2
  <2>6. ServerPackets'
    <3>1. CASE e = "server"
      <4>0. wire["server"] \in Seq(Frame) /\ WireFrom(wire["server"], Written)
            /\ HandFrom(hand["server"], Written)
        BY <1>0 DEF PInv, Packets, ServerPackets
      <4>1. WireFrom(Tail(wire["server"]), Written)
        BY <1>1, <3>1, <4>0, TailLess, LessOnce
      <4>2. From(p, Written)
        <5>1. 1 \in 1 .. Len(wire["server"]) /\ Head(wire["server"]) = wire["server"][1]
          BY <1>1, <3>1, <4>0
        <5>2. PICK k \in Listen : \E n \in 1 .. Written[k] : wire["server"][1].f = Format(Sent(k, n))
          BY <1>1, <3>1, <4>0, <5>1 DEF WireFrom
        <5>3. PICK n \in 1 .. Written[k] : wire["server"][1].f = Format(Sent(k, n))
          BY <5>2
        <5>4. n \in 1 .. MaxInput /\ k \in Nat
          BY <2>3, PFacts DEF OutSound
        <5>5. IsPacket(p, k, n) /\ Tag(p) = TagOf(k, n)
          BY <1>5, <3>1, <5>1, <5>3, <5>4, ReadsBack
        <5> QED
          BY <5>5 DEF From
      <4>3. HandFrom(hand["server"] \cup {x}, Written)
        BY <2>1, <4>0, <4>2 DEF HandFrom
      <4> QED
        BY <2>2, <2>4, <3>1, <4>1, <4>3 DEF ServerPackets
    <3>2. CASE e # "server"
      BY <1>0, <2>2, <2>4, <3>2 DEF PInv, Packets, ServerPackets
    <3> QED
      BY <3>1, <3>2
  <2>7. GotSound'
    BY <1>0 DEF PInv, Packets, GotSound
  <2> QED
    BY <1>0, <1>4, <2>5, <2>6, <2>7, RestKeeps
<1> QED
  BY <1>5, <1>6, <1>7

LEMMA HandoverKeeps ==
  ASSUME PInv, IInv', NEW e \in End, HandOver(e)
  PROVE  PInv'
<1>1. PICK x \in hand[e] : HandStart(e, x) \/ HandSend(e, x) \/ HandDone(e, x)
  BY DEF HandOver
<1>0. /\ hand \in [End -> SUBSET Handover] /\ x \in Handover /\ x.p \in Packet
      /\ x.ch \in Listen \cup {None} /\ buf \in [Listen -> Seq(Packet)] /\ write.n \in Nat
      /\ wire \in [End -> Seq(Frame)] /\ "client" \in End /\ "server" \in End
  <2>1. hand \in [End -> SUBSET Handover]
    BY PFacts
  <2>2. x \in Handover
    BY <2>1
  <2>3. x.p \in Packet /\ x.ch \in Listen \cup {None}
    BY <2>2 DEF Handover
  <2> QED
    BY <2>1, <2>2, <2>3, PFacts, ListenFacts
<1>2. CASE HandDone(e, x)
  <2>1. /\ serve' = serve /\ buf' = buf /\ got' = got /\ write' = write /\ listen' = listen
        /\ pipe' = pipe /\ conn' = conn /\ wire' = wire
        /\ hand' = [hand EXCEPT ![e] = hand[e] \ {x}]
    BY <1>2 DEF HandDone, userVars
  <2>2. \A d \in End : hand'[d] \subseteq hand[d]
    BY <1>0, <2>1
  <2>3. ConnCalm(e) /\ WireCalm(e) /\ write.n <= write'.n
    BY <1>0, <2>1 DEF ConnCalm, WireCalm
  <2> QED
    BY <2>1, <2>2, <2>3, PlainOK
<1>3. CASE HandStart(e, x)
  <2> DEFINE y == [x EXCEPT !.at = "select", !.ch = conn[e].packetDataCh]
  <2>1. /\ serve' = serve /\ buf' = buf /\ got' = got /\ write' = write /\ listen' = listen
        /\ pipe' = pipe /\ conn' = conn /\ wire' = wire
        /\ hand' = [hand EXCEPT ![e] = (hand[e] \ {x}) \cup {y}]
    BY <1>3 DEF HandStart, userVars
  <2>2. y.p = x.p
    BY <1>0 DEF Handover
  <2> HIDE DEF y
  <2>3. hand'[e] = (hand[e] \ {x}) \cup {y} /\ \A d \in End : d # e => hand'[d] = hand[d]
    BY <1>0, <2>1
  <2>4. OutOf' = OutOf /\ Written' = Written /\ NoNewRefusal
    BY <2>1 DEF OutOf, Out, Written, NoNewRefusal
  <2>5. ClientPackets'
    <3>1. CASE e = "client"
      <4>1. /\ Origin(wire["client"], (hand["client"] \ {x}) \cup {y}, buf, got, OutOf)
            /\ Once(wire["client"], (hand["client"] \ {x}) \cup {y}, buf, got)
        <5>1. x \in hand["client"]
              /\ Origin(wire["client"], hand["client"], buf, got, OutOf)
              /\ Once(wire["client"], hand["client"], buf, got)
          BY <3>1 DEF PInv, Packets, ClientPackets
        <5> QED
          BY <2>2, <5>1, StartKeeps
      <4> QED
        BY <2>1, <2>3, <2>4, <3>1, <4>1 DEF ClientPackets
    <3>2. CASE e # "client"
      BY <1>0, <2>1, <2>3, <2>4, <3>2 DEF PInv, Packets, ClientPackets
    <3> QED
      BY <3>1, <3>2
  <2>6. ServerPackets'
    <3>1. WireFrom(wire["server"], Written) /\ HandFrom(hand["server"], Written)
      BY DEF PInv, Packets, ServerPackets
    <3>2. HandFrom(hand'["server"], Written)
      BY <1>0, <2>2, <2>3, <3>1 DEF HandFrom
    <3> QED
      BY <2>1, <2>4, <3>1, <3>2 DEF ServerPackets
  <2>7. GotSound'
    BY <2>1 DEF PInv, Packets, GotSound
  <2> QED
    BY <2>1, <2>4, <2>5, <2>6, <2>7, RestKeeps
<1>4. CASE HandSend(e, x)
  <2>1. e = "client" /\ x.ch # None /\ x.ch \in Listen
    BY <1>0, <1>4, PFacts DEF HandSend, EndSound, End
  <2>2. listen.k \in Listen /\ pipe[listen.k] # "none"
    BY <1>1, <2>1, PFacts DEF ChannelSound, ListenState
  <2>3. CASE Panics
    BY <2>2, <2>3, PanicsKeep
  <2>4. CASE ~Panics
    <3>1. /\ serve' = serve /\ got' = got /\ write' = write /\ listen' = listen
          /\ pipe' = pipe /\ conn' = conn /\ wire' = wire
          /\ hand' = [hand EXCEPT ![e] = hand[e] \ {x}]
          /\ buf' = [buf EXCEPT ![x.ch] = Append(buf[x.ch], x.p)]
      BY <1>4, <2>4 DEF HandSend, userVars
    <3>2. /\ hand'["client"] = hand["client"] \ {x} /\ hand'["server"] = hand["server"]
      BY <1>0, <2>1, <3>1
    <3>3. OutOf' = OutOf /\ Written' = Written /\ NoNewRefusal
      BY <3>1 DEF OutOf, Out, Written, NoNewRefusal
    <3>4. /\ Origin(wire["client"], hand["client"] \ {x}, buf', got, OutOf)
          /\ Once(wire["client"], hand["client"] \ {x}, buf', got)
      <4>1. x \in hand["client"]
            /\ Origin(wire["client"], hand["client"], buf, got, OutOf)
            /\ Once(wire["client"], hand["client"], buf, got)
        BY <2>1 DEF PInv, Packets, ClientPackets
      <4>2. LET d == [buf EXCEPT ![x.ch] = Append(@, x.p)] IN
             /\ Origin(wire["client"], hand["client"] \ {x}, d, got, OutOf)
             /\ Once(wire["client"], hand["client"] \ {x}, d, got)
        BY <1>0, <2>1, <4>1, PutKeeps
      <4> QED
        BY <3>1, <4>2
    <3>5. ClientPackets' /\ ServerPackets' /\ GotSound'
      BY <3>1, <3>2, <3>3, <3>4
         DEF PInv, Packets, ClientPackets, ServerPackets, GotSound
    <3> QED
      BY <3>1, <3>3, <3>5, RestKeeps
  <2> QED
    BY <2>3, <2>4
<1> QED
  BY <1>1, <1>2, <1>3, <1>4

LEMMA ReadingKeeps ==
  ASSUME PInv, IInv', ReadEnd \/ ReadDone \/ \E k \in Listen : ReadFrom(k)
  PROVE  PInv'
<1>0. /\ read \in [pc : {"idle", "called", "select"}, k : Listen \cup {None},
                   ch : Listen \cup {None}]
      /\ read.pc # "idle" => read.k \in Listen /\ pipe[read.k] # "none"
      /\ "client" \in End /\ "server" \in End /\ write.n \in Nat
  <2>1. TypeOK /\ CallSound
    BY PFacts
  <2>2. read \in [pc : {"idle", "called", "select"}, k : Listen \cup {None},
                  ch : Listen \cup {None}]
    BY <2>1 DEF TypeOK
  <2>3. read.pc # "idle" => read.k \in Listen /\ pipe[read.k] # "none"
    BY <2>1, <2>2 DEF CallSound
  <2> QED
    BY <2>2, <2>3, PFacts, ListenFacts
<1>1. CASE Panics
  <2>1. \E k \in Listen : pipe[k] # "none"
    <3>1. ASSUME NEW k \in Listen, ReadFrom(k) PROVE pipe[k] # "none"
      BY <3>1 DEF ReadFrom
    <3>2. ASSUME ReadEnd \/ ReadDone PROVE read.pc # "idle"
      BY <3>2 DEF ReadEnd, ReadSelect, ReadDone, ReadPacket
    <3> QED
      BY <1>0, <3>1, <3>2
  <2> QED
    BY <1>1, <2>1, PanicsKeep
<1>2. CASE ~Panics
  <2>0. /\ serve' = serve /\ hand' = hand /\ write' = write /\ listen' = listen
        /\ pipe' = pipe /\ conn' = conn /\ wire' = wire
    <3>1. ASSUME NEW k \in Listen, ReadFrom(k)
          PROVE  /\ serve' = serve /\ hand' = hand /\ write' = write /\ listen' = listen
                 /\ pipe' = pipe /\ conn' = conn /\ wire' = wire
      BY <1>2, <3>1 DEF ReadFrom
    <3> QED
      BY <1>2, <3>1 DEF ReadEnd, ReadSelect, ReadDone, ReadPacket
  <2>1. CASE buf' = buf /\ got' = got
    <3>1. ConnCalm("client") /\ WireCalm("client") /\ write.n <= write'.n
      BY <1>0, <2>0 DEF ConnCalm, WireCalm
    <3>2. \A d \in End : hand'[d] \subseteq hand[d]
      BY <2>0
    <3> QED
      BY <1>0, <2>0, <2>1, <3>1, <3>2, PlainOK
  <2>2. CASE ~(buf' = buf /\ got' = got)
    <3>1. /\ read.pc = "select" /\ read.ch # None /\ buf[read.ch] # <<>>
          /\ got' = Append(got, [k |-> read.k, p |-> Head(buf[read.ch])])
          /\ buf' = [buf EXCEPT ![read.ch] = Tail(buf[read.ch])]
      <4>1. ASSUME NEW k \in Listen, ReadFrom(k) PROVE FALSE
        BY <1>2, <2>2, <4>1 DEF ReadFrom
      <4> QED
        BY <1>2, <2>2, <4>1 DEF ReadEnd, ReadSelect, ReadDone, ReadPacket
    <3> DEFINE r == [k |-> read.k, p |-> Head(buf[read.ch])]
    <3>2. /\ read.ch \in Listen /\ read.k \in Listen /\ pipe[read.k] # "none"
          /\ buf \in [Listen -> Seq(Packet)] /\ got \in Seq([k : Listen, p : Packet])
      BY <1>0, <3>1, PFacts
    <3>3. Head(buf[read.ch]) \in Packet
      BY <3>1, <3>2
    <3>4. r \in [k : Listen, p : Packet] /\ r.p = Head(buf[read.ch]) /\ r.k = read.k
      BY <3>2, <3>3
    <3> HIDE DEF r
    <3>5. OutOf' = OutOf /\ Written' = Written /\ NoNewRefusal
      BY <2>0 DEF OutOf, Out, Written, NoNewRefusal
    <3>6. /\ Origin(wire["client"], hand["client"], buf, got, OutOf)
          /\ Once(wire["client"], hand["client"], buf, got)
      BY DEF PInv, Packets, ClientPackets
    <3>7. LET d == [buf EXCEPT ![read.ch] = Tail(@)] IN
            /\ Origin(wire["client"], hand["client"], d, Append(got, r), OutOf)
            /\ Once(wire["client"], hand["client"], d, Append(got, r))
      BY <3>1, <3>2, <3>4, <3>6, ReadKeeps
    <3>8. got' = Append(got, r)
      BY <3>1 DEF r
    <3>9. ClientPackets'
      BY <2>0, <3>1, <3>5, <3>7, <3>8 DEF ClientPackets
    <3>10. ServerPackets'
      BY <2>0, <3>5 DEF PInv, Packets, ServerPackets
    <3>11. GotSound'
      <4>1. \A i \in 1 .. Len(got') : (i \in 1 .. Len(got) /\ got'[i] = got[i]) \/ got'[i] = r
        BY <3>2, <3>4, <3>8
      <4> QED
        BY <2>0, <3>2, <3>4, <4>1 DEF PInv, Packets, GotSound
    <3> QED
      BY <2>0, <3>5, <3>9, <3>10, <3>11, RestKeeps
  <2> QED
    BY <2>1, <2>2
<1> QED
  BY <1>1, <1>2

LEMMA WritingKeeps ==
  ASSUME PInv, IInv', WriteSend \/ WriteLate \/ \E k \in Listen : WriteTo(k)
  PROVE  PInv'
<1>0. /\ write \in [pc : {"idle", "called"}, k : Listen \cup {None}, n : 0 .. MaxInput]
      /\ write.pc # "idle" => write.k \in Listen /\ pipe[write.k] # "none" /\ write.n > 0
      /\ "client" \in End /\ "server" \in End /\ write.n \in Nat
      /\ Peer("client") = "server" /\ client \in ConnState /\ client = conn["client"]
      /\ wire \in [End -> Seq(Frame)]
  <2>1. TypeOK /\ CallSound
    BY PFacts
  <2>2. write \in [pc : {"idle", "called"}, k : Listen \cup {None}, n : 0 .. MaxInput]
    BY <2>1 DEF TypeOK
  <2>3. write.pc # "idle" => write.k \in Listen /\ pipe[write.k] # "none" /\ write.n > 0
    BY <2>1, <2>2 DEF CallSound
  <2> QED
    BY <2>2, <2>3, PFacts, ListenFacts
<1>1. CASE Panics
  <2>1. \E k \in Listen : pipe[k] # "none"
    <3>1. ASSUME NEW k \in Listen, WriteTo(k) PROVE pipe[k] # "none"
      BY <3>1 DEF WriteTo
    <3>2. ASSUME WriteSend \/ WriteLate PROVE write.pc # "idle"
      BY <3>2 DEF WriteSend, WriteLate
    <3> QED
      BY <1>0, <3>1, <3>2
  <2> QED
    BY <1>1, <2>1, PanicsKeep
<1>2. CASE ~Panics
  <2> DEFINE f == DataFrame(Sent(write.k, write.n))
  <2>0. /\ serve' = serve /\ hand' = hand /\ listen' = listen /\ pipe' = pipe /\ buf' = buf
        /\ got' = got
    <3>1. ASSUME NEW k \in Listen, WriteTo(k)
          PROVE  /\ serve' = serve /\ hand' = hand /\ listen' = listen /\ pipe' = pipe
                 /\ buf' = buf /\ got' = got
      BY <1>2, <3>1 DEF WriteTo
    <3> QED
      BY <1>2, <3>1 DEF WriteSend, WriteLate
  <2>1. write'.n = write.n \/ write'.n = write.n + 1
    <3>1. ASSUME NEW k \in Listen, WriteTo(k) PROVE write'.n = write.n + 1
      BY <1>2, <3>1 DEF WriteTo
    <3> QED
      BY <1>0, <1>2, <3>1 DEF WriteSend, WriteLate
  <2>2. write.n <= write'.n
    BY <1>0, <2>1
  <2>3. ConnCalm("client")
    <3>1. conn' = conn \/ Becomes("client", client) \/ Becomes("client", closeWithErr(client))
      <4>1. ASSUME NEW k \in Listen, WriteTo(k) PROVE conn' = conn
        BY <1>2, <4>1 DEF WriteTo
      <4> QED
        BY <1>2, <4>1 DEF WriteSend, WriteLate, Sends, SendFails
    <3>2. Keeps(client, client) /\ Keeps(client, closeWithErr(client))
      BY <1>0, CloseKeeps DEF Keeps
    <3> QED
      BY <1>0, <3>1, <3>2 DEF ConnCalm
  <2>4. CASE WireCalm("client")
    BY <1>0, <2>0, <2>2, <2>3, <2>4, PlainOK
  <2>5. CASE WriteSend /\ Sends("client", client, wire, f) /\ Reads("server")
    <3>1. write.pc = "called" /\ write'.n = write.n
      BY <1>0, <1>2, <2>5 DEF WriteSend
    <3>2. /\ write.k \in Listen /\ write.n \in 1 .. MaxInput
      BY <1>0, <3>1
    <3>3. f \in Frame /\ f.t = "data" /\ f.f = Format(Sent(write.k, write.n))
      <4>1. Sent(write.k, write.n) \in Packet
        BY <3>2, SentFacts, PFacts
      <4>2. Format(Sent(write.k, write.n)) \in Seq(Nat)
        BY <4>1, ParsedFacts
      <4> QED
        BY <4>2 DEF DataFrame, Cmd, Frame
    <3>4. wire' = [wire EXCEPT !["server"] = Append(wire["server"], f)]
      BY <1>0, <2>5 DEF Sends
    <3> HIDE DEF f
    <3>5. wire'["server"] = Append(wire["server"], f) /\ wire'["client"] = wire["client"]
      BY <1>0, <3>4
    <3>6. wire["server"] \in Seq(Frame)
      BY <1>0
    <3>7. \A i \in 1 .. Len(wire'["server"]) :
            \/ i \in 1 .. Len(wire["server"]) /\ wire'["server"][i] = wire["server"][i]
            \/ wire'["server"][i] = f
      BY <3>3, <3>5, <3>6
    <3>8. NoNewRefusal
      BY <3>3, <3>5, <3>7 DEF NoNewRefusal, On, End
    <3>9. OutOf' = OutOf /\ Written' = Written
      BY <2>0, <3>1 DEF OutOf, Out, Written
    <3>10. ServerPackets'
      <4>1. WireFrom(wire["server"], Written) /\ HandFrom(hand["server"], Written)
        BY DEF PInv, Packets, ServerPackets
      <4>2. write.n \in 1 .. Written[write.k]
        BY <3>2 DEF Written
      <4>3. WireFrom(wire'["server"], Written)
        BY <3>2, <3>3, <3>7, <4>1, <4>2 DEF WireFrom
      <4> QED
        BY <2>0, <3>9, <4>1, <4>3 DEF ServerPackets
    <3>11. ClientPackets' /\ GotSound'
      BY <2>0, <3>5, <3>9 DEF PInv, Packets, ClientPackets, GotSound
    <3>12. Keeps(client, client') /\ Keeps(server, server')
      BY <2>3, PFacts, ConnCalmOK, ListenFacts
    <3>13. (NoAnswer' => NoAnswer) /\ (Over => Over')
      BY <2>0, <3>8, <3>12 DEF NoAnswer, NoNewRefusal, Over, NoPipe, Keeps
    <3>14. Lasting'
      BY <2>0, <3>13, LastKept
    <3>15. OneServed'
      BY <2>0, <3>12 DEF PInv, OneServed, Served, Keeps
    <3> QED
      BY <3>10, <3>11, <3>14, <3>15 DEF PInv, Lasting, Packets
  <2>6. WireCalm("client") \/ (WriteSend /\ Sends("client", client, wire, f) /\ Reads("server"))
    <3>1. ASSUME NEW k \in Listen, WriteTo(k) PROVE wire' = wire
      BY <1>2, <3>1 DEF WriteTo
    <3>2. CASE WriteSend
      BY <1>0, <1>2, <3>2 DEF WriteSend, Sends, WireCalm
    <3>3. CASE WriteLate
      BY <3>3 DEF WriteLate, WireCalm
    <3> QED
      BY <3>1, <3>2, <3>3 DEF WireCalm
  <2> QED
    BY <2>4, <2>5, <2>6
<1> QED
  BY <1>1, <1>2

-----------------------------------------------------------------------------
LEMMA PInvInit == Init => PInv
<1> SUFFICES ASSUME Init PROVE PInv
  OBVIOUS
<1>1. IInv
  BY IInvInit
<1>2. /\ \A k \in Listen : serve[k].pc = "none" /\ serve[k].n = 0 /\ serve[k].conn = None
      /\ wire = [e \in End |-> <<>>] /\ hand = [e \in End |-> {}] /\ got = <<>>
      /\ buf = [k \in Listen |-> <<>>] /\ wire["client"] = <<>> /\ wire["server"] = <<>>
      /\ hand["client"] = {} /\ hand["server"] = {}
  BY ListenFacts DEF Init
<1>3. OneServed /\ LastServed
  BY <1>2 DEF OneServed, LastServed, Served
<1>4. /\ \A e \in {"client", "server"} : 1 .. Len(wire[e]) = {}
      /\ 1 .. Len(got) = {} /\ \A k \in Listen : 1 .. Len(buf[k]) = {}
  BY <1>2
<1>5. ClientPackets
  BY <1>2, <1>4 DEF ClientPackets, Origin, Once, WireFrom, HandFrom, BufFrom, GotFrom, WireOnce,
                    HandOnce, BufOnce, GotOnce, Apart, OnWire, InHand, InBuf, InGot
<1>6. ServerPackets /\ GotSound
  BY <1>2, <1>4 DEF ServerPackets, WireFrom, HandFrom, GotSound
<1> QED
  BY <1>1, <1>3, <1>5, <1>6 DEF PInv, Packets

LEMMA PInvStep == AddrsFit /\ PInv /\ [Next]_vars => PInv'
<1> SUFFICES ASSUME AddrsFit, PInv, [Next]_vars PROVE PInv'
  OBVIOUS
<1>0. IInv'
  BY IInvStep DEF PInv
<1>1. CASE UNCHANGED vars
  <2>1. /\ conn' = conn /\ wire' = wire /\ listen' = listen /\ pipe' = pipe /\ buf' = buf
        /\ hand' = hand /\ serve' = serve /\ read' = read /\ write' = write /\ got' = got
    BY <1>1 DEF vars
  <2>2. ConnCalm("client") /\ WireCalm("client") /\ write.n \in Nat
    BY <2>1, PFacts DEF ConnCalm, WireCalm
  <2>3. write.n <= write'.n /\ \A x \in End : hand'[x] \subseteq hand[x]
    BY <2>1, <2>2
  <2> QED
    BY <1>0, <2>1, <2>2, <2>3, PlainOK, ListenFacts
<1>2. ASSUME NEW e \in End, Handle(e) \/ HandOver(e) \/ PeerDone(e) \/ ConnCloses(e)
      PROVE  PInv'
  BY <1>0, <1>2, EndsKeep, AnswersKeep, ReplyKeeps, PipeEndsKeep, DataKeeps, HandoverKeeps
     DEF Handle, PeerDone
<1>3. ASSUME ListenSend \/ ListenPacket \/ CtxCancel PROVE PInv'
  BY <1>0, <1>3, ListenKeeps
<1>4. ASSUME NEW k \in Listen, servePacket(k) \/ SocketErr(k) \/ ServeReadFrom(k) PROVE PInv'
  BY <1>0, <1>4, SocketKeeps
<1>5. CASE Step
  BY <1>0, <1>2, <1>3, <1>4, <1>5, ReadingKeeps, WritingKeeps DEF Step
<1>6. CASE Input
  <2>1. ASSUME Event PROVE PInv'
    BY <1>0, <1>3, <1>4, <2>1, ReadingKeeps, WritingKeeps, EndsKeep, AnswersKeep, PipeEndsKeep,
       ListenFacts DEF Event
  <2> QED
    BY <1>0, <1>4, <1>6, <2>1, WritingKeeps DEF Input
<1> QED
  BY <1>1, <1>5, <1>6 DEF Next

(* What ReadFrom returns are packets of the socket that was opened for its *)
(* pipe, each with its address and once, though each is handed over by a   *)
(* goroutine of its own (handleBinary, servePacket, ConnPacketPipe), and   *)
(* so are those that arrive at the server: for any number of calls, of     *)
(* packets and of steps in between, and any order of the goroutines.       *)
THEOREM PacketsStayWhole == ASSUME AddrsFit PROVE Spec => []PacketFaithful
<1>1. PInv => PacketFaithful
  <2> SUFFICES ASSUME PInv PROVE PacketFaithful
    OBVIOUS
  <2>0. OutSound /\ got \in Seq([k : Listen, p : Packet]) /\ PipeOfLastListen
        /\ serve \in [Listen -> Serving] /\ MaxInput \in Nat
    BY OutFacts, PFacts DEF PInv
  <2>1. ASSUME NEW g \in ToSet(got)
        PROVE  \E k \in Listen : \E n \in 1 .. serve[k].n :
                 IsPacket(g.p, k, n) /\ (k = g.k \/ listen.stale)
    <3>1. PICK i \in DOMAIN got : g = got[i]
      BY DEF ToSet
    <3>2. i \in 1 .. Len(got) /\ got[i] \in [k : Listen, p : Packet]
      <4>1. i \in 1 .. Len(got)
        BY <2>0
      <4> QED
        BY <2>0, <4>1, SeqElement, Zenon
    <3>3. pipe[g.k] # "none" /\ g.k \in Listen /\ From(g.p, OutOf)
      BY <3>1, <3>2 DEF PInv, Packets, GotSound, ClientPackets, Origin, GotFrom
    <3>4. PICK k \in Listen : \E n \in 1 .. OutOf[k] : IsPacket(g.p, k, n)
      BY <3>3 DEF From
    <3>5. PICK n \in 1 .. OutOf[k] : IsPacket(g.p, k, n)
      BY <3>4
    <3>6. OutOf[k] <= serve[k].n /\ OutOf[k] \in Nat /\ serve[k].n \in Nat
      BY <2>0 DEF OutSound, Serving
    <3>7. n \in 1 .. serve[k].n /\ serve[k].n # 0
      BY <3>5, <3>6
    <3>8. Served(k) /\ g.k = listen.k /\ ~Over
      BY <2>0, <3>3, <3>7 DEF PInv, OneServed, PipeOfLastListen, Over, NoPipe
    <3>9. k = g.k \/ listen.stale
      BY <3>8 DEF PInv, LastServed
    <3> QED
      BY <3>5, <3>7, <3>9
  <2>2. ASSUME NEW i \in DOMAIN got, NEW j \in DOMAIN got, got[i].p.data[1] = got[j].p.data[1]
        PROVE  i = j
    <3>1. i \in 1 .. Len(got) /\ j \in 1 .. Len(got)
      BY <2>0
    <3> QED
      BY <2>2, <3>1 DEF PInv, Packets, ClientPackets, Once, GotOnce, Tag
  <2>3. ASSUME NEW h \in hand["server"]
        PROVE  \E k \in Listen, n \in 1 .. write.n : IsPacket(h.p, k, n)
    <3>1. From(h.p, Written)
      BY <2>3 DEF PInv, Packets, ServerPackets, HandFrom
    <3>2. \A k \in Listen : Written[k] = write.n
      BY <2>0 DEF OutSound
    <3> QED
      BY <3>1, <3>2 DEF From
  <2> QED
    BY <2>1, <2>2, <2>3 DEF PacketFaithful
<1>2. Spec => []PInv
  BY PInvInit, PInvStep, PTL DEF Spec
<1> QED
  BY <1>1, <1>2, PTL

=============================================================================
