---------------------------- MODULE Socks5Proofs ----------------------------
(***************************************************************************)
(* Proofs about Socks5: whatever bytes clients send and wherever they cut  *)
(* them, no reader runs past what has arrived, every client gets its       *)
(* replies in the order that the protocol has them, and its target the     *)
(* bytes that follow its request.                                          *)
(***************************************************************************)
EXTENDS Socks5, TLAPS

-----------------------------------------------------------------------------
(* The inductive invariant.                                                *)

Good == {"noAuth", "authorized"}

(* What RepliesInOrder says of the order of the replies alone.             *)
Ordered(out, cmd) ==
  /\ out # <<>> => out[1] \in AuthReply
  /\ \A i \in 2 .. Len(out) :
       /\ out[i] \in StatusCode
       /\ out[i - 1] \in Good \/ (out[i - 1] = "Granted" /\ i = 3 /\ cmd = CmdBindTCP)

(* Where Handle is tells which replies the client has got.                 *)
Replied(s) ==
  /\ s.pc \in {"new", "hello", "auth"} => s.out = <<>>
  /\ s.pc \in {"request", "command"} => Len(s.out) = 1 /\ s.out[1] \in Good
  /\ s.pc = "accept" =>
       Len(s.out) = 2 /\ s.out[1] \in Good /\ s.out[2] = "Granted" /\ s.cmd = CmdBindTCP
  /\ s.pc = "relay" =>
       /\ s.target # "none" /\ s.out[1] \in Good /\ s.out[Len(s.out)] = "Granted"
       /\ \/ Len(s.out) = 2
          \/ Len(s.out) = 3 /\ s.out[2] = "Granted" /\ s.cmd = CmdBindTCP
  /\ Ordered(s.out, s.cmd)

(* The reader of a connection stays within what the client has sent.       *)
Within(c, s) == s.read <= s.sent /\ s.sent <= Len(Bytes(script[c]))

SessOK(c, s) == s \in SessionState /\ Within(c, s) /\ Replied(s)

IInv == TypeOK /\ \A c \in Conns : SessOK(c, sess[c])

-----------------------------------------------------------------------------
(* What a sequence of bytes is made of.                                    *)
LEMMA SeqBytes ==
  ASSUME NEW b \in Seq(Byte)
  PROVE  /\ Len(b) \in Nat
         /\ \A i \in 1 .. Len(b) : b[i] \in Byte /\ b[i] \in Nat /\ b[i] <= 255
<1>1. Len(b) \in Nat /\ \A i \in 1 .. Len(b) : b[i] \in Byte
  OBVIOUS
<1>2. \A x \in Byte : x \in Nat /\ x <= 255
  BY DEF Byte
<1> QED
  BY <1>1, <1>2

(* The bytes that have arrived.                                            *)
LEMMA InFacts ==
  ASSUME IInv, NEW c \in Conns
  PROVE  /\ In(c) \in Seq(Byte) /\ Len(In(c)) = sess[c].sent - sess[c].read
         /\ Bytes(script[c]) \in Seq(Byte)
<1>1. Bytes(script[c]) \in Seq(Byte)
  BY ScriptAssumption DEF IInv, TypeOK
<1>2. /\ sess[c].sent \in Nat /\ sess[c].read \in Nat
      /\ sess[c].read <= sess[c].sent /\ sess[c].sent <= Len(Bytes(script[c]))
  <2>1. sess[c] \in SessionState /\ Within(c, sess[c])
    BY DEF IInv, SessOK
  <2>2. sess[c].sent \in Nat /\ sess[c].read \in Nat
    BY <2>1 DEF SessionState
  <2> QED
    BY <2>1, <2>2 DEF Within
<1> DEFINE b == Bytes(script[c])
<1> HIDE DEF b
<1>3. \A i, j \in Nat : i <= j /\ j <= Len(b) /\ b \in Seq(Byte) =>
        SubSeq(b, i + 1, j) \in Seq(Byte) /\ Len(SubSeq(b, i + 1, j)) = j - i
  OBVIOUS
<1> QED
  BY <1>1, <1>2, <1>3 DEF In, b

(* A step of one connection.                                               *)
LEMMA BecomesOK ==
  ASSUME IInv, NEW c \in Conns, NEW s, SessOK(c, s), Becomes(c, s),
         UNCHANGED <<server, guarder, users, script>>
  PROVE  IInv'
<1>1. sess \in [Conns -> SessionState]
  BY DEF IInv, TypeOK
<1>2. \A d \in Conns : sess'[d] = IF d = c THEN s ELSE sess[d]
  BY <1>1 DEF Becomes
<1>3. sess' \in [Conns -> SessionState]
  BY <1>1 DEF Becomes, SessOK
<1>4. \A d \in Conns : SessOK(d, sess'[d])
  BY <1>2 DEF IInv
<1>5. \A d \in Conns : SessOK(d, sess[d])'
  BY <1>4 DEF SessOK, Within
<1>6. \A d \in Conns : sess'[d].read <= sess'[d].sent
  BY <1>4 DEF SessOK, Within
<1> QED
  BY <1>3, <1>5, <1>6 DEF IInv, TypeOK

(* Handle returns.                                                         *)
LEMMA ReturnOK ==
  ASSUME NEW c \in Conns, NEW s, SessOK(c, s)
  PROVE  SessOK(c, [s EXCEPT !.pc = "closed"])
<1> DEFINE t == [s EXCEPT !.pc = "closed"]
<1>1. s \in SessionState /\ Within(c, s) /\ Replied(s)
  BY DEF SessOK
<1>2. t \in SessionState
  BY <1>1 DEF SessionState
<1>3. /\ t.pc = "closed" /\ t.read = s.read /\ t.sent = s.sent
      /\ t.out = s.out /\ t.cmd = s.cmd
  BY <1>1 DEF SessionState
<1> HIDE DEF t
<1>4. Within(c, t)
  BY <1>1, <1>3 DEF Within
<1>5. Replied(t)
  BY <1>1, <1>3 DEF Replied
<1> QED
  BY <1>2, <1>4, <1>5 DEF SessOK, t

(* A reply that has its place, or a client that is not there to read it.   *)
LEMMA ReplyOK ==
  ASSUME IInv, NEW c \in Conns, NEW s, NEW r, Reply(c, s, r),
         SessOK(c, [s EXCEPT !.out = Append(@, r)]),
         SessOK(c, [s EXCEPT !.pc = "closed"]),
         UNCHANGED <<server, guarder, users, script>>
  PROVE  IInv'
<1>1. CASE Becomes(c, [s EXCEPT !.out = Append(@, r)])
  BY <1>1, BecomesOK
<1>2. CASE Return(c, s)
  BY <1>2, BecomesOK DEF Return
<1> QED
  BY <1>1, <1>2 DEF Reply

(* A response, the last thing Handle does.                                 *)
LEMMA ResponseOK ==
  ASSUME IInv, NEW c \in Conns, NEW s, SessOK(c, s), NEW r,
         \/ s.pc \in {"request", "command"} /\ r \in StatusCode
         \/ s.pc = "accept" /\ r \in StatusCode
         \/ s.pc = "auth" /\ r \in AuthReply
  PROVE  /\ SessOK(c, [[s EXCEPT !.pc = "closed"] EXCEPT !.out = Append(@, r)])
         /\ SessOK(c, [[s EXCEPT !.pc = "closed"] EXCEPT !.pc = "closed"])
<1> DEFINE t == [s EXCEPT !.pc = "closed"]
           u == [t EXCEPT !.out = Append(@, r)]
<1>0. s \in SessionState /\ Within(c, s) /\ Replied(s)
  BY DEF SessOK
<1>1. t \in SessionState
  BY <1>0 DEF SessionState
<1>1a. /\ t.pc = "closed" /\ t.read = s.read /\ t.sent = s.sent
       /\ t.out = s.out /\ t.cmd = s.cmd
  BY <1>0 DEF SessionState
<1>2. SessOK(c, [t EXCEPT !.pc = "closed"])
  <2>1. SessOK(c, t)
    BY ReturnOK
  <2> HIDE DEF t
  <2> QED
    BY <2>1, ReturnOK
<1>3. s.out \in Seq(StatusCode \cup AuthReply) /\ r \in StatusCode \cup AuthReply
  <2>1. s.out \in Seq(StatusCode \cup AuthReply)
    BY <1>0 DEF SessionState
  <2> QED
    BY <2>1
<1>4. u \in SessionState
  <2> HIDE DEF t
  <2>1. Append(s.out, r) \in Seq(StatusCode \cup AuthReply)
    BY <1>3
  <2> QED
    BY <1>1, <1>1a, <2>1 DEF SessionState
<1>4a. /\ u.out = Append(s.out, r) /\ u.pc = "closed" /\ u.cmd = s.cmd
       /\ u.read = s.read /\ u.sent = s.sent
  <2> HIDE DEF t
  <2> QED
    BY <1>1, <1>1a DEF SessionState
<1>5. Ordered(Append(s.out, r), s.cmd)
  BY <1>0, <1>3 DEF Replied, Ordered, Good
<1>6. SessOK(c, u)
  <2> HIDE DEF u, t
  <2> QED
    BY <1>0, <1>4, <1>4a, <1>5 DEF SessOK, Within, Replied
<1> QED
  BY <1>2, <1>6

LEMMA StatusOfType == \A err : StatusOf(err) \in StatusCode
BY DEF StatusOf, StatusCode

LEMMA ErrorOK ==
  ASSUME IInv, NEW c \in Conns, NEW s, SessOK(c, s), NEW err, sendErrorResponse(c, s, err),
         s.pc \in {"request", "command", "accept"},
         UNCHANGED <<server, guarder, users, script>>
  PROVE  IInv'
BY StatusOfType, ResponseOK, ReplyOK DEF sendErrorResponse

-----------------------------------------------------------------------------
(* Handle, step by step.                                                   *)

LEMMA HandShakeOK ==
  ASSUME IInv, NEW c \in Conns, readHandShake(c)
  PROVE  IInv'
<1> DEFINE s == sess[c]
           b == In(c)
           n == HandShakeLen(b)
<1>0. /\ s \in SessionState /\ Within(c, s) /\ Replied(s) /\ SessOK(c, s)
      /\ UNCHANGED <<server, guarder, users, script>> /\ s.pc = "hello"
  BY DEF IInv, SessOK, readHandShake, At
<1>1. CASE Return(c, s)
  BY <1>0, <1>1, ReturnOK, BecomesOK DEF Return
<1>2. CASE Arrived(c, n) /\ Becomes(c, [s EXCEPT !.pc = "auth", !.read = @ + n,
                                               !.methods = SubSeq(b, 3, n)])
  <2> DEFINE t == [s EXCEPT !.pc = "auth", !.read = @ + n, !.methods = SubSeq(b, 3, n)]
  <2>1. b \in Seq(Byte) /\ Len(b) = s.sent - s.read /\ s.sent \in Nat /\ s.read \in Nat
    BY <1>0, InFacts DEF SessionState
  <2>2. n \in Nat /\ n <= Len(b)
    <3> HIDE DEF b
    <3>1. Len(b) >= 2 => b[2] \in Nat
      BY <2>1, SeqBytes
    <3> QED
      BY <1>2, <2>1, <3>1 DEF HandShakeLen, Arrived, b
  <2>3. SubSeq(b, 3, n) \in Seq(Byte)
    <3> HIDE DEF b, n
    <3> QED
      BY <2>1, <2>2
  <2>4. s.read + n \in Nat /\ s.read + n <= s.sent
    <3> HIDE DEF b, n, s
    <3> QED
      BY <2>1, <2>2
  <2>5. t \in SessionState
    <3> HIDE DEF b, n
    <3> QED
      BY <1>0, <2>3, <2>4 DEF SessionState
  <2>6. /\ t.read = s.read + n /\ t.sent = s.sent /\ t.pc = "auth" /\ t.out = s.out
        /\ t.cmd = s.cmd
    <3> HIDE DEF b, n
    <3> QED
      BY <1>0 DEF SessionState
  <2> HIDE DEF t
  <2>7. SessOK(c, t)
    BY <1>0, <2>4, <2>5, <2>6 DEF SessOK, Within, Replied
  <2> QED
    BY <1>0, <1>2, <2>7, BecomesOK DEF t
<1> QED
  BY <1>1, <1>2 DEF readHandShake

(* Authentication is answered, and Handle goes on to the request.          *)
LEMMA AuthReplyOK ==
  ASSUME IInv, NEW c \in Conns, NEW s, SessOK(c, s), s.pc = "auth", NEW r \in Good,
         Reply(c, [s EXCEPT !.pc = "request"], r),
         UNCHANGED <<server, guarder, users, script>>
  PROVE  IInv'
<1> DEFINE t == [s EXCEPT !.pc = "request"]
           u == [t EXCEPT !.out = Append(@, r)]
           v == [t EXCEPT !.pc = "closed"]
<1>0. s \in SessionState /\ Within(c, s) /\ Replied(s)
  BY DEF SessOK
<1>1. t \in SessionState /\ v \in SessionState
  BY <1>0 DEF SessionState
<1>2. /\ t.pc = "request" /\ t.read = s.read /\ t.sent = s.sent /\ t.out = s.out
      /\ t.cmd = s.cmd
      /\ v.pc = "closed" /\ v.read = s.read /\ v.sent = s.sent /\ v.out = s.out
      /\ v.cmd = s.cmd
  BY <1>0 DEF SessionState
<1>3. s.out = <<>> /\ r \in StatusCode \cup AuthReply /\ r \in AuthReply
  BY <1>0 DEF Replied, Good, AuthReply
<1>4. u \in SessionState
  <2> HIDE DEF t
  <2>1. Append(t.out, r) \in Seq(StatusCode \cup AuthReply)
    BY <1>2, <1>3
  <2> QED
    BY <1>1, <2>1 DEF SessionState
<1>5. /\ u.pc = "request" /\ u.read = s.read /\ u.sent = s.sent /\ u.out = <<r>>
      /\ u.cmd = s.cmd
  <2>1. Append(s.out, r) = <<r>>
    BY <1>3
  <2> HIDE DEF t
  <2> QED
    BY <1>1, <1>2, <2>1 DEF SessionState
<1> HIDE DEF t, u, v
<1>6. SessOK(c, u)
  BY <1>0, <1>3, <1>4, <1>5 DEF SessOK, Within, Replied, Ordered
<1>7. SessOK(c, v)
  BY <1>0, <1>1, <1>2 DEF SessOK, Within, Replied
<1> QED
  BY <1>6, <1>7, ReplyOK DEF t, u, v

LEMMA UserAuthOK ==
  ASSUME IInv, NEW c \in Conns, At(c, "auth"), tryUserAuth(c),
         UNCHANGED <<server, guarder, users, script>>
  PROVE  IInv'
<1> DEFINE s == sess[c]
           b == In(c)
           n == UserLen(b)
           t == [s EXCEPT !.read = @ + n]
<1>0. /\ s \in SessionState /\ Within(c, s) /\ Replied(s) /\ SessOK(c, s) /\ s.pc = "auth"
  BY DEF IInv, SessOK, At
<1>1. CASE Return(c, s)
  BY <1>0, <1>1, ReturnOK, BecomesOK DEF Return
<1>2. ASSUME Arrived(c, n)
      PROVE  SessOK(c, t) /\ t.pc = "auth"
  <2>1. b \in Seq(Byte) /\ Len(b) = s.sent - s.read /\ s.sent \in Nat /\ s.read \in Nat
    BY <1>0, InFacts DEF SessionState
  <2>2. n \in Nat /\ n <= Len(b)
    <3> HIDE DEF b
    <3>1. \A i \in 1 .. Len(b) : b[i] \in Nat
      BY <2>1, SeqBytes
    <3> QED
      BY <1>2, <2>1, <3>1 DEF UserLen, Arrived, b
  <2>3. s.read + n \in Nat /\ s.read + n <= s.sent
    <3> HIDE DEF b, n, s
    <3> QED
      BY <2>1, <2>2
  <2> HIDE DEF b, n
  <2>4. t \in SessionState
    BY <1>0, <2>3 DEF SessionState
  <2>5. /\ t.read = s.read + n /\ t.sent = s.sent /\ t.pc = "auth" /\ t.out = s.out
        /\ t.cmd = s.cmd
    BY <1>0 DEF SessionState
  <2> HIDE DEF t
  <2> QED
    BY <1>0, <2>3, <2>4, <2>5 DEF SessOK, Within, Replied
<1>3. CASE Arrived(c, n) /\ Reply(c, [t EXCEPT !.pc = "request"], "authorized")
  <2>1. SessOK(c, t) /\ t.pc = "auth" /\ "authorized" \in Good
    BY <1>2, <1>3 DEF Good
  <2> HIDE DEF t
  <2> QED
    BY <1>3, <2>1, AuthReplyOK
<1>4. CASE Arrived(c, n) /\ Unauthorized(c, t)
  <2>1. SessOK(c, t) /\ t.pc = "auth" /\ "unauthorized" \in AuthReply
    BY <1>2, <1>4 DEF AuthReply
  <2> HIDE DEF t
  <2> QED
    BY <1>4, <2>1, ResponseOK, ReplyOK DEF Unauthorized
<1> QED
  BY <1>1, <1>3, <1>4 DEF tryUserAuth

LEMMA AuthOK ==
  ASSUME IInv, NEW c \in Conns, tryAuth(c)
  PROVE  IInv'
<1> DEFINE s == sess[c]
<1>0. /\ s \in SessionState /\ Within(c, s) /\ Replied(s) /\ SessOK(c, s) /\ s.pc = "auth"
      /\ UNCHANGED <<server, guarder, users, script>>
  BY DEF IInv, SessOK, At, tryAuth
<1>1. CASE Reply(c, [s EXCEPT !.pc = "closed"], "noAcceptableAuth")
  BY <1>0, <1>1, ResponseOK, ReplyOK DEF AuthReply
<1>2. CASE Reply(c, [s EXCEPT !.pc = "request"], "noAuth")
  BY <1>0, <1>2, AuthReplyOK DEF Good
<1>3. CASE tryUserAuth(c)
  BY <1>0, <1>3, UserAuthOK DEF At
<1>4. CASE s.methods # <<>> /\ Becomes(c, [s EXCEPT !.methods = Tail(@)])
  <2> DEFINE t == [s EXCEPT !.methods = Tail(@)]
  <2>1. s.methods \in Seq(Byte)
    BY <1>0 DEF SessionState
  <2>2. Tail(s.methods) \in Seq(Byte)
    BY <1>4, <2>1
  <2>3. t \in SessionState
    BY <1>0, <2>2 DEF SessionState
  <2>4. /\ t.read = s.read /\ t.sent = s.sent /\ t.pc = s.pc /\ t.out = s.out
        /\ t.cmd = s.cmd
    BY <1>0 DEF SessionState
  <2>5. SessOK(c, t)
    <3> HIDE DEF t
    <3> QED
      BY <1>0, <2>3, <2>4 DEF SessOK, Within, Replied
  <2> QED
    BY <1>0, <1>4, <2>5, BecomesOK
<1> QED
  BY <1>1, <1>2, <1>3, <1>4 DEF tryAuth

(* An address that has arrived is read whole, and is one.                  *)
LEMMA AddrRead ==
  ASSUME NEW b \in Seq(Byte), b # <<>>, b[1] \in {IPv4Addr, DomainAddr, IPv6Addr},
         AddrLen(b) <= Len(b)
  PROVE  AddrLen(b) \in Nat /\ AddrLen(b) >= 4 /\ ReadFrom(b) \in AddrPort
<1>1. /\ Len(b) \in Nat /\ Len(b) # 0
      /\ \A i \in 1 .. Len(b) : b[i] \in Byte /\ b[i] \in Nat /\ b[i] <= 255
  BY SeqBytes
<1>1a. Len(b) >= 2 => b[2] \in Nat
  BY <1>1
<1>2. AddrLen(b) \in Nat /\ AddrLen(b) >= 4
  BY <1>1, <1>1a DEF AddrLen, IPv4Addr, DomainAddr, IPv6Addr
<1> DEFINE n == AddrLen(b)
<1> HIDE DEF n
<1>3. n \in Nat /\ n >= 4 /\ n <= Len(b)
  BY <1>2 DEF n
<1>4. /\ b[n - 1] \in Nat /\ b[n - 1] <= 255 /\ b[n] \in Nat /\ b[n] <= 255
      /\ b[1] \in Byte
  BY <1>1, <1>3
<1>5. b[n - 1] * 256 + b[n] \in 0 .. MaxPort
  <2> DEFINE x == b[n - 1]
             y == b[n]
  <2> HIDE DEF x, y
  <2>1. x \in Nat /\ x <= 255 /\ y \in Nat /\ y <= 255
    BY <1>4 DEF x, y
  <2>2. MaxPort \in Nat /\ x * 256 + y \in Nat /\ x * 256 + y <= MaxPort
    BY <2>1, SMT DEF MaxPort
  <2> QED
    BY <2>2, SMT DEF x, y
<1>6. SubSeq(b, 3, n - 2) \in Seq(Byte) /\ SubSeq(b, 2, n - 2) \in Seq(Byte)
  BY <1>3
<1>7. SubSeq(b, IF b[1] = DomainAddr THEN 3 ELSE 2, n - 2) \in Seq(Byte)
  BY <1>6
<1>8. ReadFrom(b) = [type |-> b[1],
                     data |-> SubSeq(b, IF b[1] = DomainAddr THEN 3 ELSE 2, n - 2),
                     port |-> b[n - 1] * 256 + b[n]]
  BY DEF ReadFrom, n
<1> QED
  BY <1>2, <1>4, <1>5, <1>7, <1>8, SMT DEF AddrPort

LEMMA RequestOK ==
  ASSUME IInv, NEW c \in Conns, readRequest(c)
  PROVE  IInv'
<1> DEFINE s == sess[c]
           b == In(c)
           a == SubSeq(b, 4, Len(b))
           n == 3 + AddrLen(a)
           t == [s EXCEPT !.pc = "command", !.read = @ + n, !.cmd = b[2], !.addr = ReadFrom(a)]
<1>0. /\ s \in SessionState /\ Within(c, s) /\ Replied(s) /\ SessOK(c, s) /\ s.pc = "request"
      /\ UNCHANGED <<server, guarder, users, script>>
  BY DEF IInv, SessOK, At, readRequest
<1>1. ASSUME NEW err, sendErrorResponse(c, s, err)
      PROVE  IInv'
  BY <1>0, <1>1, ErrorOK
<1>2. CASE /\ Arrived(c, 4) /\ a[1] \in {IPv4Addr, DomainAddr, IPv6Addr} /\ Arrived(c, n)
           /\ Becomes(c, t)
  <2>1. b \in Seq(Byte) /\ Len(b) = s.sent - s.read /\ s.sent \in Nat /\ s.read \in Nat
    BY <1>0, InFacts DEF SessionState
  <2>2. Len(b) >= 4 /\ Len(b) >= n
    BY <1>2 DEF Arrived
  <2>3. a \in Seq(Byte) /\ Len(a) = Len(b) - 3 /\ a # <<>> /\ b[2] \in Byte
    <3> HIDE DEF b
    <3>1. Len(b) \in Nat /\ Len(b) >= 4 /\ b[2] \in Byte
      BY <2>1, <2>2, SeqBytes
    <3>2. a \in Seq(Byte)
      BY <2>1, <3>1
    <3>3. Len(a) = Len(b) - 3
      BY <2>1, <3>1
    <3>4. a # <<>>
      <4>1. Len(a) >= 1
        BY <3>1, <3>3
      <4> HIDE DEF a
      <4> QED
        BY <3>2, <4>1, SMT
    <3> QED
      BY <3>1, <3>2, <3>3, <3>4
  <2> HIDE DEF a
  <2>4. AddrLen(a) \in Nat /\ ReadFrom(a) \in AddrPort
    <3>1. AddrLen(a) \in Nat
      <4>1. Len(a) \in Nat /\ (Len(a) >= 2 => a[2] \in Nat)
        BY <2>3, SeqBytes
      <4> QED
        BY <4>1 DEF AddrLen
    <3>2. AddrLen(a) <= Len(a)
      <4> DEFINE m == AddrLen(a)
      <4> HIDE DEF m
      <4>1. m \in Nat /\ Len(b) >= 3 + m /\ Len(b) \in Nat /\ Len(a) = Len(b) - 3
        BY <2>1, <2>2, <2>3, <3>1, SeqBytes DEF m
      <4>2. m <= Len(a)
        BY <4>1
      <4> QED
        BY <4>2 DEF m
    <3> QED
      BY <1>2, <2>3, <3>1, <3>2, AddrRead
  <2>5. n \in Nat /\ s.read + n \in Nat /\ s.read + n <= s.sent
    <3>1. n \in Nat
      BY <2>4
    <3> HIDE DEF n, s, b
    <3> QED
      BY <2>1, <2>2, <3>1
  <2> HIDE DEF b, n
  <2>6. t \in SessionState
    BY <1>0, <2>3, <2>4, <2>5 DEF SessionState
  <2>7. /\ t.read = s.read + n /\ t.sent = s.sent /\ t.pc = "command" /\ t.out = s.out
    BY <1>0 DEF SessionState
  <2> HIDE DEF t
  <2>8. Ordered(t.out, t.cmd)
    BY <1>0, <2>7 DEF Replied, Ordered
  <2>9. SessOK(c, t)
    BY <1>0, <2>5, <2>6, <2>7, <2>8 DEF SessOK, Within, Replied
  <2> QED
    BY <1>0, <1>2, <2>9, BecomesOK
<1> QED
  BY <1>1, <1>2 DEF readRequest

-----------------------------------------------------------------------------
(* The commands and the relay.                                             *)

(* A target is there and Granted is written: the relay begins.             *)
LEMMA RelayOK ==
  ASSUME IInv, NEW c \in Conns, NEW s, SessOK(c, s), s.pc \in {"command", "accept"},
         UNCHANGED <<server, guarder, users, script>>,
         \/ Becomes(c, [Relay(s) EXCEPT !.target = "open", !.out = Append(@, "Granted")])
         \/ Return(c, [s EXCEPT !.target = "open"])
  PROVE  IInv'
<1> DEFINE t == [Relay(s) EXCEPT !.target = "open", !.out = Append(@, "Granted")]
           u == [s EXCEPT !.target = "open"]
<1>0. s \in SessionState /\ Within(c, s) /\ Replied(s)
  BY DEF SessOK
<1>1. CASE Becomes(c, t)
  <2>1. s.out \in Seq(StatusCode \cup AuthReply) /\ "Granted" \in StatusCode
    BY <1>0 DEF SessionState, StatusCode
  <2>2. Append(s.out, "Granted") \in Seq(StatusCode \cup AuthReply)
    BY <2>1
  <2>3. t \in SessionState
    BY <1>0, <2>2 DEF SessionState, Relay
  <2>4. /\ t.pc = "relay" /\ t.read = s.read /\ t.sent = s.sent
        /\ t.out = Append(s.out, "Granted") /\ t.cmd = s.cmd /\ t.target = "open"
    BY <1>0 DEF SessionState, Relay
  <2> HIDE DEF t
  <2>5. Ordered(t.out, t.cmd)
    <3>1. CASE s.pc = "command"
      BY <1>0, <2>1, <2>4, <3>1 DEF Replied, Ordered, Good
    <3>2. CASE s.pc = "accept"
      <4>1. /\ Len(t.out) = 3 /\ t.out[1] \in Good /\ t.out[2] = "Granted"
            /\ t.out[3] = "Granted" /\ t.cmd = CmdBindTCP
        BY <1>0, <2>1, <2>4, <3>2 DEF Replied
      <4> QED
        BY <2>1, <4>1 DEF Ordered, Good, AuthReply
    <3> QED
      BY <3>1, <3>2
  <2>6. Replied(t)
    BY <1>0, <2>1, <2>4, <2>5 DEF Replied
  <2>7. SessOK(c, t)
    BY <1>0, <2>3, <2>4, <2>6 DEF SessOK, Within
  <2> QED
    BY <1>1, <2>7, BecomesOK
<1>2. CASE Return(c, u)
  <2>1. u \in SessionState
    BY <1>0 DEF SessionState
  <2>2. /\ u.pc = s.pc /\ u.read = s.read /\ u.sent = s.sent /\ u.out = s.out
        /\ u.cmd = s.cmd
    BY <1>0 DEF SessionState
  <2> HIDE DEF u
  <2>3. SessOK(c, u)
    BY <1>0, <2>1, <2>2 DEF SessOK, Within, Replied
  <2> QED
    BY <1>2, <2>3, ReturnOK, BecomesOK DEF Return
<1> QED
  BY <1>1, <1>2

LEMMA DialOK ==
  ASSUME IInv, NEW c \in Conns, DialTCP(c)
  PROVE  IInv'
<1> DEFINE s == sess[c]
           t == [s EXCEPT !.network = Network(s.addr)]
<1>0. /\ s \in SessionState /\ Within(c, s) /\ Replied(s) /\ s.pc = "command"
      /\ UNCHANGED <<server, guarder, users, script>>
  BY DEF IInv, SessOK, At, DialTCP
<1>1. Network(s.addr) \in {"none", "tcp", "tcp4", "tcp6"}
  BY DEF Network
<1>2. t \in SessionState
  BY <1>0, <1>1 DEF SessionState
<1>3. /\ t.pc = "command" /\ t.read = s.read /\ t.sent = s.sent /\ t.out = s.out
      /\ t.cmd = s.cmd
  BY <1>0 DEF SessionState
<1>4. SessOK(c, t)
  <2> HIDE DEF t
  <2> QED
    BY <1>0, <1>2, <1>3 DEF SessOK, Within, Replied
<1>5. \/ \E err \in HandlerErr : sendErrorResponse(c, t, err)
      \/ Becomes(c, [Relay(t) EXCEPT !.target = "open", !.out = Append(@, "Granted")])
      \/ Return(c, [t EXCEPT !.target = "open"])
  BY DEF DialTCP
<1> HIDE DEF t
<1> QED
  BY <1>0, <1>3, <1>4, <1>5, ErrorOK, RelayOK

LEMMA BindOK ==
  ASSUME IInv, NEW c \in Conns, BindTCP(c) \/ BindAccept(c) \/ Unsupported(c)
  PROVE  IInv'
<1> DEFINE s == sess[c]
<1>0. /\ s \in SessionState /\ Within(c, s) /\ Replied(s) /\ SessOK(c, s)
      /\ UNCHANGED <<server, guarder, users, script>>
  BY DEF IInv, SessOK, BindTCP, BindAccept, Unsupported
<1>1. CASE BindAccept(c)
  <2>1. s.pc = "accept"
    BY <1>1 DEF BindAccept, At
  <2> QED
    BY <1>0, <1>1, <2>1, ErrorOK, RelayOK DEF BindAccept
<1>2. CASE Unsupported(c)
  <2>1. s.pc = "command" /\ "CommandUnsupported" \in StatusCode
    BY <1>2 DEF Unsupported, At, StatusCode
  <2> QED
    BY <1>0, <1>2, <2>1, ResponseOK, ReplyOK DEF Unsupported
<1>3. CASE BindTCP(c) /\ sendErrorResponse(c, s, {"ErrUnsupportCommand"})
  <2>1. s.pc = "command"
    BY <1>3 DEF BindTCP, At
  <2> QED
    BY <1>0, <1>3, <2>1, ErrorOK
<1>4. CASE BindTCP(c) /\ Reply(c, [s EXCEPT !.pc = "accept"], "Granted")
  <2> DEFINE t == [s EXCEPT !.pc = "accept"]
             u == [t EXCEPT !.out = Append(@, "Granted")]
             v == [t EXCEPT !.pc = "closed"]
  <2>1. s.pc = "command" /\ s.cmd = CmdBindTCP
    BY <1>4 DEF BindTCP, At
  <2>2. t \in SessionState /\ v \in SessionState
    BY <1>0 DEF SessionState
  <2>3. /\ t.pc = "accept" /\ t.read = s.read /\ t.sent = s.sent /\ t.out = s.out
        /\ t.cmd = s.cmd
        /\ v.pc = "closed" /\ v.read = s.read /\ v.sent = s.sent /\ v.out = s.out
        /\ v.cmd = s.cmd
    BY <1>0 DEF SessionState
  <2>4. s.out \in Seq(StatusCode \cup AuthReply) /\ "Granted" \in StatusCode
    BY <1>0 DEF SessionState, StatusCode
  <2>5. Append(s.out, "Granted") \in Seq(StatusCode \cup AuthReply)
    BY <2>4
  <2>6. u \in SessionState
    <3> HIDE DEF t
    <3> QED
      BY <2>2, <2>3, <2>5 DEF SessionState
  <2>7. /\ u.pc = "accept" /\ u.read = s.read /\ u.sent = s.sent
        /\ u.out = Append(s.out, "Granted") /\ u.cmd = s.cmd
    <3> HIDE DEF t
    <3> QED
      BY <2>2, <2>3 DEF SessionState
  <2> HIDE DEF t, u, v
  <2>8. Ordered(u.out, u.cmd) /\ Replied(u)
    <3>1. Ordered(u.out, u.cmd)
      BY <1>0, <2>1, <2>4, <2>7 DEF Replied, Ordered, Good
    <3> QED
      BY <1>0, <2>1, <2>4, <2>7, <3>1 DEF Replied
  <2>9. SessOK(c, u)
    BY <1>0, <2>6, <2>7, <2>8 DEF SessOK, Within
  <2>10. SessOK(c, v)
    BY <1>0, <2>2, <2>3 DEF SessOK, Within, Replied
  <2> QED
    BY <1>0, <1>4, <2>9, <2>10, ReplyOK DEF t, u, v
<1> QED
  BY <1>1, <1>2, <1>3, <1>4 DEF BindTCP

(* The steps of the relay, of the client and of the target write no reply. *)
LEMMA QuietOK ==
  ASSUME IInv, NEW c \in Conns, NEW t \in SessionState, Becomes(c, t),
         UNCHANGED <<server, guarder, users, script>>,
         t.read <= t.sent, t.sent <= Len(Bytes(script[c])),
         t.out = sess[c].out, t.cmd = sess[c].cmd,
         \/ t.pc = sess[c].pc /\ (t.target = sess[c].target \/ t.target = "ended")
         \/ sess[c].pc = "new" /\ t.pc = "hello"
  PROVE  IInv'
<1>0. Replied(sess[c])
  BY DEF IInv, SessOK
<1>1. Replied(t)
  BY <1>0 DEF Replied
<1> QED
  BY <1>1, BecomesOK DEF SessOK, Within

LEMMA RelayStepOK ==
  ASSUME IInv, NEW c \in Conns,
         \/ CopyUp(c) \/ CopyUpEnds(c) \/ CopyDown(c) \/ CopyDownWrite(c)
         \/ CopyDownEnds(c) \/ TargetEnds(c) \/ Send(c) \/ Leave(c) \/ Accept(c)
  PROVE  IInv'
<1> DEFINE s == sess[c]
<1>0. /\ s \in SessionState /\ Within(c, s) /\ SessOK(c, s)
      /\ UNCHANGED <<server, guarder, users, script>>
      /\ s.read <= s.sent /\ s.sent <= Len(Bytes(script[c]))
      /\ Len(Bytes(script[c])) \in Nat
  <2>1. Len(Bytes(script[c])) \in Nat
    BY InFacts
  <2> QED
    BY <2>1 DEF IInv, SessOK, Within, CopyUp, CopyUpEnds, CopyDown, CopyDownWrite, CopyDownEnds,
                TargetEnds, Send, Leave, Accept
<1>1. s.read \in Nat /\ s.sent \in Nat /\ s.up \in Seq(Byte) /\ s.got \in 0 .. MaxDown
      /\ MaxDown \in Nat
  BY <1>0, ScriptAssumption DEF SessionState
<1>2. CASE CopyUp(c)
  <2> DEFINE x == In(c)[1]
             t == [s EXCEPT !.up = Append(@, x), !.read = @ + 1]
  <2>1. In(c) \in Seq(Byte) /\ Len(In(c)) = s.sent - s.read /\ Len(In(c)) >= 1
    BY <1>2, InFacts DEF CopyUp, Arrived
  <2>2. x \in Byte
    BY <2>1, SeqBytes
  <2>3. s.read + 1 \in Nat /\ s.read + 1 <= s.sent
    BY <1>1, <2>1
  <2>4. Becomes(c, t)
    BY <1>2 DEF CopyUp
  <2> HIDE DEF x
  <2>5. Append(s.up, x) \in Seq(Byte)
    BY <1>1, <2>2
  <2>6. t \in SessionState
    BY <1>0, <2>3, <2>5 DEF SessionState
  <2>7. /\ t.read = s.read + 1 /\ t.sent = s.sent /\ t.out = s.out /\ t.cmd = s.cmd
        /\ t.pc = s.pc /\ t.target = s.target
    BY <1>0 DEF SessionState
  <2> HIDE DEF t
  <2> QED
    BY <1>0, <2>3, <2>4, <2>6, <2>7, QuietOK
<1>3. CASE CopyDown(c)
  <2> DEFINE t == [s EXCEPT !.down = "write", !.got = @ + 1]
  <2>1. s.got + 1 \in 0 .. MaxDown
    BY <1>1, <1>3 DEF CopyDown
  <2>2. t \in SessionState
    BY <1>0, <2>1 DEF SessionState
  <2>3. /\ t.read = s.read /\ t.sent = s.sent /\ t.out = s.out /\ t.cmd = s.cmd
        /\ t.pc = s.pc /\ t.target = s.target /\ Becomes(c, t)
    BY <1>0, <1>3 DEF SessionState, CopyDown
  <2> HIDE DEF t
  <2> QED
    BY <1>0, <2>2, <2>3, QuietOK
<1>4. CASE Send(c)
  <2> DEFINE t == [s EXCEPT !.sent = @ + 1]
  <2>1. s.sent + 1 \in Nat /\ s.read <= s.sent + 1 /\ s.sent + 1 <= Len(Bytes(script[c]))
    BY <1>0, <1>1, <1>4 DEF Send
  <2>2. t \in SessionState
    BY <1>0, <2>1 DEF SessionState
  <2>3. /\ t.read = s.read /\ t.sent = s.sent + 1 /\ t.out = s.out /\ t.cmd = s.cmd
        /\ t.pc = s.pc /\ t.target = s.target /\ Becomes(c, t)
    BY <1>0, <1>4 DEF SessionState, Send
  <2> HIDE DEF t
  <2> QED
    BY <1>0, <2>1, <2>2, <2>3, QuietOK
<1>5. CASE CopyDownEnds(c)
  BY <1>0, <1>5, ReturnOK, BecomesOK DEF CopyDownEnds, Return
<1>6. ASSUME NEW t,
             \/ t = [s EXCEPT !.copier = "ended"]
             \/ t = [s EXCEPT !.down = "read"]
             \/ t = [s EXCEPT !.target = "ended"]
             \/ t = [s EXCEPT !.gone = TRUE]
             \/ s.pc = "new" /\ t = [s EXCEPT !.pc = "hello"],
             Becomes(c, t)
      PROVE  IInv'
  <2>1. t \in SessionState
    <3>1. CASE t = [s EXCEPT !.copier = "ended"]
      BY <1>0, <3>1 DEF SessionState
    <3>2. CASE t = [s EXCEPT !.down = "read"]
      BY <1>0, <3>2 DEF SessionState
    <3>3. CASE t = [s EXCEPT !.target = "ended"]
      BY <1>0, <3>3 DEF SessionState
    <3>4. CASE t = [s EXCEPT !.gone = TRUE]
      BY <1>0, <3>4 DEF SessionState
    <3>5. CASE t = [s EXCEPT !.pc = "hello"]
      BY <1>0, <3>5 DEF SessionState
    <3> QED
      BY <1>6, <3>1, <3>2, <3>3, <3>4, <3>5
  <2>2. /\ t.read = s.read /\ t.sent = s.sent /\ t.out = s.out /\ t.cmd = s.cmd
        /\ \/ t.pc = s.pc /\ (t.target = s.target \/ t.target = "ended")
           \/ s.pc = "new" /\ t.pc = "hello"
    BY <1>0, <1>6 DEF SessionState
  <2> QED
    BY <1>0, <1>6, <2>1, <2>2, QuietOK
<1> QED
  BY <1>2, <1>3, <1>4, <1>5, <1>6 DEF CopyUpEnds, CopyDownWrite, TargetEnds, Leave, Accept, At

-----------------------------------------------------------------------------
(* The server and the accounts.                                            *)
LEMMA ServerOK ==
  ASSUME IInv,
         \/ ListenAndServe \/ CloseListener \/ AcceptErr \/ AcceptFails \/ Shutdown
         \/ \E u \in Accounts : SetUser(u[1], u[2]) \/ DelUser(u[1])
  PROVE  IInv'
<1>0. /\ UNCHANGED <<guarder, script, sess>>
      /\ server \in [ctx : {"nil", "live", "done"}, listening : BOOLEAN,
                     serve : {"no", "run", "returned", "panic"}]
      /\ users \subseteq Accounts
  BY DEF ListenAndServe, CloseListener, AcceptErr, AcceptFails, Shutdown, SetUser, DelUser,
         IInv, TypeOK
<1>1. /\ server' \in [ctx : {"nil", "live", "done"}, listening : BOOLEAN,
                      serve : {"no", "run", "returned", "panic"}]
      /\ users' \subseteq Accounts
  <2>1. CASE ListenAndServe \/ CloseListener \/ AcceptErr \/ AcceptFails \/ Shutdown
    <3>1. UNCHANGED users
      BY <2>1 DEF ListenAndServe, CloseListener, AcceptErr, AcceptFails, Shutdown
    <3>2. CASE server' = [ctx |-> "live", listening |-> TRUE, serve |-> "run"]
      BY <1>0, <3>1, <3>2
    <3>3. CASE server' = [server EXCEPT !.listening = FALSE]
      BY <1>0, <3>1, <3>3
    <3>4. CASE server' = [server EXCEPT !.serve = "returned"]
      BY <1>0, <3>1, <3>4
    <3>5. CASE server' = [server EXCEPT !.serve = "panic"]
      BY <1>0, <3>1, <3>5
    <3>6. CASE server' = [server EXCEPT !.ctx = "done"]
      BY <1>0, <3>1, <3>6
    <3> QED
      BY <2>1, <3>2, <3>3, <3>4, <3>5, <3>6
         DEF ListenAndServe, CloseListener, AcceptErr, AcceptFails, Shutdown
  <2>2. ASSUME NEW u \in Accounts, SetUser(u[1], u[2]) \/ DelUser(u[1])
        PROVE  users' \subseteq Accounts /\ UNCHANGED server
    <3>1. u = <<u[1], u[2]>>
      BY ScriptAssumption
    <3> QED
      BY <1>0, <2>2, <3>1 DEF SetUser, DelUser
  <2> QED
    BY <1>0, <2>1, <2>2
<1>2. \A c \in Conns : SessOK(c, sess[c])'
  BY <1>0 DEF IInv, SessOK, Within
<1> QED
  BY <1>0, <1>1, <1>2 DEF IInv, TypeOK

-----------------------------------------------------------------------------
LEMMA IInvInit == Init => IInv
<1> SUFFICES ASSUME Init PROVE IInv
  OBVIOUS
<1>1. MaxDown \in Nat /\ \A c \in Conns : Bytes(script[c]) \in Seq(Byte)
  BY ScriptAssumption DEF Init
<1>2. 0 \in 0 .. MaxDown /\ 0 \in Byte /\ NoAddr \in AddrPort
  <2>1. 0 \in Byte /\ MaxPort \in Nat
    BY SMT DEF Byte, MaxPort
  <2>2. 0 \in 0 .. MaxPort
    BY <2>1, SMT
  <2> QED
    BY <1>1, <2>1, <2>2, SMT DEF NoAddr, AddrPort
<1>3. \A c \in Conns : sess[c] \in SessionState
  BY <1>2 DEF Init, SessionState
<1>4. sess \in [Conns -> SessionState]
  BY <1>2 DEF Init, SessionState
<1>5. \A c \in Conns : /\ sess[c].pc = "new" /\ sess[c].out = <<>>
                       /\ sess[c].read = 0 /\ sess[c].sent = 0
  BY DEF Init
<1>6. \A c \in Conns : Replied(sess[c])
  BY <1>5 DEF Replied, Ordered
<1>7. \A c \in Conns : Within(c, sess[c])
  BY <1>1, <1>5 DEF Within
<1>8. TypeOK
  <2>1. /\ server \in [ctx : {"nil", "live", "done"}, listening : BOOLEAN,
                      serve : {"no", "run", "returned", "panic"}]
        /\ guarder \in BOOLEAN /\ users \subseteq Accounts /\ script \in [Conns -> Scripts]
    BY DEF Init
  <2>2. \A c \in Conns : sess[c].read <= sess[c].sent
    BY <1>5
  <2> QED
    BY <1>4, <2>1, <2>2 DEF TypeOK
<1> QED
  BY <1>3, <1>6, <1>7, <1>8 DEF IInv, SessOK

LEMMA IInvStep == IInv /\ [Next]_vars => IInv'
<1> SUFFICES ASSUME IInv, [Next]_vars PROVE IInv'
  OBVIOUS
<1>1. ASSUME NEW c \in Conns, Handle(c) \/ CopyUpEnds(c) \/ Peers(c) \/ Client(c) \/ Accept(c)
      PROVE  IInv'
  BY <1>1, HandShakeOK, AuthOK, RequestOK, DialOK, BindOK, RelayStepOK
  DEF Handle, Peers, Client
<1>2. CASE UNCHANGED vars
  BY <1>2 DEF vars, IInv, TypeOK, SessOK, Within
<1> QED
  BY <1>1, <1>2, ServerOK DEF Next, Serve

(* The inductive invariant holds of every behaviour of the server: each    *)
(* session is where the replies it has sent and the bytes it has read say. *)
THEOREM Invariance == Spec => []IInv
<1> QED
  BY IInvInit, IInvStep, PTL DEF Spec

(* For any clients: the server and its connections have the types of       *)
(* TypeOK; ReadFull, readByte and AddrPort.ReadFrom (conn.go, addr.go)     *)
(* take no byte that the client has not sent, and make a valid address.    *)
THEOREM SocksTypes == Spec => []TypeOK
<1>1. IInv => TypeOK
  BY DEF IInv
<1> QED
  BY <1>1, Invariance, PTL

(* For any clients: the replies of Handle (server.go) come in the order of *)
(* the protocol, and a relay has a target.                                 *)
THEOREM RepliesOrdered == Spec => []RepliesInOrder
<1>1. IInv => RepliesInOrder
  <2> SUFFICES ASSUME IInv, NEW c \in Conns
               PROVE  /\ Ordered(sess[c].out, sess[c].cmd)
                      /\ sess[c].out # <<>>
                          /\ Last(sess[c].out) \notin {"noAuth", "authorized", "Granted"}
                           => At(c, "closed")
                      /\ At(c, "relay") => sess[c].target # "none" /\ Last(sess[c].out) = "Granted"
    BY DEF RepliesInOrder, Ordered, Good
  <2>1. sess[c] \in SessionState /\ Replied(sess[c])
    BY DEF IInv, SessOK
  <2>2. sess[c].out \in Seq(StatusCode \cup AuthReply)
        /\ sess[c].pc \in {"new", "hello", "auth", "request", "command", "accept", "relay", "closed"}
    BY <2>1 DEF SessionState
  <2> QED
    BY <2>1, <2>2 DEF Replied, Last, At, Good
<1> QED
  BY <1>1, Invariance, PTL

-----------------------------------------------------------------------------
(* Where the bytes of a client are.                                        *)

(* What precedes the request, the request, and so all but the data.        *)
Opening(s) == <<s.hello, Len(s.methods)>> \o s.methods
Record(u) == <<1, Len(u[1])>> \o u[1] \o <<Len(u[2])>> \o u[2]
Records(s) == FlattenSeq([i \in DOMAIN s.cred |-> Record(s.cred[i])])
Before(s) == Opening(s) \o Records(s)
Asked(s) == Before(s) \o <<s.ver, s.cmd, 0>> \o MarshalBinary(s.addr)

(* A client says what it means: lengths fit into their byte, an address    *)
(* has the length of its type, the client sends one record of RFC 1929 at  *)
(* most, and a request that follows no record does not begin like one.     *)
Fits(a) ==
  /\ a.type = IPv4Addr => Len(a.data) = 4
  /\ a.type = IPv6Addr => Len(a.data) = 16
  /\ a.type = DomainAddr => Len(a.data) < 256
MeansIt(s) ==
  /\ s.methods \in Seq(Byte) /\ Len(s.methods) < 256
  /\ s.cred \in Seq(Seq(Byte) \X Seq(Byte)) /\ Len(s.cred) <= 1
  /\ \A i \in DOMAIN s.cred : Len(s.cred[i][1]) < 256 /\ Len(s.cred[i][2]) < 256
  /\ s.cred = <<>> => s.ver # 1
  /\ s.hello \in Byte /\ s.ver \in Byte /\ s.cmd \in Byte
  /\ s.addr \in AddrPort /\ Fits(s.addr)
  /\ s.data \in Seq(Byte)

Known(a) == a.type \in {IPv4Addr, DomainAddr, IPv6Addr}

(* How far Handle has read, and what it has made of it: t is a session of  *)
(* a client that sends s.  A reader of the request that stands before the  *)
(* record will not take it for a request.                                  *)
Placed(s, t) ==
  /\ t.pc \in {"new", "hello"} => t.read = 0
  /\ t.pc = "auth" => t.read = Len(Opening(s))
  /\ t.pc = "request" =>
       t.read = Len(Before(s)) \/ (t.read = Len(Opening(s)) /\ s.cred # <<>>)
  /\ t.pc \in {"command", "accept"} => t.read = Len(Asked(s)) /\ t.addr = s.addr /\ Known(s.addr)
  /\ t.pc \notin {"relay", "closed"} => t.up = <<>> /\ t.network = "none"
  /\ t.pc = "relay" => t.read = Len(Asked(s)) + Len(t.up)
  /\ t.network # "none" => t.addr = s.addr /\ t.network = Network(s.addr) /\ Known(s.addr)
  /\ Len(t.up) <= Len(s.data) /\ \A i \in 1 .. Len(t.up) : t.up[i] = s.data[i]

AllPlaced == \A c \in Conns : Placed(script[c], sess[c])


-----------------------------------------------------------------------------
(* The layout of these bytes.                                              *)
IsConcat(w, s, t) ==
  /\ Len(w) = Len(s) + Len(t)
  /\ \A i \in 1 .. Len(s) : w[i] = s[i]
  /\ \A i \in 1 .. Len(t) : w[Len(s) + i] = t[i]

LEMMA Concat ==
  ASSUME NEW T, NEW s \in Seq(T), NEW t \in Seq(T)
  PROVE  IsConcat(s \o t, s, t) /\ s \o t \in Seq(T) /\ Len(s) \in Nat /\ Len(t) \in Nat
BY DEF IsConcat

LEMMA SeqElement ==
  ASSUME NEW T, NEW s \in Seq(T)
  PROVE  Len(s) \in Nat /\ DOMAIN s = 1 .. Len(s) /\ \A i \in 1 .. Len(s) : s[i] \in T
OBVIOUS

LEMMA Tuples ==
  ASSUME NEW T, NEW x \in T, NEW y \in T, NEW z \in T
  PROVE  /\ <<x>> \in Seq(T) /\ Len(<<x>>) = 1 /\ <<x>>[1] = x
         /\ <<x, y>> \in Seq(T) /\ Len(<<x, y>>) = 2 /\ <<x, y>>[1] = x /\ <<x, y>>[2] = y
         /\ <<x, y, z>> \in Seq(T) /\ Len(<<x, y, z>>) = 3 /\ <<x, y, z>>[1] = x
         /\ <<x, y, z>>[2] = y /\ <<x, y, z>>[3] = z
OBVIOUS

LEMMA ByteIs ==
  /\ \A n : n \in Byte <=> n \in Nat /\ n < 256
  /\ 0 \in Byte /\ 1 \in Byte
BY SMT DEF Byte

(* A name and a password, each after its length.                           *)
LEMMA RecordLayout ==
  ASSUME NEW u \in Seq(Byte) \X Seq(Byte), Len(u[1]) < 256, Len(u[2]) < 256
  PROVE  /\ Record(u) \in Seq(Byte) /\ Len(u[1]) \in Nat /\ Len(u[2]) \in Nat
         /\ Len(Record(u)) = 3 + Len(u[1]) + Len(u[2])
         /\ Record(u)[1] = 1 /\ Record(u)[2] = Len(u[1])
         /\ Record(u)[3 + Len(u[1])] = Len(u[2])
<1> DEFINE n == u[1]
           p == u[2]
           l == Len(n)
           m == Len(p)
           x == <<1, l>>
           y == <<m>>
<1>1. n \in Seq(Byte) /\ p \in Seq(Byte) /\ l \in Nat /\ m \in Nat
  OBVIOUS
<1>2. l \in Byte /\ m \in Byte /\ 1 \in Byte
  BY <1>1, ByteIs
<1>3. /\ x \in Seq(Byte) /\ Len(x) = 2 /\ x[1] = 1 /\ x[2] = l
      /\ y \in Seq(Byte) /\ Len(y) = 1 /\ y[1] = m
  <2> HIDE DEF l, m
  <2> QED
    BY <1>2, Tuples
<1> DEFINE v == x \o n
           w == v \o y
           r == w \o p
<1> HIDE DEF n, p, x, y
<1>4. IsConcat(v, x, n) /\ v \in Seq(Byte)
  BY <1>1, <1>3, Concat
<1> HIDE DEF v
<1>5. IsConcat(w, v, y) /\ w \in Seq(Byte)
  BY <1>3, <1>4, Concat
<1> HIDE DEF w
<1>6. IsConcat(r, w, p) /\ r \in Seq(Byte)
  BY <1>1, <1>5, Concat
<1>7. r = Record(u)
  BY DEF r, w, v, x, y, l, m, n, p, Record
<1> HIDE DEF r, l, m
<1>8. Len(v) = 2 + l /\ Len(w) = 3 + l /\ Len(r) = 3 + l + m
  BY <1>1, <1>3, <1>4, <1>5, <1>6 DEF IsConcat, l, m
<1>9. r[1] = 1 /\ r[2] = l
  <2>1. v[1] = 1 /\ v[2] = l
    BY <1>3, <1>4 DEF IsConcat
  <2>2. w[1] = 1 /\ w[2] = l
    BY <1>1, <1>5, <1>8, <2>1 DEF IsConcat
  <2> QED
    BY <1>1, <1>6, <1>8, <2>2 DEF IsConcat
<1>10. r[3 + l] = m
  <2>1. w[3 + l] = m
    <3>1. w[Len(v) + 1] = m
      BY <1>3, <1>5 DEF IsConcat
    <3>2. Len(v) + 1 = 3 + l
      BY <1>1, <1>8
    <3> QED
      BY <3>1, <3>2
  <2> QED
    BY <1>1, <1>6, <1>8, <2>1 DEF IsConcat
<1> QED
  BY <1>1, <1>6, <1>7, <1>8, <1>9, <1>10 DEF l, m, n, p

(* There is one record or none.                                            *)
LEMMA RecordsMean ==
  ASSUME NEW s, s.cred \in Seq(Seq(Byte) \X Seq(Byte)), Len(s.cred) <= 1
  PROVE  \/ s.cred = <<>> /\ Records(s) = <<>>
         \/ /\ s.cred # <<>> /\ Records(s) = Record(s.cred[1])
            /\ s.cred[1] \in Seq(Byte) \X Seq(Byte) /\ 1 \in DOMAIN s.cred
<1> DEFINE c == s.cred
           T == Seq(Byte) \X Seq(Byte)
           q == [i \in DOMAIN c |-> Record(c[i])]
<1>1. c \in Seq(T) /\ Len(c) \in {0, 1} /\ DOMAIN c = 1 .. Len(c)
  <2> HIDE DEF T
  <2>1. c \in Seq(T) /\ Len(c) <= 1
    BY DEF T
  <2> HIDE DEF c
  <2>2. Len(c) \in Nat /\ DOMAIN c = 1 .. Len(c)
    BY <2>1, SeqElement
  <2>3. Len(c) = 0 \/ Len(c) = 1
    BY <2>1, <2>2
  <2> QED
    BY <2>1, <2>2, <2>3
<1>2. CASE Len(c) = 0
  <2>1. c = <<>> /\ q = <<>>
    <3> HIDE DEF T
    <3> QED
      BY <1>1, <1>2
  <2>2. FlattenSeq(<<>>) = <<>>
    BY DEF FlattenSeq
  <2> QED
    BY <2>1, <2>2 DEF Records
<1>3. CASE Len(c) = 1
  <2>1. c # <<>> /\ c[1] \in T /\ 1 \in DOMAIN c
    <3> HIDE DEF T
    <3> QED
      BY <1>1, <1>3
  <2> DEFINE r == Record(c[1])
  <2>2. q = <<r>>
    BY <1>1, <1>3
  <2> HIDE DEF r
  <2>3. FlattenSeq(<<r>>) = r
    <3> DEFINE Loop(h) == h = [i \in 1 .. 1 |-> IF i = 1 THEN <<r>>[i]
                                                ELSE h[i - 1] \o <<r>>[i]]
               flatten == CHOOSE h : Loop(h)
    <3>1. Loop(<<r>>)
      OBVIOUS
    <3>2. Loop(flatten)
      <4> HIDE DEF Loop
      <4> QED
        BY <3>1
    <3>3. Len(<<r>>) = 1 /\ FlattenSeq(<<r>>) = flatten[1]
      BY DEF FlattenSeq
    <3> HIDE DEF flatten
    <3>4. flatten[1] = <<r>>[1]
      BY <3>2
    <3> QED
      BY <3>3, <3>4
  <2> QED
    BY <2>1, <2>2, <2>3 DEF Records, r
<1> QED
  BY <1>1, <1>2, <1>3

-----------------------------------------------------------------------------
(* The address of a request.                                               *)
DataAt(a) == IF a.type = DomainAddr THEN 3 ELSE 2
Size(a) == DataAt(a) + 1 + Len(a.data)

LEMMA AddrLayout ==
  ASSUME NEW a \in AddrPort, Fits(a)
  PROVE  LET m == MarshalBinary(a) IN
         /\ Len(a.data) \in Nat /\ Len(m) = Size(a) /\ a.type \in Byte /\ a.port \in 0 .. MaxPort
         /\ a.data \in Seq(Byte)
         /\ a = [type |-> a.type, data |-> a.data, port |-> a.port]
         /\ m[1] = a.type /\ (a.type = DomainAddr => m[2] = Len(a.data))
         /\ \A i \in 1 .. Len(a.data) : m[DataAt(a) - 1 + i] = a.data[i]
         /\ m[Size(a) - 1] = a.port \div 256 /\ m[Size(a)] = a.port % 256
         /\ m \in Seq(Nat)
<1> DEFINE d == a.data
           k == a.type
           x == <<k>>
           y == IF k = DomainAddr THEN <<Len(d)>> ELSE <<>>
           z == <<a.port \div 256, a.port % 256>>
           v == x \o y
           w == v \o d
           m == w \o z
<1>1. /\ d \in Seq(Byte) /\ k \in Byte /\ a.port \in 0 .. MaxPort
      /\ a = [type |-> k, data |-> d, port |-> a.port]
  BY DEF AddrPort
<1>2. Len(d) \in Nat /\ k \in Nat /\ a.port \in Nat /\ \A i \in 1 .. Len(d) : d[i] \in Nat
  <2>0. \A p \in 0 .. MaxPort : p \in Nat
    BY SMT DEF MaxPort
  <2>1. a.port \in Nat
    BY <1>1, <2>0
  <2> QED
    BY <1>1, <2>1, ByteIs, SeqBytes
<1>2a. d \in Seq(Nat) /\ a.port \div 256 \in Nat /\ a.port % 256 \in Nat
  <2>1. a.port \div 256 \in Nat /\ a.port % 256 \in Nat
    BY <1>2
  <2>2. Byte \subseteq Nat
    BY ByteIs
  <2>3. \A S, T : S \subseteq T => \A q \in Seq(S) : q \in Seq(T)
    OBVIOUS
  <2> QED
    BY <1>1, <2>1, <2>2, <2>3
<1>3. /\ x \in Seq(Nat) /\ Len(x) = 1 /\ x[1] = k
      /\ z \in Seq(Nat) /\ Len(z) = 2 /\ z[1] = a.port \div 256 /\ z[2] = a.port % 256
  <2> DEFINE h == a.port \div 256
             l == a.port % 256
  <2>1. h \in Nat /\ l \in Nat
    BY <1>2a
  <2> HIDE DEF h, l, k
  <2> QED
    BY <1>2, <2>1, Tuples
<1>4. y \in Seq(Nat) /\ Len(y) = DataAt(a) - 2 /\ (k = DomainAddr => y[1] = Len(d))
  <2>1. <<Len(d)>> \in Seq(Nat) /\ Len(<<Len(d)>>) = 1 /\ <<Len(d)>>[1] = Len(d)
    BY <1>2
  <2>2. <<>> \in Seq(Nat) /\ Len(<<>>) = 0
    OBVIOUS
  <2> QED
    BY <2>1, <2>2 DEF DataAt
<1> HIDE DEF d, x, y, z
<1>5. IsConcat(v, x, y) /\ v \in Seq(Nat)
  BY <1>3, <1>4, Concat
<1> HIDE DEF v
<1>6. IsConcat(w, v, d) /\ w \in Seq(Nat)
  BY <1>2a, <1>5, Concat
<1> HIDE DEF w
<1>7. IsConcat(m, w, z) /\ m \in Seq(Nat)
  BY <1>3, <1>6, Concat
<1>8. m = MarshalBinary(a)
  BY DEF m, w, v, x, y, z, d, MarshalBinary
<1> HIDE DEF m
<1>8a. DataAt(a) \in {2, 3} /\ (k = DomainAddr => DataAt(a) = 3)
  BY DEF DataAt
<1>9. Len(v) = DataAt(a) - 1 /\ Len(w) = DataAt(a) - 1 + Len(d) /\ Len(m) = Size(a)
      /\ Size(a) = DataAt(a) + 1 + Len(d)
  <2>1. Len(v) = DataAt(a) - 1
    BY <1>3, <1>4, <1>5, <1>8a DEF IsConcat
  <2>2. Len(w) = DataAt(a) - 1 + Len(d)
    BY <1>2, <1>6, <2>1 DEF IsConcat
  <2>3. Size(a) = DataAt(a) + 1 + Len(d)
    BY DEF Size, d
  <2> QED
    BY <1>2, <1>3, <1>7, <1>8a, <2>1, <2>2, <2>3 DEF IsConcat
<1>10. m[1] = k /\ (k = DomainAddr => m[2] = Len(d))
  <2>1. v[1] = k /\ (k = DomainAddr => v[2] = Len(d))
    BY <1>3, <1>4, <1>5, <1>8a DEF IsConcat
  <2>2. w[1] = k /\ (k = DomainAddr => w[2] = Len(d))
    BY <1>2, <1>6, <1>8a, <1>9, <2>1 DEF IsConcat
  <2> QED
    BY <1>2, <1>7, <1>8a, <1>9, <2>2 DEF IsConcat
<1>11. \A i \in 1 .. Len(d) : m[DataAt(a) - 1 + i] = d[i]
  <2> SUFFICES ASSUME NEW i \in 1 .. Len(d) PROVE m[DataAt(a) - 1 + i] = d[i]
    OBVIOUS
  <2> DEFINE j == DataAt(a) - 1 + i
  <2>1. j = Len(v) + i /\ j \in 1 .. Len(w)
    BY <1>2, <1>8a, <1>9
  <2> HIDE DEF j
  <2>2. w[j] = d[i]
    BY <1>6, <2>1 DEF IsConcat
  <2>3. m[j] = d[i]
    BY <1>7, <2>1, <2>2 DEF IsConcat
  <2> QED
    BY <2>3 DEF j
<1>12. m[Size(a) - 1] = a.port \div 256 /\ m[Size(a)] = a.port % 256
  <2>1. m[Len(w) + 1] = z[1] /\ m[Len(w) + 2] = z[2]
    BY <1>3, <1>7 DEF IsConcat
  <2>2. Len(w) + 1 = Size(a) - 1 /\ Len(w) + 2 = Size(a)
    BY <1>2, <1>8a, <1>9
  <2> QED
    BY <1>3, <2>1, <2>2
<1> QED
  BY <1>1, <1>2, <1>7, <1>8, <1>9, <1>10, <1>11, <1>12 DEF d

(* A sequence that agrees with s as far as both go.                        *)
Agrees(b, s) == \A i \in 1 .. Len(b) : i <= Len(s) => b[i] = s[i]

(* AddrPort.ReadFrom reads the address that MarshalBinary wrote, whatever  *)
(* follows it and however little of that has arrived.                      *)
LEMMA AddrReadsBack ==
  ASSUME NEW b \in Seq(Byte), b # <<>>, NEW a \in AddrPort, Fits(a),
         Agrees(b, MarshalBinary(a)),
         b[1] \in {IPv4Addr, DomainAddr, IPv6Addr}, AddrLen(b) <= Len(b)
  PROVE  AddrLen(b) = Size(a) /\ ReadFrom(b) = a /\ Known(a)
<1> DEFINE m == MarshalBinary(a)
           n == Size(a)
           d == a.data
<1>1. /\ Len(d) \in Nat /\ Len(m) = n /\ m[1] = a.type /\ d \in Seq(Byte)
      /\ (a.type = DomainAddr => m[2] = Len(d))
      /\ \A i \in 1 .. Len(d) : m[DataAt(a) - 1 + i] = d[i]
      /\ m[n - 1] = a.port \div 256 /\ m[n] = a.port % 256
      /\ a = [type |-> a.type, data |-> d, port |-> a.port] /\ a.port \in 0 .. MaxPort
      /\ a.type \in Byte
  BY AddrLayout
<1>1a. n = DataAt(a) + 1 + Len(d) /\ DataAt(a) \in {2, 3}
  BY DEF Size, DataAt
<1> HIDE DEF m, n
<1>2. Len(b) \in Nat /\ Len(b) # 0 /\ \A i \in 1 .. Len(b) : b[i] \in Byte /\ b[i] \in Nat
  BY SeqBytes
<1>3. \A i \in 1 .. Len(b) : i <= n => b[i] = m[i]
  BY <1>1 DEF Agrees, m
<1>4. b[1] = a.type
  <2>1. 1 \in 1 .. Len(b) /\ 1 <= n
    BY <1>1, <1>1a, <1>2
  <2> QED
    BY <1>1, <1>3, <2>1
<1>5. AddrLen(b) = n
  <2>1. CASE a.type = IPv4Addr
    <3>1. Len(d) = 4 /\ DataAt(a) = 2
      BY <2>1 DEF DataAt, Fits, IPv4Addr, DomainAddr
    <3>2. n = 7
      BY <1>1a, <3>1
    <3> QED
      BY <1>4, <2>1, <3>2 DEF AddrLen
  <2>2. CASE a.type = IPv6Addr
    <3>1. Len(d) = 16 /\ DataAt(a) = 2
      BY <2>2 DEF DataAt, Fits, IPv6Addr, DomainAddr
    <3>2. n = 19
      BY <1>1a, <3>1
    <3> QED
      BY <1>4, <2>2, <3>2 DEF AddrLen, IPv4Addr, IPv6Addr
  <2>3. CASE a.type = DomainAddr
    <3>1. Len(b) >= 2
      BY <1>2, <1>4, <2>3 DEF AddrLen, IPv4Addr, IPv6Addr, DomainAddr
    <3>2. b[2] = Len(d) /\ n = 4 + Len(d)
      <4>1. 2 \in 1 .. Len(b) /\ 2 <= n
        BY <1>1, <1>1a, <1>2, <3>1
      <4> QED
        BY <1>1, <1>1a, <1>3, <2>3, <4>1 DEF DataAt
    <3> QED
      BY <1>2, <1>4, <2>3, <3>1, <3>2 DEF AddrLen, IPv4Addr, IPv6Addr, DomainAddr
  <2> QED
    BY <1>4, <2>1, <2>2, <2>3
<1>6. n \in Nat /\ n >= 3 /\ n <= Len(b)
  BY <1>1, <1>1a, <1>5
<1>7. SubSeq(b, DataAt(a), n - 2) = d
  <2> DEFINE q == SubSeq(b, DataAt(a), n - 2)
             o == DataAt(a)
  <2> HIDE DEF o
  <2>1. o \in {2, 3} /\ n - 2 = o - 1 + Len(d) /\ n - 2 <= Len(b) /\ n - 2 \in Nat
    BY <1>1, <1>1a, <1>6 DEF o
  <2>2. \A i, j \in Nat : i >= 1 /\ i <= j + 1 /\ j <= Len(b) =>
          /\ SubSeq(b, i, j) \in Seq(Byte) /\ Len(SubSeq(b, i, j)) = j - i + 1
          /\ \A l \in 1 .. j - i + 1 : SubSeq(b, i, j)[l] = b[i + l - 1]
    OBVIOUS
  <2>3. q \in Seq(Byte) /\ Len(q) = n - 2 - o + 1 /\ \A l \in 1 .. n - 2 - o + 1 : q[l] = b[o + l - 1]
    <3>1. o \in Nat /\ o >= 1 /\ o <= n - 2 + 1
      BY <1>1, <2>1
    <3> QED
      BY <2>1, <2>2, <3>1 DEF o
  <2> HIDE DEF q
  <2>3a. Len(d) \in Nat /\ d \in Seq(Byte)
    BY <1>1
  <2> HIDE DEF d
  <2>4. Len(q) = Len(d) /\ n - 2 - o + 1 = Len(d)
    BY <2>1, <2>3, <2>3a
  <2>5. \A l \in 1 .. Len(d) : q[l] = d[l]
    <3> SUFFICES ASSUME NEW l \in 1 .. Len(d) PROVE q[l] = d[l]
      OBVIOUS
    <3>1. o + l - 1 = o - 1 + l /\ o - 1 + l \in 1 .. Len(b) /\ o - 1 + l <= n
      BY <1>2, <1>6, <2>1, <2>3a
    <3>2. q[l] = b[o - 1 + l]
      BY <2>3, <2>4, <3>1
    <3>3. b[o - 1 + l] = m[o - 1 + l]
      BY <1>3, <3>1
    <3> QED
      BY <1>1, <3>2, <3>3 DEF o, d
  <2>6. q = d
    BY <2>3, <2>3a, <2>4, <2>5
  <2> QED
    BY <2>6 DEF q
<1>8. b[n - 1] * 256 + b[n] = a.port
  <2>1. n - 1 \in 1 .. Len(b) /\ n \in 1 .. Len(b) /\ n - 1 <= n /\ n <= n
    BY <1>2, <1>6
  <2>2. b[n - 1] = a.port \div 256 /\ b[n] = a.port % 256
    BY <1>1, <1>3, <2>1
  <2>3. \A p \in Nat : (p \div 256) * 256 + (p % 256) = p
    BY SMT
  <2>3a. \A p \in 0 .. MaxPort : p \in Nat
    BY SMT DEF MaxPort
  <2>4. a.port \in Nat
    BY <1>1, <2>3a
  <2> QED
    BY <2>2, <2>3, <2>4
<1>9. ReadFrom(b) = [type |-> b[1], data |-> SubSeq(b, DataAt(a), n - 2),
                     port |-> b[n - 1] * 256 + b[n]]
  BY <1>4, <1>5 DEF ReadFrom, DataAt
<1>10. ReadFrom(b) = a
  BY <1>1, <1>4, <1>7, <1>8, <1>9 DEF d
<1> QED
  BY <1>4, <1>5, <1>10 DEF n, Known

-----------------------------------------------------------------------------
(* All that a client sends.                                                *)
Layout(b, s) ==
  LET o == Len(Opening(s))
      q == Len(Before(s))
      e == Len(Asked(s))
      u == s.cred[1]
      m == MarshalBinary(s.addr) IN
  /\ o \in Nat /\ q \in Nat /\ e \in Nat /\ o = 2 + Len(s.methods) /\ o <= q
  /\ e = q + 3 + Size(s.addr) /\ Len(b) = e + Len(s.data)
  /\ Len(s.data) \in Nat /\ Size(s.addr) \in Nat /\ Size(s.addr) >= 3
  /\ b[2] = Len(s.methods)
  /\ s.cred = <<>> => q = o /\ b[o + 1] # 1
  /\ s.cred # <<>> =>
       /\ q = o + 3 + Len(u[1]) + Len(u[2]) /\ Len(u[1]) \in Nat /\ Len(u[2]) \in Nat
       /\ b[o + 1] = 1 /\ b[o + 2] = Len(u[1]) /\ b[o + 3 + Len(u[1])] = Len(u[2])
  /\ \A i \in 1 .. Size(s.addr) : b[q + 3 + i] = m[i]
  /\ \A i \in 1 .. Len(s.data) : b[e + i] = s.data[i]

(* What precedes the request: the methods, and the record if there is one. *)
LEMMA BeforeLayout ==
  ASSUME NEW s, MeansIt(s)
  PROVE  LET o == Len(Opening(s))
             r == Records(s)
             p == Before(s)
             u == s.cred[1] IN
         /\ p \in Seq(Nat) /\ o \in Nat /\ o = 2 + Len(s.methods) /\ Len(p) \in Nat
         /\ Len(s.methods) \in Nat
         /\ p[2] = Len(s.methods) /\ o <= Len(p)
         /\ s.cred = <<>> => Len(p) = o
         /\ s.cred # <<>> =>
              /\ Len(p) = o + 3 + Len(u[1]) + Len(u[2]) /\ Len(u[1]) \in Nat /\ Len(u[2]) \in Nat
              /\ p[o + 1] = 1 /\ p[o + 2] = Len(u[1]) /\ p[o + 3 + Len(u[1])] = Len(u[2])
<1> DEFINE l == Len(s.methods)
           x == <<s.hello, l>>
           w == x \o s.methods
           r == Records(s)
           p == w \o r
<1>1. l \in Nat /\ s.hello \in Nat /\ s.methods \in Seq(Byte) /\ s.methods \in Seq(Nat)
  <2>1. s.hello \in Nat /\ s.methods \in Seq(Byte) /\ Byte \subseteq Nat
    BY ByteIs DEF MeansIt
  <2>2. \A S, T : S \subseteq T => \A t \in Seq(S) : t \in Seq(T) /\ Len(t) \in Nat
    OBVIOUS
  <2> QED
    BY <2>1, <2>2
<1>2. x \in Seq(Nat) /\ Len(x) = 2 /\ x[2] = l
  <2> HIDE DEF l
  <2> QED
    BY <1>1, Tuples
<1> HIDE DEF l, x
<1>3. IsConcat(w, x, s.methods) /\ w \in Seq(Nat)
  BY <1>1, <1>2, Concat
<1> HIDE DEF w
<1>4. Len(w) = 2 + l /\ w[2] = l
  BY <1>1, <1>2, <1>3 DEF IsConcat, l
<1>5. w = Opening(s) /\ p = Before(s)
  BY DEF w, x, l, Opening, Before
<1>6. CASE s.cred = <<>> /\ r = <<>>
  <2>1. r \in Seq(Nat) /\ Len(r) = 0
    BY <1>6
  <2>2. IsConcat(p, w, r) /\ p \in Seq(Nat)
    BY <1>3, <2>1, Concat
  <2> HIDE DEF p, r
  <2>3. Len(p) = Len(w) /\ p[2] = l
    BY <1>1, <1>4, <2>1, <2>2 DEF IsConcat
  <2> QED
    BY <1>1, <1>4, <1>5, <1>6, <2>2, <2>3 DEF l
<1>7. CASE /\ s.cred # <<>> /\ r = Record(s.cred[1])
           /\ s.cred[1] \in Seq(Byte) \X Seq(Byte) /\ 1 \in DOMAIN s.cred
  <2> DEFINE u == s.cred[1]
             i == Len(u[1])
             j == Len(u[2])
  <2>1. /\ r \in Seq(Byte) /\ i \in Nat /\ j \in Nat /\ Len(r) = 3 + i + j
        /\ r[1] = 1 /\ r[2] = i /\ r[3 + i] = j
    <3>1. Len(u[1]) < 256 /\ Len(u[2]) < 256
      BY <1>7 DEF MeansIt
    <3> QED
      BY <1>7, <3>1, RecordLayout
  <2> HIDE DEF i, j, r
  <2>2. r \in Seq(Nat)
    <3>1. Byte \subseteq Nat
      BY ByteIs
    <3>2. \A S, T : S \subseteq T => \A t \in Seq(S) : t \in Seq(T)
      OBVIOUS
    <3> QED
      BY <2>1, <3>1, <3>2
  <2>3. IsConcat(p, w, r) /\ p \in Seq(Nat)
    BY <1>3, <2>2, Concat
  <2> HIDE DEF p
  <2>4. Len(p) = Len(w) + 3 + i + j /\ p[2] = l
    BY <1>1, <1>4, <2>1, <2>3 DEF IsConcat
  <2>5. p[Len(w) + 1] = 1 /\ p[Len(w) + 2] = i /\ p[Len(w) + (3 + i)] = j
    BY <2>1, <2>3 DEF IsConcat
  <2>6. Len(w) + (3 + i) = Len(w) + 3 + i /\ Len(w) <= Len(p) /\ Len(w) \in Nat
    BY <1>1, <1>4, <2>1, <2>4
  <2>7. /\ p \in Seq(Nat) /\ Len(w) \in Nat /\ Len(w) = 2 + l /\ Len(p) \in Nat /\ l \in Nat
        /\ p[2] = l /\ Len(w) <= Len(p) /\ Len(p) = Len(w) + 3 + i + j
        /\ p[Len(w) + 1] = 1 /\ p[Len(w) + 2] = i /\ p[Len(w) + 3 + i] = j
    BY <1>1, <1>4, <2>1, <2>3, <2>4, <2>5, <2>6
  <2> QED
    BY <1>5, <1>7, <2>1, <2>7, Zenon DEF l, i, j
<1>8. s.cred \in Seq(Seq(Byte) \X Seq(Byte)) /\ Len(s.cred) <= 1
  BY DEF MeansIt
<1> QED
  BY <1>6, <1>7, <1>8, RecordsMean

LEMMA BytesLayout ==
  ASSUME NEW s, MeansIt(s)
  PROVE  Layout(Bytes(s), s)
<1> DEFINE p == Before(s)
           h == <<s.ver, s.cmd, 0>>
           m == MarshalBinary(s.addr)
           d == s.data
           g == p \o h
           e == g \o m
           b == e \o d
           o == Len(Opening(s))
           n == Size(s.addr)
           u == s.cred[1]
<1>1. /\ p \in Seq(Nat) /\ o \in Nat /\ o = 2 + Len(s.methods) /\ Len(p) \in Nat
      /\ Len(s.methods) \in Nat
      /\ p[2] = Len(s.methods) /\ o <= Len(p)
      /\ s.cred = <<>> => Len(p) = o
      /\ s.cred # <<>> =>
           /\ Len(p) = o + 3 + Len(u[1]) + Len(u[2]) /\ Len(u[1]) \in Nat /\ Len(u[2]) \in Nat
           /\ p[o + 1] = 1 /\ p[o + 2] = Len(u[1]) /\ p[o + 3 + Len(u[1])] = Len(u[2])
  BY BeforeLayout
<1>2. /\ s.ver \in Nat /\ s.cmd \in Nat /\ d \in Seq(Nat) /\ s.addr \in AddrPort
      /\ Fits(s.addr) /\ Len(d) \in Nat
  <2>1. s.ver \in Nat /\ s.cmd \in Nat /\ d \in Seq(Byte) /\ s.addr \in AddrPort
        /\ Fits(s.addr) /\ Byte \subseteq Nat
    BY ByteIs DEF MeansIt
  <2>2. \A S, T : S \subseteq T => \A t \in Seq(S) : t \in Seq(T) /\ Len(t) \in Nat
    OBVIOUS
  <2> QED
    BY <2>1, <2>2
<1>3. h \in Seq(Nat) /\ Len(h) = 3 /\ h[1] = s.ver
  BY <1>2, Tuples
<1>4. m \in Seq(Nat) /\ Len(m) = n /\ n \in Nat /\ n >= 3
  <2>1. m \in Seq(Nat) /\ Len(m) = n /\ Len(s.addr.data) \in Nat
    BY <1>2, AddrLayout
  <2>2. n = DataAt(s.addr) + 1 + Len(s.addr.data) /\ DataAt(s.addr) \in {2, 3}
    BY DEF Size, DataAt
  <2> HIDE DEF n, m
  <2> QED
    BY <2>1, <2>2
<1> HIDE DEF p, h, m, d, o, n, u
<1>5. IsConcat(g, p, h) /\ g \in Seq(Nat)
  BY <1>1, <1>3, Concat
<1> HIDE DEF g
<1>6. IsConcat(e, g, m) /\ e \in Seq(Nat)
  BY <1>4, <1>5, Concat
<1> HIDE DEF e
<1>7. IsConcat(b, e, d) /\ b \in Seq(Nat)
  BY <1>2, <1>6, Concat
<1>8. b = Bytes(s) /\ e = Asked(s)
  BY DEF b, e, g, h, p, m, d, Bytes, Asked, Before, Opening, Records, Record
<1> HIDE DEF b
<1>9. Len(g) = Len(p) + 3 /\ Len(e) = Len(p) + 3 + n /\ Len(b) = Len(e) + Len(d)
  BY <1>1, <1>3, <1>4, <1>5, <1>6, <1>7 DEF IsConcat
<1>10. \A i \in 1 .. Len(p) : b[i] = p[i]
  <2> SUFFICES ASSUME NEW i \in 1 .. Len(p) PROVE b[i] = p[i]
    OBVIOUS
  <2>1. i \in 1 .. Len(g) /\ i \in 1 .. Len(e)
    BY <1>1, <1>4, <1>9
  <2> QED
    BY <1>5, <1>6, <1>7, <2>1 DEF IsConcat
<1>11. b[Len(p) + 1] = s.ver
  <2>1. Len(p) + 1 \in 1 .. Len(g) /\ Len(p) + 1 \in 1 .. Len(e)
    BY <1>1, <1>4, <1>9
  <2>2. g[Len(p) + 1] = s.ver
    BY <1>3, <1>5 DEF IsConcat
  <2> QED
    BY <1>6, <1>7, <2>1, <2>2 DEF IsConcat
<1>12. \A i \in 1 .. n : b[Len(p) + 3 + i] = m[i]
  <2> SUFFICES ASSUME NEW i \in 1 .. n PROVE b[Len(p) + 3 + i] = m[i]
    OBVIOUS
  <2>1. Len(p) + 3 + i = Len(g) + i /\ Len(g) + i \in 1 .. Len(e)
    BY <1>1, <1>4, <1>9
  <2>2. e[Len(g) + i] = m[i]
    BY <1>4, <1>6 DEF IsConcat
  <2> QED
    BY <1>7, <2>1, <2>2 DEF IsConcat
<1>13. \A i \in 1 .. Len(d) : b[Len(e) + i] = d[i]
  BY <1>7 DEF IsConcat
<1>14. b[2] = Len(s.methods) /\ Len(e) \in Nat
  <2>1. 2 \in 1 .. Len(p)
    BY <1>1
  <2> QED
    BY <1>1, <1>4, <1>9, <1>10, <2>1
<1>15. CASE s.cred = <<>>
  <2>1. b[o + 1] # 1
    BY <1>1, <1>11, <1>15 DEF MeansIt
  <2> QED
    BY <1>1, <1>2, <1>4, <1>8, <1>9, <1>12, <1>13, <1>14, <1>15, <2>1
       DEF Layout, p, o, n, m, d
<1>16. CASE s.cred # <<>>
  <2> DEFINE i == Len(u[1])
             j == Len(u[2])
  <2>1. /\ Len(p) = o + 3 + i + j /\ i \in Nat /\ j \in Nat
        /\ p[o + 1] = 1 /\ p[o + 2] = i /\ p[o + 3 + i] = j
    BY <1>1, <1>16
  <2> HIDE DEF i, j
  <2>1a. o \in Nat /\ Len(p) \in Nat
    BY <1>1
  <2>2. o + 1 \in 1 .. Len(p) /\ o + 2 \in 1 .. Len(p) /\ o + 3 + i \in 1 .. Len(p)
    BY <2>1, <2>1a
  <2>3. b[o + 1] = 1 /\ b[o + 2] = i /\ b[o + 3 + i] = j
    BY <1>10, <2>1, <2>2
  <2> QED
    BY <1>1, <1>2, <1>4, <1>8, <1>9, <1>12, <1>13, <1>14, <1>16, <2>1, <2>3
       DEF Layout, p, o, n, m, d, u, i, j
<1> QED
  BY <1>15, <1>16

-----------------------------------------------------------------------------
(* The steps of a session.                                                 *)
AllMeanIt == \A s \in Scripts : MeansIt(s)

(* What has arrived is a part of what the client sends.                    *)
LEMMA InPlace ==
  ASSUME IInv, NEW c \in Conns
  PROVE  LET b == Bytes(script[c])
             q == sess[c] IN
         /\ In(c) \in Seq(Byte) /\ Len(In(c)) = q.sent - q.read /\ Len(In(c)) \in Nat
         /\ q.read \in Nat /\ q.sent \in Nat /\ q.sent <= Len(b) /\ Len(b) \in Nat
         /\ script[c] \in Scripts /\ q \in SessionState
         /\ \A i \in 1 .. Len(In(c)) : In(c)[i] = b[q.read + i] /\ In(c)[i] \in Byte
<1> DEFINE b == Bytes(script[c])
           q == sess[c]
           r == q.read
           e == q.sent
<1>1. In(c) \in Seq(Byte) /\ Len(In(c)) = e - r /\ b \in Seq(Byte)
  BY InFacts
<1>2. /\ q \in SessionState /\ script[c] \in Scripts
      /\ r \in Nat /\ e \in Nat /\ r <= e /\ e <= Len(b)
  <2>1. q \in SessionState /\ Within(c, q) /\ script[c] \in Scripts
    BY DEF IInv, SessOK, TypeOK
  <2>2. q.sent \in Nat /\ q.read \in Nat
    BY <2>1 DEF SessionState
  <2> QED
    BY <2>1, <2>2 DEF Within
<1>3. In(c) = SubSeq(b, r + 1, e)
  BY DEF In
<1>4. Len(b) \in Nat
  BY <1>1
<1> HIDE DEF b, r, e
<1>5. \A i \in 1 .. e - r : SubSeq(b, r + 1, e)[i] = b[r + i]
  <2> SUFFICES ASSUME NEW i \in 1 .. e - r PROVE SubSeq(b, r + 1, e)[i] = b[r + i]
    OBVIOUS
  <2>1. SubSeq(b, r + 1, e)[i] = b[r + 1 + i - 1]
    BY <1>1, <1>2
  <2>2. r + 1 + i - 1 = r + i
    BY <1>2
  <2> QED
    BY <2>1, <2>2
<1>6. \A i \in 1 .. Len(In(c)) : In(c)[i] \in Byte
  BY <1>1
<1> HIDE DEF q
<1>7. Len(In(c)) \in Nat
  BY <1>1, <1>2
<1> QED
  BY <1>1, <1>2, <1>3, <1>4, <1>5, <1>6, <1>7 DEF b, r, e, q

LEMMA BecomesPlaced ==
  ASSUME IInv, AllPlaced, NEW c \in Conns, NEW t, Becomes(c, t), UNCHANGED script,
         Placed(script[c], t)
  PROVE  AllPlaced'
<1>1. \A d \in Conns : sess'[d] = IF d = c THEN t ELSE sess[d]
  BY DEF IInv, TypeOK, Becomes
<1> QED
  BY <1>1 DEF AllPlaced

(* Handle goes on, or ends, without reading.                               *)
Same(q, t) == t.read = q.read /\ t.addr = q.addr /\ t.network = q.network /\ t.up = q.up
LEMMA StillPlaced ==
  ASSUME NEW s, MeansIt(s), NEW q, Placed(s, q), NEW t, Same(q, t),
         \/ t.pc = q.pc \/ t.pc = "closed"
         \/ q.pc = "new" /\ t.pc = "hello"
         \/ q.pc = "command" /\ t.pc = "accept"
         \/ q.pc = "accept" /\ t.pc = "relay"
  PROVE  Placed(s, t)
<1>1. Len(Asked(s)) \in Nat
  BY BytesLayout DEF Layout
<1>2. CASE q.pc = "accept" /\ t.pc = "relay"
  <2>1. q.up = <<>> /\ q.read = Len(Asked(s))
    BY <1>2 DEF Placed
  <2>2. t.read = Len(Asked(s)) + Len(t.up)
    BY <1>1, <2>1 DEF Same
  <2> QED
    BY <1>2, <2>2 DEF Placed, Same
<1>3. CASE ~(q.pc = "accept" /\ t.pc = "relay")
  BY <1>3, Zenon DEF Placed, Same
<1> QED
  BY <1>2, <1>3

LEMMA ReturnPlaced ==
  ASSUME IInv, AllPlaced, AllMeanIt, NEW c \in Conns, UNCHANGED script,
         NEW t \in SessionState, Placed(script[c], t), Return(c, t)
  PROVE  AllPlaced'
<1> DEFINE u == [t EXCEPT !.pc = "closed"]
<1>1. u.pc = "closed" /\ Same(t, u)
  BY DEF SessionState, Same
<1>2. MeansIt(script[c])
  BY InPlace DEF AllMeanIt
<1> HIDE DEF u
<1>3. Placed(script[c], u)
  BY <1>1, <1>2, StillPlaced
<1> QED
  BY <1>3, BecomesPlaced DEF Return, u

LEMMA ReplyPlaced ==
  ASSUME IInv, AllPlaced, AllMeanIt, NEW c \in Conns, UNCHANGED script,
         NEW t \in SessionState, Placed(script[c], t), NEW r, Reply(c, t, r)
  PROVE  AllPlaced'
<1>1. CASE Return(c, t)
  BY <1>1, ReturnPlaced
<1>2. CASE Becomes(c, [t EXCEPT !.out = Append(@, r)])
  <2> DEFINE u == [t EXCEPT !.out = Append(@, r)]
  <2>1. u.pc = t.pc /\ Same(t, u)
    BY DEF SessionState, Same
  <2>2. MeansIt(script[c])
    BY InPlace DEF AllMeanIt
  <2> HIDE DEF u
  <2>3. Placed(script[c], u)
    BY <2>1, <2>2, StillPlaced
  <2> QED
    BY <1>2, <2>3, BecomesPlaced DEF u
<1> QED
  BY <1>1, <1>2 DEF Reply

(* A reply that ends the session.                                          *)
LEMMA LastPlaced ==
  ASSUME IInv, AllPlaced, AllMeanIt, NEW c \in Conns, UNCHANGED script,
         NEW t \in SessionState, Placed(script[c], t), NEW r,
         Reply(c, [t EXCEPT !.pc = "closed"], r)
  PROVE  AllPlaced'
<1> DEFINE u == [t EXCEPT !.pc = "closed"]
<1>1. u.pc = "closed" /\ Same(t, u) /\ u \in SessionState
  BY DEF SessionState, Same
<1>2. MeansIt(script[c])
  BY InPlace DEF AllMeanIt
<1> HIDE DEF u
<1>3. Placed(script[c], u)
  BY <1>1, <1>2, StillPlaced
<1> QED
  BY <1>1, <1>3, ReplyPlaced DEF u

(* The handshake takes its two bytes and the methods.                      *)
LEMMA HandShakePlaced ==
  ASSUME IInv, AllPlaced, AllMeanIt, NEW c \in Conns, readHandShake(c)
  PROVE  AllPlaced'
<1> DEFINE s == script[c]
           q == sess[c]
           b == In(c)
           n == HandShakeLen(b)
           t == [q EXCEPT !.pc = "auth", !.read = @ + n, !.methods = SubSeq(b, 3, n)]
<1>0. /\ q \in SessionState /\ MeansIt(s) /\ Placed(s, q) /\ q.pc = "hello" /\ UNCHANGED script
      /\ b \in Seq(Byte) /\ Len(b) \in Nat /\ q.read \in Nat
      /\ \A i \in 1 .. Len(b) : b[i] = Bytes(s)[q.read + i] /\ b[i] \in Byte
  BY InPlace DEF AllPlaced, AllMeanIt, readHandShake, At
<1>1. CASE Return(c, q)
  BY <1>0, <1>1, ReturnPlaced
<1>2. CASE Arrived(c, n) /\ Becomes(c, t)
  <2>1. Len(b) >= 2
    BY <1>0, <1>2 DEF HandShakeLen, Arrived
  <2>2. /\ Bytes(s)[2] = Len(s.methods) /\ Len(s.methods) \in Nat
        /\ Len(Opening(s)) = 2 + Len(s.methods)
    <3>1. Len(s.methods) \in Nat
      BY <1>0 DEF MeansIt
    <3> QED
      BY <1>0, <3>1, BytesLayout DEF Layout
  <2>3. q.read = 0 /\ q.up = <<>> /\ q.network = "none"
    BY <1>0 DEF Placed
  <2>4. b[2] = Len(s.methods)
    <3>1. 2 \in 1 .. Len(b) /\ q.read + 2 = 2
      BY <1>0, <2>1, <2>3
    <3> QED
      BY <1>0, <2>2, <3>1
  <2>5. n = Len(Opening(s)) /\ q.read + n = n
    BY <1>0, <2>1, <2>2, <2>3, <2>4 DEF HandShakeLen
  <2> HIDE DEF n, b
  <2>6. t.pc = "auth" /\ t.read = q.read + n /\ t.network = q.network /\ t.up = q.up
    BY <1>0 DEF SessionState
  <2> HIDE DEF t
  <2>7. Placed(s, t)
    <3>1. Len(t.up) = 0 /\ Len(s.data) \in Nat
      <4>1. Len(s.data) \in Nat
        BY <1>0, BytesLayout DEF Layout
      <4> QED
        BY <2>3, <2>6, <4>1
    <3> QED
      BY <2>3, <2>5, <2>6, <3>1 DEF Placed
  <2> QED
    BY <1>0, <1>2, <2>7, BecomesPlaced
<1> QED
  BY <1>1, <1>2 DEF readHandShake

(* A record that is there is taken whole: the request is next.             *)
LEMMA RecordTaken ==
  ASSUME NEW s, MeansIt(s), NEW b \in Seq(Byte),
         \A i \in 1 .. Len(b) : b[i] = Bytes(s)[Len(Opening(s)) + i],
         UserLen(b) <= Len(b), b[1] = 1
  PROVE  s.cred # <<>> /\ UserLen(b) \in Nat /\ Len(Opening(s)) + UserLen(b) = Len(Before(s))
<1> DEFINE o == Len(Opening(s))
           u == Len(s.cred[1][1])
           p == Len(s.cred[1][2])
<1>1. Layout(Bytes(s), s) /\ o \in Nat
  BY BytesLayout DEF Layout
<1>2. Len(b) \in Nat /\ \A i \in 1 .. Len(b) : b[i] \in Nat
  BY SeqBytes
<1>3. Len(b) >= 2
  BY <1>2 DEF UserLen
<1>4. b[1] = Bytes(s)[o + 1]
  BY <1>2, <1>3
<1>5. s.cred # <<>>
  BY <1>1, <1>4 DEF Layout
<1>6. /\ Len(Before(s)) = o + 3 + u + p /\ u \in Nat /\ p \in Nat
      /\ Bytes(s)[o + 2] = u /\ Bytes(s)[o + 3 + u] = p
  BY <1>1, <1>5 DEF Layout
<1> HIDE DEF o, u, p
<1>7. b[2] = u
  BY <1>2, <1>3, <1>6 DEF o
<1>8. Len(b) >= 3 + u
  BY <1>2, <1>3, <1>6, <1>7 DEF UserLen
<1>9. b[3 + u] = p
  <2>1. 3 + u \in 1 .. Len(b) /\ o + (3 + u) = o + 3 + u
    BY <1>1, <1>2, <1>6, <1>8
  <2>2. b[3 + u] = Bytes(s)[o + (3 + u)]
    BY <2>1 DEF o
  <2> QED
    BY <1>6, <2>1, <2>2
<1>10. UserLen(b) = 3 + u + p
  BY <1>2, <1>3, <1>6, <1>7, <1>8, <1>9 DEF UserLen
<1>11. o + UserLen(b) = Len(Before(s))
  BY <1>1, <1>6, <1>10
<1> QED
  BY <1>5, <1>6, <1>10, <1>11 DEF o

LEMMA UserAuthPlaced ==
  ASSUME IInv, AllPlaced, AllMeanIt, NEW c \in Conns, At(c, "auth"), tryUserAuth(c),
         UNCHANGED script
  PROVE  AllPlaced'
<1> DEFINE s == script[c]
           q == sess[c]
           b == In(c)
           n == UserLen(b)
           t == [q EXCEPT !.read = @ + n]
<1>0. /\ q \in SessionState /\ MeansIt(s) /\ Placed(s, q) /\ q.pc = "auth"
      /\ b \in Seq(Byte) /\ Len(b) \in Nat /\ q.read \in Nat
      /\ \A i \in 1 .. Len(b) : b[i] = Bytes(s)[q.read + i]
  BY InPlace DEF AllPlaced, AllMeanIt, At
<1>1. CASE Return(c, q)
  BY <1>0, <1>1, ReturnPlaced
<1>2. ASSUME Arrived(c, n), b[1] = 1,
             NEW pc \in {"request", "closed"}, NEW r, Reply(c, [t EXCEPT !.pc = pc], r)
      PROVE  AllPlaced'
  <2>1. q.read = Len(Opening(s)) /\ q.up = <<>> /\ q.network = "none"
    BY <1>0 DEF Placed
  <2>2. n \in Nat /\ q.read + n = Len(Before(s))
    <3>1. n <= Len(b)
      <4>1. Len(b) >= n
        BY <1>2 DEF Arrived
      <4> QED
        BY <4>1
    <3> HIDE DEF b
    <3> QED
      BY <1>0, <1>2, <2>1, <3>1, RecordTaken
  <2> DEFINE v == [t EXCEPT !.pc = pc]
  <2> HIDE DEF n, b
  <2>3. /\ v \in SessionState /\ v.pc = pc /\ v.read = Len(Before(s))
        /\ v.network = "none" /\ v.up = <<>>
    <3>1. q.read + n \in Nat
      BY <1>0, <2>2
    <3>2. t \in SessionState /\ t.read = q.read + n /\ t.network = q.network /\ t.up = q.up
      BY <1>0, <3>1 DEF SessionState
    <3> HIDE DEF t
    <3> QED
      BY <2>1, <2>2, <3>2 DEF SessionState
  <2> HIDE DEF v
  <2>4. Placed(s, v)
    <3>1. Len(v.up) = 0 /\ Len(s.data) \in Nat
      <4>1. Len(s.data) \in Nat
        BY <1>0, BytesLayout DEF Layout
      <4> QED
        BY <2>3, <4>1
    <3> QED
      BY <2>3, <3>1 DEF Placed
  <2> QED
    BY <1>2, <2>3, <2>4, ReplyPlaced DEF v
<1>3. CASE Arrived(c, n) /\ b[1] = 1 /\ Reply(c, [t EXCEPT !.pc = "request"], "authorized")
  <2> HIDE DEF t, b, n
  <2> QED
    BY <1>2, <1>3
<1>4. CASE Arrived(c, n) /\ b[1] = 1 /\ Unauthorized(c, t)
  <2> HIDE DEF t, b, n
  <2> QED
    BY <1>2, <1>4 DEF Unauthorized
<1> QED
  BY <1>1, <1>3, <1>4 DEF tryUserAuth

LEMMA AuthPlaced ==
  ASSUME IInv, AllPlaced, AllMeanIt, NEW c \in Conns, tryAuth(c)
  PROVE  AllPlaced'
<1> DEFINE s == script[c]
           q == sess[c]
<1>0. /\ q \in SessionState /\ MeansIt(s) /\ Placed(s, q) /\ q.pc = "auth" /\ UNCHANGED script
      /\ At(c, "auth")
  BY InPlace DEF AllPlaced, AllMeanIt, At, tryAuth
<1>1. CASE Reply(c, [q EXCEPT !.pc = "closed"], "noAcceptableAuth")
  BY <1>0, <1>1, LastPlaced
<1>2. CASE Reply(c, [q EXCEPT !.pc = "request"], "noAuth")
  <2> DEFINE t == [q EXCEPT !.pc = "request"]
  <2>1. t \in SessionState /\ t.pc = "request" /\ Same(q, t)
    BY <1>0 DEF SessionState, Same
  <2>2. s.cred = <<>> => Len(Before(s)) = Len(Opening(s))
    BY <1>0, BytesLayout DEF Layout
  <2> HIDE DEF t
  <2>3. Placed(s, t)
    BY <1>0, <2>1, <2>2 DEF Placed, Same
  <2> QED
    BY <1>0, <1>2, <2>1, <2>3, ReplyPlaced DEF t
<1>3. CASE tryUserAuth(c)
  BY <1>0, <1>3, UserAuthPlaced
<1>4. CASE Becomes(c, [q EXCEPT !.methods = Tail(@)])
  <2> DEFINE t == [q EXCEPT !.methods = Tail(@)]
  <2>1. t.pc = q.pc /\ Same(q, t)
    BY <1>0 DEF SessionState, Same
  <2> HIDE DEF t
  <2>2. Placed(s, t)
    BY <1>0, <2>1, StillPlaced
  <2> QED
    BY <1>0, <1>4, <2>2, BecomesPlaced DEF t
<1> QED
  BY <1>1, <1>2, <1>3, <1>4 DEF tryAuth

(* The request that Handle reads is the one the client sends, or none: the *)
(* first byte of a record is not the version.                              *)
LEMMA RequestRead ==
  ASSUME NEW s, MeansIt(s), NEW b \in Seq(Byte), NEW r \in Nat,
         r = Len(Before(s)) \/ (r = Len(Opening(s)) /\ s.cred # <<>>),
         \A i \in 1 .. Len(b) : b[i] = Bytes(s)[r + i],
         b[1] = 5, Len(b) >= 4, b[4] \in {IPv4Addr, DomainAddr, IPv6Addr},
         3 + AddrLen(SubSeq(b, 4, Len(b))) <= Len(b)
  PROVE  /\ r + (3 + AddrLen(SubSeq(b, 4, Len(b)))) = Len(Asked(s))
         /\ ReadFrom(SubSeq(b, 4, Len(b))) = s.addr /\ Known(s.addr)
<1> DEFINE a == SubSeq(b, 4, Len(b))
           m == MarshalBinary(s.addr)
           n == Size(s.addr)
<1>1. Layout(Bytes(s), s) /\ Len(b) \in Nat
  BY BytesLayout, SeqBytes
<1>2. r = Len(Before(s))
  <2>1. b[1] = Bytes(s)[r + 1]
    BY <1>1
  <2>2. s.cred # <<>> => Bytes(s)[Len(Opening(s)) + 1] = 1
    BY <1>1 DEF Layout
  <2> QED
    BY <2>1, <2>2
<1>3. /\ Len(Asked(s)) = r + 3 + n /\ n \in Nat
      /\ \A i \in 1 .. n : Bytes(s)[r + 3 + i] = m[i]
  BY <1>1, <1>2 DEF Layout
<1>4. a \in Seq(Byte) /\ Len(a) = Len(b) - 3 /\ \A i \in 1 .. Len(a) : a[i] = b[3 + i]
  <2>1. a \in Seq(Byte) /\ Len(a) = Len(b) - 3
    BY <1>1
  <2>2. ASSUME NEW i \in 1 .. Len(a) PROVE a[i] = b[3 + i]
    <3>1. a[i] = b[4 + i - 1] /\ 4 + i - 1 = 3 + i
      BY <1>1, <2>1, <2>2
    <3> QED
      BY <3>1
  <2> QED
    BY <2>1, <2>2
<1> HIDE DEF a, n
<1>5. s.addr \in AddrPort /\ Fits(s.addr) /\ Len(m) = n
  BY AddrLayout DEF MeansIt, n
<1> HIDE DEF m
<1>6. Agrees(a, m)
  <2> SUFFICES ASSUME NEW i \in 1 .. Len(a), i <= Len(m) PROVE a[i] = m[i]
    BY DEF Agrees
  <2>1. 3 + i \in 1 .. Len(b) /\ r + (3 + i) = r + 3 + i /\ i \in 1 .. n
    BY <1>1, <1>4, <1>5
  <2>2. b[3 + i] = Bytes(s)[r + (3 + i)]
    BY <2>1
  <2> QED
    BY <1>3, <1>4, <2>1, <2>2
<1>7. a # <<>> /\ a[1] = b[4] /\ Len(a) \in Nat
  <2>1. Len(a) >= 1 /\ Len(a) \in Nat
    BY <1>1, <1>4
  <2>2. 1 \in 1 .. Len(a) /\ 3 + 1 = 4
    BY <2>1
  <2> QED
    BY <1>4, <2>1, <2>2
<1>8. AddrLen(a) <= Len(a)
  <2>1. AddrLen(a) \in Nat
    <3>1. Len(a) >= 2 => a[2] \in Nat
      BY <1>4, SeqBytes
    <3> QED
      BY <1>7, <3>1 DEF AddrLen
  <2>2. 3 + AddrLen(a) <= Len(b)
    BY DEF a
  <2> QED
    BY <1>1, <1>4, <1>7, <2>1, <2>2
<1>9. AddrLen(a) = n /\ ReadFrom(a) = s.addr /\ Known(s.addr)
  BY <1>4, <1>5, <1>6, <1>7, <1>8, AddrReadsBack DEF m, n
<1>10. r + (3 + AddrLen(a)) = Len(Asked(s))
  BY <1>3, <1>9
<1> QED
  BY <1>9, <1>10 DEF a

LEMMA RequestPlaced ==
  ASSUME IInv, AllPlaced, AllMeanIt, NEW c \in Conns, readRequest(c)
  PROVE  AllPlaced'
<1> DEFINE s == script[c]
           q == sess[c]
           b == In(c)
           a == SubSeq(b, 4, Len(b))
           n == 3 + AddrLen(a)
           t == [q EXCEPT !.pc = "command", !.read = @ + n, !.cmd = b[2], !.addr = ReadFrom(a)]
<1>0. /\ q \in SessionState /\ MeansIt(s) /\ Placed(s, q) /\ q.pc = "request" /\ UNCHANGED script
      /\ b \in Seq(Byte) /\ Len(b) \in Nat /\ q.read \in Nat
      /\ \A i \in 1 .. Len(b) : b[i] = Bytes(s)[q.read + i]
  BY InPlace DEF AllPlaced, AllMeanIt, readRequest, At
<1>1. ASSUME NEW err, sendErrorResponse(c, q, err)
      PROVE  AllPlaced'
  BY <1>0, <1>1, LastPlaced DEF sendErrorResponse
<1>2. CASE /\ Arrived(c, 4) /\ b[1] = 5 /\ a[1] \in {IPv4Addr, DomainAddr, IPv6Addr}
           /\ Arrived(c, n) /\ Becomes(c, t)
  <2>1. Len(b) >= 4 /\ n <= Len(b)
    <3>1. Len(b) >= 4 /\ Len(b) >= n
      BY <1>2 DEF Arrived
    <3> QED
      BY <3>1
  <2>2. b[4] = a[1]
    <3> HIDE DEF b
    <3> QED
      BY <1>0, <2>1
  <2>3. q.read = Len(Before(s)) \/ (q.read = Len(Opening(s)) /\ s.cred # <<>>)
    BY <1>0 DEF Placed
  <2>4. q.read + n = Len(Asked(s)) /\ ReadFrom(a) = s.addr /\ Known(s.addr)
    <3> HIDE DEF b
    <3> QED
      BY <1>0, <1>2, <2>1, <2>2, <2>3, RequestRead
  <2> HIDE DEF n, a, b
  <2>5. t.pc = "command" /\ t.read = q.read + n /\ t.addr = ReadFrom(a)
        /\ t.network = q.network /\ t.up = q.up
    BY <1>0 DEF SessionState
  <2> HIDE DEF t
  <2>6. Placed(s, t)
    BY <1>0, <2>4, <2>5 DEF Placed
  <2> QED
    BY <1>0, <1>2, <2>6, BecomesPlaced
<1> QED
  BY <1>1, <1>2 DEF readRequest

(* The Handler is asked for the address of the client.                     *)
LEMMA DialPlaced ==
  ASSUME IInv, AllPlaced, AllMeanIt, NEW c \in Conns, DialTCP(c)
  PROVE  AllPlaced'
<1> DEFINE s == script[c]
           q == sess[c]
           t == [q EXCEPT !.network = Network(q.addr)]
<1>0. /\ q \in SessionState /\ MeansIt(s) /\ Placed(s, q) /\ q.pc = "command" /\ UNCHANGED script
  BY InPlace DEF AllPlaced, AllMeanIt, DialTCP, At
<1>1. /\ q.read = Len(Asked(s)) /\ q.addr = s.addr /\ q.up = <<>> /\ Len(s.data) \in Nat
      /\ Len(Asked(s)) \in Nat /\ Known(s.addr)
  <2>1. Len(s.data) \in Nat /\ Len(Asked(s)) \in Nat
    BY <1>0, BytesLayout DEF Layout
  <2> QED
    BY <1>0, <2>1 DEF Placed
<1>2. /\ t.network = Network(s.addr) /\ t.read = q.read /\ t.addr = s.addr /\ t.up = <<>>
      /\ t \in SessionState
  <2>1. Network(q.addr) \in {"none", "tcp", "tcp4", "tcp6"}
    BY DEF Network
  <2> QED
    BY <1>0, <1>1, <2>1 DEF SessionState
<1> HIDE DEF t
<1>3. ASSUME NEW u, u.pc \in {"closed", "relay"}, Same(t, u) PROVE Placed(s, u)
  <2>1. u.up = <<>> /\ Len(u.up) = 0 /\ u.read = Len(Asked(s)) + Len(u.up)
    BY <1>1, <1>2, <1>3 DEF Same
  <2> QED
    BY <1>1, <1>2, <1>3, <2>1 DEF Placed, Same
<1>4. ASSUME NEW err, sendErrorResponse(c, t, err) PROVE AllPlaced'
  <2> DEFINE u == [t EXCEPT !.pc = "closed"]
  <2>1. u \in SessionState /\ u.pc = "closed" /\ Same(t, u)
    BY <1>2 DEF SessionState, Same
  <2> HIDE DEF u
  <2>2. Placed(s, u)
    BY <1>3, <2>1
  <2> QED
    BY <1>0, <1>4, <2>1, <2>2, ReplyPlaced DEF sendErrorResponse, u
<1>5. CASE Becomes(c, [Relay(t) EXCEPT !.target = "open", !.out = Append(@, "Granted")])
  <2> DEFINE u == [Relay(t) EXCEPT !.target = "open", !.out = Append(@, "Granted")]
  <2>1. u.pc = "relay" /\ Same(t, u)
    BY <1>2 DEF SessionState, Same, Relay
  <2> HIDE DEF u
  <2>2. Placed(s, u)
    BY <1>3, <2>1
  <2> QED
    BY <1>0, <1>5, <2>2, BecomesPlaced DEF u
<1>6. CASE Return(c, [t EXCEPT !.target = "open"])
  <2> DEFINE u == [[t EXCEPT !.target = "open"] EXCEPT !.pc = "closed"]
  <2>1. u.pc = "closed" /\ Same(t, u)
    BY <1>2 DEF SessionState, Same
  <2> HIDE DEF u
  <2>2. Placed(s, u)
    BY <1>3, <2>1
  <2> QED
    BY <1>0, <1>6, <2>2, BecomesPlaced DEF Return, u
<1> QED
  BY <1>4, <1>5, <1>6 DEF DialTCP, t

LEMMA BindPlaced ==
  ASSUME IInv, AllPlaced, AllMeanIt, NEW c \in Conns,
         BindTCP(c) \/ BindAccept(c) \/ Unsupported(c)
  PROVE  AllPlaced'
<1> DEFINE s == script[c]
           q == sess[c]
<1>0. q \in SessionState /\ MeansIt(s) /\ Placed(s, q) /\ UNCHANGED script
  BY InPlace DEF AllPlaced, AllMeanIt, BindTCP, BindAccept, Unsupported
<1>1. ASSUME NEW r, Reply(c, [q EXCEPT !.pc = "closed"], r) PROVE AllPlaced'
  BY <1>0, <1>1, LastPlaced
<1>2. CASE q.pc = "command" /\ Reply(c, [q EXCEPT !.pc = "accept"], "Granted")
  <2> DEFINE t == [q EXCEPT !.pc = "accept"]
  <2>1. t \in SessionState /\ t.pc = "accept" /\ Same(q, t)
    BY <1>0 DEF SessionState, Same
  <2> HIDE DEF t
  <2>2. Placed(s, t)
    BY <1>0, <1>2, <2>1, StillPlaced
  <2> QED
    BY <1>0, <1>2, <2>1, <2>2, ReplyPlaced DEF t
<1>3. CASE /\ q.pc = "accept"
           /\ Becomes(c, [Relay(q) EXCEPT !.target = "open", !.out = Append(@, "Granted")])
  <2> DEFINE t == [Relay(q) EXCEPT !.target = "open", !.out = Append(@, "Granted")]
  <2>1. t.pc = "relay" /\ Same(q, t)
    BY <1>0 DEF SessionState, Same, Relay
  <2> HIDE DEF t
  <2>2. Placed(s, t)
    BY <1>0, <1>3, <2>1, StillPlaced
  <2> QED
    BY <1>0, <1>3, <2>2, BecomesPlaced DEF t
<1>4. CASE Return(c, [q EXCEPT !.target = "open"])
  <2> DEFINE t == [[q EXCEPT !.target = "open"] EXCEPT !.pc = "closed"]
  <2>1. t.pc = "closed" /\ Same(q, t)
    BY <1>0 DEF SessionState, Same
  <2> HIDE DEF t
  <2>2. Placed(s, t)
    BY <1>0, <2>1, StillPlaced
  <2> QED
    BY <1>0, <1>4, <2>2, BecomesPlaced DEF Return, t
<1> QED
  BY <1>1, <1>2, <1>3, <1>4 DEF BindTCP, BindAccept, Unsupported, sendErrorResponse, At

(* The relay goes on with the byte that follows the request and what of    *)
(* the data was relayed.                                                   *)
LEMMA CopyUpPlaced ==
  ASSUME IInv, AllPlaced, AllMeanIt, NEW c \in Conns, CopyUp(c)
  PROVE  AllPlaced'
<1> DEFINE s == script[c]
           q == sess[c]
           b == In(c)
           x == b[1]
           t == [q EXCEPT !.up = Append(@, x), !.read = @ + 1]
           e == Len(Asked(s))
           l == Len(q.up)
<1>0. /\ q \in SessionState /\ MeansIt(s) /\ Placed(s, q) /\ q.pc = "relay" /\ UNCHANGED script
      /\ q.read \in Nat /\ q.sent \in Nat /\ q.sent <= Len(Bytes(s)) /\ Len(b) = q.sent - q.read
      /\ (\A i \in 1 .. Len(b) : b[i] = Bytes(s)[q.read + i]) /\ Len(b) \in Nat
      /\ Len(b) >= 1 /\ Becomes(c, t)
  BY InPlace DEF AllPlaced, AllMeanIt, CopyUp, At, Arrived
<1>1. /\ e \in Nat /\ Len(s.data) \in Nat /\ Len(Bytes(s)) = e + Len(s.data)
      /\ \A i \in 1 .. Len(s.data) : Bytes(s)[e + i] = s.data[i]
  BY <1>0, BytesLayout DEF Layout
<1>2. q.read = e + l /\ q.up \in Seq(Byte) /\ l \in Nat
  <2>1. q.up \in Seq(Byte)
    BY <1>0 DEF SessionState
  <2>2. l \in Nat
    BY <2>1
  <2> HIDE DEF l
  <2> QED
    BY <1>0, <2>1, <2>2 DEF Placed, l
<1> HIDE DEF e, b
<1>3. l + 1 <= Len(s.data)
  <2> HIDE DEF l
  <2> QED
    BY <1>0, <1>1, <1>2
<1>4. x = s.data[l + 1]
  <2> HIDE DEF l
  <2>1. x = Bytes(s)[q.read + 1]
    BY <1>0
  <2>2. q.read + 1 = e + (l + 1) /\ l + 1 \in 1 .. Len(s.data)
    BY <1>1, <1>2, <1>3
  <2> QED
    BY <1>1, <2>1, <2>2
<1> HIDE DEF x
<1>5. /\ t.up = Append(q.up, x) /\ t.read = q.read + 1 /\ t.pc = "relay"
      /\ t.addr = q.addr /\ t.network = q.network
  BY <1>0 DEF SessionState
<1>6. Len(t.up) = l + 1 /\ \A i \in 1 .. l + 1 : t.up[i] = IF i = l + 1 THEN x ELSE q.up[i]
  <2> HIDE DEF t
  <2>1. \A y : Len(Append(q.up, y)) = Len(q.up) + 1
    BY <1>2
  <2>2. \A y : \A i \in 1 .. Len(q.up) + 1 :
          Append(q.up, y)[i] = IF i = Len(q.up) + 1 THEN y ELSE q.up[i]
    BY <1>2
  <2> QED
    BY <1>5, <2>1, <2>2
<1> HIDE DEF t
<1>7. \A i \in 1 .. Len(t.up) : t.up[i] = s.data[i]
  <2>1. \A i \in 1 .. l : q.up[i] = s.data[i]
    BY <1>0 DEF Placed
  <2> SUFFICES ASSUME NEW i \in 1 .. Len(t.up) PROVE t.up[i] = s.data[i]
    OBVIOUS
  <2>2. i = l + 1 \/ i \in 1 .. l
    BY <1>2, <1>6
  <2> QED
    BY <1>4, <1>6, <2>1, <2>2
<1>8. t.read = e + Len(t.up)
  <2> HIDE DEF l
  <2> QED
    BY <1>1, <1>2, <1>5, <1>6
<1>9. Placed(s, t)
  <2>1. t.network # "none" => t.addr = s.addr /\ t.network = Network(s.addr)
                                /\ Known(s.addr)
    BY <1>0, <1>5 DEF Placed
  <2> QED
    BY <1>3, <1>5, <1>6, <1>7, <1>8, <2>1 DEF Placed, e
<1> QED
  BY <1>0, <1>9, BecomesPlaced DEF t

LEMMA OthersPlaced ==
  ASSUME IInv, AllPlaced, AllMeanIt, NEW c \in Conns,
         \/ CopyUpEnds(c) \/ CopyDown(c) \/ CopyDownWrite(c) \/ CopyDownEnds(c)
         \/ TargetEnds(c) \/ Send(c) \/ Leave(c) \/ Accept(c)
  PROVE  AllPlaced'
<1> DEFINE s == script[c]
           q == sess[c]
<1>0. q \in SessionState /\ MeansIt(s) /\ Placed(s, q) /\ UNCHANGED script
  BY InPlace DEF AllPlaced, AllMeanIt, CopyUpEnds, CopyDown, CopyDownWrite, CopyDownEnds,
                 TargetEnds, Send, Leave, Accept
<1>1. ASSUME NEW t, Becomes(c, t), Same(q, t),
             t.pc = q.pc \/ t.pc = "closed" \/ (q.pc = "new" /\ t.pc = "hello")
      PROVE  AllPlaced'
  BY <1>0, <1>1, StillPlaced, BecomesPlaced
<1>2. CASE CopyUpEnds(c)
  BY <1>0, <1>1, <1>2 DEF CopyUpEnds, SessionState, Same
<1>3. CASE CopyDown(c)
  BY <1>0, <1>1, <1>3 DEF CopyDown, SessionState, Same
<1>4. CASE CopyDownWrite(c)
  BY <1>0, <1>1, <1>4 DEF CopyDownWrite, SessionState, Same
<1>5. CASE CopyDownEnds(c)
  BY <1>0, <1>1, <1>5 DEF CopyDownEnds, Return, SessionState, Same
<1>6. CASE TargetEnds(c)
  BY <1>0, <1>1, <1>6 DEF TargetEnds, SessionState, Same
<1>7. CASE Send(c)
  BY <1>0, <1>1, <1>7 DEF Send, SessionState, Same
<1>8. CASE Leave(c)
  BY <1>0, <1>1, <1>8 DEF Leave, SessionState, Same
<1>9. CASE Accept(c)
  BY <1>0, <1>1, <1>9 DEF Accept, At, SessionState, Same
<1> QED
  BY <1>2, <1>3, <1>4, <1>5, <1>6, <1>7, <1>8, <1>9

LEMMA PlacedInit == Init /\ AllMeanIt => AllPlaced
<1> SUFFICES ASSUME Init, AllMeanIt, NEW c \in Conns PROVE Placed(script[c], sess[c])
  BY DEF AllPlaced
<1>1. script[c] \in Scripts /\ MeansIt(script[c])
  BY DEF Init, AllMeanIt
<1>2. Len(script[c].data) \in Nat
  BY <1>1, BytesLayout DEF Layout
<1>3. sess[c].pc = "new" /\ sess[c].read = 0 /\ sess[c].up = <<>> /\ sess[c].network = "none"
  BY DEF Init
<1>4. Len(sess[c].up) = 0
  BY <1>3
<1> QED
  BY <1>2, <1>3, <1>4 DEF Placed

LEMMA PlacedStep == IInv /\ AllPlaced /\ AllMeanIt /\ [Next]_vars => AllPlaced'
<1> SUFFICES ASSUME IInv, AllPlaced, AllMeanIt, [Next]_vars PROVE AllPlaced'
  OBVIOUS
<1>1. ASSUME NEW c \in Conns, Handle(c) \/ CopyUpEnds(c) \/ Peers(c) \/ Client(c) \/ Accept(c)
      PROVE  AllPlaced'
  BY <1>1, HandShakePlaced, AuthPlaced, RequestPlaced, DialPlaced, BindPlaced, CopyUpPlaced,
     OthersPlaced DEF Handle, Peers, Client
<1>2. ASSUME UNCHANGED <<script, sess>> PROVE AllPlaced'
  BY <1>2 DEF AllPlaced
<1>3. CASE ListenAndServe \/ CloseListener \/ AcceptErr \/ AcceptFails \/ Shutdown
  BY <1>2, <1>3 DEF ListenAndServe, CloseListener, AcceptErr, AcceptFails, Shutdown
<1>4. CASE \E u \in Accounts : SetUser(u[1], u[2]) \/ DelUser(u[1])
  BY <1>2, <1>4 DEF SetUser, DelUser
<1>5. CASE UNCHANGED vars
  BY <1>2, <1>5 DEF vars
<1> QED
  BY <1>1, <1>3, <1>4, <1>5 DEF Next, Serve

(* For any number of connections, any methods, names, addresses and data,  *)
(* and wherever the bytes are cut: the Handler is asked for the address    *)
(* that the client sent, in the network of its type, and what io.Copy      *)
(* writes to the target is what the client sent after its request, from    *)
(* its first byte on.                                                      *)
THEOREM TargetGetsItsData == ASSUME AllMeanIt PROVE Spec => []RelayFaithful
<1>1. IInv /\ AllPlaced => RelayFaithful
  <2> SUFFICES ASSUME IInv, AllPlaced, NEW c \in Conns
               PROVE  /\ sess[c].network # "none" =>
                           /\ sess[c].addr = script[c].addr
                           /\ sess[c].network = "tcp4" <=> script[c].addr.type = IPv4Addr
                           /\ sess[c].network = "tcp6" <=> script[c].addr.type = IPv6Addr
                      /\ IsPrefix(sess[c].up, script[c].data)
    BY DEF RelayFaithful
  <2> DEFINE s == script[c]
             q == sess[c]
             up == q.up
  <2>1. Placed(s, q) /\ MeansIt(s) /\ q \in SessionState
    BY InPlace DEF AllPlaced, AllMeanIt
  <2>2. up \in Seq(Byte) /\ s.data \in Seq(Byte)
    BY <2>1 DEF SessionState, MeansIt
  <2>3. Len(up) <= Len(s.data) /\ \A i \in 1 .. Len(up) : up[i] = s.data[i]
    BY <2>1 DEF Placed
  <2>4. IsPrefix(up, s.data)
    <3> DEFINE d == s.data
    <3>1. SubSeq(up, 1, Len(up)) = [i \in 1 .. Len(up) |-> up[i]]
      BY <2>2
    <3>2. SubSeq(d, 1, Len(up)) = [i \in 1 .. Len(up) |-> d[i]]
      BY <2>2, <2>3
    <3> QED
      BY <2>3, <3>1, <3>2 DEF IsPrefix
  <2>5. /\ Network(s.addr) = "tcp4" <=> s.addr.type = IPv4Addr
        /\ Network(s.addr) = "tcp6" <=> s.addr.type = IPv6Addr
    BY DEF Network, IPv4Addr, IPv6Addr
  <2> QED
    BY <2>1, <2>4, <2>5 DEF Placed
<1>2. Init => AllPlaced
  BY PlacedInit
<1>3. IInv /\ AllPlaced /\ [Next]_vars => AllPlaced'
  BY PlacedStep
<1> QED
  BY <1>1, <1>2, <1>3, Invariance, PTL DEF Spec

=============================================================================
