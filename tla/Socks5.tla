------------------------------- MODULE Socks5 -------------------------------
(***************************************************************************)
(* The socks5 server (src/socks5) with the Handler of src/wssocks: Serve   *)
(* and Shutdown, and for each connection Handle with its handshake,        *)
(* authentication, request and relay.                                      *)
(*                                                                         *)
(* What a client sends is a string of bytes that arrive one by one and may *)
(* end anywhere; a reader blocks until the bytes it asked for are there.   *)
(* What the server writes is modelled by its meaning, one reply at a time, *)
(* without the address that a response carries.                            *)
(***************************************************************************)
EXTENDS SequencesExt

CONSTANTS
  Conns,     \* the connections that clients make
  Scripts,   \* what a client may send
  Accounts,  \* user name and password pairs that SetUser may be given
  MaxDown    \* bound: chunks the target of a connection sends

Byte == 0 .. 255

VARIABLES
  server,   \* Server.ctx, the listener, where Serve is
  guarder,  \* Server.UserGuarder is set
  users,    \* MemoryUserGuarder.data, as pairs
  script,   \* what the client of each connection sends, in all
  sess      \* the connections, each with the state of its Handle

vars == <<server, guarder, users, script, sess>>

-----------------------------------------------------------------------------
NoAuth == 0
UserAuth == 2
CmdDialTCP == 1
CmdBindTCP == 2
IPv4Addr == 1
DomainAddr == 3
IPv6Addr == 4

StatusCode ==
  {"Granted", "Failed", "Blocked", "NetworkUnreachable", "HostUnreachable",
   "Refused", "CommandUnsupported", "AddrTypeUnsupported"}
AuthReply == {"noAuth", "noAcceptableAuth", "authorized", "unauthorized"}

MaxPort == 65535
AddrPort == [type : Byte, data : Seq(Byte), port : 0 .. MaxPort]
NoAddr == [type |-> 0, data |-> <<>>, port |-> 0]

(* sent, read: how many bytes the client has sent and the server has read. *)
(* gone: the client has left.  network: what the Handler was asked for.    *)
(* up: the bytes written to the target; down: the copying to the client.   *)
SessionState ==
  [pc : {"new", "hello", "auth", "request", "command", "accept", "relay", "closed"},
   sent : Nat, read : Nat, gone : BOOLEAN, methods : Seq(Byte),
   cmd : Byte, addr : AddrPort,
   network : {"none", "tcp", "tcp4", "tcp6"}, out : Seq(StatusCode \cup AuthReply),
   target : {"none", "open", "ended"}, copier : {"none", "run", "ended"},
   up : Seq(Byte), down : {"read", "write"}, got : 0 .. MaxDown]

Init ==
  /\ server = [ctx |-> "nil", listening |-> FALSE, serve |-> "no"]
  /\ guarder \in BOOLEAN
  /\ users = {}
  /\ script \in [Conns -> Scripts]
  /\ sess = [c \in Conns |->
       [pc |-> "new", sent |-> 0, read |-> 0, gone |-> FALSE, methods |-> <<>>,
        cmd |-> 0, addr |-> NoAddr, network |-> "none", out |-> <<>>,
        target |-> "none", copier |-> "none", up |-> <<>>, down |-> "read",
        got |-> 0]]

-----------------------------------------------------------------------------
(* The address codec.                                                      *)

MarshalBinary(a) ==
  <<a.type>> \o (IF a.type = DomainAddr THEN <<Len(a.data)>> ELSE <<>>)
    \o a.data \o <<a.port \div 256, a.port % 256>>

(* Mutant: one byte of a domain too few.                                   *)
AddrLenShort(b) ==
  IF b[1] = IPv4Addr THEN 7 ELSE IF b[1] = IPv6Addr THEN 19
  ELSE IF Len(b) < 2 THEN 2 ELSE 3 + b[2]

(* How many bytes an address takes, as far as b, its first ones, tells.    *)
AddrLen(b) ==
  IF b[1] = IPv4Addr THEN 7 ELSE IF b[1] = IPv6Addr THEN 19
  ELSE IF Len(b) < 2 THEN 2 ELSE 4 + b[2]

ReadFrom(b) ==
  LET n == AddrLen(b) IN
  [type |-> b[1], data |-> SubSeq(b, IF b[1] = DomainAddr THEN 3 ELSE 2, n - 2),
   port |-> b[n - 1] * 256 + b[n]]

(* What a client sends, in all.                                            *)
Bytes(s) ==
  <<s.hello, Len(s.methods)>> \o s.methods
    \o FlattenSeq([i \in DOMAIN s.cred |->
         <<1, Len(s.cred[i][1])>> \o s.cred[i][1] \o <<Len(s.cred[i][2])>> \o s.cred[i][2]])
    \o <<s.ver, s.cmd, 0>> \o MarshalBinary(s.addr) \o s.data

(* Clients send bytes; names and passwords are bytes.                      *)
ASSUME ScriptAssumption ==
  /\ MaxDown \in Nat
  /\ \A s \in Scripts : Bytes(s) \in Seq(Byte)
  /\ Accounts \subseteq Seq(Byte) \X Seq(Byte)

-----------------------------------------------------------------------------
(* Reading and writing on the connection of a client.                      *)

At(c, pc) == sess[c].pc = pc
In(c) == SubSeq(Bytes(script[c]), sess[c].read + 1, sess[c].sent)

(* Mutant: a short read is taken for a full one.                           *)
ArrivedSome(c, n) == In(c) # <<>>

(* io.ReadFull and readByte: n bytes are there, or will never be.          *)
Arrived(c, n) == Len(In(c)) >= n

(* Mutant: the end of the stream is not an error.                          *)
ReadGoesOn(c) == FALSE

ReadFails(c) == sess[c].gone

Becomes(c, s) == sess' = [sess EXCEPT ![c] = s]
Return(c, s) == Becomes(c, [s EXCEPT !.pc = "closed"])

(* A reply is written; that may fail once the client has left, and then    *)
(* Handle returns.                                                         *)
Reply(c, s, r) ==
  \/ Becomes(c, [s EXCEPT !.out = Append(@, r)])
  \/ sess[c].gone /\ Return(c, s)

(* sendErrorResponse.  An error is a set: what it is, or what its message  *)
(* says; "blocked" stands for "not allowed" and for ErrTargetBlocked too.  *)
StatusOf(err) ==
  IF "ErrUnsupportVersion" \in err THEN "AddrTypeUnsupported"
  ELSE IF "ErrUnsupportCommand" \in err THEN "CommandUnsupported"
  ELSE IF "refused" \in err THEN "Refused"
  ELSE IF "unreachable" \in err
       THEN IF "network" \in err THEN "NetworkUnreachable" ELSE "HostUnreachable"
  ELSE IF "blocked" \in err THEN "Blocked" ELSE "Failed"
sendErrorResponse(c, s, err) == Reply(c, [s EXCEPT !.pc = "closed"], StatusOf(err))

-----------------------------------------------------------------------------
(* Handle, up to the request.                                              *)

HandShakeLen(b) == IF Len(b) < 2 THEN 2 ELSE 2 + b[2]

readHandShake(c) ==
  LET b == In(c)
      n == HandShakeLen(b) IN
  /\ At(c, "hello")
  /\ \/ Arrived(c, 1) /\ b[1] # 5 /\ Return(c, sess[c])
     \/ ReadFails(c) /\ Return(c, sess[c])
     \/ /\ Arrived(c, n) /\ b[1] = 5
        /\ Becomes(c, [sess[c] EXCEPT !.pc = "auth", !.read = @ + n,
                                      !.methods = SubSeq(b, 3, n)])
  /\ UNCHANGED <<server, guarder, users, script>>

(* The record of RFC 1929.                                                 *)
UserLen(b) ==
  LET i == 3 + b[2] IN
  IF Len(b) < 2 THEN 2 ELSE IF Len(b) < i THEN i ELSE i + b[i]

Auth(b) ==
  <<SubSeq(b, 3, 2 + b[2]), SubSeq(b, 4 + b[2], UserLen(b))>> \in users

(* Mutant: the session goes on with the request.                           *)
UnauthorizedGoesOn(c, s) == Reply(c, [s EXCEPT !.pc = "request"], "unauthorized")

Unauthorized(c, s) == Reply(c, [s EXCEPT !.pc = "closed"], "unauthorized")

(* tryAuth for the next method offered; nothing tells the client that      *)
(* UserAuth was chosen.                                                    *)
tryUserAuth(c) ==
  LET b == In(c)
      s == [sess[c] EXCEPT !.read = @ + UserLen(b)] IN
  \/ Arrived(c, 1) /\ b[1] # 1 /\ Return(c, sess[c])
  \/ ReadFails(c) /\ Return(c, sess[c])
  \/ /\ Arrived(c, UserLen(b)) /\ b[1] = 1
     /\ IF Auth(b) THEN Reply(c, [s EXCEPT !.pc = "request"], "authorized")
        ELSE Unauthorized(c, s)

tryAuth(c) ==
  LET m == sess[c].methods IN
  /\ At(c, "auth")
  /\ IF m = <<>> THEN Reply(c, [sess[c] EXCEPT !.pc = "closed"], "noAcceptableAuth")
     ELSE IF Head(m) = NoAuth THEN Reply(c, [sess[c] EXCEPT !.pc = "request"], "noAuth")
     ELSE IF Head(m) = UserAuth /\ guarder THEN tryUserAuth(c)
     ELSE Becomes(c, [sess[c] EXCEPT !.methods = Tail(@)])
  /\ UNCHANGED <<server, guarder, users, script>>

(* The version, the command, a reserved byte and the address.              *)
readRequest(c) ==
  LET b == In(c)
      a == SubSeq(b, 4, Len(b))
      n == 3 + AddrLen(a)
      known == a[1] \in {IPv4Addr, DomainAddr, IPv6Addr} IN
  /\ At(c, "request")
  /\ \/ Arrived(c, 1) /\ b[1] # 5 /\ sendErrorResponse(c, sess[c], {"version changed"})
     \/ ReadFails(c) /\ sendErrorResponse(c, sess[c], {"EOF"})
     \/ /\ Arrived(c, 4) /\ b[1] = 5
        /\ ~known /\ sendErrorResponse(c, sess[c], {"ErrUnsupportVersion"})
     \/ /\ Arrived(c, 4) /\ b[1] = 5
        /\ known /\ Arrived(c, n)
        /\ Becomes(c, [sess[c] EXCEPT !.pc = "command", !.read = @ + n, !.cmd = b[2],
                                      !.addr = ReadFrom(a)])
  /\ UNCHANGED <<server, guarder, users, script>>

-----------------------------------------------------------------------------
(* The commands.  A Handler may always fail, and does when ctx is done.    *)

HandlerErr == {{}, {"refused"}, {"unreachable"}, {"network", "unreachable"}, {"blocked"}}

(* The Handler of wssocks asks the Client for a stream.                    *)
Network(a) ==
  IF a.type = IPv4Addr THEN "tcp4" ELSE IF a.type = IPv6Addr THEN "tcp6" ELSE "tcp"

Relay(s) == [s EXCEPT !.pc = "relay", !.copier = "run"]

(* Granted, go io.Copy(conn, c), io.Copy(c, conn); the target stays open   *)
(* if the response cannot be written.                                      *)
DialTCP(c) ==
  LET s == [sess[c] EXCEPT !.network = Network(sess[c].addr)] IN
  /\ At(c, "command") /\ sess[c].cmd = CmdDialTCP
  /\ \/ \E err \in HandlerErr : sendErrorResponse(c, s, err)
     \/ Becomes(c, [Relay(s) EXCEPT !.target = "open", !.out = Append(@, "Granted")])
     \/ sess[c].gone /\ Return(c, [s EXCEPT !.target = "open"])
  /\ UNCHANGED <<server, guarder, users, script>>

(* The Handler of wssocks never binds, another one may: then Handle waits  *)
(* for somebody to connect.                                                *)
BindTCP(c) ==
  /\ At(c, "command") /\ sess[c].cmd = CmdBindTCP
  /\ \/ sendErrorResponse(c, sess[c], {"ErrUnsupportCommand"})
     \/ Reply(c, [sess[c] EXCEPT !.pc = "accept"], "Granted")
  /\ UNCHANGED <<server, guarder, users, script>>

BindAccept(c) ==
  /\ At(c, "accept")
  /\ \/ sendErrorResponse(c, sess[c], {})
     \/ Becomes(c, [Relay(sess[c]) EXCEPT !.target = "open", !.out = Append(@, "Granted")])
     \/ sess[c].gone /\ Return(c, [sess[c] EXCEPT !.target = "open"])
  /\ UNCHANGED <<server, guarder, users, script>>

(* CmdForwardUDP, whose code is never reached, and unknown commands.       *)
Unsupported(c) ==
  /\ At(c, "command") /\ sess[c].cmd \notin {CmdDialTCP, CmdBindTCP}
  /\ Reply(c, [sess[c] EXCEPT !.pc = "closed"], "CommandUnsupported")
  /\ UNCHANGED <<server, guarder, users, script>>

-----------------------------------------------------------------------------
(* The relay.                                                              *)

(* go io.Copy(conn, c): a byte is read and written.                        *)
CopyUp(c) ==
  /\ At(c, "relay") /\ sess[c].copier = "run"
  /\ sess[c].target = "open" /\ Arrived(c, 1)
  /\ Becomes(c, [sess[c] EXCEPT !.up = Append(@, In(c)[1]), !.read = @ + 1])
  /\ UNCHANGED <<server, guarder, users, script>>

CopyUpEnds(c) ==
  /\ sess[c].copier = "run"
  /\ At(c, "closed") \/ ReadFails(c) \/ (sess[c].target = "ended" /\ Arrived(c, 1))
  /\ Becomes(c, [sess[c] EXCEPT !.copier = "ended"])
  /\ UNCHANGED <<server, guarder, users, script>>

(* io.Copy(c, conn): a chunk is read, and written if the client reads.     *)
CopyDown(c) ==
  /\ At(c, "relay") /\ sess[c].target = "open" /\ sess[c].got < MaxDown
  /\ sess[c].down = "read"
  /\ Becomes(c, [sess[c] EXCEPT !.down = "write", !.got = @ + 1])
  /\ UNCHANGED <<server, guarder, users, script>>

CopyDownWrite(c) ==
  /\ At(c, "relay") /\ sess[c].down = "write"
  /\ Becomes(c, [sess[c] EXCEPT !.down = "read"])
  /\ UNCHANGED <<server, guarder, users, script>>

(* The copying down ends, and with it Handle.                              *)
CopyDownEnds(c) ==
  /\ At(c, "relay")
  /\ IF sess[c].down = "read" THEN sess[c].target = "ended" ELSE sess[c].gone
  /\ Return(c, sess[c])
  /\ UNCHANGED <<server, guarder, users, script>>

-----------------------------------------------------------------------------
(* Serve and Shutdown.                                                     *)

(* ListenAndServe: net.Listen, which may fail, and init, which makes the   *)
(* context.                                                                *)
ListenAndServe ==
  /\ server.serve = "no"
  /\ \/ server' = [ctx |-> "live", listening |-> TRUE, serve |-> "run"]
     \/ server' = [server EXCEPT !.serve = "returned"]
  /\ UNCHANGED <<guarder, users, script, sess>>

Accept(c) ==
  /\ server.serve = "run" /\ server.listening
  /\ At(c, "new")
  /\ Becomes(c, [sess[c] EXCEPT !.pc = "hello"])
  /\ UNCHANGED <<server, guarder, users, script>>

(* Mutant: nobody closes the listener.                                     *)
ListenerStays == FALSE

(* The goroutine of Serve that waits for the context.                      *)
CloseListener ==
  /\ server.serve = "run" /\ server.ctx = "done" /\ server.listening
  /\ server' = [server EXCEPT !.listening = FALSE]
  /\ UNCHANGED <<guarder, users, script, sess>>

AcceptErr ==
  /\ server.serve = "run" /\ ~server.listening
  /\ server' = [server EXCEPT !.serve = "returned"]
  /\ UNCHANGED <<guarder, users, script, sess>>

(* Any other error of Accept ends Serve too, and the listener stays open.  *)
AcceptFails ==
  /\ server.serve = "run" /\ server.listening
  /\ server' = [server EXCEPT !.serve = "returned"]
  /\ UNCHANGED <<guarder, users, script, sess>>

(* Before init there is no cancel to call: a nil function, a panic.        *)
Shutdown ==
  /\ server.ctx # "done"
  /\ server' = IF server.ctx = "nil" THEN [server EXCEPT !.serve = "panic"]
               ELSE [server EXCEPT !.ctx = "done"]
  /\ UNCHANGED <<guarder, users, script, sess>>

-----------------------------------------------------------------------------
(* The accounts and the environment.                                       *)

SetUser(id, pw) ==
  /\ users' = {u \in users : u[1] # id} \cup {<<id, pw>>}
  /\ UNCHANGED <<server, guarder, script, sess>>

DelUser(id) ==
  /\ users' = {u \in users : u[1] # id}
  /\ UNCHANGED <<server, guarder, script, sess>>

Send(c) ==
  /\ ~At(c, "new") /\ ~At(c, "closed") /\ ~sess[c].gone
  /\ sess[c].sent < Len(Bytes(script[c]))
  /\ Becomes(c, [sess[c] EXCEPT !.sent = @ + 1])
  /\ UNCHANGED <<server, guarder, users, script>>

Leave(c) ==
  /\ ~At(c, "new") /\ ~sess[c].gone
  /\ Becomes(c, [sess[c] EXCEPT !.gone = TRUE])
  /\ UNCHANGED <<server, guarder, users, script>>

TargetEnds(c) ==
  /\ sess[c].target = "open"
  /\ Becomes(c, [sess[c] EXCEPT !.target = "ended"])
  /\ UNCHANGED <<server, guarder, users, script>>

-----------------------------------------------------------------------------
Crashed == server.serve = "panic"

Handle(c) ==
  \/ readHandShake(c) \/ tryAuth(c) \/ readRequest(c)
  \/ DialTCP(c) \/ BindTCP(c) \/ Unsupported(c) \/ CopyDownEnds(c)

Client(c) == Send(c) \/ Leave(c)
Peers(c) ==
  BindAccept(c) \/ CopyUp(c) \/ CopyDown(c) \/ CopyDownWrite(c) \/ TargetEnds(c)
Serve ==
  \/ ListenAndServe \/ CloseListener \/ AcceptErr \/ AcceptFails
  \/ \E c \in Conns : Accept(c)

Next ==
  /\ ~Crashed
  /\ \/ Serve \/ Shutdown
     \/ \E c \in Conns : Handle(c) \/ CopyUpEnds(c) \/ Peers(c) \/ Client(c)
     \/ \E u \in Accounts : SetUser(u[1], u[2]) \/ DelUser(u[1])

Spec == Init /\ [][Next]_vars

(* Handle waits for its Handler, which need not return when its ctx is     *)
(* done: the one of wssocks dials the server without looking at that ctx,  *)
(* and Conn.DialContext may get stuck on its own lock.                     *)
AwaitsHandler(c) == At(c, "command") /\ sess[c].cmd \in {CmdDialTCP, CmdBindTCP}

(* The goroutines of the server are scheduled.  Nothing is owed by         *)
(* Handlers, clients, targets and whoever connects to a bound port.        *)
Fairness ==
  /\ WF_vars(~Crashed /\ (CloseListener \/ AcceptErr))
  /\ \A c \in Conns : /\ WF_vars(~Crashed /\ ~AwaitsHandler(c) /\ Handle(c))
                      /\ WF_vars(~Crashed /\ CopyUpEnds(c))

FairSpec == Spec /\ Fairness

-----------------------------------------------------------------------------
(* Type correctness of the server and of its connections; no reader goes   *)
(* beyond what the client has sent.                                        *)
TypeOK ==
  /\ server \in [ctx : {"nil", "live", "done"}, listening : BOOLEAN,
                 serve : {"no", "run", "returned", "panic"}]
  /\ guarder \in BOOLEAN
  /\ users \subseteq Accounts
  /\ script \in [Conns -> Scripts]
  /\ sess \in [Conns -> SessionState]
  /\ \A c \in Conns : sess[c].read <= sess[c].sent

(* The target that the Handler is asked for is the one the client named,   *)
(* with the network of its family, and what the target receives is what    *)
(* the client sent after its request: wherever the bytes are cut, and      *)
(* whatever went before them.                                              *)
RelayFaithful ==
  \A c \in Conns :
    /\ sess[c].network # "none" =>
         /\ sess[c].addr = script[c].addr
         /\ sess[c].network = "tcp4" <=> script[c].addr.type = IPv4Addr
         /\ sess[c].network = "tcp6" <=> script[c].addr.type = IPv6Addr
    /\ IsPrefix(sess[c].up, script[c].data)

(* The replies of a connection: the outcome of the authentication comes    *)
(* first, a response only after a good one, a second response only after   *)
(* the first one of BindTCP, and a bad one is the last thing Handle does.  *)
(* Granted with a relay means that there is a target.                      *)
RepliesInOrder ==
  \A c \in Conns : LET out == sess[c].out IN
    /\ out # <<>> => out[1] \in AuthReply
    /\ \A i \in 2 .. Len(out) :
         /\ out[i] \in StatusCode
         /\ out[i - 1] \in {"noAuth", "authorized"}
              \/ (out[i - 1] = "Granted" /\ i = 3 /\ sess[c].cmd = CmdBindTCP)
    /\ out # <<>> /\ Last(out) \notin {"noAuth", "authorized", "Granted"}
         => At(c, "closed")
    /\ At(c, "relay") => sess[c].target # "none" /\ Last(out) = "Granted"

(* When the client has left, Handle returns unless it waits for the        *)
(* Handler, for the target or for somebody to connect; when the target has *)
(* ended too, or Handle does not wait for the client to read, all of its   *)
(* goroutines end.                                                         *)
HandleReturns ==
  \A c \in Conns :
    /\ sess[c].gone
         ~> (Crashed \/ AwaitsHandler(c) \/ sess[c].pc \in {"accept", "relay", "closed"})
    /\ (sess[c].target = "ended" /\ (sess[c].gone \/ sess[c].down = "read"))
         ~> (Crashed \/ (At(c, "closed") /\ sess[c].copier # "run"))

(* After Shutdown, Serve returns.                                          *)
ShutdownStopsServe == server.ctx = "done" ~> (Crashed \/ server.serve = "returned")

=============================================================================
