----------------------------- MODULE ClientPool -----------------------------
(***************************************************************************)
(* The connection pools of wpn.Client (src/client.go, src/connpool.go):    *)
(* concurrent DialContext, ListenPacketContext and Ping calls that share   *)
(* them, the goroutines that refill the idle pool and that move a Conn     *)
(* back when its pipe is closed, and Shutdown.                             *)
(*                                                                         *)
(* A method of connPool is one step, but for TakeOr, which keeps the mutex *)
(* of the pool while it dials the server.  A Conn is what module Conn says *)
(* of it: only an idle one can be dialed, a stream becomes idle again some *)
(* time after its pipe was closed, a packet Conn never does, and its lock  *)
(* is held while data is copied into a pipe that nobody reads.             *)
(***************************************************************************)
EXTENDS SequencesExt

CONSTANTS
  Call,         \* the calls of DialContext, ListenPacketContext and Ping
  Mix,          \* what they may be: functions from Call to the three of them
  Breaks,       \* the statuses in which a Conn may break by itself
  MaxIdleConn,
  MaxConn       \* bound: websockets the server accepts

NoCall == "none"

ASSUME PoolAssumption ==
  /\ MaxIdleConn \in Nat /\ MaxConn \in Nat /\ MaxConn >= MaxIdleConn /\ NoCall \notin Call
  /\ Mix \subseteq [Call -> {"stream", "packet", "ping"}]
  /\ Breaks \subseteq {"Idle", "stream", "packet"}

VARIABLES
  pool,      \* idleConns, streamConns and packetConns: their data
  mux,       \* the call that keeps the mutex of idleConns, in TakeOr
  made,      \* the number of Conns made; they are 1 .. made
  status,    \* Conn.status
  call,      \* the calls, each with its pipe and the goroutine watching it
  adding,    \* the addIdleConn goroutines that dial the server
  fresh,     \* the Conns that addIdleConn has made and not put yet
  shutdown,  \* where the call of Shutdown is; the context is cancelled first
  closing,   \* the Conns that Shutdown has taken out of a pool and has to Close
  held       \* the Conns whose lock is held by a copy into their pipe

vars == <<pool, mux, made, status, call, adding, fresh, shutdown, closing, held>>

-----------------------------------------------------------------------------
Conn == 1 .. MaxConn
NoConn == 0
Kind == {"stream", "packet"}
PoolName == {"idle"} \cup Kind
Status == {"none", "Idle", "stream", "packet", "Closed"}
ShutdownPC == {"no", "clear", "lenStream", "lenPacket", "wait", "sweepIdle",
               "sweepStream", "sweepPacket", "ok", "deadline"}

(* op: the pool the call will use, or "ping".  mover: the goroutine that   *)
(* waits for the pipe to be closed.  A call is "stuck" in a dial that was  *)
(* cancelled (Conn.DialContext locks the lock it holds).                   *)
CallState ==
  [pc : {"new", "newConn", "len", "dial", "stuck", "ping", "putIdle", "putUsed",
         "defer", "returned", "failed"},
   op : Kind \cup {"ping"}, conn : Conn \cup {NoConn},
   pipe : {"none", "open", "closed"}, mover : {"none", "wait", "ended", "panic"}]

isShutingdown == shutdown # "no"

(* NewClient has filled the idle pool, as far as the server let it.        *)
Init ==
  /\ made \in 0 .. MaxIdleConn
  /\ pool = [n \in PoolName |-> IF n = "idle" THEN [i \in 1 .. made |-> i] ELSE <<>>]
  /\ mux = NoCall
  /\ status = [c \in Conn |-> IF c <= made THEN "Idle" ELSE "none"]
  /\ \E op \in Mix : call = [p \in Call |->
       [pc |-> "new", op |-> op[p], conn |-> NoConn, pipe |-> "none",
        mover |-> "none"]]
  /\ adding = 0
  /\ fresh = {}
  /\ shutdown = "no"
  /\ closing = <<>>
  /\ held = {}

-----------------------------------------------------------------------------
(* connPool.                                                               *)

(* Mutant: the last Conn is cut off, and was not moved into the gap.       *)
RemoveLast(q, c) == Front(q)

(* The last Conn takes the place of the one removed.                       *)
remove(q, c) ==
  Front([q EXCEPT ![SelectInSeq(q, LAMBDA v : v = c)] = Last(q)])

Put(name, c) == pool' = [pool EXCEPT ![name] = Append(@, c)]

(* Conn.Close.  It waits for the lock; it does nothing to a Conn that is   *)
(* marked as closed, and closes the pipe of another one.                   *)
Close(c, calls) ==
  /\ c \notin held
  /\ status' = [status EXCEPT ![c] = "Closed"]
  /\ call' = [p \in Call |->
       IF status[c] # "Closed" /\ calls[p].conn = c /\ calls[p].op = "stream"
          /\ calls[p].pipe = "open"
       THEN [calls[p] EXCEPT !.pipe = "closed"] ELSE calls[p]]

-----------------------------------------------------------------------------
(* A call of DialContext, ListenPacketContext or Ping.                     *)

At(p, pc) == call[p].pc = pc
Goto(p, pc) == call' = [call EXCEPT ![p].pc = pc]

(* Mutant: a Conn is taken and left in the pool.                           *)
TakenKept(q) == q

Taken(q) == Front(q)

(* getIdleConn: TakeOr.                                                    *)
TakeOr(p) ==
  /\ At(p, "new")
  /\ mux = NoCall
  /\ IF pool["idle"] # <<>>
     THEN /\ call' = [call EXCEPT ![p].pc = "len", ![p].conn = Last(pool["idle"])]
          /\ pool' = [pool EXCEPT !["idle"] = Taken(@)]
          /\ UNCHANGED mux
     ELSE Goto(p, "newConn") /\ mux' = p /\ UNCHANGED pool
  /\ UNCHANGED <<made, status, adding, fresh, shutdown, closing, held>>

(* newConn: websocket.Dial fails once the context is cancelled.            *)
newConn(c) ==
  /\ ~isShutingdown
  /\ c = made + 1 /\ c \in Conn
  /\ made' = c
  /\ status' = [status EXCEPT ![c] = "Idle"]

NewerOk(p) ==
  /\ At(p, "newConn")
  /\ newConn(made + 1)
  /\ call' = [call EXCEPT ![p].pc = "len", ![p].conn = made + 1]
  /\ mux' = NoCall
  /\ UNCHANGED <<pool, adding, fresh, shutdown, closing, held>>

(* Mutant: a Conn is returned though the server could not be dialed.       *)
NewerErrConn(p) ==
  /\ At(p, "newConn")
  /\ call' = [call EXCEPT ![p].pc = "len", ![p].conn = made + 1]
  /\ mux' = NoCall
  /\ UNCHANGED <<pool, made, status, adding, fresh, shutdown, closing, held>>

(* Mutant: the mutex is not unlocked when the server cannot be dialed.     *)
NewerErrLocked(p) ==
  /\ At(p, "newConn")
  /\ Goto(p, "len")
  /\ UNCHANGED <<pool, mux, made, status, adding, fresh, shutdown, closing, held>>

NewerErr(p) ==
  /\ At(p, "newConn")
  /\ Goto(p, "len")
  /\ mux' = NoCall
  /\ UNCHANGED <<pool, made, status, adding, fresh, shutdown, closing, held>>

(* getIdleConn: go addIdleConn if the pool is less than half full.  It may *)
(* have no Conn to return.                                                 *)
Refill(p) ==
  /\ At(p, "len")
  /\ mux = NoCall
  /\ adding' = IF Len(pool["idle"]) * 2 < MaxIdleConn THEN adding + 1 ELSE adding
  /\ Goto(p, IF call[p].conn = NoConn THEN "failed"
             ELSE IF call[p].op = "ping" THEN "ping" ELSE "dial")
  /\ UNCHANGED <<pool, mux, made, status, fresh, shutdown, closing, held>>

(* Ping keeps the Conn it took.  A ping that fails closes the Conn.        *)
Ping(p) ==
  /\ At(p, "ping")
  /\ \/ Goto(p, "returned") /\ status[call[p].conn] # "Closed" /\ UNCHANGED status
     \/ Goto(p, "failed") /\ status' = [status EXCEPT ![call[p].conn] = "Closed"]
  /\ UNCHANGED <<pool, mux, made, adding, fresh, shutdown, closing, held>>

(* Conn.DialContext, or ListenPacketContext, which take the lock.          *)
DialOk(p) ==
  LET c == call[p].conn IN
  /\ At(p, "dial")
  /\ c \notin held
  /\ status[c] = "Idle"
  /\ status' = [status EXCEPT ![c] = call[p].op]
  /\ call' = [call EXCEPT ![p].pc = "putUsed", ![p].pipe = "open"]
  /\ UNCHANGED <<pool, mux, made, adding, fresh, shutdown, closing, held>>

(* A Conn that is not idle cannot be dialed; any dial may fail.            *)
DialErr(p) ==
  /\ At(p, "dial")
  /\ call[p].conn \notin held
  /\ Goto(p, "putIdle")
  /\ UNCHANGED <<pool, mux, made, status, adding, fresh, shutdown, closing, held>>

(* A ctx that is done just when the answer has come: closeAndWaitForIdle   *)
(* locks the lock that its caller holds, and the call does not return.     *)
DialStuck(p) ==
  /\ At(p, "dial")
  /\ call[p].conn \notin held
  /\ status[call[p].conn] = "Idle"
  /\ Goto(p, "stuck")
  /\ UNCHANGED <<pool, mux, made, status, adding, fresh, shutdown, closing, held>>

PutIdle(p) ==
  /\ At(p, "putIdle")
  /\ mux = NoCall
  /\ Put("idle", call[p].conn)
  /\ Goto(p, "defer")
  /\ UNCHANGED <<mux, made, status, adding, fresh, shutdown, closing, held>>

PutUsed(p) ==
  /\ At(p, "putUsed")
  /\ Put(call[p].op, call[p].conn)
  /\ call' = [call EXCEPT ![p].pc = "defer", ![p].mover = "wait"]
  /\ UNCHANGED <<mux, made, status, adding, fresh, shutdown, closing, held>>

(* The deferred test of isShutingdown, and the deferred Close, which waits *)
(* for the lock: nobody has the pipe yet that a copy may be waiting on.    *)
Defer(p) ==
  /\ At(p, "defer")
  /\ IF isShutingdown
     THEN Close(call[p].conn, [call EXCEPT ![p].pc = "failed"])
     ELSE /\ Goto(p, IF call[p].pipe = "none" THEN "failed" ELSE "returned")
          /\ UNCHANGED status
  /\ UNCHANGED <<pool, mux, made, adding, fresh, shutdown, closing, held>>

(* The goroutine that waits for the pipe: select of two channels.          *)
MoverDone(p) ==
  /\ call[p].mover = "wait"
  /\ isShutingdown
  /\ call' = [call EXCEPT ![p].mover = "ended"]
  /\ UNCHANGED <<pool, mux, made, status, adding, fresh, shutdown, closing, held>>

(* PutFrom, which panics if the Conn is not in the source pool.            *)
PutFrom(p) ==
  LET c == call[p].conn
      src == call[p].op IN
  /\ call[p].mover = "wait"
  /\ call[p].pipe = "closed"
  /\ mux = NoCall
  /\ IF c \in ToSet(pool[src])
     THEN /\ pool' = [pool EXCEPT !["idle"] = Append(@, c), ![src] = remove(@, c)]
          /\ call' = [call EXCEPT ![p].mover = "ended"]
     ELSE /\ call' = [call EXCEPT ![p].mover = "panic"]
          /\ UNCHANGED pool
  /\ UNCHANGED <<mux, made, status, adding, fresh, shutdown, closing, held>>

-----------------------------------------------------------------------------
(* addIdleConn as a goroutine.                                             *)

AddConn ==
  /\ adding > 0
  /\ adding' = adding - 1
  /\ \/ newConn(made + 1) /\ fresh' = fresh \cup {made + 1}
     \/ UNCHANGED <<made, status, fresh>>
  /\ UNCHANGED <<pool, mux, call, shutdown, closing, held>>

AddPut(c) ==
  /\ c \in fresh
  /\ mux = NoCall
  /\ fresh' = fresh \ {c}
  /\ Put("idle", c)
  /\ UNCHANGED <<mux, made, status, call, adding, shutdown, closing, held>>

-----------------------------------------------------------------------------
(* Shutdown.                                                               *)

Cancel ==
  /\ shutdown = "no"
  /\ shutdown' = "clear"
  /\ UNCHANGED <<pool, mux, made, status, call, adding, fresh, closing, held>>

(* Clear.  Its Conns are closed one after the other, before anything else. *)
ClearPool(name) ==
  /\ closing = <<>>
  /\ name = "idle" => mux = NoCall
  /\ pool' = [pool EXCEPT ![name] = <<>>]
  /\ closing' = pool[name]
  /\ UNCHANGED <<mux, made, status, call, adding, fresh, held>>

CloseNext ==
  /\ closing # <<>>
  /\ Close(Head(closing), call)
  /\ closing' = Tail(closing)
  /\ UNCHANGED <<pool, mux, made, adding, fresh, shutdown, held>>

(* checkConns: clear the idle pool, then look at the other two.            *)
CheckIdle == shutdown = "clear" /\ ClearPool("idle") /\ shutdown' = "lenStream"

(* Mutant: streams are not waited for.                                     *)
CheckNoStream ==
  /\ shutdown = "lenStream" /\ closing = <<>>
  /\ shutdown' = "lenPacket"
  /\ UNCHANGED <<pool, mux, made, status, call, adding, fresh, closing, held>>

CheckStream ==
  /\ shutdown = "lenStream" /\ closing = <<>>
  /\ shutdown' = IF pool["stream"] = <<>> THEN "lenPacket" ELSE "wait"
  /\ UNCHANGED <<pool, mux, made, status, call, adding, fresh, closing, held>>

CheckPacket ==
  /\ shutdown = "lenPacket"
  /\ shutdown' = IF pool["packet"] = <<>> THEN "ok" ELSE "wait"
  /\ UNCHANGED <<pool, mux, made, status, call, adding, fresh, closing, held>>

(* The poll interval is over, or the ctx of Shutdown is done.              *)
Poll ==
  /\ shutdown = "wait"
  /\ shutdown' = "clear"
  /\ UNCHANGED <<pool, mux, made, status, call, adding, fresh, closing, held>>

(* Mutant: Shutdown does not look at its ctx.                              *)
DeadlineMissed == FALSE

Deadline ==
  /\ shutdown = "wait"
  /\ shutdown' = "sweepIdle"
  /\ UNCHANGED <<pool, mux, made, status, call, adding, fresh, closing, held>>

Sweep ==
  \/ shutdown = "sweepIdle" /\ ClearPool("idle") /\ shutdown' = "sweepStream"
  \/ shutdown = "sweepStream" /\ ClearPool("stream") /\ shutdown' = "sweepPacket"
  \/ shutdown = "sweepPacket" /\ ClearPool("packet") /\ shutdown' = "deadline"

-----------------------------------------------------------------------------
(* The environment: pipes are closed by their user or by the peer, whose X *)
(* is handled under the lock; data comes for a stream; Conns become idle   *)
(* again (external: module Conn) or break.                                 *)

Given(p) == call[p].pc \in {"returned", "failed"}
OpenPipes(c) == {p \in Call : call[p].conn = c /\ call[p].pipe = "open"}

ClosePipe(p) ==
  /\ call[p].pipe = "open"
  /\ Given(p) \/ call[p].conn \notin held
  /\ call' = [call EXCEPT ![p].pipe = "closed"]
  /\ UNCHANGED <<pool, mux, made, status, adding, fresh, shutdown, closing, held>>

(* handleBinary waits, with the lock, for the pipe to be read.             *)
CopyBlocks(c) ==
  /\ c \notin held
  /\ status[c] = "stream" /\ OpenPipes(c) # {}
  /\ held' = held \cup {c}
  /\ UNCHANGED <<pool, mux, made, status, call, adding, fresh, shutdown, closing>>

(* Its user reads the pipe, or it was closed.                              *)
CopyEnds(c) ==
  /\ c \in held
  /\ \A p \in OpenPipes(c) : Given(p)
  /\ held' = held \ {c}
  /\ UNCHANGED <<pool, mux, made, status, call, adding, fresh, shutdown, closing>>

ConnIdle(c) ==
  /\ status[c] = "stream" /\ c \notin held
  /\ OpenPipes(c) = {}
  /\ status' = [status EXCEPT ![c] = "Idle"]
  /\ UNCHANGED <<pool, mux, made, call, adding, fresh, shutdown, closing, held>>

(* It breaks; or its ping goroutine, which takes no lock, sees the context *)
(* of the Client done and marks it as closed.                              *)
ConnBreaks(c) ==
  /\ status[c] \in IF isShutingdown THEN {"Idle", "stream", "packet"} ELSE Breaks
  /\ status' = [status EXCEPT ![c] = "Closed"]
  /\ UNCHANGED <<pool, mux, made, call, adding, fresh, shutdown, closing, held>>

-----------------------------------------------------------------------------
CallStep(p) ==
  \/ TakeOr(p) \/ NewerOk(p) \/ NewerErr(p) \/ Refill(p) \/ Ping(p) \/ DialOk(p)
  \/ DialErr(p) \/ DialStuck(p) \/ PutIdle(p) \/ PutUsed(p) \/ Defer(p)
Mover(p) == MoverDone(p) \/ PutFrom(p)
ShutdownStep ==
  CheckIdle \/ CloseNext \/ CheckStream \/ CheckPacket \/ Poll \/ Deadline \/ Sweep

Crashed == \E p \in Call : call[p].mover = "panic"

Next ==
  /\ ~Crashed
  /\ \/ \E p \in Call : CallStep(p) \/ Mover(p) \/ ClosePipe(p)
     \/ AddConn
     \/ \E c \in Conn : AddPut(c) \/ CopyBlocks(c) \/ CopyEnds(c) \/ ConnIdle(c)
                       \/ ConnBreaks(c)
     \/ Cancel \/ ShutdownStep

Spec == Init /\ [][Next]_vars

(* What waits for the server, in websocket.Dial, in Ping and in the dial   *)
(* of a Conn, need not return before the context of the Client is done.    *)
AsksServer(p) ==
  NewerOk(p) \/ NewerErr(p) \/ Ping(p) \/ DialOk(p) \/ DialErr(p) \/ DialStuck(p)

(* The goroutines of the Client are scheduled; a lock that is unlocked     *)
(* again and again is given to who waits for it; a copy into a closed pipe *)
(* ends, one into an open pipe need not; and the ctx of Shutdown has a     *)
(* deadline, which no number of polls puts off.  No behaviour has more     *)
(* than finitely many of these steps, so that fairness for all of them     *)
(* together is fairness for each.                                          *)
Progress ==
  \/ \E p \in Call : \/ isShutingdown /\ AsksServer(p)
                     \/ Refill(p) \/ PutIdle(p) \/ PutUsed(p) \/ Defer(p)
  \/ \E c \in Conn : OpenPipes(c) = {} /\ CopyEnds(c)
  \/ CloseNext \/ Deadline \/ Sweep

Fairness ==
  /\ SF_vars(~Crashed /\ Progress)
  /\ WF_vars(~Crashed /\ (CheckIdle \/ CheckStream \/ CheckPacket))

FairSpec == Spec /\ Fairness

-----------------------------------------------------------------------------
(* Type correctness of the pools, of the calls and of the goroutines: only *)
(* Conns the server has accepted are in a pool or in the hands of a call.  *)
TypeOK ==
  /\ pool \in [PoolName -> Seq(1 .. made)]
  /\ mux \in Call \cup {NoCall}
  /\ made \in 0 .. MaxConn
  /\ status \in [Conn -> Status]
  /\ call \in [Call -> CallState]
  /\ \A p \in Call : call[p].conn <= made
  /\ adding \in Nat
  /\ fresh \subseteq 1 .. made
  /\ shutdown \in ShutdownPC
  /\ closing \in Seq(1 .. made)
  /\ held \subseteq Conn

(* The calls between taking a Conn and putting it into a pool.             *)
Holds(p, c) ==
  /\ call[p].conn = c
  /\ call[p].pc \in {"len", "dial", "stuck", "ping", "putIdle", "putUsed"}

(* A Conn has one owner: it is in one pool, once, or in the hands of one   *)
(* call or of addIdleConn.  So no two calls are given the same Conn.       *)
OneOwner ==
  /\ \A n \in PoolName : IsInjective(pool[n])
  /\ \A n, m \in PoolName : n # m => ToSet(pool[n]) \cap ToSet(pool[m]) = {}
  /\ \A n \in PoolName : ToSet(pool[n]) \cap fresh = {}
  /\ \A p \in Call, c \in Conn : Holds(p, c) =>
       /\ c \notin fresh
       /\ \A n \in PoolName : c \notin ToSet(pool[n])
       /\ \A q \in Call : Holds(q, c) => q = p

(* While a goroutine waits for a pipe to be closed, its Conn is in the     *)
(* pool from which PutFrom takes it, until Shutdown, out of patience, has  *)
(* swept that pool: before that PutFrom does not panic.                    *)
Swept == {"sweepPacket", "deadline"}
WatchedConnInPool ==
  shutdown \notin Swept => \A p \in Call :
    /\ call[p].mover = "wait" => call[p].conn \in ToSet(pool[call[p].op])
    /\ call[p].mover # "panic"

(* Shutdown that returns nil has waited for every pipe a call returned;    *)
(* when its ctx is done first, no such pipe is left on a Conn that works.  *)
ShutdownDrains ==
  \A p \in Call : At(p, "returned") /\ call[p].pipe = "open" =>
    /\ shutdown # "ok"
    /\ shutdown = "deadline" /\ closing = <<>> => status[call[p].conn] = "Closed"

(* Once the Client shuts down every call returns in the end, though it     *)
(* waits for a mutex that another one keeps while it dials the server; but *)
(* for one stuck in a cancelled dial, and for one whose deferred Close     *)
(* waits for a Conn that is for ever copying into the pipe of this call.   *)
CallReturns ==
  <>[](isShutingdown /\ ~Crashed =>
         \A p \in Call : \/ At(p, "new") \/ Given(p) \/ At(p, "stuck")
                         \/ At(p, "defer") /\ call[p].conn \in held)

(* Shutdown returns when its ctx is done, if not before; but for one that  *)
(* waits for the lock of a Conn that is for ever copying into its pipe.    *)
ShutdownReturns ==
  <>[](isShutingdown /\ ~Crashed =>
         \/ shutdown \in {"ok", "deadline"} /\ closing = <<>>
         \/ closing # <<>> /\ Head(closing) \in held)

=============================================================================
