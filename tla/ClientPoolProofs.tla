-------------------------- MODULE ClientPoolProofs --------------------------
(***************************************************************************)
(* Proofs about ClientPool: no two calls are ever given the same Conn,     *)
(* PutFrom does not panic, and Shutdown drains what it says it drains, for *)
(* any number of calls, of Conns and for every order of their steps.       *)
(***************************************************************************)
EXTENDS ClientPool, TLAPS

-----------------------------------------------------------------------------
(* The methods of connPool, seen as operations on the set of its Conns.    *)

(* r is q with c put in.                                                   *)
Added(r, q, c) ==
  /\ ToSet(r) = ToSet(q) \cup {c}
  /\ IsInjective(q) /\ c \notin ToSet(q) => IsInjective(r)

LEMMA AppendSet ==
  ASSUME NEW S, NEW q \in Seq(S), NEW c \in S
  PROVE  Added(Append(q, c), q, c)
<1> DEFINE r == Append(q, c)
<1>1. /\ Len(r) = Len(q) + 1 /\ DOMAIN r = 1 .. Len(q) + 1
      /\ \A i \in 1 .. Len(q) : r[i] = q[i]
      /\ r[Len(q) + 1] = c
      /\ Len(q) \in Nat /\ DOMAIN q = 1 .. Len(q)
  OBVIOUS
<1> HIDE DEF r
<1>2. ToSet(r) = ToSet(q) \cup {c}
  <2>1. ASSUME NEW x \in ToSet(r) PROVE x \in ToSet(q) \cup {c}
    BY <1>1 DEF ToSet
  <2>2. ASSUME NEW x \in ToSet(q) \cup {c} PROVE x \in ToSet(r)
    BY <1>1 DEF ToSet
  <2> QED
    BY <2>1, <2>2
<1>3. IsInjective(q) /\ c \notin ToSet(q) => IsInjective(r)
  BY <1>1 DEF ToSet, IsInjective
<1> QED
  BY <1>2, <1>3 DEF r, Added

LEMMA SetOfSeq ==
  ASSUME NEW S, NEW q \in Seq(S)
  PROVE  ToSet(q) \subseteq S
BY DEF ToSet

LEMMA FrontSet ==
  ASSUME NEW S, NEW q \in Seq(S), q # <<>>
  PROVE  /\ Front(q) \in Seq(S)
         /\ Last(q) \in S /\ Last(q) \in ToSet(q)
         /\ IsInjective(q) =>
              /\ IsInjective(Front(q))
              /\ ToSet(Front(q)) = ToSet(q) \ {Last(q)}
<1> DEFINE r == Front(q)
<1>1. /\ r \in Seq(S) /\ Len(q) \in Nat \ {0} /\ DOMAIN r = 1 .. Len(q) - 1
      /\ \A i \in 1 .. Len(q) - 1 : r[i] = q[i]
      /\ DOMAIN q = 1 .. Len(q) /\ Last(q) = q[Len(q)] /\ Last(q) \in S
  BY DEF Front, Last
<1> HIDE DEF r
<1>2. Last(q) \in ToSet(q)
  BY <1>1 DEF ToSet
<1>3. ASSUME IsInjective(q)
      PROVE  IsInjective(r) /\ ToSet(r) = ToSet(q) \ {Last(q)}
  <2>1. IsInjective(r)
    BY <1>1, <1>3 DEF IsInjective
  <2>2. ASSUME NEW x \in ToSet(r) PROVE x \in ToSet(q) \ {Last(q)}
    BY <1>1, <1>3 DEF ToSet, IsInjective
  <2>3. ASSUME NEW x \in ToSet(q), x # Last(q) PROVE x \in ToSet(r)
    <3>1. PICK i \in 1 .. Len(q) : q[i] = x
      BY <1>1 DEF ToSet
    <3>2. i \in 1 .. Len(q) - 1
      BY <1>1, <2>3, <3>1
    <3> QED
      BY <1>1, <3>1, <3>2 DEF ToSet
  <2> QED
    BY <2>1, <2>2, <2>3
<1> QED
  BY <1>1, <1>2, <1>3 DEF r

LEMMA RemoveSet ==
  ASSUME NEW S, NEW q \in Seq(S), NEW c \in ToSet(q), IsInjective(q)
  PROVE  /\ remove(q, c) \in Seq(S)
         /\ IsInjective(remove(q, c))
         /\ ToSet(remove(q, c)) = ToSet(q) \ {c}
<1> DEFINE I == {i \in 1 .. Len(q) : q[i] = c}
<1>1. PICK i \in 1 .. Len(q) : q[i] = c
  BY DEF ToSet
<1>2. I = {i}
  BY <1>1 DEF IsInjective
<1>3. Min(I) = i
  BY <1>1, <1>2 DEF Min
<1>4. SelectInSeq(q, LAMBDA v : v = c) = i
  BY <1>2, <1>3 DEF SelectInSeq
<1> DEFINE r == [q EXCEPT ![i] = q[Len(q)]]
<1>5. remove(q, c) = SubSeq(r, 1, Len(r) - 1)
  BY <1>4 DEF remove, Front, Last
<1>6. r \in Seq(S) /\ Len(r) = Len(q)
  BY <1>1
<1>7. /\ remove(q, c) \in Seq(S) /\ Len(remove(q, c)) = Len(q) - 1
      /\ \A j \in 1 .. Len(q) - 1 :
           remove(q, c)[j] = IF j = i THEN q[Len(q)] ELSE q[j]
  BY <1>1, <1>5, <1>6
<1>7a. /\ DOMAIN q = 1 .. Len(q) /\ Len(q) \in Nat
       /\ \A x, y \in 1 .. Len(q) : q[x] = q[y] => x = y
  BY DEF IsInjective
<1>8. IsInjective(remove(q, c))
  <2>1. ASSUME NEW a \in 1 .. Len(q) - 1, NEW b \in 1 .. Len(q) - 1,
               remove(q, c)[a] = remove(q, c)[b]
        PROVE  a = b
    <3> DEFINE at(j) == IF j = i THEN Len(q) ELSE j
    <3>1. at(a) \in 1 .. Len(q) /\ at(b) \in 1 .. Len(q) /\ q[at(a)] = q[at(b)]
      BY <1>1, <1>7, <1>7a, <2>1
    <3>2. at(a) = at(b)
      BY <1>7a, <3>1
    <3> QED
      BY <1>7a, <3>2
  <2>2. DOMAIN remove(q, c) = 1 .. Len(q) - 1
    BY <1>7
  <2> QED
    BY <2>1, <2>2 DEF IsInjective
<1>9. ToSet(remove(q, c)) = ToSet(q) \ {c}
  <2>1. ASSUME NEW x \in ToSet(remove(q, c))
        PROVE  x \in ToSet(q) /\ x # c
    BY <1>1, <1>7, <2>1 DEF ToSet, IsInjective
  <2>2. ASSUME NEW x \in ToSet(q), x # c
        PROVE  x \in ToSet(remove(q, c))
    <3>1. PICK j \in 1 .. Len(q) : q[j] = x
      BY DEF ToSet
    <3>2. j # i
      BY <1>1, <2>2, <3>1
    <3>3. CASE j = Len(q)
      <4>1. i \in 1 .. Len(q) - 1 /\ remove(q, c)[i] = x
        BY <1>1, <1>7, <3>1, <3>2, <3>3
      <4> QED
        BY <1>7, <4>1 DEF ToSet
    <3>4. CASE j # Len(q)
      <4>1. j \in 1 .. Len(q) - 1 /\ remove(q, c)[j] = x
        BY <1>7, <3>1, <3>2, <3>4
      <4> QED
        BY <1>7, <4>1 DEF ToSet
    <3> QED
      BY <3>3, <3>4
  <2> QED
    BY <2>1, <2>2
<1> QED
  BY <1>7, <1>8, <1>9

-----------------------------------------------------------------------------
(* The inductive invariant.                                                *)

(* How far a call has come tells what it has: a Conn from the time it left *)
(* getIdleConn without an error; a pipe only if it is no Ping, and from    *)
(* the dial on; and a goroutine watching the pipe once PutUsed is done.    *)
CallSound(r) ==
  /\ r.pc \in {"dial", "stuck", "ping", "putIdle", "putUsed", "defer", "returned"}
       => r.conn # NoConn
  /\ r.pc \in {"new", "newConn"} => r.conn = NoConn
  /\ r.pc \in {"dial", "putIdle", "putUsed", "defer"} => r.op # "ping"
  /\ r.pc \in {"new", "newConn", "len", "dial", "stuck", "ping", "putIdle"}
       => r.pipe = "none"
  /\ r.mover # "none" => r.op # "ping" /\ r.pc \in {"defer", "returned", "failed"}
  /\ r.pipe # "none" => r.op # "ping" /\ (r.mover # "none" \/ r.pc = "putUsed")

(* The call has put its Conn into the pool of its kind, and it has to be   *)
(* there still: its pipe is open, or somebody waits to move it back.       *)
Parked(p) ==
  call[p].mover # "none" /\ (call[p].mover = "wait" \/ call[p].pipe = "open")

(* Shutdown, out of patience, has emptied the pool of this kind.           *)
SweptKind(op) ==
  shutdown \in IF op = "stream" THEN {"sweepPacket", "deadline"} ELSE {"deadline"}

ParkedInPool ==
  \A p \in Call : Parked(p) /\ ~SweptKind(call[p].op) =>
    /\ call[p].conn \in ToSet(pool[call[p].op])
    /\ \A q \in Call :
         Parked(q) /\ ~SweptKind(call[q].op) /\ call[q].conn = call[p].conn => q = p

NoPanic == shutdown \notin Swept => ~Crashed

(* Shutdown has closed the Conn, or is about to.                           *)
Settled(c) == status[c] = "Closed" \/ c \in ToSet(closing)

(* What Shutdown knows, at each of its steps, of the pipes it waits for.   *)
Drained ==
  \A p \in Call : At(p, "returned") /\ call[p].pipe = "open" =>
    /\ shutdown \in {"lenPacket", "ok"} => call[p].op # "stream"
    /\ shutdown = "ok" => call[p].op # "packet"
    /\ shutdown = "sweepPacket" /\ call[p].op = "stream" => Settled(call[p].conn)
    /\ shutdown = "deadline" => Settled(call[p].conn)

IInv ==
  /\ TypeOK
  /\ \A p \in Call : CallSound(call[p])
  /\ OneOwner
  /\ ParkedInPool
  /\ NoPanic
  /\ Drained

-----------------------------------------------------------------------------
(* Types, and what each call has.                                          *)

Sound == TypeOK /\ \A p \in Call : CallSound(call[p])

LEMMA PoolFacts ==
  /\ "idle" \in PoolName /\ "stream" \in PoolName /\ "packet" \in PoolName
  /\ \A k \in Kind : k \in PoolName /\ k \in Status /\ k # "idle" /\ k # "ping"
  /\ NoConn \notin Conn /\ Conn \subseteq Nat /\ NoCall \notin Call
BY PoolAssumption DEF PoolName, Kind, Status, NoConn, Conn

(* A call that moves on without touching the rest of the Client.           *)
LEMMA CallMoves ==
  ASSUME Sound, NEW p \in Call, NEW r \in CallState, CallSound(r),
         call' = [call EXCEPT ![p] = r], r.conn <= made',
         made' \in Nat, made <= made'
  PROVE  /\ call' \in [Call -> CallState]
         /\ \A q \in Call : call'[q].conn <= made' /\ CallSound(call'[q])
<1>1. \A q \in Call : call'[q] = IF q = p THEN r ELSE call[q]
  BY DEF Sound, TypeOK
<1>2. \A q \in Call : call[q].conn <= made /\ call[q] \in CallState /\ made \in Nat
  BY DEF Sound, TypeOK
<1>3. call' \in [Call -> CallState]
  BY DEF Sound, TypeOK
<1>4. ASSUME NEW q \in Call
      PROVE  call'[q].conn <= made'
  <2>1. call[q].conn \in Conn \cup {NoConn}
    BY <1>2 DEF CallState
  <2>2. call[q].conn \in Nat
    BY <2>1 DEF NoConn, Conn
  <2> QED
    BY <1>1, <1>2, <2>2
<1>5. \A q \in Call : CallSound(call'[q])
  BY <1>1 DEF Sound
<1> QED
  BY <1>3, <1>4, <1>5

(* Close marks one Conn as closed, closes pipes of streams, and no more.   *)
LEMMA CloseFacts ==
  ASSUME Sound, NEW c \in Conn, NEW calls \in [Call -> CallState], Close(c, calls),
         \A q \in Call : CallSound(calls[q]) /\ calls[q].conn <= made
  PROVE  /\ status' \in [Conn -> Status]
         /\ status'[c] = "Closed" /\ \A d \in Conn : d # c => status'[d] = status[d]
         /\ call' \in [Call -> CallState]
         /\ \A q \in Call : /\ CallSound(call'[q])
                            /\ call'[q].conn = calls[q].conn
                            /\ call'[q].pc = calls[q].pc
                            /\ call'[q].op = calls[q].op
                            /\ call'[q].mover = calls[q].mover
                            /\ call'[q].pipe = "open" => calls[q].pipe = "open"
<1>1. /\ status' \in [Conn -> Status]
      /\ status'[c] = "Closed" /\ \A d \in Conn : d # c => status'[d] = status[d]
  BY DEF Close, Sound, TypeOK, Status
<1>2. \A q \in Call : \/ call'[q] = calls[q]
                     \/ /\ call'[q] = [calls[q] EXCEPT !.pipe = "closed"]
                        /\ calls[q].pipe = "open"
  BY DEF Close
<1>3. \A r \in CallState : [r EXCEPT !.pipe = "closed"] \in CallState
  BY DEF CallState
<1>4. \A r \in CallState : CallSound(r) /\ r.pipe = "open" => CallSound([r EXCEPT !.pipe = "closed"])
  BY DEF CallState, CallSound
<1>5. call' \in [Call -> CallState]
  BY <1>2, <1>3 DEF Close
<1>6. ASSUME NEW q \in Call
      PROVE  /\ CallSound(call'[q])
             /\ call'[q].conn = calls[q].conn
             /\ call'[q].pc = calls[q].pc
             /\ call'[q].op = calls[q].op
             /\ call'[q].mover = calls[q].mover
             /\ call'[q].pipe = "open" => calls[q].pipe = "open"
  <2>1. calls[q] \in CallState
    OBVIOUS
  <2>2. CASE call'[q] = [calls[q] EXCEPT !.pipe = "closed"] /\ calls[q].pipe = "open"
    BY <1>4, <2>1, <2>2 DEF CallState
  <2>3. CASE call'[q] = calls[q]
    BY <2>1, <2>3
  <2> QED
    BY <1>2, <2>2, <2>3
<1> QED
  BY <1>1, <1>5, <1>6

(* Each step of a call is a step of its record.                            *)
LEMMA CallStepSound ==
  ASSUME Sound, NEW p \in Call, CallStep(p)
  PROVE  Sound'
<1> DEFINE r == call[p]
<1> USE DEF Sound
<1>0. /\ r \in CallState /\ CallSound(r) /\ r.conn <= made /\ call \in [Call -> CallState]
      /\ made \in 0 .. MaxConn /\ made \in Nat /\ MaxConn \in Nat
      /\ \A n \in PoolName : pool[n] \in Seq(1 .. made)
      /\ pool \in [PoolName -> Seq(1 .. made)] /\ status \in [Conn -> Status]
      /\ \A q \in Call : call[q].conn <= made
  BY PoolAssumption DEF TypeOK
<1>1. CASE TakeOr(p) /\ pool["idle"] # <<>>
  <2> DEFINE d == [r EXCEPT !.pc = "len", !.conn = Last(pool["idle"])]
  <2>1. /\ Last(pool["idle"]) \in 1 .. made
        /\ Front(pool["idle"]) \in Seq(1 .. made)
    BY <1>0, <1>1, FrontSet, PoolFacts
  <2>1a. Last(pool["idle"]) \in Conn /\ Last(pool["idle"]) <= made
    BY <1>0, <2>1 DEF Conn
  <2>2. d \in CallState /\ d.conn <= made
    BY <1>0, <2>1a DEF CallState
  <2>3. CallSound(d)
    BY <1>0, <1>1 DEF CallSound, CallState, TakeOr, At
  <2>4. call' = [call EXCEPT ![p] = d] /\ UNCHANGED made
    BY <1>1 DEF TakeOr
  <2>5. /\ call' \in [Call -> CallState]
        /\ \A q \in Call : call'[q].conn <= made' /\ CallSound(call'[q])
    <3> HIDE DEF d
    <3> QED
      BY <1>0, <2>2, <2>3, <2>4, CallMoves
  <2>6. pool' \in [PoolName -> Seq(1 .. made)]
    BY <1>0, <1>1, <2>1 DEF TakeOr, Taken
  <2> QED
    BY <1>1, <2>5, <2>6 DEF TakeOr, TypeOK
<1>2. ASSUME NEW pc, Goto(p, pc), [r EXCEPT !.pc = pc] \in CallState,
             CallSound([r EXCEPT !.pc = pc]), UNCHANGED <<pool, made>>,
             mux' \in Call \cup {NoCall}, status' \in [Conn -> Status],
             adding' \in Nat, UNCHANGED <<fresh, shutdown, closing, held>>
      PROVE  Sound'
  <2> DEFINE d == [r EXCEPT !.pc = pc]
  <2>1. call' = [call EXCEPT ![p] = d]
    BY <1>2 DEF Goto
  <2>2. d.conn <= made /\ d \in CallState /\ CallSound(d)
    BY <1>0, <1>2 DEF CallState
  <2>3. /\ call' \in [Call -> CallState]
        /\ \A q \in Call : call'[q].conn <= made' /\ CallSound(call'[q])
    <3> HIDE DEF d
    <3> QED
      BY <1>0, <1>2, <2>1, <2>2, CallMoves
  <2> QED
    BY <1>2, <2>3 DEF TypeOK
<1>3. CASE TakeOr(p) /\ pool["idle"] = <<>>
  <2>1. [r EXCEPT !.pc = "newConn"] \in CallState
    BY <1>0 DEF CallState
  <2>2. CallSound([r EXCEPT !.pc = "newConn"])
    BY <1>0, <1>3 DEF CallSound, CallState, TakeOr, At
  <2> QED
    BY <1>0, <1>2, <1>3, <2>1, <2>2 DEF TakeOr, TypeOK
<1>4. CASE NewerOk(p)
  <2> DEFINE d == [r EXCEPT !.pc = "len", !.conn = made + 1]
  <2>1. /\ made + 1 \in Conn /\ made' = made + 1 /\ made' \in 0 .. MaxConn
        /\ made' \in Nat /\ made <= made'
    BY <1>0, <1>4 DEF NewerOk, newConn, Conn
  <2>2. d \in CallState /\ d.conn = made + 1
    BY <1>0, <2>1 DEF CallState
  <2>2a. d.conn <= made'
    BY <2>1, <2>2
  <2>3. CallSound(d)
    BY <1>0, <1>4 DEF CallSound, CallState, NewerOk, At
  <2>4. call' = [call EXCEPT ![p] = d]
    BY <1>4 DEF NewerOk
  <2>5. /\ call' \in [Call -> CallState]
        /\ \A q \in Call : call'[q].conn <= made' /\ CallSound(call'[q])
    <3> HIDE DEF d
    <3> QED
      BY <2>1, <2>2, <2>2a, <2>3, <2>4, CallMoves
  <2>6. status' \in [Conn -> Status]
    BY <1>0, <1>4 DEF NewerOk, newConn, Status
  <2>7. /\ pool' \in [PoolName -> Seq(1 .. made')] /\ fresh' \subseteq 1 .. made'
        /\ closing' \in Seq(1 .. made') /\ held' \subseteq Conn
    BY <1>0, <1>4, <2>1 DEF NewerOk, TypeOK
  <2> QED
    BY <1>4, <2>1, <2>5, <2>6, <2>7 DEF NewerOk, TypeOK
<1>5. CASE NewerErr(p)
  <2>1. [r EXCEPT !.pc = "len"] \in CallState
    BY <1>0 DEF CallState
  <2>2. CallSound([r EXCEPT !.pc = "len"])
    BY <1>0, <1>5 DEF CallSound, CallState, NewerErr, At
  <2> QED
    BY <1>0, <1>2, <1>5, <2>1, <2>2 DEF NewerErr, TypeOK
<1>6. CASE Refill(p)
  <2> DEFINE pc == IF r.conn = NoConn THEN "failed"
                   ELSE IF r.op = "ping" THEN "ping" ELSE "dial"
  <2>1. [r EXCEPT !.pc = pc] \in CallState
    BY <1>0 DEF CallState
  <2>2. CallSound([r EXCEPT !.pc = pc])
    BY <1>0, <1>6 DEF CallSound, CallState, Refill, At
  <2>3. Goto(p, pc) /\ adding' \in Nat
    BY <1>0, <1>6 DEF Refill, TypeOK
  <2> HIDE DEF pc
  <2> QED
    BY <1>0, <1>2, <1>6, <2>1, <2>2, <2>3 DEF Refill, TypeOK
<1>7. CASE Ping(p)
  <2>1. ASSUME NEW pc \in {"returned", "failed"}
        PROVE  [r EXCEPT !.pc = pc] \in CallState /\ CallSound([r EXCEPT !.pc = pc])
    BY <1>0, <1>7 DEF CallSound, CallState, Ping, At
  <2>2. status' \in [Conn -> Status]
    BY <1>0, <1>7 DEF Ping, Status
  <2> QED
    BY <1>0, <1>2, <1>7, <2>1, <2>2 DEF Ping, TypeOK
<1>8. CASE DialOk(p)
  <2> DEFINE d == [r EXCEPT !.pc = "putUsed", !.pipe = "open"]
  <2>1. d \in CallState /\ d.conn <= made
    BY <1>0 DEF CallState
  <2>2. CallSound(d)
    BY <1>0, <1>8 DEF CallSound, CallState, DialOk, At
  <2>3. call' = [call EXCEPT ![p] = d] /\ UNCHANGED made
    BY <1>8 DEF DialOk
  <2>4. /\ call' \in [Call -> CallState]
        /\ \A q \in Call : call'[q].conn <= made' /\ CallSound(call'[q])
    <3> HIDE DEF d
    <3> QED
      BY <1>0, <2>1, <2>2, <2>3, CallMoves
  <2>5. r.op \in Status
    BY <1>0, <1>8 DEF CallSound, CallState, DialOk, At, Kind, Status
  <2>6. status' \in [Conn -> Status]
    BY <1>0, <1>8, <2>5 DEF DialOk
  <2> QED
    BY <1>8, <2>4, <2>6 DEF DialOk, TypeOK
<1>9. CASE DialErr(p)
  <2>1. [r EXCEPT !.pc = "putIdle"] \in CallState
    BY <1>0 DEF CallState
  <2>2. CallSound([r EXCEPT !.pc = "putIdle"])
    BY <1>0, <1>9 DEF CallSound, CallState, DialErr, At
  <2> QED
    BY <1>0, <1>2, <1>9, <2>1, <2>2 DEF DialErr, TypeOK
<1>9a. CASE DialStuck(p)
  <2>1. [r EXCEPT !.pc = "stuck"] \in CallState
    BY <1>0 DEF CallState
  <2>2. CallSound([r EXCEPT !.pc = "stuck"])
    BY <1>0, <1>9a DEF CallSound, CallState, DialStuck, At
  <2> QED
    BY <1>0, <1>2, <1>9a, <2>1, <2>2 DEF DialStuck, TypeOK
<1>10. ASSUME NEW n \in PoolName, Put(n, r.conn), r.conn # NoConn
       PROVE  pool' \in [PoolName -> Seq(1 .. made)]
  <2>1. r.conn \in 1 .. made
    BY <1>0, <1>10 DEF CallState, Conn, NoConn
  <2> QED
    BY <1>0, <1>10, <2>1 DEF Put
<1>11. CASE PutIdle(p)
  <2> DEFINE d == [r EXCEPT !.pc = "defer"]
  <2>1. d \in CallState /\ d.conn <= made
    BY <1>0 DEF CallState
  <2>2. CallSound(d) /\ r.conn # NoConn
    BY <1>0, <1>11 DEF CallSound, CallState, PutIdle, At
  <2>3. call' = [call EXCEPT ![p] = d] /\ UNCHANGED made
    BY <1>11 DEF PutIdle, Goto
  <2>4. /\ call' \in [Call -> CallState]
        /\ \A q \in Call : call'[q].conn <= made' /\ CallSound(call'[q])
    <3> HIDE DEF d
    <3> QED
      BY <1>0, <2>1, <2>2, <2>3, CallMoves
  <2>5. pool' \in [PoolName -> Seq(1 .. made)]
    BY <1>10, <1>11, <2>2, PoolFacts DEF PutIdle
  <2> QED
    BY <1>11, <2>4, <2>5 DEF PutIdle, TypeOK
<1>12. CASE PutUsed(p)
  <2> DEFINE d == [r EXCEPT !.pc = "defer", !.mover = "wait"]
  <2>1. d \in CallState /\ d.conn <= made
    BY <1>0 DEF CallState
  <2>2. CallSound(d) /\ r.conn # NoConn /\ r.op \in Kind
    BY <1>0, <1>12 DEF CallSound, CallState, PutUsed, At
  <2>3. call' = [call EXCEPT ![p] = d] /\ UNCHANGED made
    BY <1>12 DEF PutUsed
  <2>4. /\ call' \in [Call -> CallState]
        /\ \A q \in Call : call'[q].conn <= made' /\ CallSound(call'[q])
    <3> HIDE DEF d
    <3> QED
      BY <1>0, <2>1, <2>2, <2>3, CallMoves
  <2>5. pool' \in [PoolName -> Seq(1 .. made)]
    BY <1>10, <1>12, <2>2, PoolFacts DEF PutUsed
  <2> QED
    BY <1>12, <2>4, <2>5 DEF PutUsed, TypeOK
<1>13. CASE Defer(p)
  <2>1. ASSUME NEW pc \in {"returned", "failed"}
        PROVE  [r EXCEPT !.pc = pc] \in CallState /\ CallSound([r EXCEPT !.pc = pc])
    BY <1>0, <1>13 DEF CallSound, CallState, Defer, At
  <2>2. CASE isShutingdown
    <3> DEFINE d == [r EXCEPT !.pc = "failed"]
               calls == [call EXCEPT ![p] = d]
    <3>1. calls = [call EXCEPT ![p].pc = "failed"]
      OBVIOUS
    <3>2. Close(r.conn, calls)
      BY <1>13, <2>2, <3>1 DEF Defer
    <3>2a. r.conn \in Conn
      BY <1>0, <1>13 DEF CallSound, CallState, Defer, At
    <3>3. d \in CallState /\ CallSound(d) /\ d.conn <= made
      BY <1>0, <2>1 DEF CallState
    <3>4. calls \in [Call -> CallState]
      BY <1>0, <3>3
    <3>5. \A q \in Call : CallSound(calls[q]) /\ calls[q].conn <= made
      BY <1>0, <3>3
    <3>6. /\ status' \in [Conn -> Status] /\ call' \in [Call -> CallState]
          /\ \A q \in Call : CallSound(call'[q]) /\ call'[q].conn <= made
      <4> HIDE DEF calls
      <4> QED
        BY <3>2, <3>2a, <3>4, <3>5, CloseFacts
    <3> QED
      BY <1>13, <3>6 DEF Defer, TypeOK
  <2>3. CASE ~isShutingdown
    BY <1>0, <1>2, <1>13, <2>1, <2>3 DEF Defer, TypeOK
  <2> QED
    BY <2>2, <2>3
<1> QED
  BY <1>1, <1>3, <1>4, <1>5, <1>6, <1>7, <1>8, <1>9, <1>9a, <1>11, <1>12, <1>13 DEF CallStep

(* What Defer leaves of the calls: one call ends, and in a Client that is  *)
(* shutting down it fails and its Conn is closed.                          *)
LEMMA DeferCalls ==
  ASSUME Sound, NEW p \in Call, Defer(p)
  PROVE  /\ \A q \in Call : /\ call'[q].conn = call[q].conn
                            /\ call'[q].op = call[q].op
                            /\ call'[q].mover = call[q].mover
                            /\ call'[q].pipe = "open" => call[q].pipe = "open"
                            /\ q # p => call'[q].pc = call[q].pc
         /\ call'[p].pc \in {"failed", "returned"}
         /\ call'[p].pc = "returned" => ~isShutingdown
         /\ \A d \in Conn : status[d] = "Closed" => status'[d] = "Closed"
<1> DEFINE r == call[p]
<1>0. /\ r \in CallState /\ call \in [Call -> CallState]
      /\ \A q \in Call : call[q] \in CallState /\ CallSound(call[q]) /\ call[q].conn <= made
      /\ r.conn \in Conn
  BY DEF Sound, TypeOK, CallSound, CallState, Defer, At
<1>1. CASE isShutingdown
  <2> DEFINE d == [r EXCEPT !.pc = "failed"]
  <2>1. PICK calls : calls = [call EXCEPT ![p].pc = "failed"]
    OBVIOUS
  <2>2. Close(r.conn, calls)
    BY <1>1, <2>1 DEF Defer
  <2>3. /\ d \in CallState /\ CallSound(d) /\ d.conn <= made
        /\ d.conn = r.conn /\ d.op = r.op /\ d.mover = r.mover /\ d.pipe = r.pipe
        /\ d.pc = "failed"
    BY <1>0 DEF CallState, CallSound, Defer, At
  <2>4. calls \in [Call -> CallState]
    BY <1>0, <2>1, <2>3
  <2>5. \A q \in Call : CallSound(calls[q]) /\ calls[q].conn <= made
    BY <1>0, <2>1, <2>3
  <2>6. \A q \in Call : /\ calls[q].conn = call[q].conn /\ calls[q].op = call[q].op
                        /\ calls[q].mover = call[q].mover /\ calls[q].pipe = call[q].pipe
                        /\ q # p => calls[q].pc = call[q].pc
    BY <1>0, <2>1, <2>3
  <2>6a. calls[p].pc = "failed"
    BY <1>0, <2>1, <2>3
  <2>7. \A q \in Call : /\ call'[q].conn = calls[q].conn /\ call'[q].op = calls[q].op
                        /\ call'[q].mover = calls[q].mover /\ call'[q].pc = calls[q].pc
                        /\ call'[q].pipe = "open" => calls[q].pipe = "open"
    BY <1>0, <2>2, <2>4, <2>5, CloseFacts
  <2>7a. \A c \in Conn : status[c] = "Closed" => status'[c] = "Closed"
    BY <1>0, <2>2, <2>4, <2>5, CloseFacts
  <2>8. call'[p].pc = "failed"
    BY <2>6a, <2>7
  <2>9. ASSUME NEW q \in Call
        PROVE  /\ call'[q].conn = call[q].conn /\ call'[q].op = call[q].op
               /\ call'[q].mover = call[q].mover
               /\ q # p => call'[q].pc = call[q].pc
               /\ call'[q].pipe = "open" => call[q].pipe = "open"
    BY <2>6, <2>7
  <2> QED
    BY <2>7a, <2>8, <2>9
<1>2. CASE ~isShutingdown
  <2>1. PICK pc \in {"failed", "returned"} :
          call' = [call EXCEPT ![p].pc = pc] /\ UNCHANGED status
    BY <1>2 DEF Defer, Goto
  <2> QED
    BY <1>0, <1>2, <2>1 DEF CallState
<1> QED
  BY <1>1, <1>2

(* Clearing a pool takes its Conns out of it, to be closed.                *)
LEMMA ClearPoolFacts ==
  ASSUME Sound, NEW n \in PoolName, ClearPool(n)
  PROVE  /\ pool' \in [PoolName -> Seq(1 .. made)]
         /\ pool'[n] = <<>> /\ \A m \in PoolName : m # n => pool'[m] = pool[m]
         /\ closing = <<>> /\ closing' = pool[n] /\ closing' \in Seq(1 .. made)
BY DEF ClearPool, Sound, TypeOK

LEMMA ClearPoolSound ==
  ASSUME Sound, NEW n \in PoolName, ClearPool(n), shutdown' \in ShutdownPC
  PROVE  Sound'
<1>1. UNCHANGED <<mux, made, status, call, adding, fresh, held>>
  BY DEF ClearPool
<1> QED
  BY <1>1, ClearPoolFacts DEF Sound, TypeOK

(* The next one of them is closed.                                         *)
LEMMA CloseNextFacts ==
  ASSUME Sound, CloseNext
  PROVE  /\ closing # <<>> /\ closing' = Tail(closing) /\ closing' \in Seq(1 .. made)
         /\ Head(closing) \in Conn
         /\ ToSet(closing) \subseteq ToSet(closing') \cup {Head(closing)}
         /\ status' \in [Conn -> Status] /\ call' \in [Call -> CallState]
         /\ status'[Head(closing)] = "Closed"
         /\ \A d \in Conn : status[d] = "Closed" => status'[d] = "Closed"
         /\ \A q \in Call : /\ CallSound(call'[q])
                            /\ call'[q].conn = call[q].conn
                            /\ call'[q].pc = call[q].pc
                            /\ call'[q].op = call[q].op
                            /\ call'[q].mover = call[q].mover
                            /\ call'[q].pipe = "open" => call[q].pipe = "open"
<1>1. /\ closing \in Seq(1 .. made) /\ closing # <<>> /\ closing' = Tail(closing)
      /\ Close(Head(closing), call) /\ made \in 0 .. MaxConn /\ MaxConn \in Nat
      /\ call \in [Call -> CallState]
      /\ \A q \in Call : CallSound(call[q]) /\ call[q].conn <= made
  BY PoolAssumption DEF CloseNext, Sound, TypeOK
<1>2. Head(closing) \in 1 .. made /\ Tail(closing) \in Seq(1 .. made)
  BY <1>1
<1>3. Head(closing) \in Conn
  BY <1>1, <1>2 DEF Conn
<1>4. ToSet(closing) \subseteq ToSet(closing') \cup {Head(closing)}
  <2>1. /\ DOMAIN closing = 1 .. Len(closing) /\ Len(closing) \in Nat \ {0}
        /\ DOMAIN closing' = 1 .. Len(closing) - 1
        /\ \A i \in 1 .. Len(closing) - 1 : closing'[i] = closing[i + 1]
        /\ Head(closing) = closing[1]
    BY <1>1
  <2>2. ASSUME NEW x \in ToSet(closing), x # Head(closing)
        PROVE  x \in ToSet(closing')
    <3>1. PICK i \in 1 .. Len(closing) : closing[i] = x
      BY <2>1 DEF ToSet
    <3>2. i - 1 \in 1 .. Len(closing) - 1 /\ closing'[i - 1] = closing[i]
      BY <2>1, <2>2, <3>1
    <3> QED
      BY <2>1, <3>1, <3>2 DEF ToSet
  <2> QED
    BY <2>2
<1> QED
  BY <1>1, <1>2, <1>3, <1>4, CloseFacts

LEMMA CloseNextSound ==
  ASSUME Sound, CloseNext
  PROVE  Sound'
<1>1. UNCHANGED <<pool, mux, made, adding, fresh, shutdown, held>>
  BY DEF CloseNext
<1>2. \A q \in Call : call'[q].conn <= made'
  BY <1>1, CloseNextFacts DEF Sound, TypeOK
<1> QED
  BY <1>1, <1>2, CloseNextFacts DEF Sound, TypeOK

(* PutFrom moves a Conn between pools, or panics and moves none.           *)
LEMMA PutFromPools ==
  ASSUME Sound, OneOwner, NEW p \in Call, PutFrom(p)
  PROVE  /\ pool' \in [PoolName -> Seq(1 .. made)]
         /\ call[p].op \in Kind
         /\ call[p].conn \in ToSet(pool[call[p].op]) =>
              /\ IsInjective(pool'["idle"]) /\ IsInjective(pool'[call[p].op])
              /\ ToSet(pool'["idle"]) = ToSet(pool["idle"]) \cup {call[p].conn}
              /\ ToSet(pool'[call[p].op]) = ToSet(pool[call[p].op]) \ {call[p].conn}
              /\ \A n \in PoolName : n \notin {"idle", call[p].op} => pool'[n] = pool[n]
         /\ call[p].conn \notin ToSet(pool[call[p].op]) => UNCHANGED pool
<1> DEFINE c == call[p].conn
           src == call[p].op
<1>1. /\ call[p] \in CallState /\ CallSound(call[p]) /\ call[p].mover = "wait"
      /\ pool \in [PoolName -> Seq(1 .. made)]
  BY DEF Sound, TypeOK, PutFrom
<1>2. src \in Kind /\ src \in PoolName /\ src # "idle" /\ "idle" \in PoolName
  BY <1>1, PoolFacts DEF CallSound, CallState
<1>3. CASE c \notin ToSet(pool[src])
  BY <1>1, <1>2, <1>3 DEF PutFrom
<1>4. CASE c \in ToSet(pool[src])
  <2>1. pool' = [pool EXCEPT !["idle"] = Append(@, c), ![src] = remove(@, c)]
    BY <1>4 DEF PutFrom
  <2>2. /\ pool'["idle"] = Append(pool["idle"], c) /\ pool'[src] = remove(pool[src], c)
        /\ \A n \in PoolName : n \notin {"idle", src} => pool'[n] = pool[n]
    BY <1>1, <1>2, <2>1
  <2>3. /\ IsInjective(pool["idle"]) /\ IsInjective(pool[src])
        /\ c \notin ToSet(pool["idle"])
    BY <1>2, <1>4 DEF OneOwner
  <2>4. pool["idle"] \in Seq(1 .. made) /\ c \in 1 .. made
    <3>1. pool["idle"] \in Seq(1 .. made) /\ pool[src] \in Seq(1 .. made)
      BY <1>1, <1>2
    <3> QED
      BY <1>4, <3>1, SetOfSeq
  <2>5. /\ remove(pool[src], c) \in Seq(1 .. made)
        /\ IsInjective(remove(pool[src], c))
        /\ ToSet(remove(pool[src], c)) = ToSet(pool[src]) \ {c}
    BY <1>1, <1>2, <1>4, <2>3, RemoveSet
  <2>6. /\ pool'["idle"] \in Seq(1 .. made)
        /\ IsInjective(pool'["idle"])
        /\ ToSet(pool'["idle"]) = ToSet(pool["idle"]) \cup {c}
    <3>1. pool'["idle"] \in Seq(1 .. made)
      BY <2>2, <2>4
    <3>2. Added(Append(pool["idle"], c), pool["idle"], c)
      BY <2>4, AppendSet, Zenon
    <3> QED
      BY <2>2, <2>3, <3>1, <3>2 DEF Added
  <2>7. pool' \in [PoolName -> Seq(1 .. made)]
    BY <1>1, <1>2, <2>1, <2>2, <2>5, <2>6
  <2> QED
    BY <1>2, <1>4, <2>2, <2>5, <2>6, <2>7
<1> QED
  BY <1>3, <1>4

(* The steps that no call takes .                                             *)
Other ==
  \/ \E p \in Call : Mover(p) \/ ClosePipe(p)
  \/ AddConn
  \/ \E c \in Conn : \/ AddPut(c) \/ CopyBlocks(c) \/ CopyEnds(c) \/ ConnIdle(c)
                     \/ ConnBreaks(c)
  \/ Cancel \/ ShutdownStep

LEMMA OtherSound ==
  ASSUME Sound, OneOwner, Other
  PROVE  Sound'
<1> USE DEF Sound
<1>0. /\ call \in [Call -> CallState] /\ \A q \in Call : CallSound(call[q])
      /\ made \in 0 .. MaxConn /\ made \in Nat /\ MaxConn \in Nat
      /\ pool \in [PoolName -> Seq(1 .. made)] /\ status \in [Conn -> Status]
      /\ \A q \in Call : call[q].conn <= made
      /\ \A q \in Call : call[q] \in CallState
  BY PoolAssumption DEF TypeOK
<1>1. ASSUME NEW p \in Call, NEW d \in CallState, CallSound(d), d.conn = call[p].conn,
             call' = [call EXCEPT ![p] = d], pool' \in [PoolName -> Seq(1 .. made)],
             UNCHANGED <<mux, made, status, adding, fresh, shutdown, closing, held>>
      PROVE  Sound'
  <2>1. /\ call' \in [Call -> CallState]
        /\ \A q \in Call : call'[q].conn <= made' /\ CallSound(call'[q])
    BY <1>0, <1>1, CallMoves
  <2> QED
    BY <1>1, <2>1 DEF TypeOK
<1>2. ASSUME NEW p \in Call, MoverDone(p)
      PROVE  Sound'
  <2> DEFINE d == [call[p] EXCEPT !.mover = "ended"]
  <2>1. d \in CallState /\ d.conn = call[p].conn
    BY <1>0 DEF CallState
  <2>2. CallSound(d)
    <3>1. call[p] \in CallState /\ CallSound(call[p]) /\ call[p].mover = "wait"
      BY <1>0, <1>2 DEF MoverDone
    <3> QED
      BY <3>1 DEF CallSound, CallState
  <2>3. call' = [call EXCEPT ![p] = d]
    BY <1>2 DEF MoverDone
  <2> HIDE DEF d
  <2> QED
    BY <1>0, <1>1, <1>2, <2>1, <2>2, <2>3 DEF MoverDone
<1>3. ASSUME NEW p \in Call, PutFrom(p)
      PROVE  Sound'
  <2>1. ASSUME NEW m \in {"ended", "panic"}
        PROVE  /\ [call[p] EXCEPT !.mover = m] \in CallState
               /\ CallSound([call[p] EXCEPT !.mover = m])
               /\ [call[p] EXCEPT !.mover = m].conn = call[p].conn
    <3>1. call[p] \in CallState /\ CallSound(call[p]) /\ call[p].mover = "wait"
      BY <1>0, <1>3 DEF PutFrom
    <3> QED
      BY <3>1 DEF CallSound, CallState
  <2>2. PICK m \in {"ended", "panic"} : call' = [call EXCEPT ![p] = [call[p] EXCEPT !.mover = m]]
    BY <1>3 DEF PutFrom
  <2>3. pool' \in [PoolName -> Seq(1 .. made)]
    BY <1>0, <1>3, PutFromPools
  <2> QED
    BY <1>0, <1>1, <1>3, <2>1, <2>2, <2>3 DEF PutFrom
<1>4. ASSUME NEW p \in Call, ClosePipe(p)
      PROVE  Sound'
  <2> DEFINE d == [call[p] EXCEPT !.pipe = "closed"]
  <2>1. d \in CallState /\ d.conn = call[p].conn
    BY <1>0 DEF CallState
  <2>2. CallSound(d)
    <3>1. call[p] \in CallState /\ CallSound(call[p]) /\ call[p].pipe = "open"
      BY <1>0, <1>4 DEF ClosePipe
    <3> QED
      BY <3>1 DEF CallSound, CallState
  <2>3. call' = [call EXCEPT ![p] = d]
    BY <1>4 DEF ClosePipe
  <2> HIDE DEF d
  <2> QED
    BY <1>0, <1>1, <1>4, <2>1, <2>2, <2>3 DEF ClosePipe
<1>5. CASE AddConn
  <2>1. adding' \in Nat
    BY <1>5 DEF AddConn, TypeOK
  <2>2. CASE newConn(made + 1) /\ fresh' = fresh \cup {made + 1}
    <3>1. made' = made + 1 /\ made' \in 0 .. MaxConn /\ status' \in [Conn -> Status]
      BY <1>0, <2>2 DEF newConn, Conn, Status
    <3>2. /\ pool' \in [PoolName -> Seq(1 .. made')] /\ fresh' \subseteq 1 .. made'
          /\ closing' \in Seq(1 .. made') /\ held' \subseteq Conn
      BY <1>0, <1>5, <2>2, <3>1 DEF AddConn, TypeOK
    <3>3. \A q \in Call : call'[q].conn <= made'
      <4>1. \A q \in Call : call[q].conn \in Nat
        BY <1>0 DEF CallState, Conn, NoConn
      <4> QED
        BY <1>0, <1>5, <3>1, <4>1 DEF AddConn
    <3> QED
      BY <1>5, <2>1, <3>1, <3>2, <3>3 DEF AddConn, TypeOK
  <2>3. CASE UNCHANGED <<made, status, fresh>>
    BY <1>5, <2>1, <2>3 DEF AddConn, TypeOK
  <2> QED
    BY <1>5, <2>2, <2>3 DEF AddConn
<1>6. ASSUME NEW c \in Conn, AddPut(c)
      PROVE  Sound'
  <2>1. c \in 1 .. made
    BY <1>6 DEF AddPut, TypeOK
  <2>2. pool' \in [PoolName -> Seq(1 .. made)]
    BY <1>0, <1>6, <2>1, PoolFacts DEF AddPut, Put
  <2> QED
    BY <1>6, <2>2 DEF AddPut, TypeOK
<1>7. ASSUME NEW c \in Conn, ConnIdle(c) \/ ConnBreaks(c)
      PROVE  Sound'
  <2>1. status' \in [Conn -> Status]
    BY <1>0, <1>7 DEF ConnIdle, ConnBreaks, Status
  <2> QED
    BY <1>7, <2>1 DEF ConnIdle, ConnBreaks, TypeOK
<1>7a. ASSUME NEW c \in Conn, CopyBlocks(c) \/ CopyEnds(c)
       PROVE  Sound'
  BY <1>7a DEF CopyBlocks, CopyEnds, TypeOK
<1>8. CASE Cancel \/ CheckStream \/ CheckPacket \/ Poll \/ Deadline
  BY <1>8 DEF Cancel, CheckStream, CheckPacket, Poll, Deadline, TypeOK, ShutdownPC
<1>9. CASE CheckIdle \/ Sweep
  BY <1>9, ClearPoolSound, PoolFacts DEF CheckIdle, Sweep, ShutdownPC
<1> QED
  BY <1>2, <1>3, <1>4, <1>5, <1>6, <1>7, <1>7a, <1>8, <1>9, CloseNextSound
  DEF Other, Mover, ShutdownStep

-----------------------------------------------------------------------------
(* A Conn has one owner.                                                   *)

(* Who lets go of a Conn harms nobody.                                     *)
LEMMA OwnerKept ==
  ASSUME OneOwner, UNCHANGED <<pool, fresh>>,
         \A q \in Call, c \in Conn : Holds(q, c)' => Holds(q, c)
  PROVE  OneOwner'
BY DEF OneOwner

(* A call that takes nothing, and that was given a Conn before or has none *)
(* to hold, lets go at most.                                               *)
LEMMA CallLetsGo ==
  ASSUME Sound, OneOwner, NEW p \in Call, NEW pc, Goto(p, pc),
         UNCHANGED <<pool, fresh>>,
         \/ pc \notin {"len", "dial", "stuck", "ping", "putIdle", "putUsed"}
         \/ call[p].conn = NoConn
         \/ call[p].pc \in {"len", "dial", "stuck", "ping", "putIdle", "putUsed"}
  PROVE  OneOwner'
<1>1. \A q \in Call : call[q] \in CallState /\ call \in [Call -> CallState]
  BY DEF Sound, TypeOK
<1>2. \A q \in Call : q # p => call'[q] = call[q]
  BY <1>1 DEF Goto
<1>3. call'[p].pc = pc /\ call'[p].conn = call[p].conn
  BY <1>1 DEF Goto, CallState
<1>4. ASSUME NEW q \in Call, NEW c \in Conn, Holds(q, c)'
      PROVE  Holds(q, c)
  BY <1>2, <1>3, <1>4, PoolFacts DEF Holds
<1> QED
  BY <1>4, OwnerKept

(* The holder of a Conn puts it into a pool.                               *)
LEMMA PutOwner ==
  ASSUME Sound, OneOwner, NEW p \in Call, NEW n \in PoolName,
         Holds(p, call[p].conn), call[p].conn # NoConn, Put(n, call[p].conn),
         UNCHANGED fresh, \A q \in Call : q # p => call'[q] = call[q],
         call'[p].pc = "defer"
  PROVE  OneOwner'
<1> DEFINE c == call[p].conn
<1>1. /\ pool \in [PoolName -> Seq(1 .. made)] /\ made \in Nat
      /\ c \in Conn /\ c <= made
  BY DEF Sound, TypeOK, CallState
<1>2. c \in 1 .. made /\ pool[n] \in Seq(1 .. made)
  BY <1>1 DEF Conn
<1>3. pool'[n] = Append(pool[n], c) /\ \A m \in PoolName : m # n => pool'[m] = pool[m]
  BY <1>1 DEF Put
<1>4. Added(Append(pool[n], c), pool[n], c)
  BY <1>2, AppendSet, Zenon
<1>5. /\ \A m \in PoolName : c \notin ToSet(pool[m])
      /\ c \notin fresh /\ \A q \in Call : Holds(q, c) => q = p
  BY <1>1 DEF OneOwner
<1>6. /\ IsInjective(pool'[n]) /\ ToSet(pool'[n]) = ToSet(pool[n]) \cup {c}
  BY <1>3, <1>4, <1>5 DEF Added, OneOwner
<1>7. \A q \in Call, d \in Conn : Holds(q, d)' => Holds(q, d) /\ d # c
  BY <1>5 DEF Holds
<1>8. \A m \in PoolName : IsInjective(pool'[m])
  BY <1>3, <1>6 DEF OneOwner
<1>9. \A m \in PoolName : ToSet(pool'[m]) = IF m = n THEN ToSet(pool[n]) \cup {c} ELSE ToSet(pool[m])
  BY <1>3, <1>6
<1> HIDE DEF c
<1>10. /\ \A l, m \in PoolName : l # m => ToSet(pool'[l]) \cap ToSet(pool'[m]) = {}
       /\ \A m \in PoolName : ToSet(pool'[m]) \cap fresh' = {}
  BY <1>5, <1>9 DEF OneOwner
<1>11. ASSUME NEW q \in Call, NEW d \in Conn, Holds(q, d)'
       PROVE  /\ d \notin fresh'
              /\ \A m \in PoolName : d \notin ToSet(pool'[m])
              /\ \A o \in Call : Holds(o, d)' => o = q
  BY <1>7, <1>9, <1>11 DEF OneOwner
<1> QED
  BY <1>8, <1>10, <1>11 DEF OneOwner

(* A Conn that nobody owns is given to a call.                             *)
LEMMA TakeOwner ==
  ASSUME OneOwner, NEW p \in Call, NEW c \in Conn,
         \A n \in PoolName : IsInjective(pool'[n])
                             /\ ToSet(pool'[n]) \subseteq ToSet(pool[n]) \ {c},
         c \notin fresh, UNCHANGED fresh,
         \A q \in Call : ~Holds(q, c),
         \A q \in Call : q # p => call'[q] = call[q],
         call'[p].conn = c
  PROVE  OneOwner'
<1>1. ASSUME NEW q \in Call, NEW d \in Conn, Holds(q, d)'
      PROVE  \/ q = p /\ d = c
             \/ q # p /\ Holds(q, d) /\ d # c
  BY <1>1 DEF Holds
<1>2. /\ \A l, m \in PoolName : l # m => ToSet(pool'[l]) \cap ToSet(pool'[m]) = {}
      /\ \A m \in PoolName : ToSet(pool'[m]) \cap fresh' = {}
  BY DEF OneOwner
<1>3. ASSUME NEW q \in Call, NEW d \in Conn, Holds(q, d)'
      PROVE  /\ d \notin fresh'
             /\ \A m \in PoolName : d \notin ToSet(pool'[m])
             /\ \A o \in Call : Holds(o, d)' => o = q
  BY <1>1, <1>3 DEF OneOwner
<1> QED
  BY <1>2, <1>3 DEF OneOwner

LEMMA CallStepOwner ==
  ASSUME Sound, OneOwner, NEW p \in Call, CallStep(p)
  PROVE  OneOwner'
<1> DEFINE r == call[p]
<1>0. /\ r \in CallState /\ CallSound(r) /\ call \in [Call -> CallState]
      /\ pool \in [PoolName -> Seq(1 .. made)] /\ made \in Nat /\ fresh \subseteq 1 .. made
      /\ \A q \in Call : call[q].conn <= made /\ call[q] \in CallState
  BY DEF Sound, TypeOK
<1>1. CASE TakeOr(p) /\ pool["idle"] # <<>>
  <2> DEFINE c == Last(pool["idle"])
  <2>1. /\ pool["idle"] \in Seq(1 .. made) /\ IsInjective(pool["idle"])
    BY <1>0, PoolFacts DEF OneOwner
  <2>2. /\ c \in 1 .. made /\ c \in ToSet(pool["idle"])
        /\ IsInjective(Front(pool["idle"]))
        /\ ToSet(Front(pool["idle"])) = ToSet(pool["idle"]) \ {c}
    BY <1>1, <2>1, FrontSet
  <2>2a. MaxConn \in Nat /\ made \in 0 .. MaxConn
    BY PoolAssumption DEF Sound, TypeOK
  <2>3. c \in Conn
    <3> HIDE DEF c
    <3> QED
      BY <2>2, <2>2a DEF Conn
  <2>4. /\ pool'["idle"] = Front(pool["idle"]) /\ UNCHANGED fresh
        /\ \A n \in PoolName : n # "idle" => pool'[n] = pool[n]
        /\ \A q \in Call : q # p => call'[q] = call[q]
        /\ call'[p].conn = c
    BY <1>0, <1>1, PoolFacts DEF TakeOr, Taken, CallState
  <2> HIDE DEF c
  <2>5. /\ c \notin fresh /\ \A q \in Call : ~Holds(q, c)
        /\ \A n \in PoolName : n # "idle" => c \notin ToSet(pool[n]) /\ IsInjective(pool[n])
    BY <2>2, <2>3, PoolFacts DEF OneOwner
  <2>6. \A n \in PoolName : IsInjective(pool'[n])
                             /\ ToSet(pool'[n]) \subseteq ToSet(pool[n]) \ {c}
    BY <2>2, <2>4, <2>5
  <2> QED
    BY <2>3, <2>4, <2>5, <2>6, TakeOwner
<1>2. CASE NewerOk(p)
  <2> DEFINE c == made + 1
  <2>1. c \in Conn /\ UNCHANGED <<pool, fresh>>
    BY <1>2 DEF NewerOk, newConn
  <2>2. /\ \A q \in Call : q # p => call'[q] = call[q]
        /\ call'[p].conn = c
    BY <1>0, <1>2 DEF NewerOk, CallState
  <2>3. c \notin 1 .. made /\ \A q \in Call : call[q].conn # c
    BY <1>0
  <2>4. \A n \in PoolName : ToSet(pool[n]) \subseteq 1 .. made
    BY <1>0, SetOfSeq
  <2>5. c \notin fresh /\ \A q \in Call : ~Holds(q, c)
    BY <1>0, <2>3 DEF Holds
  <2>6. \A n \in PoolName : IsInjective(pool'[n])
                             /\ ToSet(pool'[n]) \subseteq ToSet(pool[n]) \ {c}
    BY <2>1, <2>3, <2>4 DEF OneOwner
  <2> HIDE DEF c
  <2> QED
    BY <2>1, <2>2, <2>5, <2>6, TakeOwner
<1>3. CASE TakeOr(p) /\ pool["idle"] = <<>>
  BY <1>3, CallLetsGo DEF TakeOr
<1>4. CASE NewerErr(p)
  <2>1. call[p].conn = NoConn
    BY <1>0, <1>4 DEF NewerErr, At, CallSound
  <2> QED
    BY <1>4, <2>1, CallLetsGo DEF NewerErr
<1>5. CASE Refill(p) \/ Ping(p) \/ DialErr(p) \/ DialStuck(p)
  BY <1>5, CallLetsGo DEF Refill, Ping, DialErr, DialStuck, At
<1>6. CASE DialOk(p)
  <2>1. /\ \A q \in Call : q # p => call'[q] = call[q]
        /\ call'[p].conn = r.conn /\ r.pc = "dial" /\ UNCHANGED <<pool, fresh>>
    BY <1>0, <1>6 DEF DialOk, CallState, At
  <2>2. \A q \in Call, c \in Conn : Holds(q, c)' => Holds(q, c)
    BY <2>1 DEF Holds
  <2> QED
    BY <2>1, <2>2, OwnerKept
<1>7. CASE PutIdle(p)
  <2>1. /\ \A q \in Call : q # p => call'[q] = call[q]
        /\ call'[p].pc = "defer" /\ UNCHANGED fresh
    BY <1>0, <1>7 DEF PutIdle, Goto, CallState
  <2>2. Holds(p, r.conn) /\ r.conn # NoConn /\ Put("idle", r.conn)
    BY <1>0, <1>7 DEF PutIdle, Holds, At, CallSound
  <2> QED
    BY <2>1, <2>2, PutOwner, PoolFacts
<1>8. CASE PutUsed(p)
  <2>1. /\ \A q \in Call : q # p => call'[q] = call[q]
        /\ call'[p].pc = "defer" /\ UNCHANGED fresh
    BY <1>0, <1>8 DEF PutUsed, CallState
  <2>2. Holds(p, r.conn) /\ r.conn # NoConn /\ Put(r.op, r.conn) /\ r.op \in PoolName
    BY <1>0, <1>8 DEF PutUsed, Holds, At, CallSound, CallState, PoolName
  <2> QED
    BY <2>1, <2>2, PutOwner
<1>9. CASE Defer(p)
  <2>1. UNCHANGED <<pool, fresh>>
    BY <1>9 DEF Defer
  <2>4. \A q \in Call, c \in Conn : Holds(q, c)' => Holds(q, c)
    BY <1>9, DeferCalls DEF Holds
  <2> QED
    BY <2>1, <2>4, OwnerKept
<1> QED
  BY <1>1, <1>2, <1>3, <1>4, <1>5, <1>6, <1>7, <1>8, <1>9 DEF CallStep

LEMMA OtherOwner ==
  ASSUME Sound, OneOwner, Other
  PROVE  OneOwner'
<1>0. /\ call \in [Call -> CallState] /\ \A q \in Call : call[q] \in CallState
      /\ pool \in [PoolName -> Seq(1 .. made)] /\ made \in Nat /\ fresh \subseteq 1 .. made
      /\ \A q \in Call : call[q].conn <= made /\ CallSound(call[q])
  BY DEF Sound, TypeOK
<1>1. ASSUME NEW p \in Call, MoverDone(p) \/ ClosePipe(p)
      PROVE  OneOwner'
  <2>1. \A q \in Call : call'[q].pc = call[q].pc /\ call'[q].conn = call[q].conn
    <3>1. CASE MoverDone(p)
      BY <1>0, <3>1 DEF MoverDone, CallState
    <3>2. CASE ClosePipe(p)
      BY <1>0, <3>2 DEF ClosePipe, CallState
    <3> QED
      BY <1>1, <3>1, <3>2
  <2> QED
    BY <1>1, <2>1, OwnerKept DEF MoverDone, ClosePipe, Holds
<1>2. ASSUME NEW p \in Call, PutFrom(p)
      PROVE  OneOwner'
  <2> DEFINE c == call[p].conn
             src == call[p].op
  <2>0. PICK w \in {"ended", "panic"} : call' = [call EXCEPT ![p].mover = w]
    BY <1>2 DEF PutFrom
  <2>1. /\ \A q \in Call : call'[q].pc = call[q].pc /\ call'[q].conn = call[q].conn
        /\ UNCHANGED fresh
    BY <1>0, <1>2, <2>0 DEF PutFrom, CallState
  <2>2. \A q \in Call, d \in Conn : Holds(q, d)' <=> Holds(q, d)
    BY <2>1 DEF Holds
  <2>3. CASE c \notin ToSet(pool[src])
    BY <1>2, <2>1, <2>2, <2>3, OwnerKept, PutFromPools
  <2>4. CASE c \in ToSet(pool[src])
    <3>1. /\ IsInjective(pool'["idle"]) /\ IsInjective(pool'[src])
          /\ ToSet(pool'["idle"]) = ToSet(pool["idle"]) \cup {c}
          /\ ToSet(pool'[src]) = ToSet(pool[src]) \ {c}
          /\ \A n \in PoolName : n \notin {"idle", src} => pool'[n] = pool[n]
          /\ src \in PoolName /\ src # "idle" /\ "idle" \in PoolName
      BY <1>2, <2>4, PutFromPools, PoolFacts
    <3> HIDE DEF c, src
    <3>2. \A n \in PoolName : IsInjective(pool'[n])
      BY <3>1 DEF OneOwner
    <3>3. \A n \in PoolName : ToSet(pool'[n]) =
            IF n = "idle" THEN ToSet(pool["idle"]) \cup {c}
            ELSE IF n = src THEN ToSet(pool[src]) \ {c} ELSE ToSet(pool[n])
      BY <3>1
    <3>4. /\ \A n \in PoolName : n # src => c \notin ToSet(pool[n])
          /\ c \notin fresh /\ \A q \in Call, d \in Conn : Holds(q, d) => d # c
      BY <2>4, <3>1 DEF OneOwner
    <3>5. /\ \A l, m \in PoolName : l # m => ToSet(pool'[l]) \cap ToSet(pool'[m]) = {}
          /\ \A m \in PoolName : ToSet(pool'[m]) \cap fresh' = {}
      BY <2>1, <3>1, <3>3, <3>4 DEF OneOwner
    <3>6. ASSUME NEW q \in Call, NEW d \in Conn, Holds(q, d)'
          PROVE  /\ d \notin fresh'
                 /\ \A m \in PoolName : d \notin ToSet(pool'[m])
                 /\ \A o \in Call : Holds(o, d)' => o = q
      BY <2>1, <2>2, <3>1, <3>3, <3>4, <3>6 DEF OneOwner
    <3> QED
      BY <3>2, <3>5, <3>6 DEF OneOwner
  <2> QED
    BY <2>3, <2>4
<1>3. CASE AddConn
  <2>1. UNCHANGED <<pool, call>>
    BY <1>3 DEF AddConn
  <2>2. CASE fresh' = fresh \cup {made + 1}
    <3>1. \A n \in PoolName : ToSet(pool[n]) \subseteq 1 .. made
      BY <1>0, SetOfSeq
    <3>2. \A n \in PoolName : made + 1 \notin ToSet(pool[n])
      BY <1>0, <3>1
    <3>3. \A q \in Call, c \in Conn : Holds(q, c) => c # made + 1
      BY <1>0 DEF Holds
    <3> QED
      BY <2>1, <2>2, <3>2, <3>3 DEF OneOwner, Holds
  <2>3. CASE UNCHANGED fresh
    BY <2>1, <2>3, OwnerKept DEF Holds
  <2> QED
    BY <1>3, <2>2, <2>3 DEF AddConn
<1>4. ASSUME NEW c \in Conn, AddPut(c)
      PROVE  OneOwner'
  <2>1. /\ pool'["idle"] = Append(pool["idle"], c) /\ fresh' = fresh \ {c} /\ c \in fresh
        /\ \A n \in PoolName : n # "idle" => pool'[n] = pool[n]
        /\ UNCHANGED call /\ "idle" \in PoolName
    BY <1>0, <1>4, PoolFacts DEF AddPut, Put
  <2>2. pool["idle"] \in Seq(1 .. made) /\ c \in 1 .. made
    BY <1>0, <2>1
  <2>3. Added(Append(pool["idle"], c), pool["idle"], c)
    BY <2>2, AppendSet, Zenon
  <2>4. /\ \A m \in PoolName : c \notin ToSet(pool[m])
        /\ \A q \in Call : ~Holds(q, c)
    BY <2>1 DEF OneOwner
  <2>5. IsInjective(pool'["idle"]) /\ ToSet(pool'["idle"]) = ToSet(pool["idle"]) \cup {c}
    BY <2>1, <2>3, <2>4 DEF Added, OneOwner
  <2>6. \A m \in PoolName : /\ IsInjective(pool'[m])
                            /\ ToSet(pool'[m]) = IF m = "idle" THEN ToSet(pool["idle"]) \cup {c}
                                                 ELSE ToSet(pool[m])
    BY <2>1, <2>5 DEF OneOwner
  <2>7. \A q \in Call, d \in Conn : Holds(q, d)' <=> Holds(q, d)
    BY <2>1 DEF Holds
  <2>8a. \A l, m \in PoolName : l # m => ToSet(pool'[l]) \cap ToSet(pool'[m]) = {}
    <3>1. \A l, m \in PoolName : l # m => ToSet(pool[l]) \cap ToSet(pool[m]) = {}
      BY DEF OneOwner
    <3> QED
      BY <2>4, <2>6, <3>1
  <2>8. \A m \in PoolName : ToSet(pool'[m]) \cap fresh' = {}
    <3>1. \A m \in PoolName : ToSet(pool[m]) \cap fresh = {}
      BY DEF OneOwner
    <3> QED
      BY <2>1, <2>6, <3>1
  <2>9. ASSUME NEW q \in Call, NEW d \in Conn, Holds(q, d)'
        PROVE  /\ d \notin fresh'
               /\ \A m \in PoolName : d \notin ToSet(pool'[m])
               /\ \A o \in Call : Holds(o, d)' => o = q
    BY <2>1, <2>4, <2>6, <2>7, <2>9 DEF OneOwner
  <2> QED
    BY <2>6, <2>8a, <2>8, <2>9 DEF OneOwner
<1>5. ASSUME UNCHANGED <<pool, fresh, call>>
      PROVE  OneOwner'
  BY <1>5, OwnerKept DEF Holds
<1>6. ASSUME NEW n \in PoolName, ClearPool(n)
      PROVE  OneOwner'
  <2>1. /\ pool'[n] = <<>> /\ \A m \in PoolName : m # n => pool'[m] = pool[m]
    BY <1>6, ClearPoolFacts
  <2>2. UNCHANGED <<fresh, call>>
    BY <1>6 DEF ClearPool
  <2>3. \A m \in PoolName : IsInjective(pool'[m]) /\ ToSet(pool'[m]) \subseteq ToSet(pool[m])
    <3>1. IsInjective(<<>>) /\ ToSet(<<>>) = {}
      BY DEF IsInjective, ToSet
    <3> QED
      BY <2>1, <3>1 DEF OneOwner
  <2>4. \A q \in Call, d \in Conn : Holds(q, d)' <=> Holds(q, d)
    BY <2>2 DEF Holds
  <2>5. /\ \A l, m \in PoolName : l # m => ToSet(pool'[l]) \cap ToSet(pool'[m]) = {}
        /\ \A m \in PoolName : ToSet(pool'[m]) \cap fresh' = {}
    BY <2>2, <2>3 DEF OneOwner
  <2>6. ASSUME NEW q \in Call, NEW d \in Conn, Holds(q, d)'
        PROVE  /\ d \notin fresh'
               /\ \A m \in PoolName : d \notin ToSet(pool'[m])
               /\ \A o \in Call : Holds(o, d)' => o = q
    BY <2>2, <2>3, <2>4, <2>6 DEF OneOwner
  <2> QED
    BY <2>3, <2>5, <2>6 DEF OneOwner
<1>7. CASE CloseNext
  BY <1>7, CloseNextFacts, OwnerKept DEF CloseNext, Holds
<1> QED
  BY <1>1, <1>2, <1>3, <1>4, <1>5, <1>6, <1>7, PoolFacts
  DEF Other, Mover, ShutdownStep, CopyBlocks, CopyEnds, ConnIdle, ConnBreaks, Cancel, CheckIdle,
      CheckStream, CheckPacket, Poll, Deadline, Sweep

-----------------------------------------------------------------------------
(* The Conn of a parked call stays in its pool.                            *)

(* What a step of a call changes of the calls: only PutUsed starts a       *)
(* goroutine that watches a pipe, and once Shutdown has begun no call      *)
(* returns an open pipe.                                                   *)
LEMMA CallStepFields ==
  ASSUME Sound, NEW p \in Call, CallStep(p)
  PROVE  /\ \A q \in Call : /\ call'[q].op = call[q].op
                            /\ q # p \/ Defer(p) =>
                                 /\ call'[q].conn = call[q].conn
                                 /\ call'[q].mover = call[q].mover
                                 /\ call'[q].pipe = "open" => call[q].pipe = "open"
                            /\ q # p => call'[q].pc = call[q].pc
         /\ ~PutUsed(p) /\ ~Defer(p) => call'[p].mover = "none"
         /\ call'[p].pc = "returned" /\ call'[p].pipe = "open" => ~isShutingdown
<1>0. /\ call \in [Call -> CallState]
      /\ \A q \in Call : call[q] \in CallState /\ CallSound(call[q])
  BY DEF Sound, TypeOK
<1>1. CASE Defer(p)
  BY <1>1, DeferCalls
<1>2. CASE ~Defer(p)
  <2>1. \A q \in Call : q # p => call'[q] = call[q]
    BY <1>0, <1>2 DEF CallStep, TakeOr, NewerOk, NewerErr, Refill, Ping, DialOk, DialErr,
                      DialStuck, PutIdle, PutUsed, Goto
  <2>2. ASSUME ~PutUsed(p)
        PROVE  /\ call'[p].op = call[p].op
               /\ call'[p].mover = call[p].mover
               /\ call[p].pc \in {"new", "newConn", "len", "dial", "ping", "putIdle"}
               /\ call'[p].pc = "returned" => call'[p].pipe = call[p].pipe
    <3>1. CASE \/ TakeOr(p) \/ NewerOk(p) \/ NewerErr(p) \/ DialOk(p) \/ DialErr(p)
               \/ DialStuck(p) \/ PutIdle(p)
      BY <1>0, <3>1 DEF TakeOr, NewerOk, NewerErr, DialOk, DialErr, DialStuck, PutIdle, Goto, At,
                        CallState
    <3>2. CASE Refill(p)
      BY <1>0, <3>2 DEF Refill, Goto, At, CallState
    <3>3. CASE Ping(p)
      BY <1>0, <3>3 DEF Ping, Goto, At, CallState
    <3> QED
      BY <1>2, <2>2, <3>1, <3>2, <3>3 DEF CallStep
  <2>3. CASE ~PutUsed(p)
    <3>1. call[p].mover = "none" /\ call[p].pipe = "none"
      BY <1>0, <2>2, <2>3 DEF CallSound
    <3>2. call'[p].op = call[p].op /\ call'[p].mover = "none"
          /\ ~(call'[p].pc = "returned" /\ call'[p].pipe = "open")
      BY <2>2, <2>3, <3>1
    <3> QED
      BY <1>2, <2>1, <3>2
  <2>4. CASE PutUsed(p)
    <3>1. call'[p].op = call[p].op /\ call'[p].pc = "defer"
      BY <1>0, <2>4 DEF PutUsed, CallState
    <3> QED
      BY <1>2, <2>1, <2>4, <3>1
  <2> QED
    BY <2>3, <2>4
<1> QED
  BY <1>1, <1>2

(* What it leaves alone: only PutUsed touches the pools of used Conns, and *)
(* nobody revives a Conn that was closed.                                  *)
LEMMA CallStepRest ==
  ASSUME Sound, NEW p \in Call, CallStep(p)
  PROVE  /\ UNCHANGED <<shutdown, closing>>
         /\ ~PutUsed(p) => \A k \in Kind : pool'[k] = pool[k]
         /\ \A q \in Call : call[q].conn \in Conn /\ status[call[q].conn] = "Closed"
                             => status'[call[q].conn] = "Closed"
<1>0. /\ pool \in [PoolName -> Seq(1 .. made)] /\ status \in [Conn -> Status] /\ made \in Nat
      /\ \A q \in Call : call[q].conn <= made
  BY DEF Sound, TypeOK
<1>1. UNCHANGED <<shutdown, closing>>
  BY DEF CallStep, TakeOr, NewerOk, NewerErr, Refill, Ping, DialOk, DialErr, DialStuck,
         PutIdle, PutUsed, Defer
<1>2. ASSUME ~PutUsed(p), NEW k \in Kind
      PROVE  pool'[k] = pool[k]
  <2>1. CASE TakeOr(p) \/ PutIdle(p)
    BY <1>0, <2>1, PoolFacts DEF TakeOr, PutIdle, Put
  <2>2. CASE UNCHANGED pool
    BY <2>2
  <2> QED
    BY <1>2, <2>1, <2>2 DEF CallStep, NewerOk, NewerErr, Refill, Ping, DialOk, DialErr,
                            DialStuck, Defer
<1>3. ASSUME NEW q \in Call, call[q].conn \in Conn, status[call[q].conn] = "Closed"
      PROVE  status'[call[q].conn] = "Closed"
  <2>1. CASE NewerOk(p)
    <3>1. call[q].conn # made + 1
      BY <1>0
    <3> QED
      BY <1>0, <1>3, <2>1, <3>1 DEF NewerOk, newConn
  <2>2. CASE Ping(p)
    BY <1>0, <1>3, <2>2 DEF Ping
  <2>3. CASE DialOk(p)
    BY <1>0, <1>3, <2>3 DEF DialOk
  <2>4. CASE Defer(p)
    BY <1>3, <2>4, DeferCalls
  <2>5. CASE UNCHANGED status
    BY <1>3, <2>5
  <2> QED
    BY <2>1, <2>2, <2>3, <2>4, <2>5
    DEF CallStep, TakeOr, NewerErr, Refill, DialErr, DialStuck, PutIdle, PutUsed
<1> QED
  BY <1>1, <1>2, <1>3

(* A step that parks no call and takes no Conn of a parked call away.      *)
LEMMA ParkedKept ==
  ASSUME ParkedInPool,
         \A q \in Call : (Parked(q) /\ ~SweptKind(call[q].op))' =>
           /\ Parked(q) /\ ~SweptKind(call[q].op)
           /\ call'[q].conn = call[q].conn /\ call'[q].op = call[q].op
           /\ call[q].conn \in ToSet(pool[call[q].op]) => call[q].conn \in ToSet(pool'[call[q].op])
  PROVE  ParkedInPool'
<1> SUFFICES ASSUME NEW p \in Call, Parked(p)', ~SweptKind(call[p].op)'
             PROVE  /\ call'[p].conn \in ToSet(pool'[call'[p].op])
                    /\ \A q \in Call :
                         (Parked(q) /\ ~SweptKind(call[q].op))' /\ call'[q].conn = call'[p].conn => q = p
  BY DEF ParkedInPool
<1>1. /\ Parked(p) /\ ~SweptKind(call[p].op)
      /\ call'[p].conn = call[p].conn /\ call'[p].op = call[p].op
      /\ call[p].conn \in ToSet(pool[call[p].op]) => call[p].conn \in ToSet(pool'[call[p].op])
  OBVIOUS
<1> QED
  BY <1>1 DEF ParkedInPool

LEMMA CallStepParked ==
  ASSUME Sound, OneOwner, ParkedInPool, NEW p \in Call, CallStep(p)
  PROVE  ParkedInPool'
<1>0. UNCHANGED shutdown
  BY CallStepRest
<1>1. CASE ~PutUsed(p)
  <2>1. \A q \in Call : Parked(q)' =>
          /\ Parked(q) /\ call'[q].conn = call[q].conn /\ call'[q].op = call[q].op
    BY <1>1, CallStepFields DEF Parked
  <2>2. \A q \in Call : Parked(q) => call[q].op \in Kind
    BY DEF Parked, Sound, TypeOK, CallSound, CallState
  <2>3. \A k \in Kind : pool'[k] = pool[k]
    BY <1>1, CallStepRest
  <2> QED
    BY <1>0, <2>1, <2>2, <2>3, ParkedKept DEF SweptKind
<1>2. CASE PutUsed(p)
  <2> DEFINE c == call[p].conn
             k == call[p].op
  <2>0. /\ call \in [Call -> CallState] /\ pool \in [PoolName -> Seq(1 .. made)]
        /\ call[p] \in CallState /\ CallSound(call[p]) /\ made \in Nat /\ c <= made
    BY DEF Sound, TypeOK
  <2>1. /\ \A q \in Call : q # p => call'[q] = call[q]
        /\ call'[p].conn = c /\ call'[p].op = k
    BY <1>2, <2>0 DEF PutUsed, CallState
  <2>2. k \in Kind /\ k \in PoolName /\ c \in Conn /\ Holds(p, c)
    BY <1>2, <2>0, PoolFacts DEF PutUsed, CallSound, CallState, At, Holds
  <2>3. c \in 1 .. made /\ pool[k] \in Seq(1 .. made)
    BY <2>0, <2>2 DEF Conn
  <2>4. Added(Append(pool[k], c), pool[k], c)
    BY <2>3, AppendSet, Zenon
  <2>5. pool'[k] = Append(pool[k], c) /\ \A n \in PoolName : n # k => pool'[n] = pool[n]
    BY <1>2, <2>0, <2>2 DEF PutUsed, Put
  <2>6. \A n \in PoolName : /\ c \notin ToSet(pool[n])
                            /\ ToSet(pool'[n]) = IF n = k THEN ToSet(pool[k]) \cup {c} ELSE ToSet(pool[n])
    BY <2>2, <2>4, <2>5 DEF Added, OneOwner
  <2>7. \A q \in Call : q # p => (Parked(q)' <=> Parked(q)) /\ (Parked(q) => call[q].op \in PoolName)
    BY <2>1, PoolFacts DEF Parked, Sound, TypeOK, CallSound, CallState
  <2> HIDE DEF c, k
  <2>8. \A q \in Call : SweptKind(call[q].op)' <=> SweptKind(call[q].op)
    BY <1>0, <2>1 DEF SweptKind, k
  <2>9. \A q \in Call : q # p /\ Parked(q) /\ ~SweptKind(call[q].op) =>
          call[q].conn \in ToSet(pool[call[q].op]) /\ call[q].op \in PoolName /\ call[q].conn # c
    BY <2>6, <2>7 DEF ParkedInPool
  <2>10. ASSUME NEW q \in Call, q # p, Parked(q)', ~SweptKind(call[q].op)'
         PROVE  /\ call'[q].conn \in ToSet(pool'[call'[q].op])
                /\ call'[q].conn # c
                /\ \A o \in Call : o # p /\ (Parked(o) /\ ~SweptKind(call[o].op))'
                     /\ call'[o].conn = call'[q].conn => o = q
    BY <2>1, <2>6, <2>7, <2>8, <2>9, <2>10 DEF ParkedInPool
  <2>11. c \in ToSet(pool'[k])
    BY <2>2, <2>6
  <2> QED
    BY <2>1, <2>10, <2>11 DEF ParkedInPool
<1> QED
  BY <1>1, <1>2

(* What PutFrom and the like change of the calls.                          *)
LEMMA MoverFields ==
  ASSUME Sound, NEW p \in Call, Mover(p) \/ ClosePipe(p)
  PROVE  \A q \in Call : /\ call'[q].conn = call[q].conn
                         /\ call'[q].op = call[q].op
                         /\ call'[q].pc = call[q].pc
                         /\ call'[q].pipe = "open" => call[q].pipe = "open"
                         /\ call'[q].mover # "none" => call[q].mover # "none"
                         /\ call'[q].mover = "wait" => call[q].mover = "wait"
                         /\ PutFrom(p) /\ q = p =>
                              call'[q].mover # "wait" /\ call'[q].pipe # "open"
<1>0. call \in [Call -> CallState] /\ \A q \in Call : call[q] \in CallState
  BY DEF Sound, TypeOK
<1>1. CASE PutFrom(p)
  <2>1. PICK m \in {"ended", "panic"} : call' = [call EXCEPT ![p].mover = m]
    BY <1>1 DEF PutFrom
  <2>2. call[p].mover = "wait" /\ call[p].pipe = "closed"
    BY <1>1 DEF PutFrom
  <2> QED
    BY <1>0, <2>1, <2>2 DEF CallState
<1>2. CASE (MoverDone(p) \/ ClosePipe(p)) /\ ~PutFrom(p)
  BY <1>0, <1>2 DEF MoverDone, ClosePipe, CallState
<1> QED
  BY <1>1, <1>2 DEF Mover

LEMMA OtherParked ==
  ASSUME Sound, OneOwner, ParkedInPool, Other
  PROVE  ParkedInPool'
<1>0. /\ pool \in [PoolName -> Seq(1 .. made)]
      /\ \A q \in Call : Parked(q) => call[q].op \in Kind
  BY DEF Sound, TypeOK, Parked, CallSound, CallState
<1>1. ASSUME UNCHANGED <<call, shutdown>>, \A k \in Kind : pool'[k] = pool[k]
      PROVE  ParkedInPool'
  <2>1. \A q \in Call : (Parked(q)' <=> Parked(q)) /\ (SweptKind(call[q].op)' <=> SweptKind(call[q].op))
    BY <1>1 DEF Parked, SweptKind
  <2> QED
    BY <1>0, <1>1, <2>1, ParkedKept
<1>2. ASSUME NEW p \in Call, Mover(p) \/ ClosePipe(p)
      PROVE  ParkedInPool'
  <2>0. UNCHANGED shutdown
    BY <1>2 DEF Mover, MoverDone, PutFrom, ClosePipe
  <2>1. \A q \in Call : /\ Parked(q)' => Parked(q) /\ ~(PutFrom(p) /\ q = p)
                        /\ call'[q].conn = call[q].conn /\ call'[q].op = call[q].op
    BY <1>2, MoverFields DEF Parked
  <2>2. ASSUME NEW q \in Call, Parked(q)', ~SweptKind(call[q].op)',
               call[q].conn \in ToSet(pool[call[q].op])
        PROVE  call[q].conn \in ToSet(pool'[call[q].op])
    <3>1. CASE ~PutFrom(p)
      BY <1>2, <2>2, <3>1 DEF Mover, MoverDone, ClosePipe
    <3>2. CASE PutFrom(p) /\ call[p].conn \notin ToSet(pool[call[p].op])
      BY <2>2, <3>2, PutFromPools
    <3>3. CASE PutFrom(p) /\ call[p].conn \in ToSet(pool[call[p].op])
      <4>1. /\ ToSet(pool'[call[p].op]) = ToSet(pool[call[p].op]) \ {call[p].conn}
            /\ \A n \in PoolName : n \notin {"idle", call[p].op} => pool'[n] = pool[n]
        BY <3>3, PutFromPools
      <4>2. q # p /\ Parked(q) /\ ~SweptKind(call[q].op) /\ call[q].op \in Kind /\ Parked(p)
        <5>1. q # p /\ Parked(q) /\ call'[q].op = call[q].op
          BY <2>1, <2>2, <3>3
        <5>2. Parked(p)
          BY <3>3 DEF Parked, PutFrom
        <5> QED
          BY <1>0, <2>0, <2>2, <5>1, <5>2 DEF SweptKind
      <4>3. CASE call[q].op # call[p].op
        BY <2>2, <4>1, <4>2, <4>3, PoolFacts
      <4>4. CASE call[q].op = call[p].op
        <5>1. call[q].conn # call[p].conn
          BY <4>2, <4>4 DEF ParkedInPool
        <5> QED
          BY <2>2, <4>1, <4>4, <5>1
      <4> QED
        BY <4>3, <4>4
    <3> QED
      BY <3>1, <3>2, <3>3
  <2>3. \A q \in Call : ~SweptKind(call[q].op)' => ~SweptKind(call[q].op)
    BY <2>0, <2>1 DEF SweptKind
  <2> QED
    BY <2>1, <2>2, <2>3, ParkedKept
<1>3. CASE AddConn
  BY <1>1, <1>3 DEF AddConn
<1>4. ASSUME NEW c \in Conn,
             AddPut(c) \/ CopyBlocks(c) \/ CopyEnds(c) \/ ConnIdle(c) \/ ConnBreaks(c)
      PROVE  ParkedInPool'
  <2>1. \A k \in Kind : pool'[k] = pool[k]
    BY <1>0, <1>4, PoolFacts DEF AddPut, Put, CopyBlocks, CopyEnds, ConnIdle, ConnBreaks
  <2> QED
    BY <1>1, <1>4, <2>1 DEF AddPut, CopyBlocks, CopyEnds, ConnIdle, ConnBreaks
<1>4a. CASE CloseNext
  <2>1. \A q \in Call : Parked(q)' => /\ Parked(q) /\ call'[q].conn = call[q].conn
                                      /\ call'[q].op = call[q].op
    BY <1>4a, CloseNextFacts DEF Parked
  <2> QED
    BY <1>4a, <2>1, ParkedKept DEF CloseNext, SweptKind
<1>5. CASE Cancel \/ CheckStream \/ CheckPacket \/ Poll \/ Deadline
  <2>1. /\ UNCHANGED <<pool, call>>
        /\ shutdown \notin {"sweepPacket", "deadline"}
    BY <1>5 DEF Cancel, CheckStream, CheckPacket, Poll, Deadline
  <2>2. \A q \in Call : (Parked(q)' <=> Parked(q)) /\ ~SweptKind(call[q].op)
    BY <2>1 DEF Parked, SweptKind
  <2> QED
    BY <2>1, <2>2, ParkedKept
<1>6. ASSUME NEW n \in PoolName, ClearPool(n),
             \A k \in Kind : SweptKind(k) => SweptKind(k)',
             n \in Kind => SweptKind(n)'
      PROVE  ParkedInPool'
  <2>1. /\ \A m \in PoolName : m # n => pool'[m] = pool[m]
        /\ UNCHANGED call
    BY <1>6, ClearPoolFacts DEF ClearPool
  <2>2. ASSUME NEW q \in Call, Parked(q)', ~SweptKind(call[q].op)'
        PROVE  /\ Parked(q) /\ ~SweptKind(call[q].op)
               /\ pool'[call[q].op] = pool[call[q].op]
    <3>1. Parked(q)
      BY <2>1, <2>2 DEF Parked
    <3>2. call[q].op \in Kind /\ call'[q].op = call[q].op
      BY <1>0, <2>1, <3>1
    <3>3. SweptKind(call[q].op)' <=> shutdown' \in IF call[q].op = "stream" THEN {"sweepPacket", "deadline"} ELSE {"deadline"}
      BY <3>2 DEF SweptKind
    <3>4. ~SweptKind(call[q].op) /\ call[q].op # n
      BY <1>6, <2>2, <3>2, <3>3 DEF SweptKind
    <3> QED
      BY <2>1, <3>1, <3>2, <3>4, PoolFacts
  <2> QED
    BY <2>1, <2>2, ParkedKept
<1>7. CASE CheckIdle
  BY <1>6, <1>7, PoolFacts DEF CheckIdle, SweptKind, Kind
<1>8. CASE Sweep
  <2>1. CASE shutdown = "sweepIdle" /\ ClearPool("idle") /\ shutdown' = "sweepStream"
    BY <1>6, <2>1, PoolFacts DEF SweptKind, Kind
  <2>2. CASE shutdown = "sweepStream" /\ ClearPool("stream") /\ shutdown' = "sweepPacket"
    BY <1>6, <2>2, PoolFacts DEF SweptKind, Kind
  <2>3. CASE shutdown = "sweepPacket" /\ ClearPool("packet") /\ shutdown' = "deadline"
    BY <1>6, <2>3, PoolFacts DEF SweptKind, Kind
  <2> QED
    BY <1>8, <2>1, <2>2, <2>3 DEF Sweep
<1> QED
  BY <1>2, <1>3, <1>4, <1>4a, <1>5, <1>7, <1>8 DEF Other, ShutdownStep

(* PutFrom panics only when the pool it takes from was swept.              *)
LEMMA PanicKept ==
  ASSUME Sound, ParkedInPool, ~Crashed, Next
  PROVE  NoPanic'
<1> SUFFICES ASSUME NEW p \in Call, call'[p].mover = "panic", shutdown' \notin Swept
             PROVE  FALSE
  BY DEF NoPanic, Crashed
<1>0. call \in [Call -> CallState] /\ call[p] \in CallState /\ call[p].mover # "panic"
  BY DEF Sound, TypeOK, Crashed
<1>1. CASE PutFrom(p)
  <2>1. call[p].mover = "wait" /\ UNCHANGED shutdown
    BY <1>1 DEF PutFrom
  <2>2. Parked(p) /\ ~SweptKind(call[p].op)
    BY <2>1 DEF Parked, SweptKind, Swept
  <2>3. call[p].conn \in ToSet(pool[call[p].op])
    BY <2>2 DEF ParkedInPool
  <2>4. call' = [call EXCEPT ![p].mover = "ended"]
    BY <1>1, <2>3 DEF PutFrom
  <2> QED
    BY <1>0, <2>4 DEF CallState
<1>2. CASE \E q \in Call : CallStep(q)
  <2>1. PICK q \in Call : CallStep(q)
    BY <1>2
  <2>2. q = p /\ PutUsed(p) => call'[p].mover = "wait"
    BY <1>0 DEF PutUsed, CallState
  <2>3. CASE q = p /\ ~PutUsed(p) /\ ~Defer(p)
    BY <2>1, <2>3, CallStepFields
  <2>4. CASE q # p \/ Defer(q)
    BY <1>0, <2>1, <2>4, CallStepFields
  <2> QED
    BY <2>2, <2>3, <2>4
<1>3. ASSUME NEW q \in Call, MoverDone(q) \/ ClosePipe(q) \/ (PutFrom(q) /\ q # p)
      PROVE  FALSE
  <2>1. call'[p].mover \in {call[p].mover, "ended"}
    <3>1. CASE PutFrom(q) /\ q # p
      <4>1. PICK m \in {"ended", "panic"} : call' = [call EXCEPT ![q].mover = m]
        BY <3>1 DEF PutFrom
      <4> QED
        BY <1>0, <3>1, <4>1
    <3>2. CASE MoverDone(q) \/ ClosePipe(q)
      BY <1>0, <3>2 DEF MoverDone, ClosePipe, CallState
    <3> QED
      BY <1>3, <3>1, <3>2
  <2> QED
    BY <1>0, <2>1
<1>4. ASSUME CloseNext
      PROVE  FALSE
  BY <1>0, <1>4, CloseNextFacts
<1>5. ~UNCHANGED call
  BY <1>0
<1> QED
  BY <1>1, <1>2, <1>3, <1>4, <1>5
  DEF Next, Mover, AddConn, AddPut, CopyBlocks, CopyEnds, ConnIdle, ConnBreaks, Cancel,
      ShutdownStep, CheckIdle, CheckStream, CheckPacket, Poll, Deadline, Sweep, ClearPool

-----------------------------------------------------------------------------
(* What Shutdown waits for.                                                *)

(* A step that opens no pipe and revives no Conn.                          *)
LEMMA DrainedKept ==
  ASSUME Drained, UNCHANGED shutdown,
         \A q \in Call : call'[q].pc = "returned" /\ call'[q].pipe = "open" =>
           /\ call[q].pc = "returned" /\ call[q].pipe = "open"
           /\ call'[q].conn = call[q].conn /\ call'[q].op = call[q].op
           /\ Settled(call[q].conn) => Settled(call[q].conn)'
  PROVE  Drained'
<1> SUFFICES ASSUME NEW q \in Call, At(q, "returned")', call'[q].pipe = "open"
             PROVE  /\ shutdown' \in {"lenPacket", "ok"} => call'[q].op # "stream"
                    /\ shutdown' = "ok" => call'[q].op # "packet"
                    /\ shutdown' = "sweepPacket" /\ call'[q].op = "stream"
                         => Settled(call[q].conn)'
                    /\ shutdown' = "deadline" => Settled(call[q].conn)'
  BY DEF Drained
<1> QED
  BY DEF Drained, At

(* A pipe that a call has returned is open on a Conn of its pool, until    *)
(* Shutdown has swept it.                                                  *)
LEMMA OpenInPool ==
  ASSUME Sound, ParkedInPool, NEW p \in Call, At(p, "returned"), call[p].pipe = "open"
  PROVE  /\ call[p].op \in Kind /\ call[p].conn \in Conn
         /\ ~SweptKind(call[p].op) => call[p].conn \in ToSet(pool[call[p].op])
<1>1. call[p] \in CallState /\ CallSound(call[p])
  BY DEF Sound, TypeOK
<1>2. call[p].op \in Kind /\ call[p].conn \in Conn /\ call[p].mover # "none"
  BY <1>1 DEF CallState, CallSound, At
<1>3. Parked(p)
  BY <1>2 DEF Parked
<1> QED
  BY <1>2, <1>3 DEF ParkedInPool

LEMMA CallStepDrained ==
  ASSUME Sound, ParkedInPool, Drained, NEW p \in Call, CallStep(p)
  PROVE  Drained'
<1>0. UNCHANGED shutdown
  BY CallStepRest
<1>1. CASE ~isShutingdown
  BY <1>0, <1>1 DEF isShutingdown, Drained
<1>2. CASE isShutingdown
  <2>1. ASSUME NEW q \in Call, call'[q].pc = "returned", call'[q].pipe = "open"
        PROVE  /\ call[q].pc = "returned" /\ call[q].pipe = "open"
               /\ call'[q].conn = call[q].conn /\ call'[q].op = call[q].op
               /\ Settled(call[q].conn) => Settled(call[q].conn)'
    <3>1. q # p
      BY <1>2, <2>1, CallStepFields
    <3>2. /\ call[q].pc = "returned" /\ call[q].pipe = "open"
          /\ call'[q].conn = call[q].conn /\ call'[q].op = call[q].op
      BY <2>1, <3>1, CallStepFields
    <3>3. call[q].conn \in Conn
      BY <3>2, OpenInPool DEF At
    <3> QED
      BY <3>2, <3>3, CallStepRest DEF Settled
  <2> QED
    BY <1>0, <2>1, DrainedKept
<1> QED
  BY <1>1, <1>2

LEMMA OtherDrained ==
  ASSUME Sound, ParkedInPool, Drained, Other
  PROVE  Drained'
<1>0. /\ status \in [Conn -> Status] /\ made \in Nat
      /\ \A q \in Call : call[q].conn <= made
  BY DEF Sound, TypeOK
<1>0a. \A q \in Call : At(q, "returned") /\ call[q].pipe = "open" =>
         call[q].conn \in Conn /\ call[q].op \in Kind
  BY OpenInPool
<1>1. ASSUME NEW p \in Call, Mover(p) \/ ClosePipe(p)
      PROVE  Drained'
  <2>1. UNCHANGED <<shutdown, status, closing>>
    BY <1>1 DEF Mover, MoverDone, PutFrom, ClosePipe
  <2> QED
    BY <1>1, <2>1, MoverFields, DrainedKept DEF Settled
<1>2. ASSUME UNCHANGED <<call, shutdown, closing>>,
             \A q \in Call : At(q, "returned") /\ call[q].pipe = "open"
                             /\ status[call[q].conn] = "Closed"
                             => status'[call[q].conn] = "Closed"
      PROVE  Drained'
  BY <1>2, DrainedKept DEF At, Settled
<1>3. CASE AddConn
  <2>1. ASSUME NEW q \in Call, At(q, "returned"), call[q].pipe = "open",
               status[call[q].conn] = "Closed"
        PROVE  status'[call[q].conn] = "Closed"
    <3>1. call[q].conn \in Conn
      BY <1>0a, <2>1
    <3>2. call[q].conn # made + 1
      BY <1>0
    <3> QED
      BY <1>0, <1>3, <2>1, <3>1, <3>2 DEF AddConn, newConn
  <2> QED
    BY <1>2, <1>3, <2>1 DEF AddConn
<1>4. ASSUME NEW c \in Conn,
             AddPut(c) \/ CopyBlocks(c) \/ CopyEnds(c) \/ ConnIdle(c) \/ ConnBreaks(c)
      PROVE  Drained'
  <2>1. \A d \in Conn : status[d] = "Closed" => status'[d] = "Closed"
    BY <1>0, <1>4 DEF AddPut, CopyBlocks, CopyEnds, ConnIdle, ConnBreaks
  <2> QED
    BY <1>0a, <1>2, <1>4, <2>1 DEF AddPut, CopyBlocks, CopyEnds, ConnIdle, ConnBreaks
<1>5. CASE CloseNext
  <2>1. UNCHANGED shutdown
    BY <1>5 DEF CloseNext
  <2>2. \A c \in Conn : Settled(c) => Settled(c)'
    BY <1>5, CloseNextFacts DEF Settled
  <2> QED
    BY <1>0a, <1>5, <2>1, <2>2, CloseNextFacts, DrainedKept DEF At
<1>6. ASSUME shutdown' \in {"clear", "lenStream", "wait", "sweepIdle", "sweepStream"}
      PROVE  Drained'
  BY <1>6 DEF Drained
<1>7. ASSUME shutdown = "lenStream", shutdown' = "lenPacket", pool["stream"] = <<>>,
             UNCHANGED call
      PROVE  Drained'
  <2>1. ~SweptKind("stream") /\ ToSet(pool["stream"]) = {}
    BY <1>7 DEF SweptKind, ToSet
  <2>2. \A q \in Call : At(q, "returned") /\ call[q].pipe = "open" => call[q].op # "stream"
    BY <2>1, OpenInPool
  <2> QED
    BY <1>7, <2>2 DEF Drained, At
<1>8. ASSUME shutdown = "lenPacket", shutdown' = "ok", pool["packet"] = <<>>,
             UNCHANGED call
      PROVE  Drained'
  <2>1. ~SweptKind("packet") /\ ToSet(pool["packet"]) = {}
    BY <1>8 DEF SweptKind, ToSet
  <2>2. \A q \in Call : At(q, "returned") /\ call[q].pipe = "open" => call[q].op # "packet"
    BY <2>1, OpenInPool
  <2> QED
    BY <1>8, <2>2 DEF Drained, At
<1>9. ASSUME shutdown = "sweepStream", ClearPool("stream"), shutdown' = "sweepPacket"
      PROVE  Drained'
  <2>1. ~SweptKind("stream") /\ closing' = pool["stream"] /\ UNCHANGED call
    BY <1>9 DEF SweptKind, ClearPool
  <2>2. \A q \in Call : At(q, "returned") /\ call[q].pipe = "open" /\ call[q].op = "stream"
          => Settled(call[q].conn)'
    BY <1>9, <2>1, OpenInPool DEF Settled
  <2> QED
    BY <1>9, <2>1, <2>2 DEF Drained, At
<1>10. ASSUME shutdown = "sweepPacket", ClearPool("packet"), shutdown' = "deadline"
       PROVE  Drained'
  <2>1. /\ ~SweptKind("packet") /\ closing = <<>> /\ closing' = pool["packet"]
        /\ UNCHANGED <<call, status>>
    BY <1>10 DEF SweptKind, ClearPool
  <2>2. ASSUME NEW q \in Call, At(q, "returned"), call[q].pipe = "open"
        PROVE  Settled(call[q].conn)'
    <3>1. CASE call[q].op = "packet"
      BY <2>1, <2>2, <3>1, OpenInPool DEF Settled
    <3>2. CASE call[q].op = "stream"
      <4>1. Settled(call[q].conn)
        BY <1>10, <2>2, <3>2 DEF Drained
      <4>2. ToSet(closing) = {}
        BY <2>1 DEF ToSet
      <4> QED
        BY <2>1, <4>1, <4>2 DEF Settled
    <3> QED
      BY <1>0a, <2>2, <3>1, <3>2 DEF Kind
  <2> QED
    BY <1>10, <2>1, <2>2 DEF Drained, At
<1>11. CASE Cancel \/ CheckStream \/ CheckPacket \/ Poll \/ Deadline
  BY <1>6, <1>7, <1>8, <1>11 DEF Cancel, CheckStream, CheckPacket, Poll, Deadline
<1>12. CASE CheckIdle \/ Sweep
  BY <1>6, <1>9, <1>10, <1>12 DEF CheckIdle, Sweep
<1> QED
  BY <1>1, <1>3, <1>4, <1>5, <1>11, <1>12 DEF Other, ShutdownStep

-----------------------------------------------------------------------------
(* The invariant holds, and with it what the Client promises.              *)

LEMMA IInvInit == Init => IInv
<1> SUFFICES ASSUME Init PROVE IInv
  OBVIOUS
<1>1. PICK op \in Mix : call = [p \in Call |->
        [pc |-> "new", op |-> op[p], conn |-> NoConn, pipe |-> "none", mover |-> "none"]]
  BY DEF Init
<1>2. op \in [Call -> Kind \cup {"ping"}]
  BY PoolAssumption DEF Kind
<1>3. \A p \in Call : /\ call[p].pc = "new" /\ call[p].conn = NoConn
                      /\ call[p].pipe = "none" /\ call[p].mover = "none"
                      /\ call[p] \in CallState /\ call[p].conn <= made
  <2>1. made \in Nat
    BY PoolAssumption DEF Init
  <2> QED
    BY <1>1, <1>2, <2>1 DEF CallState, NoConn
<1>4. made \in 0 .. MaxConn /\ made \in Nat
  BY PoolAssumption DEF Init
<1>5. /\ pool["idle"] = [i \in 1 .. made |-> i]
      /\ pool["stream"] = <<>> /\ pool["packet"] = <<>>
      /\ pool = [n \in PoolName |-> IF n = "idle" THEN [i \in 1 .. made |-> i] ELSE <<>>]
  BY PoolFacts DEF Init
<1>6. [i \in 1 .. made |-> i] \in Seq(1 .. made)
  BY <1>4
<1>7. pool \in [PoolName -> Seq(1 .. made)]
  <2> DEFINE full == [i \in 1 .. made |-> i]
  <2>1. pool = [n \in PoolName |-> IF n = "idle" THEN full ELSE <<>>]
    BY <1>5
  <2>2. full \in Seq(1 .. made) /\ <<>> \in Seq(1 .. made)
    BY <1>6
  <2> HIDE DEF full
  <2> QED
    BY <2>1, <2>2
<1>8. TypeOK
  BY <1>1, <1>3, <1>4, <1>7 DEF TypeOK, Init, NoCall, Status, ShutdownPC
<1>9. \A p \in Call : CallSound(call[p])
  BY <1>3 DEF CallSound
<1>10. \A n \in PoolName : n # "idle" => pool[n] = <<>>
  BY <1>5
<1>11. IsInjective(<<>>) /\ ToSet(<<>>) = {} /\ IsInjective([i \in 1 .. made |-> i])
  BY <1>4 DEF IsInjective, ToSet
<1>12. OneOwner
  BY <1>3, <1>5, <1>10, <1>11 DEF OneOwner, Holds, Init
<1> QED
  BY <1>3, <1>8, <1>9, <1>12 DEF IInv, ParkedInPool, Parked, NoPanic, Crashed, Drained, At

LEMMA IInvStep == IInv /\ [Next]_vars => IInv'
<1> SUFFICES ASSUME IInv, [Next]_vars PROVE IInv'
  OBVIOUS
<1>0. Sound /\ OneOwner /\ ParkedInPool /\ Drained
  BY DEF IInv, Sound
<1>1. CASE Next
  <2>1. (\E p \in Call : CallStep(p)) \/ Other
    BY <1>1 DEF Next, Other
  <2>2. Sound' /\ OneOwner' /\ ParkedInPool' /\ Drained'
    BY <1>0, <2>1, CallStepSound, CallStepOwner, CallStepParked, CallStepDrained,
       OtherSound, OtherOwner, OtherParked, OtherDrained
  <2>3. NoPanic'
    BY <1>0, <1>1, PanicKept DEF Next
  <2> QED
    BY <2>2, <2>3 DEF IInv, Sound
<1>2. CASE UNCHANGED vars
  BY <1>2 DEF vars, IInv, TypeOK, OneOwner, Holds, ParkedInPool, Parked, SweptKind, NoPanic,
              Crashed, Drained, Settled, At
<1> QED
  BY <1>1, <1>2

(* The inductive invariant holds of every behaviour of the Client and its  *)
(* pools: however the calls, addIdleConn, the movers and Shutdown run      *)
(* between each other's steps.                                             *)
THEOREM Invariance == Spec => []IInv
<1> QED
  BY IInvInit, IInvStep, PTL DEF Spec

(* The pools, the calls and the goroutines have the types of TypeOK: only  *)
(* Conns the server has accepted are in a pool or in the hands of a call,  *)
(* whatever the number of calls and of Conns.                              *)
THEOREM PoolTypes == Spec => []TypeOK
<1>1. IInv => TypeOK
  BY DEF IInv
<1> QED
  BY <1>1, Invariance, PTL

(* No Conn has two owners: a Conn is in one pool, once, or in the hands of *)
(* one call of getIdleConn or one addIdleConn (connpool.go, client.go).    *)
THEOREM ConnHasOneOwner == Spec => []OneOwner
<1>1. IInv => OneOwner
  BY DEF IInv
<1> QED
  BY <1>1, Invariance, PTL

(* PutFrom finds the Conn it has to move, so that it does not panic, as    *)
(* long as Shutdown has not swept the pools (connpool.go, PutFrom).        *)
THEOREM PutFromFindsConn == Spec => []WatchedConnInPool
<1>1. IInv => WatchedConnInPool
  BY DEF IInv, WatchedConnInPool, ParkedInPool, Parked, SweptKind, NoPanic, Crashed, Swept
<1> QED
  BY <1>1, Invariance, PTL

(* Shutdown returns nil only when no pipe it has given out is open, and    *)
(* ctx.Err() only when such a pipe is on a closed Conn (client.go).        *)
THEOREM ShutdownLeavesNothing == Spec => []ShutdownDrains
<1>1. IInv => ShutdownDrains
  <2> SUFFICES ASSUME IInv, NEW p \in Call, At(p, "returned"), call[p].pipe = "open"
               PROVE  /\ shutdown # "ok"
                      /\ shutdown = "deadline" /\ closing = <<>>
                           => status[call[p].conn] = "Closed"
    BY DEF ShutdownDrains
  <2>1. call[p].op \in Kind
    BY OpenInPool DEF IInv, Sound
  <2>2. closing = <<>> => ToSet(closing) = {}
    BY DEF ToSet
  <2> QED
    BY <2>1, <2>2 DEF IInv, Drained, Settled, Kind
<1> QED
  BY <1>1, Invariance, PTL

=============================================================================
