----------------------------- MODULE L2TPProofs -----------------------------
(***************************************************************************)
(* Proofs about L2TP, for every header, every list of AVPs and every cut:  *)
(* TypesAreKept, MessagesReadBack, AnswersAreRight and ProcessSurvives.    *)
(*                                                                         *)
(* The formats come first.  A header is read from where encode has written *)
(* it: Fields(b, h, c) names the places of b that hold the fields of h and *)
(* the Length c, and stays true when bytes are appended to b and when b is *)
(* cut behind the header.  FlattenSeq and parseAVPs are loops; that they   *)
(* are recursive functions is proved (FlattenMeans, AVPsMean) by an        *)
(* induction for sets of numbers, and AVPsReadBack follows the two loops   *)
(* through the same bytes, from the last AVP to the first.                 *)
(*                                                                         *)
(* Then Result is evaluated for every message that Init admits (Meant),    *)
(* and the invariant IInv says what the copies of it have come to.         *)
(***************************************************************************)
EXTENDS L2TP, WellFoundedInduction, TLAPS

-----------------------------------------------------------------------------
(* Induction.                                                              *)

(* A set of numbers has a least one.                                       *)
LEMMA LeastNumber ==
  ASSUME NEW T \in SUBSET Nat, T # {}
  PROVE  \E n \in T : \A m \in T : n <= m
<1> DEFINE R == OpToRel(<, Nat)
<1>1. IsWellFoundedOn(R, Nat)
  BY NatLessThanWellFounded
<1>2. \A m, n \in Nat : <<m, n>> \in R <=> m < n
  BY DEF OpToRel
<1> HIDE DEF R
<1>3. PICK n \in T : \A m \in T : ~(<<m, n>> \in R)
  BY <1>1, WFMin
<1>4. \A m \in T : m \in Nat /\ n \in Nat /\ ~(m < n)
  BY <1>2, <1>3
<1>5. \A m \in T : n <= m
  BY <1>4
<1> QED
  BY <1>5

(* Induction, for a set of numbers.                                        *)
LEMMA Induction ==
  ASSUME NEW S, 0 \in S, \A n \in Nat : n \in S => n + 1 \in S
  PROVE  \A n \in Nat : n \in S
<1> SUFFICES ASSUME NEW x \in Nat, x \notin S PROVE FALSE
  OBVIOUS
<1> DEFINE T == {n \in Nat : n \notin S}
<1>1. PICK n \in T : \A m \in T : n <= m
  BY LeastNumber
<1>2. n \in Nat /\ n # 0 /\ n \notin S
  BY <1>1
<1>3. n - 1 \in Nat /\ n - 1 \notin T
  BY <1>1, <1>2
<1> QED
  BY <1>2, <1>3

-----------------------------------------------------------------------------
(* Words.                                                                  *)

(* How the bounds of a word are shown.                                     *)
LEMMA InWord ==
  ASSUME NEW f \in Int, f \notin Word
  PROVE  f < 0 \/ f > 65535
BY SMT DEF Word

(* Bytes and words are numbers.                                            *)
LEMMA Numbers == Word \subseteq Nat /\ Byte \subseteq Nat
BY SMT DEF Word, Byte

(* A word in two bytes.                                                    *)
LEMMA ByteFacts ==
  ASSUME NEW v \in Word
  PROVE  /\ Bytes(v) \in Seq(Byte) /\ Len(Bytes(v)) = 2
         /\ 256 * Bytes(v)[1] + Bytes(v)[2] = v
<1>1. v \div 256 \in Byte /\ v % 256 \in Byte /\ 256 * (v \div 256) + (v % 256) = v
  BY DEF Word, Byte
<1> QED
  BY <1>1 DEF Bytes

(* The word at place i of s is v.                                          *)
Reads(s, i, v) == i \in Nat \ {0} /\ i + 1 <= Len(s) /\ WordAt(s, i) = v

(* The concatenation of s and t.                                           *)
IsConcat(w, s, t) ==
  /\ Len(w) = Len(s) + Len(t)
  /\ \A i \in 1 .. Len(s) : w[i] = s[i]
  /\ \A i \in 1 .. Len(t) : w[Len(s) + i] = t[i]

(* What is known of a concatenation.                                       *)
LEMMA Concat ==
  ASSUME NEW T, NEW s \in Seq(T), NEW t \in Seq(T)
  PROVE  IsConcat(s \o t, s, t) /\ s \o t \in Seq(T) /\ Len(s) \in Nat /\ Len(t) \in Nat
BY DEF IsConcat

(* Words are read as before when bytes follow,                             *)
LEMMA ReadsKept ==
  ASSUME NEW s \in Seq(Byte), NEW t \in Seq(Byte), NEW i, NEW v, Reads(s, i, v)
  PROVE  Reads(s \o t, i, v)
<1> DEFINE w == s \o t
<1>1. IsConcat(w, s, t) /\ Len(s) \in Nat /\ Len(t) \in Nat
  BY Concat
<1> HIDE DEF w
<1>2. i \in 1 .. Len(s) /\ i + 1 \in 1 .. Len(s)
  BY <1>1 DEF Reads
<1>3. Reads(w, i, v)
  BY <1>1, <1>2 DEF Reads, IsConcat, WordAt
<1> QED
  BY <1>3 DEF w

(* further on when bytes precede,                                          *)
LEMMA ReadsShifted ==
  ASSUME NEW s \in Seq(Byte), NEW t \in Seq(Byte), NEW i, NEW v, Reads(t, i, v)
  PROVE  Reads(s \o t, Len(s) + i, v)
<1> DEFINE w == s \o t
<1>1. IsConcat(w, s, t) /\ Len(s) \in Nat /\ Len(t) \in Nat
  BY Concat
<1> HIDE DEF w
<1>2. i \in 1 .. Len(t) /\ i + 1 \in 1 .. Len(t) /\ (Len(s) + i) + 1 = Len(s) + (i + 1)
  BY <1>1 DEF Reads
<1>3. w[Len(s) + i] = t[i] /\ w[Len(s) + i + 1] = t[i + 1]
  BY <1>1, <1>2 DEF IsConcat
<1>4. Reads(w, Len(s) + i, v)
  BY <1>1, <1>2, <1>3 DEF Reads, IsConcat, WordAt
<1> QED
  BY <1>4 DEF w

(* and where they are appended.                                            *)
LEMMA ReadsAdded ==
  ASSUME NEW s \in Seq(Byte), NEW v \in Word
  PROVE  /\ Reads(s \o Bytes(v), Len(s) + 1, v)
         /\ s \o Bytes(v) \in Seq(Byte) /\ Len(s \o Bytes(v)) = Len(s) + 2
<1>1. Bytes(v) \in Seq(Byte) /\ Reads(Bytes(v), 1, v) /\ Len(Bytes(v)) = 2
  BY ByteFacts DEF Reads, WordAt
<1>2. Reads(s \o Bytes(v), Len(s) + 1, v)
  BY <1>1, ReadsShifted
<1>3. IsConcat(s \o Bytes(v), s, Bytes(v)) /\ s \o Bytes(v) \in Seq(Byte)
  BY <1>1, Concat
<1> QED
  BY <1>1, <1>2, <1>3 DEF IsConcat

(* The front of a sequence.                                                *)
LEMMA ReadsFront ==
  ASSUME NEW s \in Seq(Byte), NEW n \in 0 .. Len(s), NEW i, NEW v, Reads(s, i, v), i + 1 <= n
  PROVE  Reads(SubSeq(s, 1, n), i, v)
<1> DEFINE w == SubSeq(s, 1, n)
<1>1. Len(w) = n /\ \A j \in 1 .. n : w[j] = s[j]
  OBVIOUS
<1> HIDE DEF w
<1>2. i \in 1 .. n /\ i + 1 \in 1 .. n
  BY DEF Reads
<1>3. Reads(w, i, v)
  BY <1>1, <1>2 DEF Reads, WordAt
<1> QED
  BY <1>3 DEF w

-----------------------------------------------------------------------------
(* The flags of a header.                                                  *)
FlagsOf(isControl, priority, hasLength, sequence, hasOffset) ==
  Version + Flag(isControl, flagType) + Flag(priority, flagPriority)
    + Flag(hasLength, flagLength) + Flag(sequence, flagSequence)
    + Flag(hasOffset, flagOffset)
Flags(h) == FlagsOf(h.isControl, h.priority, h.length # 0, h.sequence, h.offset > 0)

FlagsRead(f, isControl, priority, hasLength, sequence, hasOffset) ==
  /\ f \in Word /\ f % 16 = Version
  /\ IsSet(f, flagType) <=> isControl
  /\ IsSet(f, flagPriority) <=> priority
  /\ IsSet(f, flagLength) <=> hasLength
  /\ IsSet(f, flagSequence) <=> sequence
  /\ IsSet(f, flagOffset) <=> hasOffset

(* The flags of a header are read as they were set,                        *)
LEMMA FlagBits ==
  ASSUME NEW a \in BOOLEAN, NEW b \in BOOLEAN, NEW c \in BOOLEAN, NEW d \in BOOLEAN,
         NEW e \in BOOLEAN
  PROVE  FlagsRead(FlagsOf(a, b, c, d, e), a, b, c, d, e)
<1> SUFFICES ASSUME NEW f, f = FlagsOf(a, b, c, d, e)
             PROVE  /\ f \in Word /\ f % 16 = Version
                    /\ IsSet(f, flagType) <=> a
                    /\ IsSet(f, flagPriority) <=> b
                    /\ IsSet(f, flagLength) <=> c
                    /\ IsSet(f, flagSequence) <=> d
                    /\ IsSet(f, flagOffset) <=> e
  BY DEF FlagsRead
<1> SUFFICES ASSUME NEW u \in {0, 32768}, NEW v \in {0, 256}, NEW x \in {0, 16384},
                    NEW y \in {0, 2048}, NEW z \in {0, 512}
             PROVE  LET g == 2 + u + v + x + y + z IN
                    /\ g \in Word /\ g % 16 = 2
                    /\ (g \div 32768) % 2 = 1 <=> u = 32768
                    /\ (g \div 256) % 2 = 1 <=> v = 256
                    /\ (g \div 16384) % 2 = 1 <=> x = 16384
                    /\ (g \div 2048) % 2 = 1 <=> y = 2048
                    /\ (g \div 512) % 2 = 1 <=> z = 512
  <2> DEFINE u == Flag(a, flagType)
             v == Flag(b, flagPriority)
             x == Flag(c, flagLength)
             y == Flag(d, flagSequence)
             z == Flag(e, flagOffset)
  <2>1. /\ u \in {0, 32768} /\ (u = 32768 <=> a) /\ v \in {0, 256} /\ (v = 256 <=> b)
        /\ x \in {0, 16384} /\ (x = 16384 <=> c) /\ y \in {0, 2048} /\ (y = 2048 <=> d)
        /\ z \in {0, 512} /\ (z = 512 <=> e)
    BY DEF Flag, flagType, flagPriority, flagLength, flagSequence, flagOffset
  <2>0. f = Version + u + v + x + y + z
    BY DEF FlagsOf
  <2> HIDE DEF u, v, x, y, z
  <2>2. /\ f \in Word /\ f % 16 = Version
        /\ IsSet(f, flagType) <=> a
        /\ IsSet(f, flagPriority) <=> b
        /\ IsSet(f, flagLength) <=> c
        /\ IsSet(f, flagSequence) <=> d
        /\ IsSet(f, flagOffset) <=> e
    BY <2>0, <2>1 DEF Version, IsSet, flagType, flagPriority, flagLength, flagSequence, flagOffset
  <2> QED
    BY <2>2
<1> DEFINE g == 2 + u + v + x + y + z
<1>1. g \in Word /\ g % 16 = 2
  <2>1. g \in Word
    <3>1. g \in Int /\ ~(g < 0) /\ ~(g > 65535)
      BY SMT
    <3> HIDE DEF g
    <3> QED
      BY <3>1, InWord, SMT
  <2>2. g % 16 = 2
    OBVIOUS
  <2> QED
    BY <2>1, <2>2
<1>2. (g \div 32768) % 2 = 1 <=> u = 32768
  OBVIOUS
<1>3. (g \div 256) % 2 = 1 <=> v = 256
  OBVIOUS
<1>4. (g \div 16384) % 2 = 1 <=> x = 16384
  OBVIOUS
<1>5. (g \div 2048) % 2 = 1 <=> y = 2048
  OBVIOUS
<1>6. (g \div 512) % 2 = 1 <=> z = 512
  OBVIOUS
<1> QED
  BY <1>1, <1>2, <1>3, <1>4, <1>5, <1>6

(* The length of an AVP has ten bits.                                      *)
Ten == 0 .. 1023

(* What is left in ten bits.                                               *)
LEMMA InTen == \A n \in Nat : n % 1024 \in Ten
BY DEF Ten

(* The flags of an AVP and its length.                                     *)
AVPFlags(mandatory, hidden, n) == Flag(mandatory, flagMandatory) + Flag(hidden, flagHidden) + n
AVPFlagsRead(f, mandatory, hidden, n) ==
  /\ f \in Word /\ TenBits(f) = n
  /\ IsSet(f, flagMandatory) <=> mandatory
  /\ IsSet(f, flagHidden) <=> hidden

(* and so are those of an AVP, and its length.                             *)
LEMMA AVPBits ==
  ASSUME NEW a \in BOOLEAN, NEW b \in BOOLEAN, NEW n \in Ten
  PROVE  AVPFlagsRead(AVPFlags(a, b, n), a, b, n)
<1> DEFINE u == Flag(a, flagMandatory)
           v == Flag(b, flagHidden)
<1>1. u \in {0, 32768} /\ (u = 32768 <=> a) /\ v \in {0, 16384} /\ (v = 16384 <=> b)
  BY DEF Flag, flagMandatory, flagHidden
<1> HIDE DEF u, v
<1>2. u + v + n \in Word /\ (u + v + n) % 1024 = n
  <2>1. u + v + n \in Word
    <3> DEFINE f == u + v + n
    <3>1. f \in Int /\ ~(f < 0) /\ ~(f > 65535)
      BY <1>1, SMT DEF Ten
    <3> HIDE DEF f
    <3>2. f \in Word
      BY <3>1, InWord, SMT
    <3> QED
      BY <3>2 DEF f
  <2>2. (u + v + n) % 1024 = n
    BY <1>1 DEF Ten
  <2> QED
    BY <2>1, <2>2
<1>3. ((u + v + n) \div 32768) % 2 = 1 <=> u = 32768
  BY <1>1 DEF Ten
<1>4. ((u + v + n) \div 16384) % 2 = 1 <=> v = 16384
  BY <1>1 DEF Ten
<1>5. /\ IsSet(u + v + n, flagMandatory) <=> a
      /\ IsSet(u + v + n, flagHidden) <=> b
      /\ TenBits(u + v + n) = n
  BY <1>1, <1>2, <1>3, <1>4 DEF IsSet, flagMandatory, flagHidden, TenBits
<1>6. AVPFlags(a, b, n) = u + v + n
  BY DEF AVPFlags, u, v
<1> QED
  BY <1>2, <1>5, <1>6, Zenon DEF AVPFlagsRead

-----------------------------------------------------------------------------
(* Loops: a recursion over places, and FlattenSeq.                         *)

(* A recursion from a place on to places further on, up to n: there is     *)
(* such a function.  g is its value where it stops, G what it makes of the *)
(* value at the next place, next.                                          *)
Onwards(h, n, stop, g, G, next) ==
  \A i \in 0 .. n : h[i] = IF i \in stop THEN g[i] ELSE G[i][h[next[i]]]

LEMMA OnwardsExists ==
  ASSUME NEW n \in Nat, NEW V, NEW stop, NEW g \in [0 .. n -> V],
         NEW G \in [0 .. n -> [V -> V]], NEW next,
         \A i \in 0 .. n : i \notin stop => next[i] \in (i + 1) .. n
  PROVE  \E h \in [0 .. n -> V] : Onwards(h, n, stop, g, G, next)
<1> DEFINE From(m, h) == \A i \in (n - m) .. n :
                           h[i] = IF i \in stop THEN g[i] ELSE G[i][h[next[i]]]
           Some(m) == \E h \in [(n - m) .. n -> V] : From(m, h)
           S == {m \in Nat : m <= n => Some(m)}
<1>0. \A m \in Nat : m \in S <=> (m <= n => Some(m))
  OBVIOUS
<1> HIDE DEF S
<1>1. 0 \in S
  <2> DEFINE h == [i \in (n - 0) .. n |-> g[i]]
  <2>1. \A i \in (n - 0) .. n : i = n /\ i \in 0 .. n
    OBVIOUS
  <2>2. n \in stop
    <3>1. (n + 1) .. n = {} /\ n \in 0 .. n
      OBVIOUS
    <3> QED
      BY <3>1
  <2>3. h \in [(n - 0) .. n -> V]
    BY <2>1
  <2>4. From(0, h)
    BY <2>1, <2>2
  <2> QED
    BY <1>0, <2>3, <2>4
<1>2. ASSUME NEW m \in Nat, m \in S PROVE m + 1 \in S
  <2> SUFFICES ASSUME m + 1 <= n PROVE Some(m + 1)
    BY <1>0
  <2>1. Some(m)
    <3>1. m <= n
      OBVIOUS
    <3> QED
      BY <1>0, <1>2, <3>1
  <2>2. PICK h \in [(n - m) .. n -> V] : From(m, h)
    BY <2>1
  <2> DEFINE k == n - (m + 1)
             f == [i \in k .. n |->
                     IF i = k THEN (IF k \in stop THEN g[k] ELSE G[k][h[next[k]]]) ELSE h[i]]
  <2>3. k \in Nat /\ k \in 0 .. n /\ k + 1 = n - m
        /\ (\A i \in k .. n : i # k => i \in (n - m) .. n)
        /\ \A i \in (n - m) .. n : i \in k .. n /\ i # k /\ i \in 0 .. n
    OBVIOUS
  <2>4. k \notin stop => next[k] \in (n - m) .. n /\ h[next[k]] \in V
    BY <2>3
  <2> HIDE DEF k
  <2>5. f \in [k .. n -> V]
    <3>1. (IF k \in stop THEN g[k] ELSE G[k][h[next[k]]]) \in V
      BY <2>3, <2>4
    <3> QED
      BY <2>3, <3>1
  <2>6. ASSUME NEW i \in k .. n
        PROVE  f[i] = IF i \in stop THEN g[i] ELSE G[i][f[next[i]]]
    <3>1. CASE i = k
      BY <2>3, <2>4, <3>1
    <3>2. CASE i # k
      <4>1. i \in (n - m) .. n /\ f[i] = h[i]
        BY <2>3, <3>2
      <4>2. i \notin stop => f[next[i]] = h[next[i]]
        <5>1. ASSUME i \notin stop PROVE next[i] \in (n - m) .. n
          <6>1. next[i] \in (i + 1) .. n
            BY <2>3, <4>1, <5>1
          <6> QED
            BY <4>1, <6>1
        <5> QED
          BY <2>3, <5>1
      <4> HIDE DEF f
      <4> QED
        BY <2>2, <4>1, <4>2
    <3> QED
      BY <3>1, <3>2
  <2> HIDE DEF f
  <2> QED
    BY <2>5, <2>6 DEF k
<1>3. n \in S
  <2> HIDE DEF Some
  <2> QED
    BY <1>1, <1>2, Induction
<1>4. Some(n)
  BY <1>0, <1>3
<1>5. PICK h \in [(n - n) .. n -> V] : From(n, h)
  BY <1>4
<1>6. (n - n) .. n = 0 .. n
  OBVIOUS
<1> QED
  BY <1>5, <1>6 DEF Onwards

(* The elements of a sequence.                                             *)
LEMMA SeqElement ==
  ASSUME NEW T, NEW s \in Seq(T)
  PROVE  Len(s) \in Nat /\ DOMAIN s = 1 .. Len(s) /\ \A i \in 1 .. Len(s) : s[i] \in T
OBVIOUS

(* What FlattenSeq computes.                                               *)
LEMMA FlattenExists ==
  ASSUME NEW T, NEW s \in Seq(Seq(T))
  PROVE  \E f \in [0 .. Len(s) -> Seq(T)] :
           f[0] = <<>> /\ \A i \in 1 .. Len(s) : f[i] = f[i - 1] \o s[i]
<1> DEFINE Rec(f, m) == f[0] = <<>> /\ \A i \in 1 .. m : f[i] = f[i - 1] \o s[i]
           Some(m) == \E f \in [0 .. m -> Seq(T)] : Rec(f, m)
           S == {m \in Nat : m <= Len(s) => Some(m)}
<1>a. Len(s) \in Nat /\ (\A i \in 1 .. Len(s) : s[i] \in Seq(T))
  BY SeqElement, Zenon
<1>b. \A m \in Nat : m \in S <=> (m <= Len(s) => Some(m))
  <2> HIDE DEF Some
  <2> QED
    OBVIOUS
<1>0. /\ Len(s) \in Nat /\ (\A i \in 1 .. Len(s) : s[i] \in Seq(T))
      /\ \A m \in Nat : m \in S <=> (m <= Len(s) => Some(m))
  BY <1>a, <1>b
<1> HIDE DEF S
<1>1. 0 \in S
  <2>1. [i \in 0 .. 0 |-> <<>>] \in [0 .. 0 -> Seq(T)]
    OBVIOUS
  <2>2. Rec([i \in 0 .. 0 |-> <<>>], 0)
    OBVIOUS
  <2>3. Some(0)
    BY <2>1, <2>2
  <2> QED
    BY <1>0, <2>3
<1>2. ASSUME NEW m \in Nat, m \in S PROVE m + 1 \in S
  <2> SUFFICES ASSUME m + 1 <= Len(s) PROVE Some(m + 1)
    <3> HIDE DEF Some
    <3> QED
      BY <1>b
  <2>1. Some(m)
    <3>1. m <= Len(s)
      BY <1>0
    <3> QED
      BY <1>0, <1>2, <3>1
  <2>2. PICK f \in [0 .. m -> Seq(T)] : Rec(f, m)
    BY <2>1
  <2> DEFINE c == f[m] \o s[m + 1]
             g == [i \in 0 .. m + 1 |-> IF i = m + 1 THEN c ELSE f[i]]
  <2>3. c \in Seq(T)
    <3>1. f[m] \in Seq(T) /\ s[m + 1] \in Seq(T)
      BY <1>0
    <3> QED
      BY <3>1, Concat
  <2> HIDE DEF c
  <2>4. \A i \in 0 .. m + 1 : i = m + 1 \/ i \in 0 .. m
    OBVIOUS
  <2>5. g \in [0 .. m + 1 -> Seq(T)]
    BY <2>3, <2>4
  <2>6. g[0] = <<>> /\ g[m + 1] = c /\ (\A i \in 0 .. m : g[i] = f[i])
    BY <2>2
  <2> HIDE DEF g
  <2>7. ASSUME NEW i \in 1 .. m + 1 PROVE g[i] = g[i - 1] \o s[i]
    <3>1. CASE i = m + 1
      <4>1. i - 1 = m /\ m \in 0 .. m
        BY <3>1
      <4> QED
        BY <2>6, <3>1, <4>1 DEF c
    <3>2. CASE i # m + 1
      <4>1. i \in 1 .. m /\ i \in 0 .. m /\ i - 1 \in 0 .. m
        BY <3>2
      <4> QED
        BY <2>2, <2>6, <4>1
    <3> QED
      BY <3>1, <3>2
  <2> QED
    BY <2>5, <2>6, <2>7
<1>3. Len(s) \in S
  <2> HIDE DEF Some
  <2> QED
    BY <1>0, <1>1, <1>2, Induction
<1>4. Some(Len(s))
  <2> HIDE DEF Some
  <2> QED
    BY <1>0, <1>3
<1> QED
  BY <1>4

(* f goes through the sequences of s from left to right.                   *)
Joins(f, s, T) ==
  /\ f \in [0 .. Len(s) -> Seq(T)]
  /\ f[0] = <<>> /\ \A i \in 1 .. Len(s) : f[i] = f[i - 1] \o s[i]

(* FlattenSeq joins the sequences from left to right.                      *)
LEMMA FlattenMeans ==
  ASSUME NEW T, NEW s \in Seq(Seq(T))
  PROVE  \E f : Joins(f, s, T) /\ FlattenSeq(s) = f[Len(s)]
<1>0. Len(s) \in Nat /\ (\A i \in 1 .. Len(s) : s[i] \in Seq(T))
  BY SeqElement, Zenon
<1>1. PICK g \in [0 .. Len(s) -> Seq(T)] :
           g[0] = <<>> /\ \A i \in 1 .. Len(s) : g[i] = g[i - 1] \o s[i]
  BY FlattenExists
<1>2. CASE Len(s) = 0
  <2>1. s = <<>> /\ FlattenSeq(s) = s
    BY <1>2 DEF FlattenSeq
  <2> QED
    BY <1>1, <1>2, <2>1 DEF Joins
<1>3. CASE Len(s) # 0
  <2> DEFINE Loop(h) == h = [i \in 1 .. Len(s) |->
                               IF i = 1 THEN s[i] ELSE h[i - 1] \o s[i]]
             flatten == CHOOSE h : Loop(h)
             e == [i \in 1 .. Len(s) |-> g[i]]
             f == [i \in 0 .. Len(s) |-> IF i = 0 THEN <<>> ELSE flatten[i]]
  <2>1. \A i \in 1 .. Len(s) : e[i] = IF i = 1 THEN s[i] ELSE e[i - 1] \o s[i]
    <3> SUFFICES ASSUME NEW i \in 1 .. Len(s)
                 PROVE  e[i] = IF i = 1 THEN s[i] ELSE e[i - 1] \o s[i]
      OBVIOUS
    <3>1. g[i] = g[i - 1] \o s[i] /\ s[i] \in Seq(T)
      BY <1>0, <1>1
    <3>2. CASE i = 1
      <4>1. <<>> \o s[i] = s[i]
        BY <3>1
      <4>2. e[i] = g[i] /\ i - 1 = 0
        BY <3>2
      <4> HIDE DEF e
      <4>3. e[i] = s[i]
        BY <1>1, <3>1, <4>1, <4>2
      <4> QED
        BY <3>2, <4>3
    <3>3. CASE i # 1
      <4>1. i - 1 \in 1 .. Len(s)
        BY <1>0, <3>3
      <4>2. e[i] = g[i] /\ e[i - 1] = g[i - 1]
        BY <4>1
      <4> HIDE DEF e
      <4> QED
        BY <3>1, <3>3, <4>2
    <3> QED
      BY <3>2, <3>3
  <2>2. Loop(e)
    BY <2>1
  <2>3. Loop(flatten)
    <3> HIDE DEF e, Loop
    <3> QED
      BY <2>2
  <2>4. FlattenSeq(s) = flatten[Len(s)]
    BY <1>3 DEF FlattenSeq
  <2> HIDE DEF flatten
  <2>5. \A i \in 1 .. Len(s) : flatten[i] = IF i = 1 THEN s[i] ELSE flatten[i - 1] \o s[i]
    BY <2>3
  <2>6. f[0] = <<>> /\ \A i \in 1 .. Len(s) : f[i] = f[i - 1] \o s[i]
    <3>0. f[0] = <<>>
      BY <1>0
    <3> HIDE DEF f
    <3> SUFFICES ASSUME NEW i \in 1 .. Len(s) PROVE f[i] = f[i - 1] \o s[i]
      BY <3>0
    <3> USE DEF f
    <3>1. f[i] = flatten[i] /\ s[i] \in Seq(T)
      BY <1>0
    <3>2. CASE i = 1
      <4>1. f[i - 1] = <<>> /\ <<>> \o s[i] = s[i]
        BY <1>0, <3>1, <3>2
      <4> QED
        BY <2>5, <3>1, <3>2, <4>1
    <3>3. CASE i # 1
      <4>1. i - 1 \in 1 .. Len(s) /\ i - 1 # 0
        BY <1>0, <3>3
      <4>2. f[i - 1] = flatten[i - 1]
        BY <4>1
      <4> QED
        BY <2>5, <3>1, <3>3, <4>2
    <3> QED
      BY <3>2, <3>3
  <2>6a. f[Len(s)] = flatten[Len(s)] /\ f = [i \in 0 .. Len(s) |-> f[i]]
    BY <1>0, <1>3
  <2> HIDE DEF f
  <2>7. \A i \in 0 .. Len(s) : f[i] \in Seq(T)
    <3> DEFINE S == {i \in Nat : i <= Len(s) => f[i] \in Seq(T)}
    <3>0. \A i \in Nat : i \in S <=> (i <= Len(s) => f[i] \in Seq(T))
      OBVIOUS
    <3> HIDE DEF S
    <3>1. 0 \in S
      <4>1. f[0] \in Seq(T)
        BY <2>6
      <4> QED
        BY <3>0, <4>1
    <3>2. ASSUME NEW i \in Nat, i \in S PROVE i + 1 \in S
      <4> SUFFICES ASSUME i + 1 <= Len(s) PROVE f[i + 1] \in Seq(T)
        BY <3>0
      <4>1. i + 1 \in 1 .. Len(s) /\ i <= Len(s) /\ (i + 1) - 1 = i
        BY <1>0
      <4>2. f[i] \in Seq(T) /\ s[i + 1] \in Seq(T) /\ f[i + 1] = f[i] \o s[i + 1]
        <5>1. f[i + 1] = f[(i + 1) - 1] \o s[i + 1]
          BY <2>6, <4>1
        <5> QED
          BY <1>0, <3>0, <3>2, <4>1, <5>1
      <4> QED
        BY <4>2, Concat
    <3>3. \A i \in Nat : i \in S
      BY <3>1, <3>2, Induction
    <3> QED
      BY <3>0, <3>3
  <2>8. f \in [0 .. Len(s) -> Seq(T)]
    BY <2>6a, <2>7
  <2> QED
    BY <2>4, <2>6, <2>6a, <2>8 DEF Joins
<1> QED
  BY <1>2, <1>3

-----------------------------------------------------------------------------
(* Where encode puts the fields of a header, and how long it makes it.     *)
IdsAt(h) == IF h.length # 0 THEN 5 ELSE 3
PadAt(h) == IF h.sequence THEN IdsAt(h) + 8 ELSE IdsAt(h) + 4
Size(h) == IF h.offset > 0 THEN PadAt(h) + 1 ELSE PadAt(h) - 1

Fields(b, h, c) ==
  /\ Reads(b, 1, Flags(h))
  /\ h.length # 0 => Reads(b, 3, c)
  /\ Reads(b, IdsAt(h), h.tunnelID) /\ Reads(b, IdsAt(h) + 2, h.sessionID)
  /\ h.sequence => Reads(b, IdsAt(h) + 4, h.ns) /\ Reads(b, IdsAt(h) + 6, h.nr)
  /\ h.offset > 0 => Reads(b, PadAt(h), h.offset)

(* The length of an encoded header.                                        *)
LEMMA SizeOf ==
  ASSUME NEW h, h.length \in Nat, h.tunnelID \in Nat, h.sessionID \in Nat, h.ns \in Nat,
         h.nr \in Nat, h.offset \in Nat, Flags(h) \in Nat
  PROVE  /\ Len(encode(h)) = Size(h) /\ Size(h) \in Nat /\ Size(h) >= 6
         /\ encode(h) \in Seq(Nat)
<1>1. \A n \in Nat : Bytes(n) \in Seq(Nat) /\ Len(Bytes(n)) = 2
  BY DEF Bytes
<1> DEFINE A == Bytes(Flags(h))
           B == IF h.length # 0 THEN Bytes(h.length) ELSE <<>>
           C == Bytes(h.tunnelID)
           D == Bytes(h.sessionID)
           E == IF h.sequence THEN Bytes(h.ns) \o Bytes(h.nr) ELSE <<>>
           F == IF h.offset > 0 THEN Bytes(h.offset) ELSE <<>>
<1>2. /\ A \in Seq(Nat) /\ Len(A) = 2 /\ C \in Seq(Nat) /\ Len(C) = 2
      /\ D \in Seq(Nat) /\ Len(D) = 2
  BY <1>1
<1>0. <<>> \in Seq(Nat) /\ Len(<<>>) = 0
  OBVIOUS
<1>l. \A s, t \in Seq(Nat) : s \o t \in Seq(Nat) /\ Len(s \o t) = Len(s) + Len(t)
                             /\ Len(s) \in Nat
  OBVIOUS
<1>3. B \in Seq(Nat) /\ Len(B) = IF h.length # 0 THEN 2 ELSE 0
  <2>1. Bytes(h.length) \in Seq(Nat) /\ Len(Bytes(h.length)) = 2
    BY <1>1
  <2> QED
    BY <1>0, <2>1, Zenon
<1>4. E \in Seq(Nat) /\ Len(E) = IF h.sequence THEN 4 ELSE 0
  <2>1. /\ Bytes(h.ns) \in Seq(Nat) /\ Len(Bytes(h.ns)) = 2
        /\ Bytes(h.nr) \in Seq(Nat) /\ Len(Bytes(h.nr)) = 2
    BY <1>1
  <2>2. Bytes(h.ns) \o Bytes(h.nr) \in Seq(Nat) /\ Len(Bytes(h.ns) \o Bytes(h.nr)) = 4
    <3> DEFINE u == Bytes(h.ns)
               v == Bytes(h.nr)
    <3> HIDE DEF u, v
    <3>1. u \in Seq(Nat) /\ v \in Seq(Nat) /\ Len(u) = 2 /\ Len(v) = 2
      BY <2>1 DEF u, v
    <3>2. u \o v \in Seq(Nat) /\ Len(u \o v) = Len(u) + Len(v)
      BY <1>l, <3>1, Zenon
    <3>3. u \o v \in Seq(Nat) /\ Len(u \o v) = 4
      BY <3>1, <3>2
    <3> QED
      BY <3>3 DEF u, v
  <2>3. CASE h.sequence
    BY <2>2, <2>3, Zenon
  <2>4. CASE ~h.sequence
    <3>1. E = <<>>
      BY <2>4
    <3> HIDE DEF E
    <3> QED
      BY <1>0, <2>4, <3>1
  <2> HIDE DEF E
  <2> QED
    BY <2>3, <2>4, Zenon
<1>5. F \in Seq(Nat) /\ Len(F) = IF h.offset > 0 THEN 2 ELSE 0
  <2>1. Bytes(h.offset) \in Seq(Nat) /\ Len(Bytes(h.offset)) = 2
    BY <1>1
  <2>2. CASE h.offset > 0
    BY <2>1, <2>2, Zenon
  <2>3. CASE ~(h.offset > 0)
    <3>1. F = <<>>
      BY <2>3
    <3> HIDE DEF F
    <3> QED
      BY <1>0, <2>3, <3>1
  <2> HIDE DEF F
  <2> QED
    BY <2>2, <2>3, Zenon
<1>6. encode(h) = A \o B \o C \o D \o E \o F
  BY DEF encode, Flags, FlagsOf
<1> HIDE DEF A, B, C, D, E, F
<1> DEFINE P2 == A \o B
           P3 == P2 \o C
           P4 == P3 \o D
           P5 == P4 \o E
           P6 == P5 \o F
<1>a. P2 \in Seq(Nat) /\ Len(P2) = Len(A) + Len(B)
  BY <1>l, <1>2, <1>3, Zenon
<1> HIDE DEF P2
<1>b. P3 \in Seq(Nat) /\ Len(P3) = Len(P2) + Len(C)
  BY <1>l, <1>2, <1>a, Zenon
<1> HIDE DEF P3
<1>c. P4 \in Seq(Nat) /\ Len(P4) = Len(P3) + Len(D)
  BY <1>l, <1>2, <1>b, Zenon
<1> HIDE DEF P4
<1>d. P5 \in Seq(Nat) /\ Len(P5) = Len(P4) + Len(E)
  BY <1>l, <1>4, <1>c, Zenon
<1> HIDE DEF P5
<1>e. P6 \in Seq(Nat) /\ Len(P6) = Len(P5) + Len(F)
  BY <1>l, <1>5, <1>d, Zenon
<1> HIDE DEF P6
<1>f. encode(h) = P6
  BY <1>6, Zenon DEF P2, P3, P4, P5, P6
<1>7. encode(h) \in Seq(Nat) /\ Len(encode(h)) = 6 + Len(B) + Len(E) + Len(F)
  BY <1>2, <1>3, <1>4, <1>5, <1>a, <1>b, <1>c, <1>d, <1>e, <1>f
<1>8. Size(h) = 6 + Len(B) + Len(E) + Len(F)
  BY <1>3, <1>4, <1>5 DEF Size, PadAt, IdsAt
<1>9. Size(h) \in Nat /\ Size(h) >= 6
  BY <1>3, <1>4, <1>5, <1>8
<1> QED
  BY <1>7, <1>8, <1>9, Zenon

(* What the flags of a header say.                                         *)
LEMMA HeaderWords ==
  ASSUME NEW h \in Header
  PROVE  /\ h.length \in Word /\ h.tunnelID \in Word /\ h.sessionID \in Word /\ h.ns \in Word
         /\ h.nr \in Word /\ h.offset \in Word /\ Flags(h) \in Word
         /\ h.isControl \in BOOLEAN /\ h.sequence \in BOOLEAN /\ h.priority \in BOOLEAN
         /\ Word \subseteq Nat
         /\ Flags(h) % 16 = Version
         /\ IsSet(Flags(h), flagType) <=> h.isControl
         /\ IsSet(Flags(h), flagPriority) <=> h.priority
         /\ IsSet(Flags(h), flagLength) <=> h.length # 0
         /\ IsSet(Flags(h), flagSequence) <=> h.sequence
         /\ IsSet(Flags(h), flagOffset) <=> h.offset > 0
<1>1. /\ h.length \in Word /\ h.tunnelID \in Word /\ h.sessionID \in Word /\ h.ns \in Word
      /\ h.nr \in Word /\ h.offset \in Word
      /\ h.isControl \in BOOLEAN /\ h.sequence \in BOOLEAN /\ h.priority \in BOOLEAN
  BY DEF Header
<1>2. Word \subseteq Nat
  BY SMT DEF Word
<1>3. (h.length # 0) \in BOOLEAN /\ (h.offset > 0) \in BOOLEAN
  BY <1>1, <1>2
<1>4. /\ Flags(h) \in Word /\ Flags(h) % 16 = Version
      /\ IsSet(Flags(h), flagType) <=> h.isControl
      /\ IsSet(Flags(h), flagPriority) <=> h.priority
      /\ IsSet(Flags(h), flagLength) <=> h.length # 0
      /\ IsSet(Flags(h), flagSequence) <=> h.sequence
      /\ IsSet(Flags(h), flagOffset) <=> h.offset > 0
  <2> DEFINE c == h.length # 0
             e == h.offset > 0
  <2>1. c \in BOOLEAN /\ e \in BOOLEAN
    BY <1>3
  <2>2. Flags(h) = FlagsOf(h.isControl, h.priority, c, h.sequence, e)
    BY Zenon DEF Flags
  <2> HIDE DEF c, e
  <2>3. FlagsRead(Flags(h), h.isControl, h.priority, c, h.sequence, e)
    BY <1>1, <2>1, <2>2, FlagBits, Zenon
  <2> QED
    BY <2>3, Zenon DEF c, e, FlagsRead
<1> QED
  BY <1>1, <1>2, <1>4, Zenon

(* What is written is there, whatever follows it.                          *)
LEMMA FieldsWritten ==
  ASSUME NEW h \in Header
  PROVE  encode(h) \in Seq(Byte) /\ Fields(encode(h), h, h.length)
<1>1. \A v \in Word : Bytes(v) \in Seq(Byte) /\ Len(Bytes(v)) = 2
  BY ByteFacts
<1>2. /\ h.length \in Word /\ h.tunnelID \in Word /\ h.sessionID \in Word /\ h.ns \in Word
      /\ h.nr \in Word /\ h.offset \in Word /\ Flags(h) \in Word
  BY HeaderWords
<1> DEFINE A == <<>> \o Bytes(Flags(h))
           B == IF h.length # 0 THEN A \o Bytes(h.length) ELSE A
           C == B \o Bytes(h.tunnelID)
           D == C \o Bytes(h.sessionID)
           E1 == D \o Bytes(h.ns)
           E == IF h.sequence THEN E1 \o Bytes(h.nr) ELSE D
           F == IF h.offset > 0 THEN E \o Bytes(h.offset) ELSE E
<1>3. encode(h) = F
  <2>1. \A s \in Seq(Byte) : s \o <<>> = s /\ <<>> \o s = s
    OBVIOUS
  <2>2. A = Bytes(Flags(h)) /\ A \in Seq(Byte)
    BY <1>1, <1>2, <2>1
  <2> HIDE DEF A
  <2>3. B = A \o (IF h.length # 0 THEN Bytes(h.length) ELSE <<>>) /\ B \in Seq(Byte)
    BY <1>1, <1>2, <2>1, <2>2
  <2> HIDE DEF B
  <2>4. C \in Seq(Byte)
    BY <1>1, <1>2, <2>3, Concat
  <2> HIDE DEF C
  <2>5. D \in Seq(Byte)
    BY <1>1, <1>2, <2>4, Concat
  <2> HIDE DEF D
  <2>6. E = D \o (IF h.sequence THEN Bytes(h.ns) \o Bytes(h.nr) ELSE <<>>) /\ E \in Seq(Byte)
    <3>1. Bytes(h.ns) \in Seq(Byte) /\ Bytes(h.nr) \in Seq(Byte)
      BY <1>1, <1>2
    <3>2. (D \o Bytes(h.ns)) \o Bytes(h.nr) = D \o (Bytes(h.ns) \o Bytes(h.nr))
      BY <2>5, <3>1
    <3>3. D \o Bytes(h.ns) \in Seq(Byte) /\ (D \o Bytes(h.ns)) \o Bytes(h.nr) \in Seq(Byte)
      BY <2>5, <3>1
    <3> QED
      BY <2>1, <2>5, <3>2, <3>3
  <2> HIDE DEF E, E1
  <2>7. F = E \o (IF h.offset > 0 THEN Bytes(h.offset) ELSE <<>>)
    BY <1>1, <1>2, <2>1, <2>6
  <2> HIDE DEF F
  <2>8. encode(h) = Bytes(Flags(h)) \o (IF h.length # 0 THEN Bytes(h.length) ELSE <<>>)
                      \o Bytes(h.tunnelID) \o Bytes(h.sessionID)
                      \o (IF h.sequence THEN Bytes(h.ns) \o Bytes(h.nr) ELSE <<>>)
                      \o (IF h.offset > 0 THEN Bytes(h.offset) ELSE <<>>)
    BY DEF encode, Flags, FlagsOf
  <2> QED
    BY <2>2, <2>3, <2>6, <2>7, <2>8 DEF C, D
<1>4. Reads(A, 1, Flags(h)) /\ A \in Seq(Byte) /\ Len(A) = 2
  <2>1. <<>> \in Seq(Byte) /\ Len(<<>>) = 0
    OBVIOUS
  <2>2. Reads(A, Len(<<>>) + 1, Flags(h)) /\ A \in Seq(Byte) /\ Len(A) = Len(<<>>) + 2
    BY <1>2, <2>1, ReadsAdded
  <2> QED
    BY <2>1, <2>2
<1> HIDE DEF A
<1> DEFINE On(s, n) == s \in Seq(Byte) /\ Len(s) = n
<1>5. ASSUME NEW s, NEW n \in Nat, NEW v \in Word, On(s, n)
      PROVE  On(s \o Bytes(v), n + 2) /\ Reads(s \o Bytes(v), n + 1, v)
             /\ \A i, w : Reads(s, i, w) => Reads(s \o Bytes(v), i, w)
  <2>1. Bytes(v) \in Seq(Byte)
    BY <1>1
  <2> QED
    BY <1>5, <2>1, ReadsAdded, ReadsKept
<1>6. On(A, 2) /\ IdsAt(h) \in Nat /\ (h.length # 0 => IdsAt(h) = 5)
      /\ (h.length = 0 => IdsAt(h) = 3)
  BY <1>4 DEF IdsAt
<1> HIDE DEF On
<1>7. On(B, IdsAt(h) - 1) /\ Reads(B, 1, Flags(h)) /\ (h.length # 0 => Reads(B, 3, h.length))
  <2>0. 2 \in Nat /\ 2 + 2 = 5 - 1 /\ 2 + 1 = 3 /\ 2 = 3 - 1
    OBVIOUS
  <2>1. ASSUME h.length # 0
        PROVE  On(B, IdsAt(h) - 1) /\ Reads(B, 1, Flags(h)) /\ Reads(B, 3, h.length)
    <3>1. B = A \o Bytes(h.length)
      BY <2>1
    <3> HIDE DEF B
    <3>2. On(B, 2 + 2) /\ Reads(B, 2 + 1, h.length) /\ Reads(B, 1, Flags(h))
      BY <1>2, <1>4, <1>5, <1>6, <2>0, <3>1, Zenon
    <3> QED
      BY <1>6, <2>0, <2>1, <3>2
  <2>2. ASSUME h.length = 0 PROVE On(B, IdsAt(h) - 1) /\ Reads(B, 1, Flags(h))
    <3>1. B = A
      BY <2>2
    <3> HIDE DEF B
    <3> QED
      BY <1>4, <1>6, <2>0, <2>2, <3>1
  <2> HIDE DEF B
  <2> QED
    BY <2>1, <2>2
<1> HIDE DEF B
<1>8. On(C, IdsAt(h) + 1) /\ Reads(C, IdsAt(h), h.tunnelID)
      /\ \A i, w : Reads(B, i, w) => Reads(C, i, w)
  <2>1. IdsAt(h) - 1 \in Nat /\ (IdsAt(h) - 1) + 2 = IdsAt(h) + 1 /\ (IdsAt(h) - 1) + 1 = IdsAt(h)
    BY <1>6
  <2>2. /\ On(B \o Bytes(h.tunnelID), (IdsAt(h) - 1) + 2)
        /\ Reads(B \o Bytes(h.tunnelID), (IdsAt(h) - 1) + 1, h.tunnelID)
        /\ \A i, w : Reads(B, i, w) => Reads(B \o Bytes(h.tunnelID), i, w)
    BY <1>2, <1>5, <1>7, <2>1, Zenon
  <2> QED
    BY <2>1, <2>2
<1> HIDE DEF C
<1>9. On(D, IdsAt(h) + 3) /\ Reads(D, IdsAt(h) + 2, h.sessionID)
      /\ \A i, w : Reads(C, i, w) => Reads(D, i, w)
  <2>1. IdsAt(h) + 1 \in Nat /\ (IdsAt(h) + 1) + 2 = IdsAt(h) + 3 /\ (IdsAt(h) + 1) + 1 = IdsAt(h) + 2
    BY <1>6
  <2>2. /\ On(C \o Bytes(h.sessionID), (IdsAt(h) + 1) + 2)
        /\ Reads(C \o Bytes(h.sessionID), (IdsAt(h) + 1) + 1, h.sessionID)
        /\ \A i, w : Reads(C, i, w) => Reads(C \o Bytes(h.sessionID), i, w)
    BY <1>2, <1>5, <1>8, <2>1, Zenon
  <2> QED
    BY <2>1, <2>2
<1> HIDE DEF D
<1>10. On(E1, IdsAt(h) + 5) /\ Reads(E1, IdsAt(h) + 4, h.ns)
      /\ \A i, w : Reads(D, i, w) => Reads(E1, i, w)
  <2>1. IdsAt(h) + 3 \in Nat /\ (IdsAt(h) + 3) + 2 = IdsAt(h) + 5 /\ (IdsAt(h) + 3) + 1 = IdsAt(h) + 4
    BY <1>6
  <2>2. /\ On(D \o Bytes(h.ns), (IdsAt(h) + 3) + 2)
        /\ Reads(D \o Bytes(h.ns), (IdsAt(h) + 3) + 1, h.ns)
        /\ \A i, w : Reads(D, i, w) => Reads(D \o Bytes(h.ns), i, w)
    BY <1>2, <1>5, <1>9, <2>1, Zenon
  <2> QED
    BY <2>1, <2>2
<1> HIDE DEF E1
<1>11. /\ On(E, PadAt(h) - 1) /\ PadAt(h) \in Nat /\ PadAt(h) >= 7
       /\ h.sequence => (Reads(E, IdsAt(h) + 6, h.nr) /\ Reads(E, IdsAt(h) + 4, h.ns))
       /\ \A i, w : Reads(D, i, w) => Reads(E, i, w)
  <2>0. PadAt(h) \in Nat /\ PadAt(h) >= 7
    BY <1>6 DEF PadAt
  <2>1. CASE h.sequence
    <3>1. IdsAt(h) + 5 \in Nat /\ (IdsAt(h) + 5) + 2 = PadAt(h) - 1
          /\ (IdsAt(h) + 5) + 1 = IdsAt(h) + 6
      BY <1>6, <2>1 DEF PadAt
    <3>2. /\ On(E1 \o Bytes(h.nr), (IdsAt(h) + 5) + 2)
          /\ Reads(E1 \o Bytes(h.nr), (IdsAt(h) + 5) + 1, h.nr)
          /\ \A i, w : Reads(E1, i, w) => Reads(E1 \o Bytes(h.nr), i, w)
      BY <1>2, <1>5, <1>10, <3>1, Zenon
    <3>3. E = E1 \o Bytes(h.nr)
      BY <2>1
    <3> HIDE DEF E
    <3> QED
      BY <1>10, <2>0, <3>1, <3>2, <3>3
  <2>2. CASE ~h.sequence
    <3>1. IdsAt(h) + 3 = PadAt(h) - 1
      BY <1>6, <2>2 DEF PadAt
    <3>2. E = D
      BY <2>2
    <3> HIDE DEF E
    <3> QED
      BY <1>9, <2>0, <2>2, <3>1, <3>2
  <2> QED
    BY <2>1, <2>2
<1> HIDE DEF E
<1>12. /\ F \in Seq(Byte)
       /\ h.offset > 0 => Reads(F, PadAt(h), h.offset)
       /\ \A i, w : Reads(E, i, w) => Reads(F, i, w)
  <2>1. E \in Seq(Byte)
    BY <1>11 DEF On
  <2>2. CASE h.offset > 0
    <3>1. On(E \o Bytes(h.offset), (PadAt(h) - 1) + 2)
      BY <1>2, <1>5, <1>11
    <3>2. /\ Reads(E \o Bytes(h.offset), (PadAt(h) - 1) + 1, h.offset)
          /\ \A i, w : Reads(E, i, w) => Reads(E \o Bytes(h.offset), i, w)
      BY <1>2, <1>5, <1>11
    <3>3. F = E \o Bytes(h.offset) /\ (PadAt(h) - 1) + 1 = PadAt(h)
      BY <1>11, <2>2
    <3> QED
      BY <3>1, <3>2, <3>3 DEF On
  <2>3. CASE ~(h.offset > 0)
    BY <2>1, <2>3
  <2> QED
    BY <2>2, <2>3
<1> HIDE DEF F
<1>13. Fields(F, h, h.length)
  BY <1>7, <1>8, <1>9, <1>11, <1>12, Zenon DEF Fields
<1> QED
  BY <1>3, <1>12, <1>13

(* The fields stay where they are when bytes follow.                       *)
LEMMA FieldsKept ==
  ASSUME NEW h, NEW c, NEW s \in Seq(Byte), NEW t \in Seq(Byte), Fields(s, h, c)
  PROVE  Fields(s \o t, h, c)
<1>1. \A i, v : Reads(s, i, v) => Reads(s \o t, i, v)
  BY ReadsKept
<1> QED
  BY <1>1, Zenon DEF Fields

(* The fields are there as long as the front is no shorter than the header.*)
LEMMA FieldsFront ==
  ASSUME NEW h \in Header, NEW c, NEW s \in Seq(Byte), NEW n \in 0 .. Len(s),
         Fields(s, h, c), Size(h) <= n
  PROVE  Fields(SubSeq(s, 1, n), h, c)
<1>1. \A i, v : Reads(s, i, v) /\ i + 1 <= n => Reads(SubSeq(s, 1, n), i, v)
  BY ReadsFront
<1> DEFINE w == SubSeq(s, 1, n)
<1> HIDE DEF w
<1>2. /\ 2 <= n /\ IdsAt(h) + 1 <= n /\ (IdsAt(h) + 2) + 1 <= n
      /\ h.length # 0 => 3 + 1 <= n
      /\ h.sequence => (IdsAt(h) + 4) + 1 <= n /\ (IdsAt(h) + 6) + 1 <= n
      /\ h.offset > 0 => PadAt(h) + 1 <= n
  BY DEF Size, PadAt, IdsAt
<1>3. Fields(w, h, c)
  BY <1>1, <1>2 DEF Fields, w
<1> QED
  BY <1>3 DEF w

-----------------------------------------------------------------------------
(* parseHeader refuses a message that is shorter than its Length.          *)
LEMMA Refused ==
  ASSUME NEW h \in Header, NEW c \in Word, NEW b \in Seq(Byte), h.length # 0, c > Len(b),
         Len(b) >= 6 => Reads(b, 1, Flags(h)) /\ Reads(b, 3, c)
  PROVE  parseHeader(b) = [res |-> "err"]
<1>0. Len(b) \in Nat /\ c \in Nat
  BY Numbers, SeqElement
<1>1. CASE Len(b) < 6
  BY <1>1 DEF parseHeader
<1>2. CASE Len(b) >= 6
  <2>1. WordAt(b, 1) = Flags(h) /\ WordAt(b, 3) = c
    BY <1>2 DEF Reads
  <2>2. IsSet(WordAt(b, 1), flagLength)
    BY <2>1, HeaderWords
  <2> QED
    BY <2>1, <2>2 DEF parseHeader
<1> QED
  BY <1>0, <1>1, <1>2

(* Where a message ends that has h for its header and c for its Length.    *)
EndIn(b, h, c) == IF h.length = 0 THEN Len(b) ELSE c

(* What parseHeader takes for a control message has both numbers, and no   *)
(* offset, and does not end before its header does.                        *)
LEMMA ControlComplete ==
  ASSUME NEW h \in Header, NEW c \in Word, NEW b \in Seq(Byte),
         Len(b) >= 6 => Reads(b, 1, Flags(h)) /\ (h.length # 0 => Reads(b, 3, c)),
         parseHeader(b).res = "ok", parseHeader(b).head.isControl
  PROVE  /\ h.isControl /\ h.sequence /\ h.offset = 0
         /\ Size(h) <= EndIn(b, h, c) /\ EndIn(b, h, c) <= Len(b)
<1>0. Len(b) \in Nat /\ h.offset \in Nat /\ c \in Nat
  BY HeaderWords, SeqElement, Numbers
<1>1. Len(b) >= 6
  <2>1. Len(b) < 6 => parseHeader(b).res = "err"
    BY DEF parseHeader
  <2> QED
    BY <1>0, <2>1
<1>2. WordAt(b, 1) = Flags(h) /\ (h.length # 0 => WordAt(b, 3) = c)
  BY <1>1 DEF Reads
<1> DEFINE f == WordAt(b, 1)
           last == IF IsSet(f, flagLength) THEN WordAt(b, 3) ELSE Len(b)
<1>3. /\ f % 16 = Version
      /\ IsSet(f, flagType) <=> h.isControl
      /\ IsSet(f, flagLength) <=> h.length # 0
      /\ IsSet(f, flagSequence) <=> h.sequence
      /\ IsSet(f, flagOffset) <=> h.offset > 0
  BY <1>2, HeaderWords
<1> HIDE DEF f
<1>3a. last = EndIn(b, h, c) /\ last \in Nat
  BY <1>0, <1>2, <1>3 DEF EndIn
<1>4. h.isControl
  <2>1. parseHeader(b).res = "ok" => parseHeader(b).head.isControl = IsSet(f, flagType)
    BY DEF parseHeader, f
  <2> QED
    BY <1>3, <2>1
<1>5. h.sequence /\ ~(h.offset > 0)
  <2>1. IsSet(f, flagType) /\ (~IsSet(f, flagSequence) \/ IsSet(f, flagOffset))
           => parseHeader(b).res # "ok"
    BY DEF parseHeader, f
  <2> QED
    BY <1>3, <1>4, <2>1
<1>6. last <= Len(b)
  <2>1. Len(b) < last => parseHeader(b).res # "ok"
    BY <1>0 DEF parseHeader, f
  <2> QED
    BY <1>0, <1>3a, <2>1
<1>7. (IF h.length # 0 THEN 12 ELSE 10) <= last
  <2>1. IsSet(f, flagLength) /\ IsSet(f, flagSequence) /\ last < 12
           => parseHeader(b).res # "ok"
    BY <1>0 DEF parseHeader, f
  <2>2. ~IsSet(f, flagLength) /\ IsSet(f, flagSequence) /\ last < 10
           => parseHeader(b).res # "ok"
    BY <1>0 DEF parseHeader, f
  <2> HIDE DEF last
  <2> QED
    BY <1>3, <1>3a, <1>5, <2>1, <2>2
<1> HIDE DEF last
<1>8. Size(h) = IF h.length # 0 THEN 12 ELSE 10
  BY <1>0, <1>5 DEF Size, PadAt, IdsAt
<1> QED
  BY <1>0, <1>3a, <1>4, <1>5, <1>6, <1>7, <1>8

(* Control messages without numbers are refused.                           *)
LEMMA ControlRefused ==
  ASSUME NEW h \in Header, NEW c \in Word, NEW b \in Seq(Byte), Fields(b, h, c),
         Size(h) <= EndIn(b, h, c), EndIn(b, h, c) <= Len(b),
         h.isControl, ~h.sequence, h.offset = 0
  PROVE  parseHeader(b).res = "err"
<1>0. Len(b) \in Nat /\ c \in Nat
  BY Numbers, SeqElement
<1>1. WordAt(b, 1) = Flags(h) /\ (h.length # 0 => WordAt(b, 3) = c)
  BY DEF Fields, Reads
<1> DEFINE f == WordAt(b, 1)
           last == IF IsSet(f, flagLength) THEN WordAt(b, 3) ELSE Len(b)
<1>3. /\ f % 16 = Version
      /\ IsSet(f, flagType)
      /\ IsSet(f, flagLength) <=> h.length # 0
      /\ ~IsSet(f, flagSequence)
  BY <1>1, HeaderWords
<1>4. last = EndIn(b, h, c) /\ last >= IdsAt(h) + 3 /\ last <= Len(b) /\ Len(b) >= 6
  <2> HIDE DEF f
  <2>1. last = EndIn(b, h, c) /\ last \in Nat
    BY <1>0, <1>1, <1>3 DEF EndIn, f
  <2> HIDE DEF last
  <2> QED
    BY <1>0, <2>1 DEF Size, PadAt, IdsAt
<1> HIDE DEF f
<1>5. IdsAt(h) = IF IsSet(f, flagLength) THEN 5 ELSE 3
  BY <1>3 DEF IdsAt
<1> QED
  BY <1>0, <1>1, <1>3, <1>4, <1>5 DEF parseHeader, f

(* A header that is whole reads back as it was written.                    *)
LEMMA HeaderReadsBack ==
  ASSUME NEW h \in Header, NEW c \in Word, NEW b \in Seq(Byte), Fields(b, h, c),
         Size(h) <= EndIn(b, h, c), EndIn(b, h, c) <= Len(b),
         h.isControl => h.sequence, h.offset = 0, ~h.sequence => h.ns = 0 /\ h.nr = 0
  PROVE  parseHeader(b) =
           [res |-> "ok", head |-> [h EXCEPT !.length = IF h.length = 0 THEN 0 ELSE c],
            payload |-> SubSeq(b, Size(h) + 1, EndIn(b, h, c))]
<1>0. Len(b) \in Nat /\ h.length \in Nat /\ c \in Nat
  BY HeaderWords, SeqElement, Numbers
<1>1. /\ WordAt(b, 1) = Flags(h) /\ (h.length # 0 => WordAt(b, 3) = c)
      /\ WordAt(b, IdsAt(h)) = h.tunnelID /\ WordAt(b, IdsAt(h) + 2) = h.sessionID
      /\ h.sequence => (WordAt(b, IdsAt(h) + 4) = h.ns /\ WordAt(b, IdsAt(h) + 6) = h.nr)
  BY DEF Fields, Reads
<1> DEFINE f == WordAt(b, 1)
<1>3. /\ f % 16 = Version
      /\ IsSet(f, flagType) = h.isControl
      /\ IsSet(f, flagPriority) = h.priority
      /\ IsSet(f, flagLength) <=> h.length # 0
      /\ IsSet(f, flagSequence) = h.sequence
      /\ ~IsSet(f, flagOffset)
      /\ h.isControl \in BOOLEAN /\ h.priority \in BOOLEAN /\ h.sequence \in BOOLEAN
  <2>1. IsSet(f, flagType) \in BOOLEAN /\ IsSet(f, flagPriority) \in BOOLEAN
        /\ IsSet(f, flagSequence) \in BOOLEAN
    BY DEF IsSet
  <2> QED
    BY <1>1, <2>1, HeaderWords
<1> DEFINE last == EndIn(b, h, c)
<1>3a. last \in Nat /\ Size(h) <= last /\ last <= Len(b)
       /\ (h.length # 0 => last = c) /\ (h.length = 0 => last = Len(b))
  BY <1>0 DEF EndIn
<1> HIDE DEF last
<1>4. /\ last >= IdsAt(h) + 3 /\ Len(b) >= 6
      /\ h.sequence => last >= IdsAt(h) + 7
      /\ Size(h) = PadAt(h) - 1 /\ PadAt(h) \in Nat
  BY <1>0, <1>3a DEF Size, PadAt, IdsAt
<1> DEFINE length == IF h.length = 0 THEN 0 ELSE c
           g == [h EXCEPT !.length = length]
<1> HIDE DEF length
<1>5. g = [isControl |-> h.isControl, priority |-> h.priority, sequence |-> h.sequence,
           tunnelID |-> h.tunnelID, sessionID |-> h.sessionID, ns |-> h.ns, nr |-> h.nr,
           length |-> length, offset |-> h.offset]
  BY DEF Header
<1> DEFINE head == [isControl |-> IsSet(f, flagType), priority |-> IsSet(f, flagPriority),
                    sequence |-> IsSet(f, flagSequence), tunnelID |-> WordAt(b, IdsAt(h)),
                    sessionID |-> WordAt(b, IdsAt(h) + 2),
                    ns |-> IF IsSet(f, flagSequence) THEN WordAt(b, IdsAt(h) + 4) ELSE 0,
                    nr |-> IF IsSet(f, flagSequence) THEN WordAt(b, IdsAt(h) + 4 + 2) ELSE 0,
                    length |-> length, offset |-> 0]
<1> HIDE DEF f, g
<1>6. head = g
  <2>1. IdsAt(h) + 4 + 2 = IdsAt(h) + 6
    BY DEF IdsAt
  <2> QED
    BY <1>1, <1>3, <1>5, <2>1
<1>7. parseHeader(b) =
        [res |-> "ok", head |-> head, payload |-> SubSeq(b, PadAt(h), last)]
  <2>1. CASE h.length # 0
    <3>1. IsSet(f, flagLength) /\ WordAt(b, 3) = last /\ length = WordAt(b, 3) /\ IdsAt(h) = 5
      BY <1>0, <1>1, <1>3, <1>3a, <2>1 DEF IdsAt, length
    <3>2. /\ ~(Len(b) < 6) /\ f % 16 = Version /\ ~(last < 5 + 3)
          /\ ~(IsSet(f, flagSequence) /\ last < (5 + 4) + 3)
          /\ ~(IsSet(f, flagType) /\ (~IsSet(f, flagSequence) \/ IsSet(f, flagOffset)))
          /\ ~IsSet(f, flagOffset)
          /\ PadAt(h) = (IF IsSet(f, flagSequence) THEN 5 + 4 + 4 ELSE 5 + 4)
          /\ ~(Len(b) < last)
      BY <1>0, <1>3, <1>3a, <1>4, <3>1 DEF PadAt
    <3>3. head = [isControl |-> IsSet(f, flagType), priority |-> IsSet(f, flagPriority),
                  sequence |-> IsSet(f, flagSequence), tunnelID |-> WordAt(b, 5),
                  sessionID |-> WordAt(b, 5 + 2),
                  ns |-> IF IsSet(f, flagSequence) THEN WordAt(b, 5 + 4) ELSE 0,
                  nr |-> IF IsSet(f, flagSequence) THEN WordAt(b, 5 + 4 + 2) ELSE 0,
                  length |-> WordAt(b, 3), offset |-> 0]
      BY <3>1, Zenon
    <3> HIDE DEF head
    <3>4. ~(Len(b) < WordAt(b, 3)) /\ ~(WordAt(b, 3) < 5 + 3)
          /\ ~(IsSet(f, flagSequence) /\ WordAt(b, 3) < (5 + 4) + 3)
      BY <3>1, <3>2
    <3>5. IsSet(f, flagLength)
      BY <3>1
    <3>6. parseHeader(b) =
            [res |-> "ok", head |-> head, payload |-> SubSeq(b, PadAt(h), WordAt(b, 3))]
      BY <3>2, <3>3, <3>4, <3>5, SMTT(60) DEF parseHeader, f
    <3> QED
      BY <3>1, <3>6, Zenon
  <2>2. CASE h.length = 0
    <3>1. ~IsSet(f, flagLength) /\ IdsAt(h) = 3 /\ length = 0 /\ last = Len(b)
      BY <1>0, <1>1, <1>3, <1>3a, <2>2 DEF IdsAt, length
    <3>2. /\ ~(Len(b) < 6) /\ f % 16 = Version /\ ~(Len(b) < 3 + 3)
          /\ ~(IsSet(f, flagSequence) /\ Len(b) < (3 + 4) + 3)
          /\ ~(IsSet(f, flagType) /\ (~IsSet(f, flagSequence) \/ IsSet(f, flagOffset)))
          /\ ~IsSet(f, flagOffset)
          /\ PadAt(h) = (IF IsSet(f, flagSequence) THEN 3 + 4 + 4 ELSE 3 + 4)
          /\ ~(Len(b) < Len(b))
      BY <1>0, <1>3, <1>4, <3>1 DEF PadAt
    <3>3. head = [isControl |-> IsSet(f, flagType), priority |-> IsSet(f, flagPriority),
                  sequence |-> IsSet(f, flagSequence), tunnelID |-> WordAt(b, 3),
                  sessionID |-> WordAt(b, 3 + 2),
                  ns |-> IF IsSet(f, flagSequence) THEN WordAt(b, 3 + 4) ELSE 0,
                  nr |-> IF IsSet(f, flagSequence) THEN WordAt(b, 3 + 4 + 2) ELSE 0,
                  length |-> 0, offset |-> 0]
      BY <3>1, Zenon
    <3> HIDE DEF head
    <3> QED
      BY <3>1, <3>2, <3>3, SMTT(60) DEF parseHeader, f
  <2> QED
    BY <2>1, <2>2
<1> HIDE DEF head
<1>8. Size(h) + 1 = PadAt(h)
  BY <1>4
<1> QED
  BY <1>6, <1>7, <1>8, Zenon DEF g, length, last

-----------------------------------------------------------------------------
(* What parseAVPs reads behind byte i of b.                                *)
LengthAt(b, i) == TenBits(WordAt(b, i + 1))
AVPAt(b, i) ==
  [mandatory |-> IsSet(WordAt(b, i + 1), flagMandatory),
   hidden |-> IsSet(WordAt(b, i + 1), flagHidden),
   vendorID |-> WordAt(b, i + 3), attrType |-> WordAt(b, i + 5),
   value |-> SubSeq(b, i + 7, i + LengthAt(b, i))]
Short(b, i) == Len(b) - i < 6 \/ LengthAt(b, i) < 6 \/ Len(b) - i < LengthAt(b, i)
None == [ok |-> TRUE, avps |-> <<>>]
Failed == [ok |-> FALSE, avps |-> <<>>]
Put(w, r) == [r EXCEPT !.avps = w]
Onto(a, r) == [r EXCEPT !.avps = <<a>> \o @]

ReadsAVPs(from, b) ==
  \A i \in 0 .. Len(b) :
    from[i] = IF i = Len(b) THEN None
              ELSE IF Short(b, i) THEN Failed
              ELSE Onto(AVPAt(b, i), from[i + LengthAt(b, i)])

Results(b) == [ok : BOOLEAN, avps : Seq({AVPAt(b, i) : i \in 0 .. Len(b)})]

(* One more AVP before the others.                                         *)
LEMMA OntoMeans ==
  ASSUME NEW a, NEW u, NEW o \in BOOLEAN
  PROVE  Onto(a, [ok |-> o, avps |-> u]) = [ok |-> o, avps |-> <<a>> \o u]
<1> DEFINE r == [ok |-> o, avps |-> u]
           w == <<a>> \o u
           R == [ok : BOOLEAN, avps : {u, w}]
<1>0. r.avps = u
  OBVIOUS
<1>1. Onto(a, r) = Put(w, r)
  BY <1>0, Zenon DEF Onto, Put
<1> HIDE DEF w
<1>2. r \in R /\ r.ok = o /\ w \in {u, w}
  OBVIOUS
<1> HIDE DEF r
<1>3. Put(w, r) \in R /\ Put(w, r).ok = o /\ Put(w, r).avps = w
  BY <1>2 DEF Put
<1> DEFINE x == Put(w, r)
<1> HIDE DEF x
<1>4. x \in R /\ x.ok = o /\ x.avps = w
  BY <1>3 DEF x
<1>5. x = [ok |-> o, avps |-> w]
  BY <1>4
<1> QED
  BY <1>1, <1>5 DEF r, w, x

(* parseAVPs is the loop that goes on behind each AVP.                     *)
LEMMA AVPsMean ==
  ASSUME NEW b \in Seq(Byte)
  PROVE  \E from \in [0 .. Len(b) -> Results(b)] :
           ReadsAVPs(from, b) /\ parseAVPs(b) = from[0]
<1>0. Len(b) \in Nat
  BY SeqElement
<1> DEFINE n == Len(b)
           stop == {i \in 0 .. n : i = n \/ Short(b, i)}
           g == [i \in 0 .. n |-> IF i = n THEN None ELSE Failed]
           G == [i \in 0 .. n |-> [r \in Results(b) |-> Onto(AVPAt(b, i), r)]]
           next == [i \in 0 .. n |-> i + LengthAt(b, i)]
<1>1. None \in Results(b) /\ Failed \in Results(b)
  BY DEF None, Failed, Results
<1>2. g \in [0 .. n -> Results(b)]
  BY <1>1
<1>3. ASSUME NEW i \in 0 .. n, NEW r \in Results(b)
      PROVE  /\ Onto(AVPAt(b, i), r) \in Results(b)
             /\ Onto(AVPAt(b, i), r).avps = <<AVPAt(b, i)>> \o r.avps
             /\ Onto(AVPAt(b, i), r).ok = r.ok
  <2> DEFINE A == {AVPAt(b, j) : j \in 0 .. Len(b)}
             a == AVPAt(b, i)
  <2>1. a \in A
    BY <1>3
  <2> HIDE DEF A, a
  <2>2. r \in [ok : BOOLEAN, avps : Seq(A)]
    BY <1>3 DEF Results, A
  <2>3. <<a>> \o r.avps \in Seq(A)
    BY <2>1, <2>2
  <2>4. /\ Onto(a, r) \in [ok : BOOLEAN, avps : Seq(A)]
        /\ Onto(a, r).avps = <<a>> \o r.avps
        /\ Onto(a, r).ok = r.ok
    BY <2>2, <2>3 DEF Onto
  <2> QED
    BY <2>4 DEF Results, A, a
<1>4. G \in [0 .. n -> [Results(b) -> Results(b)]]
  BY <1>3
<1>5. ASSUME NEW i \in 0 .. n, i \notin stop PROVE next[i] \in (i + 1) .. n
  <2>1. i # n /\ ~Short(b, i) /\ i < n
    BY <1>0, <1>5
  <2>2. LengthAt(b, i) \in Int
    <3>1. i + 1 \in 1 .. Len(b) /\ i + 2 \in 1 .. Len(b)
      BY <1>0, <2>1 DEF Short
    <3>2. b[i + 1] \in Byte /\ b[i + 2] \in Byte
      BY <3>1, SeqElement, Zenon
    <3>3. WordAt(b, i + 1) \in Int
      <4>1. WordAt(b, i + 1) = 256 * b[i + 1] + b[i + 2]
        <5>1. (i + 1) + 1 = i + 2
          OBVIOUS
        <5> QED
          BY <5>1, Zenon DEF WordAt
      <4>2. b[i + 1] \in Int /\ b[i + 2] \in Int
        <5>1. Byte \subseteq Int
          BY DEF Byte
        <5> QED
          BY <3>2, <5>1, Zenon
      <4> QED
        BY <4>1, <4>2
    <3> QED
      BY <3>3 DEF LengthAt, TenBits
  <2>3. next[i] = i + LengthAt(b, i)
    OBVIOUS
  <2> QED
    BY <1>0, <2>1, <2>2, <2>3 DEF Short
<1> HIDE DEF g, G, next, stop
<1>6. PICK h \in [0 .. n -> Results(b)] : Onwards(h, n, stop, g, G, next)
  BY <1>0, <1>2, <1>4, <1>5, OnwardsExists, Zenon
<1>7. ReadsAVPs(h, b)
  <2> SUFFICES ASSUME NEW i \in 0 .. Len(b)
               PROVE  h[i] = IF i = Len(b) THEN None
                             ELSE IF Short(b, i) THEN Failed
                             ELSE Onto(AVPAt(b, i), h[i + LengthAt(b, i)])
    BY DEF ReadsAVPs
  <2>1. h[i] = IF i \in stop THEN g[i] ELSE G[i][h[next[i]]]
    BY <1>6 DEF Onwards
  <2>2. CASE i = n
    <3>1. i \in stop /\ g[i] = None
      BY <2>2 DEF stop, g
    <3> QED
      BY <2>1, <2>2, <3>1
  <2>3. CASE i # n /\ Short(b, i)
    <3>1. i \in stop /\ g[i] = Failed
      BY <2>3 DEF stop, g
    <3> QED
      BY <2>1, <2>3, <3>1
  <2>4. CASE i # n /\ ~Short(b, i)
    <3>1. i \notin stop
      BY <2>4 DEF stop
    <3>2. next[i] \in 0 .. n /\ next[i] = i + LengthAt(b, i)
      <4>1. next[i] \in (i + 1) .. n
        BY <1>5, <3>1
      <4>2. next[i] = i + LengthAt(b, i)
        BY DEF next
      <4> QED
        BY <1>0, <4>1, <4>2
    <3>3. G[i][h[next[i]]] = Onto(AVPAt(b, i), h[next[i]])
      BY <3>2 DEF G
    <3> QED
      BY <2>1, <2>4, <3>1, <3>2, <3>3
  <2> QED
    BY <2>2, <2>3, <2>4
<1> DEFINE Loop(f) == f = [i \in 0 .. Len(b) |->
                             IF i = Len(b) THEN [ok |-> TRUE, avps |-> <<>>]
                             ELSE IF Len(b) - i < 6 \/ LengthAt(b, i) < 6
                                       \/ Len(b) - i < LengthAt(b, i)
                                  THEN [ok |-> FALSE, avps |-> <<>>]
                             ELSE [f[i + LengthAt(b, i)] EXCEPT !.avps = <<AVPAt(b, i)>> \o @]]
           from == CHOOSE f : Loop(f)
<1>8. Loop(h)
  <2>1. h = [i \in 0 .. Len(b) |-> h[i]]
    OBVIOUS
  <2>2. \A i \in 0 .. Len(b) : h[i] = IF i = Len(b) THEN None
                             ELSE IF Short(b, i) THEN Failed
                             ELSE Onto(AVPAt(b, i), h[i + LengthAt(b, i)])
    BY <1>7 DEF ReadsAVPs
  <2> QED
    BY <2>1, <2>2, Zenon DEF None, Failed, Short, Onto
<1>9. Loop(from)
  <2> HIDE DEF Loop
  <2> QED
    BY <1>8
<1>10. parseAVPs(b) = from[0]
  BY DEF parseAVPs, LengthAt, AVPAt
<1> HIDE DEF from
<1>11. DOMAIN from = 0 .. Len(b) /\ ReadsAVPs(from, b)
  BY <1>9 DEF ReadsAVPs, None, Failed, Short, Onto
<1>12. ASSUME NEW i \in 0 .. n PROVE from[i] = h[i]
  <2> DEFINE S == {m \in Nat : \A j \in 0 .. n : j >= n - m => from[j] = h[j]}
  <2>0. \A m \in Nat : m \in S <=> (\A j \in 0 .. n : j >= n - m => from[j] = h[j])
    OBVIOUS
  <2> HIDE DEF S
  <2>1. 0 \in S
    <3>1. \A j \in 0 .. n : j >= n - 0 => from[j] = h[j]
      BY <1>0, <1>7, <1>11 DEF ReadsAVPs
    <3> QED
      BY <2>0, <3>1
  <2>2. ASSUME NEW m \in Nat, m \in S PROVE m + 1 \in S
    <3>1. \A j \in 0 .. n : j >= n - m => from[j] = h[j]
      BY <2>0, <2>2
    <3>2. ASSUME NEW j \in 0 .. n, j >= n - (m + 1) PROVE from[j] = h[j]
      <4>1. CASE j \in stop
        BY <1>7, <1>11, <4>1 DEF ReadsAVPs, stop
      <4>2. CASE j \notin stop
        <5>1. j # n /\ ~Short(b, j)
          BY <4>2 DEF stop
        <5>2. next[j] = j + LengthAt(b, j) /\ next[j] \in (j + 1) .. n
          BY <1>5, <4>2 DEF next
        <5>3. j + LengthAt(b, j) \in 0 .. n /\ j + LengthAt(b, j) >= n - m
          BY <1>0, <3>2, <5>2
        <5>4. from[j + LengthAt(b, j)] = h[j + LengthAt(b, j)]
          BY <3>1, <5>3
        <5> QED
          BY <1>7, <1>11, <5>1, <5>4 DEF ReadsAVPs
      <4> QED
        BY <4>1, <4>2
    <3> QED
      BY <2>0, <3>2
  <2>3. n \in S
    BY <1>0, <2>1, <2>2, Induction
  <2> QED
    BY <1>0, <2>0, <2>3
<1> QED
  BY <1>0, <1>7, <1>10, <1>12

(* Only what is empty is read as no AVPs at all.                           *)
LEMMA SomeAVPs ==
  ASSUME NEW b \in Seq(Byte), parseAVPs(b).ok
  PROVE  b # <<>> <=> HasFirst(parseAVPs(b).avps)
<1>1. PICK from \in [0 .. Len(b) -> Results(b)] : ReadsAVPs(from, b) /\ parseAVPs(b) = from[0]
  BY AVPsMean
<1>2. 0 \in 0 .. Len(b) /\ Len(b) \in Nat /\ (b # <<>> <=> Len(b) # 0)
  BY SeqElement
<1>3. from[0] = IF 0 = Len(b) THEN None
                ELSE IF Short(b, 0) THEN Failed
                ELSE Onto(AVPAt(b, 0), from[0 + LengthAt(b, 0)])
  BY <1>1, <1>2 DEF ReadsAVPs
<1>4. CASE Len(b) = 0
  <2>1. parseAVPs(b).avps = <<>>
    BY <1>1, <1>3, <1>4 DEF None
  <2> QED
    BY <1>2, <1>4, <2>1 DEF HasFirst
<1>5. CASE Len(b) # 0
  <2>1. ~Short(b, 0)
    BY <1>1, <1>3, <1>5 DEF Failed
  <2> DEFINE j == 0 + LengthAt(b, 0)
             a == AVPAt(b, 0)
  <2>2. j \in 0 .. Len(b)
    BY <1>2, <2>1 DEF Short, LengthAt, TenBits
  <2>3. from[0] = Onto(a, from[j])
    BY <1>3, <1>5, <2>1
  <2> HIDE DEF j, a
  <2>4. from[j] \in Results(b)
    BY <1>1, <2>2
  <2> DEFINE A == {AVPAt(b, i) : i \in 0 .. Len(b)}
  <2>5. from[j] \in [ok : BOOLEAN, avps : Seq(A)]
    BY <2>4 DEF Results
  <2>6. a \in A
    BY <1>2 DEF a
  <2> HIDE DEF A
  <2>7. Len(<<a>> \o from[j].avps) > 0
    BY <2>5, <2>6
  <2>8. from[0].avps = <<a>> \o from[j].avps
    BY <2>3, <2>5 DEF Onto
  <2> QED
    BY <1>1, <1>2, <1>5, <2>7, <2>8 DEF HasFirst
<1> QED
  BY <1>4, <1>5

-----------------------------------------------------------------------------
AVPWord(a) == AVPFlags(a.mandatory, a.hidden, (6 + Len(a.value)) % 1024)

(* enc is what encode makes of a.                                          *)
Written(enc, a) ==
  /\ enc \in Seq(Byte) /\ Len(enc) = 6 + Len(a.value)
  /\ Reads(enc, 1, AVPWord(a)) /\ Reads(enc, 3, a.vendorID) /\ Reads(enc, 5, a.attrType)
  /\ \A j \in 1 .. Len(a.value) : enc[6 + j] = a.value[j]

AVPWordMeans(a) ==
  /\ TenBits(AVPWord(a)) = TenBits(6 + Len(a.value))
  /\ IsSet(AVPWord(a), flagMandatory) <=> a.mandatory
  /\ IsSet(AVPWord(a), flagHidden) <=> a.hidden

(* The first word of an AVP.                                               *)
LEMMA AVPWordRead ==
  ASSUME NEW a \in AVP
  PROVE  /\ AVPWord(a) \in Word /\ Len(a.value) \in Nat
         /\ a.vendorID \in Word /\ a.attrType \in Word /\ a.value \in Seq(Byte)
         /\ a.mandatory \in BOOLEAN /\ a.hidden \in BOOLEAN
         /\ AVPWordMeans(a)
<1>1. /\ a.vendorID \in Word /\ a.attrType \in Word /\ a.value \in Seq(Byte)
      /\ a.mandatory \in BOOLEAN /\ a.hidden \in BOOLEAN
  BY DEF AVP
<1>2. Len(a.value) \in Nat
  BY <1>1
<1> DEFINE n == (6 + Len(a.value)) % 1024
<1>3. n \in Ten
  <2> DEFINE m == 6 + Len(a.value)
  <2>1. m \in Nat
    BY <1>2
  <2> HIDE DEF m
  <2>2. m % 1024 \in Ten
    BY <2>1, InTen
  <2> QED
    BY <2>2 DEF m
<1> HIDE DEF n
<1>4. AVPFlagsRead(AVPFlags(a.mandatory, a.hidden, n), a.mandatory, a.hidden, n)
  <2>1. a.mandatory \in BOOLEAN /\ a.hidden \in BOOLEAN
    BY DEF AVP
  <2> QED
    BY <1>3, <2>1, AVPBits, Zenon
<1>5. AVPFlagsRead(AVPWord(a), a.mandatory, a.hidden, (6 + Len(a.value)) % 1024)
  BY <1>4 DEF AVPWord, n
<1>6. AVPWord(a) \in Word /\ AVPWordMeans(a)
  BY <1>5, Zenon DEF AVPFlagsRead, AVPWordMeans, TenBits
<1> QED
  BY <1>1, <1>2, <1>6, Zenon

(* What encode makes of an AVP.                                            *)
LEMMA AVPWritten ==
  ASSUME NEW a \in AVP
  PROVE  Written(encodeAVP(a), a)
<1>1. /\ AVPWord(a) \in Word /\ Len(a.value) \in Nat
      /\ a.vendorID \in Word /\ a.attrType \in Word /\ a.value \in Seq(Byte)
  <2>1. /\ Len(a.value) \in Nat
        /\ a.vendorID \in Word /\ a.attrType \in Word /\ a.value \in Seq(Byte)
    BY DEF AVP
  <2>2. AVPWord(a) \in Word
    BY AVPWordRead, Zenon
  <2> QED
    BY <2>1, <2>2, Zenon
<1>2. \A v \in Word : Bytes(v) \in Seq(Byte) /\ Len(Bytes(v)) = 2
  BY ByteFacts
<1> DEFINE A == <<>> \o Bytes(AVPWord(a))
           B == A \o Bytes(a.vendorID)
           C == B \o Bytes(a.attrType)
           D == C \o a.value
<1>3. encodeAVP(a) = D
  <2>1. A = Bytes(AVPWord(a))
    BY <1>1, <1>2
  <2> HIDE DEF A
  <2>2. encodeAVP(a) = Bytes(AVPWord(a)) \o Bytes(a.vendorID) \o Bytes(a.attrType) \o a.value
    BY DEF encodeAVP, AVPWord, AVPFlags
  <2> QED
    BY <2>1, <2>2
<1>4. Reads(A, 1, AVPWord(a)) /\ A \in Seq(Byte) /\ Len(A) = 2
  <2>1. <<>> \in Seq(Byte) /\ Len(<<>>) = 0
    OBVIOUS
  <2>2. Reads(A, Len(<<>>) + 1, AVPWord(a)) /\ A \in Seq(Byte) /\ Len(A) = Len(<<>>) + 2
    BY <1>1, <2>1, ReadsAdded
  <2> QED
    BY <2>1, <2>2
<1> HIDE DEF A
<1>5. /\ Reads(B, 1, AVPWord(a)) /\ Reads(B, 3, a.vendorID)
      /\ B \in Seq(Byte) /\ Len(B) = 4
  <2>1. Reads(B, 1, AVPWord(a))
    BY <1>1, <1>2, <1>4, ReadsKept
  <2>2. Reads(B, Len(A) + 1, a.vendorID) /\ B \in Seq(Byte) /\ Len(B) = Len(A) + 2
    BY <1>1, <1>4, ReadsAdded
  <2> HIDE DEF B
  <2> QED
    BY <1>4, <2>1, <2>2
<1> HIDE DEF B
<1>6. /\ Reads(C, 1, AVPWord(a)) /\ Reads(C, 3, a.vendorID) /\ Reads(C, 5, a.attrType)
      /\ C \in Seq(Byte) /\ Len(C) = 6
  <2>1. Reads(C, 1, AVPWord(a)) /\ Reads(C, 3, a.vendorID)
    BY <1>1, <1>2, <1>5, ReadsKept
  <2>2. Reads(C, Len(B) + 1, a.attrType) /\ C \in Seq(Byte) /\ Len(C) = Len(B) + 2
    BY <1>1, <1>5, ReadsAdded
  <2> HIDE DEF C
  <2> QED
    BY <1>5, <2>1, <2>2
<1> HIDE DEF C
<1>7. Reads(D, 1, AVPWord(a)) /\ Reads(D, 3, a.vendorID) /\ Reads(D, 5, a.attrType)
  BY <1>1, <1>6, ReadsKept
<1>8. IsConcat(D, C, a.value) /\ D \in Seq(Byte)
  BY <1>1, <1>6, Concat
<1> HIDE DEF D
<1>9. Len(D) = 6 + Len(a.value) /\ \A j \in 1 .. Len(a.value) : D[6 + j] = a.value[j]
  BY <1>6, <1>8 DEF IsConcat
<1> QED
  BY <1>3, <1>7, <1>8, <1>9 DEF Written

Encoded(avps) == [i \in DOMAIN avps |-> encodeAVP(avps[i])]

(* All AVPs, encoded.                                                      *)
LEMMA EncodedBytes ==
  ASSUME NEW avps \in Seq(AVP)
  PROVE  /\ Encoded(avps) \in Seq(Seq(Byte)) /\ Len(Encoded(avps)) = Len(avps)
         /\ Len(avps) \in Nat
         /\ \A i \in 1 .. Len(avps) : /\ avps[i] \in AVP
                                      /\ Written(Encoded(avps)[i], avps[i])
<1>1. /\ Len(avps) \in Nat /\ DOMAIN avps = 1 .. Len(avps)
      /\ \A i \in 1 .. Len(avps) : avps[i] \in AVP
  BY SeqElement, Zenon
<1>2. \A i \in 1 .. Len(avps) : Written(encodeAVP(avps[i]), avps[i])
  BY <1>1, AVPWritten
<1>3. \A i \in 1 .. Len(avps) : encodeAVP(avps[i]) \in Seq(Byte)
  BY <1>2, Zenon DEF Written
<1>4. Encoded(avps) = [i \in 1 .. Len(avps) |-> encodeAVP(avps[i])]
  BY <1>1, Zenon DEF Encoded
<1> DEFINE E == Encoded(avps)
<1>5. E = [i \in 1 .. Len(avps) |-> E[i]] /\ \A i \in 1 .. Len(avps) : E[i] = encodeAVP(avps[i])
  BY <1>4, Zenon
<1> HIDE DEF E
<1>6. E \in Seq(Seq(Byte)) /\ Len(E) = Len(avps)
  BY <1>1, <1>3, <1>5
<1>7. \A i \in 1 .. Len(avps) : Written(E[i], avps[i])
  BY <1>2, <1>5
<1> QED
  BY <1>1, <1>6, <1>7 DEF E

(* The sequences joined so far are the front of all.                       *)
LEMMA JoinsGrow ==
  ASSUME NEW T, NEW s \in Seq(Seq(T)), NEW f, Joins(f, s, T)
  PROVE  \A k \in 0 .. Len(s) :
           /\ f[k] \in Seq(T) /\ Len(f[k]) \in Nat /\ Len(f[k]) <= Len(f[Len(s)])
           /\ \A i \in 1 .. Len(f[k]) : f[Len(s)][i] = f[k][i]
<1> DEFINE n == Len(s)
           Fore(k) == /\ Len(f[k]) <= Len(f[n])
                       /\ \A i \in 1 .. Len(f[k]) : f[n][i] = f[k][i]
           S == {m \in Nat : m <= n => Fore(n - m)}
<1>1. /\ n \in Nat /\ (\A k \in 0 .. n : f[k] \in Seq(T))
      /\ \A k \in 1 .. n : s[k] \in Seq(T) /\ f[k] = f[k - 1] \o s[k]
  BY SeqElement, Zenon DEF Joins
<1>2. \A k \in 0 .. n : Len(f[k]) \in Nat
  BY <1>1
<1>3. \A k \in 1 .. n : IsConcat(f[k], f[k - 1], s[k]) /\ Len(s[k]) \in Nat
  <2> SUFFICES ASSUME NEW k \in 1 .. n
               PROVE  IsConcat(f[k], f[k - 1], s[k]) /\ Len(s[k]) \in Nat
    OBVIOUS
  <2>1. k - 1 \in 0 .. n
    BY <1>1
  <2>2. f[k - 1] \in Seq(T) /\ s[k] \in Seq(T) /\ f[k] = f[k - 1] \o s[k]
    BY <1>1, <2>1
  <2> QED
    BY <2>2, Concat
<1>4. \A m \in Nat : m \in S <=> (m <= n => Fore(n - m))
  <2> HIDE DEF Fore
  <2> QED
    OBVIOUS
<1> HIDE DEF S
<1>5. 0 \in S
  <2>1. n - 0 = n /\ n \in 0 .. n
    BY <1>1
  <2>2. Fore(n)
    BY <1>2, <2>1
  <2> QED
    BY <1>4, <2>1, <2>2
<1>6. ASSUME NEW m \in Nat, m \in S PROVE m + 1 \in S
  <2> SUFFICES ASSUME m + 1 <= n PROVE Fore(n - (m + 1))
    <3> HIDE DEF Fore
    <3> QED
      BY <1>4
  <2> DEFINE k == n - m
  <2>1. k \in 1 .. n /\ k - 1 = n - (m + 1) /\ k \in 0 .. n /\ k - 1 \in 0 .. n /\ m <= n
    BY <1>1
  <2>2. Fore(k)
    <3> HIDE DEF Fore
    <3> QED
      BY <1>4, <1>6, <2>1
  <2> HIDE DEF k
  <2>3. IsConcat(f[k], f[k - 1], s[k]) /\ Len(s[k]) \in Nat /\ Len(f[k - 1]) \in Nat
        /\ Len(f[k]) \in Nat /\ Len(f[n]) \in Nat
    BY <1>1, <1>2, <1>3, <2>1
  <2>4. Fore(k - 1)
    <3>1. Len(f[k]) = Len(f[k - 1]) + Len(s[k])
          /\ \A i \in 1 .. Len(f[k - 1]) : f[k][i] = f[k - 1][i]
      BY <2>3 DEF IsConcat
    <3>2. Len(f[k - 1]) <= Len(f[k]) /\ Len(f[k]) <= Len(f[n])
      <4>1. Len(f[k]) = Len(f[k - 1]) + Len(s[k])
        BY <3>1, Zenon
      <4>2. Len(f[k - 1]) <= Len(f[k])
        <5>1. \A x, y, z \in Nat : x = y + z => y <= x
          OBVIOUS
        <5> QED
          BY <2>3, <4>1, <5>1, Zenon
      <4>3. Len(f[k]) <= Len(f[n])
        BY <2>2, Zenon
      <4> QED
        BY <4>2, <4>3, Zenon
    <3>3. Len(f[k - 1]) <= Len(f[n])
      BY <2>3, <3>2
    <3>4. \A i \in 1 .. Len(f[k - 1]) : f[n][i] = f[k - 1][i]
      <4> SUFFICES ASSUME NEW i \in 1 .. Len(f[k - 1]) PROVE f[n][i] = f[k - 1][i]
        OBVIOUS
      <4>1. i \in 1 .. Len(f[k])
        BY <2>3, <3>2
      <4> QED
        BY <2>2, <3>1, <4>1, Zenon
    <3> QED
      BY <3>3, <3>4
  <2> QED
    BY <2>1, <2>4
<1>7. \A m \in Nat : m \in S
  <2> HIDE DEF Fore
  <2> QED
    BY <1>5, <1>6, Induction
<1>8. \A k \in 0 .. n : Fore(k)
  <2> HIDE DEF Fore
  <2> SUFFICES ASSUME NEW k \in 0 .. n PROVE Fore(k)
    OBVIOUS
  <2>1. n - k \in Nat /\ n - k <= n /\ n - (n - k) = k
    BY <1>1
  <2> QED
    BY <1>4, <1>7, <2>1
<1> QED
  BY <1>1, <1>2, <1>8

-----------------------------------------------------------------------------
(* parseAVP reads at i the AVP that is written there.                      *)
LEMMA AVPReadAt ==
  ASSUME NEW b \in Seq(Byte), NEW a \in AVP, Len(a.value) <= 1017, NEW e, Written(e, a),
         NEW i \in Nat, i + Len(e) <= Len(b), \A j \in 1 .. Len(e) : b[i + j] = e[j]
  PROVE  i # Len(b) /\ ~Short(b, i) /\ LengthAt(b, i) = Len(e) /\ AVPAt(b, i) = a
<1> DEFINE v == a.value
           m == Len(v)
<1>1. /\ v \in Seq(Byte) /\ m \in Nat /\ m <= 1017 /\ Len(e) = 6 + m /\ Len(b) \in Nat
      /\ Reads(e, 1, AVPWord(a)) /\ Reads(e, 3, a.vendorID) /\ Reads(e, 5, a.attrType)
      /\ \A j \in 1 .. m : e[6 + j] = v[j]
  <2>1. Len(b) \in Nat
    BY SeqElement
  <2>2. a.value \in Seq(Byte) /\ Len(a.value) \in Nat
    BY DEF AVP
  <2>3. /\ Len(e) = 6 + Len(a.value)
        /\ Reads(e, 1, AVPWord(a)) /\ Reads(e, 3, a.vendorID) /\ Reads(e, 5, a.attrType)
        /\ \A j \in 1 .. Len(a.value) : e[6 + j] = a.value[j]
    BY Zenon DEF Written
  <2> QED
    BY <2>1, <2>2, <2>3, Zenon
<1>2. a.mandatory \in BOOLEAN /\ a.hidden \in BOOLEAN
      /\ AVPWordMeans(a)
  <2>1. a.mandatory \in BOOLEAN /\ a.hidden \in BOOLEAN
    BY DEF AVP
  <2>2. AVPWordMeans(a)
    BY AVPWordRead
  <2> QED
    BY <2>1, <2>2, Zenon
<1> HIDE DEF m, v
<1>3. \A j \in 1 .. 6 : b[i + j] = e[j]
  <2> SUFFICES ASSUME NEW j \in 1 .. 6 PROVE b[i + j] = e[j]
    OBVIOUS
  <2>1. j \in 1 .. Len(e)
    BY <1>1
  <2> QED
    BY <2>1, Zenon
<1>4. WordAt(b, i + 1) = AVPWord(a) /\ WordAt(b, i + 3) = a.vendorID
      /\ WordAt(b, i + 5) = a.attrType
  <2>1. (i + 1) + 1 = i + 2 /\ (i + 3) + 1 = i + 4 /\ (i + 5) + 1 = i + 6
    OBVIOUS
  <2>2. b[i + 1] = e[1] /\ b[i + 2] = e[2] /\ b[i + 3] = e[3] /\ b[i + 4] = e[4]
        /\ b[i + 5] = e[5] /\ b[i + 6] = e[6]
    BY <1>3
  <2>3. WordAt(e, 1) = AVPWord(a) /\ WordAt(e, 3) = a.vendorID /\ WordAt(e, 5) = a.attrType
    BY <1>1, Zenon DEF Reads
  <2>4. 1 + 1 = 2 /\ 3 + 1 = 4 /\ 5 + 1 = 6
    OBVIOUS
  <2>5. WordAt(b, i + 1) = WordAt(e, 1)
    BY <2>1, <2>2, <2>4, Zenon DEF WordAt
  <2>6. WordAt(b, i + 3) = WordAt(e, 3)
    BY <2>1, <2>2, <2>4, Zenon DEF WordAt
  <2>7. WordAt(b, i + 5) = WordAt(e, 5)
    BY <2>1, <2>2, <2>4, Zenon DEF WordAt
  <2> QED
    BY <2>3, <2>5, <2>6, <2>7, Zenon
<1>5. LengthAt(b, i) = 6 + m
  <2> DEFINE x == 6 + m
  <2>1. x \in 0 .. 1023
    BY <1>1
  <2> HIDE DEF x
  <2>2. TenBits(x) = x
    BY <2>1 DEF TenBits
  <2>3. TenBits(6 + m) = 6 + m
    BY <2>2 DEF x
  <2>4. TenBits(AVPWord(a)) = TenBits(6 + m)
    BY <1>2, Zenon DEF AVPWordMeans, m, v
  <2> QED
    BY <1>4, <2>3, <2>4, Zenon DEF LengthAt
<1>6. i # Len(b) /\ ~Short(b, i) /\ LengthAt(b, i) = Len(e)
  BY <1>1, <1>5 DEF Short
<1>7. AVPAt(b, i) = a
  <2>1. SubSeq(b, i + 7, i + (6 + m)) = v
    <3> DEFINE w == SubSeq(b, i + 7, i + (6 + m))
    <3>1. Len(w) = m /\ w \in Seq(Byte) /\ \A j \in 1 .. m : w[j] = b[(i + 7) + j - 1]
      <4>1. i + 7 \in 1 .. Len(b) + 1 /\ i + (6 + m) \in i + 6 .. Len(b)
        BY <1>1
      <4> QED
        BY <1>1, <4>1
    <3> HIDE DEF w
    <3>2. ASSUME NEW j \in 1 .. m PROVE w[j] = v[j]
      <4>1. 6 + j \in 1 .. Len(e) /\ (i + 7) + j - 1 = i + (6 + j)
        BY <1>1
      <4>2. b[i + (6 + j)] = e[6 + j]
        BY <4>1
      <4> QED
        BY <1>1, <3>1, <4>1, <4>2, Zenon
    <3>3. w = v
      <4>1. w = [j \in 1 .. m |-> w[j]]
        BY <1>1, <3>1
      <4>2. v = [j \in 1 .. m |-> v[j]]
        BY <1>1 DEF m
      <4> QED
        BY <3>2, <4>1, <4>2
    <3> QED
      BY <3>3 DEF w
  <2>2. IsSet(AVPWord(a), flagMandatory) = a.mandatory
        /\ IsSet(AVPWord(a), flagHidden) = a.hidden
    <3>1. IsSet(AVPWord(a), flagMandatory) \in BOOLEAN /\ IsSet(AVPWord(a), flagHidden) \in BOOLEAN
      BY DEF IsSet
    <3>2. /\ IsSet(AVPWord(a), flagMandatory) <=> a.mandatory
          /\ IsSet(AVPWord(a), flagHidden) <=> a.hidden
      BY <1>2, Zenon DEF AVPWordMeans
    <3> QED
      BY <1>2, <3>1, <3>2
  <2>3. a = [mandatory |-> a.mandatory, hidden |-> a.hidden, vendorID |-> a.vendorID,
             attrType |-> a.attrType, value |-> v]
    BY DEF AVP, v
  <2>4. AVPAt(b, i) = [mandatory |-> a.mandatory, hidden |-> a.hidden, vendorID |-> a.vendorID,
             attrType |-> a.attrType, value |-> v]
    BY <1>4, <1>5, <2>1, <2>2, Zenon DEF AVPAt
  <2> QED
    BY <2>3, <2>4
<1> QED
  BY <1>6, <1>7

(* The AVPs of a message are read back as they were written.               *)
LEMMA AVPsReadBack ==
  ASSUME NEW avps \in Seq(AVP), \A i \in 1 .. Len(avps) : Len(avps[i].value) <= 1017
  PROVE  parseAVPs(FlattenSeq(Encoded(avps))) = [ok |-> TRUE, avps |-> avps]
<1> DEFINE s == Encoded(avps)
           n == Len(avps)
           b == FlattenSeq(s)
<1>1. /\ s \in Seq(Seq(Byte)) /\ Len(s) = n /\ n \in Nat
      /\ \A i \in 1 .. n : avps[i] \in AVP /\ Written(s[i], avps[i])
  <2>1. /\ Encoded(avps) \in Seq(Seq(Byte)) /\ Len(Encoded(avps)) = Len(avps)
        /\ Len(avps) \in Nat
        /\ \A i \in 1 .. Len(avps) : /\ avps[i] \in AVP
                                     /\ Written(Encoded(avps)[i], avps[i])
    BY EncodedBytes
  <2> QED
    BY <2>1, Zenon
<1> HIDE DEF s
<1>2. PICK f : Joins(f, s, Byte) /\ b = f[n]
  <2>1. \E f : Joins(f, s, Byte) /\ FlattenSeq(s) = f[Len(s)]
    BY <1>1, FlattenMeans
  <2> QED
    BY <1>1, <2>1
<1> HIDE DEF b
<1>3. \A k \in 0 .. n : /\ f[k] \in Seq(Byte) /\ Len(f[k]) \in Nat /\ Len(f[k]) <= Len(b)
                        /\ \A i \in 1 .. Len(f[k]) : b[i] = f[k][i]
  BY <1>1, <1>2, JoinsGrow
<1>4. \A k \in 1 .. n : f[k] = f[k - 1] \o s[k] /\ s[k] \in Seq(Byte)
  BY <1>1, <1>2, SeqElement, Zenon DEF Joins
<1>5. b \in Seq(Byte) /\ f[0] = <<>>
  <2>1. n \in 0 .. n
    BY <1>1
  <2> QED
    BY <1>2, <1>3, <2>1 DEF Joins
<1>6. PICK from \in [0 .. Len(b) -> Results(b)] : ReadsAVPs(from, b) /\ parseAVPs(b) = from[0]
  BY <1>5, AVPsMean
<1>7. ASSUME NEW k \in 1 .. n
      PROVE  from[Len(f[k - 1])] = Onto(avps[k], from[Len(f[k])])
  <2> DEFINE i == Len(f[k - 1])
             e == s[k]
             a == avps[k]
  <2>0. k \in 0 .. n /\ k - 1 \in 0 .. n
    BY <1>1
  <2>1. IsConcat(f[k], f[k - 1], e) /\ Len(e) \in Nat /\ i \in Nat
    <3>1. f[k - 1] \in Seq(Byte) /\ e \in Seq(Byte) /\ f[k] = f[k - 1] \o e
      BY <1>3, <1>4, <2>0, Zenon
    <3> QED
      BY <3>1, Concat
  <2>2. Len(f[k]) = i + Len(e) /\ i + Len(e) <= Len(b) /\ Len(b) \in Nat
    <3>1. Len(f[k]) = i + Len(e)
      BY <2>1, Zenon DEF IsConcat
    <3>2. Len(f[k]) <= Len(b)
      BY <1>3, <2>0, Zenon
    <3>3. Len(b) \in Nat
      BY <1>5, SeqElement
    <3> QED
      BY <3>1, <3>2, <3>3, Zenon
  <2>3. ASSUME NEW j \in 1 .. Len(e) PROVE b[i + j] = e[j]
    <3>1. f[k][i + j] = e[j]
      BY <2>1, Zenon DEF IsConcat
    <3>2. i + j \in 1 .. Len(f[k])
      <4> DEFINE l == Len(e)
                 z == Len(f[k])
      <4>1. i \in Nat /\ l \in Nat /\ z = i + l /\ j \in 1 .. l
        BY <2>1, <2>2, Zenon
      <4> HIDE DEF i, l, z
      <4>2. i + j \in 1 .. z
        BY <4>1
      <4> QED
        BY <4>2 DEF i, z
    <3> QED
      BY <1>3, <2>0, <3>1, <3>2, Zenon
  <2>4. a \in AVP /\ Written(e, a) /\ Len(a.value) <= 1017
    <3>1. avps[k] \in AVP /\ Written(s[k], avps[k])
      BY <1>1
    <3>2. Len(avps[k].value) <= 1017
      OBVIOUS
    <3> QED
      BY <3>1, <3>2, Zenon
  <2> HIDE DEF i, e, a
  <2>5. i # Len(b) /\ ~Short(b, i) /\ LengthAt(b, i) = Len(e) /\ AVPAt(b, i) = a
    BY <1>5, <2>1, <2>2, <2>3, <2>4, AVPReadAt
  <2>6. i \in 0 .. Len(b)
    BY <2>1, <2>2
  <2>7. from[i] = IF i = Len(b) THEN None
                  ELSE IF Short(b, i) THEN Failed
                  ELSE Onto(AVPAt(b, i), from[i + LengthAt(b, i)])
    BY <1>6, <2>6, Zenon DEF ReadsAVPs
  <2>8. from[i] = Onto(a, from[i + Len(e)])
    BY <2>5, <2>7
  <2> QED
    BY <2>2, <2>8 DEF i, a
<1> DEFINE Rest(k) == [ok |-> TRUE, avps |-> SubSeq(avps, k + 1, n)]
           S == {m \in Nat : m <= n => from[Len(f[n - m])] = Rest(n - m)}
<1>8. \A m \in Nat : m \in S <=> (m <= n => from[Len(f[n - m])] = Rest(n - m))
  <2> HIDE DEF Rest
  <2> QED
    OBVIOUS
<1> HIDE DEF S
<1>9. 0 \in S
  <2>1. n - 0 = n /\ f[n] = b
    BY <1>1, <1>2
  <2>2. Len(b) \in 0 .. Len(b)
    BY <1>5, SeqElement
  <2>3. from[Len(b)] = None
    BY <1>6, <2>2, Zenon DEF ReadsAVPs
  <2>4. SubSeq(avps, n + 1, n) = <<>>
    BY <1>1
  <2>5. Rest(n) = None
    BY <2>4 DEF None
  <2> QED
    BY <1>8, <2>1, <2>3, <2>5, Zenon
<1>10. ASSUME NEW m \in Nat, m \in S PROVE m + 1 \in S
  <2> SUFFICES ASSUME m + 1 <= n PROVE from[Len(f[n - (m + 1)])] = Rest(n - (m + 1))
    <3> HIDE DEF Rest
    <3>1. m + 1 \in Nat
      OBVIOUS
    <3> QED
      BY <1>8, <3>1, Zenon
  <2> DEFINE k == n - m
  <2>1. k \in 1 .. n /\ k - 1 = n - (m + 1) /\ m <= n
    BY <1>1
  <2>2. from[Len(f[k])] = Rest(k)
    <3> HIDE DEF Rest
    <3> QED
      BY <1>8, <1>10, <2>1, Zenon
  <2> HIDE DEF k
  <2>3. from[Len(f[k - 1])] = Onto(avps[k], Rest(k))
    <3> HIDE DEF Rest
    <3> QED
      BY <1>7, <2>1, <2>2
  <2>4. <<avps[k]>> \o SubSeq(avps, k + 1, n) = SubSeq(avps, k, n)
    <3> HIDE DEF n
    <3> QED
      BY <1>1, <2>1 DEF n
  <2>5. Onto(avps[k], Rest(k)) = [ok |-> TRUE, avps |-> SubSeq(avps, k, n)]
    <3>1. Onto(avps[k], Rest(k)) = [ok |-> TRUE, avps |-> <<avps[k]>> \o SubSeq(avps, k + 1, n)]
      BY OntoMeans
    <3> QED
      BY <2>4, <3>1, Zenon
  <2>6. Rest(k - 1) = [ok |-> TRUE, avps |-> SubSeq(avps, k, n)]
    <3>1. (k - 1) + 1 = k
      BY <2>1
    <3> QED
      BY <3>1, Zenon
  <2> QED
    BY <2>1, <2>3, <2>5, <2>6, Zenon
<1>11. from[Len(f[0])] = Rest(0)
  <2>1. n \in S
    BY <1>1, <1>9, <1>10, Induction
  <2>2. n - n = 0 /\ n <= n
    BY <1>1
  <2> HIDE DEF Rest
  <2> QED
    BY <1>1, <1>8, <2>1, <2>2
<1>12. Rest(0) = [ok |-> TRUE, avps |-> avps]
  <2>1. SubSeq(avps, 0 + 1, n) = avps
    OBVIOUS
  <2> QED
    BY <2>1
<1>13. Len(f[0]) = 0
  BY <1>5
<1> QED
  BY <1>6, <1>11, <1>12, <1>13 DEF b, s

-----------------------------------------------------------------------------
(* The AVPs are bytes; there are none only if there are no AVPs.           *)
LEMMA PayloadBytes ==
  ASSUME NEW avps \in Seq(AVP)
  PROVE  /\ FlattenSeq(Encoded(avps)) \in Seq(Byte)
         /\ FlattenSeq(Encoded(avps)) = <<>> <=> avps = <<>>
<1> DEFINE s == Encoded(avps)
           n == Len(avps)
           b == FlattenSeq(s)
<1>1. /\ s \in Seq(Seq(Byte)) /\ Len(s) = n /\ n \in Nat
      /\ \A i \in 1 .. n : avps[i] \in AVP /\ Written(s[i], avps[i])
      /\ avps = <<>> <=> n = 0
  <2>1. avps = <<>> <=> n = 0
    OBVIOUS
  <2>2. /\ Encoded(avps) \in Seq(Seq(Byte)) /\ Len(Encoded(avps)) = Len(avps)
        /\ Len(avps) \in Nat
        /\ \A i \in 1 .. Len(avps) : /\ avps[i] \in AVP
                                     /\ Written(Encoded(avps)[i], avps[i])
    BY EncodedBytes
  <2> QED
    BY <2>1, <2>2, Zenon
<1> HIDE DEF s
<1>2. PICK f : Joins(f, s, Byte) /\ b = f[n]
  <2>1. \E f : Joins(f, s, Byte) /\ FlattenSeq(s) = f[Len(s)]
    BY <1>1, FlattenMeans
  <2> QED
    BY <1>1, <2>1
<1> HIDE DEF b
<1>3. \A k \in 0 .. n : f[k] \in Seq(Byte) /\ Len(f[k]) \in Nat /\ Len(f[k]) <= Len(f[n])
  BY <1>1, <1>2, JoinsGrow
<1>4. b \in Seq(Byte)
  <2>1. n \in 0 .. n
    BY <1>1
  <2> QED
    BY <1>2, <1>3, <2>1
<1>5. ASSUME n = 0 PROVE b = <<>>
  BY <1>2, <1>5, Zenon DEF Joins
<1>6. ASSUME n # 0 PROVE b # <<>>
  <2>1. 1 \in 1 .. n /\ 1 \in 0 .. n /\ 0 \in 0 .. n /\ 1 - 1 = 0
    BY <1>1, <1>6
  <2>2. f[1] = f[0] \o s[1] /\ f[0] \in Seq(Byte) /\ s[1] \in Seq(Byte) /\ Len(s[1]) > 0
    <3>1. f[1] = f[1 - 1] \o s[1]
      BY <1>1, <1>2, <2>1, Zenon DEF Joins
    <3>2. s[1] \in Seq(Byte) /\ Len(s[1]) = 6 + Len(avps[1].value) /\ avps[1] \in AVP
      BY <1>1, <2>1, Zenon DEF Written
    <3>3. Len(avps[1].value) \in Nat
      BY <3>2 DEF AVP
    <3>4. Len(s[1]) > 0
      BY <3>2, <3>3
    <3> QED
      BY <1>3, <2>1, <3>1, <3>2, <3>4
  <2>3. Len(f[1]) > 0
    <3>1. IsConcat(f[1], f[0], s[1]) /\ Len(f[0]) \in Nat /\ Len(s[1]) \in Nat
      BY <2>2, Concat
    <3>2. Len(f[1]) = Len(f[0]) + Len(s[1])
      BY <3>1, Zenon DEF IsConcat
    <3>3. \A x, y, z \in Int : (x = y + z /\ y >= 0 /\ z > 0) => x > 0
      OBVIOUS
    <3>4. Len(f[0]) >= 0 /\ Len(f[0]) \in Int /\ Len(s[1]) \in Int /\ Len(f[1]) \in Int
      BY <3>1, <3>2
    <3> QED
      BY <2>2, <3>2, <3>3, <3>4, Zenon
  <2>4. Len(f[n]) > 0
    <3>1. n \in 0 .. n
      BY <1>1
    <3> QED
      BY <1>3, <2>1, <2>3, <3>1
  <2> QED
    BY <1>2, <2>4
<1>7. b \in Seq(Byte) /\ (b = <<>> <=> avps = <<>>)
  BY <1>1, <1>4, <1>5, <1>6
<1> QED
  BY <1>7 DEF b, s

(* The message as Init admits it.                                          *)
Meant(m) ==
  /\ m \in [head : Header, avps : Seq(AVP), claim : Word, cut : Cuts]
  /\ ~m.head.sequence => (m.head.ns = 0 /\ m.head.nr = 0)
  /\ m.head.length \in {0, Len(Whole(m))}
  /\ m.cut <= Len(Whole(m))

(* The parts of a message.                                                 *)
LEMMA MeantTypes ==
  ASSUME NEW m, Meant(m)
  PROVE  m.head \in Header /\ m.avps \in Seq(AVP) /\ m.cut \in Nat /\ m.cut \in Cuts
         /\ m.claim \in Word
         /\ Payload(m) \in Seq(Byte) /\ (Payload(m) = <<>> <=> m.avps = <<>>)
         /\ Payload(m) = FlattenSeq(Encoded(m.avps))
<1>1. m.head \in Header /\ m.avps \in Seq(AVP) /\ m.cut \in Cuts /\ m.claim \in Word
  BY DEF Meant
<1>2. m.cut \in Nat
  BY <1>1, L2TPAssumption
<1>3. Payload(m) = FlattenSeq(Encoded(m.avps))
  BY Zenon DEF Payload, Encoded
<1>4. Payload(m) \in Seq(Byte) /\ (Payload(m) = <<>> <=> m.avps = <<>>)
  BY <1>1, <1>3, PayloadBytes
<1> QED
  BY <1>1, <1>2, <1>3, <1>4, Zenon

(* A number has one pair of bytes.                                         *)
LEMMA OnePair ==
  ASSUME NEW v \in Word, NEW x \in Byte, NEW y \in Byte, 256 * x + y = v
  PROVE  Bytes(v)[1] = x /\ Bytes(v)[2] = y
<1> DEFINE d == v \div 256
           r == v % 256
<1>0. d \in Byte /\ r \in Byte /\ 256 * d + r = v
  BY DEF Word, Byte
<1> HIDE DEF d, r
<1>1. d = x /\ r = y
  BY <1>0 DEF Byte
<1> QED
  BY <1>1 DEF Bytes, d, r

(* The Length that is sent is where parseHeader reads it, and all the rest *)
(* of the message is as encode has written it.                             *)
LEMMA ClaimWritten ==
  ASSUME NEW h \in Header, NEW c \in Word, NEW w \in Seq(Byte), h.length # 0,
         Fields(w, h, h.length), NEW s,
         s = Claiming(w, c)
  PROVE  /\ s \in Seq(Byte) /\ Len(s) = Len(w) /\ Fields(s, h, c)
         /\ \A i \in 1 .. Len(w) : i \notin {3, 4} => s[i] = w[i]
         /\ c = h.length => s = w
<1>1. Bytes(c)[1] \in Byte /\ Bytes(c)[2] \in Byte /\ 256 * Bytes(c)[1] + Bytes(c)[2] = c
  <2>1. Bytes(c) \in Seq(Byte) /\ Len(Bytes(c)) = 2 /\ 256 * Bytes(c)[1] + Bytes(c)[2] = c
    BY ByteFacts
  <2>2. 1 \in 1 .. 2 /\ 2 \in 1 .. 2
    OBVIOUS
  <2> QED
    BY <2>1, <2>2, SeqElement
<1>2. Len(w) \in Nat /\ DOMAIN w = 1 .. Len(w) /\ \A i \in 1 .. Len(w) : w[i] \in Byte
  BY SeqElement
<1>3. Reads(w, 3, h.length)
  BY DEF Fields
<1>4. 3 \in 1 .. Len(w) /\ 4 \in 1 .. Len(w)
  BY <1>2, <1>3 DEF Reads
<1> DEFINE p == Bytes(c)[1]
           q == Bytes(c)[2]
<1> HIDE DEF p, q
<1>5. s = [i \in 1 .. Len(w) |-> IF i = 4 THEN q ELSE IF i = 3 THEN p ELSE w[i]]
  BY <1>2, <1>4 DEF p, q, Claiming
<1>6. p \in Byte /\ q \in Byte /\ 256 * p + q = c
  BY <1>1 DEF p, q
<1>7. /\ \A i \in 1 .. Len(w) : s[i] \in Byte
      /\ \A i \in 1 .. Len(w) : i \notin {3, 4} => s[i] = w[i]
      /\ s[3] = p /\ s[4] = q
  BY <1>2, <1>4, <1>5, <1>6
<1>8. s \in Seq(Byte) /\ Len(s) = Len(w)
  <2> DEFINE n == Len(w)
             f(i) == IF i = 4 THEN q ELSE IF i = 3 THEN p ELSE w[i]
  <2>1. n \in Nat /\ s = [i \in 1 .. n |-> f(i)] /\ \A i \in 1 .. n : f(i) \in Byte
    BY <1>2, <1>5, <1>6
  <2> HIDE DEF n, f
  <2>2. s \in Seq(Byte) /\ Len(s) = n
    BY <2>1
  <2> QED
    BY <2>2 DEF n
<1>9. Reads(s, 3, c)
  BY <1>4, <1>6, <1>7, <1>8 DEF Reads, WordAt
<1>10. ASSUME NEW i, NEW v, Reads(w, i, v), i = 1 \/ i >= 5
       PROVE  Reads(s, i, v)
  <2>1. i \in 1 .. Len(w) /\ i + 1 \in 1 .. Len(w) /\ i \notin {3, 4} /\ i + 1 \notin {3, 4}
    BY <1>2, <1>10 DEF Reads
  <2>2. s[i] = w[i] /\ s[i + 1] = w[i + 1]
    BY <1>7, <2>1
  <2> QED
    BY <1>8, <1>10, <2>2 DEF Reads, WordAt
<1>11. IdsAt(h) = 5 /\ PadAt(h) >= 5
  BY DEF IdsAt, PadAt
<1>12. Fields(s, h, c)
  <2>1. Reads(w, 1, Flags(h)) => Reads(s, 1, Flags(h))
    BY <1>10
  <2>2. \A i \in {IdsAt(h), IdsAt(h) + 2, IdsAt(h) + 4, IdsAt(h) + 6, PadAt(h)} :
          \A v : Reads(w, i, v) => Reads(s, i, v)
    <3>1. \A i \in {IdsAt(h), IdsAt(h) + 2, IdsAt(h) + 4, IdsAt(h) + 6, PadAt(h)} : i >= 5
      BY <1>11
    <3> QED
      BY <1>10, <3>1
  <2> QED
    BY <1>9, <2>1, <2>2, Zenon DEF Fields
<1>13. ASSUME c = h.length PROVE s = w
  <2>1. 256 * w[3] + w[4] = c /\ w[3] \in Byte /\ w[4] \in Byte
    <3>1. w[3] \in Byte /\ w[4] \in Byte
      BY <1>2, <1>4
    <3> QED
      BY <1>3, <1>13, <3>1 DEF Reads, WordAt
  <2>2. p = w[3] /\ q = w[4]
    BY <2>1, OnePair DEF p, q
  <2>3. \A i \in 1 .. Len(w) : s[i] = w[i]
    BY <1>7, <2>2
  <2>4. s = [i \in 1 .. Len(w) |-> s[i]]
    <3>1. DOMAIN s = 1 .. Len(w)
      BY <1>8, SeqElement, Zenon
    <3> QED
      BY <1>5, <3>1
  <2>5. w = [i \in 1 .. Len(w) |-> w[i]]
    OBVIOUS
  <2> QED
    BY <2>3, <2>4, <2>5
<1> QED
  BY <1>7, <1>8, <1>12, <1>13

(* A message and what is sent of it.                                       *)
LEMMA SentMeans ==
  ASSUME NEW m, Meant(m)
  PROVE  /\ Whole(m) \in Seq(Byte) /\ Len(Whole(m)) = Size(m.head) + Len(Payload(m))
         /\ Size(m.head) = HeaderEnd(m) /\ Size(m.head) \in Nat /\ Size(m.head) >= 6
         /\ Sent(m) \in Seq(Byte) /\ Len(Sent(m)) = Len(Whole(m))
         /\ Fields(Sent(m), m.head, m.claim)
         /\ \A i \in 1 .. Len(Payload(m)) : Sent(m)[Size(m.head) + i] = Payload(m)[i]
<1> DEFINE h == m.head
           c == m.claim
           e == encode(h)
           p == Payload(m)
           w == Whole(m)
           s == Sent(m)
<1>1. h \in Header /\ c \in Word /\ p \in Seq(Byte)
  BY MeantTypes
<1>2. /\ h.length \in Nat /\ h.tunnelID \in Nat /\ h.sessionID \in Nat /\ h.ns \in Nat
      /\ h.nr \in Nat /\ h.offset \in Nat /\ Flags(h) \in Nat
  BY <1>1, HeaderWords
<1>3. Len(e) = Size(h) /\ Size(h) \in Nat /\ Size(h) >= 6
  BY <1>2, SizeOf
<1>3a. HeaderEnd(m) = Size(h)
  BY <1>3, Zenon DEF HeaderEnd
<1>4. e \in Seq(Byte) /\ Fields(e, h, h.length)
  BY <1>1, FieldsWritten
<1>5. w = e \o p
  BY DEF Whole
<1>6. Fields(w, h, h.length) /\ IsConcat(w, e, p) /\ w \in Seq(Byte)
  <2>1. Fields(e \o p, h, h.length)
    BY <1>1, <1>4, FieldsKept, Zenon
  <2>2. IsConcat(e \o p, e, p) /\ e \o p \in Seq(Byte)
    BY <1>1, <1>4, Concat
  <2> QED
    BY <1>5, <2>1, <2>2, Zenon
<1>6a. s = IF h.length = 0 THEN w
           ELSE Claiming(w, c)
  BY Zenon DEF Sent
<1> HIDE DEF h, c, e, p, w, s
<1>7. Len(w) = Size(h) + Len(p) /\ \A i \in 1 .. Len(p) : w[Size(h) + i] = p[i]
  BY <1>3, <1>6, Zenon DEF IsConcat
<1>8. s \in Seq(Byte) /\ Len(s) = Len(w) /\ Fields(s, h, c)
      /\ \A i \in 1 .. Len(p) : s[Size(h) + i] = p[i]
  <2>1. CASE h.length = 0
    <3>1. s = w
      BY <1>6a, <2>1
    <3>2. Fields(w, h, c)
      BY <1>6, <2>1, Zenon DEF Fields
    <3> QED
      BY <1>6, <1>7, <3>1, <3>2
  <2>2. CASE h.length # 0
    <3>1. s = Claiming(w, c)
      BY <1>6a, <2>2
    <3>2. /\ s \in Seq(Byte) /\ Len(s) = Len(w) /\ Fields(s, h, c)
          /\ \A i \in 1 .. Len(w) : i \notin {3, 4} => s[i] = w[i]
      BY <1>1, <1>6, <2>2, <3>1, ClaimWritten
    <3>3. ASSUME NEW i \in 1 .. Len(p) PROVE s[Size(h) + i] = p[i]
      <4>1. Len(p) \in Nat
        BY <1>1, SeqElement
      <4>2. Size(h) + i \in 1 .. Len(w) /\ Size(h) + i \notin {3, 4}
        BY <1>3, <1>7, <4>1
      <4> QED
        BY <1>7, <3>2, <4>2
    <3> QED
      BY <3>2, <3>3
  <2> QED
    BY <2>1, <2>2
<1> QED
  BY <1>3, <1>3a, <1>6, <1>7, <1>8, Zenon DEF h, c, p, w, s

(* A datagram: what it holds, whole or cut, and what can be read of it.    *)
LEMMA DatagramReads ==
  ASSUME NEW m, Meant(m), NEW b, b = Datagram(m)
  PROVE  /\ Len(b) >= 6 =>
              Reads(b, 1, Flags(m.head)) /\ (m.head.length # 0 => Reads(b, 3, m.claim))
         /\ Len(b) >= Size(m.head) => Fields(b, m.head, m.claim)
         /\ b \in Seq(Byte) /\ Len(b) \in Nat /\ Len(b) = Len(Whole(m)) - m.cut
         /\ \A i \in 1 .. Len(b) : b[i] = Sent(m)[i]
         /\ End(m) = EndIn(b, m.head, m.claim) /\ End(m) \in Nat
<1> DEFINE h == m.head
           c == m.claim
           w == Sent(m)
           n == Len(w) - m.cut
<1>1. /\ w \in Seq(Byte) /\ Fields(w, h, c) /\ Len(w) = Len(Whole(m))
      /\ Size(h) \in Nat
  BY SentMeans, Zenon
<1>2. h \in Header /\ c \in Word /\ m.cut \in Nat /\ m.cut <= Len(w)
  BY <1>1, MeantTypes DEF Meant
<1>2a. b = SubSeq(w, 1, n)
  BY <1>1, Zenon DEF Datagram
<1> HIDE DEF w
<1>3. Len(w) \in Nat /\ n \in 0 .. Len(w)
  BY <1>1, <1>2, SeqElement
<1> HIDE DEF n
<1>4. b \in Seq(Byte) /\ Len(b) = n /\ \A i \in 1 .. n : b[i] = w[i]
  BY <1>1, <1>2a, <1>3
<1>5. End(m) = EndIn(b, h, c) /\ End(m) \in Nat
  <2>1. End(m) = EndIn(b, h, c)
    BY Zenon DEF End, EndIn
  <2>2. c \in Nat /\ Len(b) \in Nat
    <3>1. c \in Nat
      BY <1>2, Numbers, Zenon
    <3> QED
      BY <1>3, <1>4, <3>1
  <2> QED
    BY <2>1, <2>2 DEF EndIn
<1> HIDE DEF h, c
<1>6. Reads(w, 1, Flags(h)) /\ (h.length # 0 => Reads(w, 3, c))
  BY <1>1, Zenon DEF Fields
<1>7. \A i, v : Reads(w, i, v) /\ i + 1 <= n => Reads(b, i, v)
  BY <1>1, <1>2a, <1>3, ReadsFront
<1>8. n >= Size(h) => Fields(b, h, c)
  <2>1. n >= Size(h) <=> Size(h) <= n
    BY <1>1, <1>3
  <2> QED
    BY <1>1, <1>2, <1>2a, <1>3, <2>1, FieldsFront, Zenon
<1>9. n >= 6 => Reads(b, 1, Flags(h)) /\ (h.length # 0 => Reads(b, 3, c))
  BY <1>3, <1>6, <1>7
<1>10. n \in Nat
  BY <1>3
<1> QED
  BY <1>1, <1>4, <1>5, <1>8, <1>9, <1>10, Zenon DEF h, c, w, n

-----------------------------------------------------------------------------
(* The Length that parseHeader reads, 0 for none.                          *)
LengthRead(m) == IF m.head.length = 0 THEN 0 ELSE m.claim

(* A datagram that holds its header, without an offset, and all that its   *)
(* Length says.                                                            *)
LEMMA HeaderWhole ==
  ASSUME NEW m, Meant(m), NEW b, b = Datagram(m),
         Size(m.head) <= End(m), End(m) <= Len(b),
         m.head.isControl => m.head.sequence, m.head.offset = 0
  PROVE  \E p \in Seq(Byte) :
           /\ parseHeader(b) =
                [res |-> "ok", payload |-> p,
                 head |-> [m.head EXCEPT !.length = LengthRead(m)]]
           /\ Len(p) = End(m) - Size(m.head)
           /\ End(m) = Len(Whole(m)) => p = Payload(m)
<1> DEFINE h == m.head
           c == m.claim
           k == Size(h)
           w == Sent(m)
           q == Payload(m)
           end == End(m)
           p == SubSeq(b, k + 1, end)
<1>1. /\ h \in Header /\ c \in Word /\ b \in Seq(Byte)
      /\ ~h.sequence => h.ns = 0 /\ h.nr = 0
      /\ Len(b) \in Nat /\ end \in Nat /\ k \in Nat /\ end = EndIn(b, h, c)
      /\ Len(b) >= k => Fields(b, h, c)
      /\ \A i \in 1 .. Len(b) : b[i] = w[i]
  <2>1. h \in Header /\ c \in Word /\ k \in Nat
    BY MeantTypes, SentMeans, Zenon
  <2>2. ~h.sequence => h.ns = 0 /\ h.nr = 0
    BY Zenon DEF Meant
  <2>3. /\ b \in Seq(Byte) /\ Len(b) \in Nat /\ end \in Nat /\ end = EndIn(b, h, c)
        /\ Len(b) >= k => Fields(b, h, c)
        /\ \A i \in 1 .. Len(b) : b[i] = w[i]
    BY DatagramReads, Zenon
  <2> QED
    BY <2>1, <2>2, <2>3, Zenon
<1>2. parseHeader(b) = [res |-> "ok", payload |-> p,
                        head |-> [h EXCEPT !.length = IF h.length = 0 THEN 0 ELSE c]]
  <2>1. k <= end /\ end <= Len(b) /\ (h.isControl => h.sequence) /\ h.offset = 0
    OBVIOUS
  <2> HIDE DEF h, k, c, end
  <2>2. Fields(b, h, c)
    BY <1>1, <2>1
  <2>3. Size(h) <= EndIn(b, h, c) /\ EndIn(b, h, c) <= Len(b)
    BY <1>1, <2>1 DEF k
  <2>4. parseHeader(b) =
          [res |-> "ok", head |-> [h EXCEPT !.length = IF h.length = 0 THEN 0 ELSE c],
           payload |-> SubSeq(b, Size(h) + 1, EndIn(b, h, c))]
    BY <1>1, <2>1, <2>2, <2>3, HeaderReadsBack
  <2> QED
    BY <1>1, <2>4 DEF k
<1>3. /\ q \in Seq(Byte) /\ Len(q) \in Nat /\ Len(Whole(m)) = k + Len(q)
      /\ \A i \in 1 .. Len(q) : w[k + i] = q[i]
  <2>1. q \in Seq(Byte) /\ Len(q) \in Nat
    BY MeantTypes, SeqElement
  <2> QED
    BY <2>1, SentMeans, Zenon
<1>3a. k <= end /\ end <= Len(b)
  OBVIOUS
<1> HIDE DEF h, c, k, w, q, end
<1>4. /\ p \in Seq(Byte) /\ Len(p) = end - k
      /\ \A i \in 1 .. end - k : p[i] = b[(k + 1) + i - 1]
  <2>1. k + 1 \in 1 .. Len(b) + 1 /\ end - k \in Nat /\ end \in 0 .. Len(b)
    BY <1>1, <1>3a
  <2>2. p \in Seq(Byte)
    BY <1>1, <2>1
  <2> QED
    BY <1>1, <2>1, <2>2
<1> HIDE DEF p
<1>5. end = Len(Whole(m)) => p = q
  <2> SUFFICES ASSUME end = Len(Whole(m)) PROVE p = q
    OBVIOUS
  <2>1. end - k = Len(q) /\ Len(p) = Len(q)
    <3>1. k + Len(q) = end
      BY <1>3, Zenon
    <3> QED
      BY <1>1, <1>3, <1>4, <3>1
  <2>2. ASSUME NEW i \in 1 .. Len(q) PROVE p[i] = q[i]
    <3>1. (k + 1) + i - 1 = k + i /\ i \in 1 .. end - k /\ k + i \in 1 .. Len(b)
      BY <1>1, <1>3, <1>3a, <2>1
    <3>2. p[i] = b[k + i] /\ b[k + i] = w[k + i] /\ w[k + i] = q[i]
      BY <1>1, <1>3, <1>4, <3>1
    <3> QED
      BY <3>2
  <2>3. p = [i \in 1 .. Len(q) |-> p[i]]
    BY <1>4, <2>1
  <2>4. q = [i \in 1 .. Len(q) |-> q[i]]
    BY <1>3
  <2> QED
    BY <2>2, <2>3, <2>4
<1>6. k = Size(m.head) /\ end = End(m) /\ q = Payload(m)
  BY DEF k, h, end, q
<1>7. [h EXCEPT !.length = IF h.length = 0 THEN 0 ELSE c]
        = [m.head EXCEPT !.length = LengthRead(m)]
  BY DEF h, c, LengthRead
<1> QED
  BY <1>2, <1>4, <1>5, <1>6, <1>7, Zenon

(* A message is refused when less has arrived than its Length says.        *)
LEMMA ShortRefused ==
  ASSUME NEW m, Meant(m), End(m) > Len(Datagram(m))
  PROVE  Result(Datagram(m)) = [res |-> "err"]
<1> DEFINE b == Datagram(m)
<1>1. /\ m.head \in Header /\ m.claim \in Word /\ b \in Seq(Byte) /\ Len(b) \in Nat
      /\ Len(b) >= 6 =>
           Reads(b, 1, Flags(m.head)) /\ (m.head.length # 0 => Reads(b, 3, m.claim))
      /\ End(m) = EndIn(b, m.head, m.claim)
  BY MeantTypes, DatagramReads, Zenon
<1>2. End(m) > Len(b)
  OBVIOUS
<1> HIDE DEF b
<1>3. m.head.length # 0 /\ m.claim > Len(b)
  BY <1>1, <1>2 DEF EndIn
<1>4. parseHeader(b) = [res |-> "err"]
  BY <1>1, <1>3, Refused
<1>5. Result(b) = [res |-> "err"]
  BY <1>4 DEF Result
<1> QED
  BY <1>5 DEF b

(* What Result makes of a header that is read.                             *)
LEMMA ResultMeans ==
  ASSUME NEW b
  PROVE  /\ parseHeader(b).res \in {"ok", "err", "panic"}
         /\ Result(b).res \in {"reply", "data", "err", "panic"}
         /\ parseHeader(b).res # "ok" => Result(b) = [res |-> parseHeader(b).res]
         /\ Result(b).res = "reply" =>
              /\ parseHeader(b).res = "ok" /\ parseHeader(b).head.isControl
              /\ parseAVPs(parseHeader(b).payload).ok
              /\ HasFirst(parseAVPs(parseHeader(b).payload).avps)
              /\ Result(b) = [res |-> "reply", reply |-> encode(Response(parseHeader(b).head))]
         /\ Result(b).res = "panic" =>
              \/ parseHeader(b).res = "panic"
              \/ /\ parseHeader(b).res = "ok" /\ parseHeader(b).head.isControl
                 /\ parseAVPs(parseHeader(b).payload).ok
                 /\ ~HasFirst(parseAVPs(parseHeader(b).payload).avps)
         /\ parseHeader(b).res = "ok" /\ parseHeader(b).head.isControl
              /\ parseAVPs(parseHeader(b).payload).ok
              /\ HasFirst(parseAVPs(parseHeader(b).payload).avps) => Result(b).res = "reply"
<1> DEFINE q == parseHeader(b)
           l == parseAVPs(q.payload)
           r == encode(Response(q.head))
<1>1. q.res \in {"ok", "err", "panic"}
  BY DEF parseHeader
<1>2. Result(b) = IF q.res # "ok" THEN [res |-> q.res]
                  ELSE IF ~q.head.isControl THEN [res |-> "data"]
                  ELSE IF ~l.ok THEN [res |-> "err"]
                  ELSE IF ~HasFirst(l.avps) THEN [res |-> "panic"]
                  ELSE [res |-> "reply", reply |-> r]
  BY Zenon DEF Result
<1> HIDE DEF q, l, r
<1>3. /\ Result(b).res \in {"reply", "data", "err", "panic"}
      /\ q.res # "ok" => Result(b) = [res |-> q.res]
      /\ Result(b).res = "reply" =>
           /\ q.res = "ok" /\ q.head.isControl
           /\ l.ok
           /\ HasFirst(l.avps)
           /\ Result(b) = [res |-> "reply", reply |-> r]
      /\ Result(b).res = "panic" =>
           \/ q.res = "panic"
           \/ /\ q.res = "ok" /\ q.head.isControl
              /\ l.ok
              /\ ~HasFirst(l.avps)
      /\ q.res = "ok" /\ q.head.isControl /\ l.ok /\ HasFirst(l.avps) => Result(b).res = "reply"
  BY <1>1, <1>2
<1> QED
  BY <1>1, <1>3, Zenon DEF q, l, r

-----------------------------------------------------------------------------
(* The answer to a header.                                                 *)
Following(n) == IF n = 65535 THEN 0 ELSE n + 1

LEMMA Increments ==
  ASSUME NEW n \in Word
  PROVE  /\ (n + 1) % 65536 \in Word
         /\ (n + 1) % 65536 = Following(n)
<1> DEFINE k == (n + 1) % 65536
<1>1. n \in Int /\ ~(n < 0) /\ ~(n > 65535)
  BY SMT DEF Word
<1>2. k \in Int /\ ~(k < 0) /\ ~(k > 65535)
  BY <1>1, SMT
<1>3. k = IF n = 65535 THEN 0 ELSE n + 1
  BY <1>1, SMT
<1> HIDE DEF k
<1>4. k \in Word
  BY <1>2, InWord, SMT
<1> QED
  BY <1>3, <1>4, SMT DEF k, Following

(* The answer reads back as the response.                                  *)
LEMMA ResponseReads ==
  ASSUME NEW h \in Header
  PROVE  /\ encode(Response(h)) \in Seq(Byte)
         /\ parseHeader(encode(Response(h))) =
              [res |-> "ok", head |-> Response(h), payload |-> <<>>]
         /\ Response(h).tunnelID = h.tunnelID /\ Response(h).sessionID = h.sessionID
         /\ Response(h).ns = Following(h.ns)
         /\ Response(h).nr = Following(h.nr)
<1> DEFINE r == Response(h)
           b == encode(r)
<1>1. /\ h.tunnelID \in Word /\ h.sessionID \in Word /\ h.ns \in Word /\ h.nr \in Word
  BY HeaderWords
<1> DEFINE ns == (h.ns + 1) % 65536
           nr == (h.nr + 1) % 65536
<1>2. /\ ns \in Word /\ ns = Following(h.ns)
      /\ nr \in Word /\ nr = Following(h.nr)
  BY <1>1, Increments
<1>3. r = [isControl |-> TRUE, priority |-> FALSE, sequence |-> TRUE, tunnelID |-> h.tunnelID,
           sessionID |-> h.sessionID, ns |-> ns, nr |-> nr, length |-> 0, offset |-> 0]
  BY DEF Response
<1> HIDE DEF ns, nr
<1>4. 0 \in Word
  BY InWord, SMT
<1> HIDE DEF r
<1>5. r \in Header /\ r.isControl /\ r.sequence /\ r.length = 0 /\ r.offset = 0
      /\ r.tunnelID = h.tunnelID /\ r.sessionID = h.sessionID /\ r.ns = ns /\ r.nr = nr
  BY <1>1, <1>2, <1>3, <1>4 DEF Header
<1>6. b \in Seq(Byte) /\ Fields(b, r, 0)
  BY <1>5, FieldsWritten, Zenon
<1>7. Len(b) = Size(r) /\ Size(r) \in Nat
  <2>1. /\ r.length \in Nat /\ r.tunnelID \in Nat /\ r.sessionID \in Nat /\ r.ns \in Nat
        /\ r.nr \in Nat /\ r.offset \in Nat /\ Flags(r) \in Nat
    BY <1>5, HeaderWords
  <2> QED
    BY <2>1, SizeOf
<1>8. parseHeader(b) = [res |-> "ok", head |-> r, payload |-> SubSeq(b, Size(r) + 1, Len(b))]
  <2> HIDE DEF b
  <2>1. EndIn(b, r, 0) = Len(b) /\ Size(r) <= Len(b)
    BY <1>5, <1>7 DEF EndIn
  <2>2. parseHeader(b) =
          [res |-> "ok", head |-> [r EXCEPT !.length = IF r.length = 0 THEN 0 ELSE 0],
           payload |-> SubSeq(b, Size(r) + 1, EndIn(b, r, 0))]
    <3>1. Size(r) <= EndIn(b, r, 0) /\ EndIn(b, r, 0) <= Len(b)
      BY <1>7, <2>1
    <3> QED
      BY <1>4, <1>5, <1>6, <3>1, HeaderReadsBack
  <2>3. [r EXCEPT !.length = IF r.length = 0 THEN 0 ELSE 0] = r
    BY <1>5 DEF Header
  <2> QED
    BY <2>1, <2>2, <2>3
<1>9. SubSeq(b, Size(r) + 1, Len(b)) = <<>>
  <2> HIDE DEF b
  <2> QED
    BY <1>6, <1>7
<1>10. r.ns = Following(h.ns)
  BY <1>2, <1>5
<1>11. r.nr = Following(h.nr)
  BY <1>2, <1>5
<1>12. parseHeader(b) = [res |-> "ok", head |-> r, payload |-> <<>>]
  BY <1>8, <1>9
<1> QED
  BY <1>5, <1>6, <1>10, <1>11, <1>12 DEF r

(* What is answered, and how.                                              *)
LEMMA ReplyMeans ==
  ASSUME NEW m, Meant(m), Result(Datagram(m)).res = "reply"
  PROVE  /\ m.head.isControl /\ End(m) > HeaderEnd(m)
         /\ Result(Datagram(m)).reply = encode(Response(m.head))
<1> DEFINE b == Datagram(m)
           h == m.head
           q == parseHeader(b)
           l == parseAVPs(q.payload)
<1>1. /\ h \in Header /\ m.claim \in Word /\ b \in Seq(Byte) /\ Len(b) \in Nat
      /\ Len(b) >= 6 => Reads(b, 1, Flags(h)) /\ (h.length # 0 => Reads(b, 3, m.claim))
      /\ End(m) = EndIn(b, h, m.claim) /\ End(m) \in Nat
      /\ Size(h) \in Nat /\ Size(h) = HeaderEnd(m)
  BY MeantTypes, DatagramReads, SentMeans, Zenon
<1>3. /\ q.res = "ok" /\ q.head.isControl
      /\ l.ok /\ HasFirst(l.avps)
      /\ Result(b).reply = encode(Response(q.head))
  <2>1. /\ q.res = "ok" /\ q.head.isControl
        /\ l.ok /\ HasFirst(l.avps)
        /\ Result(b) = [res |-> "reply", reply |-> encode(Response(q.head))]
    BY ResultMeans, Zenon
  <2> QED
    BY <2>1
<1> HIDE DEF b, h, q, l
<1>7. /\ h.isControl /\ h.sequence /\ h.offset = 0
      /\ Size(h) <= End(m) /\ End(m) <= Len(b)
  <2>1. /\ h.isControl /\ h.sequence /\ h.offset = 0
        /\ Size(h) <= EndIn(b, h, m.claim) /\ EndIn(b, h, m.claim) <= Len(b)
    BY <1>1, <1>3, ControlComplete DEF q
  <2> QED
    BY <1>1, <2>1
<1>8. PICK p \in Seq(Byte) : /\ q = [res |-> "ok", payload |-> p, head |-> [h EXCEPT !.length = LengthRead(m)]]
                                /\ Len(p) = End(m) - Size(h)
  <2>1. /\ m.head.isControl => m.head.sequence /\ m.head.offset = 0
        /\ Size(m.head) <= End(m) /\ End(m) <= Len(b)
    BY <1>7 DEF h
  <2> QED
    BY <1>7, <2>1, HeaderWhole, Zenon DEF b, h, q
<1>9. p # <<>>
  <2>1. parseAVPs(p).ok /\ HasFirst(parseAVPs(p).avps)
    <3>1. q.payload = p
      BY <1>8
    <3> QED
      BY <1>3, <3>1 DEF l
  <2> QED
    BY <2>1, SomeAVPs
<1>10. End(m) > HeaderEnd(m)
  <2>1. Len(p) \in Nat /\ Len(p) # 0
    BY <1>9
  <2> QED
    BY <1>1, <1>8, <2>1
<1>11. Response(q.head) = Response(h)
  <2>1. q.head = [h EXCEPT !.length = LengthRead(m)]
    BY <1>8
  <2>2. /\ q.head.tunnelID = h.tunnelID /\ q.head.sessionID = h.sessionID
        /\ q.head.ns = h.ns /\ q.head.nr = h.nr
    BY <1>1, <2>1 DEF Header
  <2> QED
    BY <2>2 DEF Response
<1>12. Result(b).reply = encode(Response(h))
  BY <1>3, <1>11
<1> QED
  BY <1>7, <1>10, <1>12 DEF b, h

-----------------------------------------------------------------------------
(* What ends the process.                                                  *)
LEMMA PanicMeans ==
  ASSUME NEW m, Meant(m), Result(Datagram(m)).res = "panic"
  PROVE  /\ \/ m.head.offset > 0
            \/ End(m) < HeaderEnd(m)
            \/ m.head.isControl /\ End(m) = HeaderEnd(m)
         /\ ~(End(m) > Len(Datagram(m)))
<1> DEFINE b == Datagram(m)
           h == m.head
           q == parseHeader(b)
           l == parseAVPs(q.payload)
<1>1. /\ h \in Header /\ m.claim \in Word /\ b \in Seq(Byte) /\ Len(b) \in Nat
      /\ Len(b) >= Size(h) => Fields(b, h, m.claim)
      /\ End(m) = EndIn(b, h, m.claim) /\ End(m) \in Nat
      /\ Size(h) \in Nat /\ Size(h) = HeaderEnd(m)
  BY MeantTypes, DatagramReads, SentMeans, Zenon
<1>2. ~(End(m) > Len(b))
  <2>1. "err" # "panic"
    OBVIOUS
  <2> QED
    BY <2>1, ShortRefused
<1>3. /\ q.res = "panic" \/ (q.res = "ok" /\ q.head.isControl /\ l.ok /\ ~HasFirst(l.avps))
  BY ResultMeans, Zenon
<1>4. h.offset \in Nat /\ h.isControl \in BOOLEAN /\ h.sequence \in BOOLEAN
  BY <1>1, HeaderWords
<1> HIDE DEF b, h, q, l
<1>5. ASSUME h.offset = 0, Size(h) <= End(m) PROVE h.isControl /\ End(m) = Size(h)
  <2>1. Fields(b, h, m.claim) /\ Size(h) <= EndIn(b, h, m.claim) /\ EndIn(b, h, m.claim) <= Len(b)
    BY <1>1, <1>2, <1>5
  <2>2. h.isControl => h.sequence
    <3> SUFFICES ASSUME h.isControl, ~h.sequence PROVE FALSE
      BY <1>4
    <3>1. q.res = "err"
      BY <1>1, <1>5, <2>1, ControlRefused DEF q
    <3> QED
      BY <1>3, <3>1
  <2>3. PICK p \in Seq(Byte) : /\ q = [res |-> "ok", payload |-> p, head |-> [h EXCEPT !.length = LengthRead(m)]]
                                  /\ Len(p) = End(m) - Size(h)
    <3>1. /\ m.head.isControl => m.head.sequence /\ m.head.offset = 0
          /\ Size(m.head) <= End(m) /\ End(m) <= Len(b)
      BY <1>1, <1>5, <2>1, <2>2 DEF h
    <3>2. m.head.isControl => m.head.sequence
      BY <2>2 DEF h
    <3>3. m.head.offset = 0
      BY <1>5 DEF h
    <3> QED
      BY <3>1, <3>2, <3>3, HeaderWhole, Zenon DEF b, h, q
  <2>4. q.res = "ok" /\ q.payload = p /\ q.head.isControl = h.isControl
    BY <1>1, <2>3 DEF Header
  <2>5. h.isControl /\ l.ok /\ ~HasFirst(l.avps)
    BY <1>3, <2>4
  <2>6. p = <<>>
    <3>1. parseAVPs(p).ok /\ ~HasFirst(parseAVPs(p).avps)
      BY <2>4, <2>5 DEF l
    <3> QED
      BY <3>1, SomeAVPs
  <2> QED
    BY <1>1, <2>3, <2>5, <2>6
<1>6. h.offset > 0 \/ End(m) < HeaderEnd(m) \/ (h.isControl /\ End(m) = HeaderEnd(m))
  BY <1>1, <1>4, <1>5
<1> QED
  BY <1>2, <1>6 DEF b, h

(* A legal message that is whole.                                          *)
LEMMA LegalReads ==
  ASSUME NEW m, Meant(m), Legal(m), m.cut = 0
  PROVE  /\ parseHeader(Datagram(m)) = [res |-> "ok", head |-> m.head, payload |-> Payload(m)]
         /\ parseAVPs(Payload(m)) = [ok |-> TRUE, avps |-> m.avps]
<1> DEFINE b == Datagram(m)
           h == m.head
<1>1. /\ h \in Header /\ m.avps \in Seq(AVP) /\ Payload(m) = FlattenSeq(Encoded(m.avps))
      /\ b \in Seq(Byte) /\ Len(b) \in Nat
      /\ Len(b) = Len(Whole(m)) - m.cut
      /\ End(m) = EndIn(b, h, m.claim)
  BY MeantTypes, DatagramReads, Zenon
<1>2. Size(h) \in Nat /\ Len(Whole(m)) = Size(h) + Len(Payload(m)) /\ Len(Payload(m)) \in Nat
  BY SentMeans, MeantTypes, SeqElement, Zenon
<1>3. /\ h.isControl => h.sequence
      /\ h.offset = 0
      /\ \A a \in ToSet(m.avps) : Len(a.value) <= 1017
  BY Zenon DEF Legal
<1>4. parseHeader(b) = [res |-> "ok", head |-> h, payload |-> Payload(m)]
  <2> HIDE DEF b, h
  <2>1. Len(b) = Len(Whole(m))
    BY <1>1, <1>2
  <2>2. End(m) = Len(b)
    <3>1. h.length \in {0, Len(Whole(m))} /\ m.claim = h.length
      BY DEF Meant, Legal, h
    <3> QED
      BY <1>1, <2>1, <3>1 DEF EndIn
  <2>3. Size(h) <= End(m) /\ End(m) <= Len(b) /\ End(m) = Len(Whole(m))
    BY <1>1, <1>2, <2>1, <2>2
  <2>4. PICK p \in Seq(Byte) :
          /\ parseHeader(b) =
               [res |-> "ok", payload |-> p,
                head |-> [h EXCEPT !.length = LengthRead(m)]]
          /\ p = Payload(m)
    BY <1>3, <2>3, HeaderWhole, Zenon DEF b, h
  <2>5. [h EXCEPT !.length = LengthRead(m)] = h
    <3>1. LengthRead(m) = h.length
      BY DEF Legal, LengthRead, h
    <3> QED
      BY <1>1, <3>1 DEF Header
  <2> QED
    BY <2>4, <2>5
<1>5. ASSUME NEW i \in 1 .. Len(m.avps) PROVE Len(m.avps[i].value) <= 1017
  <2>1. m.avps[i] \in ToSet(m.avps)
    BY <1>1 DEF ToSet
  <2> QED
    BY <1>3, <2>1
<1>6. parseAVPs(Payload(m)) = [ok |-> TRUE, avps |-> m.avps]
  <2> DEFINE s == m.avps
  <2> HIDE DEF s
  <2>1. s \in Seq(AVP) /\ \A i \in 1 .. Len(s) : Len(s[i].value) <= 1017
    BY <1>1, <1>5, Zenon DEF s
  <2>2. parseAVPs(FlattenSeq(Encoded(s))) = [ok |-> TRUE, avps |-> s]
    BY <2>1, AVPsReadBack
  <2> QED
    BY <1>1, <2>2, Zenon DEF s
<1> QED
  BY <1>4, <1>6

(* A legal control message with AVPs is answered.                          *)
LEMMA LegalAnswered ==
  ASSUME NEW m, Meant(m), Legal(m), m.cut = 0, m.head.isControl, m.avps # <<>>
  PROVE  Result(Datagram(m)).res = "reply"
<1> DEFINE b == Datagram(m)
           q == parseHeader(b)
           l == parseAVPs(q.payload)
<1>1. q = [res |-> "ok", head |-> m.head, payload |-> Payload(m)]
      /\ parseAVPs(Payload(m)) = [ok |-> TRUE, avps |-> m.avps]
  BY LegalReads
<1> HIDE DEF q
<1>2. q.res = "ok" /\ q.head.isControl /\ l.ok /\ l.avps = m.avps
  BY <1>1
<1>3. HasFirst(l.avps)
  <2>1. Len(m.avps) > 0
    <3>1. m.avps \in Seq(AVP)
      BY MeantTypes
    <3> QED
      BY <3>1
  <2> QED
    BY <1>2, <2>1 DEF HasFirst
<1> QED
  BY <1>2, <1>3, ResultMeans, Zenon DEF q, l

-----------------------------------------------------------------------------
(* How long a message is.                                                  *)
LEMMA WholeSize ==
  ASSUME NEW m, m.avps \in Seq(AVP), m.head.length \in Nat, m.head.tunnelID \in Word,
         m.head.sessionID \in Word, m.head.ns \in Word, m.head.nr \in Word,
         m.head.offset \in Word, m.head.isControl \in BOOLEAN,
         m.head.priority \in BOOLEAN, m.head.sequence \in BOOLEAN
  PROVE  /\ Len(Whole(m)) = Size(m.head) + Len(Payload(m))
         /\ Size(m.head) \in Nat /\ Len(Payload(m)) \in Nat
<1> DEFINE h == m.head
           c == h.length # 0
           d == h.offset > 0
<1>1. Word \subseteq Nat
  BY Numbers, Zenon
<1>2. c \in BOOLEAN /\ d \in BOOLEAN
  BY <1>1
<1>3. Flags(h) = FlagsOf(h.isControl, h.priority, c, h.sequence, d)
  BY Zenon DEF Flags
<1> HIDE DEF c, d
<1>4. FlagsRead(Flags(h), h.isControl, h.priority, c, h.sequence, d)
  BY <1>2, <1>3, FlagBits, Zenon
<1>5. Flags(h) \in Nat
  BY <1>1, <1>4 DEF FlagsRead
<1>6. Len(encode(h)) = Size(h) /\ Size(h) \in Nat /\ encode(h) \in Seq(Nat)
  BY <1>1, <1>5, SizeOf
<1>7. Payload(m) \in Seq(Byte)
  <2>1. Payload(m) = FlattenSeq(Encoded(m.avps))
    BY Zenon DEF Payload, Encoded
  <2> QED
    BY <2>1, PayloadBytes
<1>8. Payload(m) \in Seq(Nat)
  <2> DEFINE p == Payload(m)
  <2> HIDE DEF p
  <2>1. Len(p) \in Nat /\ DOMAIN p = 1 .. Len(p) /\ \A i \in 1 .. Len(p) : p[i] \in Byte
    BY <1>7, SeqElement, Zenon DEF p
  <2>2. \A i \in 1 .. Len(p) : p[i] \in Nat
    BY <2>1, Numbers, Zenon
  <2>3. p = [i \in 1 .. Len(p) |-> p[i]]
    BY <1>7 DEF p
  <2>4. p \in Seq(Nat)
    BY <2>1, <2>2, <2>3
  <2> QED
    BY <2>4 DEF p
<1>9. IsConcat(encode(h) \o Payload(m), encode(h), Payload(m)) /\ Len(Payload(m)) \in Nat
  BY <1>6, <1>8, Concat
<1> QED
  BY <1>6, <1>9, Zenon DEF Whole, IsConcat

(* Every initial message is one of these.                                  *)
LEMMA InitMeant ==
  ASSUME Init
  PROVE  Meant(msg) /\ inbox = 0 /\ copies = 0 /\ tasks = 0 /\ replies = <<>>
         /\ server = "serving"
<1>1. PICK isControl \in BOOLEAN, priority \in BOOLEAN, sequence \in BOOLEAN,
           hasLength \in BOOLEAN, ns \in Words, nr \in Words, offset \in Offsets,
           cut \in Cuts, avps \in AVPLists :
        LET M == Message(isControl, priority, sequence, ns, nr, offset, avps, hasLength, cut) IN
        /\ cut <= Len(Whole(M)) /\ Len(Whole(M)) <= MaxDatagram
        /\ \E claim \in Claims(M) : msg = [M EXCEPT !.claim = claim]
  BY Zenon DEF Init
<1> DEFINE M == Message(isControl, priority, sequence, ns, nr, offset, avps, hasLength, cut)
<1>1a. PICK claim \in Claims(M) : msg = [M EXCEPT !.claim = claim]
  BY <1>1, Zenon
<1> DEFINE head == [isControl |-> isControl, priority |-> priority, sequence |-> sequence,
                    tunnelID |-> 258, sessionID |-> 65535,
                    ns |-> IF sequence THEN ns ELSE 0, nr |-> IF sequence THEN nr ELSE 0,
                    length |-> 0, offset |-> offset]
           m == [head |-> head, avps |-> avps, claim |-> 0, cut |-> cut]
           n == IF hasLength THEN Len(Whole(m)) + 2 ELSE 0
           head2 == [isControl |-> isControl, priority |-> priority, sequence |-> sequence,
                    tunnelID |-> 258, sessionID |-> 65535,
                    ns |-> IF sequence THEN ns ELSE 0, nr |-> IF sequence THEN nr ELSE 0,
                    length |-> n, offset |-> offset]
<1>2. /\ ns \in Word /\ nr \in Word /\ offset \in Word /\ avps \in Seq(AVP) /\ cut \in Nat
      /\ 0 \in Word /\ 258 \in Word /\ 65535 \in Word /\ Word \subseteq Nat
  <2>1. 0 \in Word /\ 258 \in Word /\ 65535 \in Word
    BY InWord, SMT
  <2>2. Word \subseteq Nat
    BY Numbers, Zenon
  <2>3. Words \subseteq Word /\ Offsets \subseteq Word /\ AVPLists \subseteq Seq(AVP)
        /\ Cuts \subseteq Nat
    BY L2TPAssumption, Zenon
  <2>4. ns \in Word /\ nr \in Word /\ offset \in Word /\ avps \in Seq(AVP) /\ cut \in Nat
    BY <2>3
  <2> QED
    BY <2>1, <2>2, <2>4, SMT
<1>2a. avps \in Seq(AVP)
  BY <1>2, SMT
<1>3. M = [head |-> head2, avps |-> avps, claim |-> n, cut |-> cut]
  BY DEF Message
<1> HIDE DEF M
<1>3a. M.head = head2 /\ M.avps = avps /\ M.head.length = n
  BY <1>3
<1>4. msg = [head |-> head2, avps |-> avps, claim |-> claim, cut |-> cut]
  BY <1>1a, <1>3
<1>5. m.head = head /\ m.avps = avps
      /\ msg.head = head2 /\ msg.avps = avps /\ msg.cut = cut
  BY <1>4
<1>6. /\ head.length = 0 /\ head.tunnelID \in Word /\ head.sessionID \in Word
      /\ head.ns \in Word /\ head.nr \in Word /\ head.offset \in Word
      /\ head.isControl \in BOOLEAN /\ head.priority \in BOOLEAN /\ head.sequence \in BOOLEAN
      /\ head.offset = offset /\ head.sequence = sequence
  BY <1>2
<1>7. /\ head2.length = n /\ head2.tunnelID \in Word /\ head2.sessionID \in Word
      /\ head2.ns \in Word /\ head2.nr \in Word /\ head2.offset \in Word
      /\ head2.isControl \in BOOLEAN /\ head2.priority \in BOOLEAN
      /\ head2.sequence \in BOOLEAN /\ head2.offset = offset /\ head2.sequence = sequence
      /\ ~head2.sequence => (head2.ns = 0 /\ head2.nr = 0)
  <2> HIDE DEF n
  <2> QED
    BY <1>2
<1>8. head2 = [head2 EXCEPT !.length = n]
      /\ (n \in Word => head2 \in Header)
  <2> HIDE DEF n
  <2> QED
    BY <1>2 DEF Header
<1> HIDE DEF head, head2
<1>9. Len(Whole(m)) = Size(head) + Len(Payload(m)) /\ Size(head) \in Nat
      /\ Len(Payload(m)) \in Nat
  <2> HIDE DEF m
  <2>0. 0 \in Nat
    OBVIOUS
  <2>1. /\ m.avps \in Seq(AVP) /\ m.head.length \in Nat /\ m.head.tunnelID \in Word
        /\ m.head.sessionID \in Word /\ m.head.ns \in Word /\ m.head.nr \in Word
        /\ m.head.offset \in Word /\ m.head.isControl \in BOOLEAN
        /\ m.head.priority \in BOOLEAN /\ m.head.sequence \in BOOLEAN
    BY <1>2a, <1>5, <1>6, <2>0
  <2>2. /\ Len(Whole(m)) = Size(m.head) + Len(Payload(m))
        /\ Size(m.head) \in Nat /\ Len(Payload(m)) \in Nat
    BY <2>1, WholeSize, Zenon
  <2> QED
    BY <1>5, <2>2, Zenon
<1>10. Payload(msg) = Payload(m) /\ Whole(msg) = Whole(M)
  BY <1>3a, <1>5, Zenon DEF Payload, Whole
<1>11. n \in Nat /\ n = IF hasLength THEN Size(head) + Len(Payload(m)) + 2 ELSE 0
  BY <1>9
<1> HIDE DEF n, m
<1>12. Len(Whole(msg)) = Size(head2) + Len(Payload(msg)) /\ Size(head2) \in Nat
  <2>1. /\ msg.avps \in Seq(AVP) /\ msg.head.length \in Nat /\ msg.head.tunnelID \in Word
        /\ msg.head.sessionID \in Word /\ msg.head.ns \in Word /\ msg.head.nr \in Word
        /\ msg.head.offset \in Word /\ msg.head.isControl \in BOOLEAN
        /\ msg.head.priority \in BOOLEAN /\ msg.head.sequence \in BOOLEAN
    BY <1>2a, <1>5, <1>7, <1>11
  <2>2. /\ Len(Whole(msg)) = Size(msg.head) + Len(Payload(msg))
        /\ Size(msg.head) \in Nat /\ Len(Payload(msg)) \in Nat
    BY <2>1, WholeSize, Zenon
  <2> QED
    BY <1>5, <2>2, Zenon
<1>13. hasLength => n # 0 /\ Size(head2) = Size(head) + 2
  BY <1>6, <1>7, <1>9, <1>11 DEF Size, PadAt, IdsAt
<1>14. n \in {0, Len(Whole(msg))}
  BY <1>9, <1>10, <1>11, <1>12, <1>13
<1>15. n \in Word
  <2>1. n <= MaxDatagram
    <3>1. Len(Whole(msg)) <= MaxDatagram
      BY <1>1, <1>10, Zenon DEF M
    <3> QED
      BY <1>14, <3>1 DEF MaxDatagram
  <2>2. n \in Int /\ ~(n < 0) /\ ~(n > 65535)
    BY <1>11, <2>1, SMT DEF MaxDatagram
  <2> QED
    BY <2>2, InWord, SMT
<1>15a. claim \in Word
  <2>1. claim \in {0} \cup Lengths \cup {n}
    BY <1>1a, <1>3a DEF Claims
  <2>2. Lengths \subseteq Word
    BY L2TPAssumption, Zenon
  <2> QED
    BY <1>2, <1>15, <2>1, <2>2
<1>16. Meant(msg)
  <2>1. msg \in [head : Header, avps : Seq(AVP), claim : Word, cut : Cuts]
    BY <1>2, <1>4, <1>8, <1>15, <1>15a
  <2>2. cut <= Len(Whole(msg))
    BY <1>1, <1>10, Zenon DEF M
  <2> QED
    BY <1>5, <1>7, <1>14, <2>1, <2>2 DEF Meant
<1> QED
  BY <1>16 DEF Init

-----------------------------------------------------------------------------
(* The invariant, and the theorems.                                        *)

Outcome == Result(Datagram(msg)).res
Answer == encode(Response(msg.head))

Counts ==
  /\ inbox \in Nat /\ copies \in 0 .. MaxCopies /\ tasks \in Nat /\ inbox + tasks <= copies
  /\ server \in {"serving", "returned", "crashed"}
Answers ==
  /\ replies \in Seq({Answer})
  /\ replies # <<>> => Outcome = "reply"
  /\ server = "crashed" => Outcome = "panic"
  /\ (server = "serving" /\ Outcome = "reply") => Len(replies) = copies - inbox - tasks
IInv == Meant(msg) /\ Counts /\ Answers

(* The invariant holds at first,                                           *)
LEMMA InitIInv == Init => IInv
<1> SUFFICES ASSUME Init PROVE IInv
  OBVIOUS
<1>1. Meant(msg) /\ inbox = 0 /\ copies = 0 /\ tasks = 0 /\ replies = <<>>
      /\ server = "serving"
  BY InitMeant
<1>2. Counts
  BY <1>1, L2TPAssumption DEF Counts
<1>3. Answers
  BY <1>1 DEF Answers
<1> QED
  BY <1>1, <1>2, <1>3 DEF IInv

(* is kept by every step,                                                  *)
LEMMA StepIInv == IInv /\ [Next]_vars => IInv'
<1> SUFFICES ASSUME IInv, [Next]_vars PROVE IInv'
  OBVIOUS
<1>1. msg' = msg
  BY DEF Next, vars, Arrive, ReadFrom, ReadErr, handle
<1>2. Meant(msg)' /\ Outcome' = Outcome /\ Answer' = Answer
  BY <1>1, Zenon DEF IInv, Outcome, Answer
<1>3. Counts'
  <2>1. CASE Arrive
    BY <2>1, L2TPAssumption DEF IInv, Counts, Arrive
  <2>2. CASE ReadFrom
    BY <2>2, L2TPAssumption DEF IInv, Counts, ReadFrom
  <2>3. CASE ReadErr
    BY <2>3, L2TPAssumption DEF IInv, Counts, ReadErr
  <2>4. CASE handle
    BY <2>4, L2TPAssumption DEF IInv, Counts, handle
  <2>5. CASE UNCHANGED vars
    BY <2>5 DEF IInv, Counts, vars
  <2> QED
    BY <2>1, <2>2, <2>3, <2>4, <2>5 DEF Next
<1>4. Answers'
  <2>0. inbox \in Int /\ copies \in Int /\ tasks \in Int
    BY L2TPAssumption DEF IInv, Counts
  <2>1. CASE Arrive
    BY <1>2, <2>0, <2>1 DEF IInv, Answers, Arrive
  <2>2. CASE ReadFrom
    BY <1>2, <2>0, <2>2 DEF IInv, Answers, ReadFrom
  <2>3. CASE ReadErr
    BY <1>2, <2>3 DEF IInv, Answers, ReadErr
  <2>4. CASE handle
    <3> DEFINE result == Result(Datagram(msg))
    <3>1. /\ tasks' = tasks - 1 /\ copies' = copies /\ inbox' = inbox /\ server # "crashed"
          /\ server' = IF result.res = "panic" THEN "crashed" ELSE server
          /\ replies' = IF result.res = "reply" /\ server = "serving"
                        THEN Append(replies, result.reply) ELSE replies
      BY <2>4 DEF handle
    <3>2. result.res = Outcome
      BY DEF Outcome
    <3>3. Outcome = "reply" => result.reply = Answer
      BY ReplyMeans DEF IInv, Outcome, Answer
    <3> HIDE DEF result
    <3>4. /\ replies \in Seq({Answer}) /\ (replies # <<>> => Outcome = "reply")
          /\ (server = "serving" /\ Outcome = "reply") => Len(replies) = copies - inbox - tasks
      BY DEF IInv, Answers
    <3>5. CASE Outcome = "reply" /\ server = "serving"
      <4>1. replies' = Append(replies, Answer) /\ server' = "serving"
        BY <3>1, <3>2, <3>3, <3>5
      <4>2. replies' \in Seq({Answer}) /\ Len(replies') = Len(replies) + 1
        BY <3>4, <4>1
      <4>3. Len(replies') = copies' - inbox' - tasks'
        BY <2>0, <3>1, <3>4, <3>5, <4>2
      <4> QED
        BY <1>2, <3>5, <4>1, <4>2, <4>3 DEF Answers
    <3>6. CASE ~(Outcome = "reply" /\ server = "serving")
      <4>1. replies' = replies
        BY <3>1, <3>2, <3>6
      <4>2. server' = "crashed" => Outcome = "panic"
        BY <3>1, <3>2
      <4>3. ~(server' = "serving" /\ Outcome = "reply")
        BY <3>1, <3>2, <3>6
      <4> QED
        BY <1>2, <3>4, <4>1, <4>2, <4>3 DEF Answers
    <3> QED
      BY <3>5, <3>6
  <2>5. CASE UNCHANGED vars
    BY <1>2, <2>5 DEF IInv, Answers, vars
  <2> QED
    BY <2>1, <2>2, <2>3, <2>4, <2>5 DEF Next
<1> QED
  BY <1>2, <1>3, <1>4 DEF IInv

(* and so holds always.                                                    *)
LEMMA SpecIInv == Spec => []IInv
<1> QED
  BY InitIInv, StepIInv, PTL DEF Spec

(* What a peer sends and what handle answers are bytes, whatever the lists *)
(* of AVPs and the numbers, and no more goroutines handle messages than    *)
(* have arrived.                                                           *)
THEOREM TypesAreKept == Spec => []TypeOK
<1>1. IInv => TypeOK
  <2> SUFFICES ASSUME IInv PROVE TypeOK
    OBVIOUS
  <2>1. msg \in [head : Header, avps : Seq(AVP), claim : Word, cut : Cuts]
    BY DEF IInv, Meant
  <2>2. Datagram(msg) \in Seq(Byte)
    BY DatagramReads DEF IInv
  <2>3. inbox \in 0 .. MaxCopies /\ copies \in 0 .. MaxCopies /\ tasks \in 0 .. MaxCopies
        /\ server \in {"serving", "returned", "crashed"}
    BY L2TPAssumption DEF IInv, Counts
  <2>4. replies \in Seq(Seq(Byte))
    <3>1. msg.head \in Header
      BY MeantTypes DEF IInv
    <3>2. Answer \in Seq(Byte)
      BY <3>1, ResponseReads DEF Answer
    <3>3. replies \in Seq({Answer})
      BY DEF IInv, Answers
    <3> HIDE DEF Answer
    <3> QED
      BY <3>2, <3>3
  <2> QED
    BY <2>1, <2>2, <2>3, <2>4 DEF TypeOK
<1> QED
  BY <1>1, SpecIInv, PTL

(* parseHeader and parseAVP read what header.encode and avpPayload.encode  *)
(* write: for every header without offset and AVPs of up to 1017 bytes,    *)
(* with a Length and without.                                              *)
THEOREM MessagesReadBack == Spec => []RoundTrip
<1>1. IInv => RoundTrip
  <2> SUFFICES ASSUME IInv, Legal(msg), msg.cut = 0
               PROVE  LET parsed == parseHeader(Datagram(msg)) IN
                      /\ parsed = [res |-> "ok", head |-> msg.head, payload |-> Payload(msg)]
                      /\ parseAVPs(parsed.payload) = [ok |-> TRUE, avps |-> msg.avps]
    BY DEF RoundTrip
  <2> DEFINE parsed == parseHeader(Datagram(msg))
  <2>1. parsed = [res |-> "ok", head |-> msg.head, payload |-> Payload(msg)]
        /\ parseAVPs(Payload(msg)) = [ok |-> TRUE, avps |-> msg.avps]
    BY LegalReads DEF IInv
  <2> HIDE DEF parsed
  <2>2. parsed.payload = Payload(msg)
    BY <2>1
  <2> QED
    BY <2>1, <2>2, Zenon DEF parsed
<1> QED
  BY <1>1, SpecIInv, PTL

(* handle answers legal control messages, once for each copy, with a       *)
(* control message of the same tunnel and session; and it answers no data  *)
(* and nothing that ends with its header.                                  *)
THEOREM AnswersAreRight == Spec => []RepliesMatch
<1>1. IInv => RepliesMatch
  <2> SUFFICES ASSUME IInv PROVE RepliesMatch
    OBVIOUS
  <2>0. Meant(msg) /\ Answers /\ msg.head \in Header
    BY MeantTypes DEF IInv
  <2>1. (server = "serving" /\ Legal(msg) /\ msg.head.isControl /\ msg.avps # <<>>
           /\ msg.cut = 0) => Len(replies) = copies - inbox - tasks
    BY <2>0, LegalAnswered DEF Answers, Outcome
  <2>2. ASSUME NEW r \in ToSet(replies)
        PROVE  LET parsed == parseHeader(r) IN
               /\ msg.head.isControl /\ End(msg) > HeaderEnd(msg)
               /\ parsed.res = "ok" /\ parsed.head.isControl /\ parsed.payload = <<>>
               /\ parsed.head.tunnelID = msg.head.tunnelID
               /\ parsed.head.sessionID = msg.head.sessionID
    <3>1. replies \in Seq({Answer}) /\ (replies # <<>> => Outcome = "reply")
      BY <2>0 DEF Answers
    <3>2. r = Answer /\ replies # <<>>
      <4> HIDE DEF Answer
      <4> QED
        BY <3>1 DEF ToSet
    <3>3. msg.head.isControl /\ End(msg) > HeaderEnd(msg)
      BY <2>0, <3>1, <3>2, ReplyMeans DEF Outcome
    <3> DEFINE parsed == parseHeader(r)
               h == Response(msg.head)
    <3>4. parsed = [res |-> "ok", head |-> h, payload |-> <<>>]
      BY <2>0, <3>2, ResponseReads DEF Answer
    <3>5. h.tunnelID = msg.head.tunnelID /\ h.sessionID = msg.head.sessionID
      BY <2>0, ResponseReads
    <3>6. h.isControl
      BY DEF Response
    <3> HIDE DEF parsed, h
    <3>7. parsed.res = "ok" /\ parsed.payload = <<>> /\ parsed.head = h
      BY <3>4
    <3> QED
      BY <3>3, <3>5, <3>6, <3>7 DEF parsed
  <2> QED
    BY <2>1, <2>2 DEF RepliesMatch
<1> QED
  BY <1>1, SpecIInv, PTL

(* Whatever a peer writes into the Length: only a header with an offset or *)
(* one that is not whole, and a control message that ends with its header, *)
(* end the process; and no message does, or is answered, of which less has *)
(* arrived than its Length says.                                           *)
THEOREM ProcessSurvives == Spec => []Survives
<1>1. IInv => Survives
  <2> SUFFICES ASSUME IInv PROVE Survives
    OBVIOUS
  <2>0. Meant(msg) /\ Answers
    BY DEF IInv
  <2>1. ASSUME server = "crashed"
        PROVE  /\ \/ msg.head.offset > 0
                  \/ End(msg) < HeaderEnd(msg)
                  \/ msg.head.isControl /\ End(msg) = HeaderEnd(msg)
               /\ ~(End(msg) > Len(Datagram(msg)))
    BY <2>0, <2>1, PanicMeans DEF Answers, Outcome
  <2>2. ASSUME End(msg) > Len(Datagram(msg)) PROVE replies = <<>>
    <3>1. Outcome = "err"
      BY <2>0, <2>2, ShortRefused DEF Outcome
    <3> QED
      BY <2>0, <3>1 DEF Answers
  <2> QED
    BY <2>1, <2>2 DEF Survives
<1> QED
  BY <1>1, SpecIInv, PTL

=============================================================================
