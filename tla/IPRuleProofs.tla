---------------------------- MODULE IPRuleProofs ----------------------------
(***************************************************************************)
(* Proofs about IPRule: for rule sets, rule files and hosts of any size,   *)
(* what the loops of Contains, UnmarshalText and dialer compute.           *)
(*                                                                         *)
(* The loops are folds.  Their value is found by induction, which is       *)
(* stated here for a set of numbers, as the provers need it.               *)
(***************************************************************************)
EXTENDS IPRule, WellFoundedInduction, TLAPS

-----------------------------------------------------------------------------
(* Induction.                                                              *)

LEMMA LeastNumber ==
  ASSUME NEW T \in SUBSET Nat, T # {}
  PROVE  \E n \in T : \A m \in T : n <= m
<1> DEFINE R == OpToRel(<, Nat)
<1>1. IsWellFoundedOn(R, Nat)
  BY NatLessThanWellFounded
<1>2. \A m, n \in Nat : <<m, n>> \in R <=> m < n
  BY DEF OpToRel
<1> HIDE DEF R
<1>3. PICK n \in T : \A m \in T : ~(<<m, n>> \in R)
  BY <1>1, WFMin
<1>4. \A m \in T : m \in Nat /\ n \in Nat /\ ~(m < n)
  BY <1>2, <1>3
<1>5. \A m \in T : n <= m
  BY <1>4
<1> QED
  BY <1>5

LEMMA Induction ==
  ASSUME NEW S, 0 \in S, \A n \in Nat : n \in S => n + 1 \in S
  PROVE  \A n \in Nat : n \in S
<1> SUFFICES ASSUME NEW x \in Nat, x \notin S PROVE FALSE
  OBVIOUS
<1> DEFINE T == {n \in Nat : n \notin S}
<1>1. PICK n \in T : \A m \in T : n <= m
  BY LeastNumber
<1>2. n \in Nat /\ n # 0 /\ n \notin S
  BY <1>1
<1>3. n - 1 \in Nat /\ n - 1 \notin T
  BY <1>1, <1>2
<1> QED
  BY <1>2, <1>3

(* The largest of the first numbers.                                       *)
LEMMA MaxOfSet ==
  ASSUME NEW n \in Nat, NEW s, s \subseteq 1 .. n + 1, n + 1 \in s
  PROVE  Max(s) = n + 1
<1>1. n + 1 \in s /\ \A y \in s : n + 1 >= y
  OBVIOUS
<1>2. \A x \in s : (\A y \in s : x >= y) => x = n + 1
  OBVIOUS
<1> QED
  BY <1>1, <1>2 DEF Max

LEMMA MaxIn ==
  ASSUME NEW n \in Nat, NEW s \in SUBSET (1 .. n), s # {}
  PROVE  Max(s) \in s
<1> DEFINE T == {m \in Nat : \A y \in s : m >= y}
<1>1. n \in T
  OBVIOUS
<1>2. PICK m \in T : \A k \in T : m <= k
  BY <1>1, LeastNumber
<1>3. m \in s
  <2> SUFFICES ASSUME m \notin s PROVE FALSE
    OBVIOUS
  <2>1. \A y \in s : y \in Nat /\ y <= m - 1
    BY <1>2
  <2>2. m - 1 \in Nat
    <3>1. PICK y \in s : TRUE
      OBVIOUS
    <3>2. y \in 1 .. n /\ y <= m - 1 /\ m \in Nat
      BY <1>2, <2>1
    <3> QED
      BY <3>2
  <2> QED
    BY <1>2, <2>1, <2>2
<1> QED
  BY <1>2, <1>3 DEF Max

(* A fold takes its elements out of a set of positions, the last first; G  *)
(* is the body of the loop at each position.  There is such a function.    *)
FoldOf(h, base, G, n) ==
  h = [s \in SUBSET (1 .. n) |->
         IF s = {} THEN base ELSE G[Max(s)][h[s \ {Max(s)}]]]

LEMMA FoldExists ==
  ASSUME NEW V, NEW base \in V, NEW n \in Nat, NEW G \in [1 .. n -> [V -> V]]
  PROVE  \E h \in [SUBSET (1 .. n) -> V] : FoldOf(h, base, G, n)
<1> DEFINE Some(m) == \E h \in [SUBSET (1 .. m) -> V] : FoldOf(h, base, G, m)
           S == {m \in Nat : m <= n => Some(m)}
<1> HIDE DEF Some
<1>0. \A m \in Nat : m \in S <=> (m <= n => Some(m))
  OBVIOUS
<1> HIDE DEF S
<1>1. 0 \in S
  <2> DEFINE h == [s \in SUBSET (1 .. 0) |-> base]
  <2>1. \A s \in SUBSET (1 .. 0) : s = {}
    OBVIOUS
  <2>2. h \in [SUBSET (1 .. 0) -> V] /\ FoldOf(h, base, G, 0)
    BY <2>1 DEF FoldOf
  <2> QED
    BY <1>0, <2>2 DEF Some
<1>2. ASSUME NEW m \in Nat, m \in S PROVE m + 1 \in S
  <2> SUFFICES ASSUME m + 1 <= n
               PROVE  Some(m + 1)
    BY <1>0
  <2>0. m <= n
    OBVIOUS
  <2>1. PICK h \in [SUBSET (1 .. m) -> V] : FoldOf(h, base, G, m)
    BY <1>0, <1>2, <2>0 DEF Some
  <2> DEFINE g == [s \in SUBSET (1 .. m + 1) |->
                     IF m + 1 \in s THEN G[m + 1][h[s \ {m + 1}]] ELSE h[s]]
  <2>2. \A s \in SUBSET (1 .. m + 1) : s \ {m + 1} \in SUBSET (1 .. m)
    OBVIOUS
  <2>3. \A s \in SUBSET (1 .. m + 1) : m + 1 \notin s => s \in SUBSET (1 .. m)
    OBVIOUS
  <2>4. m + 1 \in 1 .. n
    OBVIOUS
  <2>5. g \in [SUBSET (1 .. m + 1) -> V]
    BY <2>2, <2>3, <2>4
  <2>6. \A s \in SUBSET (1 .. m) : s \in SUBSET (1 .. m + 1) /\ m + 1 \notin s /\ g[s] = h[s]
    OBVIOUS
  <2>7. ASSUME NEW s \in SUBSET (1 .. m + 1)
        PROVE  g[s] = IF s = {} THEN base ELSE G[Max(s)][g[s \ {Max(s)}]]
    <3>1. CASE m + 1 \in s
      BY <2>2, <2>6, <3>1, MaxOfSet
    <3>2. CASE s = {}
      BY <2>1, <2>6, <3>2 DEF FoldOf
    <3>3. CASE m + 1 \notin s /\ s # {}
      <4>1. s \in SUBSET (1 .. m) /\ s \ {Max(s)} \in SUBSET (1 .. m)
        BY <2>3, <3>3
      <4>2. h[s] = G[Max(s)][h[s \ {Max(s)}]]
        BY <2>1, <3>3, <4>1 DEF FoldOf
      <4> QED
        BY <2>6, <3>3, <4>1, <4>2
    <3> QED
      BY <3>1, <3>2, <3>3
  <2>8. FoldOf(g, base, G, m + 1)
    <3> HIDE DEF g
    <3> QED
      BY <2>5, <2>7 DEF FoldOf
  <2> QED
    BY <2>5, <2>8 DEF Some
<1>3. n \in S
  BY <1>1, <1>2, Induction
<1>4. Some(n)
  BY <1>0, <1>3
<1> QED
  BY <1>4 DEF Some

(* The sets of positions that a fold over the whole sequence goes through. *)
LEMMA Positions ==
  ASSUME NEW n \in Nat
  PROVE  /\ 1 .. 0 = {} /\ 1 .. n \in SUBSET (1 .. n)
         /\ \A i \in 1 .. n :
              /\ 1 .. i \in SUBSET (1 .. n) /\ 1 .. i # {} /\ Max(1 .. i) = i
              /\ (1 .. i) \ {i} = 1 .. (i - 1)
<1>1. ASSUME NEW i \in 1 .. n
      PROVE  /\ 1 .. i \in SUBSET (1 .. n) /\ 1 .. i # {} /\ Max(1 .. i) = i
             /\ (1 .. i) \ {i} = 1 .. (i - 1)
  <2>1. i \in Nat /\ i - 1 \in Nat /\ i \in 1 .. i /\ 1 .. i \subseteq 1 .. n
    OBVIOUS
  <2>2. Max(1 .. i) = i
    <3>1. i = (i - 1) + 1
      BY <2>1
    <3> QED
      BY <2>1, <3>1, MaxOfSet
  <2> QED
    BY <2>1, <2>2
<1> QED
  BY <1>1

-----------------------------------------------------------------------------
(* Contains.                                                               *)

Found == {"no", "yes", "excluded"}

LEMMA BodyType ==
  ASSUME NEW ip, NEW r, NEW found \in Found
  PROVE  ContainsBody(ip, found, r) \in Found
BY DEF ContainsBody, Found

(* The values that found takes in the loop.                                *)
LEMMA ContainsLoop ==
  ASSUME NEW T, NEW set \in Seq(T), NEW ip
  PROVE  \E f \in [0 .. Len(set) -> Found] :
           /\ f[0] = "no"
           /\ \A i \in 1 .. Len(set) : f[i] = ContainsBody(ip, f[i - 1], set[i])
           /\ SetContains(set, ip) <=> f[Len(set)] = "yes"
<1> DEFINE n == Len(set)
           G == [i \in 1 .. n |-> [v \in Found |-> ContainsBody(ip, v, set[i])]]
           Loop(h) == h = [s \in SUBSET (1 .. n) |->
             IF s = {} THEN "no" ELSE ContainsBody(ip, h[s \ {Max(s)}], set[Max(s)])]
           iter == CHOOSE h : Loop(h)
<1>0. n \in Nat /\ DOMAIN set = 1 .. n
  OBVIOUS
<1>1. G \in [1 .. n -> [Found -> Found]] /\ "no" \in Found
  BY BodyType DEF Found
<1>2. PICK g \in [SUBSET (1 .. n) -> Found] : FoldOf(g, "no", G, n)
  BY <1>0, <1>1, FoldExists
<1>3. Loop(g)
  <2>1. ASSUME NEW s \in SUBSET (1 .. n)
        PROVE  g[s] = IF s = {} THEN "no" ELSE ContainsBody(ip, g[s \ {Max(s)}], set[Max(s)])
    <3>1. CASE s = {}
      BY <1>2, <3>1 DEF FoldOf
    <3>2. CASE s # {}
      <4>1. Max(s) \in 1 .. n
        BY <1>0, <3>2, MaxIn
      <4> QED
        BY <1>2, <3>2, <4>1 DEF FoldOf
    <3> QED
      BY <3>1, <3>2
  <2> QED
    BY <1>2, <2>1
<1>4. Loop(iter)
  BY <1>3
<1>5. SetContains(set, ip) <=> iter[1 .. n] = "yes"
  BY <1>0 DEF SetContains, FoldLeft, MapThenFoldSet
<1> HIDE DEF iter
<1> DEFINE f == [i \in 0 .. n |-> iter[1 .. i]]
<1>6. f[0] = "no" /\ \A i \in 1 .. n : f[i] = ContainsBody(ip, f[i - 1], set[i])
  <2>1. f[0] = iter[1 .. 0] /\ iter[1 .. 0] = "no"
    BY <1>0, <1>4, Positions
  <2>2. ASSUME NEW i \in 1 .. n
        PROVE  f[i] = ContainsBody(ip, f[i - 1], set[i])
    <3>1. f[i] = iter[1 .. i] /\ f[i - 1] = iter[1 .. (i - 1)]
      BY <1>0
    <3>2. /\ 1 .. i \in SUBSET (1 .. n) /\ 1 .. i # {} /\ Max(1 .. i) = i
          /\ (1 .. i) \ {i} = 1 .. (i - 1)
      BY <1>0, Positions
    <3>3. iter[1 .. i] = ContainsBody(ip, iter[(1 .. i) \ {Max(1 .. i)}], set[Max(1 .. i)])
      BY <1>4, <3>2
    <3> QED
      BY <3>1, <3>2, <3>3
  <2> QED
    BY <2>1, <2>2
<1>6a. f[n] = iter[1 .. n] /\ f = [i \in 0 .. n |-> f[i]]
  BY <1>0
<1> HIDE DEF f
<1>7. \A i \in 0 .. n : f[i] \in Found
  <2> DEFINE S == {i \in Nat : i <= n => f[i] \in Found}
  <2>1. 0 \in S
    BY <1>6 DEF Found
  <2>2. ASSUME NEW i \in Nat, i \in S PROVE i + 1 \in S
    BY <1>0, <1>6, <2>2, BodyType
  <2> HIDE DEF S
  <2>3. \A i \in Nat : i \in S
    BY <2>1, <2>2, Induction
  <2> QED
    BY <2>3 DEF S
<1>8. f \in [0 .. n -> Found]
  BY <1>6a, <1>7
<1> QED
  BY <1>5, <1>6, <1>6a, <1>8

(* What Contains answers, whatever the order of the rules: some include    *)
(* rule contains the address, and no exclude rule contains it, which is to *)
(* say that it is inside the prefix of every exclude rule.                 *)
Means(R, ip) ==
  /\ \E r \in R : ~r.not /\ RuleContains(r, ip)
  /\ \A r \in R : r.not => ~RuleContains(r, ip)

LEMMA ContainsMeans ==
  ASSUME NEW set \in Seq(Rule), NEW ip
  PROVE  SetContains(set, ip) <=> Means(ToSet(set), ip)
<1> DEFINE n == Len(set)
           In(j) == RuleContains(set[j], ip)
           Out(i) == \E j \in 1 .. i : set[j].not /\ In(j)
           Yes(i) == \E j \in 1 .. i : ~set[j].not /\ In(j)
<1>1. PICK f \in [0 .. n -> Found] :
        /\ f[0] = "no"
        /\ \A i \in 1 .. n : f[i] = ContainsBody(ip, f[i - 1], set[i])
        /\ SetContains(set, ip) <=> f[n] = "yes"
  BY ContainsLoop
<1>2. n \in Nat /\ \A i \in 1 .. n : set[i] \in Rule /\ set[i].not \in BOOLEAN
  <2>1. n \in Nat /\ \A i \in 1 .. n : set[i] \in Rule
    OBVIOUS
  <2>2. \A r \in Rule : r.not \in BOOLEAN
    BY DEF Rule
  <2> QED
    BY <2>1, <2>2
<1> DEFINE S == {i \in Nat : i <= n =>
                   /\ f[i] = "excluded" <=> Out(i)
                   /\ f[i] = "yes" <=> ~Out(i) /\ Yes(i)}
<1>3. 0 \in S
  BY <1>1
<1>4. ASSUME NEW i \in Nat, i \in S PROVE i + 1 \in S
  <2> SUFFICES ASSUME i + 1 <= n
               PROVE  /\ f[i + 1] = "excluded" <=> Out(i + 1)
                      /\ f[i + 1] = "yes" <=> ~Out(i + 1) /\ Yes(i + 1)
    OBVIOUS
  <2>1. /\ f[i] = "excluded" <=> Out(i)
        /\ f[i] = "yes" <=> ~Out(i) /\ Yes(i)
        /\ f[i] \in {"no", "yes", "excluded"}
    BY <1>2, <1>4 DEF Found
  <2>2. /\ Out(i + 1) <=> Out(i) \/ (set[i + 1].not /\ In(i + 1))
        /\ Yes(i + 1) <=> Yes(i) \/ (~set[i + 1].not /\ In(i + 1))
    <3>1. 1 .. i + 1 = (1 .. i) \cup {i + 1}
      OBVIOUS
    <3> HIDE DEF In
    <3> QED
      BY <3>1
  <2>3. f[i + 1] = ContainsBody(ip, f[i], set[i + 1]) /\ set[i + 1].not \in BOOLEAN
    BY <1>1, <1>2
  <2> HIDE DEF Out, Yes
  <2> QED
    BY <2>1, <2>2, <2>3 DEF ContainsBody
<1>5. n \in S
  <2> HIDE DEF S
  <2> QED
    BY <1>2, <1>3, <1>4, Induction
<1>6. f[n] = "yes" <=> ~Out(n) /\ Yes(n)
  BY <1>2, <1>5
<1>7. ToSet(set) = {set[j] : j \in 1 .. n}
  BY DEF ToSet
<1> QED
  BY <1>1, <1>6, <1>7 DEF Means

-----------------------------------------------------------------------------
(* UnmarshalText.                                                          *)

(* A line of a text that need not be a file of this instance.              *)
AnyLine ==
  [t : {"rule"}, not : BOOLEAN, addr : Addr, bits : {<<>>} \cup {<<n>> : n \in Nat}]
    \cup {[t |-> "ignored"], [t |-> "bad"]}

LEMMA LineIsLine == Line \subseteq AnyLine
BY TextAssumption DEF Line, RuleLine, AnyLine

LEMMA AddrFacts ==
  ASSUME NEW a \in Addr
  PROVE  a.fam \in {4, 6} /\ BitLen(a.fam) \in 0 .. W6
BY WidthAssumption DEF Addr, BitLen

LEMMA RuleOfLine ==
  ASSUME NEW l \in AnyLine, Parses(l)
  PROVE  UnmarshalRule(l) \in Rule
<1>1. l \in [t : {"rule"}, not : BOOLEAN, addr : Addr, bits : {<<>>} \cup {<<n>> : n \in Nat}]
  BY DEF Parses, AnyLine
<1>2. l.not \in BOOLEAN /\ l.addr \in Addr
  BY <1>1
<1> DEFINE b == IF l.bits = <<>> THEN BitLen(l.addr.fam) ELSE l.bits[1]
<1>3. b \in 0 .. W6 /\ b <= BitLen(l.addr.fam)
  <2>1. CASE l.bits = <<>>
    BY <1>2, <2>1, AddrFacts
  <2>2. CASE l.bits # <<>>
    <3>1. PICK n \in Nat : l.bits = <<n>>
      BY <1>1, <2>2
    <3>2. l.bits[1] = n /\ n <= BitLen(l.addr.fam)
      BY <2>2, <3>1 DEF Parses
    <3> QED
      BY <1>2, <2>2, <3>1, <3>2, AddrFacts, WidthAssumption
  <2> QED
    BY <2>1, <2>2
<1> HIDE DEF b
<1>4. [addr |-> l.addr, bits |-> b] \in Prefix
  BY <1>2, <1>3 DEF Prefix
<1> QED
  BY <1>2, <1>4 DEF UnmarshalRule, Rule, b

(* The body of the loop.                                                   *)
ReadLine(set, l) == IF Parses(l) THEN Append(set, UnmarshalRule(l)) ELSE set

LEMMA ReadLineType ==
  ASSUME NEW set \in Seq(Rule), NEW l \in AnyLine
  PROVE  ReadLine(set, l) \in Seq(Rule)
BY RuleOfLine DEF ReadLine

(* The values that the set takes in the loop.                              *)
LEMMA ReadLoop ==
  ASSUME NEW text \in Seq(AnyLine)
  PROVE  \E f \in [0 .. Len(text) -> Seq(Rule)] :
           /\ f[0] = <<>>
           /\ \A i \in 1 .. Len(text) : f[i] = ReadLine(f[i - 1], text[i])
           /\ UnmarshalText(text) = f[Len(text)]
<1> DEFINE n == Len(text)
           G == [i \in 1 .. n |-> [v \in Seq(Rule) |-> ReadLine(v, text[i])]]
           Loop(h) == h = [s \in SUBSET (1 .. n) |->
             IF s = {} THEN <<>> ELSE ReadLine(h[s \ {Max(s)}], text[Max(s)])]
           iter == CHOOSE h : Loop(h)
<1>0. n \in Nat /\ DOMAIN text = 1 .. n /\ \A i \in 1 .. n : text[i] \in AnyLine
  OBVIOUS
<1>1. G \in [1 .. n -> [Seq(Rule) -> Seq(Rule)]] /\ <<>> \in Seq(Rule)
  BY <1>0, ReadLineType
<1>2. PICK g \in [SUBSET (1 .. n) -> Seq(Rule)] : FoldOf(g, <<>>, G, n)
  BY <1>0, <1>1, FoldExists
<1>3. Loop(g)
  <2>1. ASSUME NEW s \in SUBSET (1 .. n)
        PROVE  g[s] = IF s = {} THEN <<>> ELSE ReadLine(g[s \ {Max(s)}], text[Max(s)])
    <3>1. CASE s = {}
      BY <1>2, <3>1 DEF FoldOf
    <3>2. CASE s # {}
      <4>1. Max(s) \in 1 .. n
        BY <1>0, <3>2, MaxIn
      <4> QED
        BY <1>2, <3>2, <4>1 DEF FoldOf
    <3> QED
      BY <3>1, <3>2
  <2> QED
    BY <1>2, <2>1
<1>4. Loop(iter)
  BY <1>3
<1>5. UnmarshalText(text) = iter[1 .. n]
  BY <1>0 DEF UnmarshalText, FoldLeft, MapThenFoldSet, ReadLine
<1> HIDE DEF iter
<1> DEFINE f == [i \in 0 .. n |-> iter[1 .. i]]
<1>6. f[0] = <<>> /\ \A i \in 1 .. n : f[i] = ReadLine(f[i - 1], text[i])
  <2>1. f[0] = iter[1 .. 0] /\ iter[1 .. 0] = <<>>
    BY <1>0, <1>4, Positions
  <2>2. ASSUME NEW i \in 1 .. n
        PROVE  f[i] = ReadLine(f[i - 1], text[i])
    <3>1. f[i] = iter[1 .. i] /\ f[i - 1] = iter[1 .. (i - 1)]
      BY <1>0
    <3>2. /\ 1 .. i \in SUBSET (1 .. n) /\ 1 .. i # {} /\ Max(1 .. i) = i
          /\ (1 .. i) \ {i} = 1 .. (i - 1)
      BY <1>0, Positions
    <3>3. iter[1 .. i] = ReadLine(iter[(1 .. i) \ {Max(1 .. i)}], text[Max(1 .. i)])
      BY <1>4, <3>2
    <3> QED
      BY <3>1, <3>2, <3>3
  <2> QED
    BY <2>1, <2>2
<1>7. f[n] = iter[1 .. n] /\ f = [i \in 0 .. n |-> f[i]]
  BY <1>0
<1> HIDE DEF f
<1>8. \A i \in 0 .. n : f[i] \in Seq(Rule)
  <2> DEFINE S == {i \in Nat : i <= n => f[i] \in Seq(Rule)}
  <2>1. 0 \in S
    <3>1. f[0] \in Seq(Rule)
      BY <1>1, <1>6
    <3> QED
      BY <3>1
  <2>2. ASSUME NEW i \in Nat, i \in S PROVE i + 1 \in S
    <3> SUFFICES ASSUME i + 1 <= n PROVE f[i + 1] \in Seq(Rule)
      OBVIOUS
    <3>1. f[i] \in Seq(Rule) /\ i + 1 \in 1 .. n /\ (i + 1) - 1 = i
      BY <1>0, <2>2
    <3>2. f[i + 1] = ReadLine(f[i], text[i + 1]) /\ text[i + 1] \in AnyLine
      BY <1>0, <1>6, <3>1
    <3> QED
      BY <3>1, <3>2, ReadLineType
  <2> HIDE DEF S
  <2>3. \A i \in Nat : i \in S
    BY <2>1, <2>2, Induction
  <2> QED
    BY <2>3 DEF S
<1> QED
  BY <1>5, <1>6, <1>7, <1>8

LEMMA UnmarshalType ==
  ASSUME NEW text \in Seq(AnyLine)
  PROVE  UnmarshalText(text) \in Seq(Rule)
<1>1. PICK f \in [0 .. Len(text) -> Seq(Rule)] : UnmarshalText(text) = f[Len(text)]
  BY ReadLoop
<1>2. Len(text) \in 0 .. Len(text)
  OBVIOUS
<1> QED
  BY <1>1, <1>2

(* A rule reads back from its own text.                                    *)
LEMMA RuleRoundTrip ==
  ASSUME NEW r \in Rule
  PROVE  /\ MarshalRule(r) \in AnyLine
         /\ Parses(MarshalRule(r)) /\ UnmarshalRule(MarshalRule(r)) = r
<1>1. /\ r = [prefix |-> r.prefix, not |-> r.not] /\ r.not \in BOOLEAN
      /\ r.prefix \in Prefix
  BY DEF Rule
<1>2. /\ r.prefix = [addr |-> r.prefix.addr, bits |-> r.prefix.bits]
      /\ r.prefix.addr \in Addr /\ r.prefix.bits \in Nat
      /\ r.prefix.bits <= BitLen(r.prefix.addr.fam)
  BY <1>1, WidthAssumption DEF Prefix
<1> DEFINE p == r.prefix
           l == MarshalRule(r)
<1>3. CASE p.bits = BitLen(p.addr.fam)
  <2>1. l = [t |-> "rule", not |-> r.not, addr |-> p.addr, bits |-> <<>>]
    BY <1>3 DEF MarshalRule
  <2>2. l \in AnyLine /\ Parses(l)
    BY <1>1, <1>2, <2>1 DEF AnyLine, Parses
  <2>3. UnmarshalRule(l) = [not |-> r.not, prefix |-> [addr |-> p.addr, bits |-> p.bits]]
    BY <1>3, <2>1 DEF UnmarshalRule
  <2> QED
    BY <1>1, <1>2, <2>2, <2>3
<1>4. CASE p.bits # BitLen(p.addr.fam)
  <2>1. l = [t |-> "rule", not |-> r.not, addr |-> p.addr, bits |-> <<p.bits>>]
    BY <1>4 DEF MarshalRule
  <2>2. <<p.bits>> # <<>> /\ <<p.bits>>[1] = p.bits
    OBVIOUS
  <2>3. l \in AnyLine
    BY <1>1, <1>2, <2>1 DEF AnyLine
  <2>4. Parses(l)
    BY <1>2, <2>1, <2>2 DEF Parses
  <2>5. UnmarshalRule(l) = [not |-> r.not, prefix |-> [addr |-> p.addr, bits |-> p.bits]]
    BY <2>1, <2>2 DEF UnmarshalRule
  <2> QED
    BY <1>1, <1>2, <2>3, <2>4, <2>5
<1> QED
  BY <1>3, <1>4

LEMMA TextRoundTrip ==
  ASSUME NEW set \in Seq(Rule)
  PROVE  UnmarshalText(MarshalText(set)) = set
<1> DEFINE n == Len(set)
           text == MarshalText(set)
<1>1. n \in Nat /\ DOMAIN set = 1 .. n /\ \A i \in 1 .. n : set[i] \in Rule
  OBVIOUS
<1>2. text = [i \in 1 .. n |-> MarshalRule(set[i])]
  BY <1>1 DEF MarshalText
<1>3. \A i \in 1 .. n : text[i] = MarshalRule(set[i]) /\ text[i] \in AnyLine
  BY <1>1, <1>2, RuleRoundTrip
<1>4. text \in Seq(AnyLine) /\ Len(text) = n
  BY <1>1, <1>2, <1>3
<1> HIDE DEF text
<1>5. PICK f \in [0 .. n -> Seq(Rule)] :
        /\ f[0] = <<>>
        /\ \A i \in 1 .. n : f[i] = ReadLine(f[i - 1], text[i])
        /\ UnmarshalText(text) = f[n]
  BY <1>4, ReadLoop
<1>6. \A i \in 1 .. n : f[i] = Append(f[i - 1], set[i])
  <2> SUFFICES ASSUME NEW i \in 1 .. n PROVE f[i] = Append(f[i - 1], set[i])
    OBVIOUS
  <2>1. f[i] = ReadLine(f[i - 1], MarshalRule(set[i])) /\ set[i] \in Rule
    BY <1>1, <1>3, <1>5
  <2> QED
    BY <2>1, RuleRoundTrip DEF ReadLine
<1> DEFINE S == {i \in Nat : i <= n => f[i] = SubSeq(set, 1, i)}
<1>7. 0 \in S
  BY <1>5
<1>8. ASSUME NEW i \in Nat, i \in S PROVE i + 1 \in S
  <2> SUFFICES ASSUME i + 1 <= n PROVE f[i + 1] = SubSeq(set, 1, i + 1)
    OBVIOUS
  <2>1. f[i] = SubSeq(set, 1, i) /\ i + 1 \in 1 .. n /\ (i + 1) - 1 = i
    BY <1>1, <1>8
  <2>2. f[i + 1] = Append(SubSeq(set, 1, i), set[i + 1])
    BY <1>6, <2>1
  <2> QED
    BY <1>1, <2>1, <2>2
<1> HIDE DEF S
<1>9. n \in S
  BY <1>1, <1>7, <1>8, Induction
<1>10. f[n] = SubSeq(set, 1, n)
  BY <1>1, <1>9 DEF S
<1> QED
  BY <1>1, <1>5, <1>10 DEF text

-----------------------------------------------------------------------------
(* The rule set.                                                           *)

LEMMA RemoveFirstType ==
  ASSUME NEW set \in Seq(Rule), NEW r \in ToSet(set)
  PROVE  RemoveFirst(set, r) \in Seq(Rule)
<1> DEFINE I == {i \in 1 .. Len(set) : set[i] = r}
<1>1. Len(set) \in Nat /\ I # {} /\ I \in SUBSET Nat /\ I \subseteq 1 .. Len(set)
  BY DEF ToSet
<1>2. \E x \in I : \A y \in I : x =< y
  BY <1>1, LeastNumber
<1>3. Min(I) \in I
  <2> HIDE DEF I
  <2> QED
    BY <1>2 DEF Min
<1>4. SelectInSeq(set, LAMBDA v : v = r) = Min(I)
  BY <1>1 DEF SelectInSeq
<1>5. RemoveFirst(set, r) = RemoveAt(set, Min(I))
  BY <1>1, <1>4 DEF RemoveFirst
<1>6. \A i \in 1 .. Len(set) : RemoveAt(set, i) \in Seq(Rule)
  <2> SUFFICES ASSUME NEW i \in 1 .. Len(set) PROVE RemoveAt(set, i) \in Seq(Rule)
    OBVIOUS
  <2>1. SubSeq(set, 1, i - 1) \in Seq(Rule) /\ SubSeq(set, i + 1, Len(set)) \in Seq(Rule)
    OBVIOUS
  <2> QED
    BY <2>1 DEF RemoveAt
<1> HIDE DEF I
<1>7. Min(I) \in 1 .. Len(set)
  BY <1>1, <1>3
<1> QED
  BY <1>5, <1>6, <1>7

IInv == rules \in Seq(Rule)

(* The rules of a set are rules, whatever is added, removed or read from a *)
(* file (Add, Remove, UnmarshalText).                                      *)
THEOREM RulesAreRules == Spec => []IInv
<1>1. Init => IInv
  BY DEF Init, IInv
<1>2. IInv /\ [Next]_rules => IInv'
  <2> SUFFICES ASSUME IInv, [Next]_rules PROVE IInv'
    OBVIOUS
  <2>1. CASE Load
    <3>1. PICK n \in 0 .. MaxLines : \E text \in [1 .. n -> Line] : rules' = UnmarshalText(text)
      BY <2>1 DEF Load
    <3>2. PICK text \in [1 .. n -> Line] : rules' = UnmarshalText(text)
      BY <3>1
    <3>3. n \in Nat /\ \A i \in 1 .. n : text[i] \in AnyLine
      BY <3>2, LineIsLine, TextAssumption
    <3>4. text = [i \in 1 .. n |-> text[i]]
      BY <3>2
    <3>5. text \in Seq(AnyLine)
      BY <3>3, <3>4
    <3> QED
      BY <3>2, <3>5, UnmarshalType DEF IInv
  <2>2. ASSUME NEW r \in Rule, AddRule(r) PROVE IInv'
    BY <2>2 DEF AddRule, IInv
  <2>3. ASSUME NEW r \in Rule, RemoveRule(r) PROVE IInv'
    BY <2>3, RemoveFirstType DEF RemoveRule, IInv
  <2>4. CASE UNCHANGED rules
    BY <2>4 DEF IInv
  <2> QED
    BY <2>1, <2>2, <2>3, <2>4 DEF Next
<1> QED
  BY <1>1, <1>2, PTL DEF Spec

(* No rule in the set has a prefix longer than its address, however long   *)
(* the file says it is (IPRule.UnmarshalText).                             *)
THEOREM RuleTypes == Spec => []TypeOK
<1>1. IInv => TypeOK
  BY DEF IInv, TypeOK, ToSet
<1> QED
  BY <1>1, RulesAreRules, PTL

(* Contains does not depend on the order of the rules nor on how often one *)
(* is there, for a set of any size.                                        *)
THEOREM OrderDoesNotMatter == Spec => []OrderIrrelevant
<1>1. IInv => OrderIrrelevant
  <2> SUFFICES ASSUME IInv, NEW ip \in Addr
               PROVE  /\ SetContains(Reverse(rules), ip) = SetContains(rules, ip)
                      /\ SetContains(rules \o rules, ip) = SetContains(rules, ip)
    BY DEF OrderIrrelevant
  <2> DEFINE n == Len(rules)
  <2>1. rules \in Seq(Rule) /\ n \in Nat /\ DOMAIN rules = 1 .. n
    BY DEF IInv
  <2>2. Reverse(rules) \in Seq(Rule) /\ ToSet(Reverse(rules)) = ToSet(rules)
    <3>1. /\ Reverse(rules) \in Seq(Rule) /\ Len(Reverse(rules)) = n
          /\ \A i \in 1 .. n : Reverse(rules)[i] = rules[n - i + 1]
      BY <2>1 DEF Reverse
    <3>2. \A i \in 1 .. n : n - i + 1 \in 1 .. n /\ n - (n - i + 1) + 1 = i
      BY <2>1
    <3>3. ASSUME NEW x \in ToSet(rules) PROVE x \in ToSet(Reverse(rules))
      <4>1. PICK i \in 1 .. n : x = rules[i]
        BY <2>1 DEF ToSet
      <4>2. x = Reverse(rules)[n - i + 1] /\ n - i + 1 \in DOMAIN Reverse(rules)
        BY <2>1, <3>1, <3>2, <4>1
      <4> QED
        BY <4>2 DEF ToSet
    <3>4. ASSUME NEW x \in ToSet(Reverse(rules)) PROVE x \in ToSet(rules)
      <4>1. PICK i \in 1 .. n : x = Reverse(rules)[i]
        BY <3>1 DEF ToSet
      <4>2. x = rules[n - i + 1] /\ n - i + 1 \in DOMAIN rules
        BY <2>1, <3>1, <3>2, <4>1
      <4> QED
        BY <4>2 DEF ToSet
    <3> QED
      BY <3>1, <3>3, <3>4
  <2>3. rules \o rules \in Seq(Rule) /\ ToSet(rules \o rules) = ToSet(rules)
    <3>1. /\ rules \o rules \in Seq(Rule) /\ Len(rules \o rules) = n + n
          /\ \A i \in 1 .. n : (rules \o rules)[i] = rules[i]
          /\ \A i \in n + 1 .. n + n : (rules \o rules)[i] = rules[i - n]
      BY <2>1
    <3>2. \A i \in 1 .. n + n : i \in 1 .. n \/ (i \in n + 1 .. n + n /\ i - n \in 1 .. n)
      BY <2>1
    <3>3. ASSUME NEW x \in ToSet(rules) PROVE x \in ToSet(rules \o rules)
      BY <2>1, <3>1 DEF ToSet
    <3>4. ASSUME NEW x \in ToSet(rules \o rules) PROVE x \in ToSet(rules)
      BY <2>1, <3>1, <3>2 DEF ToSet
    <3> QED
      BY <3>1, <3>3, <3>4
  <2>4. /\ SetContains(Reverse(rules), ip) <=> Means(ToSet(rules), ip)
        /\ SetContains(rules \o rules, ip) <=> Means(ToSet(rules), ip)
        /\ SetContains(rules, ip) <=> Means(ToSet(rules), ip)
    BY <2>1, <2>2, <2>3, ContainsMeans
  <2>5. \A set : SetContains(set, ip) \in BOOLEAN
    BY Zenon DEF SetContains
  <2> QED
    BY <2>4, <2>5
<1> QED
  BY <1>1, RulesAreRules, PTL

(* A list of include rules blocks the addresses of its prefixes, and an    *)
(* IPv4 address in both of its forms (IPRule.Contains unmaps it).          *)
THEOREM ListBlocksItsPrefixes == Spec => []BlocksPrefixes
<1>1. IInv => BlocksPrefixes
  <2> SUFFICES ASSUME IInv, \A r \in ToSet(rules) : ~r.not, NEW ip \in Addr
               PROVE  SetContains(rules, ip) <=>
                        \E r \in ToSet(rules), a \in {ip, Unmap(ip)} :
                          PrefixContains(r.prefix, a) /\ ~Is4In6(a)
    BY DEF BlocksPrefixes
  <2>1. SetContains(rules, ip) <=> Means(ToSet(rules), ip)
    BY ContainsMeans DEF IInv
  <2>2. SetContains(rules, ip) <=> \E r \in ToSet(rules) : PrefixContains(r.prefix, Unmap(ip))
    <3>1. \A r \in ToSet(rules) : r.not = FALSE
      <4>1. \A r \in ToSet(rules) : r \in Rule
        BY DEF IInv, ToSet
      <4>2. \A r \in Rule : r.not \in BOOLEAN
        BY DEF Rule
      <4> QED
        BY <4>1, <4>2
    <3>2. \A p, a : PrefixContains(p, a) \in BOOLEAN
      BY Zenon DEF PrefixContains
    <3>3. \A r \in ToSet(rules) :
            RuleContains(r, ip) <=> PrefixContains(r.prefix, Unmap(ip))
      BY <3>1, <3>2 DEF RuleContains
    <3> QED
      BY <2>1, <3>1, <3>3 DEF Means
  <2>3. ~Is4In6(Unmap(ip)) /\ (Is4In6(ip) \/ Unmap(ip) = ip)
    BY DEF Unmap, Is4In6
  <2> QED
    BY <2>2, <2>3
<1> QED
  BY <1>1, RulesAreRules, PTL

(* The text of a rule set of any size reads back as that set, each rule in *)
(* its place (MarshalText, UnmarshalText).                                 *)
THEOREM TextReadsBack == Spec => []RoundTrip
<1>1. IInv => RoundTrip
  BY TextRoundTrip DEF IInv, RoundTrip
<1> QED
  BY <1>1, RulesAreRules, PTL

-----------------------------------------------------------------------------
(* The resolver's answer, and the loop over it in dialer and pktListener.  *)

Answers(protocol, found, a) ==
  IF Unmap(a).fam \in Family(protocol) THEN Append(found, a) ELSE found

LEMMA LookupType ==
  ASSUME NEW ips \in Seq(Addr), NEW protocol
  PROVE  LookupNetIP(ips, protocol) \in Seq(Addr)
<1> DEFINE n == Len(ips)
           Body(v, a) == Answers(protocol, v, a)
           G == [i \in 1 .. n |-> [v \in Seq(Addr) |-> Body(v, ips[i])]]
           Loop(h) == h = [s \in SUBSET (1 .. n) |->
             IF s = {} THEN <<>> ELSE Body(h[s \ {Max(s)}], ips[Max(s)])]
           iter == CHOOSE h : Loop(h)
<1>0. n \in Nat /\ DOMAIN ips = 1 .. n /\ \A i \in 1 .. n : ips[i] \in Addr
  OBVIOUS
<1>1. ASSUME NEW v \in Seq(Addr), NEW a \in Addr PROVE Body(v, a) \in Seq(Addr)
  BY DEF Answers
<1>2. G \in [1 .. n -> [Seq(Addr) -> Seq(Addr)]] /\ <<>> \in Seq(Addr)
  BY <1>0, <1>1
<1>3. LookupNetIP(ips, protocol) = iter[1 .. n]
  BY <1>0 DEF LookupNetIP, FoldLeft, MapThenFoldSet, Answers
<1> HIDE DEF Body
<1>4. PICK g \in [SUBSET (1 .. n) -> Seq(Addr)] : FoldOf(g, <<>>, G, n)
  BY <1>0, <1>2, FoldExists
<1>5. Loop(g)
  <2>1. ASSUME NEW s \in SUBSET (1 .. n)
        PROVE  g[s] = IF s = {} THEN <<>> ELSE Body(g[s \ {Max(s)}], ips[Max(s)])
    <3>1. CASE s = {}
      BY <1>4, <3>1 DEF FoldOf
    <3>2. CASE s # {}
      <4>1. Max(s) \in 1 .. n
        BY <1>0, <3>2, MaxIn
      <4> QED
        BY <1>4, <3>2, <4>1 DEF FoldOf
    <3> QED
      BY <3>1, <3>2
  <2> QED
    BY <1>4, <2>1
<1>6. Loop(iter)
  BY <1>5
<1> HIDE DEF iter
<1> DEFINE S == {i \in Nat : i <= n => iter[1 .. i] \in Seq(Addr)}
<1>7. 0 \in S
  <2>1. iter[1 .. 0] = <<>>
    BY <1>0, <1>6, Positions
  <2>2. iter[1 .. 0] \in Seq(Addr)
    BY <1>2, <2>1
  <2> QED
    BY <2>2
<1>8. ASSUME NEW i \in Nat, i \in S PROVE i + 1 \in S
  <2> SUFFICES ASSUME i + 1 <= n PROVE iter[1 .. (i + 1)] \in Seq(Addr)
    OBVIOUS
  <2> DEFINE m == i + 1
  <2>1. iter[1 .. i] \in Seq(Addr) /\ m \in 1 .. n /\ m - 1 = i
    BY <1>0, <1>8
  <2> HIDE DEF m
  <2>2. /\ 1 .. m \in SUBSET (1 .. n) /\ 1 .. m # {} /\ Max(1 .. m) = m
        /\ (1 .. m) \ {m} = 1 .. (m - 1)
    BY <1>0, <2>1, Positions
  <2>3. iter[1 .. m] = Body(iter[(1 .. m) \ {Max(1 .. m)}], ips[Max(1 .. m)])
    BY <1>6, <2>2
  <2>4. iter[1 .. m] = Body(iter[1 .. i], ips[m])
    BY <2>1, <2>2, <2>3
  <2>5. iter[1 .. m] \in Seq(Addr)
    <3>1. ips[m] \in Addr
      BY <1>0, <2>1
    <3>2. Body(iter[1 .. i], ips[m]) \in Seq(Addr)
      BY <1>1, <2>1, <3>1
    <3> QED
      BY <2>4, <3>2
  <2> QED
    BY <2>5 DEF m
<1> HIDE DEF S
<1>9. n \in S
  BY <1>0, <1>7, <1>8, Induction
<1> QED
  BY <1>0, <1>3, <1>9 DEF S

Error == {"nil", "ErrIPBlocked", "dial error"}
Trial == [conn : SUBSET Addr, err : Error, tried : Seq(Addr)]
Start == [conn |-> NoConn, err |-> "nil", tried |-> <<>>]

LEMMA TryType ==
  ASSUME NEW up, NEW d \in Trial, NEW ip \in Addr
  PROVE  TryAddr(up, d, ip) \in Trial
<1>1. CASE d.conn # NoConn
  BY <1>1 DEF TryAddr
<1>2. CASE d.conn = NoConn /\ SetContains(rules, ip)
  BY <1>2 DEF TryAddr, Trial, Error
<1>3. CASE d.conn = NoConn /\ ~SetContains(rules, ip)
  <2>1. Append(d.tried, ip) \in Seq(Addr) /\ {ip} \cap up \in SUBSET Addr
    BY DEF Trial
  <2> QED
    BY <1>3, <2>1 DEF TryAddr, Trial, Error
<1> QED
  BY <1>1, <1>2, <1>3

(* The values that the loop over the addresses goes through.               *)
LEMMA TryLoop ==
  ASSUME NEW r, NEW protocols, NEW ips, NEW up, Refusal(r, protocols) = "nil",
         LookupNetIP(ips, r.protocol) \in Seq(Addr)
  PROVE  LET all == LookupNetIP(ips, r.protocol) IN
         \E f \in [0 .. Len(all) -> Trial] :
           /\ f[0] = Start
           /\ \A i \in 1 .. Len(all) : f[i] = TryAddr(up, f[i - 1], all[i])
           /\ TryAll(r, protocols, ips, up) = f[Len(all)]
<1> DEFINE all == LookupNetIP(ips, r.protocol)
           n == Len(all)
           Body(v, a) == TryAddr(up, v, a)
           G == [i \in 1 .. n |-> [v \in Trial |-> Body(v, all[i])]]
           Loop(h) == h = [s \in SUBSET (1 .. n) |->
             IF s = {} THEN Start ELSE Body(h[s \ {Max(s)}], all[Max(s)])]
           iter == CHOOSE h : Loop(h)
<1>0. n \in Nat /\ DOMAIN all = 1 .. n /\ \A i \in 1 .. n : all[i] \in Addr
  OBVIOUS
<1>1. TryAll(r, protocols, ips, up) = iter[1 .. n]
  BY <1>0 DEF TryAll, FoldLeft, MapThenFoldSet, Start
<1>2. ASSUME NEW v \in Trial, NEW a \in Addr PROVE Body(v, a) \in Trial
  BY TryType
<1> HIDE DEF Body, all
<1>3. G \in [1 .. n -> [Trial -> Trial]] /\ Start \in Trial
  <2>1. Start \in Trial
    BY DEF Start, Trial, Error, NoConn
  <2> QED
    BY <1>0, <1>2, <2>1
<1>4. PICK g \in [SUBSET (1 .. n) -> Trial] : FoldOf(g, Start, G, n)
  BY <1>0, <1>3, FoldExists
<1>5. Loop(g)
  <2>1. ASSUME NEW s \in SUBSET (1 .. n)
        PROVE  g[s] = IF s = {} THEN Start ELSE Body(g[s \ {Max(s)}], all[Max(s)])
    <3>1. CASE s = {}
      BY <1>4, <3>1 DEF FoldOf
    <3>2. CASE s # {}
      <4>1. Max(s) \in 1 .. n
        BY <1>0, <3>2, MaxIn
      <4> QED
        BY <1>4, <3>2, <4>1 DEF FoldOf
    <3> QED
      BY <3>1, <3>2
  <2> QED
    BY <1>4, <2>1
<1>6. Loop(iter)
  BY <1>5
<1> HIDE DEF iter
<1> DEFINE f == [i \in 0 .. n |-> iter[1 .. i]]
<1>7. f[0] = Start /\ \A i \in 1 .. n : f[i] = Body(f[i - 1], all[i])
  <2>1. f[0] = iter[1 .. 0] /\ iter[1 .. 0] = Start
    BY <1>0, <1>6, Positions
  <2>2. ASSUME NEW i \in 1 .. n
        PROVE  f[i] = Body(f[i - 1], all[i])
    <3>1. f[i] = iter[1 .. i] /\ f[i - 1] = iter[1 .. (i - 1)]
      BY <1>0
    <3>2. /\ 1 .. i \in SUBSET (1 .. n) /\ 1 .. i # {} /\ Max(1 .. i) = i
          /\ (1 .. i) \ {i} = 1 .. (i - 1)
      BY <1>0, Positions
    <3>3. iter[1 .. i] = Body(iter[(1 .. i) \ {Max(1 .. i)}], all[Max(1 .. i)])
      BY <1>6, <3>2
    <3> QED
      BY <3>1, <3>2, <3>3
  <2> QED
    BY <2>1, <2>2
<1>8. f[n] = iter[1 .. n] /\ f = [i \in 0 .. n |-> f[i]]
  BY <1>0
<1> HIDE DEF f
<1>9. \A i \in 0 .. n : f[i] \in Trial
  <2> DEFINE S == {i \in Nat : i <= n => f[i] \in Trial}
  <2>1. 0 \in S
    BY <1>3, <1>7
  <2>2. ASSUME NEW i \in Nat, i \in S PROVE i + 1 \in S
    <3> SUFFICES ASSUME i + 1 <= n PROVE f[i + 1] \in Trial
      OBVIOUS
    <3>1. f[i] \in Trial /\ i + 1 \in 1 .. n /\ (i + 1) - 1 = i
      BY <1>0, <2>2
    <3>2. f[i + 1] = Body(f[i], all[i + 1]) /\ all[i + 1] \in Addr
      BY <1>0, <1>7, <3>1
    <3> QED
      BY <1>2, <3>1, <3>2
  <2> HIDE DEF S
  <2>3. \A i \in Nat : i \in S
    BY <2>1, <2>2, Induction
  <2> QED
    BY <2>3 DEF S
<1>10. f \in [0 .. n -> Trial]
  BY <1>8, <1>9
<1> QED
  BY <1>1, <1>7, <1>8, <1>10 DEF Body, all

(* The first address, of the first i, that is up and not blocked.          *)
May(all, up, i) == all[i] \in up /\ ~SetContains(rules, all[i])
FirstOf(all, up, n) ==
  {all[i] : i \in {m \in 1 .. n : May(all, up, m) /\ \A j \in 1 .. m - 1 : ~May(all, up, j)}}

(* What the loop has done after i addresses.                               *)
Doing(all, up, d, i) ==
  /\ \A a \in ToSet(d.tried) : ~SetContains(rules, a) /\ a \in ToSet(all)
  /\ d.conn = FirstOf(all, up, i)
  /\ d.conn # NoConn => d.err = "nil"
  /\ d.conn = NoConn /\ i > 0 => d.err # "nil"
  /\ d.conn = NoConn => \A j \in 1 .. i : ~May(all, up, j)
  /\ d.conn # NoConn => \E j \in 1 .. i : May(all, up, j)

LEMMA DoingStep ==
  ASSUME NEW all \in Seq(Addr), NEW up, NEW d \in Trial, NEW i \in Nat, i + 1 <= Len(all),
         Doing(all, up, d, i)
  PROVE  Doing(all, up, TryAddr(up, d, all[i + 1]), i + 1)
<1> DEFINE m == i + 1
           e == TryAddr(up, d, all[m])
<1>1. /\ m \in 1 .. Len(all) /\ m \in Nat /\ m > 0 /\ m - 1 = i
      /\ all[m] \in Addr /\ all[m] \in ToSet(all)
      /\ 1 .. m = (1 .. i) \cup {m} /\ i \in Nat
  BY DEF ToSet
<1> HIDE DEF m
<1>2. CASE d.conn # NoConn
  <2>1. e = d
    BY <1>2 DEF TryAddr
  <2>2. FirstOf(all, up, m) = FirstOf(all, up, i)
    <3>1. PICK j \in 1 .. i : May(all, up, j)
      BY <1>2 DEF Doing
    <3>2. j \in 1 .. m - 1
      BY <1>1, <3>1
    <3> QED
      BY <1>1, <3>1, <3>2 DEF FirstOf
  <2>3. \E j \in 1 .. m : May(all, up, j)
    BY <1>1, <1>2 DEF Doing
  <2> QED
    BY <1>1, <1>2, <2>1, <2>2, <2>3 DEF Doing, m
<1>3. CASE d.conn = NoConn
  <2>1. \A j \in 1 .. i : ~May(all, up, j)
    BY <1>3 DEF Doing
  <2>2. FirstOf(all, up, m) = IF May(all, up, m) THEN {all[m]} ELSE {}
    BY <1>1, <2>1 DEF FirstOf
  <2>3. CASE SetContains(rules, all[m])
    <3>1. e = [d EXCEPT !.err = "ErrIPBlocked"] /\ ~May(all, up, m)
      BY <1>3, <2>3 DEF TryAddr, May
    <3>2. e.conn = {} /\ e.err = "ErrIPBlocked" /\ e.tried = d.tried
      BY <1>3, <3>1 DEF Trial, NoConn
    <3>3. \A j \in 1 .. m : ~May(all, up, j)
      BY <1>1, <2>1, <3>1
    <3> HIDE DEF e
    <3> QED
      BY <1>1, <2>2, <3>1, <3>2, <3>3 DEF Doing, NoConn, m, e
  <2>4. CASE ~SetContains(rules, all[m])
    <3>1. /\ e.conn = {all[m]} \cap up
          /\ e.err = IF all[m] \in up THEN "nil" ELSE "dial error"
          /\ e.tried = Append(d.tried, all[m])
      BY <1>3, <2>4 DEF TryAddr
    <3>2. d.tried \in Seq(Addr)
      BY DEF Trial
    <3>3. ToSet(e.tried) = ToSet(d.tried) \cup {all[m]}
      <4> DEFINE q == d.tried
                 x == all[m]
      <4>1. /\ Len(Append(q, x)) = Len(q) + 1 /\ Len(q) \in Nat
            /\ \A k \in 1 .. Len(q) : Append(q, x)[k] = q[k]
            /\ Append(q, x)[Len(q) + 1] = x
            /\ DOMAIN q = 1 .. Len(q) /\ DOMAIN Append(q, x) = 1 .. Len(q) + 1
        BY <1>1, <3>2
      <4> HIDE DEF q, x
      <4>2. ASSUME NEW y \in ToSet(Append(q, x)) PROVE y \in ToSet(q) \cup {x}
        BY <4>1 DEF ToSet
      <4>3. ASSUME NEW y \in ToSet(q) \cup {x} PROVE y \in ToSet(Append(q, x))
        BY <4>1 DEF ToSet
      <4>4. ToSet(Append(q, x)) = ToSet(q) \cup {x}
        BY <4>2, <4>3
      <4> QED
        BY <3>1, <4>4 DEF q, x
    <3>4. May(all, up, m) <=> all[m] \in up
      BY <2>4 DEF May
    <3>5. e.conn # {} <=> all[m] \in up
      BY <3>1
    <3>6. \A a \in ToSet(e.tried) : ~SetContains(rules, a) /\ a \in ToSet(all)
      BY <1>1, <2>4, <3>3 DEF Doing
    <3>7. e.conn = FirstOf(all, up, m)
      BY <2>2, <3>1, <3>4
    <3>8. e.conn # {} => e.err = "nil" /\ \E j \in 1 .. m : May(all, up, j)
      BY <1>1, <3>1, <3>4, <3>5
    <3>9. e.conn = {} => e.err # "nil" /\ \A j \in 1 .. m : ~May(all, up, j)
      BY <1>1, <2>1, <3>1, <3>4, <3>5
    <3> HIDE DEF e
    <3>10. Doing(all, up, e, m)
      BY <3>6, <3>7, <3>8, <3>9 DEF Doing, NoConn
    <3> QED
      BY <3>10 DEF e, m
  <2> QED
    BY <2>3, <2>4
<1> QED
  BY <1>2, <1>3

(* What has been done when the loop ends.                                  *)
LEMMA TryAllDone ==
  ASSUME NEW r, NEW protocols, NEW ips \in Seq(Addr), NEW up, Refusal(r, protocols) = "nil"
  PROVE  LET all == LookupNetIP(ips, r.protocol)
             d == TryAll(r, protocols, ips, up) IN
         /\ all \in Seq(Addr)
         /\ Doing(all, up, d, Len(all)) /\ d \in Trial
         /\ all = <<>> => d.conn = NoConn /\ d.err = "nil"
<1> DEFINE all == LookupNetIP(ips, r.protocol)
           n == Len(all)
<1>1. all \in Seq(Addr) /\ n \in Nat
  BY LookupType
<1>2. PICK f \in [0 .. n -> Trial] :
        /\ f[0] = Start
        /\ \A i \in 1 .. n : f[i] = TryAddr(up, f[i - 1], all[i])
        /\ TryAll(r, protocols, ips, up) = f[n]
  BY <1>1, TryLoop
<1> HIDE DEF all
<1> DEFINE S == {i \in Nat : i <= n => Doing(all, up, f[i], i)}
<1>3. 0 \in S
  <2>1. Doing(all, up, Start, 0)
    BY DEF Doing, Start, NoConn, FirstOf, ToSet
  <2> QED
    BY <1>2, <2>1
<1>4. ASSUME NEW i \in Nat, i \in S PROVE i + 1 \in S
  <2> SUFFICES ASSUME i + 1 <= n PROVE Doing(all, up, f[i + 1], i + 1)
    OBVIOUS
  <2>1. Doing(all, up, f[i], i) /\ f[i] \in Trial /\ i + 1 \in 1 .. n /\ (i + 1) - 1 = i
    BY <1>1, <1>2, <1>4
  <2>2. f[i + 1] = TryAddr(up, f[i], all[i + 1])
    BY <1>2, <2>1
  <2>3. Doing(all, up, TryAddr(up, f[i], all[i + 1]), i + 1)
    BY <1>1, <2>1, DoingStep
  <2> QED
    BY <2>2, <2>3
<1> HIDE DEF S
<1>5. n \in S
  BY <1>1, <1>3, <1>4, Induction
<1>6. Doing(all, up, f[n], n) /\ f[n] \in Trial
  BY <1>1, <1>2, <1>5 DEF S
<1>7. all = <<>> => f[n].conn = NoConn /\ f[n].err = "nil"
  <2>1. all = <<>> => n = 0
    BY <1>1
  <2> QED
    BY <1>2, <2>1 DEF Start
<1> QED
  BY <1>1, <1>2, <1>6, <1>7 DEF all

(* A request that is refused has nothing tried.                            *)
LEMMA Refused ==
  ASSUME NEW r, NEW protocols, NEW ips, NEW up, Refusal(r, protocols) # "nil"
  PROVE  LET d == TryAll(r, protocols, ips, up) IN
         d.conn = NoConn /\ d.err # "nil" /\ d.tried = <<>>
BY DEF TryAll

LEMMA RequestFacts ==
  ASSUME NEW r \in Requests
  PROVE  LET good == r.splits /\ r.port < 65536 /\ r.resolves IN
         /\ Refusal(r, StreamProtocols) = "nil" <=> good /\ r.protocol \in {"tcp", "tcp4"}
         /\ Refusal(r, PacketProtocols) = "nil" <=> good /\ r.protocol = "udp6"
<1>1. CASE /\ r.splits /\ r.port = 65535 /\ r.resolves
           /\ r.protocol \in {"tcp", "tcp4", "udp6", "unix"}
  <2>1. 65535 \in Port /\ 65535 < 65536
    BY DEF Port
  <2>2. /\ r.protocol \in StreamProtocols <=> r.protocol \in {"tcp", "tcp4"}
        /\ r.protocol \in PacketProtocols <=> r.protocol = "udp6"
    BY <1>1 DEF StreamProtocols, PacketProtocols
  <2> QED
    BY <1>1, <2>1, <2>2 DEF Refusal
<1>2. CASE ~r.splits
  BY <1>2 DEF Refusal
<1>3. CASE r.port = 65536
  <2>1. 65536 \notin Port /\ ~(65536 < 65536)
    BY DEF Port
  <2> QED
    BY <1>3, <2>1 DEF Refusal
<1>4. CASE ~r.resolves
  BY <1>4 DEF Refusal
<1> QED
  BY <1>1, <1>2, <1>3, <1>4 DEF Requests, Good

(* dialer and pktListener, for hosts of any number of addresses.           *)
LEMMA EveryHostReached ==
  ASSUME NEW ips \in Seq(Addr), NEW up, NEW r \in Requests
  PROVE  Reaches(r, ips, up)
<1> DEFINE all == LookupNetIP(ips, r.protocol)
           good == r.splits /\ r.port < 65536 /\ r.resolves
           tcp == good /\ r.protocol \in {"tcp", "tcp4"}
           udp == good /\ r.protocol = "udp6"
           t == TryAll(r, StreamProtocols, ips, up)
           d == dialer(r, ips, up)
           p == pktListener(r, ips, up)
<1>1. all \in Seq(Addr)
  BY LookupType
<1>2. /\ Refusal(r, StreamProtocols) = "nil" <=> tcp
      /\ Refusal(r, PacketProtocols) = "nil" <=> udp
  BY RequestFacts
<1>1a. FirstReachable(all, up) = FirstOf(all, up, Len(all))
  <2>1. DOMAIN all = 1 .. Len(all)
    BY <1>1
  <2> HIDE DEF all
  <2> QED
    BY <2>1 DEF FirstReachable, FirstOf, May
<1>2a. tcp \in BOOLEAN /\ udp \in BOOLEAN
  OBVIOUS
<1>3. ToSet(<<>>) = {}
  BY DEF ToSet
<1>4. p = TryAll(r, PacketProtocols, ips, up)
  BY DEF pktListener
<1>5. /\ d = IF t.conn = NoConn /\ t.err = "nil" THEN [t EXCEPT !.err = "ErrHostUnreachable"] ELSE t
  BY DEF dialer
<1>6. ASSUME NEW x, NEW protocols, x = TryAll(r, protocols, ips, up),
             NEW served \in BOOLEAN, Refusal(r, protocols) = "nil" <=> served
      PROVE  /\ Reached(x, served, all, up)
             /\ all # <<>> => (x.conn = NoConn <=> x.err # "nil")
             /\ x.conn # NoConn => x.err = "nil"
             /\ served => x \in Trial
  <2>1. CASE served
    <3>1. Doing(all, up, x, Len(all)) /\ x \in Trial
      BY <1>6, <2>1, TryAllDone
    <3>2. all # <<>> => Len(all) > 0
      BY <1>1
    <3> HIDE DEF all
    <3> QED
      BY <1>1a, <2>1, <3>1, <3>2 DEF Doing, Reached
  <2>2. CASE ~served
    <3>1. x.conn = NoConn /\ x.err # "nil" /\ x.tried = <<>>
      BY <1>6, <2>2, Refused
    <3> HIDE DEF all
    <3> QED
      BY <1>3, <2>2, <3>1 DEF Reached
  <2> QED
    BY <2>1, <2>2
<1>7. Reached(p, udp, all, up) /\ (all # <<>> => (p.conn = NoConn <=> p.err # "nil"))
  <2> HIDE DEF all, p, udp
  <2> QED
    BY <1>2, <1>2a, <1>4, <1>6
<1>8. Reached(t, tcp, all, up) /\ (t.conn # NoConn => t.err = "nil") /\ (tcp => t \in Trial)
  <2>1. t = TryAll(r, StreamProtocols, ips, up)
    OBVIOUS
  <2> HIDE DEF all, tcp, t
  <2> QED
    BY <1>2, <1>2a, <1>6, <2>1
<1>9. Reached(d, tcp, all, up) /\ (d.conn = NoConn <=> d.err # "nil")
  <2>1. CASE t.conn = NoConn /\ t.err = "nil"
    <3>1. tcp
      BY <1>2, <2>1, Refused
    <3>2. d.conn = t.conn /\ d.tried = t.tried /\ d.err = "ErrHostUnreachable"
      BY <1>5, <1>8, <2>1, <3>1 DEF Trial
    <3> HIDE DEF d, t, all
    <3> QED
      BY <1>8, <2>1, <3>2 DEF Reached
  <2>2. CASE ~(t.conn = NoConn /\ t.err = "nil")
    <3>1. d = t
      BY <1>5, <2>2
    <3> HIDE DEF d, t, all
    <3> QED
      BY <1>8, <2>2, <3>1
  <2> QED
    BY <2>1, <2>2
<1> QED
  BY <1>7, <1>9 DEF Reaches

(* dialer and pktListener reach a host on its first address that is up and *)
(* not blocked, hand no blocked address to the Dialer, and report an error *)
(* otherwise, for every rule set; EveryHostReached says it for every host. *)
THEOREM HostIsReached == Spec => []ReachesHost
<1>1. ReachesHost
  <2>1. ASSUME NEW ips \in Hosts PROVE ips \in Seq(Addr)
    <3>1. PICK n \in 0 .. 2 : ips \in [1 .. n -> Addr]
      BY DEF Hosts
    <3>2. ips = [i \in 1 .. n |-> ips[i]] /\ n \in Nat /\ \A i \in 1 .. n : ips[i] \in Addr
      BY <3>1
    <3> QED
      BY <3>2
  <2> QED
    BY <2>1, EveryHostReached DEF ReachesHost
<1> QED
  BY <1>1, PTL

=============================================================================
