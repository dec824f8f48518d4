------------------------------- MODULE IPRule -------------------------------
(***************************************************************************)
(* IP rules and the block list of the server (src/iprule.go), and how      *)
(* Server.dialer and Server.pktListener (src/server.go) try the addresses  *)
(* of a host against it.                                                   *)
(*                                                                         *)
(* An address is a family and its bits; W4 and W6 stand for the 32 and the *)
(* 128 bits of the two families.  Text is modelled by its lines: one that  *)
(* is ignored, one that is no rule, or a rule by its parts.                *)
(***************************************************************************)
EXTENDS SequencesExt

CONSTANTS
  W4, W6,     \* bits of an IPv4 and of an IPv6 address
  MaxRules,   \* bound: rules in the set
  MaxLines,   \* bound: lines of a rule file
  FileBits    \* what may follow the / of an address in a file

ASSUME WidthAssumption == W4 \in Nat /\ W6 \in Nat /\ 0 < W4 /\ W4 < W6
ASSUME TextAssumption == MaxRules \in Nat /\ MaxLines \in Nat /\ FileBits \subseteq Nat

VARIABLE rules   \* IPRuleSet.rules

-----------------------------------------------------------------------------
(* Addresses and prefixes (external: net/netip).  The IPv6 addresses that  *)
(* map an IPv4 address begin with ones.                                    *)

BitLen(fam) == IF fam = 4 THEN W4 ELSE W6
Addr == UNION {[fam : {f}, bits : [1 .. BitLen(f) -> {0, 1}]] : f \in {4, 6}}

Is4In6(a) == a.fam = 6 /\ \A i \in 1 .. W6 - W4 : a.bits[i] = 1
Unmap(a) ==
  IF Is4In6(a) THEN [fam |-> 4, bits |-> SubSeq(a.bits, W6 - W4 + 1, W6)] ELSE a

Prefix == {p \in [addr : Addr, bits : 0 .. W6] : p.bits <= BitLen(p.addr.fam)}
PrefixContains(p, a) ==
  /\ p.addr.fam = a.fam
  /\ \A i \in 1 .. p.bits : p.addr.bits[i] = a.bits[i]

-----------------------------------------------------------------------------
(* IPRule.                                                                 *)

Rule == [prefix : Prefix, not : BOOLEAN]

(* Mutant: the address is not unmapped.                                    *)
RuleContainsMapped(r, ip) == PrefixContains(r.prefix, ip) # r.not

RuleContains(r, ip) == PrefixContains(r.prefix, Unmap(ip)) # r.not

(* A line: whether it begins with !, the address, and what follows the /,  *)
(* if there is one.                                                        *)
RuleLine ==
  [t : {"rule"}, not : BOOLEAN, addr : Addr, bits : {<<>>} \cup {<<n>> : n \in FileBits}]
Line == RuleLine \cup {[t |-> "ignored"], [t |-> "bad"]}

(* Mutant: the length of a prefix is not checked.                          *)
ParsesAnyLength(l) == l.t = "rule"

Parses(l) ==
  l.t = "rule" /\ (l.bits # <<>> => l.bits[1] <= BitLen(l.addr.fam))
UnmarshalRule(l) ==
  [not |-> l.not,
   prefix |-> [addr |-> l.addr,
               bits |-> IF l.bits = <<>> THEN BitLen(l.addr.fam) ELSE l.bits[1]]]

(* Mutant: the text of every rule is its address.                          *)
MarshalAddr(r) == [t |-> "rule", not |-> r.not, addr |-> r.prefix.addr, bits |-> <<>>]

MarshalRule(r) ==
  [t |-> "rule", not |-> r.not, addr |-> r.prefix.addr,
   bits |-> IF r.prefix.bits = BitLen(r.prefix.addr.fam) THEN <<>>
            ELSE <<r.prefix.bits>>]

-----------------------------------------------------------------------------
(* IPRuleSet.                                                              *)

(* Mutant: the last include rule decides.                                  *)
LastWins(ip, found, r) ==
  IF found = "excluded" THEN found
  ELSE IF r.not THEN IF RuleContains(r, ip) THEN "excluded" ELSE found
  ELSE IF RuleContains(r, ip) THEN "yes" ELSE "no"

(* The body of the loop of Contains; "excluded" is the early return.       *)
ContainsBody(ip, found, r) ==
  IF found = "excluded" THEN found
  ELSE IF r.not THEN IF RuleContains(r, ip) THEN "excluded" ELSE found
  ELSE IF found = "yes" \/ RuleContains(r, ip) THEN "yes" ELSE "no"

SetContains(set, ip) ==
  LET Body(found, r) == ContainsBody(ip, found, r) IN
  FoldLeft(Body, "no", set) = "yes"

(* UnmarshalText: the lines that parse, in order; the others are reported. *)
UnmarshalText(text) ==
  LET Body(set, l) == IF Parses(l) THEN Append(set, UnmarshalRule(l)) ELSE set IN
  FoldLeft(Body, <<>>, text)
MarshalText(set) == [i \in DOMAIN set |-> MarshalRule(set[i])]

Init == rules = <<>>

(* ReadIPRuleSet: the lines of a file, read into a new set.                *)
Load ==
  /\ rules = <<>>
  /\ \E n \in 0 .. MaxLines : \E text \in [1 .. n -> Line] :
       rules' = UnmarshalText(text)

(* Add does nothing if the rule is there.                                  *)
AddRule(r) ==
  /\ r \notin ToSet(rules)
  /\ Len(rules) < MaxRules
  /\ rules' = Append(rules, r)

RemoveRule(r) ==
  /\ r \in ToSet(rules)
  /\ rules' = RemoveFirst(rules, r)

Next ==
  \/ Load
  \/ \E r \in Rule : AddRule(r) \/ RemoveRule(r)

Spec == Init /\ [][Next]_rules

-----------------------------------------------------------------------------
(* Server.dialer and Server.pktListener.  A request: whether its target is *)
(* a host and a port, the port, the protocol up to the first colon, and    *)
(* whether the resolver knows the host.  ips: the addresses of the host;   *)
(* up: those that answer.                                                  *)

StreamProtocols == {"tcp", "tcp4", "tcp6"}
PacketProtocols == {"ip", "ip4", "ip6", "udp", "udp4", "udp6"}
Port == 0 .. 65535

(* getLookupProtocol, and what the resolver answers (external: net).       *)
Family(protocol) ==
  CASE protocol \in {"tcp4", "udp4", "ip4"} -> {4}
    [] protocol \in {"tcp6", "udp6", "ip6"} -> {6}
    [] OTHER -> {4, 6}
LookupNetIP(ips, protocol) ==
  LET Answer(found, a) ==
        IF Unmap(a).fam \in Family(protocol) THEN Append(found, a) ELSE found IN
  FoldLeft(Answer, <<>>, ips)

(* What is returned before any address is tried.                           *)
Refusal(r, protocols) ==
  IF ~r.splits THEN "missing port"
  ELSE IF r.port \notin Port THEN "bad port"
  ELSE IF r.protocol \notin protocols THEN "ErrNetworkUnreachable"
  ELSE IF ~r.resolves THEN "no such host" ELSE "nil"

(* conn: the connection, to one address, or none; tried: the addresses     *)
(* handed to Server.Dialer or Server.PacketListener.                       *)
NoConn == {}

(* Mutant: an address that is blocked ends the loop.                       *)
TryStops(up, d, ip) ==
  IF d.conn # NoConn \/ d.err = "ErrIPBlocked" THEN d
  ELSE IF SetContains(rules, ip) THEN [d EXCEPT !.err = "ErrIPBlocked"]
  ELSE [conn |-> {ip} \cap up,
        err |-> IF ip \in up THEN "nil" ELSE "dial error",
        tried |-> Append(d.tried, ip)]

(* The body of the loop, for an address while there is no connection.      *)
TryAddr(up, d, ip) ==
  IF d.conn # NoConn THEN d
  ELSE IF SetContains(rules, ip) THEN [d EXCEPT !.err = "ErrIPBlocked"]
  ELSE [conn |-> {ip} \cap up,
        err |-> IF ip \in up THEN "nil" ELSE "dial error",
        tried |-> Append(d.tried, ip)]

TryAll(r, protocols, ips, up) ==
  LET Try(d, ip) == TryAddr(up, d, ip)
      start == [conn |-> NoConn, err |-> Refusal(r, protocols), tried |-> <<>>] IN
  IF start.err # "nil" THEN start
  ELSE FoldLeft(Try, start, LookupNetIP(ips, r.protocol))

dialer(r, ips, up) ==
  LET d == TryAll(r, StreamProtocols, ips, up) IN
  IF d.conn = NoConn /\ d.err = "nil" THEN [d EXCEPT !.err = "ErrHostUnreachable"]
  ELSE d

(* pktListener has no such last test.                                      *)
pktListener(r, ips, up) == TryAll(r, PacketProtocols, ips, up)

-----------------------------------------------------------------------------
(* Type correctness: no prefix is longer than its address, whatever the    *)
(* file says.                                                              *)
TypeOK == ToSet(rules) \subseteq Rule

(* The order of the rules does not matter, nor how often one is there:     *)
(* Contains of the set backwards, or twice over, answers the same for      *)
(* every address ("Exclude rules will always have the highest priority").  *)
OrderIrrelevant ==
  \A ip \in Addr :
    /\ SetContains(Reverse(rules), ip) = SetContains(rules, ip)
    /\ SetContains(rules \o rules, ip) = SetContains(rules, ip)

(* A list without exclude rules, such as the default block list, blocks    *)
(* exactly the addresses of its prefixes, and an IPv4 address whether it   *)
(* is written as such or as an IPv6 address.                               *)
BlocksPrefixes ==
  (\A r \in ToSet(rules) : ~r.not) => \A ip \in Addr :
    SetContains(rules, ip) <=> \E r \in ToSet(rules), a \in {ip, Unmap(ip)} :
      PrefixContains(r.prefix, a) /\ ~Is4In6(a)

(* Reading back the text of a rule set gives the rule set.                 *)
RoundTrip == UnmarshalText(MarshalText(rules)) = rules

(* For a host of up to two addresses dialer and pktListener try no address *)
(* that is blocked, or that is not of the family asked for; they reach the *)
(* host if they may reach it at all, on its first such address, and return *)
(* an error if not (dialer even if the resolver returned no address;       *)
(* pktListener is not asked to).  What one serves the other refuses, and a *)
(* request that is refused has nothing tried.                              *)
Hosts == UNION {[1 .. n -> Addr] : n \in 0 .. 2}
Good(protocol) == [splits |-> TRUE, port |-> 65535, protocol |-> protocol, resolves |-> TRUE]
Requests ==
  {Good(p) : p \in {"tcp", "tcp4", "udp6", "unix"}}
    \cup {[Good("tcp") EXCEPT !.splits = FALSE], [Good("ip") EXCEPT !.port = 65536],
          [Good("udp4") EXCEPT !.resolves = FALSE]}

FirstReachable(all, up) ==
  LET may(i) == all[i] \in up /\ ~SetContains(rules, all[i]) IN
  {all[i] : i \in {n \in DOMAIN all : may(n) /\ \A j \in 1 .. n - 1 : ~may(j)}}

Reached(d, served, all, up) ==
  /\ \A a \in ToSet(d.tried) : ~SetContains(rules, a) /\ a \in ToSet(all)
  /\ served \/ d.tried = <<>>
  /\ d.conn = IF served THEN FirstReachable(all, up) ELSE NoConn

Reaches(r, ips, up) ==
  LET all == LookupNetIP(ips, r.protocol)
      good == r.splits /\ r.port < 65536 /\ r.resolves
      d == dialer(r, ips, up)
      p == pktListener(r, ips, up) IN
  /\ Reached(d, good /\ r.protocol \in {"tcp", "tcp4"}, all, up)
  /\ Reached(p, good /\ r.protocol = "udp6", all, up)
  /\ d.conn = NoConn <=> d.err # "nil"
  /\ all # <<>> => (p.conn = NoConn <=> p.err # "nil")

ReachesHost ==
  \A r \in Requests, ips \in Hosts, up \in {{}, {Unmap(a) : a \in Addr}, Addr} :
    Reaches(r, ips, up)

=============================================================================
