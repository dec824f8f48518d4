-------------------------------- MODULE L2TP --------------------------------
(***************************************************************************)
(* The L2TP server (src/l2tp): the formats of its header and of its AVPs,  *)
(* read and written, and Serve, which handles each datagram of a UDP       *)
(* socket in a goroutine of its own and answers control messages.          *)
(*                                                                         *)
(* A peer sends one message, perhaps cut short or with a Length that is    *)
(* not its own, and the network delivers it any number of times up to      *)
(* MaxCopies.  Goroutines share nothing but the socket and the process, so *)
(* one message at a time is enough.                                        *)
(***************************************************************************)
EXTENDS SequencesExt, Integers

CONSTANTS
  Words,      \* the values of Ns and Nr in the messages sent
  AVPLists,   \* the AVPs of the messages sent
  Offsets,    \* the offset sizes sent
  Lengths,    \* values of Length in the messages sent, besides the right one
  Cuts,       \* how many bytes may be missing at the end of a message
  MaxCopies   \* bound: copies of the message that arrive

Byte == 0 .. 255
Word == 0 .. 65535
MaxDatagram == 65507  \* what a datagram of UDP can carry

-----------------------------------------------------------------------------
(* Bytes and words.                                                        *)

(* Mutant: the high byte is not shifted down.                              *)
HighUnshifted(n) == <<n, n % 256>>

Bytes(n) == <<n \div 256, n % 256>>
WordAt(b, i) == 256 * b[i] + b[i + 1]

(* The flags of a header, and of an AVP.                                   *)
flagType == 32768
flagLength == 16384
flagSequence == 2048
flagOffset == 512
flagPriority == 256
flagMandatory == 32768
flagHidden == 16384
Version == 2
IsSet(flags, flag) == (flags \div flag) % 2 = 1
Flag(on, flag) == IF on THEN flag ELSE 0

Header ==
  [isControl : BOOLEAN, priority : BOOLEAN, sequence : BOOLEAN, tunnelID : Word,
   sessionID : Word, ns : Word, nr : Word, length : Word, offset : Word]

AVP == [mandatory : BOOLEAN, hidden : BOOLEAN, vendorID : Word, attrType : Word,
        value : Seq(Byte)]

ASSUME L2TPAssumption ==
  /\ Words \subseteq Word /\ Offsets \subseteq Word /\ Lengths \subseteq Word
  /\ AVPLists \subseteq Seq(AVP)
  /\ Cuts \subseteq Nat /\ MaxCopies \in Nat

-----------------------------------------------------------------------------
(* header.encode.  The loop that would write the pad is never entered.     *)
encode(h) ==
  LET flags == Version + Flag(h.isControl, flagType) + Flag(h.priority, flagPriority)
                 + Flag(h.length # 0, flagLength) + Flag(h.sequence, flagSequence)
                 + Flag(h.offset > 0, flagOffset) IN
  Bytes(flags)
    \o (IF h.length # 0 THEN Bytes(h.length) ELSE <<>>)
    \o Bytes(h.tunnelID) \o Bytes(h.sessionID)
    \o (IF h.sequence THEN Bytes(h.ns) \o Bytes(h.nr) ELSE <<>>)
    \o (IF h.offset > 0 THEN Bytes(h.offset) ELSE <<>>)

(* parseHeader.  An index or a slice past the end of the message panics;   *)
(* last is that end, as Length has it if it is there.  2 + offset is       *)
(* computed in 16 bits.                                                    *)
parseHeader(b) ==
  LET flags == WordAt(b, 1)
      isControl == IsSet(flags, flagType)
      sequence == IsSet(flags, flagSequence)
      length == IF IsSet(flags, flagLength) THEN WordAt(b, 3) ELSE 0
      last == IF IsSet(flags, flagLength) THEN length ELSE Len(b)
      ids == IF IsSet(flags, flagLength) THEN 5 ELSE 3
      numbers == ids + 4
      pad == IF sequence THEN numbers + 4 ELSE numbers
      offset == IF IsSet(flags, flagOffset) THEN WordAt(b, pad) ELSE 0
      payload == IF IsSet(flags, flagOffset) THEN pad + ((2 + offset) % 65536) ELSE pad IN
  IF Len(b) < 6 \/ flags % 16 # Version \/ Len(b) < last THEN [res |-> "err"]
  ELSE IF last < ids + 3 \/ (sequence /\ last < numbers + 3) THEN [res |-> "panic"]
  ELSE IF isControl /\ (~sequence \/ IsSet(flags, flagOffset)) THEN [res |-> "err"]
  ELSE IF IsSet(flags, flagOffset) /\ (last < pad + 1 \/ payload > last + 1)
       THEN [res |-> "panic"]
  ELSE [res |-> "ok",
        head |-> [isControl |-> isControl, priority |-> IsSet(flags, flagPriority),
                  sequence |-> sequence, tunnelID |-> WordAt(b, ids),
                  sessionID |-> WordAt(b, ids + 2),
                  ns |-> IF sequence THEN WordAt(b, numbers) ELSE 0,
                  nr |-> IF sequence THEN WordAt(b, numbers + 2) ELSE 0,
                  length |-> length, offset |-> offset],
        payload |-> SubSeq(b, payload, last)]

(* avpPayload.encode: the length is cut to ten bits.                       *)
encodeAVP(a) ==
  Bytes(Flag(a.mandatory, flagMandatory) + Flag(a.hidden, flagHidden)
          + ((6 + Len(a.value)) % 1024))
    \o Bytes(a.vendorID) \o Bytes(a.attrType) \o a.value

(* Mutant: the length is read from nine bits.                              *)
NineBits(flags) == flags % 512

TenBits(flags) == flags % 1024

(* parseAVP, applied to what follows byte i of b until nothing is left:    *)
(* the AVPs, or an error if one of them is malformed.                      *)
parseAVPs(b) ==
  LET length(i) == TenBits(WordAt(b, i + 1))
      avp(i) ==
        [mandatory |-> IsSet(WordAt(b, i + 1), flagMandatory),
         hidden |-> IsSet(WordAt(b, i + 1), flagHidden),
         vendorID |-> WordAt(b, i + 3), attrType |-> WordAt(b, i + 5),
         value |-> SubSeq(b, i + 7, i + length(i))]
      from[i \in 0 .. Len(b)] ==
        IF i = Len(b) THEN [ok |-> TRUE, avps |-> <<>>]
        ELSE IF Len(b) - i < 6 \/ length(i) < 6 \/ Len(b) - i < length(i)
             THEN [ok |-> FALSE, avps |-> <<>>]
        ELSE [from[i + length(i)] EXCEPT !.avps = <<avp(i)>> \o @] IN
  from[0]

(* Mutant: the ids of the answer are exchanged.                            *)
ResponseSwapped(h) ==
  [isControl |-> TRUE, priority |-> FALSE, sequence |-> TRUE, tunnelID |-> h.sessionID,
   sessionID |-> h.tunnelID, ns |-> (h.ns + 1) % 65536, nr |-> (h.nr + 1) % 65536,
   length |-> 0, offset |-> 0]

Response(h) ==
  [isControl |-> TRUE, priority |-> FALSE, sequence |-> TRUE, tunnelID |-> h.tunnelID,
   sessionID |-> h.sessionID, ns |-> (h.ns + 1) % 65536, nr |-> (h.nr + 1) % 65536,
   length |-> 0, offset |-> 0]

(* Mutant: the second AVP is looked at, and not the first.                 *)
HasSecond(avps) == Len(avps) > 1

HasFirst(avps) == Len(avps) > 0

(* What handle makes of a datagram.  Of a data message it makes nothing.   *)
Result(b) ==
  LET parsed == parseHeader(b) IN
  IF parsed.res # "ok" THEN [res |-> parsed.res]
  ELSE IF ~parsed.head.isControl THEN [res |-> "data"]
  ELSE LET list == parseAVPs(parsed.payload) IN
       IF ~list.ok THEN [res |-> "err"]
       ELSE IF ~HasFirst(list.avps) THEN [res |-> "panic"]
       ELSE [res |-> "reply", reply |-> encode(Response(parsed.head))]

-----------------------------------------------------------------------------
VARIABLES
  msg,      \* what the peer sends: a header, AVPs, the Length the message
            \* claims to have, and how much of it is cut
  inbox,    \* the copies of it in the socket
  copies,   \* how many have arrived
  tasks,    \* the goroutines that handle one
  replies,  \* the datagrams written to the socket
  server    \* Serve and its process

vars == <<msg, inbox, copies, tasks, replies, server>>

Payload(m) == FlattenSeq([i \in DOMAIN m.avps |-> encodeAVP(m.avps[i])])
Whole(m) == encode(m.head) \o Payload(m)
Claiming(b, length) == [b EXCEPT ![3] = Bytes(length)[1], ![4] = Bytes(length)[2]]
Sent(m) == IF m.head.length = 0 THEN Whole(m) ELSE Claiming(Whole(m), m.claim)
Datagram(m) == SubSeq(Sent(m), 1, Len(Whole(m)) - m.cut)

(* A message with the right Length or with none,                           *)
Message(isControl, priority, sequence, ns, nr, offset, avps, hasLength, cut) ==
  LET head(n) ==
        [isControl |-> isControl, priority |-> priority, sequence |-> sequence,
         tunnelID |-> 258, sessionID |-> 65535,
         ns |-> IF sequence THEN ns ELSE 0, nr |-> IF sequence THEN nr ELSE 0,
         length |-> n, offset |-> offset]
      m(n) == [head |-> head(n), avps |-> avps, claim |-> n, cut |-> cut] IN
  m(IF hasLength THEN Len(Whole(m(0))) + 2 ELSE 0)

(* and the values of Length it may be sent with: a peer writes any.        *)
Claims(m) == IF m.head.length = 0 THEN {0} ELSE Lengths \cup {m.head.length}

Init ==
  /\ \E isControl, priority, sequence, hasLength \in BOOLEAN,
        ns, nr \in Words, offset \in Offsets, cut \in Cuts,
        avps \in AVPLists :
       LET m == Message(isControl, priority, sequence, ns, nr, offset, avps,
                        hasLength, cut) IN
       /\ cut <= Len(Whole(m)) /\ Len(Whole(m)) <= MaxDatagram
       /\ \E claim \in Claims(m) : msg = [m EXCEPT !.claim = claim]
  /\ inbox = 0 /\ copies = 0 /\ tasks = 0 /\ replies = <<>>
  /\ server = "serving"

Arrive ==
  /\ copies < MaxCopies
  /\ copies' = copies + 1 /\ inbox' = inbox + 1
  /\ UNCHANGED <<msg, tasks, replies, server>>

(* One turn of the loop of Serve.                                          *)
ReadFrom ==
  /\ server = "serving"
  /\ inbox > 0
  /\ inbox' = inbox - 1 /\ tasks' = tasks + 1
  /\ UNCHANGED <<msg, copies, replies, server>>

(* The socket fails: Serve closes it and returns.                          *)
ReadErr ==
  /\ server = "serving"
  /\ server' = "returned"
  /\ UNCHANGED <<msg, inbox, copies, tasks, replies>>

(* handle.  recoverAsError is not itself the deferred function, so that    *)
(* its recover returns nil and a panic ends the process.  Nothing is       *)
(* written to a socket that is closed.                                     *)
handle ==
  LET result == Result(Datagram(msg)) IN
  /\ server # "crashed"
  /\ tasks > 0
  /\ tasks' = tasks - 1
  /\ server' = IF result.res = "panic" THEN "crashed" ELSE server
  /\ replies' = IF result.res = "reply" /\ server = "serving"
                THEN Append(replies, result.reply) ELSE replies
  /\ UNCHANGED <<msg, inbox, copies>>

Next == Arrive \/ ReadFrom \/ ReadErr \/ handle

Spec == Init /\ [][Next]_vars

-----------------------------------------------------------------------------
(* Type correctness; what is sent consists of bytes.                       *)
TypeOK ==
  /\ msg \in [head : Header, avps : Seq(AVP), claim : Word, cut : Cuts]
  /\ Datagram(msg) \in Seq(Byte)
  /\ inbox \in 0 .. MaxCopies /\ copies \in 0 .. MaxCopies /\ tasks \in 0 .. MaxCopies
  /\ replies \in Seq(Seq(Byte))
  /\ server \in {"serving", "returned", "crashed"}

(* A message reads back as it was written, header and AVPs, with a Length  *)
(* and without: as long as that is the right one, it has no offset, whose  *)
(* pad encode forgets, and no value of more than 1017 bytes, whose length  *)
(* does not fit ten bits.                                                  *)
Legal(m) ==
  /\ m.claim = m.head.length
  /\ m.head.isControl => m.head.sequence
  /\ m.head.offset = 0
  /\ \A a \in ToSet(m.avps) : Len(a.value) <= 1017

RoundTrip ==
  (Legal(msg) /\ msg.cut = 0) =>
    LET parsed == parseHeader(Datagram(msg)) IN
    /\ parsed = [res |-> "ok", head |-> msg.head, payload |-> Payload(msg)]
    /\ parseAVPs(parsed.payload) = [ok |-> TRUE, avps |-> msg.avps]

(* Where parseHeader takes a message to end, and where its header ends.    *)
End(m) == IF m.head.length = 0 THEN Len(Datagram(m)) ELSE m.claim
HeaderEnd(m) == Len(encode(m.head))

(* An answer is itself a control message of the tunnel and session of the  *)
(* message; there is one for each copy of a legal message while Serve      *)
(* runs, and none to data or to a message that ends with its header.       *)
RepliesMatch ==
  /\ (server = "serving" /\ Legal(msg) /\ msg.head.isControl /\ msg.avps # <<>>
        /\ msg.cut = 0) => Len(replies) = copies - inbox - tasks
  /\ \A r \in ToSet(replies) :
       LET parsed == parseHeader(r) IN
       /\ msg.head.isControl /\ End(msg) > HeaderEnd(msg)
       /\ parsed.res = "ok" /\ parsed.head.isControl /\ parsed.payload = <<>>
       /\ parsed.head.tunnelID = msg.head.tunnelID
       /\ parsed.head.sessionID = msg.head.sessionID

(* What ends the process: a header with an offset, one that is not whole,  *)
(* because the message is cut or its Length is smaller, and a control      *)
(* message that ends with its header, before any AVP.  Nothing else does;  *)
(* and one whose Length says more than has arrived is refused.             *)
Survives ==
  /\ server = "crashed" =>
       \/ msg.head.offset > 0
       \/ End(msg) < HeaderEnd(msg)
       \/ msg.head.isControl /\ End(msg) = HeaderEnd(msg)
  /\ End(msg) > Len(Datagram(msg)) => (replies = <<>> /\ server # "crashed")

=============================================================================
