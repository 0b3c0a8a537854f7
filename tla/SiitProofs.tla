---------------------------- MODULE SiitProofs ----------------------------
(***************************************************************************)
(* Proofs about Siit.  First the one's complement arithmetic, then what    *)
(* each translator does to the fields of any packet, then the inductive    *)
(* invariant, which says what pkt is in terms of the packet the exchange   *)
(* began with.                                                             *)
(***************************************************************************)
EXTENDS Siit, TLAPS, WellFoundedInduction

-----------------------------------------------------------------------------
(***************************************************************************)
(* One's complement arithmetic.                                            *)
(***************************************************************************)

(* Combine keeps words words.                                              *)
LEMMA CombineType ==
    ASSUME NEW a \in Words, NEW b \in Words
    PROVE  Combine(a, b) \in Words
BY SiitAssumption DEF Combine, Words

LEMMA NotType ==
    ASSUME NEW a \in Words
    PROVE  Not(a) \in Words
BY SiitAssumption DEF Not, Words

LEMMA WordType ==
    ASSUME NEW n \in Int
    PROVE  Word(n) \in Words
BY SiitAssumption DEF Word, Words

(* The end-around carry is commutative ...                                 *)
LEMMA CombineCommutes ==
    ASSUME NEW a \in Words, NEW b \in Words
    PROVE  Combine(a, b) = Combine(b, a)
BY SiitAssumption DEF Combine, Words

(* ... and associative.                                                    *)
LEMMA CombineAssociates ==
    ASSUME NEW a \in Words, NEW b \in Words, NEW c \in Words
    PROVE  Combine(Combine(a, b), c) = Combine(a, Combine(b, c))
BY SiitAssumption DEF Combine, Words

(* A checksum written as the complement of the sum verifies.               *)
LEMMA ComplementVerifies ==
    ASSUME NEW a \in Words
    PROVE  Combine(a, Not(a)) = Ones
BY SiitAssumption DEF Combine, Not, Words

(* siit46PartialUpdateTransportChecksum: both addresses gain the prefix.   *)
LEMMA PartialUpdate46 ==
    ASSUME NEW s \in Words, NEW d \in Words, NEW x \in Words, NEW ck \in Words,
           Combine(Combine(Combine(Combine(0, s), Combine(0, d)), x), ck) = Ones
    PROVE  Combine(Combine(Combine(Combine(Prefix, s), Combine(Prefix, d)), x),
                   siit46PartialUpdateTransportChecksum(ck)) = Ones
<1>1. Prefix \in 1..Ones /\ Ones \in Nat
    BY SiitAssumption
<1> QED
    BY <1>1 DEF Combine, Not, Words, siit46PartialUpdateTransportChecksum

(* siit64PartialUpdateTransportChecksum: both addresses lose the prefix;   *)
(* 192.0.0.1 keeps what is left from being zero.                           *)
LEMMA PartialUpdate64 ==
    ASSUME NEW s \in Words, NEW x \in Words, NEW ck \in Words,
           Combine(Combine(Combine(Combine(Prefix, s), Combine(Prefix, Placeholder)), x), ck) = Ones
    PROVE  Combine(Combine(Combine(Combine(0, s), Combine(0, Placeholder)), x),
                   siit64PartialUpdateTransportChecksum(ck, Prefix)) = Ones
<1>1. Prefix \in 1..Ones /\ Placeholder \in 1..Ones /\ Ones \in Nat
    BY SiitAssumption
<1> QED
    BY <1>1 DEF Combine, Not, Words, siit64PartialUpdateTransportChecksum

(* natPartialUpdateChecksum: one address becomes another, while the rest   *)
(* of what is covered, or the new address, is not zero.                    *)
LEMMA PartialUpdateNat ==
    ASSUME NEW old \in Address, NEW new \in Address, NEW x \in Words, NEW ck \in Words,
           x # 0 \/ new.hi # 0,
           Combine(Combine(Combine(old.hi, old.lo), x), ck) = Ones
    PROVE  Combine(Combine(Combine(new.hi, new.lo), x),
                   natPartialUpdateChecksum(ck, old, new)) = Ones
<1> DEFINE h == old.hi  l == old.lo  g == new.hi  m == new.lo
<1>1. h \in Words /\ l \in Words /\ g \in Words /\ m \in Words
    BY DEF Address
<1>2. Combine(Combine(Combine(h, l), x), ck) = Ones /\ (x # 0 \/ g # 0)
    OBVIOUS
<1> HIDE DEF h, l, g, m
<1>3. Combine(Combine(Combine(g, m), x),
              Not(Combine(Combine(Not(ck), Combine(g, Not(h))), Combine(m, Not(l))))) = Ones
    BY <1>1, <1>2, SiitAssumption, SMTT(60) DEF Combine, Not, Words
<1> QED
    BY <1>3 DEF natPartialUpdateChecksum, h, l, g, m

(* It stays a word.                                                        *)
LEMMA PartialUpdateTypes ==
    ASSUME NEW ck \in Words
    PROVE  /\ siit46PartialUpdateTransportChecksum(ck) \in Words
           /\ \A hi \in Words : siit64PartialUpdateTransportChecksum(ck, hi) \in Words
           /\ \A a, b \in Address : natPartialUpdateChecksum(ck, a, b) \in Words
<1>1. Prefix \in Words
    BY SiitAssumption DEF Words
<1>2. siit46PartialUpdateTransportChecksum(ck) \in Words
    BY <1>1, CombineType, NotType DEF siit46PartialUpdateTransportChecksum
<1>3. ASSUME NEW hi \in Words PROVE siit64PartialUpdateTransportChecksum(ck, hi) \in Words
    BY <1>1, CombineType, NotType DEF siit64PartialUpdateTransportChecksum
<1>4. ASSUME NEW a \in Address, NEW b \in Address
      PROVE  natPartialUpdateChecksum(ck, a, b) \in Words
    <2>1. a.hi \in Words /\ a.lo \in Words /\ b.hi \in Words /\ b.lo \in Words
        BY DEF Address
    <2> QED
        BY <2>1, CombineType, NotType DEF natPartialUpdateChecksum
<1> QED
    BY <1>2, <1>3, <1>4

-----------------------------------------------------------------------------
(***************************************************************************)
(* Packets.                                                                *)
(***************************************************************************)

(* What a transport checksum covers besides the addresses.                 *)
Payload(p) ==
    IF p.proto = ICMP6 THEN Combine(Combine(Word(p.len), Word(ICMP6)), IcmpSum(p))
    ELSE p.data

LEMMA Fields ==
    ASSUME NEW p \in Packet
    PROVE  /\ p.src \in Address /\ p.dst \in Address
           /\ p.src.hi \in Words /\ p.src.lo \in Words /\ p.dst.hi \in Words /\ p.dst.lo \in Words
           /\ p.fam \in {4, 6} /\ p.proto \in Nat /\ p.hdr \in Nat /\ p.len \in Int /\ p.pad \in Int
           /\ p.off \in Nat /\ p.id \in Nat /\ p.more \in BOOLEAN
           /\ p.ck \in Words /\ p.data \in Words
           /\ p.type \in Nat /\ p.code \in Nat /\ p.rest \in Nat
           /\ Len(p.ext) \in Nat /\ p.quote \in Seq(Quote)
           /\ p # Nothing
BY DEF Packet, PacketWith, Address, Nothing

LEMMA Lengths ==
    ASSUME NEW p \in Packet
    PROVE  /\ HeaderLen(p) \in Nat /\ Size(p) \in Int /\ Have(p) \in Int
           /\ HeaderLen(p) = p.hdr + 8 * Len(p.ext)
           /\ Size(p) = p.hdr + 8 * Len(p.ext) + p.len
           /\ Have(p) = p.hdr + 8 * Len(p.ext) + p.len + p.pad
<1>1. p.hdr \in Nat /\ Len(p.ext) \in Nat /\ p.len \in Int /\ p.pad \in Int
    BY Fields
<1> DEFINE n == Len(p.ext)
<1>2. HeaderLen(p) = p.hdr + 8 * n /\ Size(p) = HeaderLen(p) + p.len /\ Have(p) = Size(p) + p.pad
    BY DEF HeaderLen, Size, Have
<1> HIDE DEF n
<1>3. 8 * n \in Nat
    BY <1>1 DEF n
<1> QED
    BY <1>1, <1>2, <1>3 DEF n

LEMMA AddrSumType ==
    ASSUME NEW s \in Address, NEW d \in Address
    PROVE  Combine(Combine(s.hi, s.lo), Combine(d.hi, d.lo)) \in Words
BY CombineType DEF Address

LEMMA QuotedAddresses ==
    ASSUME NEW p \in Packet, p.quote # <<>>
    PROVE  /\ p.quote[1] \in Quote
           /\ p.quote[1].src \in Address /\ p.quote[1].dst \in Address
<1>1. p.quote[1] \in Quote
    BY Fields
<1> QED
    BY <1>1 DEF Quote, PacketWith

LEMMA SumTypes ==
    ASSUME NEW p \in Packet
    PROVE  AddrSum(p) \in Words /\ IcmpSum(p) \in Words /\ Payload(p) \in Words
<1>1. AddrSum(p) \in Words
    BY Fields, AddrSumType DEF AddrSum
<1>2. p.quote # <<>> => AddrSum(p.quote[1]) \in Words
    BY QuotedAddresses, AddrSumType DEF AddrSum
<1>3. 0 \in Words
    BY SiitAssumption DEF Words
<1>4. Word(p.type + p.code + p.rest) \in Words
    <2>1. p.type + p.code + p.rest \in Nat
        BY Fields
    <2> QED
        BY <2>1, WordType
<1>5. IcmpSum(p) \in Words
    BY <1>2, <1>3, <1>4, Fields, CombineType DEF IcmpSum
<1>6. Word(p.len) \in Words /\ Word(ICMP6) \in Words
    BY Fields, WordType DEF ICMP6
<1>7. Payload(p) \in Words
    BY <1>5, <1>6, Fields, CombineType DEF Payload
<1> QED
    BY <1>1, <1>5, <1>7

(* Every transport but ICMPv4 covers the addresses and the payload.        *)
LEMMA CoveredSplit ==
    ASSUME NEW p \in Packet, p.proto # ICMP4
    PROVE  Covered(p) = Combine(AddrSum(p), Payload(p))
<1> DEFINE a == AddrSum(p)  b == Word(p.len)  c == Word(ICMP6)  d == IcmpSum(p)
<1>1. CASE p.proto = ICMP6
    <2>1. a \in Words /\ b \in Words /\ c \in Words /\ d \in Words
        BY SumTypes, Fields, WordType DEF ICMP6
    <2>2. Covered(p) = Combine(Combine(Combine(a, b), c), d)
        BY <1>1 DEF Covered, ICMP6, ICMP4
    <2>3. Payload(p) = Combine(Combine(b, c), d)
        BY <1>1 DEF Payload
    <2> HIDE DEF a, b, c, d
    <2>4. Combine(Combine(Combine(a, b), c), d) = Combine(Combine(a, Combine(b, c)), d)
        BY <2>1, CombineAssociates
    <2>5. Combine(Combine(a, Combine(b, c)), d) = Combine(a, Combine(Combine(b, c), d))
        BY <2>1, CombineAssociates, CombineType
    <2> QED
        BY <2>2, <2>3, <2>4, <2>5 DEF a
<1>2. CASE p.proto # ICMP6
    BY <1>2 DEF Covered, Payload
<1> QED
    BY <1>1, <1>2

LEMMA FreshVerifies ==
    ASSUME NEW p \in Packet
    PROVE  Covered(p) \in Words /\ Fresh(p) \in Words /\ Combine(Covered(p), Fresh(p)) = Ones
<1>1. Covered(p) \in Words
    <2>1. CASE p.proto = ICMP4
        BY <2>1, SumTypes DEF Covered, ICMP4, ICMP6
    <2>2. CASE p.proto # ICMP4
        BY <2>2, SumTypes, CoveredSplit, CombineType
    <2> QED
        BY <2>1, <2>2
<1> QED
    BY <1>1, NotType, ComplementVerifies DEF Fresh

-----------------------------------------------------------------------------
(***************************************************************************)
(* IPv4 to IPv6.                                                           *)
(***************************************************************************)

LEMMA SiitAddress ==
    /\ \A a \in Words : Siit(a) \in Address /\ V4(a) \in Address
    /\ clatV6 \in Address /\ Siit(Placeholder) \in Address
    /\ Prefix \in Words /\ Prefix # 0 /\ Placeholder \in Words /\ Placeholder # 0 /\ 0 \in Words
<1>1. /\ Prefix \in Words /\ Prefix # 0 /\ Placeholder \in Words /\ Placeholder # 0
      /\ ClatHi \in Words /\ ClatLo \in Words /\ 0 \in Words
    BY SiitAssumption DEF Words
<1> QED
    BY <1>1 DEF Siit, V4, clatV6, Address

LEMMA Header46 ==
    ASSUME NEW p \in Packet
    PROVE  LET h == siit46TranslateHeader(p)
           IN /\ h \in Packet
              /\ h.fam = 6 /\ h.hdr = 40 /\ h.len = p.len /\ h.pad = p.pad
              /\ h.src = Siit(p.src.lo) /\ h.dst = Siit(p.dst.lo)
              /\ h.proto = To6(p.proto)
              /\ h.ext = IF IsFragmented(p) THEN <<[kind |-> "frag", bad |-> FALSE]>> ELSE <<>>
              /\ h.more = p.more /\ h.off = p.off /\ h.id = p.id
              /\ h.ck = p.ck /\ h.data = p.data /\ h.quote = p.quote
              /\ h.type = p.type /\ h.code = p.code /\ h.rest = p.rest
<1> DEFINE ext == IF IsFragmented(p) THEN <<[kind |-> "frag", bad |-> FALSE]>> ELSE <<>>
           proto == To6(p.proto)
           src == Siit(p.src.lo)
           dst == Siit(p.dst.lo)
<1>1. ext \in Seq(Extension)
    <2> DEFINE f == [kind |-> "frag", bad |-> FALSE]
    <2>1. f \in Extension
        BY Zenon DEF Extension
    <2> HIDE DEF f
    <2>2. <<f>> \in Seq(Extension) /\ <<>> \in Seq(Extension)
        BY <2>1
    <2> QED
        BY <2>2, Zenon DEF f
<1>2. proto \in Nat
    BY Fields DEF ICMP6, To6
<1>3. src \in Address /\ dst \in Address
    BY SiitAddress, Fields
<1>4. siit46TranslateHeader(p) =
        [p EXCEPT !.fam = 6, !.hdr = 40, !.ext = ext, !.proto = proto, !.src = src, !.dst = dst]
    BY Zenon DEF siit46TranslateHeader
<1> HIDE DEF ext, proto, src, dst
<1>5. [p EXCEPT !.fam = 6, !.hdr = 40, !.ext = ext, !.proto = proto, !.src = src, !.dst = dst]
        \in Packet
    BY <1>1, <1>2, <1>3 DEF Packet, PacketWith
<1> QED
    BY <1>4, <1>5 DEF ext, proto, src, dst, Packet, PacketWith

LEMMA QuoteIsPacket ==
    ASSUME NEW q \in Quote
    PROVE  q \in Packet
<1>1. <<>> \in Seq(Quote)
    OBVIOUS
<1> HIDE DEF Quote
<1>2. {<<>>} \subseteq Seq(Quote)
    BY <1>1
<1>3. q \in PacketWith({<<>>})
    BY DEF Quote
<1> QED
    BY <1>2, <1>3 DEF Packet, PacketWith

(* The plateau table is searched for its first entry below the packet.     *)
LEMMA PlateauType ==
    ASSUME NEW total
    PROVE  PlateauBelow(total) \in Nat
<1> DEFINE below == {i \in DOMAIN PlateauMTUs : PlateauMTUs[i] < total /\ PlateauMTUs[i] >= 68}
<1>1. DOMAIN PlateauMTUs = 1..12
    BY DEF PlateauMTUs
<1>2. \A i \in 1..12 : PlateauMTUs[i] \in Nat
    BY DEF PlateauMTUs
<1>3. below \subseteq Nat /\ below \subseteq 1..12
    BY <1>1
<1> HIDE DEF below
<1>4. ASSUME below # {} PROVE \E i \in below : \A j \in below : i <= j
    <2>1. PICK i \in below : \A j \in below : ~ (<<j, i>> \in OpToRel(<, Nat))
        BY <1>3, <1>4, WFMin, NatLessThanWellFounded, Zenon
    <2>2. \A j \in below : ~ (j < i)
        BY <2>1, <1>3, Zenon DEF OpToRel
    <2> QED
        BY <2>2, <1>3
<1>5. PlateauBelow(total) = IF below = {} THEN 68
                            ELSE PlateauMTUs[CHOOSE i \in below : \A j \in below : i <= j]
    BY Zenon DEF PlateauBelow, below
<1>6. ASSUME below # {}
      PROVE  (CHOOSE i \in below : \A j \in below : i <= j) \in below
    BY <1>4, <1>6, Zenon
<1> DEFINE first == CHOOSE i \in below : \A j \in below : i <= j
<1>7. PlateauBelow(total) = IF below = {} THEN 68 ELSE PlateauMTUs[first]
    BY <1>5, Zenon
<1>8. below # {} => first \in below
    BY <1>6, Zenon
<1> HIDE DEF first
<1>9. CASE below = {}
    BY <1>7, <1>9
<1>10. CASE below # {}
    <2>1. PlateauBelow(total) = PlateauMTUs[first] /\ first \in 1..12
        BY <1>3, <1>7, <1>8, <1>10, Zenon
    <2> QED
        BY <2>1, <1>2, Zenon
<1> QED
    BY <1>9, <1>10

LEMMA TooBig46Type ==
    ASSUME NEW p, p.rest \in Nat
    PROVE  TooBigMTU46(p) \in Nat
<1> DEFINE mtu == IF p.rest >= 68 THEN p.rest
                  ELSE IF p.quote = <<>> THEN 68 ELSE PlateauBelow(Size(p.quote[1]))
<1>1. mtu \in Nat
    BY PlateauType
<1>2. TooBigMTU46(p) = MaxOf(1280, MinOf(mtu + 20, MinOf(IPv6OutboundMTU, IPv4OutboundMTU + 20)))
    BY Zenon DEF TooBigMTU46
<1> HIDE DEF mtu
<1> QED
    BY <1>1, <1>2 DEF MaxOf, MinOf, IPv6OutboundMTU, IPv4OutboundMTU

(* What the rewriting of an ICMPv4 header makes of it.                     *)
Rewritten46(p, i, t, c, r) ==
    /\ i = [p EXCEPT !.type = t, !.code = c, !.rest = r]
    /\ p.type = 8 => t = 128
    /\ p.type = 0 => t = 129
    /\ p.type \notin {0, 8} => t \in {1, 2, 3, 4}

(* The ICMPv4 header becomes an ICMPv6 one; an error stays an error.       *)
LEMMA Icmp46 ==
    ASSUME NEW p \in Packet, isICMPv4PacketHeaderTranslatable(p.type, p.code, p.rest)
    PROVE  \E t, c, r \in Nat : Rewritten46(p, siit46TranslateICMPTransport(p), t, c, r)
<1> DEFINE is(t, c, r) == Rewritten46(p, siit46TranslateICMPTransport(p), t, c, r)
<1>0. p.type \in Nat /\ p.code \in Nat /\ p.rest \in Nat
    BY Fields
<1>1. CASE p.type = 8
    <2>1. is(128, p.code, p.rest)
        BY <1>1, SMT DEF siit46TranslateICMPTransport, Rewritten46
    <2> QED
        BY <2>1, <1>0, <1>1, SMT
<1>2. CASE p.type = 0
    <2>1. is(129, p.code, p.rest)
        BY <1>2, SMT DEF siit46TranslateICMPTransport, Rewritten46
    <2> QED
        BY <2>1, <1>0, <1>2, SMT
<1>3. CASE p.type = 11
    <2>1. is(3, p.code, p.rest)
        BY <1>3, SMT DEF siit46TranslateICMPTransport, Rewritten46
    <2> QED
        BY <2>1, <1>0, <1>3, SMT
<1>4. CASE p.type = 12
    <2> DEFINE r == Pointer46[p.rest \div 16777216]
    <2>1. is(4, 0, r)
        BY <1>4, SMT DEF siit46TranslateICMPTransport, Rewritten46
    <2>2. PICK ptr \in (0..3) \cup {8, 9} \cup (12..19) : p.rest = ptr * 16777216
        BY <1>4, SMT DEF isICMPv4PacketHeaderTranslatable
    <2>3. p.rest \div 16777216 = ptr
        BY <2>2, SMT
    <2>4. Pointer46[ptr] \in Nat
        BY <2>2 DEF Pointer46
    <2>5. r \in Nat
        BY <2>3, <2>4, SMT
    <2> QED
        BY <2>1, <2>5, <1>4, SMT
<1>5. CASE p.type = 3
    <2>1. p.code \in (0..15) \ {14}
        BY <1>5, SMT DEF isICMPv4PacketHeaderTranslatable
    <2>2. CASE p.code \in {0, 1, 5, 6, 7, 8, 11, 12}
        <3>1. is(1, 0, p.rest)
            BY <1>5, <2>2, SMT DEF siit46TranslateICMPTransport, Rewritten46
        <3> QED
            BY <3>1, <1>0, <1>5, SMT
    <2>3. CASE p.code \in {9, 10, 13, 15}
        <3>1. is(1, 1, p.rest)
            BY <1>5, <2>3, SMT DEF siit46TranslateICMPTransport, Rewritten46
        <3> QED
            BY <3>1, <1>0, <1>5, SMT
    <2>4. CASE p.code = 2
        <3>1. is(4, 1, 6)
            BY <1>5, <2>4, SMT DEF siit46TranslateICMPTransport, Rewritten46
        <3> QED
            BY <3>1, SMT
    <2>5. CASE p.code = 3
        <3>1. is(1, 4, p.rest)
            BY <1>5, <2>5, SMT DEF siit46TranslateICMPTransport, Rewritten46
        <3> QED
            BY <3>1, <1>0, <1>5, SMT
    <2>6. CASE p.code = 4
        <3>1. is(2, 0, TooBigMTU46(p))
            BY <1>5, <2>6, SMT DEF siit46TranslateICMPTransport, Rewritten46
        <3>2. TooBigMTU46(p) \in Nat
            BY <1>0, TooBig46Type
        <3> QED
            BY <3>1, <3>2, SMT
    <2> QED
        BY <2>1, <2>2, <2>3, <2>4, <2>5, <2>6
<1>6. p.type \in {0, 3, 8, 11, 12}
    BY SMT DEF isICMPv4PacketHeaderTranslatable
<1> QED
    BY <1>1, <1>2, <1>3, <1>4, <1>5, <1>6

LEMMA Quote46Type ==
    ASSUME NEW q \in Quote
    PROVE  Quote46(q) \in Quote
<1> DEFINE proto == To6(q.proto)
           type == IF q.proto # ICMP4 THEN q.type ELSE IF q.type = 8 THEN 128 ELSE 129
           src == Siit(q.src.lo)
           dst == Siit(q.dst.lo)
           moved == [q EXCEPT !.fam = 6, !.hdr = 40, !.proto = proto, !.type = type,
                              !.src = src, !.dst = dst]
<1>1. src \in Address /\ dst \in Address /\ proto \in Nat /\ type \in Nat
    <2>1. q \in Packet
        BY QuoteIsPacket
    <2> QED
        BY <2>1, Fields, SiitAddress DEF To6, ICMP6
<1>2. Quote46(q) = IF q.proto = ICMP4 THEN [moved EXCEPT !.ck = Fresh(moved)] ELSE moved
    BY Zenon DEF Quote46
<1>3. moved \in Quote
    <2> HIDE DEF proto, type, src, dst
    <2> QED
        BY <1>1 DEF Quote, PacketWith
<1> HIDE DEF moved
<1>4. Fresh(moved) \in Words
    BY <1>3, QuoteIsPacket, FreshVerifies
<1>5. [moved EXCEPT !.ck = Fresh(moved)] \in Quote
    BY <1>3, <1>4 DEF Quote, PacketWith
<1> QED
    BY <1>2, <1>3, <1>5

(* A quote that is translated adds 20 bytes to the error and takes 20 off  *)
(* the room in front of it.                                                *)
LEMMA ErrorQuote46 ==
    ASSUME NEW p \in Packet, NEW room \in Int
    PROVE  LET e == siit46TranslateICMPErrorQuote(p, room)
           IN \/ e.pkt = p /\ e.reserved = room
              \/ \E new \in Quote :
                    /\ p.quote # <<>>
                    /\ e.pkt = [p EXCEPT !.quote = <<new>>, !.len = p.len + 20]
                    /\ e.reserved = room - 20
<1> DEFINE keeps == ~QuoteTranslatable46(p) \/ room < 20
           new == Quote46(p.quote[1])
<1>1. CASE keeps
    BY <1>1 DEF siit46TranslateICMPErrorQuote
<1>2. CASE ~keeps
    <2>0. p.quote # <<>>
        BY <1>2 DEF QuoteTranslatable46
    <2>1. new \in Quote
        BY <2>0, QuotedAddresses, Quote46Type
    <2>2. siit46TranslateICMPErrorQuote(p, room) =
            [pkt |-> [p EXCEPT !.quote = <<new>>, !.len = p.len + 20], reserved |-> room - 20]
        BY <1>2, Zenon DEF siit46TranslateICMPErrorQuote
    <2> HIDE DEF new
    <2>3. LET e == siit46TranslateICMPErrorQuote(p, room)
          IN /\ e.pkt = [p EXCEPT !.quote = <<new>>, !.len = p.len + 20]
             /\ e.reserved = room - 20
        <3> DEFINE x == [p EXCEPT !.quote = <<new>>, !.len = p.len + 20]
        <3>1. siit46TranslateICMPErrorQuote(p, room) = [pkt |-> x, reserved |-> room - 20]
            BY <2>2, Zenon
        <3> HIDE DEF x
        <3>2. LET e == siit46TranslateICMPErrorQuote(p, room) IN e.pkt = x /\ e.reserved = room - 20
            BY <3>1
        <3> QED
            BY <3>2, Zenon DEF x
    <2> QED
        BY <2>0, <2>1, <2>3, Zenon
<1> QED
    BY <1>1, <1>2

LEMMA Update46 ==
    ASSUME NEW p \in Packet
    PROVE  \E c \in Words :
              /\ siit46UpdateTransportChecksum(p).pkt = [p EXCEPT !.ck = c]
              /\ p.off = 0 /\ p.len >= MinimumSize(p.proto) /\ p.proto \in Summed \cup {ICMP6}
                 => c = IF p.proto = ICMP6 \/ (p.proto = UDP /\ p.ck = 0) THEN Fresh(p)
                        ELSE siit46PartialUpdateTransportChecksum(p.ck)
<1> DEFINE u == siit46UpdateTransportChecksum(p)
           touched == p.off = 0 /\ p.len >= MinimumSize(p.proto) /\ p.proto \in Summed \cup {ICMP6}
           fresh == p.proto = ICMP6 \/ (p.proto = UDP /\ p.ck = 0)
           part == siit46PartialUpdateTransportChecksum(p.ck)
<1>0. Fresh(p) \in Words /\ part \in Words /\ p.ck \in Words /\ p.off \in Nat /\ p.len \in Int
    BY Fields, FreshVerifies, PartialUpdateTypes
<1>1. CASE ~touched
    <2>1. p.off # 0 \/ p.len < MinimumSize(p.proto) \/ p.proto \notin Summed \cup {ICMP6}
        BY <1>1, <1>0 DEF MinimumSize
    <2>2. /\ ~(p.proto = UDP /\ p.ck = 0 /\ p.off = 0 /\ p.len >= 8)
          /\ ~(p.proto = ICMP6 /\ p.off = 0 /\ p.len >= 8)
        BY <2>1, <1>0 DEF MinimumSize, Summed, UDP, ICMP6, TCP, DCCP
    <2>4. u.pkt = p
        BY <2>1, <2>2, SMT DEF siit46UpdateTransportChecksum
    <2>3. p = [p EXCEPT !.ck = p.ck]
        BY DEF Packet, PacketWith
    <2> QED
        BY <1>0, <1>1, <2>3, <2>4, Zenon
<1>2. CASE touched /\ fresh
    <2>1. ~(p.off # 0 \/ p.len < MinimumSize(p.proto) \/ p.proto \notin Summed \cup {ICMP6})
        BY <1>2, <1>0 DEF MinimumSize
    <2>2. p.len >= 8
        BY <1>2 DEF MinimumSize, ICMP6, UDP, TCP, DCCP
    <2>3. u.pkt = [p EXCEPT !.ck = Fresh(p)]
        BY <1>2, <2>1, <2>2, SMT DEF siit46UpdateTransportChecksum, ICMP6, UDP
    <2> QED
        BY <1>0, <1>2, <2>3, Zenon
<1>3. CASE touched /\ ~fresh
    <2>1. ~(p.off # 0 \/ p.len < MinimumSize(p.proto) \/ p.proto \notin Summed \cup {ICMP6})
        BY <1>3, <1>0 DEF MinimumSize
    <2>2. u.pkt = [p EXCEPT !.ck = part]
        BY <1>3, <2>1, SMT DEF siit46UpdateTransportChecksum
    <2> QED
        BY <1>0, <1>3, <2>2, Zenon
<1> QED
    BY <1>1, <1>2, <1>3

(* q is the packet p after SIIT46, whatever its source address and its     *)
(* checksum.                                                               *)
Carried(p, q) ==
    /\ q \in Packet
    /\ q.fam = 6 /\ q.hdr = 40 /\ q.pad = p.pad /\ q.dst = Siit(p.dst.lo)
    /\ q.proto = To6(p.proto) /\ q.more = p.more /\ q.off = p.off /\ q.id = p.id
    /\ q.ext = IF IsFragmented(p) THEN <<[kind |-> "frag", bad |-> FALSE]>> ELSE <<>>
    /\ q.len \in {p.len, p.len + 20}
    /\ p.quote = <<>> => q.len = p.len /\ q.quote = <<>>
    /\ p.proto # ICMP4 => q.len = p.len /\ q.quote = p.quote /\ q.type = p.type
    /\ p.proto = ICMP4 =>
          /\ p.len >= 8 /\ ~IsFragmented(p)
          /\ q.type \in {1, 2, 3, 4, 128, 129}
          /\ q.type \in {128, 129} => p.type \in {0, 8}
    /\ p.pad >= 0 /\ p.proto # ICMP6

(* What goes into the checksum step of a packet that translates, and the   *)
(* bytes its header and quote grow by.                                     *)
LEMMA Body46 ==
    ASSUME NEW p \in Packet, WellFormed(p), p.fam = 4,
           SIIT46InPlaceTranslate(p, 48).res = "translated"
    PROVE  \E b :
              /\ Carried(p, b) /\ b.src = Siit(p.src.lo) /\ b.ck = p.ck /\ b.data = p.data
              /\ SIIT46InPlaceTranslate(p, 48).pkt = siit46UpdateTransportChecksum(b).pkt
              /\ SIIT46InPlaceTranslate(p, 48).reserved = 48 + Have(p) - Have(b)
<1> DEFINE made == makeRoomForIPv6Header(p, 48)
           head == siit46TranslateHeader(p)
           icmp == siit46TranslateICMPTransport(head)
           body == IF head.proto # ICMP6 THEN [pkt |-> head, reserved |-> made]
                   ELSE IF icmp.type \in {128, 129} THEN [pkt |-> icmp, reserved |-> made]
                        ELSE siit46TranslateICMPErrorQuote(icmp, made)
           done == siit46UpdateTransportChecksum(body.pkt)
           ends == QuoteTranslatable46(p) /\ made >= 20 /\ QuoteOutOfRange(p)
           t == SIIT46InPlaceTranslate(p, 48)
<1>1. t = IF ~parseSIIT46IPv4Packet(p) THEN [res |-> "untranslated", pkt |-> p, reserved |-> 48]
          ELSE IF made < 0 THEN [res |-> "dropped", pkt |-> p, reserved |-> 48]
          ELSE IF ends THEN [res |-> "aborted", pkt |-> p, reserved |-> 48]
          ELSE [res |-> done.res, pkt |-> done.pkt, reserved |-> body.reserved]
    BY Zenon DEF SIIT46InPlaceTranslate
<1>2. parseSIIT46IPv4Packet(p) /\ ~(made < 0) /\ ~ends
    <2>1. CASE ~parseSIIT46IPv4Packet(p)
        BY <1>1, <2>1
    <2>2. CASE parseSIIT46IPv4Packet(p) /\ made < 0
        <3> HIDE DEF made, t
        <3> QED
            BY <1>1, <2>2 DEF t
    <2>3. CASE parseSIIT46IPv4Packet(p) /\ ~(made < 0) /\ ends
        <3> HIDE DEF made, ends, t
        <3> QED
            BY <1>1, <2>3 DEF t
    <2> QED
        BY <2>1, <2>2, <2>3
<1>3. t.pkt = done.pkt /\ t.reserved = body.reserved
    <2> HIDE DEF made, ends, body, done, t
    <2> QED
        BY <1>1, <1>2
<1>4. /\ p.pad >= 0 /\ p.proto # ICMP6
      /\ p.proto = ICMP4 => /\ p.len >= 8 /\ ~IsFragmented(p)
                            /\ isICMPv4PacketHeaderTranslatable(p.type, p.code, p.rest)
    BY <1>2 DEF parseSIIT46IPv4Packet, isTransportProtocolForbidden, ICMP6
<1>5. made \in Int /\ made = 48 + p.hdr - (40 + IF IsFragmented(p) THEN 8 ELSE 0)
    BY <1>2, Fields DEF makeRoomForIPv6Header
<1>6. /\ head \in Packet
      /\ head.fam = 6 /\ head.hdr = 40 /\ head.len = p.len /\ head.pad = p.pad
      /\ head.src = Siit(p.src.lo) /\ head.dst = Siit(p.dst.lo) /\ head.proto = To6(p.proto)
      /\ head.ext = IF IsFragmented(p) THEN <<[kind |-> "frag", bad |-> FALSE]>> ELSE <<>>
      /\ head.more = p.more /\ head.off = p.off /\ head.id = p.id
      /\ head.ck = p.ck /\ head.data = p.data /\ head.quote = p.quote
      /\ head.type = p.type /\ head.code = p.code /\ head.rest = p.rest
    BY Header46, Zenon
<1>7. made = 48 + Have(p) - Have(head) /\ Have(p) \in Int /\ Have(head) \in Int
    <2>1. Len(head.ext) = IF IsFragmented(p) THEN 1 ELSE 0
        BY <1>6
    <2>2. Len(p.ext) = 0
        BY DEF WellFormed
    <2>3. p.hdr \in Nat /\ p.len \in Int /\ p.pad \in Int /\ head \in Packet
        BY <1>6, Fields
    <2> HIDE DEF made, head
    <2>4. Have(head) = 40 + 8 * Len(head.ext) + p.len + p.pad
        BY <1>6, <2>3, Lengths
    <2>5. Have(p) = p.hdr + p.len + p.pad
        BY <2>2, <2>3, Lengths
    <2> QED
        BY <1>5, <2>1, <2>3, <2>4, <2>5
<1> HIDE DEF made, head, icmp
<1>8. CASE p.proto # ICMP4
    <2>1. body.pkt = head /\ body.reserved = made
        BY <1>4, <1>6, <1>8 DEF To6
    <2>2. Carried(p, head)
        BY <1>4, <1>6, <1>8, SMT DEF Carried
    <2> HIDE DEF body, done, t
    <2>3. t.pkt = siit46UpdateTransportChecksum(head).pkt /\ t.reserved = 48 + Have(p) - Have(head)
        BY <1>3, <1>7, <2>1 DEF done
    <2> QED
        BY <1>6, <2>2, <2>3 DEF t
<1>9. CASE p.proto = ICMP4
    <2>1. PICK ty \in Nat, c \in Nat, rs \in Nat : Rewritten46(head, icmp, ty, c, rs)
        BY <1>4, <1>6, <1>9, Icmp46 DEF icmp
    <2>2. icmp = [head EXCEPT !.type = ty, !.code = c, !.rest = rs]
        BY <2>1 DEF Rewritten46
    <2>3. /\ icmp \in Packet
          /\ icmp.fam = 6 /\ icmp.hdr = 40 /\ icmp.len = p.len /\ icmp.pad = p.pad
          /\ icmp.src = Siit(p.src.lo) /\ icmp.dst = Siit(p.dst.lo) /\ icmp.proto = To6(p.proto)
          /\ icmp.ext = head.ext /\ icmp.type = ty
          /\ icmp.more = p.more /\ icmp.off = p.off /\ icmp.id = p.id
          /\ icmp.ck = p.ck /\ icmp.data = p.data /\ icmp.quote = p.quote
        BY <1>6, <2>2 DEF Packet, PacketWith
    <2>4. ty \in {1, 2, 3, 4, 128, 129} /\ (ty \in {128, 129} => p.type \in {0, 8})
        BY <1>6, <2>1, Fields DEF Rewritten46
    <2>5. Have(icmp) = Have(head)
        BY <1>6, <2>3 DEF Have, Size, HeaderLen
    <2>6. CASE ty \in {128, 129}
        <3>1. body.pkt = icmp /\ body.reserved = made
            BY <1>6, <1>9, <2>3, <2>6 DEF To6
        <3>2. Carried(p, icmp)
            BY <1>4, <1>6, <1>9, <2>3, <2>4, SMT DEF Carried
        <3> HIDE DEF body, done, t
        <3>3. /\ t.pkt = siit46UpdateTransportChecksum(icmp).pkt
              /\ t.reserved = 48 + Have(p) - Have(icmp)
            BY <1>3, <1>7, <2>5, <3>1 DEF done
        <3> QED
            BY <2>3, <3>2, <3>3 DEF t
    <2>7. CASE ty \notin {128, 129}
        <3> DEFINE e == siit46TranslateICMPErrorQuote(icmp, made)
                   q == e.pkt
        <3>1. body = e
            BY <1>6, <1>9, <2>3, <2>7 DEF To6
        <3>2. CASE q = icmp /\ e.reserved = made
            <4>1. Carried(p, icmp)
                BY <1>4, <1>6, <1>9, <2>3, <2>4, SMT DEF Carried
            <4> HIDE DEF body, done, t, e
            <4>2. /\ t.pkt = siit46UpdateTransportChecksum(icmp).pkt
                  /\ t.reserved = 48 + Have(p) - Have(icmp)
                BY <1>3, <1>7, <2>5, <3>1, <3>2 DEF done
            <4> QED
                BY <2>3, <4>1, <4>2 DEF t
        <3>3. ASSUME NEW new \in Quote, icmp.quote # <<>>, e.reserved = made - 20,
                     q = [icmp EXCEPT !.quote = <<new>>, !.len = icmp.len + 20]
              PROVE  \E b :
                        /\ Carried(p, b) /\ b.src = Siit(p.src.lo) /\ b.ck = p.ck
                        /\ b.data = p.data
                        /\ SIIT46InPlaceTranslate(p, 48).pkt = siit46UpdateTransportChecksum(b).pkt
                        /\ SIIT46InPlaceTranslate(p, 48).reserved = 48 + Have(p) - Have(b)
            <4>1. <<new>> \in Seq(Quote) /\ icmp.len + 20 \in Int
                BY <2>3, Fields
            <4> HIDE DEF body, done, t, e, q
            <4>2. /\ q \in Packet
                  /\ q.fam = 6 /\ q.hdr = 40 /\ q.len = p.len + 20 /\ q.pad = p.pad
                  /\ q.src = Siit(p.src.lo) /\ q.dst = Siit(p.dst.lo) /\ q.proto = To6(p.proto)
                  /\ q.ext = head.ext /\ q.type = ty
                  /\ q.more = p.more /\ q.off = p.off /\ q.id = p.id
                  /\ q.ck = p.ck /\ q.data = p.data
                BY <2>3, <3>3, <4>1 DEF Packet, PacketWith
            <4>3. Carried(p, q)
                BY <1>4, <1>6, <1>9, <2>3, <2>4, <3>3, <4>2, SMT DEF Carried
            <4>4. Have(q) = Have(head) + 20
                <5>1. p.len \in Int /\ p.pad \in Int /\ Len(head.ext) \in Nat
                    BY <1>6, Fields
                <5>2. Have(head) = 40 + 8 * Len(head.ext) + p.len + p.pad
                    BY <1>6, Lengths
                <5>3. Have(q) = 40 + 8 * Len(head.ext) + (p.len + 20) + p.pad
                    BY <4>2, Lengths
                <5> QED
                    BY <5>1, <5>2, <5>3
            <4>5. /\ t.pkt = siit46UpdateTransportChecksum(q).pkt
                  /\ t.reserved = 48 + Have(p) - Have(q)
                BY <1>3, <1>5, <1>7, <3>1, <3>3, <4>4 DEF done, q
            <4> QED
                BY <4>2, <4>3, <4>5 DEF t
        <3>4. \/ q = icmp /\ e.reserved = made
              \/ \E new \in Quote : /\ icmp.quote # <<>>
                                    /\ q = [icmp EXCEPT !.quote = <<new>>, !.len = icmp.len + 20]
                                    /\ e.reserved = made - 20
            <4>1. made \in Int /\ icmp \in Packet
                BY <1>5, <2>3
            <4> QED
                BY <4>1, ErrorQuote46, Zenon
        <3> HIDE DEF q, e
        <3> QED
            BY <3>2, <3>3, <3>4, Zenon
    <2> QED
        BY <2>6, <2>7
<1> QED
    BY <1>8, <1>9

-----------------------------------------------------------------------------
(***************************************************************************)
(* NAT66.                                                                  *)
(***************************************************************************)

LEMMA CombineNonzero ==
    ASSUME NEW a \in Words, NEW b \in Words, a # 0 \/ b # 0
    PROVE  Combine(a, b) # 0
BY SiitAssumption DEF Combine, Words

SumOf(a) == Combine(a.hi, a.lo)

(* A packet with another source, or destination, and another checksum.     *)
WithSrc(p, a, c) == [p EXCEPT !.src = a, !.ck = c]
WithDst(p, a, c) == [p EXCEPT !.dst = a, !.ck = c]

(* NAT66 knows where the checksum is.                                      *)
NAT66Sums(p) == NAT66Sees(p) /\ p.proto \in Summed \cup {ICMP6}

(* It ends before the address is written.                                  *)
NAT66Short(p) == NAT66Sums(p) /\ p.len + p.pad < MinimumSize(p.proto)

(* What is covered, with one address taken out.                            *)
LEMMA CoveredBy ==
    ASSUME NEW p \in Packet, p.proto # ICMP4
    PROVE  /\ Covered(p) = Combine(SumOf(p.src), Combine(SumOf(p.dst), Payload(p)))
           /\ Covered(p) = Combine(SumOf(p.dst), Combine(SumOf(p.src), Payload(p)))
           /\ SumOf(p.src) \in Words /\ SumOf(p.dst) \in Words /\ Payload(p) \in Words
<1> DEFINE s == SumOf(p.src)  d == SumOf(p.dst)  x == Payload(p)
<1>1. s \in Words /\ d \in Words /\ x \in Words
    BY Fields, SumTypes, CombineType DEF SumOf
<1>2. Covered(p) = Combine(Combine(s, d), x)
    BY CoveredSplit DEF AddrSum, SumOf
<1> HIDE DEF s, d, x
<1>3. Covered(p) = Combine(s, Combine(d, x))
    BY <1>1, <1>2, CombineAssociates
<1>4. Covered(p) = Combine(d, Combine(s, x))
    BY <1>1, <1>2, CombineAssociates, CombineCommutes
<1> QED
    BY <1>1, <1>3, <1>4 DEF s, d, x

LEMMA PayloadKept ==
    ASSUME NEW p \in Packet, NEW q \in Packet,
           q.proto = p.proto, q.len = p.len, q.data = p.data, q.type = p.type, q.code = p.code,
           q.rest = p.rest, q.quote = p.quote
    PROVE  Payload(q) = Payload(p)
BY DEF Payload, IcmpSum

(* The source is rewritten and the checksum follows.                       *)
LEMMA Nat66Src ==
    ASSUME NEW p \in Packet, NEW to \in Address,
           NEW n, n = NAT66InPlaceTranslateAddress(p, to, "src")
    PROVE  /\ NAT66Short(p) => n = p
           /\ ~NAT66Short(p) => \E c \in Words : n = WithSrc(p, to, c)
           /\ NAT66Sums(p) /\ ~NAT66Short(p) /\ Verified(p) /\ (p.dst.hi # 0 \/ to.hi # 0)
              => Verified(n)
<1> DEFINE part == natPartialUpdateChecksum(p.ck, p.src, to)
           c == IF NAT66Sums(p) THEN part ELSE p.ck
           m == WithSrc(p, to, c)
<1>1. n = IF NAT66Short(p) THEN p ELSE m
    BY Zenon DEF NAT66InPlaceTranslateAddress, NAT66Short, NAT66Sums, WithSrc
<1>2. c \in Words
    BY Fields, PartialUpdateTypes
<1>3. ASSUME NAT66Sums(p), Verified(p), p.dst.hi # 0 \/ to.hi # 0
      PROVE  Verified(m)
    <2>1. c = part /\ p.proto # ICMP4
        BY <1>3 DEF NAT66Sums, Summed, ICMP4, ICMP6, TCP, UDP, DCCP
    <2> HIDE DEF c
    <2>2. /\ m \in Packet
          /\ m.src = to /\ m.dst = p.dst /\ m.ck = c /\ m.proto = p.proto /\ m.len = p.len
          /\ m.data = p.data /\ m.type = p.type /\ m.code = p.code /\ m.rest = p.rest
          /\ m.quote = p.quote
        BY <1>2 DEF Packet, PacketWith, WithSrc
    <2> HIDE DEF m
    <2>3. Payload(m) = Payload(p)
        BY <2>2, PayloadKept
    <2> DEFINE x == Combine(SumOf(p.dst), Payload(p))
    <2>4. /\ Covered(p) = Combine(SumOf(p.src), x)
          /\ Covered(m) = Combine(SumOf(to), x)
        BY <2>1, <2>2, <2>3, CoveredBy
    <2>5. x \in Words /\ (p.dst.hi # 0 => x # 0)
        <3>1. p.dst.hi # 0 => SumOf(p.dst) # 0
            BY Fields, CombineNonzero DEF SumOf
        <3> QED
            BY <3>1, <2>1, CoveredBy, CombineType, CombineNonzero
    <2> HIDE DEF x
    <2>6. Combine(Combine(SumOf(to), x), part) = Ones
        BY <1>3, <2>4, <2>5, Fields, PartialUpdateNat DEF Verified, SumOf
    <2> QED
        BY <2>1, <2>2, <2>4, <2>6 DEF Verified
<1> HIDE DEF c
<1> QED
    BY <1>1, <1>2, <1>3, Zenon

(* The same for the destination.                                           *)
LEMMA Nat66Dst ==
    ASSUME NEW p \in Packet, NEW to \in Address,
           NEW n, n = NAT66InPlaceTranslateAddress(p, to, "dst")
    PROVE  /\ NAT66Short(p) => n = p
           /\ ~NAT66Short(p) => \E c \in Words : n = WithDst(p, to, c)
           /\ NAT66Sums(p) /\ ~NAT66Short(p) /\ Verified(p) /\ (p.src.hi # 0 \/ to.hi # 0)
              => Verified(n)
<1> DEFINE part == natPartialUpdateChecksum(p.ck, p.dst, to)
           c == IF NAT66Sums(p) THEN part ELSE p.ck
           m == WithDst(p, to, c)
<1>1. n = IF NAT66Short(p) THEN p ELSE m
    BY Zenon DEF NAT66InPlaceTranslateAddress, NAT66Short, NAT66Sums, WithDst
<1>2. c \in Words
    BY Fields, PartialUpdateTypes
<1>3. ASSUME NAT66Sums(p), Verified(p), p.src.hi # 0 \/ to.hi # 0
      PROVE  Verified(m)
    <2>1. c = part /\ p.proto # ICMP4
        BY <1>3 DEF NAT66Sums, Summed, ICMP4, ICMP6, TCP, UDP, DCCP
    <2> HIDE DEF c
    <2>2. /\ m \in Packet
          /\ m.dst = to /\ m.src = p.src /\ m.ck = c /\ m.proto = p.proto /\ m.len = p.len
          /\ m.data = p.data /\ m.type = p.type /\ m.code = p.code /\ m.rest = p.rest
          /\ m.quote = p.quote
        BY <1>2 DEF Packet, PacketWith, WithDst
    <2> HIDE DEF m
    <2>3. Payload(m) = Payload(p)
        BY <2>2, PayloadKept
    <2> DEFINE x == Combine(SumOf(p.src), Payload(p))
    <2>4. /\ Covered(p) = Combine(SumOf(p.dst), x)
          /\ Covered(m) = Combine(SumOf(to), x)
        BY <2>1, <2>2, <2>3, CoveredBy
    <2>5. x \in Words /\ (p.src.hi # 0 => x # 0)
        <3>1. p.src.hi # 0 => SumOf(p.src) # 0
            BY Fields, CombineNonzero DEF SumOf
        <3> QED
            BY <3>1, <2>1, CoveredBy, CombineType, CombineNonzero
    <2> HIDE DEF x
    <2>6. Combine(Combine(SumOf(to), x), part) = Ones
        BY <1>3, <2>4, <2>5, Fields, PartialUpdateNat DEF Verified, SumOf
    <2> QED
        BY <2>1, <2>2, <2>4, <2>6 DEF Verified
<1> HIDE DEF c
<1> QED
    BY <1>1, <1>2, <1>3, Zenon

-----------------------------------------------------------------------------
(***************************************************************************)
(* The packet on the tun.                                                  *)
(***************************************************************************)
LEMMA CoveredKept ==
    ASSUME NEW p \in Packet, NEW q \in Packet,
           q.src = p.src, q.dst = p.dst, q.proto = p.proto, q.len = p.len, q.data = p.data,
           q.type = p.type, q.code = p.code, q.rest = p.rest, q.quote = p.quote
    PROVE  Covered(q) = Covered(p)
BY DEF Covered, AddrSum, IcmpSum

(* Whether an address or a checksum differs does not matter to Carried.    *)
LEMMA CarriedKept ==
    ASSUME NEW p, NEW b \in Packet, Carried(p, b), NEW a \in Address, NEW c \in Words,
           NEW q, q = WithSrc(b, a, c)
    PROVE  /\ Carried(p, q) /\ q.src = a /\ q.ck = c /\ q.data = b.data
           /\ q.type = b.type /\ q.code = b.code /\ q.rest = b.rest /\ q.quote = b.quote
           /\ q.len = b.len /\ Have(q) = Have(b)
<1>1. /\ q \in Packet
      /\ q.src = a /\ q.ck = c /\ q.fam = b.fam /\ q.hdr = b.hdr /\ q.pad = b.pad /\ q.dst = b.dst
      /\ q.proto = b.proto /\ q.more = b.more /\ q.off = b.off /\ q.id = b.id /\ q.ext = b.ext
      /\ q.len = b.len /\ q.quote = b.quote /\ q.type = b.type /\ q.code = b.code
      /\ q.rest = b.rest /\ q.data = b.data
    BY DEF Packet, PacketWith, WithSrc
<1>2. Carried(p, q)
    BY <1>1, Zenon DEF Carried
<1>3. Have(q) = Have(b)
    BY <1>1, Zenon DEF Have, Size, HeaderLen
<1> QED
    BY <1>1, <1>2, <1>3, Zenon

(* SIIT46: the packet is carried, its length is the slice's, and a         *)
(* checksum that was right is right.                                       *)
LEMMA Siit46 ==
    ASSUME NEW p \in Packet, WellFormed(p), p.fam = 4,
           SIIT46InPlaceTranslate(p, 48).res = "translated"
    PROVE  LET t == SIIT46InPlaceTranslate(p, 48)
           IN /\ Carried(p, t.pkt) /\ t.pkt.src = Siit(p.src.lo)
              /\ t.reserved = 48 + Have(p) - Have(t.pkt)
              /\ Summable(t.pkt) /\ SumGood(p) => Verified(t.pkt)
<1> DEFINE t == SIIT46InPlaceTranslate(p, 48)
           q == t.pkt
<1>1. PICK b : /\ Carried(p, b) /\ b.src = Siit(p.src.lo) /\ b.ck = p.ck /\ b.data = p.data
               /\ q = siit46UpdateTransportChecksum(b).pkt
               /\ t.reserved = 48 + Have(p) - Have(b)
    BY Body46, Zenon
<1>2. b \in Packet /\ b.dst = Siit(p.dst.lo) /\ b.proto = To6(p.proto)
    BY <1>1 DEF Carried
<1>3. PICK c \in Words :
              /\ q = [b EXCEPT !.ck = c]
              /\ b.off = 0 /\ b.len >= MinimumSize(b.proto) /\ b.proto \in Summed \cup {ICMP6}
                 => c = IF b.proto = ICMP6 \/ (b.proto = UDP /\ b.ck = 0) THEN Fresh(b)
                        ELSE siit46PartialUpdateTransportChecksum(b.ck)
    BY <1>1, <1>2, Update46, Zenon
<1> HIDE DEF q, t
<1>4. q = WithSrc(b, b.src, c)
    BY <1>2, <1>3 DEF Packet, PacketWith, WithSrc
<1>5. b.src \in Address
    BY <1>2, Fields
<1>6. /\ Carried(p, q) /\ q.src = b.src /\ q.ck = c /\ q.data = b.data
      /\ q.type = b.type /\ q.code = b.code /\ q.rest = b.rest /\ q.quote = b.quote
      /\ q.len = b.len /\ Have(q) = Have(b)
    BY <1>1, <1>2, <1>4, <1>5, CarriedKept
<1>7. /\ q \in Packet /\ q.dst = b.dst /\ q.proto = b.proto /\ q.off = b.off
    <2>1. q \in Packet /\ q.dst = Siit(p.dst.lo) /\ q.proto = To6(p.proto) /\ q.off = p.off
        BY <1>6 DEF Carried
    <2> QED
        BY <1>1, <2>1 DEF Carried
<1>8. ASSUME Summable(q), SumGood(p) PROVE Verified(q)
    <2>1. b.off = 0 /\ b.len >= MinimumSize(b.proto) /\ b.proto \in Summed \cup {ICMP6}
        <3>1. p.proto # ICMP6
            BY <1>1 DEF Carried
        <3> QED
            BY <1>2, <1>6, <1>7, <1>8, <3>1 DEF Summable, To6, ICMP4, ICMP6
    <2>2. Covered(q) = Covered(b)
        BY <1>2, <1>6, <1>7, CoveredKept
    <2>3. CASE b.proto = ICMP6 \/ (b.proto = UDP /\ b.ck = 0)
        BY <1>2, <1>3, <1>6, <2>1, <2>2, <2>3, FreshVerifies DEF Verified
    <2>4. CASE ~(b.proto = ICMP6 \/ (b.proto = UDP /\ b.ck = 0))
        <3>1. b.proto \in Summed /\ p.proto = b.proto
            BY <1>2, <2>1, <2>4 DEF To6
        <3>2. b.proto # ICMP4 /\ b.proto # ICMP6
            BY <3>1 DEF Summed, ICMP4, ICMP6, TCP, UDP, DCCP
        <3>3. Verified(p)
            BY <1>1, <1>8, <2>4, <3>1 DEF SumGood
        <3> DEFINE u == p.src.lo  v == p.dst.lo
        <3>4. p.src.hi = 0 /\ p.dst.hi = 0 /\ u \in Words /\ v \in Words /\ p.ck \in Words /\ p.data \in Words
            BY Fields DEF WellFormed
        <3>5. Covered(p) = Combine(Combine(Combine(0, u), Combine(0, v)), p.data)
            BY <3>1, <3>2, <3>4 DEF Covered, AddrSum
        <3>6. Covered(b) = Combine(Combine(Combine(Prefix, u), Combine(Prefix, v)), p.data)
            BY <1>1, <1>2, <3>2 DEF Covered, AddrSum, Siit
        <3> HIDE DEF u, v
        <3>7. Combine(Combine(Combine(Combine(Prefix, u), Combine(Prefix, v)), p.data),
                      siit46PartialUpdateTransportChecksum(p.ck)) = Ones
            BY <3>3, <3>4, <3>5, PartialUpdate46 DEF Verified
        <3> QED
            BY <1>1, <1>3, <1>6, <2>1, <2>2, <2>4, <3>6, <3>7 DEF Verified
    <2> QED
        BY <2>3, <2>4
<1> QED
    BY <1>1, <1>6, <1>8 DEF q, t

(* What the tun carries for a packet of the client.                        *)
OnTun(p) ==
    IF p.fam = 6 THEN p
    ELSE NAT66InPlaceTranslateAddress(SIIT46InPlaceTranslate(p, 48).pkt, clatV6, "src")

(* An IPv4 packet on the tun.                                              *)
LEMMA OnTun4 ==
    ASSUME NEW p \in Packet, WellFormed(p), p.fam = 4,
           SIIT46InPlaceTranslate(p, 48).res = "translated"
    PROVE  LET q == OnTun(p)
           IN /\ Carried(p, q)
              /\ Have(q) = SliceOf(p, SIIT46InPlaceTranslate(p, 48).reserved)
              /\ Summable(p) \/ p.off # 0 => q.src = clatV6
              /\ Summable(q) /\ SumGood(p) => Verified(q)
<1> DEFINE t == SIIT46InPlaceTranslate(p, 48)
           b == t.pkt
           q == OnTun(p)
<1>1. /\ Carried(p, b) /\ b.src = Siit(p.src.lo)
      /\ t.reserved = 48 + Have(p) - Have(b)
      /\ Summable(b) /\ SumGood(p) => Verified(b)
    BY Siit46, Zenon
<1>2. q = NAT66InPlaceTranslateAddress(b, clatV6, "src")
    BY DEF OnTun
<1> HIDE DEF b, q, t
<1>3. b \in Packet /\ clatV6 \in Address
    BY <1>1, SiitAddress DEF Carried
<1>4. /\ NAT66Short(b) => q = b
      /\ ~NAT66Short(b) => \E c \in Words : q = WithSrc(b, clatV6, c)
      /\ NAT66Sums(b) /\ ~NAT66Short(b) /\ Verified(b) /\ (b.dst.hi # 0 \/ clatV6.hi # 0)
         => Verified(q)
    BY <1>2, <1>3, Nat66Src
<1>5. /\ Carried(p, q) /\ Have(q) = Have(b) /\ q.len = b.len
      /\ ~NAT66Short(b) => q.src = clatV6
    <2>1. CASE NAT66Short(b)
        BY <1>1, <1>4, <2>1
    <2>2. CASE ~NAT66Short(b)
        BY <1>1, <1>3, <1>4, <2>2, CarriedKept
    <2> QED
        BY <2>1, <2>2
<1>6. /\ b.off = p.off /\ q.off = p.off /\ b.pad = p.pad /\ p.pad >= 0 /\ b.proto = q.proto
      /\ b.proto = To6(p.proto) /\ p.len <= b.len /\ p.proto # ICMP6 /\ b.dst.hi = Prefix
      /\ b.ext = IF IsFragmented(p) THEN <<[kind |-> "frag", bad |-> FALSE]>> ELSE <<>>
    <2>1. p.len \in Int
        BY Fields
    <2>2. b.len \in {p.len, p.len + 20} /\ b.dst = Siit(p.dst.lo)
        BY <1>1 DEF Carried
    <2>3. p.len <= b.len /\ b.dst.hi = Prefix
        BY <2>1, <2>2 DEF Siit
    <2> QED
        BY <1>1, <1>5, <2>3, Zenon DEF Carried
<1>7. Summable(p) \/ Summable(b) => ~NAT66Short(b)
    <2>1. b.len \in Int /\ b.pad \in Nat /\ p.len \in Int
        BY <1>3, <1>6, Fields
    <2>2. Summable(b) => b.len >= MinimumSize(b.proto)
        BY DEF Summable
    <2>3. Summable(p) => b.len >= MinimumSize(b.proto)
        BY <1>6, <2>1 DEF Summable, To6, MinimumSize, ICMP4, ICMP6, TCP, DCCP
    <2>4. MinimumSize(b.proto) \in Nat
        BY DEF MinimumSize
    <2> QED
        BY <2>1, <2>2, <2>3, <2>4 DEF NAT66Short
<1>8. p.off # 0 => ~NAT66Sees(b)
    BY <1>6 DEF NAT66Sees, IsFragmented
<1>9. Summable(p) \/ p.off # 0 => q.src = clatV6
    BY <1>5, <1>7, <1>8 DEF NAT66Short, NAT66Sums
<1>10. ASSUME Summable(q), SumGood(p) PROVE Verified(q)
    <2>1. Summable(b)
        BY <1>5, <1>6, <1>10 DEF Summable
    <2>2. NAT66Sums(b)
        <3>1. b.proto \in Summed \cup {ICMP6} /\ b.off = 0
            BY <1>6, <2>1 DEF Summable, To6, ICMP4, ICMP6
        <3>2. NAT66Sees(b)
            BY <1>6, <3>1 DEF NAT66Sees
        <3> QED
            BY <3>1, <3>2 DEF NAT66Sums
    <2>3. b.dst.hi # 0
        BY <1>6, SiitAddress
    <2> QED
        BY <1>1, <1>4, <1>7, <1>10, <2>1, <2>2, <2>3
<1>11. Have(q) = SliceOf(p, t.reserved)
    <2>1. Have(p) \in Int /\ Have(b) \in Int
        BY <1>3, Lengths
    <2> QED
        BY <1>1, <1>5, <2>1 DEF SliceOf, reservedSpaceSizeDefault, transportGap
<1> QED
    BY <1>5, <1>9, <1>10, <1>11 DEF t, q

-----------------------------------------------------------------------------
(***************************************************************************)
(* IPv6 to IPv4.                                                           *)
(***************************************************************************)

(* The largest payload that still fits behind a 20-byte header.            *)
Fits(p) == p.len >= 0 /\ 20 + p.len < 65536

LEMMA TotalLengthFits ==
    ASSUME NEW p \in Packet, Fits(p)
    PROVE  TotalLength(p.len) - 20 = p.len
<1>1. p.len \in Int
    BY Fields
<1> QED
    BY <1>1, SMT DEF Fits, TotalLength

LEMMA Header64 ==
    ASSUME NEW p \in Packet, Fits(p), NEW next \in Nat
    PROVE  LET h == siit64TranslateHeader(p, next)
           IN /\ h \in Packet
              /\ h.fam = 4 /\ h.hdr = 20 /\ h.ext = <<>> /\ h.len = p.len /\ h.pad = p.pad
              /\ h.src = V4(p.src.lo) /\ h.dst = V4(p.dst.lo) /\ h.proto = To4(p.proto)
              /\ h.more = p.more /\ h.off = p.off
              /\ IsFragmented(p) => h.id = p.id % IDSpace
              /\ h.ck = p.ck /\ h.data = p.data /\ h.quote = p.quote
              /\ h.type = p.type /\ h.code = p.code /\ h.rest = p.rest
<1> DEFINE id == IF IsFragmented(p) THEN p.id % IDSpace ELSE next % IDSpace
           proto == To4(p.proto)
           src == V4(p.src.lo)
           dst == V4(p.dst.lo)
           len == TotalLength(p.len) - 20
           h == [p EXCEPT !.fam = 4, !.hdr = 20, !.ext = <<>>, !.len = len, !.proto = proto,
                          !.id = id, !.src = src, !.dst = dst]
<1>1. id \in Nat
    BY SiitAssumption, Fields
<1>2. proto \in Nat
    BY Fields DEF ICMP4, To4
<1>3. src \in Address /\ dst \in Address
    BY SiitAddress, Fields
<1>4. siit64TranslateHeader(p, next) = h
    BY Zenon DEF siit64TranslateHeader
<1>5. len = p.len /\ len \in Int
    BY TotalLengthFits, Fields
<1>6. IsFragmented(p) => id = p.id % IDSpace
    OBVIOUS
<1>7. <<>> \in Seq(Extension)
    OBVIOUS
<1> HIDE DEF id, proto, src, dst, len
<1>8. h \in Packet
    BY <1>1, <1>2, <1>3, <1>5, <1>7 DEF Packet, PacketWith
<1>9. /\ h.fam = 4 /\ h.hdr = 20 /\ h.ext = <<>> /\ h.len = len /\ h.pad = p.pad
      /\ h.src = src /\ h.dst = dst /\ h.proto = proto /\ h.more = p.more /\ h.off = p.off
      /\ h.id = id /\ h.ck = p.ck /\ h.data = p.data /\ h.quote = p.quote
      /\ h.type = p.type /\ h.code = p.code /\ h.rest = p.rest
    BY DEF Packet, PacketWith
<1> HIDE DEF h
<1> QED
    BY <1>4, <1>5, <1>6, <1>8, <1>9, Zenon DEF proto, src, dst

LEMMA Quote64Type ==
    ASSUME NEW q \in Quote
    PROVE  /\ Quote64(q) \in Quote
           /\ Quote64(q).fam = 4 /\ Quote64(q).len = TotalLength(q.len) - 20
           /\ Quote64(q).proto = To4(q.proto)
           /\ Quote64(q).src = V4(q.src.lo) /\ Quote64(q).dst = V4(q.dst.lo)
<1> DEFINE proto == To4(q.proto)
           type == IF q.proto # ICMP6 THEN q.type ELSE IF q.type = 128 THEN 8 ELSE 0
           src == V4(q.src.lo)
           dst == V4(q.dst.lo)
           len == TotalLength(q.len) - 20
           pad == q.pad + 20
           moved == [q EXCEPT !.fam = 4, !.hdr = 20, !.id = 0, !.more = FALSE, !.off = 0,
                              !.len = len, !.pad = pad, !.proto = proto, !.type = type,
                              !.src = src, !.dst = dst]
<1>0. q \in Packet
    BY QuoteIsPacket
<1>1. /\ src \in Address /\ dst \in Address /\ proto \in Nat /\ type \in Nat /\ pad \in Int
    BY <1>0, Fields, SiitAddress DEF To4, ICMP4
<1>2. len \in Int
    BY <1>0, Fields, SMT DEF TotalLength
<1>3. Quote64(q) = IF q.proto = ICMP6 THEN [moved EXCEPT !.ck = Fresh(moved)] ELSE moved
    BY Zenon DEF Quote64
<1> HIDE DEF proto, type, src, dst, len, pad
<1>4. /\ moved \in Quote /\ moved.fam = 4 /\ moved.len = len /\ moved.proto = proto
      /\ moved.src = src /\ moved.dst = dst
    BY <1>1, <1>2 DEF Quote, PacketWith
<1> HIDE DEF moved
<1>5. Fresh(moved) \in Words
    BY <1>4, QuoteIsPacket, FreshVerifies
<1> DEFINE m == [moved EXCEPT !.ck = Fresh(moved)]
<1>6. m \in Quote /\ m.fam = 4 /\ m.len = len /\ m.proto = proto /\ m.src = src /\ m.dst = dst
    BY <1>4, <1>5 DEF Quote, PacketWith
<1> HIDE DEF m
<1>7. Quote64(q) = moved \/ Quote64(q) = m
    BY <1>3, Zenon DEF m
<1> QED
    BY <1>4, <1>6, <1>7 DEF len, proto, src, dst

(* What the client finds in the error for a quote.                         *)
Requoted(q) == IF QuoteTranslatable64(q) THEN Quote64(q) ELSE q

(* A packet with another ICMP header and another quote.                    *)
WithIcmp(p, t, c, r, qs) ==
    [p EXCEPT !.type = t, !.code = c, !.rest = r, !.quote = qs]

LEMMA ErrorQuote64 ==
    ASSUME NEW p \in Packet, NEW t, NEW c, NEW r
    PROVE  \E qs \in Seq(Quote) :
              /\ siit64TranslateICMPErrorQuote([p EXCEPT !.type = t, !.code = c, !.rest = r])
                    = WithIcmp(p, t, c, r, qs)
              /\ p.quote # <<>> => qs # <<>> /\ qs[1] = Requoted(p.quote[1])
<1> DEFINE e == [p EXCEPT !.type = t, !.code = c, !.rest = r]
           keeps == p.quote = <<>> \/ ~QuoteTranslatable64(p.quote[1])
           new == Quote64(p.quote[1])
<1>1. e.quote = p.quote
    BY DEF Packet, PacketWith
<1>2. CASE keeps
    <2>1. siit64TranslateICMPErrorQuote(e) = e
        <3> HIDE DEF e
        <3> QED
            BY <1>1, <1>2, Zenon DEF siit64TranslateICMPErrorQuote
    <2>2. e = WithIcmp(p, t, c, r, p.quote)
        BY DEF Packet, PacketWith, WithIcmp
    <2>3. p.quote \in Seq(Quote)
        BY Fields
    <2>4. p.quote # <<>> => p.quote[1] = Requoted(p.quote[1])
        BY <1>2 DEF Requoted
    <2> QED
        BY <2>1, <2>2, <2>3, <2>4, Zenon
<1>3. CASE ~keeps
    <2>1. new \in Quote
        BY <1>3, QuotedAddresses, Quote64Type
    <2>2. siit64TranslateICMPErrorQuote(e) = [e EXCEPT !.quote = <<new>>]
        <3> HIDE DEF e
        <3> QED
            BY <1>1, <1>3, Zenon DEF siit64TranslateICMPErrorQuote
    <2>3. [e EXCEPT !.quote = <<new>>] = WithIcmp(p, t, c, r, <<new>>)
        BY DEF Packet, PacketWith, WithIcmp
    <2>4. new = Requoted(p.quote[1])
        BY <1>3 DEF Requoted
    <2> DEFINE qs == <<new>>
    <2> HIDE DEF new, e
    <2>5. qs \in Seq(Quote) /\ qs # <<>> /\ qs[1] = new
        BY <2>1
    <2>6. siit64TranslateICMPErrorQuote(e) = WithIcmp(p, t, c, r, qs)
        BY <2>2, <2>3
    <2> HIDE DEF qs
    <2> QED
        BY <2>4, <2>5, <2>6, Zenon DEF e
<1> QED
    BY <1>2, <1>3

(* The MTU the client is told is one IPv4 allows, and 20 bytes below the   *)
(* one a router on the way announced.                                      *)
LEMMA TooBig64 ==
    ASSUME NEW mtu \in Nat
    PROVE  /\ TooBigMTU64(mtu) \in Nat /\ TooBigMTU64(mtu) >= 68
           /\ mtu >= 88 /\ mtu < 65536 => TooBigMTU64(mtu) + 20 <= mtu
BY SMT DEF TooBigMTU64, MaxOf, MinOf, IPv4OutboundMTU, IPv6OutboundMTU

(* What the rewriting of an ICMPv6 header makes of it: only a Packet Too   *)
(* Big becomes Fragmentation Needed.                                       *)
Rewritten64(p, i, t, c, r, qs) ==
    /\ i = WithIcmp(p, t, c, r, qs)
    /\ (t = 3 /\ c = 4) <=> p.type = 2
    /\ p.type = 2 => r = TooBigMTU64(p.rest)
    /\ p.type \notin {128, 129} /\ p.quote # <<>> => qs # <<>> /\ qs[1] = Requoted(p.quote[1])

LEMMA Icmp64 ==
    ASSUME NEW p \in Packet, isICMPv6PacketHeaderTranslatable(p.type, p.code, p.rest)
    PROVE  \E t, c, r \in Nat, qs \in Seq(Quote) :
              Rewritten64(p, siit64TranslateICMPTransport(p), t, c, r, qs)
<1> DEFINE i == siit64TranslateICMPTransport(p)
           to(t, c, r) ==
             siit64TranslateICMPErrorQuote([p EXCEPT !.type = t, !.code = c, !.rest = r])
<1>0. p.type \in Nat /\ p.code \in Nat /\ p.rest \in Nat /\ p.quote \in Seq(Quote)
    BY Fields
<1>1. ASSUME NEW t \in Nat, NEW c \in Nat, NEW r \in Nat, i = to(t, c, r),
             (t = 3 /\ c = 4) <=> p.type = 2, p.type = 2 => r = TooBigMTU64(p.rest)
      PROVE  \E x, y, z \in Nat, qs \in Seq(Quote) : Rewritten64(p, i, x, y, z, qs)
    <2>1. PICK qs \in Seq(Quote) :
              /\ to(t, c, r) = WithIcmp(p, t, c, r, qs)
              /\ p.quote # <<>> => qs # <<>> /\ qs[1] = Requoted(p.quote[1])
        BY ErrorQuote64, Zenon
    <2> HIDE DEF i, to
    <2>2. Rewritten64(p, i, t, c, r, qs)
        BY <1>1, <2>1, Zenon DEF Rewritten64
    <2> QED
        BY <2>2, Zenon
<1>2. CASE p.type \in {128, 129}
    <2> DEFINE t == IF p.type = 128 THEN 8 ELSE 0
    <2>1. i = [p EXCEPT !.type = t]
        BY <1>2, SMT DEF siit64TranslateICMPTransport
    <2>2. [p EXCEPT !.type = t] = WithIcmp(p, t, p.code, p.rest, p.quote)
        BY DEF Packet, PacketWith, WithIcmp
    <2>3. t \in Nat /\ ~(t = 3 /\ p.code = 4) /\ p.type # 2
        BY <1>2
    <2> HIDE DEF i, t
    <2>4. Rewritten64(p, i, t, p.code, p.rest, p.quote)
        BY <1>2, <2>1, <2>2, <2>3, Zenon DEF Rewritten64
    <2> QED
        BY <1>0, <2>3, <2>4, Zenon DEF i
<1>3. CASE p.type = 1
    <2>1. p.code \in 0..4
        BY <1>3, SMT DEF isICMPv6PacketHeaderTranslatable
    <2>2. CASE p.code \in {0, 2, 3}
        <3>1. i = to(3, 1, p.rest)
            BY <1>3, <2>2, SMT DEF siit64TranslateICMPTransport
        <3>2. 3 \in Nat /\ 1 \in Nat /\ ~(3 = 3 /\ 1 = 4) /\ p.type # 2
            BY <1>3
        <3> HIDE DEF i, to
        <3> QED
            BY <1>0, <1>1, <3>1, <3>2, Zenon DEF i
    <2>3. CASE p.code = 1
        <3>1. i = to(3, 10, p.rest)
            BY <1>3, <2>3, SMT DEF siit64TranslateICMPTransport
        <3>2. 3 \in Nat /\ 10 \in Nat /\ ~(3 = 3 /\ 10 = 4) /\ p.type # 2
            BY <1>3
        <3> HIDE DEF i, to
        <3> QED
            BY <1>0, <1>1, <3>1, <3>2, Zenon DEF i
    <2>4. CASE p.code = 4
        <3>1. i = to(3, 3, p.rest)
            BY <1>3, <2>4, SMT DEF siit64TranslateICMPTransport
        <3>2. 3 \in Nat /\ 3 \in Nat /\ ~(3 = 3 /\ 3 = 4) /\ p.type # 2
            BY <1>3
        <3> HIDE DEF i, to
        <3> QED
            BY <1>0, <1>1, <3>1, <3>2, Zenon DEF i
    <2> QED
        BY <2>1, <2>2, <2>3, <2>4
<1>4. CASE p.type = 2
    <2>1. i = to(3, 4, TooBigMTU64(p.rest))
        BY <1>4, SMT DEF siit64TranslateICMPTransport
    <2>2. TooBigMTU64(p.rest) \in Nat /\ 3 \in Nat /\ 4 \in Nat
        BY <1>0, TooBig64, SMT
    <2> HIDE DEF i, to
    <2> QED
        BY <1>1, <1>4, <2>1, <2>2, Zenon DEF i
<1>5. CASE p.type = 3
    <2>1. i = to(11, p.code, p.rest)
        BY <1>5, SMT DEF siit64TranslateICMPTransport
    <2>2. 11 \in Nat /\ ~(11 = 3 /\ p.code = 4) /\ p.type # 2
        BY <1>5
    <2> HIDE DEF i, to
    <2> QED
        BY <1>0, <1>1, <2>1, <2>2, Zenon DEF i
<1>6. CASE p.type = 4 /\ p.code = 0
    <2> DEFINE r == Pointer64[p.rest] * 16777216
    <2>1. i = to(12, 0, r)
        BY <1>6, SMT DEF siit64TranslateICMPTransport
    <2>2. p.rest \in {0, 1} \cup (4..39)
        BY <1>6, SMT DEF isICMPv6PacketHeaderTranslatable
    <2>3. Pointer64[p.rest] \in Nat
        BY <2>2, SMT DEF Pointer64
    <2>4. r \in Nat
        BY <2>3, SMT
    <2>5. 12 \in Nat /\ 0 \in Nat /\ ~(12 = 3 /\ 0 = 4) /\ p.type # 2
        BY <1>6
    <2> HIDE DEF i, to, r
    <2> QED
        BY <1>1, <2>1, <2>4, <2>5, Zenon DEF i
<1>7. CASE p.type = 4 /\ p.code # 0
    <2>1. p.code = 1
        BY <1>7, SMT DEF isICMPv6PacketHeaderTranslatable
    <2>2. i = to(3, 2, 0)
        BY <1>7, <2>1, SMT DEF siit64TranslateICMPTransport
    <2>3. 3 \in Nat /\ 2 \in Nat /\ 0 \in Nat /\ ~(3 = 3 /\ 2 = 4) /\ p.type # 2
        BY <1>7
    <2> HIDE DEF i, to
    <2> QED
        BY <1>1, <2>2, <2>3, Zenon DEF i
<1>8. p.type \in {1, 2, 3, 4, 128, 129}
    BY SMT DEF isICMPv6PacketHeaderTranslatable
<1> QED
    BY <1>2, <1>3, <1>4, <1>5, <1>6, <1>7, <1>8

LEMMA Update64 ==
    ASSUME NEW p \in Packet, NEW hi \in Words
    PROVE  \E c \in Words :
              /\ siit64UpdateTransportChecksum(p, hi) = WithSrc(p, p.src, c)
              /\ p.off = 0 /\ p.len >= MinimumSize(p.proto) =>
                    /\ p.proto = ICMP4 => c = Fresh(p)
                    /\ p.proto \in Summed => c = siit64PartialUpdateTransportChecksum(p.ck, hi)
<1> DEFINE u == siit64UpdateTransportChecksum(p, hi)
           part == siit64PartialUpdateTransportChecksum(p.ck, hi)
           touched == p.off = 0 /\ p.len >= MinimumSize(p.proto)
<1>0. Fresh(p) \in Words /\ part \in Words /\ p.ck \in Words /\ p.len \in Int
    BY Fields, FreshVerifies, PartialUpdateTypes
<1>1. MinimumSize(p.proto) \in Nat
    BY DEF MinimumSize
<1>2. ASSUME NEW c PROVE [p EXCEPT !.ck = c] = WithSrc(p, p.src, c)
    BY DEF Packet, PacketWith, WithSrc
<1>3. p = WithSrc(p, p.src, p.ck)
    BY DEF Packet, PacketWith, WithSrc
<1>4. CASE ~touched
    <2>1. p.off # 0 \/ p.len < MinimumSize(p.proto)
        BY <1>0, <1>1, <1>4
    <2>2. u = p
        BY <2>1, Zenon DEF siit64UpdateTransportChecksum
    <2> QED
        BY <1>0, <1>3, <1>4, <2>2, Zenon
<1>5. CASE touched
    <2>1. ~(p.off # 0 \/ p.len < MinimumSize(p.proto))
        BY <1>0, <1>1, <1>5
    <2>2. CASE p.proto = ICMP4
        <3>1. u = WithSrc(p, p.src, Fresh(p))
            BY <1>2, <2>1, <2>2, Zenon DEF siit64UpdateTransportChecksum
        <3>2. p.proto \notin Summed
            BY <2>2 DEF Summed, ICMP4, TCP, UDP, DCCP
        <3> QED
            BY <1>0, <3>1, <3>2, Zenon
    <2>3. CASE p.proto # ICMP4 /\ p.proto \in Summed
        <3>1. u = WithSrc(p, p.src, part)
            BY <1>2, <2>1, <2>3, Zenon DEF siit64UpdateTransportChecksum
        <3> QED
            BY <1>0, <2>3, <3>1, Zenon
    <2>4. CASE p.proto # ICMP4 /\ p.proto \notin Summed
        <3>1. u = p
            BY <2>1, <2>4, Zenon DEF siit64UpdateTransportChecksum
        <3> QED
            BY <1>0, <1>3, <2>4, <3>1, Zenon
    <2> QED
        BY <2>2, <2>3, <2>4
<1> QED
    BY <1>4, <1>5

(* g is the packet p after SIIT64, whatever its checksum.                  *)
Returned(p, g) ==
    /\ g \in Packet
    /\ g.fam = 4 /\ g.hdr = 20 /\ g.ext = <<>> /\ g.len = p.len /\ g.pad = p.pad
    /\ g.src = V4(p.src.lo) /\ g.dst = V4(p.dst.lo) /\ g.proto = To4(p.proto)
    /\ g.more = p.more /\ g.off = p.off
    /\ IsFragmented(p) => g.id = p.id % IDSpace
    /\ p.proto = ICMP6 =>
          /\ (g.type = 3 /\ g.code = 4) <=> p.type = 2
          /\ p.type = 2 => g.rest = TooBigMTU64(p.rest)
          /\ p.type \notin {128, 129} /\ p.quote # <<>> =>
                g.quote # <<>> /\ g.quote[1] = Requoted(p.quote[1])
    /\ p.pad >= 0 /\ p.proto # ICMP4

LEMMA Body64 ==
    ASSUME NEW p \in Packet, Fits(p), isIPv6PacketTranslatable(p), NEW next \in Nat,
           NEW head, head = siit64TranslateHeader(p, next),
           NEW b, b = IF head.proto = ICMP4 THEN siit64TranslateICMPTransport(head) ELSE head
    PROVE  Returned(p, b) /\ b.ck = p.ck /\ b.data = p.data
<1>1. /\ p.pad >= 0 /\ p.proto # ICMP4
      /\ p.proto = ICMP6 => isICMPv6PacketHeaderTranslatable(p.type, p.code, p.rest)
    BY DEF isIPv6PacketTranslatable, isEveryIPv6ExtensionHeaderTranslatable,
           isTransportProtocolForbidden, ICMP4
<1>2. /\ head \in Packet
      /\ head.fam = 4 /\ head.hdr = 20 /\ head.ext = <<>> /\ head.len = p.len /\ head.pad = p.pad
      /\ head.src = V4(p.src.lo) /\ head.dst = V4(p.dst.lo) /\ head.proto = To4(p.proto)
      /\ head.more = p.more /\ head.off = p.off
      /\ IsFragmented(p) => head.id = p.id % IDSpace
      /\ head.ck = p.ck /\ head.data = p.data /\ head.quote = p.quote
      /\ head.type = p.type /\ head.code = p.code /\ head.rest = p.rest
    BY Header64, Zenon
<1>3. CASE p.proto # ICMP6
    <2>1. b = head
        BY <1>1, <1>2, <1>3 DEF To4
    <2> QED
        BY <1>1, <1>2, <1>3, <2>1, Zenon DEF Returned
<1>4. CASE p.proto = ICMP6
    <2>1. b = siit64TranslateICMPTransport(head)
        BY <1>2, <1>4 DEF To4
    <2>2. PICK t \in Nat, c \in Nat, r \in Nat, qs \in Seq(Quote) : Rewritten64(head, b, t, c, r, qs)
        BY <1>1, <1>2, <1>4, <2>1, Icmp64
    <2>3. b = WithIcmp(head, t, c, r, qs)
        BY <2>2 DEF Rewritten64
    <2>4. /\ b \in Packet
          /\ b.fam = 4 /\ b.hdr = 20 /\ b.ext = <<>> /\ b.len = p.len /\ b.pad = p.pad
          /\ b.src = V4(p.src.lo) /\ b.dst = V4(p.dst.lo) /\ b.proto = To4(p.proto)
          /\ b.more = p.more /\ b.off = p.off /\ b.id = head.id
          /\ b.ck = p.ck /\ b.data = p.data
          /\ b.type = t /\ b.code = c /\ b.rest = r /\ b.quote = qs
        BY <1>2, <2>3 DEF Packet, PacketWith, WithIcmp
    <2>5. /\ (t = 3 /\ c = 4) <=> p.type = 2
          /\ p.type = 2 => r = TooBigMTU64(p.rest)
          /\ p.type \notin {128, 129} /\ p.quote # <<>> =>
                qs # <<>> /\ qs[1] = Requoted(p.quote[1])
        BY <1>2, <2>2, Zenon DEF Rewritten64
    <2> QED
        BY <1>1, <1>2, <2>4, <2>5, Zenon DEF Returned
<1> QED
    BY <1>3, <1>4

LEMMA ReturnedKept ==
    ASSUME NEW p, NEW b \in Packet, Returned(p, b), NEW c \in Words,
           NEW g, g = WithSrc(b, b.src, c)
    PROVE  /\ Returned(p, g) /\ g.ck = c /\ g.data = b.data /\ Have(g) = Have(b)
           /\ Covered(g) = Covered(b)
<1>1. b.src \in Address
    BY Fields
<1>2. /\ g \in Packet
      /\ g.src = b.src /\ g.ck = c /\ g.fam = b.fam /\ g.hdr = b.hdr /\ g.pad = b.pad /\ g.dst = b.dst
      /\ g.proto = b.proto /\ g.more = b.more /\ g.off = b.off /\ g.id = b.id /\ g.ext = b.ext
      /\ g.len = b.len /\ g.quote = b.quote /\ g.type = b.type /\ g.code = b.code
      /\ g.rest = b.rest /\ g.data = b.data
    BY <1>1 DEF Packet, PacketWith, WithSrc
<1>3. Returned(p, g)
    BY <1>2, Zenon DEF Returned
<1>4. Have(g) = Have(b)
    BY <1>2, Zenon DEF Have, Size, HeaderLen
<1>5. Covered(g) = Covered(b)
    BY <1>2, CoveredKept
<1> QED
    BY <1>2, <1>3, <1>4, <1>5, Zenon

(* SIIT64: the packet is returned, its length is the slice's, and a        *)
(* checksum over two mapped addresses that was right is right.             *)
LEMMA Siit64 ==
    ASSUME NEW p \in Packet, p.fam = 6, p.hdr = 40, Fits(p), NEW next \in Nat,
           NEW t, t = SIIT64InPlaceTranslate(p, 48, next), t.ok
    PROVE  /\ Returned(p, t.pkt)
           /\ t.reserved = 48 + Have(p) - Have(t.pkt)
           /\ /\ Summable(t.pkt)
              /\ p.proto = ICMP6 \/ (Verified(p) /\ p.src.hi = Prefix /\ p.dst = Siit(Placeholder))
              => Verified(t.pkt)
<1> DEFINE made == makeRoomForIPv4Header(p, 48)
           head == siit64TranslateHeader(p, next)
           body == IF head.proto = ICMP4 THEN siit64TranslateICMPTransport(head) ELSE head
           g == t.pkt
<1>1. t = IF ~isIPv6PacketTranslatable(p) \/ made < 0
          THEN [ok |-> FALSE, pkt |-> p, reserved |-> 48]
          ELSE [ok |-> TRUE, pkt |-> siit64UpdateTransportChecksum(body, p.dst.hi),
                reserved |-> made]
    BY Zenon DEF SIIT64InPlaceTranslate
<1>2. Returned(p, body) /\ body.ck = p.ck /\ body.data = p.data
    <2>1. isIPv6PacketTranslatable(p)
        <3>1. CASE ~isIPv6PacketTranslatable(p)
            <4>1. t = [ok |-> FALSE, pkt |-> p, reserved |-> 48]
                BY <1>1, <3>1
            <4> QED
                BY <4>1
        <3> QED
            BY <3>1
    <2>2. /\ head = siit64TranslateHeader(p, next)
          /\ body = IF head.proto = ICMP4 THEN siit64TranslateICMPTransport(head) ELSE head
        OBVIOUS
    <2> HIDE DEF head, body
    <2> QED
        BY <2>1, <2>2, Body64
<1> HIDE DEF body
<1>3. g = siit64UpdateTransportChecksum(body, p.dst.hi) /\ t.reserved = made
    <2> DEFINE u == siit64UpdateTransportChecksum(body, p.dst.hi)
               bad == ~isIPv6PacketTranslatable(p) \/ made < 0
    <2>1. t = IF bad THEN [ok |-> FALSE, pkt |-> p, reserved |-> 48]
              ELSE [ok |-> TRUE, pkt |-> u, reserved |-> made]
        BY <1>1, Zenon
    <2> HIDE DEF u, bad, made
    <2>2. CASE bad
        BY <2>1, <2>2
    <2>3. CASE ~bad
        BY <2>1, <2>3 DEF u
    <2> QED
        BY <2>2, <2>3
<1>4. body \in Packet /\ p.dst.hi \in Words
    BY <1>2, Fields DEF Returned
<1>5. PICK c \in Words :
          /\ g = WithSrc(body, body.src, c)
          /\ body.off = 0 /\ body.len >= MinimumSize(body.proto) =>
                /\ body.proto = ICMP4 => c = Fresh(body)
                /\ body.proto \in Summed => c = siit64PartialUpdateTransportChecksum(body.ck, p.dst.hi)
    BY <1>3, <1>4, Update64
<1> HIDE DEF g
<1>6. /\ Returned(p, g) /\ g.ck = c /\ Have(g) = Have(body) /\ Covered(g) = Covered(body)
    BY <1>2, <1>4, <1>5, ReturnedKept
<1>7. made = 48 + Have(p) - Have(g)
    <2>1. made = 48 - 20 + HeaderLen(p)
        BY DEF makeRoomForIPv4Header
    <2>2. g \in Packet /\ g.hdr = 20 /\ Len(g.ext) = 0 /\ g.len = p.len /\ g.pad = p.pad
        BY <1>6 DEF Returned
    <2> HIDE DEF made
    <2>3. p.len \in Int /\ p.pad \in Int /\ Len(p.ext) \in Nat /\ HeaderLen(p) \in Nat
        BY Fields, Lengths
    <2>4. Have(g) = 20 + p.len + p.pad
        <3>1. Have(g) = 20 + 8 * 0 + p.len + p.pad
            BY <2>2, Lengths
        <3> QED
            BY <2>3, <3>1
    <2>5. Have(p) = HeaderLen(p) + p.len + p.pad
        BY <2>3, Lengths
    <2> QED
        BY <2>1, <2>3, <2>4, <2>5
<1>8. ASSUME Summable(g),
             p.proto = ICMP6 \/ (Verified(p) /\ p.src.hi = Prefix /\ p.dst = Siit(Placeholder))
      PROVE  Verified(g)
    <2>1. /\ body.off = 0 /\ body.len >= MinimumSize(body.proto)
          /\ body.proto = To4(p.proto) /\ p.proto # ICMP4
          /\ body.src = V4(p.src.lo) /\ body.dst = V4(p.dst.lo)
          /\ body.proto \in Summed \cup {ICMP4, ICMP6}
        BY <1>2, <1>6, <1>8 DEF Summable, Returned
    <2>2. CASE p.proto = ICMP6
        <3>1. body.proto = ICMP4
            BY <2>1, <2>2 DEF To4
        <3> QED
            BY <1>4, <1>5, <1>6, <2>1, <3>1, FreshVerifies DEF Verified
    <2>3. CASE p.proto # ICMP6
        <3>1. body.proto = p.proto /\ p.proto \in Summed /\ p.proto # ICMP4
            BY <2>1, <2>3 DEF To4
        <3> DEFINE u == p.src.lo
        <3>2. u \in Words /\ p.ck \in Words /\ p.data \in Words
            BY Fields
        <3>3. Covered(p) = Combine(Combine(Combine(Prefix, u), Combine(Prefix, Placeholder)), p.data)
            BY <1>8, <2>3, <3>1 DEF Covered, AddrSum, Siit
        <3>4. Covered(body) = Combine(Combine(Combine(0, u), Combine(0, Placeholder)), p.data)
            BY <1>2, <1>8, <2>1, <2>3, <3>1 DEF Covered, AddrSum, Siit, V4
        <3>5. p.dst.hi = Prefix /\ Verified(p)
            BY <1>8, <2>3 DEF Siit
        <3> HIDE DEF u
        <3>6. Combine(Combine(Combine(Combine(0, u), Combine(0, Placeholder)), p.data),
                      siit64PartialUpdateTransportChecksum(p.ck, Prefix)) = Ones
            BY <3>2, <3>3, <3>5, PartialUpdate64 DEF Verified
        <3> QED
            BY <1>2, <1>5, <1>6, <2>1, <3>1, <3>4, <3>5, <3>6 DEF Verified
    <2> QED
        BY <2>2, <2>3
<1> QED
    BY <1>3, <1>6, <1>7, <1>8, Zenon DEF g

-----------------------------------------------------------------------------
(***************************************************************************)
(* TunToClient.                                                            *)
(***************************************************************************)

(* g is the packet p after NAT66 and SIIT64, whatever its checksum.        *)
Delivered(p, g) ==
    /\ g \in Packet
    /\ g.fam = 4 /\ g.hdr = 20 /\ g.ext = <<>> /\ g.len = p.len /\ g.pad = p.pad
    /\ g.src = V4(p.src.lo) /\ g.proto = To4(p.proto)
    /\ ~NAT66Short(p) => g.dst = V4(Placeholder)
    /\ g.more = p.more /\ g.off = p.off
    /\ IsFragmented(p) => g.id = p.id % IDSpace
    /\ p.proto = ICMP6 =>
          /\ (g.type = 3 /\ g.code = 4) <=> p.type = 2
          /\ p.type = 2 => g.rest = TooBigMTU64(p.rest)
          /\ p.type \notin {128, 129} /\ p.quote # <<>> =>
                g.quote # <<>> /\ g.quote[1] = Requoted(p.quote[1])
    /\ p.pad >= 0 /\ p.proto # ICMP4

(* The packet SIIT64 gets from NAT66 differs from the one on the net in    *)
(* destination and checksum only.                                          *)
Readdressed(p, n) ==
    /\ n \in Packet
    /\ n.fam = p.fam /\ n.hdr = p.hdr /\ n.ext = p.ext /\ n.len = p.len /\ n.pad = p.pad
    /\ n.src = p.src /\ n.proto = p.proto /\ n.more = p.more /\ n.off = p.off /\ n.id = p.id
    /\ n.type = p.type /\ n.code = p.code /\ n.rest = p.rest /\ n.quote = p.quote
    /\ ~NAT66Short(p) => n.dst = Siit(Placeholder)
    /\ NAT66Sums(p) /\ ~NAT66Short(p) /\ Verified(p) => Verified(n)

LEMMA Nat66Readdresses ==
    ASSUME NEW p \in Packet, NEW n, n = NAT66InPlaceTranslateAddress(p, Siit(Placeholder), "dst")
    PROVE  Readdressed(p, n)
<1> DEFINE to == Siit(Placeholder)
<1>1. to \in Address /\ to.hi # 0
    BY SiitAddress DEF Siit
<1>2. n = NAT66InPlaceTranslateAddress(p, to, "dst")
    OBVIOUS
<1> HIDE DEF to
<1>3. /\ NAT66Short(p) => n = p
      /\ ~NAT66Short(p) => \E c \in Words : n = WithDst(p, to, c)
      /\ NAT66Sums(p) /\ ~NAT66Short(p) /\ Verified(p) => Verified(n)
    BY <1>1, <1>2, Nat66Dst
<1>4. CASE NAT66Short(p)
    <2>1. n = p
        BY <1>3, <1>4
    <2> QED
        BY <1>4, <2>1, Zenon DEF Readdressed
<1>5. CASE ~NAT66Short(p)
    <2>1. PICK c \in Words : n = WithDst(p, to, c)
        BY <1>3, <1>5
    <2>2. /\ n \in Packet
          /\ n.fam = p.fam /\ n.hdr = p.hdr /\ n.ext = p.ext /\ n.len = p.len /\ n.pad = p.pad
          /\ n.src = p.src /\ n.proto = p.proto /\ n.more = p.more /\ n.off = p.off /\ n.id = p.id
          /\ n.type = p.type /\ n.code = p.code /\ n.rest = p.rest /\ n.quote = p.quote
          /\ n.dst = to
        BY <1>1, <2>1 DEF Packet, PacketWith, WithDst
    <2> QED
        BY <1>3, <2>2, Zenon DEF Readdressed, to
<1> QED
    BY <1>4, <1>5

(* SIIT64 translates only what it parsed.                                  *)
LEMMA Siit64Parses ==
    ASSUME NEW p, NEW next, NEW t, t = SIIT64InPlaceTranslate(p, 48, next)
    PROVE  /\ t.ok \in BOOLEAN
           /\ t.ok => isIPv6PacketTranslatable(p)
           /\ isIPv6PacketTranslatable(p) /\ HeaderLen(p) \in Nat => t.ok
<1> DEFINE made == makeRoomForIPv4Header(p, 48)
           bad == ~isIPv6PacketTranslatable(p) \/ made < 0
           head == siit64TranslateHeader(p, next)
           body == IF head.proto = ICMP4 THEN siit64TranslateICMPTransport(head) ELSE head
           u == siit64UpdateTransportChecksum(body, p.dst.hi)
<1>1. t = IF bad THEN [ok |-> FALSE, pkt |-> p, reserved |-> 48]
          ELSE [ok |-> TRUE, pkt |-> u, reserved |-> made]
    BY Zenon DEF SIIT64InPlaceTranslate
<1>2. HeaderLen(p) \in Nat => ~(made < 0)
    BY DEF makeRoomForIPv4Header
<1>3. isIPv6PacketTranslatable(p) /\ HeaderLen(p) \in Nat => ~bad
    BY <1>2
<1>4. bad \/ isIPv6PacketTranslatable(p)
    OBVIOUS
<1> HIDE DEF made, bad, u
<1>5. bad => t.ok = FALSE
    BY <1>1
<1>6. ~bad => t.ok = TRUE
    BY <1>1
<1> QED
    BY <1>3, <1>4, <1>5, <1>6

LEMMA ReaddressedReturned ==
    ASSUME NEW p \in Packet, NEW n, Readdressed(p, n), NEW g, Returned(n, g)
    PROVE  Delivered(p, g)
<1>1. ~NAT66Short(p) => g.dst = V4(Placeholder)
    BY DEF Returned, Readdressed, Siit, V4
<1>2. IsFragmented(n) <=> IsFragmented(p)
    BY DEF Readdressed, IsFragmented
<1>3. /\ g \in Packet
      /\ g.fam = 4 /\ g.hdr = 20 /\ g.ext = <<>> /\ g.len = p.len /\ g.pad = p.pad
      /\ g.src = V4(p.src.lo) /\ g.proto = To4(p.proto) /\ g.more = p.more /\ g.off = p.off
      /\ p.pad >= 0 /\ p.proto # ICMP4
    BY Zenon DEF Returned, Readdressed
<1>4. IsFragmented(p) => g.id = p.id % IDSpace
    BY <1>2, Zenon DEF Returned, Readdressed
<1>5. ASSUME p.proto = ICMP6
      PROVE  /\ (g.type = 3 /\ g.code = 4) <=> p.type = 2
             /\ p.type = 2 => g.rest = TooBigMTU64(p.rest)
             /\ p.type \notin {128, 129} /\ p.quote # <<>> =>
                   g.quote # <<>> /\ g.quote[1] = Requoted(p.quote[1])
    <2>1. n.proto = ICMP6 /\ n.type = p.type /\ n.rest = p.rest /\ n.quote = p.quote
        BY <1>5, Zenon DEF Readdressed
    <2>2. /\ (g.type = 3 /\ g.code = 4) <=> n.type = 2
          /\ n.type = 2 => g.rest = TooBigMTU64(n.rest)
          /\ n.type \notin {128, 129} /\ n.quote # <<>> =>
                g.quote # <<>> /\ g.quote[1] = Requoted(n.quote[1])
        BY <2>1 DEF Returned
    <2> QED
        BY <2>1, <2>2
<1> QED
    BY <1>1, <1>3, <1>4, <1>5 DEF Delivered

LEMMA ReaddressedLengths ==
    ASSUME NEW p \in Packet, NEW n, Readdressed(p, n), p.hdr = 40
    PROVE  /\ Have(n) = Have(p)
           /\ Have(p) = 40 + 8 * Len(p.ext) + p.len + p.pad
<1>1. Have(n) = Have(p)
    BY Zenon DEF Readdressed, Have, Size, HeaderLen
<1> QED
    BY <1>1, Lengths

(* What TunToClient hands the client of a packet below the cap.            *)
LEMMA TunToClientDelivers ==
    ASSUME NEW p \in Packet, p.fam = 6, p.hdr = 40, p.len >= 0, Have(p) <= 1420, NEW next \in Nat,
           NEW n, n = NAT66InPlaceTranslateAddress(p, Siit(Placeholder), "dst"),
           NEW t, t = SIIT64InPlaceTranslate(n, 48, next), t.ok
    PROVE  /\ Delivered(p, t.pkt) /\ p.len <= 1380
           /\ Have(t.pkt) = SliceOf(p, t.reserved)
           /\ /\ Summable(t.pkt)
              /\ p.proto = ICMP6 \/ (Verified(p) /\ p.src.hi = Prefix /\ NAT66Sees(p))
              => Verified(t.pkt)
<1> DEFINE g == t.pkt
<1>1. Readdressed(p, n)
    BY Nat66Readdresses
<1>2. /\ n \in Packet /\ n.fam = 6 /\ n.hdr = 40 /\ n.len = p.len /\ n.pad = p.pad /\ n.ext = p.ext
      /\ n.proto = p.proto
    BY <1>1 DEF Readdressed
<1>3. p.pad >= 0
    <2>1. isIPv6PacketTranslatable(n)
        BY Siit64Parses
    <2> QED
        BY <1>2, <2>1 DEF isIPv6PacketTranslatable
<1>4. p.len <= 1380 /\ Fits(n) /\ Have(n) = Have(p)
    <2>1. p.len \in Int /\ p.pad \in Int /\ Len(p.ext) \in Nat
        BY Fields
    <2>2. Have(p) = 40 + 8 * Len(p.ext) + p.len + p.pad /\ Have(n) = Have(p)
        BY <1>1, ReaddressedLengths
    <2>3. p.len <= 1380
        BY <1>3, <2>1, <2>2
    <2> QED
        BY <1>2, <2>1, <2>2, <2>3, SMT DEF Fits
<1>5. /\ Returned(n, g)
      /\ t.reserved = 48 + Have(n) - Have(g)
      /\ /\ Summable(g)
         /\ n.proto = ICMP6 \/ (Verified(n) /\ n.src.hi = Prefix /\ n.dst = Siit(Placeholder))
         => Verified(g)
    BY <1>2, <1>4, Siit64
<1> HIDE DEF g
<1>6. Delivered(p, g)
    BY <1>1, <1>5, ReaddressedReturned
<1>7. Have(g) = SliceOf(p, t.reserved)
    <2>1. g \in Packet
        BY <1>6 DEF Delivered
    <2>2. Have(p) \in Int /\ Have(g) \in Int
        BY <2>1, Lengths
    <2> QED
        BY <1>4, <1>5, <2>2 DEF SliceOf, reservedSpaceSizeDefault, transportGap
<1>8. ASSUME Summable(g), p.proto = ICMP6 \/ (Verified(p) /\ p.src.hi = Prefix /\ NAT66Sees(p))
      PROVE  Verified(g)
    <2>1. CASE p.proto = ICMP6
        BY <1>2, <1>5, <1>8, <2>1
    <2>2. CASE p.proto # ICMP6
        <3>1. /\ g.proto = To4(p.proto) /\ g.len = p.len /\ p.proto # ICMP4
            BY <1>6 DEF Delivered
        <3>2. p.proto \in Summed /\ p.len >= MinimumSize(p.proto)
            BY <1>8, <2>2, <3>1 DEF Summable, To4
        <3>3. NAT66Sums(p)
            BY <1>8, <2>2, <3>2 DEF NAT66Sums
        <3>4. ~NAT66Short(p)
            <4>1. MinimumSize(p.proto) \in Nat /\ p.len \in Int /\ p.pad \in Int
                BY Fields DEF MinimumSize
            <4> QED
                BY <1>3, <3>2, <4>1 DEF NAT66Short
        <3>5. Verified(n) /\ n.src = p.src /\ n.dst = Siit(Placeholder)
            BY <1>1, <1>8, <2>2, <3>3, <3>4 DEF Readdressed
        <3> QED
            BY <1>5, <1>8, <2>2, <3>5
    <2> QED
        BY <2>1, <2>2
<1> QED
    BY <1>4, <1>6, <1>7, <1>8 DEF g

-----------------------------------------------------------------------------
(***************************************************************************)
(* What the hosts, the routers and icmp6.go make of a packet.              *)
(***************************************************************************)

(* The recomputed checksum of an ICMPv6 packet that quotes any packet.     *)
LEMMA IcmpVerifies ==
    ASSUME NEW p, p.proto = ICMP6, p.src \in Address, p.dst \in Address, p.len \in Int,
           p.data \in Words, p.type \in Nat, p.code \in Nat, p.rest \in Nat,
           p.quote = <<>> \/ (p.quote[1].src \in Address /\ p.quote[1].dst \in Address)
    PROVE  Fresh(p) \in Words /\ Combine(Covered(p), Fresh(p)) = Ones
<1>1. AddrSum(p) \in Words
    BY AddrSumType DEF AddrSum
<1>2. p.quote # <<>> => AddrSum(p.quote[1]) \in Words
    BY AddrSumType DEF AddrSum
<1>3. 0 \in Words
    BY SiitAssumption DEF Words
<1>4. Word(p.type + p.code + p.rest) \in Words /\ Word(p.len) \in Words /\ Word(ICMP6) \in Words
    <2>1. p.type + p.code + p.rest \in Int /\ ICMP6 \in Int
        BY DEF ICMP6
    <2> QED
        BY <2>1, WordType
<1>5. IcmpSum(p) \in Words
    BY <1>2, <1>3, <1>4, CombineType DEF IcmpSum
<1>6. Covered(p) = Combine(Combine(Combine(AddrSum(p), Word(p.len)), Word(ICMP6)), IcmpSum(p))
    BY DEF Covered, ICMP4, ICMP6
<1>7. Covered(p) \in Words
    BY <1>1, <1>4, <1>5, <1>6, CombineType
<1> QED
    BY <1>7, NotType, ComplementVerifies DEF Fresh

(* p is an ICMPv6 error that says t and r about q, with had bytes of it.   *)
Reporting(p, q, src, dst, had, t, r) ==
    /\ p.fam = q.fam /\ p.src = src /\ p.dst = dst /\ p.proto = ICMP6 /\ p.hdr = 40
    /\ p.ext = <<>> /\ p.len = 8 + had /\ p.pad = 0 /\ p.more = FALSE /\ p.off = 0
    /\ p.type = t /\ p.code = 0 /\ p.rest = r /\ p.quote # <<>>
    /\ p.quote[1] = [q EXCEPT !.pad = had - Size(q)]
    /\ p.ck \in Words /\ Verified(p)

(* BuildPacketTooBig.                                                      *)
LEMMA TooBigReports ==
    ASSUME NEW q \in Packet, NEW src \in Address, NEW dst \in Address, NEW mtu \in Nat,
           NEW p, p = BuildPacketTooBig(src, dst, mtu, q)
    PROVE  Reporting(p, q, src, dst, MinOf(Have(q), QuoteCap), 2, mtu)
<1> DEFINE n == MinOf(Have(q), QuoteCap)
           u == [q EXCEPT !.pad = n - Size(q)]
           b == [q EXCEPT !.src = src, !.dst = dst, !.proto = ICMP6, !.hdr = 40, !.ext = <<>>,
                          !.len = 8 + n, !.pad = 0, !.more = FALSE, !.off = 0,
                          !.type = 2, !.code = 0, !.rest = mtu, !.quote = <<u>>]
<1>1. p = [b EXCEPT !.ck = Fresh(b)]
    BY Zenon DEF BuildPacketTooBig
<1>2. n \in Int /\ Size(q) \in Int
    BY Lengths DEF MinOf, QuoteCap
<1> HIDE DEF n
<1>3. u.src \in Address /\ u.dst \in Address
    BY DEF Packet, PacketWith
<1> DEFINE w == u
<1>4. u = w
    OBVIOUS
<1> HIDE DEF w
<1>5. <<w>> # <<>> /\ <<w>>[1] = w
    OBVIOUS
<1> DEFINE k == <<w>>
<1>6. k # <<>> /\ k[1] = w
    BY <1>5
<1> HIDE DEF k
<1>7. b = [q EXCEPT !.src = src, !.dst = dst, !.proto = ICMP6, !.hdr = 40, !.ext = <<>>,
                    !.len = 8 + n, !.pad = 0, !.more = FALSE, !.off = 0,
                    !.type = 2, !.code = 0, !.rest = mtu, !.quote = k]
    BY <1>4, Zenon DEF k
<1> HIDE DEF u, b
<1>8. /\ b.fam = q.fam /\ b.src = src /\ b.dst = dst /\ b.proto = ICMP6 /\ b.hdr = 40
      /\ b.ext = <<>> /\ b.len = 8 + n /\ b.pad = 0 /\ b.more = FALSE /\ b.off = 0
      /\ b.type = 2 /\ b.code = 0 /\ b.rest = mtu /\ b.quote = k /\ b.data = q.data
    BY <1>7 DEF Packet, PacketWith
<1>9. /\ p.fam = b.fam /\ p.src = b.src /\ p.dst = b.dst /\ p.proto = b.proto /\ p.hdr = b.hdr
      /\ p.ext = b.ext /\ p.len = b.len /\ p.pad = b.pad /\ p.more = b.more /\ p.off = b.off
      /\ p.type = b.type /\ p.code = b.code /\ p.rest = b.rest /\ p.quote = b.quote
      /\ p.data = b.data /\ p.ck = Fresh(b)
    BY <1>1, <1>7 DEF Packet, PacketWith
<1>10. Covered(p) = Covered(b)
    BY <1>9 DEF Covered, AddrSum, IcmpSum
<1>11. Fresh(b) \in Words /\ Combine(Covered(b), Fresh(b)) = Ones
    <2>1. b.type \in Nat /\ b.code \in Nat /\ b.rest \in Nat /\ b.len \in Int
        BY <1>2, <1>8
    <2>2. b.data \in Words
        BY <1>8, Fields
    <2> QED
        BY <1>3, <1>4, <1>6, <1>8, <2>1, <2>2, IcmpVerifies
<1>12. p.ck \in Words /\ Verified(p)
    BY <1>9, <1>10, <1>11 DEF Verified
<1>13. p.quote # <<>> /\ p.quote[1] = [q EXCEPT !.pad = n - Size(q)]
    BY <1>4, <1>6, <1>8, <1>9, Zenon DEF u
<1> QED
    BY <1>8, <1>9, <1>12, <1>13, Zenon DEF Reporting, n

(* A packet stays one with its addresses, padding and type replaced, ...   *)
LEMMA AnswerType ==
    ASSUME NEW q \in Packet, NEW s \in Address, NEW d \in Address, NEW k \in Nat,
           NEW z \in Int
    PROVE  [q EXCEPT !.src = s, !.dst = d, !.pad = z, !.type = k] \in Packet
BY DEF Packet, PacketWith

(* ... and as the error that quotes another.                               *)
ErrorOf(q, s, d, m, t, r, k) ==
    [q EXCEPT !.src = s, !.dst = d, !.proto = ICMP6, !.ext = <<>>, !.len = m, !.pad = 0,
              !.more = FALSE, !.off = 0, !.type = t, !.code = 0, !.rest = r, !.quote = k]

LEMMA ErrorType ==
    ASSUME NEW q \in Packet, NEW s \in Address, NEW d \in Address, NEW m \in Int,
           NEW t \in Nat, NEW r \in Nat, NEW k \in Seq(Quote)
    PROVE  ErrorOf(q, s, d, m, t, r, k) \in Packet
<1> DEFINE n == ICMP6  e == <<>>  z == 0  b == FALSE  o == 0
<1>1. n \in Nat /\ e \in Seq(Extension) /\ z \in Int /\ b \in BOOLEAN /\ o \in Nat
    BY DEF ICMP6
<1>2. ErrorOf(q, s, d, m, t, r, k) =
        [q EXCEPT !.src = s, !.dst = d, !.proto = n, !.ext = e, !.len = m, !.pad = z,
                  !.more = b, !.off = o, !.type = t, !.code = o, !.rest = r, !.quote = k]
    BY Zenon DEF ErrorOf
<1> HIDE DEF n, e, z, b, o
<1>3. [q EXCEPT !.src = s, !.dst = d, !.proto = n, !.ext = e, !.len = m, !.pad = z,
                !.more = b, !.off = o, !.type = t, !.code = o, !.rest = r, !.quote = k] \in Packet
    BY <1>1 DEF Packet, PacketWith
<1> QED
    BY <1>2, <1>3, Zenon

(* How much of a packet a router quotes, and the rest of its error.        *)
Reported(q, whole) ==
    MinOf(Have(q), IF whole THEN QuoteCap ELSE MinOf(HeaderLen(q) + 8, QuoteCap))
Rest(t, mtu) == CASE t = 2 -> mtu [] t = 4 -> 6 [] OTHER -> 0

LEMMA QuotelessIsQuote ==
    ASSUME NEW q \in Packet, q.quote = <<>>
    PROVE  q \in Quote
<1> DEFINE none == {<<>>}  some == Seq(Quote)
<1>1. q.quote \in none
    OBVIOUS
<1>2. q \in PacketWith(some)
    BY DEF Packet
<1> HIDE DEF none, some
<1>3. q \in PacketWith(none)
    BY <1>1, <1>2 DEF PacketWith
<1> QED
    BY <1>3 DEF none, Quote

(* Report.                                                                 *)
LEMMA RouterReports ==
    ASSUME NEW q \in Packet, q.hdr = 40, NEW t \in Nat, NEW mtu \in Nat, NEW whole,
           NEW p, p = Report(q, t, mtu, whole)
    PROVE  /\ Reporting(p, q, q.dst, q.src, Reported(q, whole), t, Rest(t, mtu))
           /\ q.quote = <<>> => p \in Packet
<1> DEFINE n == Reported(q, whole)
           r == Rest(t, mtu)
           u == [q EXCEPT !.pad = n - Size(q)]
           b == [q EXCEPT !.src = q.dst, !.dst = q.src, !.proto = ICMP6, !.ext = <<>>,
                          !.len = 8 + n, !.pad = 0, !.more = FALSE, !.off = 0,
                          !.type = t, !.code = 0, !.rest = r, !.quote = <<u>>]
<1>1. p = [b EXCEPT !.ck = Fresh(b)]
    BY Zenon DEF Report, Reported, Rest
<1>2. n \in Int /\ Size(q) \in Int
    BY Lengths DEF MinOf, QuoteCap, Reported
<1>3. r \in Nat
    BY DEF Rest
<1> HIDE DEF n, r
<1>4. u.src \in Address /\ u.dst \in Address
    BY DEF Packet, PacketWith
<1>5. q.quote = <<>> => u \in Quote
    <2> DEFINE v == n - Size(q)
    <2>1. v \in Int
        BY <1>2
    <2> HIDE DEF v
    <2>2. ASSUME q \in Quote PROVE [q EXCEPT !.pad = v] \in Quote
        BY <2>1, <2>2 DEF Quote, PacketWith
    <2> QED
        BY <2>2, QuotelessIsQuote, Zenon DEF v
<1> DEFINE w == u
<1>6. u = w
    OBVIOUS
<1> HIDE DEF w
<1> DEFINE k == <<w>>
<1>7. k # <<>> /\ k[1] = w
    OBVIOUS
<1>8. w \in Quote => k \in Seq(Quote)
    OBVIOUS
<1> HIDE DEF k
<1>9. b = [q EXCEPT !.src = q.dst, !.dst = q.src, !.proto = ICMP6, !.ext = <<>>,
                    !.len = 8 + n, !.pad = 0, !.more = FALSE, !.off = 0,
                    !.type = t, !.code = 0, !.rest = r, !.quote = k]
    BY <1>6, Zenon DEF k
<1> HIDE DEF u, b
<1>10. /\ b.fam = q.fam /\ b.src = q.dst /\ b.dst = q.src /\ b.proto = ICMP6 /\ b.hdr = 40
       /\ b.ext = <<>> /\ b.len = 8 + n /\ b.pad = 0 /\ b.more = FALSE /\ b.off = 0
       /\ b.type = t /\ b.code = 0 /\ b.rest = r /\ b.quote = k /\ b.data = q.data
    BY <1>9 DEF Packet, PacketWith
<1>11. /\ p.fam = b.fam /\ p.src = b.src /\ p.dst = b.dst /\ p.proto = b.proto /\ p.hdr = b.hdr
       /\ p.ext = b.ext /\ p.len = b.len /\ p.pad = b.pad /\ p.more = b.more /\ p.off = b.off
       /\ p.type = b.type /\ p.code = b.code /\ p.rest = b.rest /\ p.quote = b.quote
       /\ p.data = b.data /\ p.ck = Fresh(b)
    BY <1>1, <1>9 DEF Packet, PacketWith
<1>12. Covered(p) = Covered(b)
    BY <1>11 DEF Covered, AddrSum, IcmpSum
<1>13. Fresh(b) \in Words /\ Combine(Covered(b), Fresh(b)) = Ones
    <2>1. b.type \in Nat /\ b.code \in Nat /\ b.rest \in Nat /\ b.len \in Int
        BY <1>2, <1>3, <1>10
    <2>2. b.data \in Words /\ b.src \in Address /\ b.dst \in Address
        BY <1>10, Fields
    <2> QED
        BY <1>4, <1>6, <1>7, <1>10, <2>1, <2>2, IcmpVerifies
<1>14. p.ck \in Words /\ Verified(p)
    BY <1>11, <1>12, <1>13 DEF Verified
<1>15. p.quote # <<>> /\ p.quote[1] = [q EXCEPT !.pad = n - Size(q)]
    BY <1>6, <1>7, <1>10, <1>11, Zenon DEF u
<1>16. ASSUME q.quote = <<>> PROVE p \in Packet
    <2>1. k \in Seq(Quote)
        BY <1>5, <1>6, <1>8, <1>16
    <2> DEFINE s == q.dst  d == q.src  m == 8 + n
    <2>2. b = ErrorOf(q, s, d, m, t, r, k)
        BY <1>9, Zenon DEF ErrorOf
    <2>3. s \in Address /\ d \in Address /\ m \in Int
        BY <1>2, Fields
    <2> HIDE DEF s, d, m
    <2>4. b \in Packet
        BY <1>3, <2>1, <2>2, <2>3, ErrorType
    <2> QED
        BY <1>1, <1>13, <2>4 DEF Packet, PacketWith
<1> QED
    BY <1>10, <1>11, <1>14, <1>15, <1>16, Zenon DEF Reporting, n, r

(* Answer: the addresses change places, the rest stays but for an echo.    *)
LEMMA HostAnswered ==
    ASSUME NEW q \in Packet, NEW p, p = Answer(q)
    PROVE  /\ p \in Packet
           /\ p.fam = q.fam /\ p.hdr = q.hdr /\ p.ext = q.ext /\ p.len = q.len /\ p.pad = 0
           /\ p.src = q.dst /\ p.dst = q.src /\ p.proto = q.proto
           /\ p.more = q.more /\ p.off = q.off /\ p.id = q.id
           /\ q.proto = ICMP6 \/ (Verified(q) /\ q.proto # ICMP4) => Verified(p)
<1> DEFINE k == IF q.type = 128 THEN 129 ELSE q.type
           a == [q EXCEPT !.src = q.dst, !.dst = q.src, !.pad = 0, !.type = k]
<1>1. p = IF q.proto = ICMP6 THEN [a EXCEPT !.ck = Fresh(a)] ELSE a
    BY Zenon DEF Answer
<1>2. k \in Nat
    BY Fields
<1> DEFINE s == q.dst  d == q.src
<1>3. s \in Address /\ d \in Address /\ a = [q EXCEPT !.src = s, !.dst = d, !.pad = 0, !.type = k]
    BY Fields
<1> HIDE DEF k, s, d, a
<1>4. a \in Packet
    <2>1. 0 \in Int
        OBVIOUS
    <2> QED
        BY <1>2, <1>3, <2>1, AnswerType, Zenon
<1>5. /\ a.fam = q.fam /\ a.hdr = q.hdr /\ a.ext = q.ext /\ a.len = q.len /\ a.pad = 0
      /\ a.src = s /\ a.dst = d /\ a.proto = q.proto
      /\ a.more = q.more /\ a.off = q.off /\ a.id = q.id /\ a.ck = q.ck /\ a.data = q.data
    BY <1>3 DEF Packet, PacketWith
<1>6. /\ a \in Packet
      /\ a.fam = q.fam /\ a.hdr = q.hdr /\ a.ext = q.ext /\ a.len = q.len /\ a.pad = 0
      /\ a.src = q.dst /\ a.dst = q.src /\ a.proto = q.proto
      /\ a.more = q.more /\ a.off = q.off /\ a.id = q.id /\ a.ck = q.ck /\ a.data = q.data
    BY <1>4, <1>5 DEF s, d
<1>7. CASE q.proto = ICMP6
    <2>1. p = [a EXCEPT !.ck = Fresh(a)]
        BY <1>1, <1>7
    <2>2. Fresh(a) \in Words /\ Combine(Covered(a), Fresh(a)) = Ones
        BY <1>6, FreshVerifies
    <2>3. /\ p \in Packet
          /\ p.fam = a.fam /\ p.hdr = a.hdr /\ p.ext = a.ext /\ p.len = a.len /\ p.pad = a.pad
          /\ p.src = a.src /\ p.dst = a.dst /\ p.proto = a.proto /\ p.data = a.data
          /\ p.more = a.more /\ p.off = a.off /\ p.id = a.id /\ p.ck = Fresh(a)
          /\ p.type = a.type /\ p.code = a.code /\ p.rest = a.rest /\ p.quote = a.quote
        BY <1>6, <2>1, <2>2 DEF Packet, PacketWith
    <2>4. Covered(p) = Covered(a)
        BY <1>6, <2>3, CoveredKept
    <2> QED
        BY <1>6, <2>2, <2>3, <2>4 DEF Verified
<1>8. CASE q.proto # ICMP6
    <2>1. p = a
        BY <1>1, <1>8
    <2>2. Payload(p) = Payload(q)
        BY <1>6, <1>8, <2>1 DEF Payload
    <2>3. ASSUME q.proto # ICMP4 PROVE Covered(p) = Covered(q)
        <3>1. Covered(q) = Combine(SumOf(q.src), Combine(SumOf(q.dst), Payload(q)))
            BY <2>3, CoveredBy
        <3>2. Covered(p) = Combine(SumOf(p.dst), Combine(SumOf(p.src), Payload(p)))
            BY <1>6, <2>1, <2>3, CoveredBy
        <3> QED
            BY <1>6, <2>1, <2>2, <3>1, <3>2
    <2> QED
        BY <1>6, <1>8, <2>1, <2>3 DEF Verified
<1> QED
    BY <1>7, <1>8

-----------------------------------------------------------------------------
(***************************************************************************)
(* The exchange: what is on the tun, on the net and back at the client in  *)
(* terms of the packet s it began with.                                    *)
(***************************************************************************)

(* A packet of the client that passes.                                     *)
Origin(s) ==
    /\ s \in Packet /\ WellFormed(s) /\ Size(s) <= IPv4OutboundMTU
    /\ s.fam = 4 => SIIT46InPlaceTranslate(s, 48).res = "translated"

LEMMA OnTunShape ==
    ASSUME NEW s, Origin(s), NEW o, o = OnTun(s)
    PROVE  /\ o \in Packet /\ o.fam = 6 /\ o.hdr = 40 /\ o.len \in Nat /\ o.len <= 1420
           /\ Size(o) <= 1448 /\ Have(o) >= 0
           /\ o.type \in {0, 128} => o.quote = <<>>
           /\ s.fam = 4 => Carried(s, o)
           /\ s.fam = 6 => o = s
<1>1. s \in Packet /\ WellFormed(s) /\ Size(s) <= 1400
    BY DEF Origin, IPv4OutboundMTU
<1>2. /\ Size(s) = s.hdr + 8 * Len(s.ext) + s.len /\ s.len \in Nat /\ s.hdr \in Nat
      /\ s.pad \in Int /\ Len(s.ext) \in Nat /\ s.fam \in {4, 6}
    <2>1. s.len \in 0..MaxLength
        BY <1>1 DEF WellFormed
    <2>2. s.len \in Nat
        <3> DEFINE l == s.len
        <3>1. l \in Int /\ l \in 0..MaxLength
            BY <1>1, <2>1, Fields
        <3> HIDE DEF l
        <3>2. l \in Nat
            BY <3>1 DEF MaxLength
        <3> QED
            BY <3>2 DEF l
    <2>3. Size(s) = s.hdr + 8 * Len(s.ext) + s.len
        BY <1>1, Lengths
    <2>4. s.hdr \in Nat /\ s.pad \in Int /\ Len(s.ext) \in Nat /\ s.fam \in {4, 6}
        BY <1>1, Fields
    <2> QED
        BY <2>2, <2>3, <2>4, Zenon
<1>3. CASE s.fam = 6
    <2>1. o = s
        BY <1>3 DEF OnTun
    <2>2. s.hdr = 40 /\ Have(s) >= 0
        BY <1>1, <1>3 DEF WellFormed
    <2>3. s.len <= 1420 /\ Size(s) <= 1448
        BY <1>1, <1>2, <2>2
    <2>4. s.type \in {0, 128} => s.quote = <<>>
        BY <1>1 DEF WellFormed
    <2>5. s.fam # 4
        BY <1>3
    <2> QED
        BY <1>1, <1>2, <1>3, <2>1, <2>2, <2>3, <2>4, <2>5
<1>4. CASE s.fam = 4
    <2>1. Carried(s, o)
        BY <1>1, <1>4, OnTun4 DEF Origin
    <2>2. /\ o \in Packet /\ o.fam = 6 /\ o.hdr = 40 /\ o.pad = s.pad /\ s.pad >= 0
          /\ o.len \in {s.len, s.len + 20}
          /\ o.ext = IF IsFragmented(s) THEN <<[kind |-> "frag", bad |-> FALSE]>> ELSE <<>>
        BY <2>1 DEF Carried
    <2>3. Len(o.ext) \in 0..1
        BY <2>2
    <2>4. s.hdr >= 20 /\ s.ext = <<>>
        <3>1. s.hdr \in 20..60 /\ s.ext = <<>>
            BY <1>1, <1>4, Zenon DEF WellFormed
        <3> DEFINE h == s.hdr
        <3>2. h \in 20..60
            BY <3>1
        <3> HIDE DEF h
        <3>3. h >= 20
            BY <3>2
        <3> QED
            BY <3>1, <3>3, Zenon DEF h
    <2>5. /\ Size(o) = o.hdr + 8 * Len(o.ext) + o.len
          /\ Have(o) = o.hdr + 8 * Len(o.ext) + o.len + o.pad
        BY <2>2, Lengths
    <2>6. s.len <= 1380
        BY <1>1, <1>2, <2>4
    <2>7. o.len \in Nat /\ o.len <= 1420 /\ Size(o) <= 1448 /\ Have(o) >= 0
        <3> DEFINE l == s.len  m == o.len  n == Len(o.ext)  z == o.pad
        <3>1. /\ l \in Nat /\ l <= 1380 /\ m \in {l, l + 20} /\ n \in 0..1 /\ z \in Int /\ z >= 0
              /\ Size(o) = 40 + 8 * n + m /\ Have(o) = 40 + 8 * n + m + z
            BY <1>2, <2>2, <2>3, <2>5, <2>6
        <3> HIDE DEF l, m, n, z
        <3>2. m \in Nat /\ m <= 1420 /\ 40 + 8 * n + m <= 1448 /\ 40 + 8 * n + m + z >= 0
            BY <3>1
        <3> QED
            BY <3>1, <3>2 DEF m
    <2>8. ASSUME o.type \in {0, 128} PROVE o.quote = <<>>
        <3>1. s.quote # <<>> => s.proto \in {ICMP4, ICMP6} /\ s.type \notin {0, 8, 128, 129}
            BY <1>1 DEF WellFormed
        <3>2. s.proto # ICMP6 /\ (s.quote = <<>> => o.quote = <<>>)
            BY <2>1 DEF Carried
        <3>3. s.proto = ICMP4 => s.type \in {0, 8}
            BY <2>1, <2>8 DEF Carried
        <3> QED
            BY <3>1, <3>2, <3>3
    <2>9. s.fam # 6
        BY <1>4
    <2> QED
        BY <1>4, <2>1, <2>2, <2>7, <2>8, <2>9, Zenon
<1> QED
    BY <1>2, <1>3, <1>4

(* An answer or an error finds its way back to the session.                *)
Addressed(s) == Origin(s) /\ OnTun(s).src = clatV6 /\ OnTun(s).type \in {0, 128}

Answered(s, n) == Addressed(s) /\ n = Answer(OnTun(s))

Refused(s, n, t, mtu) ==
    /\ Addressed(s) /\ t \in 1..4 /\ mtu \in Nat /\ mtu < MaxLength
    /\ \E whole \in BOOLEAN : n = Report(OnTun(s), t, mtu, whole)

Unasked(s, n) == s \in NetPackets /\ n = s

(* A quoted packet keeps everything but its padding.                       *)
LEMMA PaddingOnly ==
    ASSUME NEW o \in Packet, NEW z \in Int, NEW q, q = [o EXCEPT !.pad = z]
    PROVE  /\ q \in Packet
           /\ q.fam = o.fam /\ q.src = o.src /\ q.dst = o.dst /\ q.proto = o.proto /\ q.hdr = o.hdr
           /\ q.ext = o.ext /\ q.len = o.len /\ q.pad = z /\ q.type = o.type
           /\ q.quote = o.quote /\ Have(q) = Size(o) + z
<1>1. /\ q \in Packet
      /\ q.fam = o.fam /\ q.src = o.src /\ q.dst = o.dst /\ q.proto = o.proto /\ q.hdr = o.hdr
      /\ q.ext = o.ext /\ q.len = o.len /\ q.pad = z /\ q.type = o.type /\ q.quote = o.quote
    BY DEF Packet, PacketWith
<1>2. Size(q) = Size(o)
    BY <1>1, Zenon DEF Size, HeaderLen
<1> QED
    BY <1>1, <1>2 DEF Have

(* n is an error with a quote, q the quote of the packet o.                *)
ErrorPacket(n, t, mtu) ==
    /\ n \in Packet /\ n.fam = 6 /\ n.hdr = 40 /\ n.ext = <<>> /\ n.pad = 0
    /\ n.len \in Nat /\ n.len >= 8 /\ n.len <= 1240 /\ Have(n) = 40 + n.len
    /\ n.proto = ICMP6 /\ n.more = FALSE /\ n.off = 0 /\ Verified(n)
    /\ n.type = t /\ n.code = 0 /\ n.rest = Rest(t, mtu) /\ n.quote # <<>>

QuoteOf(q, o) ==
    /\ q \in Quote /\ q.fam = 6 /\ q.src = o.src /\ q.dst = o.dst /\ q.proto = o.proto
    /\ q.ext = o.ext /\ q.len = o.len /\ q.type = o.type
    /\ Have(o) >= 40 => Have(q) >= 40
    /\ Have(o) >= 48 => Have(q) >= 48

LEMMA RefusedShape ==
    ASSUME NEW s, NEW n, NEW t, NEW mtu, Refused(s, n, t, mtu)
    PROVE  ErrorPacket(n, t, mtu) /\ QuoteOf(n.quote[1], OnTun(s))
<1> DEFINE o == OnTun(s)
<1>1. PICK whole \in BOOLEAN : n = Report(o, t, mtu, whole)
    BY DEF Refused
<1>2. Origin(s) /\ o.type \in {0, 128} /\ t \in Nat /\ mtu \in Nat
    BY DEF Refused, Addressed
<1>3. /\ o \in Packet /\ o.fam = 6 /\ o.hdr = 40 /\ o.len \in Nat /\ o.len <= 1420
      /\ Have(o) >= 0 /\ o.quote = <<>>
    BY <1>2, OnTunShape
<1> HIDE DEF o
<1> DEFINE h == Reported(o, whole)
<1>4. /\ Reporting(n, o, o.dst, o.src, h, t, Rest(t, mtu))
      /\ n \in Packet
    BY <1>1, <1>2, <1>3, RouterReports
<1>5. /\ h \in Nat /\ h <= 1232
      /\ (Have(o) >= 40 => h >= 40) /\ (Have(o) >= 48 => h >= 48)
    <2> DEFINE a == Have(o)  b == HeaderLen(o)
    <2>1. h = MinOf(a, IF whole THEN 1232 ELSE MinOf(b + 8, 1232))
        BY DEF Reported, QuoteCap
    <2>2. a \in Int /\ a >= 0 /\ b = 40 + 8 * Len(o.ext) /\ Len(o.ext) \in Nat
        <3>1. Have(o) \in Int /\ HeaderLen(o) = o.hdr + 8 * Len(o.ext)
            BY <1>3, Lengths
        <3>2. Len(o.ext) \in Nat
            BY <1>3, Fields
        <3> QED
            BY <1>3, <3>1, <3>2
    <2>3. b \in Nat /\ b >= 40
        BY <2>2
    <2> HIDE DEF a, b, h
    <2>4. h \in Nat /\ h <= 1232 /\ (a >= 40 => h >= 40) /\ (a >= 48 => h >= 48)
        BY <2>1, <2>2, <2>3 DEF MinOf
    <2> QED
        BY <2>4 DEF a
<1> HIDE DEF h
<1>6. /\ n.fam = 6 /\ n.hdr = 40 /\ n.ext = <<>> /\ n.len = 8 + h /\ n.pad = 0
      /\ n.proto = ICMP6 /\ n.more = FALSE /\ n.off = 0 /\ Verified(n)
      /\ n.type = t /\ n.code = 0 /\ n.rest = Rest(t, mtu) /\ n.quote # <<>>
      /\ n.quote[1] = [o EXCEPT !.pad = h - Size(o)]
    <2>1. /\ n.fam = o.fam /\ n.hdr = 40 /\ n.ext = <<>> /\ n.len = 8 + h /\ n.pad = 0
        BY <1>4, Zenon DEF Reporting
    <2>2. /\ n.proto = ICMP6 /\ n.off = 0 /\ Verified(n)
        BY <1>4, Zenon DEF Reporting
    <2>3. n.more = FALSE
        BY <1>4, Zenon DEF Reporting
    <2>4. /\ n.type = t /\ n.code = 0 /\ n.rest = Rest(t, mtu) /\ n.quote # <<>>
        BY <1>4, Zenon DEF Reporting
    <2>5. n.quote[1] = [o EXCEPT !.pad = h - Size(o)]
        BY <1>4, Zenon DEF Reporting
    <2> QED
        BY <1>3, <2>1, <2>2, <2>3, <2>4, <2>5
<1>7. n.len \in Nat /\ n.len >= 8 /\ n.len <= 1240 /\ Have(n) = 40 + n.len
    <2>1. n.len = 8 + h
        BY <1>6
    <2>2. n.len \in Nat /\ n.len >= 8 /\ n.len <= 1240
        BY <1>5, <2>1
    <2>3. Have(n) = n.hdr + 8 * Len(n.ext) + n.len + n.pad
        BY <1>4, Lengths
    <2>4. Len(n.ext) = 0
        BY <1>6
    <2> QED
        BY <1>5, <1>6, <2>1, <2>2, <2>3, <2>4
<1> DEFINE z == h - Size(o)
           q == n.quote[1]
<1>8. z \in Int /\ Size(o) \in Int /\ Size(o) + z = h
    BY <1>3, <1>5, Lengths
<1>9. q = [o EXCEPT !.pad = z]
    BY <1>6, Zenon
<1>10. q \in Quote
    BY <1>4, <1>6, QuotedAddresses
<1> HIDE DEF z, q
<1>11. /\ q.fam = 6 /\ q.src = o.src /\ q.dst = o.dst /\ q.proto = o.proto /\ q.ext = o.ext
       /\ q.len = o.len /\ q.type = o.type /\ Have(q) = h
    BY <1>3, <1>8, <1>9, PaddingOnly
<1> QED
    BY <1>4, <1>5, <1>6, <1>7, <1>10, <1>11, Zenon DEF q, o, ErrorPacket, QuoteOf

LEMMA AnsweredShape ==
    ASSUME NEW s, NEW n, Answered(s, n), NEW o, o = OnTun(s)
    PROVE  /\ n \in Packet /\ o \in Packet /\ Origin(s)
           /\ n.fam = 6 /\ n.hdr = 40 /\ n.ext = o.ext /\ n.len = o.len /\ n.pad = 0
           /\ n.len \in Nat /\ n.len <= 1420
           /\ n.src = o.dst /\ n.dst = o.src /\ n.proto = o.proto
           /\ n.more = o.more /\ n.off = o.off /\ n.id = o.id
           /\ o.proto = ICMP6 \/ (Verified(o) /\ o.proto # ICMP4) => Verified(n)
<1>1. Origin(s) /\ n = Answer(o)
    BY DEF Answered, Addressed
<1>2. o \in Packet /\ o.fam = 6 /\ o.hdr = 40 /\ o.len \in Nat /\ o.len <= 1420
    BY <1>1, OnTunShape
<1> QED
    BY <1>1, <1>2, HostAnswered

(* The client's packet and the packet on the tun, for one of IPv4.         *)
LEMMA Mapped ==
    ASSUME NEW s, Origin(s), s.fam = 4, NEW o, o = OnTun(s)
    PROVE  /\ s \in Packet /\ o \in Packet /\ Carried(s, o)
           /\ s.dst = V4(s.dst.lo) /\ o.dst = Siit(s.dst.lo)
           /\ s.proto # ICMP6 /\ o.proto = To6(s.proto) /\ To4(o.proto) = s.proto
           /\ s.id \in Nat /\ s.id < IDSpace
<1>1. s \in Packet /\ Carried(s, o) /\ WellFormed(s)
    BY OnTunShape DEF Origin
<1>2. s.dst.hi = 0 /\ s.id < IDSpace
    BY <1>1 DEF WellFormed
<1>3. s.dst \in Address /\ s.id \in Nat
    BY <1>1, Fields
<1>4. s.dst = V4(s.dst.lo)
    BY <1>2, <1>3 DEF V4, Address
<1>5. o \in Packet /\ o.dst = Siit(s.dst.lo) /\ s.proto # ICMP6 /\ o.proto = To6(s.proto)
    BY <1>1 DEF Carried
<1>6. To4(o.proto) = s.proto
    BY <1>5 DEF To4, To6
<1> QED
    BY <1>1, <1>2, <1>3, <1>4, <1>5, <1>6, Zenon

LEMMA V4OfSiit ==
    ASSUME NEW a
    PROVE  V4(Siit(a).lo) = V4(a)
BY DEF V4, Siit

(* The answer the client gets mirrors the IPv4 packet it sent.             *)
LEMMA AnswerMirrors ==
    ASSUME NEW s, NEW n, Answered(s, n), s.fam = 4, NEW g, Delivered(n, g)
    PROVE  /\ s.more = g.more /\ s.off = g.off /\ (IsFragmented(s) => s.id = g.id)
           /\ g.src = s.dst /\ g.proto = s.proto /\ g.len = s.len
           /\ Summable(s) \/ s.off # 0 => g.dst = V4(Placeholder)
<1> DEFINE o == OnTun(s)
<1>1. /\ Origin(s) /\ n \in Packet /\ o \in Packet
      /\ n.ext = o.ext /\ n.len = o.len /\ n.pad = 0 /\ n.src = o.dst /\ n.proto = o.proto
      /\ n.more = o.more /\ n.off = o.off /\ n.id = o.id
    BY AnsweredShape
<1>2. /\ s \in Packet /\ Carried(s, o) /\ s.dst = V4(s.dst.lo) /\ o.dst = Siit(s.dst.lo)
      /\ s.proto # ICMP6 /\ o.proto = To6(s.proto) /\ To4(o.proto) = s.proto
      /\ s.id \in Nat /\ s.id < IDSpace
    BY <1>1, Mapped
<1>3. o.type \in {0, 128} /\ o.quote = <<>>
    BY <1>1, OnTunShape DEF Answered, Addressed
<1> HIDE DEF o
<1>4. /\ o.more = s.more /\ o.off = s.off /\ o.id = s.id
      /\ o.ext = IF IsFragmented(s) THEN <<[kind |-> "frag", bad |-> FALSE]>> ELSE <<>>
    BY <1>2, Zenon DEF Carried
<1>5. o.len = s.len
    <2>1. s.quote # <<>> => s.proto = ICMP4 /\ s.type \notin {0, 8}
        BY <1>1, <1>2 DEF Origin, WellFormed
    <2>2. s.proto = ICMP4 => s.type \in {0, 8}
        BY <1>2, <1>3 DEF Carried
    <2> QED
        BY <1>2, <2>1, <2>2 DEF Carried
<1>6. /\ g.len = n.len /\ g.src = V4(n.src.lo) /\ g.proto = To4(n.proto)
      /\ g.more = n.more /\ g.off = n.off
      /\ IsFragmented(n) => g.id = n.id % IDSpace
      /\ ~NAT66Short(n) => g.dst = V4(Placeholder)
    BY Zenon DEF Delivered
<1>7. g.src = s.dst
    BY <1>1, <1>2, <1>6, V4OfSiit
<1>8. ASSUME IsFragmented(s) PROVE s.id = g.id
    <2>1. IsFragmented(n)
        BY <1>1, <1>4, <1>8 DEF IsFragmented
    <2>2. g.id = s.id % IDSpace
        BY <1>1, <1>4, <1>6, <2>1
    <2>3. s.id % IDSpace = s.id
        BY <1>2, SiitAssumption
    <2> QED
        BY <2>2, <2>3
<1>9. ASSUME Summable(s) \/ s.off # 0 PROVE ~NAT66Short(n)
    <2>1. CASE s.off # 0
        <3>1. n.off # 0 /\ n.ext # <<>>
            BY <1>1, <1>4, <2>1 DEF IsFragmented
        <3> QED
            BY <3>1 DEF NAT66Short, NAT66Sums, NAT66Sees
    <2>2. CASE Summable(s)
        <3>1. s.len >= MinimumSize(s.proto)
            BY <2>2 DEF Summable
        <3>2. MinimumSize(n.proto) = MinimumSize(s.proto)
            BY <1>1, <1>2 DEF MinimumSize, To6, ICMP4, ICMP6, TCP, DCCP
        <3>3. n.len + n.pad = s.len
            <4>1. s.len \in Int
                BY <1>2, Fields
            <4> QED
                BY <1>1, <1>5, <4>1
        <3>4. MinimumSize(s.proto) \in Nat /\ s.len \in Int
            BY <1>2, Fields DEF MinimumSize
        <3> QED
            BY <3>1, <3>2, <3>3, <3>4 DEF NAT66Short
    <2> QED
        BY <1>9, <2>1, <2>2
<1> QED
    BY <1>1, <1>2, <1>4, <1>5, <1>6, <1>7, <1>8, <1>9

(* The error the client gets quotes the IPv4 packet it sent, from the low  *)
(* half of its CLAT /128.                                                  *)
LEMMA ErrorNames ==
    ASSUME NEW s, NEW n, NEW t, NEW mtu, Refused(s, n, t, mtu), s.fam = 4,
           NEW g, Delivered(n, g), NEW q, q = g.quote[1]
    PROVE  IF q.fam = 4 THEN /\ q.dst = s.dst /\ q.src = V4(ClatLo)
                             /\ q.proto = s.proto /\ q.len = s.len
           ELSE IsFragmented(s)
<1> DEFINE o == OnTun(s)
           u == n.quote[1]
<1>1. /\ n \in Packet /\ n.proto = ICMP6 /\ n.type = t /\ n.quote # <<>>
      /\ u \in Quote /\ u.fam = 6 /\ u.src = o.src /\ u.dst = o.dst /\ u.proto = o.proto
      /\ u.ext = o.ext /\ u.len = o.len /\ u.type = o.type
      /\ Have(o) >= 40 => Have(u) >= 40
      /\ Have(o) >= 48 => Have(u) >= 48
    <2>1. ErrorPacket(n, t, mtu) /\ QuoteOf(u, o)
        BY RefusedShape
    <2> HIDE DEF u, o
    <2> QED
        BY <2>1 DEF ErrorPacket, QuoteOf
<1>2. Origin(s) /\ o.src = clatV6 /\ o.type \in {0, 128} /\ t \in 1..4
    BY DEF Refused, Addressed
<1>3. /\ s \in Packet /\ o \in Packet /\ Carried(s, o)
      /\ s.dst = V4(s.dst.lo) /\ o.dst = Siit(s.dst.lo)
      /\ s.proto # ICMP6 /\ o.proto = To6(s.proto) /\ To4(o.proto) = s.proto
    BY <1>2, Mapped
<1>4. o.len \in Nat /\ o.len <= 1420 /\ Have(o) >= 0
    BY <1>2, OnTunShape
<1> HIDE DEF o, u
<1>5. t \notin {128, 129}
    BY <1>2
<1>6. q = Requoted(u)
    <2>1. n.type \notin {128, 129} /\ n.quote # <<>> => g.quote[1] = Requoted(n.quote[1])
        BY <1>1 DEF Delivered
    <2> QED
        BY <1>1, <1>5, <2>1 DEF u
<1>7. o.len = s.len
    <2>1. s.quote # <<>> => s.proto = ICMP4 /\ s.type \notin {0, 8}
        BY <1>2, <1>3 DEF Origin, WellFormed
    <2>2. s.proto = ICMP4 => s.type \in {0, 8}
        BY <1>2, <1>3 DEF Carried
    <2> QED
        BY <1>3, <2>1, <2>2 DEF Carried
<1>8. CASE QuoteTranslatable64(u)
    <2>1. q = Quote64(u)
        BY <1>6, <1>8 DEF Requoted
    <2>2. /\ q.fam = 4 /\ q.len = TotalLength(u.len) - 20 /\ q.proto = To4(u.proto)
          /\ q.src = V4(u.src.lo) /\ q.dst = V4(u.dst.lo)
        BY <1>1, <2>1, Quote64Type
    <2>3. TotalLength(u.len) - 20 = u.len
        <3>1. u \in Packet
            BY <1>1, QuoteIsPacket
        <3>2. Fits(u)
            BY <1>1, <1>4, SMT DEF Fits
        <3> QED
            BY <3>1, <3>2, TotalLengthFits
    <2>4. q.dst = s.dst
        BY <1>1, <1>3, <2>2, V4OfSiit
    <2>5. q.src = V4(ClatLo)
        BY <1>1, <1>2, <2>2 DEF clatV6
    <2> QED
        BY <1>1, <1>3, <1>7, <2>2, <2>3, <2>4, <2>5
<1>9. CASE ~QuoteTranslatable64(u)
    <2>1. q = u /\ q.fam # 4
        BY <1>1, <1>6, <1>9 DEF Requoted
    <2>2. ASSUME ~IsFragmented(s) PROVE FALSE
        <3>1. u.ext = <<>>
            BY <1>1, <1>3, <2>2 DEF Carried
        <3>2. o.pad = s.pad /\ s.pad >= 0 /\ o.hdr = 40
            BY <1>3 DEF Carried
        <3>3. Have(o) = 40 + 8 * Len(o.ext) + o.len + o.pad /\ Len(o.ext) \in Nat /\ o.pad \in Int
            BY <1>3, <3>2, Lengths, Fields
        <3>4. Have(u) >= 40
            <4>1. Have(o) >= 40
                BY <1>4, <3>2, <3>3
            <4> QED
                BY <1>1, <4>1
        <3>5. ASSUME u.proto = ICMP6 PROVE Have(u) >= 48 /\ u.type \in {128, 129}
            <4>1. s.proto = ICMP4
                BY <1>1, <1>3, <3>5 DEF To6
            <4>2. s.len >= 8 /\ o.type \in {1, 2, 3, 4, 128, 129}
                BY <1>3, <4>1 DEF Carried
            <4>3. Have(o) >= 48
                BY <1>4, <1>7, <3>2, <3>3, <4>2
            <4>4. o.type = 128
                BY <1>2, <4>2
            <4> QED
                BY <1>1, <4>3, <4>4
        <3> QED
            BY <1>1, <1>9, <3>1, <3>4, <3>5 DEF QuoteTranslatable64
    <2> QED
        BY <2>1, <2>2
<1> QED
    BY <1>8, <1>9

(* A router's error is translated: it passes the cap, its checksum         *)
(* survives NAT66 and SIIT64 knows it.                                     *)
LEMMA ErrorArrives ==
    ASSUME NEW s, NEW n, NEW t, NEW mtu, Refused(s, n, t, mtu), NEW next,
           NEW p, p = NAT66InPlaceTranslateAddress(n, Siit(Placeholder), "dst"),
           NEW x, x = SIIT64InPlaceTranslate(p, 48, next)
    PROVE  x.ok /\ Have(n) >= 40 /\ Have(n) <= 1280
<1>1. /\ n \in Packet /\ n.fam = 6 /\ n.hdr = 40 /\ n.ext = <<>> /\ n.pad = 0
      /\ n.len \in Nat /\ n.len >= 8 /\ n.len <= 1240 /\ Have(n) = 40 + n.len
      /\ n.proto = ICMP6 /\ n.more = FALSE /\ n.off = 0 /\ Verified(n)
      /\ n.type = t /\ n.code = 0 /\ n.rest = Rest(t, mtu)
    <2>1. ErrorPacket(n, t, mtu)
        BY RefusedShape
    <2> QED
        BY <2>1 DEF ErrorPacket
<1>2. t \in 1..4 /\ mtu \in Nat /\ mtu < MaxLength
    BY DEF Refused
<1>3. Readdressed(n, p)
    BY <1>1, Nat66Readdresses
<1>4. Verified(p)
    <2>1. NAT66Sums(n)
        BY <1>1 DEF NAT66Sums, NAT66Sees
    <2>2. MinimumSize(n.proto) = 8
        BY <1>1 DEF MinimumSize, ICMP6, TCP, DCCP
    <2>3. ~NAT66Short(n)
        BY <1>1, <2>2 DEF NAT66Short
    <2> QED
        BY <1>1, <1>3, <2>1, <2>3 DEF Readdressed
<1>5. /\ p \in Packet /\ p.fam = 6 /\ p.ext = <<>> /\ p.pad = 0 /\ p.len = n.len /\ p.proto = ICMP6
      /\ p.more = FALSE /\ p.off = 0 /\ p.type = t /\ p.code = 0 /\ p.rest = Rest(t, mtu)
    BY <1>1, <1>3, Zenon DEF Readdressed
<1>6. isICMPv6PacketHeaderTranslatable(p.type, p.code, p.rest)
    <2>1. p.code = 0 /\ p.type = t /\ p.rest = Rest(t, mtu)
        BY <1>5
    <2>2. CASE t = 1
        BY <2>1, <2>2, SMT DEF isICMPv6PacketHeaderTranslatable
    <2>3. CASE t = 2
        BY <1>2, <2>1, <2>3, SMT DEF isICMPv6PacketHeaderTranslatable, Rest, MaxLength
    <2>4. CASE t = 3
        BY <2>1, <2>4, SMT DEF isICMPv6PacketHeaderTranslatable
    <2>5. CASE t = 4
        <3>1. Rest(t, mtu) = 6
            BY <2>5 DEF Rest
        <3> QED
            BY <2>1, <2>5, <3>1, SMT DEF isICMPv6PacketHeaderTranslatable
    <2>6. t \in {1, 2, 3, 4}
        BY <1>2
    <2> QED
        BY <2>2, <2>3, <2>4, <2>5, <2>6
<1>7. isEveryIPv6ExtensionHeaderTranslatable(p)
    BY <1>5 DEF isEveryIPv6ExtensionHeaderTranslatable, isTransportProtocolForbidden, ICMP4, ICMP6
<1>8. isIPv6PacketTranslatable(p)
    <2>1. ~IsFragmented(p) /\ ~p.more /\ p.pad >= 0 /\ p.len >= 8
        BY <1>1, <1>5 DEF IsFragmented
    <2> QED
        BY <1>4, <1>5, <1>6, <1>7, <2>1, Zenon DEF isIPv6PacketTranslatable
<1>9. HeaderLen(p) \in Nat
    BY <1>5, Lengths
<1>10. x.ok
    BY <1>8, <1>9, Siit64Parses
<1> QED
    BY <1>1, <1>10

-----------------------------------------------------------------------------
(***************************************************************************)
(* The inductive invariant: at every place the packet is the one the       *)
(* translators make of the packet the exchange began with.                 *)
(***************************************************************************)
OnNet(s, how, n) ==
    \/ how = "unasked" /\ Unasked(s, n)
    \/ how = "answer" /\ Answered(s, n)
    \/ how = "error" /\ \E t \in 1..4, mtu \in LinkMTUs \cup {0} : Refused(s, n, t, mtu)

(* g is what TunToClient makes of n.                                       *)
Received(n, g) ==
    /\ Delivered(n, g)
    /\ /\ Summable(g)
       /\ n.proto = ICMP6 \/ (Verified(n) /\ n.src.hi = Prefix /\ NAT66Sees(n))
       => Verified(g)

(* The Packet Too Big about n.                                             *)
Notified(n, p) ==
    n \in Packet /\ Have(n) > IPv6OutboundMTU /\ p = BuildPacketTooBig(clatV6, n.src, IPv6OutboundMTU, n)

Types ==
    /\ at \in {"idle", "client", "tun", "net", "got", "host", "aborted"}
    /\ about \in {"sent", "answer", "error", "unasked", "ptb"}
    /\ pmtu \in Nat /\ pmtu >= 68 /\ pmtu <= IPv4OutboundMTU
    /\ link \in Nat /\ ids \in 0..(IDSpace - 1)

AtIdle == at = "idle" => pkt = Nothing
AtClient ==
    at = "client" => /\ pkt = sent /\ about = "sent"
                     /\ sent \in Packet /\ WellFormed(sent) /\ Size(sent) <= pmtu
AtTun ==
    at = "tun" => /\ pkt = OnTun(sent) /\ about = "sent" /\ slice = Have(pkt)
                  /\ Origin(sent) /\ Size(sent) <= pmtu
AtNet == at = "net" => OnNet(sent, about, pkt)
AtGot ==
    at = "got" => slice = Have(pkt) /\ \E n : OnNet(sent, about, n) /\ Received(n, pkt)
AtHost == at = "host" => about = "ptb" /\ \E n : Notified(n, pkt)
AtAborted ==
    at = "aborted" => /\ pkt = sent /\ sent \in Packet /\ WellFormed(sent) /\ sent.fam = 4
                      /\ sent.quote # <<>> /\ QuoteBytes(sent) >= 28 /\ sent.len - 8 < 24

(* The narrowest link is known to the client, or news of it is under way.  *)
Informed ==
    link >= 1280 =>
        \/ pmtu + 20 <= link
        \/ at = "net" /\ about = "error" /\ pkt.type = 2 /\ pkt.rest <= link
        \/ at = "got" /\ about = "error" /\ pkt.type = 3 /\ pkt.code = 4 /\ pkt.rest + 20 <= link

IInv ==
    /\ Types /\ AtIdle /\ AtClient /\ AtTun /\ AtNet /\ AtGot /\ AtHost /\ AtAborted
    /\ Informed

LEMMA InitIInv == Init => IInv
BY SiitAssumption
   DEF Init, IInv, Types, AtAborted, AtIdle, AtClient, AtTun, AtNet, AtGot, AtHost, Informed, NoLink,
       IPv4OutboundMTU

(* After Gone only what outlives an exchange is left to show.              *)
LEMMA GoneIInv ==
    ASSUME Gone, Types', Informed'
    PROVE  IInv'
BY DEF Gone, IInv, AtAborted, AtIdle, AtClient, AtTun, AtNet, AtGot, AtHost

(* Nothing but a Packet Too Big under way is lost with the packet.         *)
LEMMA GoneInformed ==
    ASSUME IInv, Gone, UNCHANGED <<pmtu, link, ids>>,
           link >= 1280 => pmtu + 20 <= link
    PROVE  IInv'
<1>1. Types'
    BY DEF IInv, Types, Gone
<1>2. Informed'
    BY DEF Informed
<1> QED
    BY <1>1, <1>2, GoneIInv

(* The checksum step translates or drops.                                  *)
LEMMA UpdateNoAbort ==
    ASSUME NEW p
    PROVE  siit46UpdateTransportChecksum(p).res # "aborted"
BY SMT DEF siit46UpdateTransportChecksum

(* An abort happens only over an error whose quote moves although its      *)
(* header is not inside the declared packet.                               *)
LEMMA AbortShape ==
    ASSUME NEW p, SIIT46InPlaceTranslate(p, 48).res = "aborted"
    PROVE  QuoteTranslatable46(p) /\ QuoteOutOfRange(p)
<1> DEFINE made == makeRoomForIPv6Header(p, 48)
           head == siit46TranslateHeader(p)
           icmp == siit46TranslateICMPTransport(head)
           body == IF head.proto # ICMP6 THEN [pkt |-> head, reserved |-> made]
                   ELSE IF icmp.type \in {128, 129} THEN [pkt |-> icmp, reserved |-> made]
                        ELSE siit46TranslateICMPErrorQuote(icmp, made)
           done == siit46UpdateTransportChecksum(body.pkt)
           ends == QuoteTranslatable46(p) /\ made >= 20 /\ QuoteOutOfRange(p)
           t == SIIT46InPlaceTranslate(p, 48)
<1>1. t = IF ~parseSIIT46IPv4Packet(p) THEN [res |-> "untranslated", pkt |-> p, reserved |-> 48]
          ELSE IF made < 0 THEN [res |-> "dropped", pkt |-> p, reserved |-> 48]
          ELSE IF ends THEN [res |-> "aborted", pkt |-> p, reserved |-> 48]
          ELSE [res |-> done.res, pkt |-> done.pkt, reserved |-> body.reserved]
    BY Zenon DEF SIIT46InPlaceTranslate
<1>2. done.res # "aborted"
    <2> HIDE DEF body
    <2> QED
        BY UpdateNoAbort
<1> HIDE DEF made, body, done, ends, t
<1>3. ends
    BY <1>1, <1>2 DEF t
<1> QED
    BY <1>3 DEF ends

(* Away from the net and the client, the client knows of the link.         *)
LEMMA InformedElsewhere ==
    ASSUME IInv, at \notin {"net", "got"}
    PROVE  link >= 1280 => pmtu + 20 <= link
BY DEF IInv, Informed

LEMMA ClientSendsIInv == IInv /\ ClientSends => IInv'
<1> SUFFICES ASSUME IInv, ClientSends PROVE IInv'
    OBVIOUS
<1>1. PICK p \in ClientPackets : /\ Size(p) <= pmtu
                                 /\ at' = "client" /\ pkt' = p /\ sent' = p /\ about' = "sent"
    BY DEF ClientSends
<1>2. UNCHANGED <<slice, pmtu, link, ids>> /\ at = "idle"
    BY DEF ClientSends
<1>3. p \in Packet /\ WellFormed(p)
    BY PacketAssumption
<1>4. Types'
    BY <1>1, <1>2 DEF IInv, Types
<1>5. AtClient'
    BY <1>1, <1>2, <1>3 DEF AtClient
<1>6. Informed'
    BY <1>2, InformedElsewhere DEF Informed
<1> QED
    BY <1>1, <1>4, <1>5, <1>6 DEF IInv, AtAborted, AtIdle, AtTun, AtNet, AtGot, AtHost

LEMMA ClientToTunIInv == IInv /\ ClientToTun => IInv'
<1> SUFFICES ASSUME IInv, ClientToTun PROVE IInv'
    OBVIOUS
<1> DEFINE t == SIIT46InPlaceTranslate(pkt, 48)
<1>1. /\ at = "client" /\ pkt = sent /\ about = "sent" /\ sent \in Packet /\ WellFormed(sent)
      /\ Size(sent) <= pmtu /\ UNCHANGED <<pmtu, link, ids>>
    BY DEF ClientToTun, IInv, AtClient
<1>2. Size(sent) <= IPv4OutboundMTU
    <2>1. pmtu \in Nat /\ pmtu <= IPv4OutboundMTU
        BY DEF IInv, Types
    <2>2. Size(sent) \in Int
        BY <1>1, Lengths
    <2> QED
        BY <1>1, <2>1, <2>2 DEF IPv4OutboundMTU
<1>3. link >= 1280 => pmtu + 20 <= link
    BY <1>1, InformedElsewhere
<1>4. \/ /\ pkt.fam = 6 /\ at' = "tun" /\ slice' = Have(pkt) /\ UNCHANGED <<pkt, sent, about>>
      \/ /\ pkt.fam = 4 /\ t.res = "translated"
         /\ at' = "tun" /\ slice' = SliceOf(pkt, t.reserved)
         /\ pkt' = NAT66InPlaceTranslateAddress(t.pkt, clatV6, "src")
         /\ UNCHANGED <<sent, about>>
      \/ /\ pkt.fam = 4 /\ t.res = "aborted"
         /\ at' = "aborted" /\ UNCHANGED <<pkt, sent, about, slice>>
      \/ Gone
    BY DEF ClientToTun, reservedSpaceSizeDefault
<1>5. CASE Gone
    BY <1>1, <1>3, <1>5, GoneInformed
<1>6. CASE pkt.fam = 6 /\ at' = "tun" /\ slice' = Have(pkt) /\ UNCHANGED <<pkt, sent, about>>
    <2>1. Origin(sent) /\ OnTun(sent) = sent
        BY <1>1, <1>2, <1>6 DEF Origin, OnTun
    <2>2. AtTun'
        BY <1>1, <1>6, <2>1 DEF AtTun
    <2>3. Types' /\ Informed'
        BY <1>1, <1>3, <1>6 DEF IInv, Types, Informed
    <2> QED
        BY <1>6, <2>2, <2>3 DEF IInv, AtAborted, AtIdle, AtClient, AtNet, AtGot, AtHost
<1>7. CASE /\ pkt.fam = 4 /\ t.res = "translated"
           /\ at' = "tun" /\ slice' = SliceOf(pkt, t.reserved)
           /\ pkt' = NAT66InPlaceTranslateAddress(t.pkt, clatV6, "src")
           /\ UNCHANGED <<sent, about>>
    <2>1. sent.fam = 4 /\ SIIT46InPlaceTranslate(sent, 48).res = "translated"
        BY <1>1, <1>7
    <2>2. Origin(sent)
        BY <1>1, <1>2, <2>1 DEF Origin
    <2>3. OnTun(sent) = NAT66InPlaceTranslateAddress(SIIT46InPlaceTranslate(sent, 48).pkt, clatV6, "src")
        BY <2>1 DEF OnTun
    <2>4. pkt' = OnTun(sent)
        BY <1>1, <1>7, <2>3
    <2>5. Have(OnTun(sent)) = SliceOf(sent, SIIT46InPlaceTranslate(sent, 48).reserved)
        BY <1>1, <2>1, OnTun4
    <2>6. slice' = Have(pkt')
        BY <1>1, <1>7, <2>4, <2>5
    <2>7. AtTun'
        BY <1>1, <1>7, <2>2, <2>4, <2>6 DEF AtTun
    <2>8. Types' /\ Informed'
        BY <1>1, <1>3, <1>7 DEF IInv, Types, Informed
    <2> QED
        BY <1>7, <2>7, <2>8 DEF IInv, AtAborted, AtIdle, AtClient, AtNet, AtGot, AtHost
<1>8. CASE /\ pkt.fam = 4 /\ t.res = "aborted"
           /\ at' = "aborted" /\ UNCHANGED <<pkt, sent, about, slice>>
    <2>1. QuoteTranslatable46(pkt) /\ QuoteOutOfRange(pkt)
        BY <1>8, AbortShape
    <2>2. pkt.quote # <<>> /\ QuoteBytes(pkt) >= 28
        BY <2>1, Zenon DEF QuoteTranslatable46
    <2>3. pkt.len \in Int
        BY <1>1, Fields
    <2>4. pkt.len - 8 < 24
        BY <2>1, <2>3, SMT DEF QuoteOutOfRange
    <2>5. AtAborted'
        BY <1>1, <1>8, <2>2, <2>4, Zenon DEF AtAborted
    <2>6. Types' /\ Informed'
        BY <1>1, <1>3, <1>8 DEF IInv, Types, Informed
    <2> QED
        BY <1>8, <2>5, <2>6 DEF IInv, AtIdle, AtClient, AtTun, AtNet, AtGot, AtHost
<1> QED
    BY <1>4, <1>5, <1>6, <1>7, <1>8

(* A new process starts from what outlives it: the client's path MTU.      *)
LEMMA RestartIInv == IInv /\ Restart => IInv'
<1> SUFFICES ASSUME IInv, Restart PROVE IInv'
    OBVIOUS
<1>1. at = "aborted" /\ Gone /\ ids' = 0 /\ UNCHANGED <<pmtu, link>>
    BY DEF Restart
<1>2. Types'
    BY <1>1, SiitAssumption DEF IInv, Types, Gone
<1>3. Informed'
    BY <1>1, InformedElsewhere DEF Informed
<1> QED
    BY <1>1, <1>2, <1>3, GoneIInv

LEMMA HostAnswersIInv == IInv /\ HostAnswers => IInv'
<1> SUFFICES ASSUME IInv, HostAnswers PROVE IInv'
    OBVIOUS
<1>1. /\ at = "tun" /\ pkt.src = clatV6 /\ pkt.type \in {0, 128}
      /\ at' = "net" /\ about' = "answer" /\ pkt' = Answer(pkt)
      /\ UNCHANGED <<sent, slice, pmtu, link, ids>>
    BY DEF HostAnswers, Answerable
<1>2. pkt = OnTun(sent) /\ Origin(sent)
    BY <1>1 DEF IInv, AtTun
<1>3. Answered(sent, pkt')
    BY <1>1, <1>2 DEF Answered, Addressed
<1>4. AtNet'
    BY <1>1, <1>3 DEF AtNet, OnNet
<1>5. link >= 1280 => pmtu + 20 <= link
    BY <1>1, InformedElsewhere
<1>6. Types' /\ Informed'
    BY <1>1, <1>5 DEF IInv, Types, Informed
<1> QED
    BY <1>1, <1>4, <1>6 DEF IInv, AtAborted, AtIdle, AtClient, AtTun, AtGot, AtHost

(* The router that finds the packet too big announces a link below it.     *)
LEMMA RouterTooBigIInv ==
    ASSUME NEW mtu \in LinkMTUs, NEW whole \in BOOLEAN, IInv, RouterTooBig(mtu, whole)
    PROVE  IInv'
<1>1. /\ at = "tun" /\ pkt.src = clatV6 /\ pkt.type \in {0, 128}
      /\ Size(pkt) > mtu
      /\ at' = "net" /\ about' = "error" /\ pkt' = Report(pkt, 2, mtu, whole)
      /\ link' = MinOf(link, mtu)
      /\ UNCHANGED <<sent, slice, pmtu, ids>>
    BY DEF RouterTooBig, Answerable
<1>2. pkt = OnTun(sent) /\ Origin(sent) /\ link \in Nat /\ mtu \in Nat
    BY <1>1, SiitAssumption DEF IInv, AtTun, Types
<1>3. mtu < MaxLength
    <2>1. pkt \in Packet /\ Size(pkt) <= 1448
        BY <1>2, OnTunShape
    <2>2. Size(pkt) \in Int
        BY <2>1, Lengths
    <2> QED
        BY <1>1, <1>2, <2>1, <2>2 DEF MaxLength
<1>4. Refused(sent, pkt', 2, mtu)
    BY <1>1, <1>2, <1>3 DEF Refused, Addressed
<1>5. AtNet'
    BY <1>1, <1>4 DEF AtNet, OnNet
<1>6. pkt'.type = 2 /\ pkt'.rest = mtu
    <2>1. ErrorPacket(pkt', 2, mtu)
        BY <1>4, RefusedShape
    <2> QED
        BY <2>1 DEF ErrorPacket, Rest
<1>7. link >= 1280 => pmtu + 20 <= link
    BY <1>1, InformedElsewhere
<1>8. Informed'
    <2>1. CASE link <= mtu
        <3>1. link' = link \/ (link' = mtu /\ link = mtu)
            BY <1>1, <1>2, <2>1 DEF MinOf
        <3> QED
            BY <1>1, <1>7, <3>1 DEF Informed
    <2>2. CASE ~(link <= mtu)
        <3>1. link' = mtu
            BY <1>1, <1>2, <2>2 DEF MinOf
        <3>2. pkt'.rest <= link'
            BY <1>2, <1>6, <3>1
        <3> QED
            BY <1>1, <1>6, <3>2 DEF Informed
    <2> QED
        BY <2>1, <2>2
<1>9. Types'
    <2>1. link' \in Nat
        BY <1>1, <1>2 DEF MinOf
    <2> QED
        BY <1>1, <2>1 DEF IInv, Types
<1> QED
    BY <1>1, <1>5, <1>8, <1>9 DEF IInv, AtAborted, AtIdle, AtClient, AtTun, AtGot, AtHost

LEMMA RouterRejectsIInv ==
    ASSUME NEW type \in {1, 3, 4}, NEW whole \in BOOLEAN, IInv, RouterRejects(type, whole)
    PROVE  IInv'
<1>1. /\ at = "tun" /\ pkt.src = clatV6 /\ pkt.type \in {0, 128}
      /\ at' = "net" /\ about' = "error" /\ pkt' = Report(pkt, type, 0, whole)
      /\ UNCHANGED <<sent, slice, pmtu, link, ids>>
    BY DEF RouterRejects, Answerable
<1>2. pkt = OnTun(sent) /\ Origin(sent)
    BY <1>1 DEF IInv, AtTun
<1>3. type \in 1..4 /\ 0 \in Nat /\ 0 < MaxLength
    BY DEF MaxLength
<1>4. Refused(sent, pkt', type, 0)
    BY <1>1, <1>2, <1>3 DEF Refused, Addressed
<1>5. AtNet'
    BY <1>1, <1>3, <1>4 DEF AtNet, OnNet
<1>6. link >= 1280 => pmtu + 20 <= link
    BY <1>1, InformedElsewhere
<1>7. Types' /\ Informed'
    BY <1>1, <1>6 DEF IInv, Types, Informed
<1> QED
    BY <1>1, <1>5, <1>7 DEF IInv, AtAborted, AtIdle, AtClient, AtTun, AtGot, AtHost

LEMMA HostSendsIInv == IInv /\ HostSends => IInv'
<1> SUFFICES ASSUME IInv, HostSends PROVE IInv'
    OBVIOUS
<1>1. PICK p \in NetPackets : at' = "net" /\ pkt' = p /\ sent' = p /\ about' = "unasked"
    BY DEF HostSends
<1>2. at = "idle" /\ UNCHANGED <<slice, pmtu, link, ids>>
    BY DEF HostSends
<1>3. AtNet'
    BY <1>1 DEF AtNet, OnNet, Unasked
<1>4. link >= 1280 => pmtu + 20 <= link
    BY <1>2, InformedElsewhere
<1>5. Types' /\ Informed'
    BY <1>1, <1>2, <1>4 DEF IInv, Types, Informed
<1> QED
    BY <1>1, <1>3, <1>5 DEF IInv, AtAborted, AtIdle, AtClient, AtTun, AtGot, AtHost

LEMMA OnNetShape ==
    ASSUME NEW s, NEW how, NEW n, OnNet(s, how, n)
    PROVE  n \in Packet /\ n.fam = 6 /\ n.hdr = 40 /\ n.len \in Nat /\ n.len <= MaxLength
<1>1. CASE Unasked(s, n)
    <2>1. n \in NetPackets
        BY <1>1 DEF Unasked
    <2>2. n \in Packet /\ WellFormed(n) /\ n.fam = 6
        BY <2>1, PacketAssumption
    <2>3. n.hdr = 40 /\ n.len \in 0..MaxLength
        BY <2>2 DEF WellFormed
    <2> DEFINE l == n.len
    <2>4. l \in Int /\ l \in 0..MaxLength
        BY <2>2, <2>3, Fields
    <2> HIDE DEF l
    <2>5. l \in Nat /\ l <= MaxLength
        BY <2>4 DEF MaxLength
    <2> QED
        BY <2>2, <2>3, <2>5 DEF l
<1>2. CASE Answered(s, n)
    <2>1. n \in Packet /\ n.fam = 6 /\ n.hdr = 40 /\ n.len \in Nat /\ n.len <= 1420
        BY <1>2, AnsweredShape
    <2> QED
        BY <2>1 DEF MaxLength
<1>3. ASSUME NEW t, NEW mtu, Refused(s, n, t, mtu)
      PROVE  n \in Packet /\ n.fam = 6 /\ n.hdr = 40 /\ n.len \in Nat /\ n.len <= MaxLength
    <2>1. ErrorPacket(n, t, mtu)
        BY <1>3, RefusedShape
    <2> QED
        BY <2>1 DEF ErrorPacket, MaxLength
<1> QED
    BY <1>1, <1>2, <1>3 DEF OnNet

(* What TunToClient computes.                                              *)
TunToClientStep(p, t) ==
    /\ p = NAT66InPlaceTranslateAddress(pkt, Siit(Placeholder), "dst")
    /\ t = SIIT64InPlaceTranslate(p, 48, ids)
    /\ \/ /\ Have(pkt) >= 40 /\ t.ok
          /\ at' = "got" /\ pkt' = t.pkt /\ slice' = SliceOf(pkt, t.reserved)
          /\ UNCHANGED <<sent, about>>
       \/ ~(Have(pkt) >= 40 /\ t.ok) /\ Gone
    /\ ids' = IF t.ok /\ ~IsFragmented(pkt) THEN (ids + 1) % IDSpace ELSE ids

LEMMA TunToClientIInv == IInv /\ TunToClient => IInv'
<1> SUFFICES ASSUME IInv, TunToClient PROVE IInv'
    OBVIOUS
<1>1. at = "net" /\ Have(pkt) <= 1420 /\ UNCHANGED <<pmtu, link>>
    BY DEF TunToClient, IPv6OutboundMTU
<1>2. \E p, t : TunToClientStep(p, t)
    BY DEF TunToClient, TunToClientStep, reservedSpaceSizeDefault
<1>3. PICK p, t : TunToClientStep(p, t)
    BY <1>2
<1>4. OnNet(sent, about, pkt)
    BY <1>1 DEF IInv, AtNet
<1>5. /\ pkt \in Packet /\ pkt.fam = 6 /\ pkt.hdr = 40 /\ pkt.len \in Nat
    BY <1>4, OnNetShape
<1>6. ids' \in 0..(IDSpace - 1) /\ ids \in Nat
    <2>1. ids \in 0..(IDSpace - 1) /\ IDSpace \in Nat /\ IDSpace # 0
        BY SiitAssumption DEF IInv, Types
    <2>2. (ids + 1) % IDSpace \in 0..(IDSpace - 1)
        BY <2>1
    <2>3. ids' \in {(ids + 1) % IDSpace, ids}
        BY <1>3 DEF TunToClientStep
    <2> QED
        BY <2>1, <2>2, <2>3
<1>7. ASSUME NEW k, NEW mtu, Refused(sent, pkt, k, mtu)
      PROVE  t.ok /\ Have(pkt) >= 40
    BY <1>3, <1>7, ErrorArrives DEF TunToClientStep
<1>8. CASE ~(Have(pkt) >= 40 /\ t.ok)
    <2>1. Gone
        BY <1>3, <1>8 DEF TunToClientStep
    <2>2. about # "error"
        BY <1>4, <1>7, <1>8 DEF OnNet
    <2>3. link >= 1280 => pmtu + 20 <= link
        BY <1>1, <2>2 DEF IInv, Informed
    <2>4. Informed'
        BY <1>1, <2>3 DEF Informed
    <2>5. Types'
        BY <1>1, <1>6, <2>1 DEF IInv, Types, Gone
    <2> QED
        BY <2>1, <2>4, <2>5, GoneIInv
<1>9. CASE Have(pkt) >= 40 /\ t.ok
    <2>1. /\ at' = "got" /\ pkt' = t.pkt /\ slice' = SliceOf(pkt, t.reserved)
          /\ UNCHANGED <<sent, about>>
        BY <1>3, <1>9 DEF TunToClientStep
    <2>2. /\ Delivered(pkt, t.pkt)
          /\ Have(t.pkt) = SliceOf(pkt, t.reserved)
          /\ /\ Summable(t.pkt)
             /\ pkt.proto = ICMP6 \/ (Verified(pkt) /\ pkt.src.hi = Prefix /\ NAT66Sees(pkt))
             => Verified(t.pkt)
        <3>1. /\ p = NAT66InPlaceTranslateAddress(pkt, Siit(Placeholder), "dst")
              /\ t = SIIT64InPlaceTranslate(p, 48, ids)
            BY <1>3 DEF TunToClientStep
        <3>2. pkt.len >= 0
            BY <1>5
        <3> QED
            BY <1>1, <1>5, <1>6, <1>9, <3>1, <3>2, TunToClientDelivers
    <2>3. Received(pkt, t.pkt)
        BY <2>2 DEF Received
    <2>4. AtGot'
        BY <1>4, <2>1, <2>2, <2>3 DEF AtGot
    <2>5. Types'
        BY <1>1, <1>6, <2>1 DEF IInv, Types
    <2>6. Informed'
        <3>1. CASE link >= 1280 => pmtu + 20 <= link
            BY <1>1, <3>1 DEF Informed
        <3>2. CASE ~(link >= 1280 => pmtu + 20 <= link)
            <4>1. about = "error" /\ pkt.type = 2 /\ pkt.rest <= link
                BY <1>1, <3>2 DEF IInv, Informed
            <4>2. PICK k \in 1..4, mtu \in LinkMTUs \cup {0} : Refused(sent, pkt, k, mtu)
                BY <1>4, <4>1 DEF OnNet
            <4>3. pkt.proto = ICMP6 /\ pkt.type = k /\ pkt.rest = Rest(k, mtu)
                <5>1. ErrorPacket(pkt, k, mtu)
                    BY <4>2, RefusedShape
                <5> QED
                    BY <5>1 DEF ErrorPacket
            <4>4. pkt.rest = mtu /\ mtu \in Nat /\ mtu < MaxLength
                BY <4>1, <4>2, <4>3 DEF Rest, Refused
            <4>5. t.pkt.type = 3 /\ t.pkt.code = 4 /\ t.pkt.rest = TooBigMTU64(mtu)
                BY <2>2, <4>1, <4>3, <4>4 DEF Delivered
            <4>6. TooBigMTU64(mtu) \in Nat /\ (mtu >= 88 => TooBigMTU64(mtu) + 20 <= mtu)
                <5>1. mtu < 65536
                    BY <4>4, SMT DEF MaxLength
                <5> QED
                    BY <4>4, <5>1, TooBig64, SMT
            <4>7. link \in Nat /\ pmtu \in Nat /\ link >= 1280
                BY <3>2 DEF IInv, Types
            <4>8. TooBigMTU64(mtu) + 20 <= link
                <5>1. CASE mtu >= 88
                    BY <4>1, <4>4, <4>6, <4>7, <5>1
                <5>2. CASE ~(mtu >= 88)
                    BY <4>4, <4>7, <5>2, SMT DEF TooBigMTU64, MaxOf, MinOf, IPv4OutboundMTU, IPv6OutboundMTU
                <5> QED
                    BY <5>1, <5>2
            <4> QED
                BY <1>1, <2>1, <4>1, <4>5, <4>8 DEF Informed
        <3> QED
            BY <3>1, <3>2
    <2> QED
        BY <2>1, <2>4, <2>5, <2>6 DEF IInv, AtAborted, AtIdle, AtClient, AtTun, AtNet, AtHost
<1> QED
    BY <1>8, <1>9

LEMMA originatePTBIInv == IInv /\ originatePTB => IInv'
<1> SUFFICES ASSUME IInv, originatePTB PROVE IInv'
    OBVIOUS
<1>1. at = "net" /\ Have(pkt) > IPv6OutboundMTU /\ UNCHANGED <<pmtu, link, ids>>
    BY DEF originatePTB
<1>2. OnNet(sent, about, pkt)
    BY <1>1 DEF IInv, AtNet
<1>3. pkt \in Packet
    BY <1>2, OnNetShape
<1>4. about # "error"
    <2>1. ASSUME NEW k, NEW mtu, Refused(sent, pkt, k, mtu) PROVE FALSE
        <3>1. ErrorPacket(pkt, k, mtu)
            BY <2>1, RefusedShape
        <3> QED
            BY <1>1, <3>1 DEF ErrorPacket, IPv6OutboundMTU
    <2> QED
        BY <1>2, <2>1 DEF OnNet
<1>5. link >= 1280 => pmtu + 20 <= link
    BY <1>1, <1>4 DEF IInv, Informed
<1> DEFINE b == BuildPacketTooBig(clatV6, pkt.src, IPv6OutboundMTU, pkt)
<1>6. \/ Gone
      \/ at' = "host" /\ pkt' = b /\ about' = "ptb" /\ UNCHANGED <<sent, slice>>
    <2> DEFINE ptb == PacketTooBigFor(clatV6, IPv6OutboundMTU, pkt)
    <2>1. \/ Gone
          \/ ptb # <<>> /\ at' = "host" /\ pkt' = ptb[1] /\ about' = "ptb" /\ UNCHANGED <<sent, slice>>
        BY Zenon DEF originatePTB
    <2>2. ptb = <<>> \/ ptb = <<b>>
        BY Zenon DEF PacketTooBigFor
    <2> HIDE DEF ptb, b
    <2>3. ptb # <<>> => ptb[1] = b
        BY <2>2
    <2> QED
        BY <2>1, <2>3
<1>7. CASE Gone
    BY <1>1, <1>5, <1>7, GoneInformed
<1>8. CASE at' = "host" /\ pkt' = b /\ about' = "ptb" /\ UNCHANGED <<sent, slice>>
    <2>1. Notified(pkt, pkt')
        BY <1>1, <1>3, <1>8 DEF Notified
    <2>2. AtHost'
        BY <1>8, <2>1 DEF AtHost
    <2>3. Types' /\ Informed'
        BY <1>1, <1>5, <1>8 DEF IInv, Types, Informed
    <2> QED
        BY <1>8, <2>2, <2>3 DEF IInv, AtAborted, AtIdle, AtClient, AtTun, AtNet, AtGot
<1> QED
    BY <1>6, <1>7, <1>8

(* The Fragmentation Needed the client obeys carries the router's MTU less *)
(* the header growth, and at least 68.                                     *)
LEMMA ClientReceivesIInv == IInv /\ ClientReceives => IInv'
<1> SUFFICES ASSUME IInv, ClientReceives PROVE IInv'
    OBVIOUS
<1> DEFINE told == about = "error" /\ pkt.type = 3 /\ pkt.code = 4
<1>1. /\ at = "got" /\ Gone /\ UNCHANGED <<link, ids>>
      /\ pmtu' = IF told THEN MinOf(pmtu, pkt.rest) ELSE pmtu
    BY DEF ClientReceives
<1>2. PICK n : OnNet(sent, about, n) /\ Received(n, pkt)
    BY <1>1 DEF IInv, AtGot
<1>3. ASSUME told PROVE pkt.rest \in Nat /\ pkt.rest >= 68
    <2>1. PICK k \in 1..4, mtu \in LinkMTUs \cup {0} : Refused(sent, n, k, mtu)
        BY <1>2, <1>3 DEF OnNet
    <2>2. n.proto = ICMP6 /\ n.rest = Rest(k, mtu) /\ n.type = k
        <3>1. ErrorPacket(n, k, mtu)
            BY <2>1, RefusedShape
        <3> QED
            BY <3>1 DEF ErrorPacket
    <2>3. Delivered(n, pkt)
        BY <1>2 DEF Received
    <2>4. n.type = 2 /\ pkt.rest = TooBigMTU64(n.rest)
        BY <1>3, <2>2, <2>3 DEF Delivered
    <2>5. n.rest \in Nat
        BY <2>1, <2>2, <2>4 DEF Rest, Refused
    <2> QED
        BY <2>4, <2>5, TooBig64
<1>4. pmtu \in Nat /\ pmtu >= 68 /\ pmtu <= 1400 /\ link \in Nat
    BY DEF IInv, Types, IPv4OutboundMTU
<1>5. /\ pmtu' \in Nat /\ pmtu' >= 68 /\ pmtu' <= 1400 /\ pmtu' <= pmtu
      /\ told => pmtu' <= pkt.rest
    <2>1. CASE told
        <3>1. pmtu' = MinOf(pmtu, pkt.rest)
            BY <1>1, <2>1
        <3> QED
            BY <1>3, <1>4, <2>1, <3>1 DEF MinOf
    <2>2. CASE ~told
        BY <1>1, <1>4, <2>2
    <2> QED
        BY <2>1, <2>2
<1>6. Types'
    BY <1>1, <1>5 DEF IInv, Types, Gone, IPv4OutboundMTU
<1>7. Informed'
    <2>1. SUFFICES ASSUME link >= 1280 PROVE pmtu' + 20 <= link
        BY <1>1 DEF Informed
    <2>2. (pmtu + 20 <= link) \/ (told /\ pkt.rest + 20 <= link)
        BY <1>1, <2>1 DEF IInv, Informed
    <2> DEFINE new == pmtu'  old == pmtu  rest == pkt.rest  l == link
    <2>3. /\ new \in Nat /\ old \in Nat /\ l \in Nat /\ new <= old
          /\ told => rest \in Nat /\ new <= rest
          /\ (old + 20 <= l) \/ (told /\ rest + 20 <= l)
        BY <1>3, <1>4, <1>5, <2>2
    <2> HIDE DEF new, old, rest, l, told
    <2>4. new + 20 <= l
        BY <2>3
    <2> QED
        BY <2>4 DEF new, l
<1> QED
    BY <1>1, <1>6, <1>7, GoneIInv

LEMMA HostReceivesIInv == IInv /\ HostReceives => IInv'
BY InformedElsewhere, GoneInformed DEF HostReceives

LEMMA StutterIInv == IInv /\ UNCHANGED vars => IInv'
BY DEF IInv, Types, AtAborted, AtIdle, AtClient, AtTun, AtNet, AtGot, AtHost, Informed, vars

(* Every step keeps the invariant.                                         *)
LEMMA NextIInv == IInv /\ [Next]_vars => IInv'
<1> SUFFICES ASSUME IInv, [Next]_vars PROVE IInv'
    OBVIOUS
<1>1. CASE \E whole \in BOOLEAN, mtu \in LinkMTUs : RouterTooBig(mtu, whole)
    BY <1>1, RouterTooBigIInv
<1>2. CASE \E whole \in BOOLEAN, type \in {1, 3, 4} : RouterRejects(type, whole)
    BY <1>2, RouterRejectsIInv
<1>3. CASE ClientSends \/ ClientToTun \/ ClientReceives \/ Restart
    BY <1>3, ClientSendsIInv, ClientToTunIInv, ClientReceivesIInv, RestartIInv
<1>4. CASE HostAnswers \/ HostSends \/ HostReceives
    BY <1>4, HostAnswersIInv, HostSendsIInv, HostReceivesIInv
<1>5. CASE TunToClient \/ originatePTB
    BY <1>5, TunToClientIInv, originatePTBIInv
<1>6. CASE UNCHANGED vars
    BY <1>6, StutterIInv
<1> QED
    BY <1>1, <1>2, <1>3, <1>4, <1>5, <1>6 DEF Next

LEMMA SpecIInv == Spec => []IInv
<1>1. Init => IInv
    BY InitIInv
<1>2. IInv /\ [Next]_vars => IInv'
    BY NextIInv
<1> QED
    BY <1>1, <1>2, PTL DEF Spec

-----------------------------------------------------------------------------
(***************************************************************************)
(* The theorems.                                                           *)
(***************************************************************************)
LEMMA Bound16 ==
    ASSUME NEW l \in Nat, l <= 1420 \/ l <= MaxLength
    PROVE  l \in 0..MaxLength
<1>1. MaxLength \in Nat /\ l <= MaxLength
    BY SMT DEF MaxLength
<1>2. ASSUME NEW m \in Nat, l <= m PROVE l \in 0..m
    BY <1>2
<1> QED
    BY <1>1, <1>2, Zenon

(* The Packet Too Big quotes 1232 bytes.                                   *)
LEMMA NotifiedShape ==
    ASSUME NEW n, NEW p, Notified(n, p)
    PROVE  /\ Reporting(p, n, clatV6, n.src, MinOf(Have(n), QuoteCap), 2, IPv6OutboundMTU)
           /\ MinOf(Have(n), QuoteCap) = 1232
           /\ Have(p) <= 1280 /\ p.dst = p.quote[1].src
<1>1. n \in Packet /\ Have(n) > 1420 /\ p = BuildPacketTooBig(clatV6, n.src, IPv6OutboundMTU, n)
    BY DEF Notified, IPv6OutboundMTU
<1>2. n.src \in Address /\ clatV6 \in Address /\ IPv6OutboundMTU \in Nat
    BY <1>1, Fields, SiitAddress DEF IPv6OutboundMTU
<1>3. Reporting(p, n, clatV6, n.src, MinOf(Have(n), QuoteCap), 2, IPv6OutboundMTU)
    BY <1>1, <1>2, TooBigReports
<1>4. Have(n) \in Int /\ Size(n) \in Int
    BY <1>1, Lengths
<1>5. MinOf(Have(n), QuoteCap) = 1232
    BY <1>1, <1>4 DEF MinOf, QuoteCap
<1> DEFINE z == MinOf(Have(n), QuoteCap) - Size(n)
<1>6. z \in Int
    BY <1>4, <1>5
<1>7. /\ p.hdr = 40 /\ p.ext = <<>> /\ p.len = 8 + MinOf(Have(n), QuoteCap) /\ p.pad = 0
      /\ p.dst = n.src
    BY <1>3, Zenon DEF Reporting
<1>8. p.quote[1] = [n EXCEPT !.pad = z]
    BY <1>3, Zenon DEF Reporting
<1> HIDE DEF z
<1>9. p.quote[1].src = n.src
    BY <1>1, <1>6, <1>8, PaddingOnly
<1>10. Have(p) = 1280
    <2>1. Len(p.ext) = 0
        BY <1>7
    <2>2. p.len = 1240
        BY <1>5, <1>7
    <2>3. Have(p) = p.hdr + 8 * Len(p.ext) + p.len + p.pad
        BY Zenon DEF Have, Size, HeaderLen
    <2> QED
        BY <1>7, <2>1, <2>2, <2>3
<1> QED
    BY <1>3, <1>5, <1>7, <1>9, <1>10

(* The answer the translators see has the checksum of the packet sent.     *)
LEMMA AnswerVerifies ==
    ASSUME NEW s, NEW n, Answered(s, n), n.proto # ICMP6, NEW g, Delivered(n, g),
           Summable(g), SumGood(s),
           s.fam = 6 => s.dst.hi = Prefix /\ NAT66Sees(s)
    PROVE  Verified(n) /\ n.src.hi = Prefix /\ NAT66Sees(n)
<1> DEFINE o == OnTun(s)
<1>1. /\ n \in Packet /\ o \in Packet /\ Origin(s)
      /\ n.ext = o.ext /\ n.len = o.len /\ n.src = o.dst /\ n.proto = o.proto /\ n.off = o.off
      /\ Verified(o) /\ o.proto # ICMP4 => Verified(n)
    BY AnsweredShape
<1>2. n.proto # ICMP4 /\ g.proto = To4(n.proto) /\ g.off = n.off /\ g.len = n.len
    BY DEF Delivered
<1>3. g.proto = n.proto
    BY <1>2 DEF To4
<1>4. Summable(o)
    BY <1>1, <1>2, <1>3 DEF Summable
<1>5. s.fam \in {4, 6}
    BY <1>1, Fields DEF Origin
<1>6. CASE s.fam = 4
    <2>1. Verified(o) /\ Carried(s, o)
        BY <1>1, <1>4, <1>6, OnTun4 DEF Origin
    <2> HIDE DEF o
    <2>2. o.dst = Siit(s.dst.lo)
        BY <2>1 DEF Carried
    <2>3. o.ext = IF IsFragmented(s) THEN <<[kind |-> "frag", bad |-> FALSE]>> ELSE <<>>
        BY <2>1 DEF Carried
    <2>4. o.off = 0
        BY <1>4 DEF Summable
    <2>5. NAT66Sees(n)
        BY <1>1, <2>3, <2>4 DEF NAT66Sees
    <2> QED
        BY <1>1, <1>2, <2>1, <2>2, <2>5 DEF Siit
<1>7. CASE s.fam = 6
    <2>1. o = s
        BY <1>7 DEF OnTun
    <2>2. Verified(o)
        BY <1>7, <2>1 DEF SumGood
    <2>3. NAT66Sees(n)
        BY <1>1, <1>7, <2>1 DEF NAT66Sees
    <2> QED
        BY <1>1, <1>2, <1>7, <2>1, <2>2, <2>3
<1> QED
    BY <1>5, <1>6, <1>7

LEMMA IInvTypeOK == IInv => TypeOK
<1> SUFFICES ASSUME IInv PROVE TypeOK
    OBVIOUS
<1>1. pmtu \in 68..IPv4OutboundMTU
    BY DEF IInv, Types, IPv4OutboundMTU
<1>2. ASSUME pkt # Nothing PROVE pkt.ck \in 0..Ones /\ pkt.len \in 0..MaxLength
    <2>1. SUFFICES pkt.ck \in Words /\ pkt.len \in 0..MaxLength
        BY DEF Words
    <2>2. CASE at = "client"
        <3>1. pkt \in Packet /\ WellFormed(pkt)
            BY <2>2 DEF IInv, AtClient
        <3>2. pkt.len \in 0..MaxLength
            BY <3>1 DEF WellFormed
        <3> QED
            BY <3>1, <3>2, Fields
    <2>3. CASE at = "tun"
        <3>1. Origin(sent) /\ pkt = OnTun(sent)
            BY <2>3 DEF IInv, AtTun
        <3>2. pkt \in Packet /\ pkt.len \in Nat /\ pkt.len <= 1420
            BY <3>1, OnTunShape
        <3> QED
            BY <3>2, Fields, Bound16
    <2>4. CASE at = "net"
        <3>1. OnNet(sent, about, pkt)
            BY <2>4 DEF IInv, AtNet
        <3>2. pkt \in Packet /\ pkt.len \in Nat /\ pkt.len <= MaxLength
            BY <3>1, OnNetShape
        <3> QED
            BY <3>2, Fields, Bound16
    <2>5. CASE at = "got"
        <3>1. PICK n : OnNet(sent, about, n) /\ Received(n, pkt)
            BY <2>5 DEF IInv, AtGot
        <3>2. n.len \in Nat /\ n.len <= MaxLength
            BY <3>1, OnNetShape
        <3>3. pkt \in Packet /\ pkt.len = n.len
            BY <3>1 DEF Received, Delivered
        <3> QED
            BY <3>2, <3>3, Fields, Bound16
    <2>6. CASE at = "host"
        <3>1. PICK n : Notified(n, pkt)
            BY <2>6 DEF IInv, AtHost
        <3>2. Reporting(pkt, n, clatV6, n.src, MinOf(Have(n), QuoteCap), 2, IPv6OutboundMTU)
            BY <3>1, NotifiedShape
        <3>3. pkt.ck \in Words /\ pkt.len = 8 + MinOf(Have(n), QuoteCap)
            BY <3>2 DEF Reporting
        <3>4. MinOf(Have(n), QuoteCap) = 1232
            BY <3>1, NotifiedShape
        <3> QED
            BY <3>3, <3>4 DEF MaxLength
    <2>7. CASE at = "aborted"
        <3>1. pkt \in Packet /\ WellFormed(pkt)
            BY <2>7 DEF IInv, AtAborted
        <3>2. pkt.len \in 0..MaxLength
            BY <3>1 DEF WellFormed
        <3> QED
            BY <3>1, <3>2, Fields
    <2> QED
        BY <1>2, <2>2, <2>3, <2>4, <2>5, <2>6, <2>7 DEF IInv, Types, AtIdle
<1> QED
    BY <1>1, <1>2 DEF TypeOK, IInv, Types

(***************************************************************************)
(* Whatever the client, the hosts and the routers send: both translators   *)
(* hand on a slice of exactly the length the rewritten header declares     *)
(* (with the bytes that followed the packet before), every length fits its *)
(* 16-bit field, the client's path MTU stays between 68 and 1400, and a    *)
(* Packet Too Big is at most 1280 bytes and goes to the source it quotes.  *)
(* SIIT46 runs out of its slice over no packet but an ICMP error of the    *)
(* client that declares less than a header of its quote while the slice    *)
(* holds more bytes behind it.                                             *)
(***************************************************************************)
THEOREM LengthHonestHolds == Spec => []LengthHonest
<1>1. IInv => LengthHonest
    <2> SUFFICES ASSUME IInv PROVE LengthHonest
        OBVIOUS
    <2>1. TypeOK
        BY IInvTypeOK
    <2>2. at \in {"tun", "got"} => slice = Have(pkt)
        BY DEF IInv, AtTun, AtGot
    <2>3. ASSUME at = "host" PROVE Have(pkt) <= 1280 /\ pkt.dst = pkt.quote[1].src
        <3>1. PICK n : Notified(n, pkt)
            BY <2>3 DEF IInv, AtHost
        <3> QED
            BY <3>1, NotifiedShape
    <2>4. ASSUME at = "aborted"
          PROVE  sent.fam = 4 /\ sent.quote # <<>> /\ sent.len < 32 /\ sent.pad > 4
        <3>1. /\ sent \in Packet /\ sent.fam = 4 /\ sent.quote # <<>>
              /\ QuoteBytes(sent) >= 28 /\ sent.len - 8 < 24
            BY <2>4, Zenon DEF IInv, AtAborted
        <3>2. sent.len \in Int /\ sent.pad \in Int
            BY <3>1, Fields
        <3> QED
            BY <3>1, <3>2, SMT DEF QuoteBytes
    <2> QED
        BY <2>1, <2>2, <2>3, <2>4 DEF LengthHonest
<1> QED
    BY <1>1, SpecIInv, PTL

(***************************************************************************)
(* What reaches the network is the client's packet from its CLAT /128 to   *)
(* the mapped destination, what comes back is its mirror image, and an     *)
(* error quotes the packet the client sent, under the low half of the CLAT *)
(* /128 as its source: for every packet, every address, every ID width.    *)
(***************************************************************************)
THEOREM TransparentHolds == Spec => []Transparent
<1>1. IInv => Transparent
    <2> SUFFICES ASSUME IInv PROVE Transparent
        OBVIOUS
    <2>1. ASSUME at = "tun", about = "sent", sent.fam = 4
          PROVE  /\ sent.more = pkt.more /\ sent.off = pkt.off /\ (IsFragmented(sent) => sent.id = pkt.id)
                 /\ pkt.dst = Siit(sent.dst.lo)
                 /\ Summable(sent) \/ sent.off # 0 => pkt.src = clatV6
                 /\ sent.quote = <<>> => pkt.len = sent.len
        <3>1. Origin(sent) /\ pkt = OnTun(sent)
            BY <2>1 DEF IInv, AtTun
        <3>2. Carried(sent, pkt) /\ (Summable(sent) \/ sent.off # 0 => pkt.src = clatV6)
            BY <2>1, <3>1, OnTun4 DEF Origin
        <3> QED
            BY <3>2, Zenon DEF Carried
    <2>2. ASSUME at = "got", about = "answer", sent.fam = 4
          PROVE  /\ sent.more = pkt.more /\ sent.off = pkt.off /\ (IsFragmented(sent) => sent.id = pkt.id)
                 /\ pkt.src = sent.dst
                 /\ Summable(sent) \/ sent.off # 0 => pkt.dst = V4(Placeholder)
                 /\ pkt.len = sent.len /\ pkt.proto = sent.proto
        <3>1. PICK n : OnNet(sent, about, n) /\ Received(n, pkt)
            BY <2>2 DEF IInv, AtGot
        <3>2. Answered(sent, n) /\ Delivered(n, pkt)
            BY <2>2, <3>1 DEF OnNet, Received
        <3> QED
            BY <2>2, <3>2, AnswerMirrors
    <2>3. ASSUME at = "got", about = "error", sent.fam = 4, NEW q, q = pkt.quote[1]
          PROVE  IF q.fam = 4 THEN /\ q.dst = sent.dst /\ q.src = V4(ClatLo)
                                   /\ q.proto = sent.proto /\ q.len = sent.len
                 ELSE IsFragmented(sent)
        <3>1. PICK n : OnNet(sent, about, n) /\ Received(n, pkt)
            BY <2>3 DEF IInv, AtGot
        <3>2. PICK t \in 1..4, mtu \in LinkMTUs \cup {0} : Refused(sent, n, t, mtu)
            BY <2>3, <3>1 DEF OnNet
        <3>3. Delivered(n, pkt)
            BY <3>1 DEF Received
        <3> QED
            BY <2>3, <3>2, <3>3, ErrorNames
    <2>4. QuoteNamesSent
        BY <2>3, Zenon DEF QuoteNamesSent
    <2> QED
        BY <2>1, <2>2, <2>4, Zenon DEF Transparent
<1> QED
    BY <1>1, SpecIInv, PTL

(***************************************************************************)
(* Once a router's Packet Too Big has reached the client, no packet within *)
(* the MTU it was told is too big for that link again: the 20 bytes SIIT46 *)
(* adds are the 20 SIIT64 took off the announced MTU.                      *)
(***************************************************************************)
THEOREM PathMTUSettlesHolds == Spec => []PathMTUSettles
<1>1. IInv => PathMTUSettles
    <2> SUFFICES ASSUME IInv, at = "tun", about = "sent", sent.fam = 4,
                        link >= 1280, ~IsFragmented(sent), sent.quote = <<>>
                 PROVE  Size(pkt) <= link
        BY DEF PathMTUSettles
    <2>1. Origin(sent) /\ pkt = OnTun(sent) /\ Size(sent) <= pmtu
        BY DEF IInv, AtTun
    <2>2. Carried(sent, pkt)
        BY <2>1, OnTunShape
    <2>3. pkt \in Packet /\ pkt.hdr = 40 /\ pkt.ext = <<>> /\ pkt.len = sent.len
        BY <2>2 DEF Carried
    <2>4. sent \in Packet /\ sent.hdr \in 20..60 /\ sent.ext = <<>>
        BY <2>1, Zenon DEF Origin, WellFormed
    <2> DEFINE h == sent.hdr  l == sent.len  a == Size(sent)  b == Size(pkt)
    <2>5. Len(sent.ext) = 0 /\ Len(pkt.ext) = 0
        BY <2>3, <2>4
    <2>6. a = h + 8 * Len(sent.ext) + l /\ b = 40 + 8 * Len(pkt.ext) + l /\ l \in Int
        <3>1. Size(pkt) = pkt.hdr + 8 * Len(pkt.ext) + pkt.len
            BY <2>3, Lengths
        <3>2. Size(sent) = sent.hdr + 8 * Len(sent.ext) + sent.len
            BY <2>4, Lengths
        <3>3. sent.len \in Int
            BY <2>4, Fields
        <3> QED
            BY <2>3, <3>1, <3>2, <3>3
    <2>7. pmtu + 20 <= link /\ pmtu \in Nat /\ link \in Nat /\ a <= pmtu /\ h \in 20..60
        BY <2>1, <2>4, InformedElsewhere DEF IInv, Types
    <2>8. a = h + l /\ b = 40 + l
        <3> HIDE DEF a, b, l
        <3>1. h \in Int
            BY <2>4, Fields
        <3> HIDE DEF h
        <3> QED
            BY <2>5, <2>6, <3>1
    <2> HIDE DEF a, b, h, l
    <2>9. b <= link
        BY <2>6, <2>7, <2>8
    <2> QED
        BY <2>9 DEF b
<1> QED
    BY <1>1, SpecIInv, PTL

(***************************************************************************)
(* A transport checksum that was right when the packet was sent is right   *)
(* after every chain of translations, for every word size, prefix and      *)
(* address: the three incremental updates and the four recomputations      *)
(* agree with one's complement arithmetic.  The one way a UDP packet of    *)
(* the client leaves with an invalid checksum is that the right one is     *)
(* zero and is not written as all ones.                                    *)
(***************************************************************************)
THEOREM ChecksumHoldsAlways == Spec => []ChecksumHolds
<1>1. IInv => ChecksumHolds
    <2> SUFFICES ASSUME IInv, at \in {"tun", "got", "host"}, Summable(pkt), SumGood(sent),
                        about = "unasked" => sent.src.hi = Prefix /\ NAT66Sees(sent),
                        about = "answer" /\ sent.fam = 6 => sent.dst.hi = Prefix /\ NAT66Sees(sent)
                 PROVE  SumGood(pkt) \/ (at = "tun" /\ sent.fam = 4 /\ ZeroLeft(pkt))
        BY DEF ChecksumHolds
    <2>1. CASE at = "tun"
        <3>1. Origin(sent) /\ pkt = OnTun(sent)
            BY <2>1 DEF IInv, AtTun
        <3>2. sent.fam \in {4, 6}
            BY <3>1, Fields DEF Origin
        <3>3. CASE sent.fam = 4
            <4>1. Verified(pkt) /\ Carried(sent, pkt)
                BY <3>1, <3>3, OnTun4 DEF Origin
            <4>2. pkt.fam = 6
                BY <4>1 DEF Carried
            <4> QED
                BY <2>1, <3>3, <4>1, <4>2 DEF SumGood, ZeroLeft
        <3>4. CASE sent.fam = 6
            BY <3>1, <3>4 DEF OnTun
        <3> QED
            BY <3>2, <3>3, <3>4
    <2>2. CASE at = "host"
        <3>1. PICK n : Notified(n, pkt)
            BY <2>2 DEF IInv, AtHost
        <3>2. Reporting(pkt, n, clatV6, n.src, MinOf(Have(n), QuoteCap), 2, IPv6OutboundMTU)
            BY <3>1, NotifiedShape
        <3>3. Verified(pkt) /\ pkt.proto # UDP
            BY <3>2 DEF Reporting, UDP, ICMP6
        <3> QED
            BY <3>3 DEF SumGood
    <2>3. CASE at = "got"
        <3>1. PICK n : OnNet(sent, about, n) /\ Received(n, pkt)
            BY <2>3 DEF IInv, AtGot
        <3>2. n.proto = ICMP6 \/ (Verified(n) /\ n.src.hi = Prefix /\ NAT66Sees(n)) => Verified(pkt)
            BY <3>1 DEF Received
        <3>7. pkt.fam = 4
            BY <3>1 DEF Received, Delivered
        <3>3. CASE about = "unasked"
            <4>1. n = sent /\ n \in NetPackets
                BY <3>1, <3>3 DEF OnNet, Unasked
            <4>2. sent.fam = 6
                BY <4>1, PacketAssumption
            <4>3. Verified(sent)
                BY <4>2 DEF SumGood
            <4> QED
                BY <3>2, <3>3, <3>7, <4>1, <4>3 DEF SumGood
        <3>4. CASE about = "error"
            <4>1. PICK t \in 1..4, mtu \in LinkMTUs \cup {0} : Refused(sent, n, t, mtu)
                BY <3>1, <3>4 DEF OnNet
            <4>2. ErrorPacket(n, t, mtu)
                BY <4>1, RefusedShape
            <4> QED
                BY <3>2, <3>7, <4>2 DEF ErrorPacket, SumGood
        <3>5. CASE about = "answer"
            <4>1. Answered(sent, n) /\ Delivered(n, pkt)
                BY <3>1, <3>5 DEF OnNet, Received
            <4>2. CASE n.proto = ICMP6
                BY <3>2, <3>7, <4>2 DEF SumGood
            <4>3. CASE n.proto # ICMP6
                <5>1. Verified(n) /\ n.src.hi = Prefix /\ NAT66Sees(n)
                    BY <3>5, <4>1, <4>3, AnswerVerifies
                <5> QED
                    BY <3>2, <3>7, <5>1 DEF SumGood
            <4> QED
                BY <4>2, <4>3
        <3>6. about \in {"unasked", "answer", "error"}
            BY <3>1 DEF OnNet
        <3> QED
            BY <3>3, <3>4, <3>5, <3>6
    <2> QED
        BY <2>1, <2>2, <2>3
<1> QED
    BY <1>1, SpecIInv, PTL
=============================================================================
