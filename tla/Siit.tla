-------------------------------- MODULE Siit --------------------------------
(***************************************************************************)
(* The CLAT data path of one session: clatxlat's two directions, the       *)
(* stateless translators siit46.go and siit64.go with NAT66 of nat.go      *)
(* between them, and the Packet Too Big icmp6.go builds.  A packet is a    *)
(* record of the header fields the translators read or write; the bytes    *)
(* behind them are one checksum word.  TOS and TTL, which both directions  *)
(* copy, are left out.                                                     *)
(*                                                                         *)
(* Checksums are one's complement sums of words from 0 to Ones (65535 in   *)
(* the code), so that an incremental update is computed and not assumed.   *)
(* An address is its /96 part and its low 32 bits, one word each; an IPv4  *)
(* address has hi = 0.                                                     *)
(***************************************************************************)
EXTENDS Integers, Sequences

CONSTANTS
    Ones,           \* the all-ones checksum word
    Prefix,         \* the sum of 64:ff9b::/96
    ClatHi, ClatLo, \* the device's CLAT /128
    Placeholder,    \* 192.0.0.1, the client's inner IPv4
    ClientPackets,  \* what the client may send
    NetPackets,     \* what may reach the tun unasked
    LinkMTUs,       \* MTUs a router on the way may announce
    IDSpace         \* how many fragment IDs there are, 65536 in the code

(* Neither the prefix nor 192.0.0.1 sums to zero.                          *)
ASSUME SiitAssumption ==
    /\ Ones \in Nat \ {0} /\ IDSpace \in Nat \ {0}
    /\ {Prefix, Placeholder} \subseteq 1..Ones
    /\ {ClatHi, ClatLo} \subseteq 0..Ones
    /\ LinkMTUs \subseteq Nat

VARIABLES
    at,       \* where the packet is: "idle" "client" "tun" "net" "got" "host";
              \* "aborted": the process ended over it
    pkt,      \* the packet
    sent,     \* the packet the exchange began with
    about,    \* how pkt came about: "sent" "answer" "error" "unasked" "ptb"
    slice,    \* the length of the slice the last translation handed on
    pmtu,     \* the IPv4 path MTU the client goes by
    link,     \* the narrowest link a router has reported, NoLink at first
    ids       \* ipv4FragmentIDCounter
vars == <<at, pkt, sent, about, slice, pmtu, link, ids>>

TCP == 6
UDP == 17
DCCP == 33
ICMP4 == 1
ICMP6 == 58
V4(a) == [hi |-> 0, lo |-> a]
Siit(a) == [hi |-> Prefix, lo |-> a]
clatV6 == [hi |-> ClatHi, lo |-> ClatLo]
Nothing == [fam |-> 0]
NoLink == 65535
MaxLength == 65535   \* what a 16-bit length field holds

reservedSpaceSizeDefault == 48
transportGap == 16
IPv4OutboundMTU == 1400
IPv6OutboundMTU == 1420
PlateauMTUs == <<65535, 32000, 17914, 8166, 4352, 2002, 1492, 1006, 508, 296, 68, 0>>

MaxOf(a, b) == IF a > b THEN a ELSE b
MinOf(a, b) == IF a < b THEN a ELSE b

(***************************************************************************)
(* One's complement arithmetic: checksum.Combine and the complement.       *)
(***************************************************************************)
Combine(a, b) == IF a + b > Ones THEN a + b - Ones ELSE a + b
Not(a) == Ones - a
Word(n) == n % (Ones + 1)

AddrSum(p) == Combine(Combine(p.src.hi, p.src.lo), Combine(p.dst.hi, p.dst.lo))

IcmpSum(p) ==
    Combine(Combine(p.data, Word(p.type + p.code + p.rest)),
            IF p.quote = <<>> THEN 0 ELSE AddrSum(p.quote[1]))

(* What the transport checksum covers besides itself: ICMP has a           *)
(* pseudo-header only in IPv6, length and protocol of the others do not    *)
(* change and are part of data.                                            *)
Covered(p) ==
    CASE p.proto = ICMP4 -> IcmpSum(p)
      [] p.proto = ICMP6 -> Combine(Combine(Combine(AddrSum(p), Word(p.len)), Word(ICMP6)),
                                    IcmpSum(p))
      [] OTHER -> Combine(AddrSum(p), p.data)

Fresh(p) == Not(Covered(p))
Verified(p) == Combine(Covered(p), p.ck) = Ones

(* The fixed header a transport needs before its checksum is touched.      *)
MinimumSize(proto) ==
    CASE proto = TCP -> 20 [] proto = DCCP -> 12 [] OTHER -> 8

Summed == {TCP, UDP, DCCP}

(***************************************************************************)
(* Lengths.  pad is how many bytes follow the declared packet in the slice *)
(* or, when negative, how many are missing.  A fragment header is an entry *)
(* of ext; more, off and id are its fields in either family.               *)
(***************************************************************************)
HeaderLen(p) == p.hdr + 8 * Len(p.ext)
Size(p) == HeaderLen(p) + p.len
Have(p) == Size(p) + p.pad
IsFragmented(p) == p.more \/ p.off # 0

(* len(quote) of siit46.go: all bytes behind the ICMP header, those behind *)
(* the declared packet too.                                                *)
QuoteBytes(p) == p.len - 8 + p.pad

Words == 0..Ones
Address == [hi : Words, lo : Words]

Extension == [kind : {"hop", "dest", "routing", "frag"}, bad : BOOLEAN]

(* A packet, with the quote an ICMP error carries: the packet its bytes up *)
(* to the end of the slice look like, <<>> if there is no header's worth.  *)
PacketWith(Quotes) ==
    [fam : {4, 6}, src : Address, dst : Address, proto : Nat, hdr : Nat,
     ext : Seq(Extension), len : Int, pad : Int,
     more : BOOLEAN, off : Nat, id : Nat, ok : BOOLEAN, route : BOOLEAN,
     ck : Words, data : Words, type : Nat, code : Nat, rest : Nat, quote : Quotes]

Quote == PacketWith({<<>>})
Packet == PacketWith(Seq(Quote))

(* The fixed headers, the widths of the IPv4 fields, and a quote in ICMP   *)
(* errors only.                                                            *)
WellFormed(p) ==
    /\ p.len \in 0..MaxLength /\ Have(p) >= 0
    /\ p.fam = 4 => /\ p.hdr \in 20..60 /\ p.ext = <<>> /\ p.id < IDSpace
                    /\ p.src.hi = 0 /\ p.dst.hi = 0
    /\ p.fam = 6 => p.hdr = 40
    /\ p.quote # <<>> => /\ p.proto \in {ICMP4, ICMP6} /\ p.type \notin {0, 8, 128, 129}
                         /\ QuoteBytes(p) >= 20

ASSUME PacketAssumption ==
    /\ ClientPackets \subseteq Packet /\ NetPackets \subseteq Packet
    /\ \A p \in ClientPackets \cup NetPackets : WellFormed(p)
    /\ \A p \in NetPackets : p.fam = 6

(***************************************************************************)
(* Which packets translate.                                                *)
(***************************************************************************)
isTransportProtocolForbidden(fam, proto) ==
    proto \in {0, 2, 43, 44, 51, 60, 135, 139, 140, IF fam = 4 THEN ICMP6 ELSE ICMP4}

isICMPv4PacketHeaderTranslatable(type, code, rest) ==
    CASE type \in {0, 8} -> code = 0
      [] type = 3 -> \/ code = 4 /\ rest < 65536
                     \/ code \in (0..15) \ {4, 14} /\ rest = 0
      [] type = 11 -> code \in {0, 1} /\ rest = 0
      [] type = 12 -> /\ code \in {0, 2}
                      /\ \E ptr \in (0..3) \cup {8, 9} \cup (12..19) : rest = ptr * 16777216
      [] OTHER -> FALSE

isICMPv6PacketHeaderTranslatable(type, code, rest) ==
    CASE type \in {128, 129} -> code = 0
      [] type = 1 -> code \in 0..4
      [] type = 2 -> code = 0 /\ rest < 65536
      [] type = 3 -> code \in {0, 1}
      [] type = 4 -> \/ code = 0 /\ rest \in {0, 1} \cup (4..39)
                     \/ code = 1 /\ rest = 0
      [] OTHER -> FALSE

parseSIIT46IPv4Packet(p) ==
    /\ p.fam = 4 /\ p.ok          \* version, IHL, reserved flag, header checksum
    /\ p.pad >= 0
    /\ ~isTransportProtocolForbidden(4, p.proto)
    /\ p.more => p.len % 8 = 0
    /\ ~p.route                   \* no source route, no malformed option
    /\ p.proto = ICMP4 =>
          /\ ~IsFragmented(p)
          /\ p.len >= 8
          /\ Verified(p)
          /\ isICMPv4PacketHeaderTranslatable(p.type, p.code, p.rest)

(* The walk ends behind the first fragment header: what follows it must be *)
(* a transport.                                                            *)
isEveryIPv6ExtensionHeaderTranslatable(p) ==
    /\ \A i \in DOMAIN p.ext : ~p.ext[i].bad   \* segments left, reserved bits
    /\ \A i \in DOMAIN p.ext : p.ext[i].kind = "frag" => i = Len(p.ext)
    /\ ~isTransportProtocolForbidden(6, p.proto)

isIPv6PacketTranslatable(p) ==
    /\ p.fam = 6
    /\ p.pad >= 0
    /\ isEveryIPv6ExtensionHeaderTranslatable(p)
    /\ p.more => p.len % 8 = 0
    /\ p.proto = ICMP6 =>
          /\ ~IsFragmented(p)
          /\ p.len >= 8
          /\ Verified(p)
          /\ isICMPv6PacketHeaderTranslatable(p.type, p.code, p.rest)

(***************************************************************************)
(* IPv4 to IPv6.                                                           *)
(***************************************************************************)

(* Fragmentation Needed without a usable MTU falls back to the largest     *)
(* plateau below the packet it quotes.                                     *)
PlateauBelow(total) ==
    LET below == {i \in DOMAIN PlateauMTUs : PlateauMTUs[i] < total /\ PlateauMTUs[i] >= 68}
    IN IF below = {} THEN 68
       ELSE PlateauMTUs[CHOOSE i \in below : \A j \in below : i <= j]

TooBigMTU46(p) ==
    LET mtu == IF p.rest >= 68 THEN p.rest
               ELSE IF p.quote = <<>> THEN 68 ELSE PlateauBelow(Size(p.quote[1]))
    IN MaxOf(1280, MinOf(mtu + 20, MinOf(IPv6OutboundMTU, IPv4OutboundMTU + 20)))

Pointer46 ==
    [ptr \in (0..3) \cup {8, 9} \cup (12..19) |->
        CASE ptr \in 0..1 -> ptr [] ptr \in 2..3 -> 4 [] ptr = 8 -> 7 [] ptr = 9 -> 6
          [] ptr \in 12..15 -> 8 [] OTHER -> 24]

siit46TranslateICMPTransport(p) ==
    LET to(type, code, rest) == [p EXCEPT !.type = type, !.code = code, !.rest = rest]
    IN CASE p.type = 8 -> to(128, p.code, p.rest)
         [] p.type = 0 -> to(129, p.code, p.rest)
         [] p.type = 3 /\ p.code \in {0, 1, 5, 6, 7, 8, 11, 12} -> to(1, 0, p.rest)
         [] p.type = 3 /\ p.code \in {9, 10, 13, 15} -> to(1, 1, p.rest)
         [] p.type = 3 /\ p.code = 2 -> to(4, 1, 6)
         [] p.type = 3 /\ p.code = 3 -> to(1, 4, p.rest)
         [] p.type = 3 /\ p.code = 4 -> to(2, 0, TooBigMTU46(p))
         [] p.type = 11 -> to(3, p.code, p.rest)
         [] p.type = 12 -> to(4, 0, Pointer46[p.rest \div 16777216])

To6(proto) == IF proto = ICMP4 THEN ICMP6 ELSE proto

(* A quoted packet translates when it is one fixed header, whole or not,   *)
(* and carries no further quote.                                           *)
QuoteTranslatable46(p) ==
    /\ p.quote # <<>>
    /\ LET q == p.quote[1]
       IN /\ q.fam = 4 /\ q.hdr = 20 /\ ~IsFragmented(q)
          /\ \/ q.proto \in {TCP, UDP}
             \/ q.proto = ICMP4 /\ q.type \in {0, 8}
    /\ QuoteBytes(p) >= 28

(* The move goes by the declared length.  Without the fixed header inside  *)
(* it, and in ICMP the checksum field, it slices out of range.             *)
QuoteOutOfRange(p) == p.len - 8 < IF p.quote[1].proto = ICMP4 THEN 24 ELSE 20

Quote46(q) ==
    LET moved == [q EXCEPT !.fam = 6, !.hdr = 40, !.proto = To6(q.proto),
                           !.type = IF q.proto # ICMP4 THEN q.type
                                    ELSE IF q.type = 8 THEN 128 ELSE 129,
                           !.src = Siit(q.src.lo), !.dst = Siit(q.dst.lo)]
    IN IF q.proto = ICMP4 THEN [moved EXCEPT !.ck = Fresh(moved)] ELSE moved

(* Mutant: the outer payload length is left as it was.                     *)
QuoteGrowsUncounted(p, room) ==
    IF ~QuoteTranslatable46(p) \/ room < 20
    THEN [pkt |-> p, reserved |-> room]
    ELSE [pkt |-> [p EXCEPT !.quote = <<Quote46(p.quote[1])>>], reserved |-> room - 20]

(* In place: the packet moves 20 bytes to the left and the quote grows by  *)
(* as much; without the room the IPv4 quote stays.                         *)
siit46TranslateICMPErrorQuote(p, room) ==
    IF ~QuoteTranslatable46(p) \/ room < 20
    THEN [pkt |-> p, reserved |-> room]
    ELSE [pkt |-> [p EXCEPT !.quote = <<Quote46(p.quote[1])>>, !.len = p.len + 20],
          reserved |-> room - 20]

siit46TranslateHeader(p) ==
    [p EXCEPT !.fam = 6, !.hdr = 40,
              !.ext = IF IsFragmented(p) THEN <<[kind |-> "frag", bad |-> FALSE]>> ELSE <<>>,
              !.proto = To6(p.proto), !.src = Siit(p.src.lo), !.dst = Siit(p.dst.lo)]

siit46PartialUpdateTransportChecksum(ck) == Not(Combine(Not(ck), Combine(Prefix, Prefix)))

(* "dropped": the first fragment of a UDP datagram that has no checksum.   *)
siit46UpdateTransportChecksum(p) ==
    CASE p.off # 0 \/ p.len < MinimumSize(p.proto) \/ p.proto \notin Summed \cup {ICMP6} ->
            [res |-> "translated", pkt |-> p]
      [] p.proto = UDP /\ p.ck = 0 /\ p.off = 0 /\ p.len >= 8 ->
            [res |-> IF p.more THEN "dropped" ELSE "translated", pkt |-> [p EXCEPT !.ck = Fresh(p)]]
      [] p.proto = ICMP6 /\ p.off = 0 /\ p.len >= 8 ->
            [res |-> "translated", pkt |-> [p EXCEPT !.ck = Fresh(p)]]
      [] OTHER ->
            [res |-> "translated",
             pkt |-> [p EXCEPT !.ck = siit46PartialUpdateTransportChecksum(p.ck)]]

(* The new reservedSpaceSize, or -1 where there is no room.                *)
makeRoomForIPv6Header(p, room) ==
    LET headerRoom == 40 + IF IsFragmented(p) THEN 8 ELSE 0
    IN IF room < headerRoom \/ room - headerRoom + p.hdr > 255 THEN -1
       ELSE room - headerRoom + p.hdr

(* "aborted": an index out of range that nothing recovers from.            *)
SIIT46InPlaceTranslate(p, room) ==
    LET no(why) == [res |-> why, pkt |-> p, reserved |-> room]
        made == makeRoomForIPv6Header(p, room)
        head == siit46TranslateHeader(p)
        body == IF head.proto # ICMP6 THEN [pkt |-> head, reserved |-> made]
                ELSE LET icmp == siit46TranslateICMPTransport(head)
                     IN IF icmp.type \in {128, 129} THEN [pkt |-> icmp, reserved |-> made]
                        ELSE siit46TranslateICMPErrorQuote(icmp, made)
        done == siit46UpdateTransportChecksum(body.pkt)
    IN IF ~parseSIIT46IPv4Packet(p) THEN no("untranslated")
       ELSE IF made < 0 THEN no("dropped")
       ELSE IF QuoteTranslatable46(p) /\ made >= 20 /\ QuoteOutOfRange(p) THEN no("aborted")
       ELSE [res |-> done.res, pkt |-> done.pkt, reserved |-> body.reserved]

(* Mutant: the header growth forgotten.                                    *)
TooBigUnshrunk(mtu) ==
    MaxOf(68, MinOf(mtu % 65536, MinOf(IPv4OutboundMTU, IPv6OutboundMTU - 20)))

(***************************************************************************)
(* IPv6 to IPv4.                                                           *)
(***************************************************************************)
TooBigMTU64(mtu) ==
    MaxOf(68, MinOf(MaxOf(20, mtu % 65536) - 20, MinOf(IPv4OutboundMTU, IPv6OutboundMTU - 20)))

Pointer64 ==
    [ptr \in {0, 1} \cup (4..39) |->
        CASE ptr \in 0..1 -> ptr [] ptr \in 4..5 -> 2 [] ptr = 6 -> 9 [] ptr = 7 -> 8
          [] ptr \in 8..23 -> 12 [] OTHER -> 16]

To4(proto) == IF proto = ICMP6 THEN ICMP4 ELSE proto

(* The 16-bit total length of a packet behind a 20-byte header.            *)
TotalLength(len) == (20 + len) % 65536

QuoteTranslatable64(q) ==
    /\ q.fam = 6 /\ q.ext = <<>> /\ Have(q) >= 40
    /\ q.proto = ICMP6 => Have(q) >= 48 /\ q.type \in {128, 129}

(* The compacted quote is padded with 20 zero bytes.                       *)
Quote64(q) ==
    LET moved == [q EXCEPT !.fam = 4, !.hdr = 20, !.id = 0, !.more = FALSE, !.off = 0,
                           !.len = TotalLength(q.len) - 20, !.pad = q.pad + 20,
                           !.proto = To4(q.proto),
                           !.type = IF q.proto # ICMP6 THEN q.type
                                    ELSE IF q.type = 128 THEN 8 ELSE 0,
                           !.src = V4(q.src.lo), !.dst = V4(q.dst.lo)]
    IN IF q.proto = ICMP6 THEN [moved EXCEPT !.ck = Fresh(moved)] ELSE moved

(* The length of the error does not change.                                *)
siit64TranslateICMPErrorQuote(p) ==
    IF p.quote = <<>> \/ ~QuoteTranslatable64(p.quote[1]) THEN p
    ELSE [p EXCEPT !.quote = <<Quote64(p.quote[1])>>]

siit64TranslateICMPTransport(p) ==
    LET to(type, code, rest) ==
            siit64TranslateICMPErrorQuote([p EXCEPT !.type = type, !.code = code, !.rest = rest])
    IN CASE p.type = 128 -> [p EXCEPT !.type = 8]
         [] p.type = 129 -> [p EXCEPT !.type = 0]
         [] p.type = 1 /\ p.code \in {0, 2, 3} -> to(3, 1, p.rest)
         [] p.type = 1 /\ p.code = 1 -> to(3, 10, p.rest)
         [] p.type = 1 /\ p.code = 4 -> to(3, 3, p.rest)
         [] p.type = 2 -> to(3, 4, TooBigMTU64(p.rest))
         [] p.type = 3 -> to(11, p.code, p.rest)
         [] p.type = 4 /\ p.code = 0 -> to(12, 0, Pointer64[p.rest] * 16777216)
         [] p.type = 4 /\ p.code = 1 -> to(3, 2, 0)

(* Mutant: the More Fragments bit is lost.                                 *)
HeaderEndsFragment(p, next) ==
    [p EXCEPT !.fam = 4, !.hdr = 20, !.ext = <<>>, !.more = FALSE,
              !.proto = To4(p.proto), !.src = V4(p.src.lo), !.dst = V4(p.dst.lo)]

(* A fragment keeps the low half of its ID, any other packet gets the next *)
(* of GenerateIPv4FragmentID.                                              *)
siit64TranslateHeader(p, next) ==
    [p EXCEPT !.fam = 4, !.hdr = 20, !.ext = <<>>,
              !.len = TotalLength(p.len) - 20,
              !.proto = To4(p.proto),
              !.id = IF IsFragmented(p) THEN p.id % IDSpace ELSE next % IDSpace,
              !.src = V4(p.src.lo), !.dst = V4(p.dst.lo)]

siit64PartialUpdateTransportChecksum(ck, dstHi) ==
    Not(Combine(Not(ck), Combine(Not(Prefix), Not(dstHi))))

siit64UpdateTransportChecksum(p, dstHi) ==
    IF p.off # 0 \/ p.len < MinimumSize(p.proto) THEN p
    ELSE IF p.proto = ICMP4 THEN [p EXCEPT !.ck = Fresh(p)]
    ELSE IF p.proto \in Summed
         THEN [p EXCEPT !.ck = siit64PartialUpdateTransportChecksum(p.ck, dstHi)]
    ELSE p

makeRoomForIPv4Header(p, room) == IF room < 20 THEN -1 ELSE room - 20 + HeaderLen(p)

SIIT64InPlaceTranslate(p, room, next) ==
    LET made == makeRoomForIPv4Header(p, room)
        head == siit64TranslateHeader(p, next)
        body == IF head.proto = ICMP4 THEN siit64TranslateICMPTransport(head) ELSE head
    IN IF ~isIPv6PacketTranslatable(p) \/ made < 0
       THEN [ok |-> FALSE, pkt |-> p, reserved |-> room]
       ELSE [ok |-> TRUE, pkt |-> siit64UpdateTransportChecksum(body, p.dst.hi),
             reserved |-> made]

(***************************************************************************)
(* NAT66: rewrite one address and repair the checksum that covers it.  It  *)
(* reads the next header of the fixed header and of a fragment header that *)
(* follows at once; a transport shorter than its header ends it before the *)
(* address is written.                                                     *)
(***************************************************************************)
natPartialUpdateChecksum(ck, old, new) ==
    Not(Combine(Combine(Not(ck), Combine(new.hi, Not(old.hi))),
                Combine(new.lo, Not(old.lo))))

NAT66Sees(p) ==
    \/ p.ext = <<>>
    \/ p.ext[1].kind = "frag" /\ Len(p.ext) = 1 /\ p.off = 0

(* Mutant: the checksum of a first fragment is forgotten.                  *)
NAT66NoFragment(p, to, field) ==
    IF p.ext # <<>> THEN [p EXCEPT ![field] = to]
    ELSE [p EXCEPT ![field] = to, !.ck = natPartialUpdateChecksum(p.ck, p[field], to)]

NAT66InPlaceTranslateAddress(p, to, field) ==
    LET sums == NAT66Sees(p) /\ p.proto \in Summed \cup {ICMP6}
    IN IF sums /\ p.len + p.pad < MinimumSize(p.proto) THEN p
       ELSE [p EXCEPT ![field] = to,
                      !.ck = IF sums THEN natPartialUpdateChecksum(p.ck, p[field], to) ELSE p.ck]

(***************************************************************************)
(* icmp6.go: the Packet Too Big for an oversize packet, quoting at most    *)
(* 1232 bytes of it.                                                       *)
(***************************************************************************)
QuoteCap == 1232

BuildPacketTooBig(src, dst, mtu, orig) ==
    LET quoted == MinOf(Have(orig), QuoteCap)
        p == [orig EXCEPT !.src = src, !.dst = dst, !.proto = ICMP6, !.hdr = 40, !.ext = <<>>,
                          !.len = 8 + quoted, !.pad = 0, !.more = FALSE, !.off = 0,
                          !.type = 2, !.code = 0, !.rest = mtu,
                          !.quote = <<[orig EXCEPT !.pad = quoted - Size(orig)]>>]
    IN [p EXCEPT !.ck = Fresh(p)]

(* No PTB to an address that is not a global unicast one or is our own.    *)
PacketTooBigFor(dstKey, mtu, orig) ==
    IF orig.src.hi = 0 \/ orig.src = dstKey THEN <<>>
    ELSE <<BuildPacketTooBig(dstKey, orig.src, mtu, orig)>>

(***************************************************************************)
(* One packet at a time makes its way.  The hosts and routers behind the   *)
(* tun are the environment.                                                *)
(***************************************************************************)
Init ==
    /\ at = "idle" /\ pkt = Nothing /\ sent = Nothing /\ about = "sent"
    /\ slice = 0 /\ pmtu = IPv4OutboundMTU /\ link = NoLink /\ ids = 0

(* The packet is delivered or dropped.                                     *)
Gone == at' = "idle" /\ pkt' = Nothing /\ sent' = Nothing /\ about' = "sent" /\ slice' = 0

ClientSends ==
    /\ at = "idle"
    /\ \E p \in ClientPackets :
          /\ Size(p) <= pmtu
          /\ at' = "client" /\ pkt' = p /\ sent' = p /\ about' = "sent"
    /\ UNCHANGED <<slice, pmtu, link, ids>>

(* buf[reserved+transportGap:] of the buffer made for p.                   *)
SliceOf(p, room) == reservedSpaceSizeDefault + transportGap + Have(p) - (room + transportGap)

(* ClientToTun: a native packet passes, what SIIT46 does not translate is  *)
(* dropped.                                                                *)
ClientToTun ==
    /\ at = "client"
    /\ LET t == SIIT46InPlaceTranslate(pkt, reservedSpaceSizeDefault)
       IN CASE pkt.fam = 6 ->
                  /\ at' = "tun" /\ slice' = Have(pkt)
                  /\ UNCHANGED <<pkt, sent, about>>
            [] pkt.fam = 4 /\ t.res = "translated" ->
                  /\ at' = "tun" /\ slice' = SliceOf(pkt, t.reserved)
                  /\ pkt' = NAT66InPlaceTranslateAddress(t.pkt, clatV6, "src")
                  /\ UNCHANGED <<sent, about>>
            [] pkt.fam = 4 /\ t.res = "aborted" ->
                  at' = "aborted" /\ UNCHANGED <<pkt, sent, about, slice>>
            [] OTHER -> Gone
    /\ UNCHANGED <<pmtu, link, ids>>

(* External: the process is started again.                                 *)
Restart == at = "aborted" /\ Gone /\ ids' = 0 /\ UNCHANGED <<pmtu, link>>

(* External: the host answers in kind; the answer finds the session when   *)
(* it is addressed to the CLAT /128.                                       *)
Answer(p) ==
    LET a == [p EXCEPT !.src = p.dst, !.dst = p.src, !.pad = 0,
                       !.type = IF p.type = 128 THEN 129 ELSE p.type]
    IN IF p.proto = ICMP6 THEN [a EXCEPT !.ck = Fresh(a)] ELSE a

Answerable == at = "tun" /\ pkt.src = clatV6 /\ pkt.type \in {0, 128}

HostAnswers ==
    /\ Answerable
    /\ at' = "net" /\ about' = "answer" /\ pkt' = Answer(pkt)
    /\ UNCHANGED <<sent, slice, pmtu, link, ids>>

(* External: a router reports that the packet is too big for its link (an  *)
(* ICMP type 2), or that it cannot be delivered, quoting all or the first  *)
(* 8 bytes of it.                                                          *)
Report(p, type, mtu, whole) ==
    LET cap == IF whole THEN QuoteCap ELSE MinOf(HeaderLen(p) + 8, QuoteCap)
        had == MinOf(Have(p), cap)
        e == [p EXCEPT !.src = p.dst, !.dst = p.src, !.proto = ICMP6, !.ext = <<>>,
                       !.len = 8 + had, !.pad = 0, !.more = FALSE, !.off = 0,
                       !.type = type, !.code = 0,
                       !.rest = CASE type = 2 -> mtu [] type = 4 -> 6 [] OTHER -> 0,
                       !.quote = <<[p EXCEPT !.pad = had - Size(p)]>>]
    IN [e EXCEPT !.ck = Fresh(e)]

RouterTooBig(mtu, whole) ==
    /\ Answerable
    /\ Size(pkt) > mtu
    /\ at' = "net" /\ about' = "error" /\ pkt' = Report(pkt, 2, mtu, whole)
    /\ link' = MinOf(link, mtu)
    /\ UNCHANGED <<sent, slice, pmtu, ids>>

RouterRejects(type, whole) ==
    /\ Answerable
    /\ at' = "net" /\ about' = "error" /\ pkt' = Report(pkt, type, 0, whole)
    /\ UNCHANGED <<sent, slice, pmtu, link, ids>>

(* External: a packet arrives that the client did not ask for.             *)
HostSends ==
    /\ at = "idle"
    /\ \E p \in NetPackets : at' = "net" /\ pkt' = p /\ sent' = p /\ about' = "unasked"
    /\ UNCHANGED <<slice, pmtu, link, ids>>

(* pumpTunQueue: over the cap the sender is told, ...                      *)
originatePTB ==
    /\ at = "net" /\ Have(pkt) > IPv6OutboundMTU
    /\ LET ptb == PacketTooBigFor(clatV6, IPv6OutboundMTU, pkt)
       IN IF ptb = <<>> THEN Gone
          ELSE at' = "host" /\ pkt' = ptb[1] /\ about' = "ptb" /\ UNCHANGED <<sent, slice>>
    /\ UNCHANGED <<pmtu, link, ids>>

(* ... below it TunToClient translates; what SIIT64 declines is dropped.   *)
TunToClient ==
    /\ at = "net" /\ Have(pkt) <= IPv6OutboundMTU
    /\ LET p == NAT66InPlaceTranslateAddress(pkt, Siit(Placeholder), "dst")
           t == SIIT64InPlaceTranslate(p, reservedSpaceSizeDefault, ids)
       IN /\ IF Have(pkt) >= 40 /\ t.ok
             THEN /\ at' = "got" /\ pkt' = t.pkt /\ slice' = SliceOf(pkt, t.reserved)
                  /\ UNCHANGED <<sent, about>>
             ELSE Gone
          /\ ids' = IF t.ok /\ ~IsFragmented(pkt) THEN (ids + 1) % IDSpace ELSE ids
    /\ UNCHANGED <<pmtu, link>>

(* External: the client obeys a Fragmentation Needed about its own packet. *)
ClientReceives ==
    /\ at = "got"
    /\ pmtu' = IF about = "error" /\ pkt.type = 3 /\ pkt.code = 4
               THEN MinOf(pmtu, pkt.rest) ELSE pmtu
    /\ Gone
    /\ UNCHANGED <<link, ids>>

HostReceives ==
    /\ at \in {"tun", "host"}
    /\ Gone
    /\ UNCHANGED <<pmtu, link, ids>>

Next ==
    \/ ClientSends \/ ClientToTun \/ ClientReceives \/ Restart
    \/ HostAnswers \/ HostSends \/ HostReceives
    \/ \E whole \in BOOLEAN :
        \/ \E mtu \in LinkMTUs : RouterTooBig(mtu, whole)
        \/ \E type \in {1, 3, 4} : RouterRejects(type, whole)
    \/ TunToClient \/ originatePTB

Spec == Init /\ [][Next]_vars

-----------------------------------------------------------------------------
(***************************************************************************)
(* Properties.                                                             *)
(***************************************************************************)

(* Every word of a translated packet is a word, its declared length one a  *)
(* 16-bit field holds, and the MTU the client is told never falls below    *)
(* IPv4's minimum nor rises above the inner MTU, whatever a router         *)
(* announces (siit64.go:139).                                              *)
TypeOK ==
    /\ at \in {"idle", "client", "tun", "net", "got", "host", "aborted"}
    /\ about \in {"sent", "answer", "error", "unasked", "ptb"}
    /\ pkt # Nothing => pkt.ck \in 0..Ones /\ pkt.len \in 0..MaxLength
    /\ pmtu \in 68..IPv4OutboundMTU
    /\ ids \in 0..(IDSpace - 1)

(* The slice either direction hands on holds exactly the packet its header *)
(* declares and the bytes that followed the original: the movement of      *)
(* reservedSpaceSize (header room, IPv4 options, fragment header, the 20   *)
(* bytes of a grown quote) and the rewritten length fields agree           *)
(* (clatxlat.go:142, 187); and a Packet Too Big never exceeds 1280 bytes.  *)
(* The one packet a translator does not survive is an ICMP error that      *)
(* declares less of its quote than a header and has more behind it         *)
(* (siit46.go:200 counts to the end of the slice, 251-262 do not).         *)
LengthHonest ==
    /\ TypeOK
    /\ at \in {"tun", "got"} => slice = Have(pkt)
    /\ at = "host" /\ about = "ptb" => Have(pkt) <= 1280 /\ pkt.dst = pkt.quote[1].src
    /\ at = "aborted" => sent.fam = 4 /\ sent.quote # <<>> /\ sent.len < 32 /\ sent.pad > 4

(* Which packets carry a checksum this translator can see.                 *)
Summable(p) ==
    p.proto \in Summed \cup {ICMP4, ICMP6} /\ p.off = 0 /\ p.len >= MinimumSize(p.proto)

(* A UDP checksum of zero is none: allowed in IPv4, invalid in IPv6.       *)
SumGood(p) == IF p.proto = UDP /\ p.ck = 0 THEN p.fam = 4 ELSE Verified(p)

(* The updates compute a right checksum of zero and do not map it to all   *)
(* ones (siit46.go:344-347, 376-378, nat.go:120).                          *)
ZeroLeft(p) == p.fam = 6 /\ p.proto = UDP /\ p.ck = 0 /\ Verified(p)

(* A transport checksum that was right is right after SIIT46 and NAT66, in *)
(* the answer after NAT66 and SIIT64, in a first fragment too, in an error *)
(* with its translated quote, and in the Packet Too Big: three partial     *)
(* updates and four recomputations agree.  A UDP packet of the client      *)
(* whose checksum comes out as zero in IPv6 is an exception, and leaves    *)
(* invalid.  So are a source outside 64:ff9b::/96 and an extension header  *)
(* before the transport, unasked or in the answer to a native packet the   *)
(* client sent from its CLAT /128 (siit46.go:16 and nat.go:70 do not see   *)
(* them).                                                                  *)
ChecksumHolds ==
    /\ at \in {"tun", "got", "host"} /\ Summable(pkt) /\ SumGood(sent)
    /\ about = "unasked" => sent.src.hi = Prefix /\ NAT66Sees(sent)
    /\ about = "answer" /\ sent.fam = 6 => sent.dst.hi = Prefix /\ NAT66Sees(sent)
    => SumGood(pkt) \/ (at = "tun" /\ sent.fam = 4 /\ ZeroLeft(pkt))

(* An error about a packet quotes that packet to the client: destination,  *)
(* protocol and length are those it sent; the source is not, it is the low *)
(* half of the CLAT /128.  Only of a fragment does the quote stay IPv6     *)
(* (siit64.go:198-207, 235).                                               *)
QuoteNamesSent ==
    at = "got" /\ about = "error" /\ sent.fam = 4 =>
        LET q == pkt.quote[1]
        IN IF q.fam = 4 THEN /\ q.dst = sent.dst /\ q.src = V4(ClatLo)
                             /\ q.proto = sent.proto /\ q.len = sent.len
           ELSE IsFragmented(sent)

(* What reaches the network is what the client sent, from its CLAT /128 to *)
(* the mapped destination; what comes back for it is the mirror image of   *)
(* what it sent, to the placeholder address: protocol, length, fragment    *)
(* offset, More Fragments and, in a fragment, the ID survive both          *)
(* directions (clatxlat.go:103-107, 156-161).  A transport too short for   *)
(* NAT66 is the exception: its address is not rewritten.                   *)
Transparent ==
    LET same(p, q) == p.more = q.more /\ p.off = q.off /\ (IsFragmented(p) => p.id = q.id)
    IN /\ at = "tun" /\ about = "sent" /\ sent.fam = 4 =>
             /\ same(sent, pkt)
             /\ pkt.dst = Siit(sent.dst.lo)
             /\ Summable(sent) \/ sent.off # 0 => pkt.src = clatV6
             /\ sent.quote = <<>> => pkt.len = sent.len
       /\ at = "got" /\ about = "answer" /\ sent.fam = 4 =>
             /\ same(sent, pkt)
             /\ pkt.src = sent.dst
             /\ Summable(sent) \/ sent.off # 0 => pkt.dst = V4(Placeholder)
             /\ pkt.len = sent.len /\ pkt.proto = sent.proto
       /\ QuoteNamesSent

(* Path MTU discovery settles across the translation: once a router's      *)
(* Packet Too Big has reached the client as Fragmentation Needed, no       *)
(* packet within the MTU it was told is too big for that link again,       *)
(* although SIIT46 makes it 20 bytes longer.  Fragments (28 bytes longer)  *)
(* and errors, whose quote grows too, are not probes.                      *)
PathMTUSettles ==
    /\ at = "tun" /\ about = "sent" /\ sent.fam = 4
    /\ link >= 1280 /\ ~IsFragmented(sent) /\ sent.quote = <<>>
    => Size(pkt) <= link
=============================================================================
