------------------------------- MODULE MCSiit -------------------------------
EXTENDS Siit

(* A packet with a right checksum.                                         *)
Summing(p) == [p EXCEPT !.ck = Fresh(p)]

Packet4 ==
    [fam |-> 4, src |-> V4(Placeholder), dst |-> V4(2), proto |-> TCP, hdr |-> 20,
     ext |-> <<>>, len |-> 40, pad |-> 0, more |-> FALSE, off |-> 0, id |-> 1, ok |-> TRUE,
     route |-> FALSE, ck |-> 0, data |-> 1, type |-> 0, code |-> 0, rest |-> 0, quote |-> <<>>]

Packet6 ==
    [Packet4 EXCEPT !.fam = 6, !.src = Siit(2), !.dst = clatV6, !.hdr = 40]

(* TCP, UDP and DCCP: whole, padded, truncated, with options, fragmented,  *)
(* shorter than the transport header, of every size at a boundary, and     *)
(* with every checksum value.                                              *)
Transports4 ==
    {[Packet4 EXCEPT !.proto = n, !.len = l, !.data = d, !.pad = e, !.hdr = h] :
        n \in Summed, l \in {7, 8, 24, 1240, 1260, 1380}, d \in 1..Ones, e \in {-1, 0, 6},
        h \in {20, 24}}
Fragments4 ==
    {[Packet4 EXCEPT !.proto = n, !.len = l, !.more = m, !.off = o] :
        n \in {TCP, UDP, ICMP4}, l \in {8, 24, 25}, m \in BOOLEAN, o \in {0, 3}}
Refused4 ==
    {[Packet4 EXCEPT !.ok = FALSE], [Packet4 EXCEPT !.route = TRUE, !.hdr = 24],
     [Packet4 EXCEPT !.proto = 51]}

(* Native packets of the client; two come from its CLAT /128.              *)
Native6 ==
    {[Packet6 EXCEPT !.src = [hi |-> 5, lo |-> 5], !.dst = Siit(2)],
     [Packet6 EXCEPT !.src = clatV6, !.dst = Siit(2)],
     [Packet6 EXCEPT !.src = clatV6, !.dst = [hi |-> 5, lo |-> 5]]}
Quoted4 ==
    {Summing([Packet4 EXCEPT !.proto = n, !.len = l, !.pad = e, !.src = V4(2),
                             !.dst = V4(Placeholder), !.hdr = h, !.type = t]) :
        n \in {TCP, ICMP4, 50}, l \in {8, 600}, e \in {0, -4}, h \in {20, 24}, t \in {8, 11}}
Icmp4 ==
    {[Packet4 EXCEPT !.proto = ICMP4, !.len = 8, !.type = k[1], !.code = k[2], !.rest = k[3]] :
        k \in {<<8, 0, 9>>, <<0, 0, 9>>, <<8, 1, 0>>, <<13, 0, 0>>}}
    \cup
    {[Packet4 EXCEPT !.proto = ICMP4, !.type = k[1], !.code = k[2], !.rest = k[3],
                     !.len = 8 + Have(q), !.quote = <<q>>] :
        q \in Quoted4,
        k \in {<<3, 1, 0>>, <<3, 2, 0>>, <<3, 3, 0>>, <<3, 4, 0>>, <<3, 4, 900>>, <<3, 10, 0>>,
               <<3, 14, 0>>, <<11, 0, 0>>, <<12, 0, 9 * 16777216>>, <<12, 0, 5 * 16777216>>}}

(* Errors that declare from none to all of the bytes a quote needs, with   *)
(* the rest of it behind the declared packet.                              *)
Padded4 ==
    {[Packet4 EXCEPT !.proto = ICMP4, !.type = k[1], !.code = k[2], !.len = 8 + n,
                     !.pad = b - n, !.quote = <<[q EXCEPT !.pad = n - Size(q)]>>] :
        k \in {<<3, 1>>, <<3, 4>>}, n \in {0, 19, 20, 23, 24, 27}, b \in {27, 28, 60},
        q \in {x \in Quoted4 : x.len = 8 /\ x.pad = 0}}

MCClient ==
    {Summing(p) : p \in Transports4 \cup Fragments4 \cup Refused4 \cup Native6 \cup Icmp4 \cup Padded4}
    \cup {[p EXCEPT !.ck = 0] : p \in {q \in Transports4 \cup Fragments4 : q.proto = UDP}}
    \cup {[Packet4 EXCEPT !.ck = c] : c \in {0, Ones}}

Ext(kind, bad) == [kind |-> kind, bad |-> bad]

(* Unasked packets: extension headers in every order, atomic and real      *)
(* fragments, oversize, truncated, a source outside the prefix, errors     *)
(* with every translated type.                                             *)
MCNet ==
    {Summing([Packet6 EXCEPT !.proto = n, !.len = l, !.ext = e, !.more = m, !.off = o]) :
        n \in {TCP, UDP, ICMP6, 51}, l \in {7, 24, 1400}, m \in BOOLEAN, o \in {0, 3},
        e \in {<<Ext("frag", FALSE)>>, <<Ext("dest", FALSE), Ext("frag", FALSE)>>,
               <<Ext("frag", FALSE), Ext("dest", FALSE)>>, <<Ext("frag", TRUE)>>}}
    \cup
    {Summing([Packet6 EXCEPT !.proto = n, !.len = l, !.ext = e, !.src = s, !.pad = x, !.type = 128]) :
        n \in {TCP, DCCP, ICMP6}, l \in {24, 1400}, x \in {0, -1, 5},
        s \in {Siit(2), [hi |-> 5, lo |-> 5], clatV6, [hi |-> 0, lo |-> 0]},
        e \in {<<>>, <<Ext("routing", FALSE)>>, <<Ext("routing", TRUE)>>}}
    \cup
    {Summing([Packet6 EXCEPT !.proto = ICMP6, !.len = 8, !.type = k[1], !.code = k[2], !.rest = k[3]]) :
        k \in {<<129, 0, 9>>, <<1, 1, 0>>, <<1, 4, 0>>, <<1, 5, 0>>, <<2, 0, 0>>, <<2, 0, 70000>>,
               <<3, 1, 0>>, <<4, 0, 7>>, <<4, 0, 2>>, <<4, 1, 0>>, <<4, 1, 6>>, <<135, 0, 0>>}}
=============================================================================
