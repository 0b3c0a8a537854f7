--------------------------- MODULE MCDtlsListener ---------------------------
(***************************************************************************)
(* Datagrams for DtlsListener: a client at "a" announced with UDP over     *)
(* IPv4 (all TLVs in the ERA block) and, for the same 4-tuple, as an       *)
(* IPv4-mapped IPv6 address (the identity in the header's own TLVs), a     *)
(* client at "b" that disconnects, one datagram per reason to drop.        *)
(***************************************************************************)
EXTENDS DtlsListener

MCUnmap == [a |-> "a", ma |-> "a", b |-> "b", f |-> "f", mf |-> "f"]

MCKey == {<<"a", "f">>, <<"b", "f">>}

T(t, n, form, v) == [type |-> t, len |-> n, form |-> form, val |-> v]

CN(v) == [cut |-> FALSE, avas |-> <<[attr |-> "O", val |-> "era"],
                                    [attr |-> "CN", val |-> v]>>]

Who == <<T(EraTLVToken, 12, "bin", "t"), T(EraTLVDeviceID, 36, "uuid", "u"),
         T(EraTLVUserID, 5, "lower", "u")>>
Keys(dn) == <<T(EraTLVDTLSPSK, 32, "bin", "k"),
              T(EraTLVSourceHintV6, 16, "global", "g"),
              T(EraTLVMTLSSubjectDN, 60, "upper", dn)>>
Tail2 == <<T(EraTLVTraceID, 26, "ulid", "x"), T(EraTLVSpecVersion, 1, "v1", 1)>>
All(dn) == Who \o Keys(dn) \o Tail2

Pay(typ) == [typ |-> typ, len |-> IF typ = "none" THEN 0 ELSE 9]

(* A well-formed frame with the first k records in the header.             *)
Bytes(fam, src, dst, recs, k, pay) ==
    LET alen == AddrLen(fam) + Size(SubSeq(recs, 1, k))
        size == 16 + AddrLen(fam) + Size(recs) IN
    [n |-> 6 + size + pay.len, v |-> 1, fl |-> 0, tlvLen |-> size,
     pldLen |-> pay.len, pay |-> pay,
     pp2 |-> [sig |-> TRUE, cmd |-> verCmdProxy, fam |-> fam, alen |-> alen,
              src |-> src, dst |-> dst, tlvs |-> recs]]

Good == [
    dpd |-> Bytes(famUDP6, "ma", "mf", All(CN("d1")), 3, Pay("dpd_out")),
    data |-> Bytes(famUDP4, "a", "f", All(CN("d1")), 0, Pay("data")),
    bye |-> Bytes(famUDP6, "b", "f", All(CN("d2")), 8, Pay("disconnect"))]

Base == Good.data
With(recs) == Bytes(famUDP4, "a", "f", recs, 0, Pay("data"))

Bad == [
    short |-> [Base EXCEPT !.n = 5],
    version |-> [Base EXCEPT !.v = 2],
    flags |-> [Base EXCEPT !.fl = 2],
    backwards |-> [Base EXCEPT !.fl = 1],
    oversize |-> [Base EXCEPT !.pldLen = 65500],
    truncated |-> [Base EXCEPT !.n = @ - 1],
    signature |-> [Base EXCEPT !.pp2.sig = FALSE],
    command |-> [Base EXCEPT !.pp2.cmd = 32],
    family |-> [Base EXCEPT !.pp2.fam = 0],
    addresses |-> [Base EXCEPT !.pp2.alen = 11],
    header |-> [Base EXCEPT !.pp2.alen = 30],
    overrun |-> [Base EXCEPT !.pp2.alen = 2000],
    cut |-> [Base EXCEPT !.tlvLen = @ - 2],
    missing |-> With(Who \o Tail2),
    duplicate |-> With(All(CN("d1")) \o Who),
    forbidden |-> With(<<T(EraTLVOrigSNI, 3, "lower", "s")>> \o All(CN("d1"))),
    reserved |-> With(<<T(200, 3, "bin", "s")>> \o All(CN("d1")))]

MCDatagram == Good @@ ("stranger" :> With(All(CN("other")))) @@ Bad
=============================================================================
