----------------------------- MODULE MCUdsServe -----------------------------
(***************************************************************************)
(* Streams for UdsServe: a device's, one whose subject has no CN and one   *)
(* whose DN is malformed, and some that are refused.                       *)
(***************************************************************************)
EXTENDS UdsServe

T(t, n, form, v) == [type |-> t, len |-> n, form |-> form, val |-> v]

DN(v) == [cut |-> FALSE, avas |-> <<[attr |-> "CN", val |-> v]>>]

All(dn) == <<T(EraTLVToken, 12, "bin", "t"), T(EraTLVDeviceID, 36, "uuid", "u"),
             T(EraTLVUserID, 5, "lower", "u"),
             T(EraTLVSourceHintV6, 16, "global", "g"),
             T(EraTLVMTLSSubjectDN, 60, "upper", dn),
             T(EraTLVTraceID, 26, "ulid", "x"),
             T(EraTLVSpecVersion, 1, "v1", 1)>>

Whole(recs) ==
    LET w == Encode([fam |-> famTCP4, src |-> "a", dst |-> "f", tlvs |-> recs])
    IN [wire |-> w, avail |-> 16 + w.alen]

MCStream == [
    device |-> Whole(All(DN("d1"))),
    anonymous |-> Whole(All([DN("d1") EXCEPT !.avas = <<>>])),
    malformed |-> Whole(All([DN("d1") EXCEPT !.cut = TRUE])),
    late |-> [Whole(All(DN("d1"))) EXCEPT !.avail = @ - 1],
    dtls |-> Whole(<<T(EraTLVDTLSPSK, 32, "bin", "k")>> \o All(DN("d1"))),
    version |-> Whole(Append(SubSeq(All(DN("d1")), 1, 6),
                             T(EraTLVSpecVersion, 1, "v2", 2)))]
=============================================================================
