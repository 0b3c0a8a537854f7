-------------------------------- MODULE Wire --------------------------------
(***************************************************************************)
(* The hand-off wire format: PROXY-v2 header and TLVs                      *)
(* (internal/proxyproto/tlv.go, reader.go), the per-protocol TLV matrix    *)
(* (internal/udshandoff/protocol.go), the SOCK_DGRAM frame                 *)
(* (internal/udshandoff/datagram.go, datagram_listener.go) and the subject *)
(* DN it carries (internal/auth/subjectdn.go).                             *)
(*                                                                         *)
(* Lengths are byte counts and keep their width; the bytes of a value are  *)
(* abstracted to a form, the class of strings the validators tell apart,   *)
(* and to val, what a handler reads from it.  A TLV is                     *)
(*     [type |-> 0..255, len |-> Nat, form |-> a form, val |-> a value].   *)
(***************************************************************************)
EXTENDS Naturals, Sequences, FiniteSets, TLC

Byte == 0..255
U16 == 65536

PP2TypeALPN == 1
PP2TypeAuthority == 2
PP2TypeSSL == 32
EraTLVRouteTag == 224
EraTLVOrigSNI == 225
EraTLVALPNDetail == 226
EraTLVToken == 227
EraTLVDeviceID == 228
EraTLVUserID == 229
EraTLVVLESSTarget == 230
EraTLVVLESSUUID == 231
EraTLVVLESSFlow == 232
EraTLVQUICConnID == 233
EraTLVQUICStreamID == 234
EraTLVDTLSPSK == 235
EraTLVSourceHintV6 == 236
EraTLVMTLSSubjectDN == 237
EraTLVTraceID == 238
EraTLVSpecVersion == 239

IsERACustom(t) == t \in 224..239
IsReserved(t) == t \in 128..223 \/ t >= 240

(* The forms.  "uuid", "dev" (dev-... / dev_...), "seed" (the one VLESS    *)
(* flow), "addrport" and "hostport" are lower-case ASCII too; "ulid" is    *)
(* 26 Crockford letters; "global" is an address of 2000::/3 or fc00::/7    *)
(* and "scoped" any other address; "v1" is the byte 0x01 and "v2" another. *)
LowerForms == {"lower", "uuid", "dev", "seed", "addrport", "hostport"}
PrintableForms == LowerForms \cup {"upper", "ulid"}
Utf8Forms == PrintableForms \cup {"empty", "space", "utf8", "v1", "v2"}
AnyForm == Utf8Forms \cup {"bin", "global", "scoped"}

isCanonicalUUID(t) == t.len = 36 /\ t.form = "uuid"
isLegacyDeviceID(t) == t.len \in 5..64 /\ t.form = "dev"
validateHostPort(t) == t.form \in {"addrport", "hostport"}
isCrockfordBase32(t) == t.form = "ulid"

(* The per-type rules of ValidateTLV: a length interval and a form.        *)
Rule(lens, forms) == [lens |-> lens, forms |-> forms]

StandardRule ==
    (PP2TypeALPN :> Rule(1..255, AnyForm)) @@
    (PP2TypeAuthority :> Rule(1..255, Utf8Forms)) @@
    (PP2TypeSSL :> Rule(5..U16, AnyForm))

EraRule ==
    (EraTLVRouteTag :> Rule(1..255, Utf8Forms)) @@
    (EraTLVOrigSNI :> Rule(1..253, LowerForms \cup {"space", "v1", "v2"})) @@
    (EraTLVALPNDetail :> Rule(1..32, Utf8Forms)) @@
    (EraTLVToken :> Rule({12}, AnyForm)) @@
    (EraTLVUserID :> Rule(1..64, PrintableForms)) @@
    (EraTLVVLESSFlow :> Rule(0..32, {"empty", "seed"})) @@
    (EraTLVQUICConnID :> Rule(8..20, AnyForm)) @@
    (EraTLVQUICStreamID :> Rule({1, 2, 4, 8}, AnyForm)) @@
    (EraTLVDTLSPSK :> Rule({32}, AnyForm)) @@
    (EraTLVSourceHintV6 :> Rule({16}, {"global"})) @@
    (EraTLVMTLSSubjectDN :> Rule(1..1024, Utf8Forms)) @@
    (EraTLVSpecVersion :> Rule({1}, AnyForm))

Obeys(t, rule) == t.len \in rule.lens /\ t.form \in rule.forms

ValidateTLV(t) ==
    CASE t.type \in DOMAIN StandardRule -> Obeys(t, StandardRule[t.type])
      [] t.type \in DOMAIN EraRule -> Obeys(t, EraRule[t.type])
      [] t.type = EraTLVDeviceID -> isCanonicalUUID(t) \/ isLegacyDeviceID(t)
      [] t.type = EraTLVVLESSUUID -> isCanonicalUUID(t)
      [] t.type = EraTLVVLESSTarget -> t.len \in 3..260 /\ validateHostPort(t)
      [] t.type = EraTLVTraceID -> t.len = 26 /\ isCrockfordBase32(t)
      [] OTHER -> TRUE

-----------------------------------------------------------------------------
(* A block of n bytes that holds the encoding of recs: the complete        *)
(* records and the bytes of a further, cut one.                            *)
Size(recs) ==
    Cardinality(UNION {{i} \X (1..(3 + recs[i].len)) : i \in 1..Len(recs)})

Block(recs, n) ==
    LET fit == {k \in 0..Len(recs) : Size(SubSeq(recs, 1, k)) <= n}
        k == CHOOSE k \in fit : \A j \in fit : j <= k IN
    [recs |-> SubSeq(recs, 1, k), left |-> n - Size(SubSeq(recs, 1, k))]

Failed(e) == [err |-> e, tlvs |-> <<>>]

Duplicate(recs, i) == \E j \in 1..(i - 1) : recs[j].type = recs[i].type

(* DecodeTLVs walks the records in order and stops at the first bad one; a *)
(* cut record, of less than 3 bytes or of a length past the block, is last.*)
DecodeTLVs(b) ==
    LET bad == {i \in 1..Len(b.recs) :
                    Duplicate(b.recs, i) \/ IsReserved(b.recs[i].type)} IN
    IF bad # {}
      THEN LET i == CHOOSE i \in bad : \A j \in bad : i <= j IN
           Failed(IF Duplicate(b.recs, i) THEN "duplicate" ELSE "reserved")
      ELSE IF b.left > 0 THEN Failed("truncated")
      ELSE [err |-> "none", tlvs |-> b.recs]

(* A PROXY-v2 header in flight.  alen is the length it declares; tlvs are  *)
(* the records that follow its addresses, whatever alen says.              *)
verCmdProxy == 33
famTCP4 == 17
famTCP6 == 33
famUDP4 == 18
famUDP6 == 34
Families == {famTCP4, famTCP6, famUDP4, famUDP6}

IsIPv6(fam) == fam \in {famTCP6, famUDP6}
AddrLen(fam) == IF IsIPv6(fam) THEN 36 ELSE 12

HeaderErr(k) == [err |-> k, fam |-> 0, src |-> "", dst |-> "", tlvs |-> <<>>]

(* ReadHeaderV2WithTLVs on a stream that ends, or whose deadline passes,   *)
(* after avail bytes.                                                      *)
ReadHeaderV2WithTLVs(w, avail) ==
    LET d == DecodeTLVs(Block(w.tlvs, w.alen - AddrLen(w.fam))) IN
    IF avail < 16 THEN HeaderErr("incomplete_header")
    ELSE IF ~w.sig THEN HeaderErr("signature_invalid")
    ELSE IF w.cmd # verCmdProxy THEN HeaderErr("unsupported_version_cmd")
    ELSE IF w.fam \notin Families THEN HeaderErr("unsupported_family")
    ELSE IF avail < 16 + w.alen THEN HeaderErr("incomplete_header")
    ELSE IF w.alen < AddrLen(w.fam) THEN HeaderErr("address_block_short")
    ELSE IF d.err # "none" THEN HeaderErr("tlv_malformed")
    ELSE [err |-> "none", fam |-> w.fam, src |-> w.src, dst |-> w.dst,
          tlvs |-> d.tlvs]

(* Mutant: the length counts the TLVs without the addresses.               *)
EncodeNarrow(h) ==
    [sig |-> TRUE, cmd |-> verCmdProxy, fam |-> h.fam,
     alen |-> Size(h.tlvs), src |-> h.src, dst |-> h.dst, tlvs |-> h.tlvs]

(* HeaderV2.Encode: the inverse, with a 16-bit length.                     *)
Encode(h) ==
    [sig |-> TRUE, cmd |-> verCmdProxy, fam |-> h.fam,
     alen |-> (AddrLen(h.fam) + Size(h.tlvs)) % U16,
     src |-> h.src, dst |-> h.dst, tlvs |-> h.tlvs]

-----------------------------------------------------------------------------
(* The M / O / F rows of the protocol matrix.                              *)
universalMandatory == {EraTLVSpecVersion, EraTLVTraceID}

Row(l4, m, o, f) == [L4 |-> l4, Mandatory |-> m, Optional |-> o, Forbidden |-> f]

VLESS == {EraTLVVLESSTarget, EraTLVVLESSUUID, EraTLVVLESSFlow}
QUIC == {EraTLVQUICConnID, EraTLVQUICStreamID}
Names == {EraTLVOrigSNI, EraTLVALPNDetail}
Identity == {EraTLVDeviceID, EraTLVUserID}
TokenRow == Identity \cup {EraTLVToken, EraTLVSourceHintV6}
Secrets == {EraTLVDTLSPSK, EraTLVMTLSSubjectDN}

vlessWSSpec == Row("tcp", TokenRow \cup {EraTLVALPNDetail}, {EraTLVOrigSNI},
                   VLESS \cup QUIC \cup Secrets)
quicEgressSpec == Row("udp", TokenRow \cup {EraTLVALPNDetail, EraTLVQUICConnID},
                      {EraTLVOrigSNI, EraTLVQUICStreamID}, VLESS \cup Secrets)
tokenSpec == Row("tcp", TokenRow, Names, VLESS \cup QUIC \cup Secrets)

matrix == [
    vless_reality |-> Row("tcp", Identity \cup VLESS \cup {EraTLVSourceHintV6},
                          Names, {EraTLVToken} \cup QUIC \cup Secrets),
    anytls |-> tokenSpec,
    vless_ws_sync |-> vlessWSSpec,
    vless_ws_transfer |-> vlessWSSpec,
    vless_ws_live |-> vlessWSSpec,
    tt_connect |-> Row("tcp", TokenRow \cup {EraTLVALPNDetail}, {EraTLVOrigSNI},
                       VLESS \cup QUIC \cup Secrets),
    anyconnect_cstp |-> Row("tcp", TokenRow \cup {EraTLVMTLSSubjectDN}, Names,
                            VLESS \cup QUIC \cup {EraTLVDTLSPSK}),
    anyconnect_dtls |-> Row("udp", TokenRow \cup Secrets, {},
                            Names \cup VLESS \cup QUIC),
    shadow_tls |-> tokenSpec,
    hy2 |-> quicEgressSpec,
    juicity |-> quicEgressSpec,
    tt_h3 |-> quicEgressSpec,
    browser_h3 |-> Row("udp", {EraTLVALPNDetail, EraTLVQUICConnID},
                       {EraTLVOrigSNI, EraTLVQUICStreamID},
                       TokenRow \cup VLESS \cup Secrets),
    drive_web |-> Row("tcp", {}, Names,
                      TokenRow \cup VLESS \cup QUIC \cup Secrets)]

TypesOf(tlvs) == {tlvs[i].type : i \in 1..Len(tlvs)}

(* Spec.Validate: res.OK.  present keeps the last record of a type.  The   *)
(* types a row does not name (universalOptional, the ERA types of          *)
(* res.UnknownERA) are skipped; no ERA type is missing from a row.         *)
Validate(row, tlvs) ==
    /\ universalMandatory \cup row.Mandatory \subseteq TypesOf(tlvs)
    /\ row.Forbidden \cap TypesOf(tlvs) = {}
    /\ \A i \in 1..Len(tlvs) : ValidateTLV(tlvs[i])
    /\ \A i \in 1..Len(tlvs) :
          /\ tlvs[i].type = EraTLVSpecVersion
          /\ \A j \in (i + 1)..Len(tlvs) : tlvs[j].type # EraTLVSpecVersion
          => tlvs[i].form = "v1"

(* HeaderV2.Lookup and lookupTLV: the first record of a type.              *)
Lookup(tlvs, t, none) ==
    LET at == {i \in 1..Len(tlvs) : tlvs[i].type = t} IN
    IF at = {} THEN none
    ELSE tlvs[CHOOSE i \in at : \A j \in at : i <= j].val

(* A subject DN is [cut |-> does it end in a lone backslash, avas |-> its  *)
(* attributes]; a CN is a device id, "bad" (a malformed escape), "" or     *)
(* "other" (not of the device-id shape).  The first CN decides.            *)
extractCN(dn) ==
    LET at == {i \in 1..Len(dn.avas) : dn.avas[i].attr = "CN"} IN
    IF dn.cut THEN "bad"
    ELSE IF at = {} THEN ""
    ELSE dn.avas[CHOOSE i \in at : \A j \in at : i <= j].val

ErrInvalidSubjectDN == "invalid_subject_dn"
ErrNoDeviceID == "no_device_id"

DeviceIDFromSubjectDN(dn) ==
    LET cn == extractCN(dn) IN
    IF cn = "bad" THEN ErrInvalidSubjectDN
    ELSE IF cn \in {"", "other"} THEN ErrNoDeviceID
    ELSE cn

-----------------------------------------------------------------------------
(* The SOCK_DGRAM frame: n bytes, a fixed header, a TLV block whose first  *)
(* bytes are a PROXY-v2 header, a payload.  The records of the block are   *)
(* pp2.tlvs; pp2.alen decides which of them are the header's own and which *)
(* are the ERA block.                                                      *)
DGramHeaderLen == 6
MaxDatagramSize == 65536
DirFacadeToBackend == 0
DirBackendToFacade == 1

FrameErr(k) == [err |-> k]

DecodeDGramFrame(b) ==
    LET declared == DGramHeaderLen + b.tlvLen + b.pldLen
        inner == ReadHeaderV2WithTLVs(b.pp2, b.tlvLen)
        after == SubSeq(b.pp2.tlvs, Len(inner.tlvs) + 1, Len(b.pp2.tlvs))
        era == DecodeTLVs(Block(after, b.tlvLen - (16 + b.pp2.alen))) IN
    IF b.n < DGramHeaderLen THEN FrameErr("frame_too_short")
    ELSE IF b.v # 1 THEN FrameErr("frame_bad_version")
    ELSE IF b.fl \notin {0, 1} THEN FrameErr("frame_reserved_flags_set")
    ELSE IF declared > MaxDatagramSize THEN FrameErr("frame_oversize")
    ELSE IF declared > b.n THEN FrameErr("frame_truncated")
    ELSE IF inner.err # "none" THEN FrameErr("frame_inner_pp2_decode")
    ELSE IF era.err # "none" THEN FrameErr("frame_era_tlv_decode")
    ELSE [err |-> "none", Direction |-> b.fl, Inner |-> inner,
          ERA |-> era.tlvs, Payload |-> b.pay]

AllTLVs(f) == f.Inner.tlvs \o f.ERA

(* writeReply: the envelope of the inbound frame around another payload.   *)
ReplySize(f, pay) == DGramHeaderLen + 16 + AddrLen(f.Inner.fam)
                        + Size(f.Inner.tlvs) + Size(f.ERA) + pay.len

ReplyFits(f, pay) == ReplySize(f, pay) <= MaxDatagramSize

ReplyFrame(f, pay) ==
    [n |-> ReplySize(f, pay), v |-> 1, fl |-> DirBackendToFacade,
     tlvLen |-> (ReplySize(f, pay) - pay.len - DGramHeaderLen) % U16,
     pldLen |-> pay.len % U16,
     pp2 |-> [Encode(f.Inner) EXCEPT !.tlvs = AllTLVs(f)], pay |-> pay]
=============================================================================
