------------------------- MODULE DtlsListenerProofs -------------------------
(***************************************************************************)
(* DtlsListener, for any datagrams, any 4-tuples, any idle timeout and any *)
(* number of sessions.                                                     *)
(*                                                                         *)
(* First the wire: a reply frame that fits decodes to the envelope it was  *)
(* built from.  Then the inductive invariant of the listener, a step at a  *)
(* time, and the theorems it implies.                                      *)
(***************************************************************************)
EXTENDS DtlsListener, FiniteSetTheorems, SequenceTheorems,
        WellFoundedInduction, TLAPS

-----------------------------------------------------------------------------
(* The wire.  A sequence of records, with lengths.                         *)
IsRecs(recs) ==
    /\ recs \in Seq({recs[i] : i \in 1..Len(recs)})
    /\ \A i \in 1..Len(recs) : recs[i].len \in Nat

(* The bytes of a record, and of a sequence of records.                    *)
Cell(recs, i) == {i} \X (1..(3 + recs[i].len))
Cells(recs) == UNION {Cell(recs, i) : i \in 1..Len(recs)}

(* No record is a duplicate or of a reserved type.                         *)
Clean(recs) == \A i \in 1..Len(recs) : ~Duplicate(recs, i) /\ ~IsReserved(recs[i].type)

(* The size of a sequence of records is a finite count.                    *)
LEMMA SizeType ==
    ASSUME NEW recs, IsRecs(recs)
    PROVE  /\ Size(recs) = Cardinality(Cells(recs)) /\ IsFiniteSet(Cells(recs))
           /\ Size(recs) \in Nat
<1> DEFINE n == Len(recs)
           T == {Cell(recs, i) : i \in 1..n}
           g == [i \in 1..n |-> Cell(recs, i)]
<1>0. n \in Nat
  BY LenProperties DEF IsRecs
<1>1. \A i \in 1..n : IsFiniteSet(Cell(recs, i))
  <2> TAKE i \in 1..n
  <2>1. 3 + recs[i].len \in Int
    BY DEF IsRecs
  <2>2. IsFiniteSet({i})
    BY FS_Singleton
  <2>3. 1 \in Int
    OBVIOUS
  <2>4. IsFiniteSet(1..(3 + recs[i].len))
    BY <2>1, <2>3, FS_Interval
  <2> QED BY <2>2, <2>4, FS_Product DEF Cell
<1>2. g \in Surjection(1..n, T)
  BY DEF Surjection
<1>3. IsFiniteSet(T)
  <2>1. IsFiniteSet(1..n)
    BY <1>0, FS_Interval
  <2> QED BY <1>2, <2>1, FS_Surjection
<1>4. IsFiniteSet(UNION T)
  BY <1>1, <1>3, FS_UNION
<1>5. Cells(recs) = UNION T
  BY DEF Cells
<1>6. Size(recs) = Cardinality(UNION T)
  BY DEF Size, Cell
<1> QED BY <1>4, <1>5, <1>6, FS_CardinalityType

(* A proper prefix has fewer bytes.                                        *)
LEMMA PrefixSmaller ==
    ASSUME NEW recs, IsRecs(recs), NEW k \in 0..Len(recs)
    PROVE  /\ IsRecs(SubSeq(recs, 1, k)) /\ Len(SubSeq(recs, 1, k)) = k
           /\ \A j \in 0..Len(recs) : j < k =>
                 Size(SubSeq(recs, 1, j)) < Size(SubSeq(recs, 1, k))
<1> DEFINE S == {recs[i] : i \in 1..Len(recs)}
           P(j) == SubSeq(recs, 1, j)
<1>0. Len(recs) \in Nat /\ recs \in Seq(S)
  BY LenProperties DEF IsRecs
<1>1. ASSUME NEW j \in 0..Len(recs)
      PROVE  /\ Len(P(j)) = j /\ IsRecs(P(j))
             /\ \A i \in 1..j : P(j)[i] = recs[i]
  <2>1. \A i \in 1..j : recs[i] \in S
    BY <1>0
  <2>2. /\ P(j) \in Seq(S) /\ Len(P(j)) = IF 1 <= j THEN j - 1 + 1 ELSE 0
        /\ \A i \in 1..(j - 1 + 1) : P(j)[i] = recs[1 + i - 1]
    BY <1>0, <2>1, SubSeqProperties
  <2>3. Len(P(j)) = j /\ \A i \in 1..j : P(j)[i] = recs[i]
    BY <1>0, <2>2
  <2>4. P(j) \in Seq({P(j)[i] : i \in 1..Len(P(j))})
    BY <2>2, SeqOfRange, RangeEquality
  <2> QED BY <1>0, <2>3, <2>4 DEF IsRecs
<1>2. ASSUME NEW j \in 0..Len(recs), j < k
      PROVE  Size(P(j)) < Size(P(k))
  <2>1. /\ Len(P(j)) = j /\ Len(P(k)) = k
        /\ \A i \in 1..j : P(j)[i] = recs[i]
        /\ \A i \in 1..k : P(k)[i] = recs[i]
    BY <1>1
  <2>2. Cells(P(j)) \subseteq Cells(P(k))
    BY <1>0, <1>2, <2>1 DEF Cells, Cell
  <2>3. <<k, 1>> \in Cells(P(k)) /\ <<k, 1>> \notin Cells(P(j))
    <3>1. k \in 1..k /\ recs[k].len \in Nat
      BY <1>0, <1>2 DEF IsRecs
    <3>2. <<k, 1>> \in Cell(P(k), k)
      BY <2>1, <3>1 DEF Cell
    <3>3. \A i \in 1..j : <<k, 1>> \notin Cell(P(j), i)
      BY <1>0, <1>2 DEF Cell
    <3> QED BY <2>1, <3>1, <3>2, <3>3 DEF Cells
  <2>4. /\ Size(P(j)) = Cardinality(Cells(P(j))) /\ Size(P(j)) \in Nat
        /\ Size(P(k)) = Cardinality(Cells(P(k))) /\ Size(P(k)) \in Nat
        /\ IsFiniteSet(Cells(P(k)))
    BY <1>1, SizeType
  <2>5. /\ Cardinality(Cells(P(j))) <= Cardinality(Cells(P(k)))
        /\ Cardinality(Cells(P(j))) # Cardinality(Cells(P(k)))
    BY <2>2, <2>3, <2>4, FS_Subset
  <2> QED BY <2>4, <2>5
<1> QED BY <1>1, <1>2

(* Reading a block of exactly the bytes of the first k records yields them *)
(* and leaves nothing: every further record would need more.               *)
LEMMA BlockExact ==
    ASSUME NEW recs, IsRecs(recs), NEW k \in 0..Len(recs)
    PROVE  Block(recs, Size(SubSeq(recs, 1, k))) =
              [recs |-> SubSeq(recs, 1, k), left |-> 0]
<1> DEFINE n == Size(SubSeq(recs, 1, k))
           fit == {j \in 0..Len(recs) : Size(SubSeq(recs, 1, j)) <= n}
           c == CHOOSE x \in fit : \A j \in fit : j <= x
<1>1. Len(recs) \in Nat
  BY LenProperties DEF IsRecs
<1>2. ASSUME NEW j \in 0..Len(recs)
      PROVE  /\ Size(SubSeq(recs, 1, j)) \in Nat
             /\ j > k => Size(SubSeq(recs, 1, j)) > n
  <2>1. IsRecs(SubSeq(recs, 1, j)) /\ IsRecs(SubSeq(recs, 1, k))
    BY PrefixSmaller
  <2>2. Size(SubSeq(recs, 1, j)) \in Nat /\ n \in Nat
    BY <2>1, SizeType
  <2>3. j > k => n < Size(SubSeq(recs, 1, j))
    BY <1>1, PrefixSmaller
  <2> QED BY <2>2, <2>3
<1>3. n \in Nat
  BY <1>2
<1>4. k \in fit /\ \A j \in fit : j \in 0..Len(recs) /\ j <= k
  BY <1>1, <1>2, <1>3
<1> HIDE DEF fit
<1>5. c \in fit /\ \A j \in fit : j <= c
  BY <1>4
<1> HIDE DEF c
<1>6. c = k
  BY <1>1, <1>4, <1>5
<1>7. n - n = 0
  BY <1>3
<1>8. Block(recs, n) = [recs |-> SubSeq(recs, 1, c), left |-> n - Size(SubSeq(recs, 1, c))]
  BY DEF Block, fit, c
<1> HIDE DEF n
<1>9. n = Size(SubSeq(recs, 1, k))
  BY DEF n
<1> QED BY <1>6, <1>7, <1>8, <1>9

(* Clean records with nothing after them decode to themselves; what        *)
(* DecodeTLVs answers without an error is clean and what the block held.   *)
LEMMA DecodeClean ==
    /\ \A recs : Clean(recs) =>
          DecodeTLVs([recs |-> recs, left |-> 0]) = [err |-> "none", tlvs |-> recs]
    /\ \A b : DecodeTLVs(b).err = "none" => DecodeTLVs(b).tlvs = b.recs /\ Clean(b.recs)
<1>1. ASSUME NEW recs, Clean(recs)
      PROVE  DecodeTLVs([recs |-> recs, left |-> 0]) = [err |-> "none", tlvs |-> recs]
  BY <1>1 DEF DecodeTLVs, Clean
<1>2. ASSUME NEW b, DecodeTLVs(b).err = "none"
      PROVE  DecodeTLVs(b).tlvs = b.recs /\ Clean(b.recs)
  <2> DEFINE bad == {i \in 1..Len(b.recs) :
                        Duplicate(b.recs, i) \/ IsReserved(b.recs[i].type)}
  <2>1. CASE bad # {}
    <3>1. \E e \in {"duplicate", "reserved"} : DecodeTLVs(b) = Failed(e)
      BY <2>1 DEF DecodeTLVs
    <3> QED BY <1>2, <3>1 DEF Failed
  <2>2. CASE bad = {} /\ b.left > 0
    <3>1. DecodeTLVs(b) = Failed("truncated")
      BY <2>2 DEF DecodeTLVs
    <3> QED BY <1>2, <3>1 DEF Failed
  <2>3. CASE bad = {} /\ ~(b.left > 0)
    <3>1. DecodeTLVs(b) = [err |-> "none", tlvs |-> b.recs]
      BY <2>3 DEF DecodeTLVs
    <3>2. Clean(b.recs)
      BY <2>3 DEF Clean
    <3> QED BY <3>1, <3>2
  <2> QED BY <2>1, <2>2, <2>3
<1> QED BY <1>1, <1>2

(* A bounded, inhabited set of naturals has a greatest element.            *)
LEMMA GreatestNatural ==
    ASSUME NEW T \in SUBSET Nat, T # {}, NEW n \in Nat, \A x \in T : x <= n
    PROVE  \E x \in T : \A y \in T : y <= x
<1> DEFINE D == {m \in Nat : \E x \in T : m = n - x}
<1>1. D \in SUBSET Nat /\ D # {}
  <2>1. PICK x \in T : TRUE
    OBVIOUS
  <2>2. n - x \in D
    BY <2>1
  <2> QED BY <2>2
<1>2. PICK m \in D : \A k \in D : <<k, m>> \notin OpToRel(<, Nat)
  BY <1>1, WFMin, NatLessThanWellFounded, Zenon
<1>3. \A k \in D : ~(k < m)
  BY <1>1, <1>2, Zenon DEF OpToRel
<1>4. PICK x \in T : m = n - x
  BY <1>2
<1>5. ASSUME NEW y \in T PROVE y <= x
  <2>1. n - y \in D
    OBVIOUS
  <2>2. ~(n - y < n - x)
    BY <1>3, <1>4, <2>1
  <2> QED BY <2>2
<1> QED BY <1>5

(* A block of records, however many bytes are read, yields a prefix.       *)
LEMMA BlockPrefix ==
    ASSUME NEW recs, IsRecs(recs), NEW n \in Nat
    PROVE  \E k \in 0..Len(recs) : Block(recs, n).recs = SubSeq(recs, 1, k)
<1> DEFINE fit == {j \in 0..Len(recs) : Size(SubSeq(recs, 1, j)) <= n}
           c == CHOOSE x \in fit : \A j \in fit : j <= x
<1>1. Len(recs) \in Nat
  BY LenProperties DEF IsRecs
<1>2. 0 \in fit
  <2>1. Len(SubSeq(recs, 1, 0)) = 0 /\ IsRecs(SubSeq(recs, 1, 0))
    BY <1>1, PrefixSmaller
  <2>2. Cells(SubSeq(recs, 1, 0)) = {}
    BY <2>1 DEF Cells
  <2>3. Size(SubSeq(recs, 1, 0)) = 0
    BY <2>1, <2>2, SizeType, FS_EmptySet
  <2> QED BY <1>1, <2>3
<1>3. \E x \in fit : \A j \in fit : j <= x
  <2>1. fit \in SUBSET Nat /\ fit # {} /\ \A j \in fit : j <= Len(recs)
    BY <1>1, <1>2
  <2> HIDE DEF fit
  <2> QED BY <1>1, <2>1, GreatestNatural
<1>4. c \in fit
  BY <1>3
<1>5. Block(recs, n).recs = SubSeq(recs, 1, c)
  BY DEF Block
<1> QED BY <1>4, <1>5

(* The end of a sequence of records is one.                                *)
LEMMA SuffixRecs ==
    ASSUME NEW recs, IsRecs(recs), NEW k \in 0..Len(recs)
    PROVE  IsRecs(SubSeq(recs, k + 1, Len(recs)))
<1> DEFINE S == {recs[i] : i \in 1..Len(recs)}
           B == SubSeq(recs, k + 1, Len(recs))
<1>0. Len(recs) \in Nat /\ k + 1 \in Int /\ Len(recs) \in Int
  BY LenProperties DEF IsRecs
<1>1. \A i \in (k + 1)..Len(recs) : recs[i] \in S
  BY <1>0
<1>2. /\ B \in Seq(S)
      /\ Len(B) = IF k + 1 <= Len(recs) THEN Len(recs) - (k + 1) + 1 ELSE 0
      /\ \A i \in 1..(Len(recs) - (k + 1) + 1) : B[i] = recs[(k + 1) + i - 1]
  BY <1>0, <1>1, SubSeqProperties
<1>3. B \in Seq({B[i] : i \in 1..Len(B)})
  BY <1>2, SeqOfRange, RangeEquality
<1>4. \A i \in 1..Len(B) : B[i].len \in Nat
  <2> TAKE i \in 1..Len(B)
  <2>1. (k + 1) + i - 1 \in 1..Len(recs) /\ B[i] = recs[(k + 1) + i - 1]
    BY <1>0, <1>2
  <2> QED BY <2>1 DEF IsRecs
<1> QED BY <1>3, <1>4 DEF IsRecs

(* What a decoded frame keeps of its datagram.                             *)
Envelope(f) ==
    /\ f.err = "none"
    /\ f.Inner = [err |-> "none", fam |-> f.Inner.fam, src |-> f.Inner.src,
                  dst |-> f.Inner.dst, tlvs |-> f.Inner.tlvs]
    /\ f.Inner.fam \in Families
    /\ IsRecs(f.Inner.tlvs) /\ Clean(f.Inner.tlvs)
    /\ IsRecs(f.ERA) /\ Clean(f.ERA)

(* A header that decodes is what was sent, its records a clean prefix.     *)
LEMMA HeaderDecoded ==
    ASSUME NEW w, NEW avail \in Nat, w.alen \in Nat, IsRecs(w.tlvs),
           ReadHeaderV2WithTLVs(w, avail).err = "none"
    PROVE  LET h == ReadHeaderV2WithTLVs(w, avail) IN
           /\ h = [err |-> "none", fam |-> w.fam, src |-> w.src, dst |-> w.dst,
                   tlvs |-> h.tlvs]
           /\ w.fam \in Families /\ avail >= 16 + w.alen
           /\ \E k \in 0..Len(w.tlvs) : h.tlvs = SubSeq(w.tlvs, 1, k)
           /\ Clean(h.tlvs)
<1> DEFINE b == Block(w.tlvs, w.alen - AddrLen(w.fam))
           d == DecodeTLVs(b)
           h == ReadHeaderV2WithTLVs(w, avail)
<1>1. /\ w.fam \in Families /\ ~(avail < 16 + w.alen) /\ ~(w.alen < AddrLen(w.fam))
      /\ d.err = "none"
      /\ h = [err |-> "none", fam |-> w.fam, src |-> w.src, dst |-> w.dst, tlvs |-> d.tlvs]
  <2> HIDE DEF d
  <2>1. h = IF avail < 16 THEN HeaderErr("incomplete_header")
            ELSE IF ~w.sig THEN HeaderErr("signature_invalid")
            ELSE IF w.cmd # verCmdProxy THEN HeaderErr("unsupported_version_cmd")
            ELSE IF w.fam \notin Families THEN HeaderErr("unsupported_family")
            ELSE IF avail < 16 + w.alen THEN HeaderErr("incomplete_header")
            ELSE IF w.alen < AddrLen(w.fam) THEN HeaderErr("address_block_short")
            ELSE IF d.err # "none" THEN HeaderErr("tlv_malformed")
            ELSE [err |-> "none", fam |-> w.fam, src |-> w.src, dst |-> w.dst,
                  tlvs |-> d.tlvs]
    BY DEF ReadHeaderV2WithTLVs, d
  <2> HIDE DEF h
  <2>2. h.err = "none"
    BY DEF h
  <2> QED BY <2>1, <2>2 DEF HeaderErr
<1>2. w.alen - AddrLen(w.fam) \in Nat
  BY <1>1 DEF AddrLen
<1>3. \E k \in 0..Len(w.tlvs) : b.recs = SubSeq(w.tlvs, 1, k)
  BY <1>2, BlockPrefix
<1>4. d.tlvs = b.recs /\ Clean(b.recs)
  BY <1>1, DecodeClean
<1> HIDE DEF b, d, h
<1>5. h.tlvs = d.tlvs
  BY <1>1
<1>6. avail >= 16 + w.alen
  BY <1>1
<1>7. /\ h = [err |-> "none", fam |-> w.fam, src |-> w.src, dst |-> w.dst, tlvs |-> h.tlvs]
      /\ \E k \in 0..Len(w.tlvs) : h.tlvs = SubSeq(w.tlvs, 1, k)
      /\ Clean(h.tlvs)
  BY <1>1, <1>3, <1>4, <1>5
<1> QED BY <1>1, <1>6, <1>7 DEF h

(* So a frame that decodes is an envelope.                                 *)
LEMMA FrameDecoded ==
    ASSUME NEW b, {b.tlvLen, b.pp2.alen} \subseteq Nat, IsRecs(b.pp2.tlvs),
           DecodeDGramFrame(b).err = "none"
    PROVE  Envelope(DecodeDGramFrame(b)) /\ DecodeDGramFrame(b).Payload = b.pay
<1> DEFINE f == DecodeDGramFrame(b)
           inner == ReadHeaderV2WithTLVs(b.pp2, b.tlvLen)
           after == SubSeq(b.pp2.tlvs, Len(inner.tlvs) + 1, Len(b.pp2.tlvs))
           blk == Block(after, b.tlvLen - (16 + b.pp2.alen))
           era == DecodeTLVs(blk)
<1>1. /\ inner.err = "none" /\ era.err = "none"
      /\ f = [err |-> "none", Direction |-> b.fl, Inner |-> inner,
              ERA |-> era.tlvs, Payload |-> b.pay]
  <2> HIDE DEF inner, era
  <2>1. \/ \E k \in {"frame_too_short", "frame_bad_version", "frame_reserved_flags_set",
                     "frame_oversize", "frame_truncated", "frame_inner_pp2_decode",
                     "frame_era_tlv_decode"} : f = FrameErr(k)
        \/ /\ inner.err = "none" /\ era.err = "none"
           /\ f = [err |-> "none", Direction |-> b.fl, Inner |-> inner,
                   ERA |-> era.tlvs, Payload |-> b.pay]
    BY DEF DecodeDGramFrame, inner, era
  <2> HIDE DEF f
  <2>2. f.err = "none"
    BY DEF f
  <2> QED BY <2>1, <2>2 DEF FrameErr
<1>2. /\ inner = [err |-> "none", fam |-> b.pp2.fam, src |-> b.pp2.src,
                  dst |-> b.pp2.dst, tlvs |-> inner.tlvs]
      /\ b.pp2.fam \in Families /\ b.tlvLen >= 16 + b.pp2.alen
      /\ \E k \in 0..Len(b.pp2.tlvs) : inner.tlvs = SubSeq(b.pp2.tlvs, 1, k)
      /\ Clean(inner.tlvs)
  BY <1>1, HeaderDecoded
<1> HIDE DEF inner
<1>3. IsRecs(inner.tlvs) /\ Len(inner.tlvs) \in 0..Len(b.pp2.tlvs)
  BY <1>2, PrefixSmaller
<1>4. IsRecs(after)
  BY <1>3, SuffixRecs
<1> HIDE DEF after
<1>5. b.tlvLen - (16 + b.pp2.alen) \in Nat
  BY <1>2
<1>6. PICK k \in 0..Len(after) : blk.recs = SubSeq(after, 1, k)
  BY <1>4, <1>5, BlockPrefix
<1>7. era.tlvs = blk.recs /\ Clean(blk.recs)
  BY <1>1, DecodeClean
<1>8. IsRecs(era.tlvs) /\ Clean(era.tlvs)
  BY <1>4, <1>6, <1>7, PrefixSmaller
<1> HIDE DEF era, f
<1>9. f.Inner = inner /\ f.ERA = era.tlvs /\ f.err = "none" /\ f.Payload = b.pay
  BY <1>1
<1>10. Envelope(f)
  <2>1. inner.fam = b.pp2.fam /\ inner.src = b.pp2.src /\ inner.dst = b.pp2.dst
    BY <1>2
  <2>2. f.Inner = [err |-> "none", fam |-> f.Inner.fam, src |-> f.Inner.src,
                   dst |-> f.Inner.dst, tlvs |-> f.Inner.tlvs]
    BY <1>2, <1>9, <2>1, Zenon
  <2> QED BY <2>1, <2>2, <1>2, <1>3, <1>8, <1>9 DEF Envelope
<1> QED BY <1>9, <1>10 DEF f

(* The two parts of the concatenation of two sequences of records.         *)
LEMMA ConcatParts ==
    ASSUME NEW A, NEW B, IsRecs(A), IsRecs(B)
    PROVE  /\ IsRecs(A \o B) /\ Len(A) \in 0..Len(A \o B)
           /\ SubSeq(A \o B, 1, Len(A)) = A
           /\ SubSeq(A \o B, Len(A) + 1, Len(A \o B)) = B
           /\ SubSeq(B, 1, Len(B)) = B /\ Len(B) \in 0..Len(B)
<1> DEFINE S == {A[i] : i \in 1..Len(A)} \cup {B[i] : i \in 1..Len(B)}
           C == A \o B
<1>1. A \in Seq(S) /\ B \in Seq(S)
  BY SeqMonotonic DEF IsRecs
<1>2. Len(A) \in Nat /\ Len(B) \in Nat
  BY <1>1, LenProperties
<1> HIDE DEF S
<1>3. /\ C \in Seq(S) /\ Len(C) = Len(A) + Len(B)
      /\ \A i \in 1..(Len(A) + Len(B)) : C[i] = IF i <= Len(A) THEN A[i] ELSE B[i - Len(A)]
  BY <1>1, ConcatProperties
<1> HIDE DEF C
<1>4. IsRecs(C)
  <2>1. C \in Seq({C[i] : i \in 1..Len(C)})
    BY <1>3, SeqOfRange, RangeEquality
  <2>2. ASSUME NEW i \in 1..Len(C) PROVE C[i].len \in Nat
    <3>1. CASE i <= Len(A)
      <4>1. i \in 1..Len(A) /\ C[i] = A[i]
        BY <1>2, <1>3, <3>1
      <4> QED BY <4>1 DEF IsRecs
    <3>2. CASE ~(i <= Len(A))
      <4>1. i - Len(A) \in 1..Len(B) /\ C[i] = B[i - Len(A)]
        BY <1>2, <1>3, <3>2
      <4> QED BY <4>1 DEF IsRecs
    <3> QED BY <3>1, <3>2
  <2> QED BY <2>1, <2>2 DEF IsRecs
<1>5. SubSeq(C, 1, Len(A)) = A
  <2>1. Len(A) \in Int /\ 1 \in Int
    BY <1>2
  <2>2. \A i \in 1..Len(A) : C[i] \in S
    BY <1>2, <1>3, LenProperties
  <2>3. /\ SubSeq(C, 1, Len(A)) \in Seq(S)
        /\ Len(SubSeq(C, 1, Len(A))) = IF 1 <= Len(A) THEN Len(A) - 1 + 1 ELSE 0
        /\ \A i \in 1..(Len(A) - 1 + 1) : SubSeq(C, 1, Len(A))[i] = C[1 + i - 1]
    BY <2>1, <2>2, SubSeqProperties
  <2>4. /\ Len(SubSeq(C, 1, Len(A))) = Len(A)
        /\ \A i \in 1..Len(A) : SubSeq(C, 1, Len(A))[i] = A[i]
    BY <1>2, <1>3, <2>3
  <2> QED BY <1>1, <2>3, <2>4, SeqEqual
<1>6. SubSeq(C, Len(A) + 1, Len(C)) = B
  <2> DEFINE D == SubSeq(C, Len(A) + 1, Len(C))
  <2>1. Len(A) + 1 \in Int /\ Len(C) \in Int
    BY <1>2, <1>3
  <2>2. \A i \in (Len(A) + 1)..Len(C) : C[i] \in S
    BY <1>2, <1>3, LenProperties
  <2>3. /\ D \in Seq(S)
        /\ Len(D) = IF Len(A) + 1 <= Len(C) THEN Len(C) - (Len(A) + 1) + 1 ELSE 0
        /\ \A i \in 1..(Len(C) - (Len(A) + 1) + 1) : D[i] = C[Len(A) + 1 + i - 1]
    BY <2>1, <2>2, SubSeqProperties
  <2>4. Len(D) = Len(B)
    BY <1>2, <1>3, <2>3
  <2>5. ASSUME NEW i \in 1..Len(B) PROVE D[i] = B[i]
    <3>1. i \in 1..(Len(C) - (Len(A) + 1) + 1) /\ Len(A) + 1 + i - 1 = Len(A) + i
      BY <1>2, <1>3
    <3>2. D[i] = C[Len(A) + i]
      BY <2>3, <3>1
    <3>3. Len(A) + i \in 1..(Len(A) + Len(B)) /\ ~(Len(A) + i <= Len(A))
          /\ Len(A) + i - Len(A) = i
      BY <1>2
    <3> QED BY <1>3, <3>2, <3>3
  <2> QED BY <1>1, <2>3, <2>4, <2>5, SeqEqual
<1>7. SubSeq(B, 1, Len(B)) = B
  BY <1>1, SubSeqFull
<1> QED BY <1>2, <1>3, <1>4, <1>5, <1>6, <1>7 DEF C

(* A header encoded with other records after it.                           *)
LEMMA EncodedWith ==
    ASSUME NEW h, NEW u
    PROVE  LET w == [Encode(h) EXCEPT !.tlvs = u] IN
           /\ w.sig /\ w.cmd = verCmdProxy /\ w.fam = h.fam
           /\ w.alen = (AddrLen(h.fam) + Size(h.tlvs)) % U16
           /\ w.src = h.src /\ w.dst = h.dst /\ w.tlvs = u
<1> DEFINE e == Encode(h)
           w == [e EXCEPT !.tlvs = u]
<1>1. /\ e.sig /\ e.cmd = verCmdProxy /\ e.fam = h.fam
      /\ e.alen = (AddrLen(h.fam) + Size(h.tlvs)) % U16
      /\ e.src = h.src /\ e.dst = h.dst
      /\ DOMAIN e = {"sig", "cmd", "fam", "alen", "src", "dst", "tlvs"}
  BY DEF Encode
<1> HIDE DEF e
<1>2. w = [x \in DOMAIN e |-> IF x = "tlvs" THEN u ELSE e[x]]
  OBVIOUS
<1>3. /\ w.sig = e.sig /\ w.cmd = e.cmd /\ w.fam = e.fam /\ w.alen = e.alen
      /\ w.src = e.src /\ w.dst = e.dst /\ w.tlvs = u
  BY <1>1, <1>2
<1> HIDE DEF w
<1>4. w.sig
  BY <1>1, <1>3, Zenon
<1> QED BY <1>1, <1>3, <1>4 DEF e, w

(* A reply that fits decodes, at the facade, to the envelope of the        *)
(* datagram it answers: no length wraps around its 16 bits, and the header *)
(* and the ERA block are cut where they were joined.                       *)
LEMMA ReplyRoundTrip ==
    ASSUME NEW f, Envelope(f), NEW pay, pay.len \in Nat, ReplyFits(f, pay)
    PROVE  DecodeDGramFrame(ReplyFrame(f, pay)) =
              [err |-> "none", Direction |-> DirBackendToFacade,
               Inner |-> f.Inner, ERA |-> f.ERA, Payload |-> pay]
<1> DEFINE A == f.Inner.tlvs
           B == f.ERA
           al == AddrLen(f.Inner.fam)
           sA == Size(A)
           sB == Size(B)
           b == ReplyFrame(f, pay)
           w == b.pp2
<1>1. /\ IsRecs(A) /\ Clean(A) /\ IsRecs(B) /\ Clean(B) /\ f.Inner.fam \in Families
      /\ f.Inner = [err |-> "none", fam |-> f.Inner.fam, src |-> f.Inner.src,
                    dst |-> f.Inner.dst, tlvs |-> A]
  BY DEF Envelope
<1>2. sA \in Nat /\ sB \in Nat /\ al \in {12, 36}
  BY <1>1, SizeType DEF AddrLen
<1> HIDE DEF sA, sB, al
<1>3. /\ ReplySize(f, pay) = 6 + 16 + al + sA + sB + pay.len
      /\ ReplySize(f, pay) <= 65536
  BY DEF ReplySize, ReplyFits, MaxDatagramSize, DGramHeaderLen, sA, sB, al
<1>4. /\ (al + sA) % 65536 = al + sA
      /\ (ReplySize(f, pay) - pay.len - 6) % 65536 = 16 + al + sA + sB
      /\ pay.len % 65536 = pay.len
      /\ ReplySize(f, pay) \in Nat
  BY <1>2, <1>3
<1>5. /\ w.sig /\ w.cmd = verCmdProxy /\ w.fam = f.Inner.fam /\ w.alen = al + sA
      /\ w.src = f.Inner.src /\ w.dst = f.Inner.dst /\ w.tlvs = A \o B
  <2>1. w = [Encode(f.Inner) EXCEPT !.tlvs = A \o B]
    BY DEF ReplyFrame, AllTLVs
  <2>2. (AddrLen(f.Inner.fam) + Size(f.Inner.tlvs)) % U16 = al + sA
    BY <1>4 DEF U16, sA, al
  <2> HIDE DEF w
  <2> QED BY <2>1, <2>2, EncodedWith, Zenon
<1>6. /\ b.n = ReplySize(f, pay) /\ b.v = 1 /\ b.fl = 1 /\ b.pay = pay
      /\ b.tlvLen = 16 + al + sA + sB /\ b.pldLen = pay.len
  BY <1>4 DEF ReplyFrame, DirBackendToFacade, DGramHeaderLen, U16
<1> HIDE DEF b, w
<1>7. /\ IsRecs(A \o B) /\ Len(A) \in 0..Len(A \o B)
      /\ SubSeq(A \o B, 1, Len(A)) = A
      /\ SubSeq(A \o B, Len(A) + 1, Len(A \o B)) = B
      /\ SubSeq(B, 1, Len(B)) = B /\ Len(B) \in 0..Len(B)
  BY <1>1, ConcatParts
<1>8. DecodeTLVs(Block(A \o B, sA)) = [err |-> "none", tlvs |-> A]
  <2>1. Block(A \o B, Size(SubSeq(A \o B, 1, Len(A)))) =
           [recs |-> SubSeq(A \o B, 1, Len(A)), left |-> 0]
    BY <1>7, BlockExact
  <2> QED BY <1>1, <1>7, <2>1, DecodeClean DEF sA
<1>9. DecodeTLVs(Block(B, sB)) = [err |-> "none", tlvs |-> B]
  <2>1. Block(B, Size(SubSeq(B, 1, Len(B)))) = [recs |-> SubSeq(B, 1, Len(B)), left |-> 0]
    BY <1>1, <1>7, BlockExact
  <2> QED BY <1>1, <1>7, <2>1, DecodeClean DEF sB
<1>10. ReadHeaderV2WithTLVs(w, b.tlvLen) = f.Inner
  <2>1. w.alen - AddrLen(w.fam) = sA
    BY <1>2, <1>5 DEF al
  <2>2. DecodeTLVs(Block(w.tlvs, w.alen - AddrLen(w.fam))) = [err |-> "none", tlvs |-> A]
    BY <1>5, <1>8, <2>1
  <2>3. /\ ~(b.tlvLen < 16) /\ w.sig /\ w.cmd = verCmdProxy /\ w.fam \in Families
        /\ ~(b.tlvLen < 16 + w.alen) /\ ~(w.alen < AddrLen(w.fam))
    <3>1. w.sig /\ w.cmd = verCmdProxy /\ w.fam \in Families /\ w.alen = al + sA
          /\ AddrLen(w.fam) = al
      BY <1>1, <1>5 DEF al
    <3> QED BY <1>2, <1>6, <3>1
  <2>4. ReadHeaderV2WithTLVs(w, b.tlvLen) =
           [err |-> "none", fam |-> w.fam, src |-> w.src, dst |-> w.dst, tlvs |-> A]
    BY <2>2, <2>3 DEF ReadHeaderV2WithTLVs
  <2> QED BY <1>1, <1>5, <2>4
<1>11. b.tlvLen - (16 + w.alen) = sB
  BY <1>2, <1>5, <1>6
<1>12. SubSeq(w.tlvs, Len(f.Inner.tlvs) + 1, Len(w.tlvs)) = B
  BY <1>5, <1>7
<1>13. /\ ~(b.n < DGramHeaderLen) /\ b.v = 1 /\ b.fl \in {0, 1}
       /\ ~(DGramHeaderLen + b.tlvLen + b.pldLen > MaxDatagramSize)
       /\ ~(DGramHeaderLen + b.tlvLen + b.pldLen > b.n)
  BY <1>2, <1>3, <1>6 DEF DGramHeaderLen, MaxDatagramSize
<1>14. f.Inner.err = "none"
  BY <1>1
<1>15. DecodeDGramFrame(b) = [err |-> "none", Direction |-> b.fl, Inner |-> f.Inner,
                              ERA |-> B, Payload |-> b.pay]
  <2> DEFINE inner == ReadHeaderV2WithTLVs(b.pp2, b.tlvLen)
             after == SubSeq(b.pp2.tlvs, Len(inner.tlvs) + 1, Len(b.pp2.tlvs))
             era == DecodeTLVs(Block(after, b.tlvLen - (16 + b.pp2.alen)))
  <2>1. inner = f.Inner
    BY <1>10 DEF w
  <2>2. after = B
    BY <1>12, <2>1 DEF w
  <2>3. era = [err |-> "none", tlvs |-> B]
    BY <1>9, <1>11, <2>2 DEF w
  <2> HIDE DEF inner, era
  <2>4. inner.err = "none" /\ era.err = "none" /\ era.tlvs = B
    BY <1>14, <2>1, <2>3
  <2>5. DecodeDGramFrame(b) = [err |-> "none", Direction |-> b.fl, Inner |-> inner,
                               ERA |-> era.tlvs, Payload |-> b.pay]
    BY <1>13, <2>4 DEF DecodeDGramFrame, inner, era
  <2> QED BY <2>1, <2>4, <2>5
<1> QED BY <1>6, <1>15 DEF b, DirBackendToFacade

-----------------------------------------------------------------------------
(* The devices the accepted datagrams name.                                *)
Devs == {DeviceIDFromSubjectDN(FrameTLV(Frame[d], EraTLVMTLSSubjectDN)) : d \in Accepted}

(* What the handler reads of an accepted datagram is about its frame, and  *)
(* the frame is an envelope.                                               *)
LEMMA ReadIs ==
    ASSUME NEW f \in Read
    PROVE  /\ f.name \in Accepted /\ f.key \in Key /\ f.dev \in Devs
           /\ f.key = normalised(Frame[f.name])
           /\ Envelope(Frame[f.name]) /\ Frame[f.name].Payload.len \in Nat
<1>1. PICK d \in Accepted :
        f = [name |-> d, key |-> normalised(Frame[d]),
             dev |-> DeviceIDFromSubjectDN(FrameTLV(Frame[d], EraTLVMTLSSubjectDN)),
             typ |-> Frame[d].Payload.typ]
  BY DEF Read
<1>2. f.name = d /\ f.key = normalised(Frame[d]) /\ f.dev \in Devs
  BY <1>1 DEF Devs
<1>3. Envelope(Frame[d]) /\ Frame[d].Payload.len \in Nat
  <2>1. d \in DOMAIN Datagram /\ Frame[d] = DecodeDGramFrame(Datagram[d]) /\ Frame[d].err = "none"
    BY DEF Accepted, Frame
  <2>2. /\ {Datagram[d].tlvLen, Datagram[d].pp2.alen} \subseteq Nat
        /\ Datagram[d].pay.len \in Nat /\ IsRecs(Datagram[d].pp2.tlvs)
    BY <2>1, DatagramTypes DEF IsRecs
  <2> QED BY <2>1, <2>2, FrameDecoded
<1> QED BY <1>2, <1>3, KeysCover

-----------------------------------------------------------------------------
(* The inductive invariant.                                                *)
Sess == [key : Key, dev : Devs, first : Accepted, last : 0..MaxNow, reply : BOOLEAN]

Types ==
    /\ now \in 0..MaxNow
    /\ ctx \in BOOLEAN /\ closing \in BOOLEAN
    /\ socket \in {"open", "closed"} /\ (socket = "closed" => closing)
    /\ watch \in {"wait", "socket", "join", "skipped", "returned"}
    /\ owner \in {"run", "hb", "socket", "join", "table", "walker", "returned"}
    /\ stop \subseteq {"hb", "table"} /\ stalled \in BOOLEAN

SessOK ==
    /\ sess \in Seq(Sess) /\ Len(sess) <= MaxSess
    /\ \A s \in DOMAIN sess : /\ Envelope(Frame[sess[s].first])
                              /\ sess[s].key = normalised(Frame[sess[s].first])

(* A session is in the table under its key exactly while it can reply, and *)
(* one that is not has been evicted.                                       *)
TableOK ==
    /\ table \in [Key -> DOMAIN sess \cup {None}]
    /\ \A k \in Key : table[k] # None => sess[table[k]].key = k
    /\ \A s \in DOMAIN sess : Attached(s) <=> s \in InTable
    /\ \A s \in DOMAIN sess : s \in InTable \/ s \in evicted
    /\ admitted \cup evicted \subseteq DOMAIN sess

(* The receive loop works on a session of the datagram's own key, admits   *)
(* only under a free key, and owes OnAdmit to no session but its own.      *)
RecvOK ==
    /\ recv \in [pc : RecvPC, f : Read \cup {None}, s : DOMAIN sess \cup {None}]
    /\ recv.pc \notin {"read", "done"} => recv.f \in Read
    /\ recv.pc \in {"touch", "notify", "forward", "echo"} =>
          recv.s \in DOMAIN sess /\ sess[recv.s].key = recv.f.key
    /\ recv.pc \in {"resolve", "admit"} => table[recv.f.key] = None /\ Len(sess) < MaxSess
    /\ \A s \in DOMAIN sess : s \in admitted \/ (recv.pc = "notify" /\ recv.s = s)

HbOK ==
    /\ hb \in [pc : {"wait", "load", "send", "done"}, snap : SUBSET DOMAIN sess,
               todo : SUBSET DOMAIN sess, cur : DOMAIN sess \cup {None},
               told : SUBSET DOMAIN sess]
    /\ hb.pc \in {"wait", "done"} => hb.snap = {}
    /\ hb.pc = "load" => hb.cur = None
    /\ hb.pc = "send" => hb.cur \in DOMAIN sess
    /\ SweepCoversLive

(* A pass works with a deadline at least IdleTimeout ago.  While it holds  *)
(* the lock the sessions it has yet to look at stay in the table, the one  *)
(* session that may be touched is the one looked up before, and the one it *)
(* is about to evict has been silent since the deadline or is that one.    *)
WalkPC == {"wait", "lock", "pass", "evict", "done"}

WalkOK ==
    /\ walk \in [pc : WalkPC, dl : 0..MaxNow, todo : SUBSET DOMAIN sess,
                 cur : DOMAIN sess \cup {None}, got : SUBSET DOMAIN sess]
    /\ walk.pc \in {"lock", "pass", "evict"} => walk.dl + IdleTimeout <= now
    /\ ~TableFree => /\ walk.todo \subseteq InTable
                     /\ recv.pc = "touch" => walk.got = {recv.s}
    /\ walk.pc = "evict" =>
          /\ walk.cur \in InTable /\ walk.cur \notin walk.todo
          /\ sess[walk.cur].last < walk.dl \/ walk.got = {walk.cur}

(* One of the two callers of DatagramListener.Close set closing; only that *)
(* one waits for the receive loop.                                         *)
Closers ==
    /\ owner \in {"socket", "join", "table", "walker", "returned"} => hb.pc = "done" /\ closing
    /\ watch \in {"socket", "join", "skipped", "returned"} => closing
    /\ owner \in {"run", "hb"} /\ closing => watch \in {"socket", "join", "returned"}
    /\ owner \in {"socket", "join"} => watch \in {"wait", "skipped"}
    /\ owner \in {"table", "walker", "returned"} /\ watch \in {"wait", "skipped"} =>
          recv.pc = "done"
    /\ owner = "returned" => walk.pc = "done"
    /\ owner = "returned" /\ watch \in {"wait", "skipped"} => InTable = {}

IInv == Types /\ SessOK /\ TableOK /\ RecvOK /\ HbOK /\ WalkOK /\ Closers

(* The sessions are numbered, and None is no session.                      *)
LEMMA Basics ==
    ASSUME SessOK, TableOK
    PROVE  /\ DOMAIN sess = 1..Len(sess) /\ Len(sess) \in Nat
           /\ None \notin DOMAIN sess
           /\ InTable \subseteq DOMAIN sess
           /\ \A s \in DOMAIN sess : sess[s] \in Sess
           /\ \A s : s \in InTable <=> s # None /\ \E k \in Key : table[k] = s
<1>1. /\ DOMAIN sess = 1..Len(sess) /\ Len(sess) \in Nat
      /\ \A s \in DOMAIN sess : sess[s] \in Sess
  BY LenProperties DEF SessOK
<1>2. None \notin DOMAIN sess
  BY <1>1, BoundTypes
<1>3. \A s : s \in InTable <=> s # None /\ \E k \in Key : table[k] = s
  BY DEF InTable
<1>4. InTable \subseteq DOMAIN sess
  BY <1>3 DEF TableOK
<1> QED BY <1>1, <1>2, <1>3, <1>4

(* A session updated in place.                                             *)
LEMMA SessUpdated ==
    ASSUME NEW r \in Sess
    PROVE  /\ [r EXCEPT !.reply = FALSE] \in Sess
           /\ [r EXCEPT !.reply = FALSE].key = r.key
           /\ [r EXCEPT !.reply = FALSE].first = r.first
           /\ [r EXCEPT !.reply = FALSE].reply = FALSE
           /\ \A t \in 0..MaxNow :
                 /\ [r EXCEPT !.last = t] \in Sess
                 /\ [r EXCEPT !.last = t].key = r.key
                 /\ [r EXCEPT !.last = t].first = r.first
                 /\ [r EXCEPT !.last = t].reply = r.reply
BY DEF Sess

(* A function on the numbers of the sessions into sessions is a sequence   *)
(* of as many.                                                             *)
LEMMA SessSeq ==
    ASSUME NEW n \in Nat, NEW q, q = [i \in 1..n |-> q[i]], \A i \in 1..n : q[i] \in Sess
    PROVE  q \in Seq(Sess) /\ Len(q) = n /\ DOMAIN q = 1..n
OBVIOUS

(* Remove: the sessions taken out of the table lose their closure and are  *)
(* recorded as evicted; the others keep everything.                        *)
LEMMA RemoveKeeps ==
    ASSUME IInv, NEW S \in SUBSET InTable, Remove(S), UNCHANGED admitted
    PROVE  /\ SessOK' /\ TableOK'
           /\ InTable' = InTable \ S
           /\ DOMAIN sess' = DOMAIN sess /\ Len(sess') = Len(sess)
           /\ \A s \in DOMAIN sess : sess'[s].key = sess[s].key
           /\ \A k \in Key : table[k] = None => table'[k] = None
<1> USE DEF IInv
<1>0. /\ DOMAIN sess = 1..Len(sess) /\ Len(sess) \in Nat
      /\ None \notin DOMAIN sess
      /\ InTable \subseteq DOMAIN sess
      /\ \A s \in DOMAIN sess : sess[s] \in Sess
      /\ \A s : s \in InTable <=> s # None /\ \E k \in Key : table[k] = s
  BY Basics
<1>1. /\ table' = [k \in Key |-> IF table[k] \in S THEN None ELSE table[k]]
      /\ sess' = [s \in DOMAIN sess |->
                    IF s \in S THEN [sess[s] EXCEPT !.reply = FALSE] ELSE sess[s]]
      /\ evicted' = evicted \cup S
  BY DEF Remove
<1>2. ASSUME NEW s \in DOMAIN sess
      PROVE  /\ sess'[s] \in Sess /\ sess'[s].key = sess[s].key
             /\ sess'[s].first = sess[s].first
             /\ s \in S => sess'[s].reply = FALSE
             /\ s \notin S => sess'[s] = sess[s]
  BY <1>0, <1>1, SessUpdated
<1>3. sess' \in Seq(Sess) /\ Len(sess') = Len(sess) /\ DOMAIN sess' = DOMAIN sess
  <2>1. sess' = [i \in 1..Len(sess) |-> sess'[i]]
    BY <1>0, <1>1
  <2> QED BY <1>0, <1>2, <2>1, SessSeq
<1>4. SessOK'
  BY <1>2, <1>3 DEF SessOK
<1>5. InTable' = InTable \ S
  <2>1. \A s : s \in InTable' <=> s # None /\ \E k \in Key : table'[k] = s
    BY DEF InTable
  <2>2. \A k \in Key : table'[k] = IF table[k] \in S THEN None ELSE table[k]
    BY <1>1
  <2>3. ASSUME NEW s PROVE s \in InTable' <=> s \in InTable /\ s \notin S
    BY <1>0, <2>1, <2>2
  <2> QED BY <2>3
<1>6. TableOK'
  <2>1. table' \in [Key -> DOMAIN sess' \cup {None}]
    BY <1>1, <1>3 DEF TableOK
  <2>2. ASSUME NEW k \in Key, table'[k] # None PROVE sess'[table'[k]].key = k
    <3>1. table'[k] = table[k] /\ table[k] # None
      BY <1>1, <2>2
    <3>2. table[k] \in DOMAIN sess /\ sess[table[k]].key = k
      BY <3>1 DEF TableOK
    <3> QED BY <1>2, <3>1, <3>2
  <2>3. ASSUME NEW s \in DOMAIN sess' PROVE sess'[s].reply <=> s \in InTable'
    <3>1. s \in DOMAIN sess /\ (sess[s].reply <=> s \in InTable)
      BY <1>3, <2>3 DEF TableOK, Attached
    <3>2. CASE s \in S
      BY <1>2, <1>5, <3>1, <3>2
    <3>3. CASE s \notin S
      <4>1. sess'[s] = sess[s]
        BY <1>2, <3>1, <3>3
      <4> QED BY <1>5, <3>1, <3>3, <4>1, Zenon
    <3> QED BY <3>2, <3>3
  <2>4. \A s \in DOMAIN sess' : s \in InTable' \/ s \in evicted'
    BY <1>1, <1>3, <1>5 DEF TableOK
  <2>5. admitted' \cup evicted' \subseteq DOMAIN sess'
    BY <1>0, <1>1, <1>3 DEF TableOK
  <2> QED BY <2>1, <2>2, <2>3, <2>4, <2>5 DEF TableOK, Attached
<1>7. \A k \in Key : table[k] = None => table'[k] = None
  BY <1>1
<1> QED BY <1>2, <1>3, <1>4, <1>5, <1>6, <1>7

(* A sweep in progress is undisturbed by what adds sessions or evicts.     *)
LEMMA HbKept ==
    ASSUME IInv, UNCHANGED hb, DOMAIN sess \subseteq DOMAIN sess',
           InTable' \cap DOMAIN sess \subseteq InTable
    PROVE  HbOK'
BY DEF IInv, HbOK, SweepCoversLive

(* The receive loop is undisturbed by what evicts or touches.              *)
LEMMA RecvKept ==
    ASSUME IInv, UNCHANGED <<recv, admitted>>,
           DOMAIN sess' = DOMAIN sess, Len(sess') = Len(sess),
           \A s \in DOMAIN sess : sess'[s].key = sess[s].key,
           \A k \in Key : table[k] = None => table'[k] = None
    PROVE  RecvOK'
<1>1. recv.pc \in {"resolve", "admit"} => table'[recv.f.key] = None /\ Len(sess) < MaxSess
  <2> SUFFICES ASSUME recv.pc \in {"resolve", "admit"}
               PROVE  table'[recv.f.key] = None /\ Len(sess) < MaxSess
    OBVIOUS
  <2>1. recv.f \in Read /\ table[recv.f.key] = None /\ Len(sess) < MaxSess
    BY DEF IInv, RecvOK
  <2>2. recv.f.key \in Key
    BY <2>1, ReadIs
  <2> QED BY <2>1, <2>2
<1> QED BY <1>1 DEF IInv, RecvOK

(* Nothing of the shutdown changes, and no goroutine that has returned     *)
(* comes back.                                                             *)
LEMMA ClosersKept ==
    ASSUME Closers, UNCHANGED <<closing, watch, owner>>,
           hb.pc = "done" => hb'.pc = "done", recv.pc = "done" => recv'.pc = "done",
           walk.pc = "done" => walk'.pc = "done",
           recv.pc = "done" /\ InTable = {} => InTable' = {}
    PROVE  Closers'
BY DEF Closers

(* A pass that holds the lock is undisturbed: nobody else changes the      *)
(* table, and only the session looked up before is touched.                *)
LEMMA WalkKept ==
    ASSUME IInv, UNCHANGED <<walk, now>>, DOMAIN sess \subseteq DOMAIN sess',
           ~TableFree => /\ InTable' = InTable
                         /\ recv'.pc = "touch" => recv.pc = "touch" /\ recv'.s = recv.s
                         /\ \A s \in DOMAIN sess :
                               sess'[s].last = sess[s].last \/ walk.got = {s}
    PROVE  WalkOK'
<1>1. TableFree' = TableFree
  BY DEF TableFree
<1>2. walk.pc = "evict" => ~TableFree /\ InTable \subseteq DOMAIN sess
  BY Basics DEF TableFree, IInv
<1>3. walk' \in [pc : WalkPC, dl : 0..MaxNow, todo : SUBSET DOMAIN sess',
                 cur : DOMAIN sess' \cup {None}, got : SUBSET DOMAIN sess']
  BY DEF IInv, WalkOK
<1>4. ~TableFree' => /\ walk'.todo \subseteq InTable'
                     /\ recv'.pc = "touch" => walk'.got = {recv'.s}
  BY <1>1 DEF IInv, WalkOK
<1>5. walk'.pc = "evict" =>
        /\ walk'.cur \in InTable' /\ walk'.cur \notin walk'.todo
        /\ sess'[walk'.cur].last < walk'.dl \/ walk'.got = {walk'.cur}
  BY <1>2 DEF IInv, WalkOK
<1> QED BY <1>3, <1>4, <1>5 DEF IInv, WalkOK

-----------------------------------------------------------------------------
(* At the start there is no session and nothing is closing.                *)
LEMMA InitIInv == Init => IInv
<1> SUFFICES ASSUME Init PROVE IInv
  OBVIOUS
<1> USE DEF Init
<1>1. DOMAIN sess = {} /\ Len(sess) = 0 /\ sess \in Seq(Sess)
  OBVIOUS
<1>2. Types
  <2>1. now \in 0..MaxNow
    BY BoundTypes
  <2>2. ctx \in BOOLEAN /\ closing \in BOOLEAN /\ stop \subseteq {"hb", "table"}
        /\ stalled \in BOOLEAN
    OBVIOUS
  <2> QED BY <2>1, <2>2 DEF Types
<1>3. SessOK
  BY <1>1, BoundTypes DEF SessOK
<1>4. InTable = {}
  BY DEF InTable
<1>5. TableOK
  BY <1>1, <1>4 DEF TableOK
<1>6. RecvOK
  BY <1>1 DEF RecvOK, Idle, RecvPC
<1>7. HbOK
  BY <1>1 DEF HbOK, Asleep, SweepCoversLive
<1>8. WalkOK
  BY BoundTypes DEF WalkOK, WalkPC, NoPass, TableFree
<1>9. Closers
  BY <1>4 DEF Closers
<1> QED BY <1>2, <1>3, <1>5, <1>6, <1>7, <1>8, <1>9 DEF IInv

(* A step that changes nothing.                                            *)
LEMMA StutterKeeps ==
    ASSUME IInv, UNCHANGED vars
    PROVE  IInv'
<1> USE DEF vars
<1>1. InTable' = InTable /\ \A s : Attached(s)' = Attached(s)
  BY Zenon DEF InTable, Attached
<1>2. Types' /\ SessOK'
  BY DEF IInv, Types, SessOK
<1>2a. WalkOK'
  BY <1>1, WalkKept
<1>3. TableOK'
  BY <1>1, Zenon DEF IInv, TableOK
<1>4. RecvOK' /\ HbOK' /\ Closers'
  BY <1>1 DEF IInv, RecvOK, HbOK, SweepCoversLive, Closers
<1> QED BY <1>2, <1>2a, <1>3, <1>4 DEF IInv

(* The receive loop's steps that leave the sessions alone.                 *)
LEMMA RecvStepKeeps ==
    ASSUME IInv, NEW pc \in RecvPC, NEW f \in Read \cup {None},
           NEW s \in DOMAIN sess \cup {None}, SetRecv(pc, f, s),
           pc \notin {"read", "done"} => f \in Read,
           pc \in {"touch", "notify", "forward", "echo"} =>
              s \in DOMAIN sess /\ sess[s].key = f.key,
           pc \in {"resolve", "admit"} => table[f.key] = None /\ Len(sess) < MaxSess,
           admitted' = admitted \cup {x \in {recv.s} : recv.pc = "notify"},
           pc # "notify", recv.pc # "done", pc = "touch" => TableFree,
           UNCHANGED <<now, net, table, sess, hb, walk, evicted>>
    PROVE  IInv'
<1>1. Types' /\ SessOK'
  BY DEF IInv, Types, SessOK, net
<1>2. InTable' = InTable /\ DOMAIN sess' = DOMAIN sess
  BY DEF InTable
<1>2a. WalkOK'
  <2>1. recv'.pc = pc
    BY DEF SetRecv
  <2> QED BY <1>2, <2>1, WalkKept
<1>3. recv.pc = "notify" => recv.s \in DOMAIN sess
  BY DEF IInv, RecvOK
<1>4. TableOK'
  <2>1. admitted' \cup evicted' \subseteq DOMAIN sess'
    BY <1>2, <1>3 DEF IInv, TableOK
  <2>2. \A x \in DOMAIN sess' : Attached(x)' <=> x \in InTable'
    BY <1>2, Zenon DEF IInv, TableOK, Attached
  <2> QED BY <1>2, <2>1, <2>2 DEF IInv, TableOK
<1>5. recv'.pc = pc /\ recv'.f = f /\ recv'.s = s
  BY DEF SetRecv
<1>6. RecvOK'
  <2>1. recv' \in [pc : RecvPC, f : Read \cup {None}, s : DOMAIN sess \cup {None}]
    BY DEF SetRecv
  <2>2. \A x \in DOMAIN sess : x \in admitted'
    BY DEF IInv, RecvOK
  <2> QED BY <1>2, <1>5, <2>1, <2>2 DEF RecvOK
<1>7. HbOK'
  BY <1>2, HbKept
<1>8. Closers'
  BY <1>2, ClosersKept DEF IInv, net
<1> QED BY <1>1, <1>2a, <1>4, <1>6, <1>7, <1>8 DEF IInv

(* Get: the session found is the datagram's own, or the key is free.       *)
LEMMA HandleKeeps ==
    ASSUME IInv, NEW f \in Read, Handle(f)
    PROVE  IInv'
<1>1. /\ recv.pc = "read" /\ f.key \in Key /\ TableFree
      /\ UNCHANGED <<now, net, table, sess, hb, walk, admitted, evicted>>
  BY ReadIs DEF Handle
<1>2. CASE table[f.key] # None
  <2>1. table[f.key] \in DOMAIN sess /\ sess[table[f.key]].key = f.key
    BY <1>1, <1>2 DEF IInv, TableOK
  <2>2. SetRecv("touch", f, table[f.key])
    BY <1>2 DEF Handle
  <2> QED BY <1>1, <2>1, <2>2, RecvStepKeeps DEF RecvPC
<1>3. CASE table[f.key] = None /\ SetRecv("resolve", f, None) /\ Len(sess) < MaxSess
  BY <1>1, <1>3, RecvStepKeeps DEF RecvPC
<1>4. CASE table[f.key] = None /\ UNCHANGED recv
  <2>1. UNCHANGED vars
    BY <1>1, <1>4 DEF vars, net
  <2> QED BY <2>1, StutterKeeps
<1> QED BY <1>2, <1>3, <1>4 DEF Handle

(* Resolved, OnAdmit, Echo and RecvReturns.                                *)
LEMMA RecvMovesKeep ==
    ASSUME IInv, Resolved \/ OnAdmit \/ Echo \/ RecvReturns
    PROVE  IInv'
<1>0. UNCHANGED <<now, net, table, sess, hb, walk, evicted>> /\ None \in Read \cup {None}
  BY DEF Resolved, OnAdmit, Echo, RecvReturns
<1>1. CASE Resolved
  <2>1. recv.pc = "resolve" /\ recv.f \in Read /\ table[recv.f.key] = None
        /\ Len(sess) < MaxSess /\ admitted' = admitted
    BY <1>1 DEF Resolved, IInv, RecvOK
  <2>2. CASE SetRecv("admit", recv.f, None)
    BY <1>0, <2>1, <2>2, RecvStepKeeps DEF RecvPC
  <2>3. CASE recv' = Idle
    <3>1. SetRecv("read", None, None)
      BY <2>3 DEF SetRecv, Idle
    <3> QED BY <1>0, <2>1, <3>1, RecvStepKeeps DEF RecvPC
  <2> QED BY <1>1, <2>2, <2>3 DEF Resolved
<1>2. CASE OnAdmit
  <2>1. /\ recv.pc = "notify" /\ recv.f \in Read /\ recv.s \in DOMAIN sess
        /\ sess[recv.s].key = recv.f.key /\ admitted' = admitted \cup {recv.s}
        /\ SetRecv("forward", recv.f, recv.s)
    BY <1>2 DEF OnAdmit, IInv, RecvOK
  <2> QED BY <1>0, <2>1, RecvStepKeeps DEF RecvPC
<1>3. CASE Echo
  <2>1. recv.pc = "echo" /\ SetRecv("read", None, None) /\ admitted' = admitted
    BY <1>3 DEF Echo, SetRecv, Idle
  <2> QED BY <1>0, <2>1, RecvStepKeeps DEF RecvPC
<1>4. CASE RecvReturns
  <2>1. recv.pc = "read" /\ SetRecv("done", None, None) /\ admitted' = admitted
    BY <1>4 DEF RecvReturns
  <2> QED BY <1>0, <2>1, RecvStepKeeps DEF RecvPC
<1> QED BY <1>1, <1>2, <1>3, <1>4

(* Touch: the session at hand, in the table or not, gets a new time.       *)
LEMMA TouchKeeps ==
    ASSUME IInv, Touch
    PROVE  IInv'
<1>0. /\ DOMAIN sess = 1..Len(sess) /\ Len(sess) \in Nat
      /\ \A s \in DOMAIN sess : sess[s] \in Sess
  BY Basics DEF IInv
<1>1. /\ recv.pc = "touch" /\ recv.f \in Read /\ recv.s \in DOMAIN sess
      /\ sess[recv.s].key = recv.f.key
      /\ sess' = [sess EXCEPT ![recv.s] = [sess[recv.s] EXCEPT !.last = now]]
      /\ recv' = [pc |-> "forward", f |-> recv.f, s |-> recv.s]
      /\ UNCHANGED <<now, net, table, hb, walk, admitted, evicted>>
  BY DEF Touch, SetRecv, IInv, RecvOK
<1>2. now \in 0..MaxNow
  BY DEF IInv, Types
<1>3. ASSUME NEW s \in DOMAIN sess
      PROVE  /\ sess'[s] \in Sess /\ sess'[s].key = sess[s].key
             /\ sess'[s].first = sess[s].first /\ sess'[s].reply = sess[s].reply
  <2>1. CASE s = recv.s
    <3>1. sess'[s] = [sess[s] EXCEPT !.last = now] /\ sess[s] \in Sess
      BY <1>0, <1>1, <2>1
    <3> QED BY <1>2, <3>1, SessUpdated
  <2>2. CASE s # recv.s
    <3>1. sess'[s] = sess[s]
      BY <1>0, <1>1, <2>2
    <3> QED BY <1>0, <3>1, Zenon
  <2> QED BY <2>1, <2>2
<1>4. sess' \in Seq(Sess) /\ Len(sess') = Len(sess) /\ DOMAIN sess' = DOMAIN sess
  <2>1. sess' = [i \in 1..Len(sess) |-> sess'[i]]
    BY <1>0, <1>1
  <2> QED BY <1>0, <1>3, <2>1, SessSeq
<1>5. InTable' = InTable
  BY <1>1 DEF InTable
<1>6. Types'
  BY <1>1 DEF IInv, Types, net
<1>6a. WalkOK'
  <2>1. ~TableFree => walk.got = {recv.s}
    BY <1>1 DEF IInv, WalkOK
  <2>2. \A s \in DOMAIN sess : s # recv.s => sess'[s] = sess[s]
    BY <1>0, <1>1
  <2>3. \A s \in DOMAIN sess : s # recv.s => sess'[s].last = sess[s].last
    BY <2>2
  <2>4. recv'.pc # "touch"
    BY <1>1
  <2> QED BY <1>1, <1>4, <1>5, <2>1, <2>3, <2>4, WalkKept
<1>7. SessOK'
  BY <1>3, <1>4 DEF IInv, SessOK
<1>8. TableOK'
  <2>1. \A x \in DOMAIN sess' : Attached(x)' <=> x \in InTable'
    <3> TAKE x \in DOMAIN sess'
    <3>1. x \in DOMAIN sess /\ sess'[x].reply = sess[x].reply
      BY <1>3, <1>4
    <3>2. sess[x].reply <=> x \in InTable
      BY <3>1 DEF IInv, TableOK, Attached
    <3> QED BY <1>5, <3>1, <3>2, Zenon DEF Attached
  <2>2. \A k \in Key : table'[k] # None => sess'[table'[k]].key = k
    BY <1>1, <1>3 DEF IInv, TableOK
  <2> QED BY <1>1, <1>4, <1>5, <2>1, <2>2 DEF IInv, TableOK
<1>9. RecvOK'
  BY <1>1, <1>3, <1>4 DEF IInv, RecvOK, RecvPC
<1>10. HbOK'
  BY <1>1, <1>4, <1>5, HbKept
<1>11. Closers'
  BY <1>1, <1>5, ClosersKept DEF IInv, net
<1> QED BY <1>6, <1>6a, <1>7, <1>8, <1>9, <1>10, <1>11 DEF IInv

(* LoadOrCreate: the key is free, so the new session displaces none.       *)
LEMMA LoadOrCreateKeeps ==
    ASSUME IInv, LoadOrCreate
    PROVE  IInv' /\ InTable \subseteq InTable'
<1> DEFINE n == Len(sess) + 1
           r == newSession(recv.f)
<1>0. /\ DOMAIN sess = 1..Len(sess) /\ Len(sess) \in Nat
      /\ None \notin DOMAIN sess /\ InTable \subseteq DOMAIN sess
      /\ \A s \in DOMAIN sess : sess[s] \in Sess
      /\ \A s : s \in InTable <=> s # None /\ \E k \in Key : table[k] = s
  BY Basics DEF IInv
<1>1. /\ recv.pc = "admit" /\ TableFree /\ recv.f \in Read /\ table[recv.f.key] = None
      /\ Len(sess) < MaxSess
      /\ sess' = Append(sess, r) /\ table' = [table EXCEPT ![recv.f.key] = n]
      /\ recv' = [pc |-> "notify", f |-> recv.f, s |-> n]
      /\ UNCHANGED <<now, net, hb, walk, admitted, evicted>>
  BY DEF LoadOrCreate, SetRecv, IInv, RecvOK
<1>2. /\ recv.f.name \in Accepted /\ recv.f.key \in Key /\ recv.f.dev \in Devs
      /\ recv.f.key = normalised(Frame[recv.f.name]) /\ Envelope(Frame[recv.f.name])
  BY <1>1, ReadIs
<1>3. r \in Sess /\ r.key = recv.f.key /\ r.first = recv.f.name /\ r.reply = TRUE
  BY <1>2 DEF newSession, Sess, IInv, Types
<1> HIDE DEF r
<1>4. /\ sess' \in Seq(Sess) /\ Len(sess') = n /\ DOMAIN sess' = 1..n
      /\ \A s \in DOMAIN sess : sess'[s] = sess[s]
      /\ sess'[n] = r
  <2>1. sess \in Seq(Sess)
    BY DEF IInv, SessOK
  <2> QED BY <1>0, <1>1, <1>3, <2>1
<1>5. /\ n \in DOMAIN sess' /\ n \notin DOMAIN sess /\ n # None
      /\ DOMAIN sess' = DOMAIN sess \cup {n} /\ n <= MaxSess
  BY <1>0, <1>1, <1>4, BoundTypes
<1> HIDE DEF n
<1>6. /\ table' \in [Key -> DOMAIN sess' \cup {None}] /\ table'[recv.f.key] = n
      /\ \A k \in Key : k # recv.f.key => table'[k] = table[k]
  BY <1>1, <1>2, <1>5 DEF IInv, TableOK
<1>7. InTable' = InTable \cup {n}
  <2>1. \A s : s \in InTable' <=> s # None /\ \E k \in Key : table'[k] = s
    BY DEF InTable
  <2>2. ASSUME NEW s PROVE s \in InTable' <=> s \in InTable \/ s = n
    BY <1>0, <1>1, <1>2, <1>5, <1>6, <2>1
  <2> QED BY <2>2
<1>8. Types' /\ WalkOK'
  <2>1. DOMAIN sess \subseteq DOMAIN sess'
    BY <1>5
  <2> QED BY <1>1, <2>1, WalkKept DEF IInv, Types, net
<1>9. SessOK'
  BY <1>2, <1>3, <1>4, <1>5 DEF IInv, SessOK
<1>10. TableOK'
  <2>1. \A x \in DOMAIN sess' : Attached(x)' <=> x \in InTable'
    <3> TAKE x \in DOMAIN sess'
    <3>1. CASE x = n
      BY <1>3, <1>4, <1>7, <3>1 DEF Attached
    <3>2. CASE x # n
      <4>1. x \in DOMAIN sess /\ sess'[x] = sess[x] /\ (x \in InTable' <=> x \in InTable)
        BY <1>4, <1>5, <1>7, <3>2
      <4>2. sess[x].reply <=> x \in InTable
        BY <4>1 DEF IInv, TableOK, Attached
      <4> QED BY <4>1, <4>2, Zenon DEF Attached
    <3> QED BY <3>1, <3>2
  <2>2. \A k \in Key : table'[k] # None => sess'[table'[k]].key = k
    <3> TAKE k \in Key
    <3>1. CASE k = recv.f.key
      BY <1>3, <1>4, <1>6, <3>1
    <3>2. CASE k # recv.f.key
      BY <1>4, <1>6, <3>2 DEF IInv, TableOK
    <3> QED BY <3>1, <3>2
  <2>3. /\ \A x \in DOMAIN sess' : x \in InTable' \/ x \in evicted'
        /\ admitted' \cup evicted' \subseteq DOMAIN sess'
    BY <1>1, <1>5, <1>7 DEF IInv, TableOK
  <2> QED BY <1>6, <2>1, <2>2, <2>3 DEF TableOK
<1>11. RecvOK'
  <2>1. recv' \in [pc : RecvPC, f : Read \cup {None}, s : DOMAIN sess' \cup {None}]
    BY <1>1, <1>5 DEF RecvPC
  <2>2. \A s \in DOMAIN sess' : s \in admitted' \/ (recv'.pc = "notify" /\ recv'.s = s)
    BY <1>1, <1>5 DEF IInv, RecvOK
  <2> QED BY <1>1, <1>3, <1>4, <1>5, <2>1, <2>2 DEF RecvOK
<1>12. HbOK'
  <2>1. InTable' \cap DOMAIN sess \subseteq InTable /\ DOMAIN sess \subseteq DOMAIN sess'
    BY <1>5, <1>7
  <2> QED BY <1>1, <2>1, HbKept
<1>13. Closers'
  BY <1>1, ClosersKept DEF IInv, net
<1> QED BY <1>7, <1>8, <1>9, <1>10, <1>11, <1>12, <1>13 DEF IInv

(* forwardPacket: a disconnect evicts the session of its own key, any      *)
(* other datagram none.                                                    *)
LEMMA ForwardKeeps ==
    ASSUME IInv, Forward
    PROVE  /\ IInv'
           /\ \A s \in InTable \ InTable' :
                 recv.f.typ = "disconnect" /\ recv.f.key = sess[s].key
<1>1. /\ recv.pc = "forward" /\ recv.f \in Read /\ recv.s \in DOMAIN sess
      /\ sess[recv.s].key = recv.f.key
      /\ UNCHANGED <<now, net, hb, walk, admitted>>
  BY DEF Forward, IInv, RecvOK
<1>2. None \in Read \cup {None} /\ None \in DOMAIN sess \cup {None}
  OBVIOUS
<1>3. CASE UNCHANGED <<table, sess, evicted>> /\ (SetRecv("echo", recv.f, recv.s) \/ recv' = Idle)
  <2>1. InTable' = InTable
    BY <1>3 DEF InTable
  <2>2. CASE SetRecv("echo", recv.f, recv.s)
    BY <1>1, <1>3, <2>1, <2>2, RecvStepKeeps DEF RecvPC
  <2>3. CASE recv' = Idle
    <3>1. SetRecv("read", None, None)
      BY <2>3 DEF SetRecv, Idle
    <3> QED BY <1>1, <1>2, <1>3, <2>1, <3>1, RecvStepKeeps DEF RecvPC
  <2> QED BY <1>3, <2>2, <2>3
<1>4. CASE /\ recv.f.typ = "disconnect" /\ TableFree
           /\ RemoveByKey(sess[recv.s].key) /\ recv' = Idle
  <2> DEFINE S == {table[recv.f.key]} \ {None}
  <2>1. Remove(S)
    BY <1>1, <1>4 DEF RemoveByKey
  <2>2. recv.f.key \in Key
    BY <1>1, ReadIs
  <2>3. S \in SUBSET InTable
    BY <2>2 DEF InTable
  <2>4. \A s \in S : sess[s].key = recv.f.key
    BY <2>2 DEF IInv, TableOK
  <2> HIDE DEF S
  <2>5. /\ SessOK' /\ TableOK' /\ InTable' = InTable \ S /\ DOMAIN sess' = DOMAIN sess
    BY <1>1, <2>1, <2>3, RemoveKeeps
  <2>6. recv' = [pc |-> "read", f |-> None, s |-> None]
    BY <1>4 DEF Idle
  <2>7. Types' /\ WalkOK'
    <3>1. DOMAIN sess \subseteq DOMAIN sess'
      BY <2>5
    <3> QED BY <1>1, <1>4, <3>1, WalkKept DEF IInv, Types, net
  <2>8. RecvOK'
    <3>1. recv' \in [pc : RecvPC, f : Read \cup {None}, s : DOMAIN sess' \cup {None}]
      BY <2>6 DEF RecvPC
    <3>2. \A s \in DOMAIN sess : s \in admitted
      BY <1>1 DEF IInv, RecvOK
    <3> QED BY <1>1, <2>5, <2>6, <3>1, <3>2 DEF RecvOK
  <2>9. HbOK'
    <3>1. InTable' \cap DOMAIN sess \subseteq InTable /\ DOMAIN sess \subseteq DOMAIN sess'
      BY <2>5
    <3> QED BY <1>1, <3>1, HbKept
  <2>10. Closers'
    BY <1>1, <2>5, ClosersKept DEF IInv, net
  <2>11. IInv'
    BY <2>5, <2>7, <2>8, <2>9, <2>10 DEF IInv
  <2> QED BY <1>4, <2>4, <2>5, <2>11
<1> QED BY <1>3, <1>4 DEF Forward

(* The steps of the heartbeat: only a session that is not in the table is  *)
(* passed over.                                                            *)
LEMMA HbKeeps ==
    ASSUME IInv, HbSnapshot \/ HbStep \/ HbReturns
    PROVE  IInv'
<1> DEFINE D == DOMAIN sess
           T == [pc : {"wait", "load", "send", "done"}, snap : SUBSET D,
                 todo : SUBSET D, cur : D \cup {None}, told : SUBSET D]
<1>0. /\ UNCHANGED <<now, net, table, sess, recv, walk, admitted, evicted>>
      /\ hb.pc # "done"
  BY DEF HbSnapshot, HbStep, HbReturns, HbLoad, HbSend, HbSwept
<1>1. InTable' = InTable /\ InTable \subseteq D /\ None \notin D
  BY <1>0, Basics DEF InTable, IInv
<1>2. Types' /\ SessOK' /\ WalkOK' /\ RecvOK'
  <2>1. WalkOK'
    BY <1>0, <1>1, WalkKept
  <2> QED BY <1>0, <2>1 DEF IInv, Types, SessOK, RecvOK, net
<1>3. TableOK'
  <2>1. \A x \in DOMAIN sess' : Attached(x)' <=> x \in InTable'
    BY <1>0, <1>1, Zenon DEF IInv, TableOK, Attached
  <2> QED BY <1>0, <1>1, <2>1 DEF IInv, TableOK
<1>4. Closers'
  BY <1>0, <1>1, ClosersKept DEF IInv, net
<1>5. hb \in T /\ SweepCoversLive
  BY DEF IInv, HbOK
<1>6. HbOK'
  <2>1. CASE HbSnapshot
    <3>1. hb' = [pc |-> "load", snap |-> InTable, todo |-> InTable, cur |-> None, told |-> {}]
      BY <2>1 DEF HbSnapshot, Asleep
    <3> QED BY <1>0, <1>1, <3>1 DEF HbOK, SweepCoversLive
  <2>2. ASSUME NEW s \in hb.todo, HbLoad(s) PROVE HbOK'
    <3>1. hb.pc = "load" /\ hb.cur = None /\ s \in D
      BY <1>5, <2>2 DEF HbLoad, IInv, HbOK
    <3>2. CASE sess[s].reply
      <4>1. hb' = [hb EXCEPT !.pc = "send", !.todo = hb.todo \ {s}, !.cur = s, !.told = hb.told]
        BY <2>2, <3>2 DEF HbLoad, SetHb, Attached
      <4>2. /\ hb'.pc = "send" /\ hb'.snap = hb.snap /\ hb'.todo = hb.todo \ {s}
            /\ hb'.cur = s /\ hb'.told = hb.told /\ hb' \in T
        BY <1>5, <3>1, <4>1
      <4> QED BY <1>0, <1>1, <1>5, <3>1, <4>2 DEF HbOK, SweepCoversLive
    <3>3. CASE ~sess[s].reply
      <4>1. hb' = [hb EXCEPT !.pc = "load", !.todo = hb.todo \ {s}, !.cur = None,
                             !.told = hb.told]
        BY <2>2, <3>3 DEF HbLoad, SetHb, Attached
      <4>2. /\ hb'.pc = "load" /\ hb'.snap = hb.snap /\ hb'.todo = hb.todo \ {s}
            /\ hb'.cur = None /\ hb'.told = hb.told /\ hb' \in T
        BY <1>5, <3>1, <4>1
      <4>3. s \notin InTable
        BY <3>1, <3>3 DEF IInv, TableOK, Attached
      <4> QED BY <1>0, <1>1, <1>5, <3>1, <4>2, <4>3 DEF HbOK, SweepCoversLive
    <3> QED BY <3>2, <3>3
  <2>3. CASE HbSend
    <3>1. hb.pc = "send" /\ hb.cur \in D
      BY <2>3 DEF HbSend, IInv, HbOK
    <3>2. hb' = [hb EXCEPT !.pc = "load", !.todo = hb.todo, !.cur = None,
                           !.told = hb.told \cup {hb.cur}]
      BY <2>3 DEF HbSend, SetHb
    <3>3. /\ hb'.pc = "load" /\ hb'.snap = hb.snap /\ hb'.todo = hb.todo
          /\ hb'.cur = None /\ hb'.told = hb.told \cup {hb.cur} /\ hb' \in T
      BY <1>5, <3>1, <3>2
    <3> QED BY <1>0, <1>1, <1>5, <3>3 DEF HbOK, SweepCoversLive
  <2>4. CASE HbSwept
    <3>1. hb' = [pc |-> "wait", snap |-> {}, todo |-> {}, cur |-> None, told |-> {}]
      BY <2>4 DEF HbSwept, Asleep
    <3> QED BY <1>0, <1>1, <3>1 DEF HbOK, SweepCoversLive
  <2>5. CASE HbReturns
    <3>1. hb.snap = {} /\ hb' = [hb EXCEPT !.pc = "done", !.todo = {}, !.cur = None, !.told = {}]
      BY <2>5 DEF HbReturns, SetHb, IInv, HbOK
    <3>2. hb'.pc = "done" /\ hb'.snap = {} /\ hb' \in T
      BY <1>5, <3>1
    <3> QED BY <1>0, <1>1, <3>2 DEF HbOK, SweepCoversLive
  <2> QED BY <2>1, <2>2, <2>3, <2>4, <2>5 DEF HbStep
<1> QED BY <1>2, <1>3, <1>4, <1>6 DEF IInv

(* A pass evicts only what has been silent for longer than IdleTimeout, or *)
(* the session a datagram had looked up: its deadline was computed before  *)
(* the lock, so it can only be too old.                                    *)
LEMMA PassEvictsKeeps ==
    ASSUME IInv, PassEvicts
    PROVE  IInv' /\ \A s \in InTable \ InTable' :
                       now - sess[s].last > IdleTimeout \/ walk.got = {s}
<1> DEFINE c == walk.cur
<1>1. /\ walk.pc = "evict" /\ walk.dl \in 0..MaxNow /\ walk.dl + IdleTimeout <= now
      /\ Remove({c}) /\ walk' = [walk EXCEPT !.pc = "pass", !.cur = None]
      /\ UNCHANGED <<now, net, recv, hb, admitted>>
      /\ c \in InTable /\ c \notin walk.todo
      /\ sess[c].last < walk.dl \/ walk.got = {c}
      /\ walk.todo \subseteq InTable
      /\ recv.pc = "touch" => walk.got = {recv.s}
  BY DEF PassEvicts, IInv, WalkOK, TableFree
<1>2. {c} \in SUBSET InTable
  BY <1>1
<1>3. /\ SessOK' /\ TableOK' /\ InTable' = InTable \ {c}
      /\ DOMAIN sess' = DOMAIN sess /\ Len(sess') = Len(sess)
      /\ \A s \in DOMAIN sess : sess'[s].key = sess[s].key
      /\ \A k \in Key : table[k] = None => table'[k] = None
  BY <1>1, <1>2, RemoveKeeps
<1>4. \A s \in InTable \ InTable' :
        now - sess[s].last > IdleTimeout \/ walk.got = {s}
  <2> SUFFICES ASSUME sess[c].last < walk.dl PROVE now - sess[c].last > IdleTimeout
    BY <1>1, <1>3
  <2>1. c \in DOMAIN sess
    BY <1>1, Basics DEF IInv
  <2>2. sess[c].last \in 0..MaxNow
    BY <2>1, Basics DEF IInv, Sess
  <2>3. now \in 0..MaxNow /\ IdleTimeout \in Nat /\ MaxNow \in Nat
    BY BoundTypes DEF IInv, Types
  <2> QED BY <1>1, <2>2, <2>3
<1>5. Types'
  BY <1>1 DEF IInv, Types, net
<1>5a. WalkOK'
  <2>1. walk \in [pc : WalkPC, dl : 0..MaxNow, todo : SUBSET DOMAIN sess,
                  cur : DOMAIN sess \cup {None}, got : SUBSET DOMAIN sess]
    BY DEF IInv, WalkOK
  <2>2. /\ walk'.pc = "pass" /\ walk'.dl = walk.dl /\ walk'.todo = walk.todo
        /\ walk'.got = walk.got
        /\ walk' \in [pc : WalkPC, dl : 0..MaxNow, todo : SUBSET DOMAIN sess,
                      cur : DOMAIN sess \cup {None}, got : SUBSET DOMAIN sess]
    BY <1>1, <2>1 DEF WalkPC
  <2>3. walk.todo \subseteq InTable'
    BY <1>1, <1>3
  <2> QED BY <1>1, <1>3, <2>2, <2>3 DEF WalkOK
<1>6. RecvOK'
  BY <1>1, <1>3, RecvKept
<1>7. HbOK'
  <2>1. InTable' \cap DOMAIN sess \subseteq InTable /\ DOMAIN sess \subseteq DOMAIN sess'
    BY <1>3
  <2> QED BY <1>1, <2>1, HbKept
<1>8. Closers'
  BY <1>1, <1>3, ClosersKept DEF IInv, net
<1> QED BY <1>3, <1>4, <1>5, <1>5a, <1>6, <1>7, <1>8 DEF IInv

(* RemoveAll: the last step of Close empties the table.                    *)
LEMMA RemoveAllKeeps ==
    ASSUME IInv, RemoveAll
    PROVE  IInv'
<1>1. /\ owner = "walker" /\ owner' = "returned" /\ walk.pc = "done"
      /\ Remove(InTable)
      /\ UNCHANGED <<now, ctx, socket, closing, watch, stop, stalled, recv, hb, walk,
                     admitted>>
  BY DEF RemoveAll
<1>2. /\ SessOK' /\ TableOK' /\ InTable' = InTable \ InTable
      /\ DOMAIN sess' = DOMAIN sess /\ Len(sess') = Len(sess)
      /\ \A s \in DOMAIN sess : sess'[s].key = sess[s].key
      /\ \A k \in Key : table[k] = None => table'[k] = None
  <2>1. InTable \in SUBSET InTable
    OBVIOUS
  <2> QED BY <1>1, <2>1, RemoveKeeps
<1>3. InTable' = {}
  BY <1>2
<1>4. Types' /\ WalkOK'
  <2>1. TableFree /\ DOMAIN sess \subseteq DOMAIN sess'
    BY <1>1, <1>2 DEF TableFree
  <2> QED BY <1>1, <2>1, WalkKept DEF IInv, Types
<1>5. RecvOK'
  BY <1>1, <1>2, RecvKept
<1>6. HbOK'
  BY <1>1, <1>2, <1>3, HbKept
<1>7. Closers'
  BY <1>1, <1>3 DEF IInv, Closers
<1> QED BY <1>2, <1>4, <1>5, <1>6, <1>7 DEF IInv

(* The steps that leave the sessions, the table and the loops alone: the   *)
(* clock, the walker's tick and return, the rest of the shutdown.          *)
LEMMA QuietKeeps ==
    ASSUME IInv, UNCHANGED <<table, sess, recv, hb, admitted, evicted>>
    PROVE  InTable' = InTable /\ SessOK' /\ TableOK' /\ RecvOK' /\ HbOK'
<1>1. InTable' = InTable
  BY DEF InTable
<1>2. \A x \in DOMAIN sess' : Attached(x)' <=> x \in InTable'
  BY <1>1, Zenon DEF IInv, TableOK, Attached
<1> QED BY <1>1, <1>2 DEF IInv, SessOK, TableOK, RecvOK, HbOK, SweepCoversLive

(* The clock, and the steps of the walker that evict nothing.              *)
LEMMA ClockKeeps ==
    ASSUME IInv,
           \/ Tick \/ WalkTick \/ WalkReturns \/ PassLocks \/ PassUnlocks
           \/ \E s \in walk.todo : PassLoads(s)
    PROVE  IInv' /\ InTable' = InTable
<1> DEFINE W == [pc : WalkPC, dl : 0..MaxNow, todo : SUBSET DOMAIN sess,
                 cur : DOMAIN sess \cup {None}, got : SUBSET DOMAIN sess]
<1>1. /\ UNCHANGED <<net, table, sess, recv, hb, admitted, evicted>>
      /\ now' \in {now, now + 1} /\ now' \in 0..MaxNow
  <2>1. now \in 0..MaxNow /\ MaxNow \in Nat
    BY BoundTypes DEF IInv, Types
  <2>2. CASE Tick
    BY <2>1, <2>2 DEF Tick
  <2>3. CASE WalkTick \/ WalkReturns \/ PassLocks \/ PassUnlocks
    BY <2>1, <2>3 DEF WalkTick, WalkReturns, PassLocks, PassUnlocks, net
  <2>4. CASE \E s \in walk.todo : PassLoads(s)
    BY <2>1, <2>4 DEF PassLoads, net
  <2> QED BY <2>2, <2>3, <2>4
<1>2. InTable' = InTable /\ SessOK' /\ TableOK' /\ RecvOK' /\ HbOK'
  BY <1>1, QuietKeeps
<1>3. Types'
  BY <1>1 DEF IInv, Types, net
<1>4. WalkOK'
  <2>1. /\ now \in 0..MaxNow /\ IdleTimeout \in Nat /\ MaxNow \in Nat
        /\ walk \in W /\ InTable \subseteq DOMAIN sess
    BY BoundTypes, Basics DEF IInv, Types, WalkOK
  <2>2. CASE Tick
    <3>1. UNCHANGED walk /\ TableFree' = TableFree /\ now <= now'
      BY <2>1, <2>2 DEF Tick, TableFree
    <3>2. walk.pc \in {"lock", "pass", "evict"} => walk.dl + IdleTimeout <= now'
      BY <1>1, <2>1, <3>1 DEF IInv, WalkOK
    <3> QED BY <1>1, <1>2, <3>1, <3>2 DEF IInv, WalkOK
  <2>3. CASE WalkTick
    <3>1. /\ walk'.pc = "lock" /\ walk'.dl = now - IdleTimeout /\ walk'.todo = {}
          /\ walk'.got = {} /\ walk'.cur = None /\ walk' \in W /\ now' = now
      <4>1. now - IdleTimeout \in 0..MaxNow
        BY <2>1, <2>3 DEF WalkTick
      <4> QED BY <2>3, <4>1 DEF WalkTick, NoPass, WalkPC
    <3>2. now - IdleTimeout + IdleTimeout <= now
      BY <2>1
    <3> QED BY <1>1, <3>1, <3>2 DEF WalkOK, TableFree
  <2>4. CASE WalkReturns
    <3>1. walk'.pc = "done" /\ walk' \in W
      BY <2>1, <2>4 DEF WalkReturns, NoPass, WalkPC
    <3> QED BY <1>1, <3>1 DEF WalkOK, TableFree
  <2>5. CASE PassLocks
    <3> DEFINE g == {s \in {recv.s} : recv.pc = "touch"}
    <3>1. g \subseteq DOMAIN sess /\ (recv.pc = "touch" => g = {recv.s})
      BY DEF IInv, RecvOK
    <3>2. walk.pc = "lock" /\ now' = now
          /\ walk' = [walk EXCEPT !.pc = "pass", !.todo = InTable, !.got = g]
      BY <2>5 DEF PassLocks
    <3> HIDE DEF g
    <3>3. walk'.pc = "pass" /\ walk'.todo = InTable /\ walk'.got = g
          /\ walk'.dl = walk.dl /\ walk' \in W
      BY <2>1, <3>1, <3>2 DEF WalkPC
    <3> QED BY <1>1, <1>2, <3>1, <3>2, <3>3 DEF IInv, WalkOK
  <2>6. CASE PassUnlocks
    <3>1. walk'.pc = "wait" /\ walk' \in W
      BY <2>1, <2>6 DEF PassUnlocks, NoPass, WalkPC
    <3> QED BY <1>1, <3>1 DEF WalkOK, TableFree
  <2>7. ASSUME NEW s \in walk.todo, PassLoads(s) PROVE WalkOK'
    <3>1. walk.pc = "pass" /\ now' = now /\ ~TableFree /\ s \in InTable
      BY <2>7 DEF PassLoads, TableFree, IInv, WalkOK
    <3>2. CASE sess[s].last < walk.dl
      <4>1. walk' = [walk EXCEPT !.pc = "evict", !.todo = walk.todo \ {s}, !.cur = s]
        BY <2>7, <3>2 DEF PassLoads
      <4>2. /\ walk'.pc = "evict" /\ walk'.todo = walk.todo \ {s} /\ walk'.cur = s
            /\ walk'.dl = walk.dl /\ walk'.got = walk.got /\ walk' \in W
        BY <2>1, <3>1, <4>1 DEF WalkPC
      <4> QED BY <1>1, <1>2, <3>1, <3>2, <4>2 DEF IInv, WalkOK
    <3>3. CASE ~(sess[s].last < walk.dl)
      <4>1. walk' = [walk EXCEPT !.todo = walk.todo \ {s}]
        BY <2>7, <3>3 DEF PassLoads
      <4>2. /\ walk'.pc = "pass" /\ walk'.todo = walk.todo \ {s}
            /\ walk'.dl = walk.dl /\ walk'.got = walk.got /\ walk' \in W
        BY <2>1, <3>1, <4>1
      <4> QED BY <1>1, <1>2, <3>1, <4>2 DEF IInv, WalkOK
    <3> QED BY <3>2, <3>3
  <2> QED BY <2>2, <2>3, <2>4, <2>5, <2>6, <2>7
<1>5. Closers'
  <2>1. walk.pc = "done" => walk'.pc = "done"
    BY DEF Tick, WalkTick, WalkReturns, PassLocks, PassUnlocks, PassLoads
  <2> QED BY <1>1, <1>2, <2>1, ClosersKept DEF IInv, net
<1> QED BY <1>2, <1>3, <1>4, <1>5 DEF IInv

(* The shutdown up to RemoveAll, and the facade.                           *)
LEMMA ShutdownKeeps ==
    ASSUME IInv,
           \/ CtxCancelled \/ WatchStep \/ CloseBegins
           \/ CloseUDS \/ CloseSocket \/ CloseJoins \/ TableStop
           \/ FacadeStalls \/ FacadeReads
    PROVE  IInv' /\ InTable' = InTable
<1> USE DEF rest, FacadeStalls, FacadeReads, WatchStep, CtxCancelled, WatchCloses, WatchClosesSocket, WatchJoins,
            CloseBegins, CloseUDS, CloseSocket, CloseJoins, TableStop
<1>1. UNCHANGED <<now, table, sess, recv, hb, walk, admitted, evicted>>
  OBVIOUS
<1>2. InTable' = InTable /\ SessOK' /\ TableOK' /\ RecvOK' /\ HbOK'
  BY <1>1, QuietKeeps
<1>3. WalkOK'
  BY <1>1, <1>2, WalkKept
<1>4. Types'
  BY <1>1 DEF IInv, Types, Closers
<1>5. Closers'
  BY <1>1, <1>2 DEF IInv, Types, Closers
<1> QED BY <1>2, <1>3, <1>4, <1>5 DEF IInv

-----------------------------------------------------------------------------
(* Every step of the listener preserves the invariant, and a session       *)
(* leaves the table only for a cause.                                      *)
Caused(s) ==
    \/ now - sess[s].last > IdleTimeout
    \/ walk.pc = "evict" /\ walk.got = {s}
    \/ /\ recv.pc = "forward" /\ recv.f.typ = "disconnect"
       /\ recv.f.key = sess[s].key
    \/ owner = "walker" /\ owner' = "returned"

LEMMA NextIInv == IInv /\ [Next]_vars => IInv' /\ \A s \in InTable \ InTable' : Caused(s)
<1> SUFFICES ASSUME IInv, [Next]_vars
             PROVE  IInv' /\ \A s \in InTable \ InTable' : Caused(s)
  OBVIOUS
<1> DEFINE G == IInv' /\ \A s \in InTable \ InTable' : Caused(s)
<1>0. UNCHANGED table => InTable' = InTable
  BY DEF InTable
<1>1. ASSUME NEW f \in Read, Handle(f) PROVE G
  <2>1. UNCHANGED table
    BY <1>1 DEF Handle
  <2> QED BY <1>0, <1>1, <2>1, HandleKeeps
<1>2. CASE Resolved \/ OnAdmit \/ Echo \/ RecvReturns
  <2>1. UNCHANGED table
    BY <1>2 DEF Resolved, OnAdmit, Echo, RecvReturns
  <2> QED BY <1>0, <1>2, <2>1, RecvMovesKeep
<1>3. CASE Touch
  <2>1. UNCHANGED table
    BY <1>3 DEF Touch
  <2> QED BY <1>0, <1>3, <2>1, TouchKeeps
<1>4. CASE LoadOrCreate
  BY <1>4, LoadOrCreateKeeps
<1>5. CASE Forward
  <2>1. recv.pc = "forward"
    BY <1>5 DEF Forward
  <2> QED BY <1>5, <2>1, ForwardKeeps DEF Caused
<1>6. CASE HbSnapshot \/ HbStep \/ HbReturns
  <2>1. UNCHANGED table
    BY <1>6 DEF HbSnapshot, HbStep, HbReturns, HbLoad, HbSend, HbSwept
  <2> QED BY <1>0, <1>6, <2>1, HbKeeps
<1>7. CASE PassEvicts
  BY <1>7, PassEvictsKeeps DEF PassEvicts, Caused
<1>8. CASE RemoveAll
  BY <1>8, RemoveAllKeeps DEF RemoveAll, Caused
<1>9. CASE \/ Tick \/ WalkTick \/ WalkReturns \/ PassLocks \/ PassUnlocks
           \/ \E s \in walk.todo : PassLoads(s)
  BY <1>9, ClockKeeps
<1>10. CASE \/ CtxCancelled \/ WatchStep \/ CloseBegins
            \/ CloseUDS \/ CloseSocket \/ CloseJoins \/ TableStop
            \/ FacadeStalls \/ FacadeReads
  BY <1>10, ShutdownKeeps
<1>11. CASE UNCHANGED vars
  <2>1. UNCHANGED table
    BY <1>11 DEF vars
  <2> QED BY <1>0, <1>11, <2>1, StutterKeeps
<1> QED BY <1>1, <1>2, <1>3, <1>4, <1>5, <1>6, <1>7, <1>8, <1>9, <1>10, <1>11
        DEF Next, Receive, RecvStep, runEvictionPass, OwnerStep, Drop, Stopped

(* Every reply the echo or the heartbeat is about to write decodes to the  *)
(* envelope of the datagram that admitted its session.                     *)
LEMMA WritingRoutable ==
    ASSUME IInv, NEW w \in Writing, w.fits
    PROVE  LET f == DecodeDGramFrame(w.frame) IN
           /\ f.err = "none"
           /\ f.Direction = DirBackendToFacade
           /\ f.Inner = Frame[sess[w.s].first].Inner
           /\ f.ERA = Frame[sess[w.s].first].ERA
           /\ normalised(f) = sess[w.s].key
<1>1. PICK s, pay : s \in DOMAIN sess /\ w = Reply(s, pay) /\ pay.len \in Nat
  <2>1. CASE /\ recv.pc = "echo"
             /\ w = Reply(recv.s, Typed("dpd_resp", Frame[recv.f.name].Payload.len - 1))
    <3>1. recv.s \in DOMAIN sess /\ recv.f \in Read
      BY <2>1 DEF IInv, RecvOK
    <3>2. Frame[recv.f.name].Payload.len \in Nat
      BY <3>1, ReadIs
    <3>3. Typed("dpd_resp", Frame[recv.f.name].Payload.len - 1).len \in Nat
      BY <3>2 DEF Typed
    <3> QED BY <2>1, <3>1, <3>3
  <2>2. CASE hb.pc = "send" /\ w = Reply(hb.cur, Typed("dpd_out", 8))
    <3>1. hb.cur \in DOMAIN sess
      BY <2>2 DEF IInv, HbOK
    <3>2. Typed("dpd_out", 8).len \in Nat
      BY DEF Typed
    <3> QED BY <2>2, <3>1, <3>2
  <2> QED BY <2>1, <2>2 DEF Writing
<1> DEFINE f == Frame[sess[s].first]
<1>2. w.s = s /\ w.fits = ReplyFits(f, pay) /\ w.frame = ReplyFrame(f, pay)
  BY <1>1 DEF Reply
<1>3. Envelope(f) /\ sess[s].key = normalised(f)
  BY <1>1 DEF IInv, SessOK
<1> HIDE DEF f
<1>4. ReplyFits(f, pay)
  BY <1>2, Zenon
<1>5. DecodeDGramFrame(w.frame) =
         [err |-> "none", Direction |-> DirBackendToFacade,
          Inner |-> f.Inner, ERA |-> f.ERA, Payload |-> pay]
  BY <1>1, <1>2, <1>3, <1>4, ReplyRoundTrip
<1>6. normalised(DecodeDGramFrame(w.frame)) = normalised(f)
  BY <1>5 DEF normalised
<1>7. f = Frame[sess[w.s].first] /\ sess[w.s].key = normalised(f)
  BY <1>2, <1>3 DEF f
<1> QED BY <1>5, <1>6, <1>7

(* A reply frame reaches the facade under the 4-tuple and with the TLVs of *)
(* the datagram that admitted the session (writeReply, Encode): for any    *)
(* datagrams, of any lengths, whatever sessions come and go meanwhile.     *)
THEOREM ReplyRoutableHolds == Spec => []ReplyRoutable
<1>1. IInv => ReplyRoutable
  <2> SUFFICES ASSUME IInv PROVE ReplyRoutable
    OBVIOUS
  <2>1. TypeOK
    <3>1. hb.pc \in {"wait", "load", "send", "done"} /\ hb.todo \subseteq DOMAIN sess
          /\ walk.pc \in WalkPC /\ walk.dl \in 0..MaxNow /\ walk.todo \subseteq DOMAIN sess
          /\ (walk.pc = "evict" => walk.cur \in DOMAIN sess)
          /\ recv.pc \in RecvPC
          /\ (recv.pc \in {"touch", "notify", "forward", "echo"} => recv.s \in DOMAIN sess)
      BY Basics DEF IInv, HbOK, WalkOK, RecvOK
    <3> QED BY <3>1 DEF IInv, Types, SessOK, TableOK, TypeOK, WalkPC
  <2>2. \A w \in Writing : w.fits =>
          LET f == DecodeDGramFrame(w.frame) IN
          /\ f.err = "none"
          /\ f.Direction = DirBackendToFacade
          /\ f.Inner = Frame[sess[w.s].first].Inner
          /\ f.ERA = Frame[sess[w.s].first].ERA
          /\ normalised(f) = sess[w.s].key
    BY WritingRoutable
  <2> QED BY <2>1, <2>2 DEF ReplyRoutable
<1> QED BY <1>1, InitIInv, NextIInv, PTL DEF Spec

(* No eviction during a sweep makes heartbeatLoop skip a live session.     *)
THEOREM SweepCoversLiveHolds == Spec => []SweepCoversLive
<1>1. IInv => SweepCoversLive
  BY DEF IInv, HbOK
<1> QED BY <1>1, InitIInv, NextIInv, PTL DEF Spec

(* A Close that returns, and that the ctx watcher did not precede, has     *)
(* stopped every goroutine, emptied the table and matched every OnAdmit    *)
(* with an OnEvict.                                                        *)
THEOREM CloseEvictsHolds == Spec => []CloseEvicts
<1>1. IInv => CloseEvicts
  <2> SUFFICES ASSUME IInv, owner = "returned"
               PROVE  /\ hb.pc = "done" /\ walk.pc = "done" /\ closing
                      /\ watch \in {"wait", "skipped"} =>
                            recv.pc = "done" /\ InTable = {} /\ admitted = evicted
    BY DEF CloseEvicts
  <2>1. hb.pc = "done" /\ walk.pc = "done" /\ closing
    BY DEF IInv, Closers
  <2>2. ASSUME watch \in {"wait", "skipped"}
        PROVE  recv.pc = "done" /\ InTable = {} /\ admitted = evicted
    <3>1. recv.pc = "done" /\ InTable = {}
      BY <2>2 DEF IInv, Closers
    <3>2. admitted = DOMAIN sess /\ evicted = DOMAIN sess
      BY <3>1 DEF IInv, RecvOK, TableOK
    <3> QED BY <3>1, <3>2
  <2> QED BY <2>1, <2>2
<1> QED BY <1>1, InitIInv, NextIInv, PTL DEF Spec

(* For any idle timeout and any number of sessions: a session is evicted   *)
(* only when it is idle, says goodbye, the listener closes, or it is the   *)
(* one session whose datagram was between Get and touch when the pass took *)
(* the lock; runEvictionPass's deadline, taken before the lock, is never   *)
(* later than the one the lock would give.                                 *)
THEOREM EvictedForCauseHolds == Spec => EvictedForCause
<1>1. IInv /\ [Next]_vars =>
        [\A s \in InTable \ InTable' :
          \/ now - sess[s].last > IdleTimeout
          \/ walk.pc = "evict" /\ walk.got = {s}
          \/ /\ recv.pc = "forward" /\ recv.f.typ = "disconnect"
             /\ recv.f.key = sess[s].key
          \/ owner = "walker" /\ owner' = "returned"]_vars
  BY NextIInv DEF Caused
<1> QED BY <1>1, InitIInv, NextIInv, PTL DEF Spec, EvictedForCause
=============================================================================
