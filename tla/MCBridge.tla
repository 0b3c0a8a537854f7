------------------------------ MODULE MCBridge ------------------------------
(* Instances of Bridge for TLC. *)
EXTENDS Bridge

CONSTANTS t1, t2, s1, s2, a1, a2, c1, c2, q1

(* One device: every CONNECT and DTLS leg shares native a1 and CLAT c1.    *)
OneNative == [x \in Transport |-> a1]
OneClat == [x \in Transport |-> c1]

(* Two devices; the second one is reached over t2 and s2.                  *)
TwoNative == [x \in Transport |-> IF x \in {t2, s2} THEN a2 ELSE a1]
TwoClat == [x \in Transport |-> IF x \in {t2, s2} THEN c2 ELSE c1]

(* Leg s1 was keyed by CONNECT t1, leg s2 by CONNECT t2.                   *)
LegOf == [s \in Session |-> IF s = s1 THEN t1 ELSE t2]
=============================================================================
