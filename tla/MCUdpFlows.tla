----------------------------- MODULE MCUdpFlows -----------------------------
(* Instances of UdpFlows for TLC. *)
EXTENDS UdpFlows, TLC

CONSTANTS r4, r6

V4(r) == r = r4

(* Headers as the splicer writes them, with and without payload; LOCAL     *)
(* ones; one cut short; and plain payload.                                 *)
Datagrams ==
    LET h4(n) == WriteHeaderV2UDP(r4, r4, n)
        h6(n) == WriteHeaderV2UDP(r6, r6, n)
    IN  {h4(1), h6(0),
         [h4(1) EXCEPT !.cmd = "local"], [h4(0) EXCEPT !.cmd = "local"],
         [h6(0) EXCEPT !.len = 40], [h4(0) EXCEPT !.magic = FALSE]}

(* Neither elements nor kernel sources nor readers are told apart.         *)
Symmetry == Permutations(Elem) \cup Permutations(Kernel) \cup Permutations(Reader)
=============================================================================
