----------------------------- MODULE MCResolver -----------------------------
(* Instances of Resolver for TLC. *)
EXTENDS Resolver

CONSTANTS d1, p1, p2, far

Full == [status |-> 200, id |-> None, ocserv |-> p1, native |-> None,
         explicit |-> None, clat |-> p2, dtlsOff |-> FALSE]

(* A usable document, TPM's two ways to say the device is gone, and one    *)
(* that cannot be used.                                                    *)
Docs == {Full,
         [Full EXCEPT !.status = 404], [Full EXCEPT !.ocserv = None],
         [Full EXCEPT !.explicit = Invalid]}
=============================================================================
