---------------------------- MODULE MCCstpServer ----------------------------
(* Instances of CstpServer for TLC. *)
EXTENDS CstpServer

CONSTANTS u1, p1, p2, p3, d1, d2

(* One user with a password per device; any other password is wrong.       *)
OneUser ==
    [c \in User \X Password |->
        IF c[2] = p1 THEN d1 ELSE IF c[2] = p2 THEN d2 ELSE None]
=============================================================================
