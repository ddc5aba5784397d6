---------------------------- MODULE MCMetropolis ----------------------------
(***************************************************************************)
(* Small machines for Metropolis.  Exp holds exp(-d) for the differences   *)
(* used; of the two generator states one gives a number that even exp(-20) *)
(* accepts, the other one that exp(-1) does not.                           *)
(***************************************************************************)
EXTENDS Metropolis

MCRng == {0, 1}
MCUniform(r) == IF r = 0 THEN 1 ELSE 700000000
MCAfterUniform(r) == 1 - r
MCExp(d) == CASE d = 0 -> 1000000000 [] d = 1 -> 367879441
              [] d = 20 -> 2 [] OTHER -> 1000000000
Rounded   == {-1, 1, 20}
=============================================================================
