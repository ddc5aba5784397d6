---------------------------- MODULE MCGaugeScope -----------------------------
(* Two sites in every direction; a program that uses ParTransGauge in one   *)
(* of the two places.                                                       *)
EXTENDS GaugeScope

Hypercube == [mu \in Dir |-> 2]
OnePlace  == {{"inside"}, {"outside"}}
=============================================================================
