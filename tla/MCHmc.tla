------------------------------- MODULE MCHmc --------------------------------
(***************************************************************************)
(* Instances of Hmc for TLC.  The functions are arbitrary but chosen so    *)
(* that a different start, generator state or precision gives a different  *)
(* trajectory, and both signs of delta_h and both Metropolis outcomes      *)
(* occur.                                                                  *)
(***************************************************************************)
EXTENDS HmcInv

MCField == 0..2
MCNoise == 0..1
MCRng   == 0..2

B(s) == IF s THEN 1 ELSE 0

MCDraw(s, f, r)    == (r + f + B(s)) % 2
MCAfterHeatbath(r) == (r + 2) % 3
MCAfterUniform(r)  == (2 * r + 1) % 3
MCMdField(s, f, n) == (f + n + 1 + B(s)) % 3
MCMdNoise(s, f, n) == (n + f + B(s)) % 2
MCReversed(n)      == 1 - n
MCUnitary(f)       == (2 * f + 1) % 3
MCEnergy(s, f, n)  == ((2 * f + 3 * n) % 5) + B(s)
MCLucky(d, r)      == (d + r) % 2 = 0
MCChecksum(f)      == 10 + f

\* Every combination of the flags, with limits inside and outside 1..5.
AllArgs ==
  [metropolis : BOOLEAN, reunitarize : BOOLEAN, reverse : BOOLEAN,
   reproduce : BOOLEAN, wfm_md_sloppy : BOOLEAN,
   reproduce_attempt_limit : {0, 2}]
=============================================================================
