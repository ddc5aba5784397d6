-------------------------------- MODULE Hmc ---------------------------------
(***************************************************************************)
(* AlgHmc::run (alg_hmc.C): one Hybrid Monte Carlo trajectory with its     *)
(* reproducibility test (the trajectory is computed twice and the final    *)
(* fields compared, with retries), its reversibility test (the trajectory  *)
(* is integrated back and the field then restored) and the Metropolis      *)
(* accept/reject step.                                                     *)
(*                                                                         *)
(* Fields, momenta with pseudofermions ("noise") and generator states are  *)
(* abstract values; heatbath, molecular dynamics and the Hamiltonian are   *)
(* functions of them.  The one source of nondeterminism is the hardware:   *)
(* one test of each attempt may be hit by a fault and end in any field.    *)
(* That is what the reproducibility test is there to find; without that    *)
(* test nothing could notice a fault, and none is modelled.                *)
(*                                                                         *)
(* The lattice shift of a repeated test is the identity (SHIFT_X, SHIFT_Y  *)
(* and SHIFT_Z are 0 unless the target is QCDOC) and the fifth dimension   *)
(* is not spread over nodes (GsoCheck stops the program if it is).         *)
(***************************************************************************)
EXTENDS Integers

CONSTANTS
  Field, Noise, Rng,
  NoField,             (* contents of a field buffer nothing was copied to *)
  NoRng,               (* contents of an LRGState nothing was saved to     *)
  Draw(_, _, _),       (* heatbath: sloppy, field, rng -> noise            *)
  AfterHeatbath(_),    (* rng -> rng                                       *)
  AfterUniform(_),     (* rng -> rng                                       *)
  MdField(_, _, _),    (* evolve: sloppy, field, noise -> field            *)
  MdNoise(_, _, _),    (* evolve: sloppy, field, noise -> noise            *)
  Reversed(_),         (* reverse(): noise -> noise                        *)
  Unitary(_),          (* Reunitarize: field -> field                      *)
  Energy(_, _, _),     (* energy(): sloppy, field, noise -> Int            *)
  Lucky(_, _),         (* rand_num <= exp(-delta_h), delta_h > 0, rng      *)
  Checksum(_),         (* global_checksum: field -> Int                    *)
  HmcArgs,             (* the HmcArg records a run may be started with     *)
  MaxTraj              (* bound on the number of trajectories              *)

HmcArg == [metropolis : BOOLEAN, reunitarize : BOOLEAN, reverse : BOOLEAN,
           reproduce : BOOLEAN, wfm_md_sloppy : BOOLEAN,
           reproduce_attempt_limit : Int]

ASSUME SortsAssumption ==
  /\ NoField \notin Field
  /\ NoRng \notin Rng
  /\ HmcArgs \subseteq HmcArg
  /\ MaxTraj \in Nat

ASSUME FunctionsAssumption ==
  /\ \A s \in BOOLEAN, f \in Field, r \in Rng : Draw(s, f, r) \in Noise
  /\ \A r \in Rng : AfterHeatbath(r) \in Rng /\ AfterUniform(r) \in Rng
  /\ \A s \in BOOLEAN, f \in Field, n \in Noise :
       /\ MdField(s, f, n) \in Field
       /\ MdNoise(s, f, n) \in Noise
       /\ Energy(s, f, n) \in Int
  /\ \A n \in Noise : Reversed(n) \in Noise
  /\ \A f \in Field : Unitary(f) \in Field /\ Checksum(f) \in Int

\* Two fields with one checksum are one field: collisions are not modelled.
ASSUME ChecksumAssumption ==
  \A f, g \in Field : Checksum(f) = Checksum(g) => f = g

VARIABLES
  hmc_arg,             (* HmcArg of this AlgHmc                            *)
  pc,                  (* the next step of run(); "idle" between calls     *)
  gauge,               (* Lattice::gauge_field                             *)
  rng,                 (* LRG                                              *)
  noise,               (* momenta and pseudofermions in the integrator     *)
  sloppy,              (* the precision flag of the Wilson operator        *)
  gauge_field_init,    (* field saved when run() starts                    *)
  gauge_field_final,   (* field saved before the reversibility test        *)
  lrg_state,           (* generator state saved when run() starts          *)
  Ntests, attempt, test,
  checksum,            (* checksum[test]                                   *)
  h_init, h_final, delta_h,
  GupdCnt,             (* Lattice's counter of gauge field updates         *)
  traj,                (* trajectories finished, at most MaxTraj           *)
  start,               (* history: field and generator when run() started  *)
  faulty               (* history: tests of this attempt hit by a fault    *)

vars == <<hmc_arg, pc, gauge, rng, noise, sloppy, gauge_field_init,
          gauge_field_final, lrg_state, Ntests, attempt, test, checksum,
          h_init, h_final, delta_h, GupdCnt, traj, start, faulty>>

saved    == <<gauge_field_init, lrg_state>>
energies == <<h_init, h_final, delta_h>>
loop     == <<Ntests, attempt, test>>
chain    == <<GupdCnt, traj, start>>

Init ==
  /\ hmc_arg \in HmcArgs
  /\ pc = "idle"
  /\ gauge \in Field
  /\ rng \in Rng
  /\ noise \in Noise
  /\ sloppy = FALSE
  /\ gauge_field_init = NoField
  /\ gauge_field_final = NoField
  /\ lrg_state = NoRng
  /\ Ntests = 1 /\ attempt = 0 /\ test = 0
  /\ checksum = [t \in {0, 1} |-> 0]
  /\ h_init = 0 /\ h_final = 0 /\ delta_h = 0
  /\ GupdCnt = 0
  /\ traj = 0
  /\ start = [gauge |-> gauge, rng |-> rng]
  /\ faulty = {}
-----------------------------------------------------------------------------
(* saveInitialState *)

NeedsInitialField(a) == a.metropolis \/ a.reproduce \/ a.reverse

AttemptLimit(a) ==
  IF ~a.reproduce THEN 1
  ELSE IF a.reproduce_attempt_limit \in 1..5 THEN a.reproduce_attempt_limit
  ELSE 3

saveInitialState ==
  /\ pc = "idle"
  /\ traj < MaxTraj
  /\ pc' = "init"
  /\ gauge_field_init' =
       IF NeedsInitialField(hmc_arg) THEN gauge ELSE gauge_field_init
  /\ lrg_state' = IF hmc_arg.reproduce THEN rng ELSE lrg_state
  /\ hmc_arg' = [hmc_arg EXCEPT !.reproduce_attempt_limit = AttemptLimit(hmc_arg)]
  /\ Ntests' = IF hmc_arg.reproduce THEN 2 ELSE 1
  /\ attempt' = 0 /\ test' = 0
  /\ start' = [gauge |-> gauge, rng |-> rng]
  /\ faulty' = {}
  /\ UNCHANGED <<gauge, rng, noise, sloppy, gauge_field_final, checksum,
                 energies, GupdCnt, traj>>

(* restoreInitialState *)

\* Mutant: the generator is not rewound with the field.
restoreInitialState_Bug == gauge' = gauge_field_init /\ rng' = rng

restoreInitialState == gauge' = gauge_field_init /\ rng' = lrg_state

\* integrator->init() is in module PseudoFermions; nothing here depends on it.
InitTest ==
  /\ pc = "init"
  /\ pc' = "heatbath"
  /\ IF test = 0 /\ attempt = 0
       THEN UNCHANGED <<gauge, rng>>
       ELSE restoreInitialState
  /\ UNCHANGED <<hmc_arg, noise, sloppy, saved, gauge_field_final, loop,
                 checksum, energies, chain, faulty>>

Heatbath ==
  /\ pc = "heatbath"
  /\ pc' = "h_init"
  /\ noise' = Draw(sloppy, gauge, rng)
  /\ rng' = AfterHeatbath(rng)
  /\ UNCHANGED <<hmc_arg, gauge, sloppy, saved, gauge_field_final, loop,
                 checksum, energies, chain, faulty>>

InitialHamiltonian ==
  /\ pc = "h_init"
  /\ pc' = "md"
  /\ sloppy' = FALSE
  /\ h_init' = Energy(sloppy', gauge, noise)
  /\ UNCHANGED <<hmc_arg, gauge, rng, noise, saved, gauge_field_final, loop,
                 checksum, h_final, delta_h, chain, faulty>>

-----------------------------------------------------------------------------
(* Molecular dynamics.  wilson_set_sloppy(true) before evolve if the        *)
(* argument asks for it, wilson_set_sloppy(false) after it.                 *)

SloppyInMd == sloppy \/ hmc_arg.wfm_md_sloppy

\* Mutant: the flag is left as molecular dynamics had it.
SloppyAfterMd_Bug == SloppyInMd

SloppyAfterMd == FALSE

Reunitarized(f) == IF hmc_arg.reunitarize THEN Unitary(f) ELSE f

\* A test whose molecular dynamics runs as it should.
Evolve ==
  /\ pc = "md"
  /\ pc' = "h_final"
  /\ gauge' = Reunitarized(MdField(SloppyInMd, gauge, noise))
  /\ noise' = MdNoise(SloppyInMd, gauge, noise)
  /\ sloppy' = SloppyAfterMd
  /\ UNCHANGED <<hmc_arg, rng, saved, gauge_field_final, loop, checksum,
                 energies, chain, faulty>>

\* A test whose molecular dynamics is hit by a hardware fault.
EvolveFault ==
  /\ hmc_arg.reproduce /\ faulty = {}
  /\ pc = "md"
  /\ pc' = "h_final"
  /\ \E f \in Field : gauge' = Reunitarized(f)
  /\ noise' \in Noise
  /\ sloppy' = SloppyAfterMd
  /\ faulty' = faulty \cup {test}
  /\ UNCHANGED <<hmc_arg, rng, saved, gauge_field_final, loop, checksum,
                 energies, chain>>

\* Mutant: the difference is taken before the final energy is stored.
FinalHamiltonian_Bug ==
  /\ pc = "h_final"
  /\ pc' = IF hmc_arg.reverse THEN "reverse" ELSE "checksum"
  /\ h_final' = Energy(sloppy, gauge, noise)
  /\ delta_h' = h_final - h_init
  /\ UNCHANGED <<hmc_arg, gauge, rng, noise, sloppy, saved, gauge_field_final,
                 loop, checksum, h_init, chain, faulty>>

FinalHamiltonian ==
  /\ pc = "h_final"
  /\ pc' = IF hmc_arg.reverse THEN "reverse" ELSE "checksum"
  /\ h_final' = Energy(sloppy, gauge, noise)
  /\ delta_h' = h_final' - h_init
  /\ UNCHANGED <<hmc_arg, gauge, rng, noise, sloppy, saved, gauge_field_final,
                 loop, checksum, h_init, chain, faulty>>

-----------------------------------------------------------------------------
(* The reversibility test. *)

\* saveFinalState, then the integrator runs back from the final state; a fault
\* may also hit this run.
ReverseEvolve ==
  /\ pc = "reverse"
  /\ pc' = "reverseTest"
  /\ gauge_field_final' = gauge
  /\ LET back == Reversed(noise) IN
       \/ /\ gauge' = MdField(SloppyInMd, gauge, back)
          /\ noise' = MdNoise(SloppyInMd, gauge, back)
       \/ /\ hmc_arg.reproduce
          /\ gauge' \in Field /\ noise' \in Noise
  /\ sloppy' = SloppyAfterMd
  /\ UNCHANGED <<hmc_arg, rng, saved, loop, checksum, energies, chain, faulty>>

\* The difference to the initial field is computed in place: the lattice holds
\* no gauge field until restoreFinalState.
reverseTest ==
  /\ pc = "reverseTest"
  /\ pc' = "restoreFinalState"
  /\ gauge' = NoField
  /\ UNCHANGED <<hmc_arg, rng, noise, sloppy, saved, gauge_field_final, loop,
                 checksum, energies, chain, faulty>>

restoreFinalState ==
  /\ pc = "restoreFinalState"
  /\ pc' = "checksum"
  /\ gauge' = gauge_field_final
  /\ UNCHANGED <<hmc_arg, rng, noise, sloppy, saved, gauge_field_final, loop,
                 checksum, energies, chain, faulty>>

-----------------------------------------------------------------------------
(* The end of a test and of an attempt. *)

GlobalChecksum ==
  /\ pc = "checksum"
  /\ checksum' = [checksum EXCEPT ![test] = Checksum(gauge)]
  /\ IF test + 1 < Ntests
       THEN test' = test + 1 /\ pc' = "init"
       ELSE test' = test /\ pc' = "reproduceTest"
  /\ UNCHANGED <<hmc_arg, gauge, rng, noise, sloppy, saved, gauge_field_final,
                 Ntests, attempt, energies, chain, faulty>>

\* Mutant: the last attempt is taken whatever it gave.
ReproduceOk_Bug ==
  \/ ~hmc_arg.reproduce
  \/ checksum[0] = checksum[1]
  \/ attempt = hmc_arg.reproduce_attempt_limit - 1

ReproduceOk == ~hmc_arg.reproduce \/ checksum[0] = checksum[1]

Unaffected == UNCHANGED <<hmc_arg, gauge, rng, noise, sloppy, saved,
                          gauge_field_final, Ntests, checksum, energies, chain>>

Reproduced ==
  /\ pc = "reproduceTest"
  /\ ReproduceOk
  /\ pc' = "metropolis"
  /\ UNCHANGED <<attempt, test, faulty>> /\ Unaffected

\* Mutant: attempts are not counted.
RetryAttempt_Bug ==
  /\ pc = "reproduceTest"
  /\ ~ReproduceOk
  /\ attempt # hmc_arg.reproduce_attempt_limit - 1
  /\ pc' = "init"
  /\ attempt' = attempt /\ test' = 0
  /\ faulty' = {}
  /\ Unaffected

RetryAttempt ==
  /\ pc = "reproduceTest"
  /\ ~ReproduceOk
  /\ attempt # hmc_arg.reproduce_attempt_limit - 1
  /\ pc' = "init"
  /\ attempt' = attempt + 1 /\ test' = 0
  /\ faulty' = {}
  /\ Unaffected

\* ERR.General(... "Failed to reproduce") stops the program.
FailedToReproduce ==
  /\ pc = "reproduceTest"
  /\ ~ReproduceOk
  /\ attempt = hmc_arg.reproduce_attempt_limit - 1
  /\ pc' = "stopped"
  /\ UNCHANGED <<attempt, test, faulty>> /\ Unaffected

-----------------------------------------------------------------------------
(* The Metropolis step: Lattice::MetropolisAccept draws a uniform number     *)
(* only if delta_h is positive.                                              *)

Accepted == ~hmc_arg.metropolis \/ delta_h <= 0 \/ Lucky(delta_h, rng)

RngAfterTest ==
  IF hmc_arg.metropolis /\ delta_h > 0 THEN AfterUniform(rng) ELSE rng

EndTrajectory ==
  /\ pc = "metropolis"
  /\ pc' = "idle"
  /\ rng' = RngAfterTest
  /\ traj' = traj + 1
  /\ UNCHANGED <<hmc_arg, noise, sloppy, saved, gauge_field_final, loop,
                 checksum, energies, start, faulty>>

Accept ==
  /\ EndTrajectory
  /\ Accepted
  /\ GupdCnt' = GupdCnt + 1
  /\ UNCHANGED gauge

Reject ==
  /\ EndTrajectory
  /\ ~Accepted
  /\ gauge' = gauge_field_init
  /\ UNCHANGED GupdCnt

-----------------------------------------------------------------------------
Next ==
  \/ saveInitialState \/ InitTest \/ Heatbath \/ InitialHamiltonian
  \/ Evolve \/ EvolveFault \/ FinalHamiltonian
  \/ ReverseEvolve \/ reverseTest \/ restoreFinalState
  \/ GlobalChecksum \/ Reproduced \/ RetryAttempt \/ FailedToReproduce
  \/ Accept \/ Reject

Spec == Init /\ [][Next]_vars

\* run() is sequential code: it never pauses.
FairSpec == Spec /\ WF_vars(Next)

-----------------------------------------------------------------------------
(* Properties *)

HmcPc == {"idle", "init", "heatbath", "h_init", "md", "h_final", "reverse",
          "reverseTest", "restoreFinalState", "checksum", "reproduceTest",
          "metropolis", "stopped"}

\* Every variable has its type; in particular the lattice always holds a gauge
\* field that was really generated or saved, except while the reversibility
\* test uses it as scratch space.
TypeOK ==
  /\ hmc_arg \in HmcArg
  /\ pc \in HmcPc
  /\ gauge \in Field \cup {NoField}
  /\ pc # "restoreFinalState" => gauge \in Field
  /\ rng \in Rng
  /\ noise \in Noise
  /\ sloppy \in BOOLEAN
  /\ gauge_field_init \in Field \cup {NoField}
  /\ gauge_field_final \in Field \cup {NoField}
  /\ lrg_state \in Rng \cup {NoRng}
  /\ Ntests \in {1, 2} /\ attempt \in Nat /\ test \in {0, 1}
  /\ checksum \in [{0, 1} -> Int]
  /\ h_init \in Int /\ h_final \in Int /\ delta_h \in Int
  /\ GupdCnt \in Nat
  /\ traj \in Nat
  /\ start \in [gauge : Field, rng : Rng]
  /\ faulty \subseteq {0, 1}

\* Every test of every attempt starts its heatbath from the field and the
\* generator state run() was called with: the retries and the reversibility
\* tests in between leave no trace (alg_hmc.C:177-184).
SameStart == pc = "heatbath" => gauge = start.gauge /\ rng = start.rng

\* The field and the momenta with which a fault-free trajectory ends.
InitialNoise(f, r) == Draw(FALSE, f, r)

MdResult(a, f, r) == MdField(a.wfm_md_sloppy, f, InitialNoise(f, r))

Proposal(a, f, r) ==
  IF a.reunitarize THEN Unitary(MdResult(a, f, r)) ELSE MdResult(a, f, r)

TrueDeltaH(a, f, r) ==
  Energy(FALSE, Proposal(a, f, r),
                MdNoise(a.wfm_md_sloppy, f, InitialNoise(f, r)))
    - Energy(FALSE, f, InitialNoise(f, r))

\* The Metropolis test is given the energy change of the very trajectory it
\* decides on, from the field run() started with to the field now in the
\* lattice, unless a fault hit one of the two equal tests.
DeltaHExact ==
  pc = "metropolis" /\ faulty = {} =>
    delta_h = TrueDeltaH(hmc_arg, start.gauge, start.rng)

\* The program stops with "Failed to reproduce" only if the hardware did make
\* a mistake: software state carried from one test to the next never makes
\* the second differ from the first.
StopsOnlyIfFaulty == pc = "stopped" => faulty # {}

\* run() promises a Markov chain of fields (HmcChain): faults, retries and the
\* reversibility test change neither the field handed over, nor the generator
\* it is handed over with, nor the count of updates.
Chain == INSTANCE HmcChain WITH
  Propose <- Proposal,
  mode    <- [reunitarize |-> hmc_arg.reunitarize,
              wfm_md_sloppy |-> hmc_arg.wfm_md_sloppy],
  field   <- IF pc = "idle" THEN gauge ELSE start.gauge,
  rng     <- IF pc = "idle" THEN rng ELSE start.rng,
  updates <- GupdCnt,
  halted  <- pc = "stopped"

ImplementsChain == Chain!Spec

\* Every call of run() returns or stops the program, however often the
\* hardware fails.
Terminates == pc # "idle" ~> pc \in {"idle", "stopped"}
=============================================================================
