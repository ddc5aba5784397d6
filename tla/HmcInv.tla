------------------------------- MODULE HmcInv -------------------------------
(***************************************************************************)
(* The inductive invariant of Hmc: what each point of AlgHmc::run knows    *)
(* about the fields, the generator, the energies and the checksums it      *)
(* holds, relative to the state run() was called in.                       *)
(***************************************************************************)
EXTENDS Hmc

Expected == Proposal(hmc_arg, start.gauge, start.rng)

\* What restoreInitialState and the rejection will read is what run() started
\* with.
SavedStart ==
  pc # "idle" =>
    /\ NeedsInitialField(hmc_arg) => gauge_field_init = start.gauge
    /\ hmc_arg.reproduce => lrg_state = start.rng

\* Only the reproducibility test makes the loops go round.
Loops ==
  /\ pc # "idle" =>
       /\ Ntests = IF hmc_arg.reproduce THEN 2 ELSE 1
       /\ test < Ntests
       /\ ~hmc_arg.reproduce => attempt = 0
  /\ pc \in {"reproduceTest", "metropolis", "stopped"} => test = Ntests - 1

\* At most one test of an attempt is faulty, never one still to be run.
OneFault ==
  /\ faulty # {} => hmc_arg.reproduce
  /\ \A t, u \in faulty : t = u
  /\ pc \notin {"idle", "stopped"} => \A t \in faulty : t <= test
  /\ pc \in {"init", "heatbath", "h_init", "md"} => test \notin faulty

Precise == ~sloppy

\* The state from which a test is started, and the generator after its heatbath.
TestStart ==
  /\ pc = "heatbath" \/ (pc = "init" /\ test = 0 /\ attempt = 0) =>
       gauge = start.gauge /\ rng = start.rng
  /\ pc \in {"h_init", "md"} =>
       /\ gauge = start.gauge
       /\ noise = InitialNoise(start.gauge, start.rng)
  /\ pc \notin {"idle", "init", "heatbath", "stopped"} =>
       rng = AfterHeatbath(start.rng)

\* The energies.
Hamiltonians ==
  /\ pc \in {"md", "h_final"} =>
       h_init = Energy(FALSE, start.gauge, InitialNoise(start.gauge, start.rng))
  /\ pc = "h_final" /\ test \notin faulty =>
       noise = MdNoise(hmc_arg.wfm_md_sloppy, start.gauge,
                       InitialNoise(start.gauge, start.rng))
  /\ pc \in {"reverse", "reverseTest", "restoreFinalState", "checksum",
             "reproduceTest", "metropolis"} /\ test \notin faulty =>
       delta_h = TrueDeltaH(hmc_arg, start.gauge, start.rng)

\* The field a fault-free test ends with, wherever it is kept.
FinalField ==
  /\ pc \in {"h_final", "reverse", "checksum"} /\ test \notin faulty =>
       gauge = Expected
  /\ pc \in {"reverseTest", "restoreFinalState"} =>
       /\ gauge_field_final \in Field
       /\ test \notin faulty => gauge_field_final = Expected
  /\ pc = "metropolis" => gauge = Expected

\* The checksums taken so far in this attempt.
Checksums ==
  /\ pc # "idle" => \A t \in {0, 1} :
       (t < test \/ (pc = "reproduceTest" /\ t = test)) /\ t \notin faulty =>
         checksum[t] = Checksum(Expected)
  /\ pc = "reproduceTest" => checksum[test] = Checksum(gauge)
  /\ pc = "stopped" => faulty # {}

IInv ==
  /\ TypeOK /\ SavedStart /\ Loops /\ OneFault /\ Precise
  /\ TestStart /\ Hamiltonians /\ FinalField /\ Checksums
=============================================================================
