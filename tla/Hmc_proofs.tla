----------------------------- MODULE Hmc_proofs -----------------------------
(***************************************************************************)
(* Proofs about Hmc, for every choice of fields, functions and arguments   *)
(* that meets the assumptions of Hmc.                                      *)
(***************************************************************************)
EXTENDS HmcInv, TLAPS

\* The field a fault-free trajectory ends with is a field.
LEMMA ProposalType ==
  ASSUME NEW a \in HmcArg, NEW f \in Field, NEW r \in Rng
  PROVE  /\ InitialNoise(f, r) \in Noise
         /\ MdResult(a, f, r) \in Field
         /\ Proposal(a, f, r) \in Field
<1>1. InitialNoise(f, r) \in Noise
  BY FunctionsAssumption DEF InitialNoise
<1>2. a.wfm_md_sloppy \in BOOLEAN
  BY DEF HmcArg
<1>3. MdResult(a, f, r) \in Field
  BY <1>1, <1>2, FunctionsAssumption DEF MdResult
<1>4. Proposal(a, f, r) \in Field
  BY <1>3, FunctionsAssumption DEF Proposal
<1> QED BY <1>1, <1>3, <1>4

LEMMA InitIInv == Init => IInv
<1> SUFFICES ASSUME Init PROVE IInv
  OBVIOUS
<1>1. TypeOK
  <2>1. hmc_arg \in HmcArg
    BY SortsAssumption DEF Init
  <2>2. checksum \in [{0, 1} -> Int] /\ start \in [gauge : Field, rng : Rng]
    BY DEF Init
  <2> QED BY <2>1, <2>2 DEF Init, TypeOK, HmcPc
<1>2. Loops
  BY DEF Init, Loops
<1>3. SavedStart /\ OneFault /\ Precise /\ TestStart /\ Hamiltonians
      /\ FinalField /\ Checksums
  BY DEF Init, SavedStart, OneFault, Precise, TestStart, Hamiltonians,
         FinalField, Checksums
<1> QED BY <1>1, <1>2, <1>3 DEF IInv

LEMMA SaveInitialStateIInv == IInv /\ saveInitialState => IInv'
<1> SUFFICES ASSUME IInv, saveInitialState PROVE IInv'
  OBVIOUS
<1> USE DEF IInv, saveInitialState, energies
<1>1. TypeOK'
  BY DEF TypeOK, HmcPc, HmcArg, AttemptLimit
<1>2. SavedStart'
  BY DEF TypeOK, HmcArg, SavedStart, NeedsInitialField
<1>3. Loops'
  BY DEF TypeOK, HmcArg, Loops
<1>4. OneFault' /\ Precise' /\ TestStart' /\ Hamiltonians' /\ FinalField'
  BY DEF OneFault, Precise, TestStart, Hamiltonians, FinalField
<1>5. Checksums'
  BY DEF TypeOK, Checksums
<1> QED BY <1>1, <1>2, <1>3, <1>4, <1>5

LEMMA InitTestIInv == IInv /\ InitTest => IInv'
<1> SUFFICES ASSUME IInv, InitTest PROVE IInv'
  OBVIOUS
<1> USE DEF IInv, InitTest, saved, loop, energies, chain
<1>1. /\ rng' \in Rng /\ gauge' \in Field
      /\ gauge' = start.gauge /\ rng' = start.rng
  BY DEF TypeOK, Loops, SavedStart, NeedsInitialField, TestStart,
         restoreInitialState
<1>2. TypeOK'
  BY <1>1 DEF TypeOK, HmcPc
<1>3. SavedStart' /\ Loops'
  BY DEF SavedStart, Loops
<1>4. OneFault' /\ Precise' /\ Hamiltonians' /\ FinalField'
  BY DEF OneFault, Precise, Hamiltonians, FinalField
<1>5. TestStart'
  BY <1>1 DEF TestStart
<1>6. Checksums'
  BY DEF Checksums, Expected
<1> QED BY <1>2, <1>3, <1>4, <1>5, <1>6

LEMMA HeatbathIInv == IInv /\ Heatbath => IInv'
<1> SUFFICES ASSUME IInv, Heatbath PROVE IInv'
  OBVIOUS
<1> USE DEF IInv, Heatbath, saved, loop, energies, chain
<1>1. TypeOK'
  BY FunctionsAssumption DEF TypeOK, HmcPc
<1>2. SavedStart' /\ Loops'
  BY DEF SavedStart, Loops
<1>3. OneFault' /\ Precise' /\ Hamiltonians' /\ FinalField'
  BY DEF OneFault, Precise, Hamiltonians, FinalField
<1>4. TestStart'
  BY DEF TestStart, Precise, InitialNoise, TypeOK
<1>5. Checksums'
  BY DEF Checksums, Expected
<1> QED BY <1>1, <1>2, <1>3, <1>4, <1>5

LEMMA InitialHamiltonianIInv == IInv /\ InitialHamiltonian => IInv'
<1> SUFFICES ASSUME IInv, InitialHamiltonian PROVE IInv'
  OBVIOUS
<1> USE DEF IInv, InitialHamiltonian, saved, loop, chain
<1>1. TypeOK'
  BY FunctionsAssumption DEF TypeOK, HmcPc
<1>2. SavedStart' /\ Loops'
  BY DEF SavedStart, Loops
<1>3. OneFault' /\ Precise' /\ FinalField'
  BY DEF OneFault, Precise, FinalField
<1>4. TestStart' /\ Hamiltonians'
  BY DEF TestStart, Hamiltonians
<1>5. Checksums'
  BY DEF Checksums, Expected
<1> QED BY <1>1, <1>2, <1>3, <1>4, <1>5

\* The flag with which molecular dynamics runs is the argument's.
LEMMA MdPrecision == IInv => SloppyInMd = hmc_arg.wfm_md_sloppy
  BY DEF IInv, Precise, SloppyInMd, TypeOK, HmcArg

LEMMA EvolveIInv == IInv /\ Evolve => IInv'
<1> SUFFICES ASSUME IInv, Evolve PROVE IInv'
  OBVIOUS
<1> USE DEF IInv, Evolve, saved, loop, energies, chain
<1>1. SloppyInMd = hmc_arg.wfm_md_sloppy /\ hmc_arg.wfm_md_sloppy \in BOOLEAN
  BY MdPrecision DEF TypeOK, HmcArg
<1>2. gauge' \in Field /\ noise' \in Noise
  BY <1>1, FunctionsAssumption DEF TypeOK, Reunitarized
<1>3. TypeOK'
  BY <1>2 DEF TypeOK, HmcPc, SloppyAfterMd
<1>4. SavedStart' /\ Loops'
  BY DEF SavedStart, Loops
<1>5. OneFault' /\ Precise' /\ TestStart'
  BY DEF OneFault, Precise, TestStart, SloppyAfterMd
<1>6. Hamiltonians'
  BY <1>1 DEF Hamiltonians, TestStart
<1>7. FinalField'
  BY <1>1 DEF FinalField, TestStart, Expected, Proposal, MdResult, Reunitarized
<1>8. Checksums'
  BY DEF Checksums, Expected
<1> QED BY <1>3, <1>4, <1>5, <1>6, <1>7, <1>8

LEMMA EvolveFaultIInv == IInv /\ EvolveFault => IInv'
<1> SUFFICES ASSUME IInv, EvolveFault PROVE IInv'
  OBVIOUS
<1> USE DEF IInv, EvolveFault, saved, loop, energies, chain
<1>1. gauge' \in Field
  BY FunctionsAssumption DEF Reunitarized
<1>2. TypeOK'
  BY <1>1 DEF TypeOK, HmcPc, SloppyAfterMd
<1>3. SavedStart' /\ Loops'
  BY DEF SavedStart, Loops
<1>4. OneFault'
  BY DEF OneFault, TypeOK
<1>5. Precise' /\ TestStart' /\ Hamiltonians' /\ FinalField'
  BY DEF Precise, TestStart, SloppyAfterMd, Hamiltonians, FinalField
<1>6. Checksums'
  BY DEF Checksums, Expected
<1> QED BY <1>2, <1>3, <1>4, <1>5, <1>6

LEMMA FinalHamiltonianIInv == IInv /\ FinalHamiltonian => IInv'
<1> SUFFICES ASSUME IInv, FinalHamiltonian PROVE IInv'
  OBVIOUS
<1> USE DEF IInv, FinalHamiltonian, saved, loop, chain
<1>1. TypeOK'
  BY FunctionsAssumption DEF TypeOK, HmcPc
<1>2. SavedStart' /\ Loops'
  BY DEF SavedStart, Loops
<1>3. OneFault' /\ Precise' /\ TestStart'
  BY DEF OneFault, Precise, TestStart
<1>4. Hamiltonians'
  BY DEF Hamiltonians, FinalField, Expected, Precise, TypeOK, TrueDeltaH
<1>5. FinalField'
  BY DEF FinalField, Expected
<1>6. Checksums'
  BY DEF Checksums, Expected
<1> QED BY <1>1, <1>2, <1>3, <1>4, <1>5, <1>6

LEMMA ReverseEvolveIInv == IInv /\ ReverseEvolve => IInv'
<1> SUFFICES ASSUME IInv, ReverseEvolve PROVE IInv'
  OBVIOUS
<1> USE DEF IInv, ReverseEvolve, saved, loop, energies, chain
<1>1. SloppyInMd \in BOOLEAN
  BY MdPrecision DEF TypeOK, HmcArg
<1>2. gauge' \in Field /\ noise' \in Noise
  BY <1>1, FunctionsAssumption DEF TypeOK
<1>3. TypeOK'
  BY <1>2 DEF TypeOK, HmcPc, SloppyAfterMd
<1>4. SavedStart' /\ Loops' /\ OneFault'
  BY DEF SavedStart, Loops, OneFault
<1>5. Precise' /\ TestStart' /\ Hamiltonians'
  BY DEF Precise, TestStart, Hamiltonians, SloppyAfterMd
<1>6. FinalField'
  BY DEF FinalField, Expected, TypeOK
<1>7. Checksums'
  BY DEF Checksums, Expected
<1> QED BY <1>3, <1>4, <1>5, <1>6, <1>7

LEMMA ReverseTestIInv == IInv /\ reverseTest => IInv'
<1> SUFFICES ASSUME IInv, reverseTest PROVE IInv'
  OBVIOUS
<1> USE DEF IInv, reverseTest, saved, loop, energies, chain
<1>1. TypeOK'
  BY DEF TypeOK, HmcPc
<1>2. SavedStart' /\ Loops' /\ OneFault'
  BY DEF SavedStart, Loops, OneFault
<1>3. Precise' /\ TestStart' /\ Hamiltonians' /\ FinalField'
  BY DEF Precise, TestStart, Hamiltonians, FinalField, Expected
<1>4. Checksums'
  BY DEF Checksums, Expected
<1> QED BY <1>1, <1>2, <1>3, <1>4

LEMMA RestoreFinalStateIInv == IInv /\ restoreFinalState => IInv'
<1> SUFFICES ASSUME IInv, restoreFinalState PROVE IInv'
  OBVIOUS
<1> USE DEF IInv, restoreFinalState, saved, loop, energies, chain
<1>1. TypeOK'
  BY DEF TypeOK, HmcPc, FinalField
<1>2. SavedStart' /\ Loops' /\ OneFault'
  BY DEF SavedStart, Loops, OneFault
<1>3. Precise' /\ TestStart' /\ Hamiltonians' /\ FinalField'
  BY DEF Precise, TestStart, Hamiltonians, FinalField, Expected
<1>4. Checksums'
  BY DEF Checksums, Expected
<1> QED BY <1>1, <1>2, <1>3, <1>4

LEMMA GlobalChecksumIInv == IInv /\ GlobalChecksum => IInv'
<1> SUFFICES ASSUME IInv, GlobalChecksum PROVE IInv'
  OBVIOUS
<1> USE DEF IInv, GlobalChecksum, saved, energies, chain
<1>1. Checksum(gauge) \in Int /\ checksum' \in [{0, 1} -> Int]
  BY FunctionsAssumption DEF TypeOK
<1>2. TypeOK'
  BY <1>1 DEF TypeOK, HmcPc, Loops
<1>3. SavedStart' /\ Precise' /\ Hamiltonians' /\ FinalField'
  BY DEF SavedStart, Precise, Hamiltonians, FinalField
<1>4. Loops'
  BY DEF Loops, TypeOK, HmcArg
<1>5. OneFault'
  BY DEF OneFault, TypeOK
<1>6. TestStart'
  BY DEF TestStart, TypeOK
<1>7. Checksums'
  <2>1. checksum'[test] = Checksum(gauge)
        /\ \A t \in {0, 1} : t # test => checksum'[t] = checksum[t]
    BY DEF TypeOK
  <2>2. test \notin faulty => Checksum(gauge) = Checksum(Expected)
    BY DEF FinalField
  <2>3. \/ test' = test /\ pc' = "reproduceTest"
        \/ test' = test + 1 /\ pc' = "init"
    OBVIOUS
  <2>4. UNCHANGED <<Expected, faulty>>
    BY DEF Expected
  <2> QED BY <2>1, <2>2, <2>3, <2>4 DEF Checksums, TypeOK
<1> QED BY <1>2, <1>3, <1>4, <1>5, <1>6, <1>7

\* A passed reproducibility test leaves the field a fault-free test ends with:
\* of two tests with equal checksums one at least had no fault.
LEMMA ReproducedField ==
  ASSUME IInv, pc = "reproduceTest", ReproduceOk
  PROVE  gauge = Expected
<1> USE DEF IInv
<1>1. gauge \in Field /\ Expected \in Field
  BY ProposalType DEF TypeOK, Expected
<1>2. CASE ~hmc_arg.reproduce
  <2>1. faulty = {}
    BY <1>2 DEF OneFault, Loops
  <2>2. test \in {0, 1} /\ checksum[test] = Checksum(Expected)
    BY <2>1 DEF Checksums, TypeOK
  <2> QED BY <1>1, <2>2, ChecksumAssumption DEF Checksums
<1>3. CASE hmc_arg.reproduce
  <2>1. test = 1 /\ checksum[0] = checksum[1]
    BY <1>3 DEF Loops, ReproduceOk
  <2>2. PICK t \in {0, 1} : t \notin faulty
    BY DEF OneFault
  <2>3. checksum[t] = Checksum(Expected)
    BY <2>1, <2>2 DEF Checksums
  <2>4. Checksum(gauge) = Checksum(Expected)
    BY <2>1, <2>3 DEF Checksums
  <2> QED BY <1>1, <2>4, ChecksumAssumption
<1> QED BY <1>2, <1>3

\* A failed one means that a fault was there to be found.
LEMMA NotReproducedFault ==
  ASSUME IInv, pc = "reproduceTest", ~ReproduceOk
  PROVE  faulty # {} /\ hmc_arg.reproduce
  BY DEF IInv, Checksums, Loops, ReproduceOk

LEMMA ReproducedIInv == IInv /\ Reproduced => IInv'
<1> SUFFICES ASSUME IInv, Reproduced PROVE IInv'
  OBVIOUS
<1>0. gauge = Expected
  BY ReproducedField DEF Reproduced
<1> USE DEF IInv, Reproduced, Unaffected, saved, energies, chain
<1>1. TypeOK'
  BY DEF TypeOK, HmcPc
<1>2. SavedStart' /\ Loops' /\ OneFault'
  BY DEF SavedStart, Loops, OneFault
<1>3. Precise' /\ TestStart' /\ Hamiltonians'
  BY DEF Precise, TestStart, Hamiltonians
<1>4. FinalField'
  BY <1>0 DEF FinalField, Expected
<1>5. Checksums'
  BY DEF Checksums, Expected
<1> QED BY <1>1, <1>2, <1>3, <1>4, <1>5

LEMMA RetryAttemptIInv == IInv /\ RetryAttempt => IInv'
<1> SUFFICES ASSUME IInv, RetryAttempt PROVE IInv'
  OBVIOUS
<1>0. hmc_arg.reproduce
  BY NotReproducedFault DEF RetryAttempt
<1> USE DEF IInv, RetryAttempt, Unaffected, saved, energies, chain
<1>1. TypeOK'
  BY DEF TypeOK, HmcPc
<1>2. SavedStart' /\ Loops' /\ OneFault'
  BY <1>0 DEF SavedStart, Loops, OneFault
<1>3. Precise' /\ TestStart' /\ Hamiltonians' /\ FinalField'
  BY DEF Precise, TestStart, Hamiltonians, FinalField, TypeOK
<1>4. Checksums'
  BY DEF Checksums, Expected
<1> QED BY <1>1, <1>2, <1>3, <1>4

LEMMA FailedToReproduceIInv == IInv /\ FailedToReproduce => IInv'
<1> SUFFICES ASSUME IInv, FailedToReproduce PROVE IInv'
  OBVIOUS
<1>0. faulty # {}
  BY NotReproducedFault DEF FailedToReproduce
<1> USE DEF IInv, FailedToReproduce, Unaffected, saved, energies, chain
<1>1. TypeOK'
  BY DEF TypeOK, HmcPc
<1>2. SavedStart' /\ Loops' /\ OneFault'
  BY DEF SavedStart, Loops, OneFault
<1>3. Precise' /\ TestStart' /\ Hamiltonians' /\ FinalField'
  BY DEF Precise, TestStart, Hamiltonians, FinalField
<1>4. Checksums'
  BY <1>0 DEF Checksums, Expected
<1> QED BY <1>1, <1>2, <1>3, <1>4

\* The Metropolis step hands over the new field or exactly the old one.
LEMMA RejectedField == IInv /\ Reject => gauge' = start.gauge
  BY DEF IInv, Reject, EndTrajectory, Accepted, SavedStart, NeedsInitialField

LEMMA EndTrajectoryIInv == IInv /\ (Accept \/ Reject) => IInv'
<1> SUFFICES ASSUME IInv, Accept \/ Reject PROVE IInv'
  OBVIOUS
<1>0. /\ gauge' \in Field
      /\ GupdCnt' \in Nat
      /\ EndTrajectory
  BY RejectedField DEF IInv, TypeOK, Accept, Reject, EndTrajectory
<1> USE DEF IInv, EndTrajectory, saved, loop, energies
<1>1. rng' \in Rng
  BY <1>0, FunctionsAssumption DEF TypeOK, RngAfterTest
<1>2. TypeOK'
  BY <1>0, <1>1 DEF TypeOK, HmcPc
<1>3. SavedStart' /\ Loops' /\ OneFault'
  BY <1>0 DEF SavedStart, Loops, OneFault
<1>4. Precise' /\ TestStart' /\ Hamiltonians' /\ FinalField' /\ Checksums'
  BY <1>0 DEF Precise, TestStart, Hamiltonians, FinalField, Checksums
<1> QED BY <1>2, <1>3, <1>4

LEMMA StutterIInv == IInv /\ UNCHANGED vars => IInv'
<1> SUFFICES ASSUME IInv, UNCHANGED vars PROVE IInv'
  OBVIOUS
<1> USE DEF IInv, vars
<1>1. TypeOK'
  BY DEF TypeOK
<1>2. SavedStart' /\ Loops' /\ OneFault' /\ Precise'
  BY DEF SavedStart, Loops, OneFault, Precise
<1>3. TestStart' /\ Hamiltonians'
  BY DEF TestStart, Hamiltonians
<1>4. FinalField' /\ Checksums'
  BY DEF FinalField, Checksums, Expected
<1> QED BY <1>1, <1>2, <1>3, <1>4

LEMMA NextIInv == IInv /\ [Next]_vars => IInv'
  BY SaveInitialStateIInv, InitTestIInv, HeatbathIInv, InitialHamiltonianIInv,
     EvolveIInv, EvolveFaultIInv, FinalHamiltonianIInv, ReverseEvolveIInv,
     ReverseTestIInv, RestoreFinalStateIInv, GlobalChecksumIInv,
     ReproducedIInv, RetryAttemptIInv, FailedToReproduceIInv,
     EndTrajectoryIInv, StutterIInv
  DEF Next

\* Every point of run() knows what IInv says: the invariant the others follow
\* from.
THEOREM Invariance == Spec => []IInv
  BY InitIInv, NextIInv, PTL DEF Spec

\* The variables have their types; in particular no step copies a field buffer
\* or a generator state nothing was saved to.
THEOREM TypeCorrect == Spec => []TypeOK
<1>1. IInv => TypeOK
  BY DEF IInv
<1> QED BY <1>1, Invariance, PTL

\* Every test starts from the state run() was called in.
THEOREM TestsStartAlike == Spec => []SameStart
<1>1. IInv => SameStart
  BY DEF IInv, TestStart, SameStart
<1> QED BY <1>1, Invariance, PTL

\* The Metropolis test decides on the energy change of the trajectory at hand.
THEOREM DecisionOnTrueDeltaH == Spec => []DeltaHExact
<1>1. IInv => DeltaHExact
  BY DEF IInv, Hamiltonians, DeltaHExact, TypeOK
<1> QED BY <1>1, Invariance, PTL

\* The program stops only because of a fault.
THEOREM StopMeansFault == Spec => []StopsOnlyIfFaulty
<1>1. IInv => StopsOnlyIfFaulty
  BY DEF IInv, Checksums, StopsOnlyIfFaulty
<1> QED BY <1>1, Invariance, PTL

-----------------------------------------------------------------------------
(* The refinement of HmcChain. *)

LEMMA InitChain == Init => Chain!Init
  BY SortsAssumption DEF Init, Chain!Init

\* Inside run() the chain stands still: it moves when run() returns or stops.
LEMMA StepChain == IInv /\ [Next]_vars => [Chain!Next]_(Chain!vars)
<1> SUFFICES ASSUME IInv, [Next]_vars PROVE [Chain!Next]_(Chain!vars)
  OBVIOUS
<1>1. CASE saveInitialState
  BY <1>1 DEF saveInitialState, Chain!vars, IInv, TypeOK, HmcArg
<1>2. CASE InitTest \/ Heatbath \/ InitialHamiltonian \/ Evolve
           \/ EvolveFault \/ FinalHamiltonian
  BY <1>2 DEF InitTest, Heatbath, InitialHamiltonian, Evolve, EvolveFault,
              FinalHamiltonian, saved, loop, chain, energies, Chain!vars
<1>3. CASE ReverseEvolve \/ reverseTest \/ restoreFinalState \/ GlobalChecksum
  BY <1>3 DEF ReverseEvolve, reverseTest, restoreFinalState, GlobalChecksum,
              saved, loop, chain, Chain!vars
<1>4. CASE Reproduced \/ RetryAttempt
  BY <1>4 DEF Reproduced, RetryAttempt, Unaffected, chain, Chain!vars
<1>5. CASE FailedToReproduce
  BY <1>5 DEF FailedToReproduce, Unaffected, chain, Chain!Next, Chain!Halt
<1>6. CASE Accept
  <2>1. gauge' = Proposal(hmc_arg, start.gauge, start.rng)
    BY <1>6 DEF Accept, EndTrajectory, IInv, FinalField, Expected
  <2>2. rng' \in {AfterHeatbath(start.rng), AfterUniform(AfterHeatbath(start.rng))}
    BY <1>6 DEF Accept, EndTrajectory, RngAfterTest, IInv, TestStart
  <2> QED BY <1>6, <2>1, <2>2 DEF Accept, EndTrajectory, Proposal, MdResult,
             Chain!Next, Chain!Accept, Chain!RngAfterTrajectory
<1>7. CASE Reject
  <2>1. gauge' = start.gauge
    BY <1>7, RejectedField
  <2>2. rng' \in {AfterHeatbath(start.rng), AfterUniform(AfterHeatbath(start.rng))}
    BY <1>7 DEF Reject, EndTrajectory, RngAfterTest, IInv, TestStart
  <2> QED BY <1>7, <2>1, <2>2 DEF Reject, EndTrajectory, Chain!Next,
             Chain!Reject, Chain!RngAfterTrajectory
<1>8. CASE UNCHANGED vars
  BY <1>8 DEF vars, Chain!vars
<1> QED BY <1>1, <1>2, <1>3, <1>4, <1>5, <1>6, <1>7, <1>8 DEF Next

\* AlgHmc::run implements the Markov chain of HmcChain: a field is handed over
\* only if it is the fault-free result or the old field.
THEOREM Refinement == Spec => ImplementsChain
<1>1. Spec => Chain!Spec
  BY InitChain, StepChain, Invariance, PTL DEF Spec, Chain!Spec
<1> QED BY <1>1 DEF ImplementsChain

=============================================================================
