# A verification project for CPS

CPS (the Columbia Physics System) simulates lattice quantum chromodynamics on
parallel machines.  Its heart is a Markov chain Monte Carlo program: it
generates gauge fields by Hybrid Monte Carlo (HMC) trajectories on a grid of
nodes, and stores them for measurements that may run elsewhere.  A mistake in
the control of that program rarely crashes it.  It biases a chain that takes
months to compute, or stops a machine of thousands of nodes in a sum that one
of them never enters.  This directory holds TLA+ models of the parts where such
mistakes could be made, TLC runs that check them on small instances, and TLAPS
proofs for all instances.

Paths are relative to `src/cps_pp/src/` unless they begin with another
directory of `src/cps_pp/`.  The build modelled is the one for QMP.

## 1. Inventory

| Part | State it keeps | Operations | What is hard | What makes it correct |
|---|---|---|---|---|
| **HMC driver** `alg/alg_int/alg_hmc.C` | saved initial and final field, saved generators, checksums of two tests, attempt and test counters, precision flag of the Wilson operator | `run` = save, heatbath, energy, evolve, reverse test, reproduce test, Metropolis | retries after hardware faults; state carried from one test to the next | each test starts alike; the decision uses the true energy change; faults never reach the chain |
| **Integrators** `alg_int_ab.C`, `alg_int_leap.C`, `..omelyan*.C`, `..campostrini.C`, `..force_grad.C`, `..sum.C`, `alg_momentum.C` | step sizes and repetitions per level of a tree; the field moved aside by a force gradient | `evolve(dt, steps)` of A and B in turn, `prepare_fg` | joined half steps; nesting; a field moved and put back around a recursive call | reversible; each leaf evolves by the full time |
| **Pseudofermion actions** `alg_action_fermion/quotient/boson/rational/rational_split/rational_quotient.C`, `minresext.C` | cached energies and their flags, ring of earlier solutions, `splitCheck`, counters | `init`, `heatbath`, `energy`, `evolve`, `prepare_fg`, `cost` | protocols over several calls; one action behind several leaves; history from before | energies current and counted once; no guess from an earlier test |
| **Metropolis step** `util/lattice/lattice_base/lattice_base.C` (`MetropolisAccept`, `SoCheck`) | decision flag, generator | local decision, global sum, comparison of slices | nodes with slightly different numbers have to agree | one decision on all nodes, or all stop |
| **Global sums** `comms/qmp/scu/glb_sum2.C`, `comms/qmp/glb_cpp/*` | buffers, messages under way | `glb_sum_internal2`, `glb_sum`, `slice_sum`, `glb_sum_multi_dir`, ... | buffers reused, nodes running ahead, rounding that depends on the order | a barrier; bitwise the same sum everywhere |
| **Neighbour communication** `comms/qmp/scu/get_data.C` | message handles per direction | `getPlusData`, `getMinusData`, `getMinus2Data`, `getMinus3Data` | handles outlive the buffers they were declared for | the neighbour's block arrives |
| **Data shift** `util/data_shift` | origin per direction | `SetOrigin`, `Shift` | all coordinates are relative afterwards | sums do not depend on the origin |
| **I/O time slots** `util/qcdio/comsrc/qioarg.C`, `util/qcdio/qmp/qioarg_glb.C` | batch bounds, concurrency | `getIOTimeSlot`, `finishIOTimeSlot`, `synchronize` | node 0 commands in one loop, others follow in different ones | sums match; at most n nodes at once; nobody forgotten |
| **Storing and loading** `util/qcdio/comsrc/iostyle.C`, `WriteLatticePar.C`, `ReadLatticePar.C`, `util/random/comsrc/latrngio.C` | file, header with checksum, blocks on their way through the grid | `ParallelIO::store/load`, `SerialIO::store/load`, `remap`, `shift_data` | index arithmetic over grids; failing calls, retries; kills in the middle | file independent of the grid; what is loaded is what was stored, or is refused |
| **Gauge field scope** `lattice_base.C` (constructor, destructor), `lat_cont.C`, `util/dirac_op/d_op_base`, `util/parallel_transport/pt_*`, `util/lattice/convert` | three scope locks; order, boundary signs, anisotropy and smearing of the one gauge field | constructors and destructors, `Convert`, `Smear` | transformations undone by destructors in any nesting | the field is canonical again when all objects are gone |
| **Random numbers** `util/random/comsrc/random.C`, `rng_state.C` | a generator per 2^4 (2^5) sites, half-used Gaussian pairs | `Initialize`, `AssignGenerator`, `GetStates`, `SetStates`, `Read`, `Write` | numbering on nodes, on the lattice and in files; what a saved state leaves out | numbers do not depend on the machine; a restored generator goes on as the saved one |
| **Checkpoints** `production_code/rhmc/*` | a gauge file, a generator file, nine parameter files, a trajectory number | main loop, `checkpoint`, restart | kills between files | a restart continues the same chain |
| **Rational approximations** `alg/alg_remez`, `generateApprox` of `alg_action_rational.C` | poles and residues per mass | generate or copy | which parameters make two of them equal | each mass has its own approximation |
| Gauge action, Hamiltonian, force norms `alg_action_gauge.C`, `alg_hamiltonian.C` | - | forces and energies | - | numerical |
| Older algorithms `alg/alg_hmd` | as above, in one function each | `run` | - | superseded by the driver, integrators and actions above |
| **Heat bath** `alg/ghb/comsrc/ghb.C`, `util/gauge_field` | a gauge field with a halo on each node, recorded lists of halo links, generators | `GheatBath::run`, `refresh`, `recordOffsetStart`, `fetchLinks` | threads and nodes update links at the same time; only part of the halo is fetched | as if the links were updated one after the other; the same on every machine |
| Overrelaxation, gauge fixing `alg/alg_overrelax`, `util/lattice/fix_gauge` | - | sweeps, iterations | convergence | numerical, one node at a time in lockstep |
| Dirac operators, solvers, lattice actions, parallel transport kernels `util/dirac_op`, `util/lattice/f_*`, `util/parallel_transport` | work vectors | linear algebra | - | numerical |
| Measurements `alg/alg_w_spect`, `alg_s_spect`, `alg_qpropw`, `alg_nuc3pt`, `alg_pbp`, `alg_pot`, `alg_smear`, ... | propagators | contractions | - | numerical |
| Parameters `util/gjp`, `alg/alg_arg`, `util/libmarshall` | global parameters; text files | decode, encode | - | constant during a run |
| Formats and SciDAC files `util/qcdio/comsrc/fpconv.C`, `latheader.C`, `qio_*.C` | - | conversions, call-backs of a library | - | numerical, external |
| Memory, vectors, timing, messages; other machines' communication | - | - | - | - |

How they interact: a main program builds a tree of integrators over momenta and
actions and calls `AlgHmc::run` once per trajectory.  `run` calls the tree
(`heatbath`, `energy`, `evolve`, `reverse`), the lattice (`CopyGaugeField`,
`Reunitarize`, `MetropolisAccept`) and the generators; the leaves of the tree
call solvers, which sum over all nodes.  The
heat bath is another main algorithm, on fields of its own class whose halos are
filled through `getPlusData` and `getMinusData`.  Between trajectories the program
stores fields and generators through the I/O classes, whose nodes talk in
global sums and neighbour shifts.  Everything is one program on all nodes
(SPMD); nodes share nothing, so every interaction between nodes is a message or
a global sum.

The places where this goes wrong without a test noticing are the `hazards` of
`PROJECT.json`, each with its line and the properties about it.

## 2. Modules

| Module | Models | Built on |
|---|---|---|
| `HmcChain` | what a trajectory promises: a Markov chain | - |
| `Hmc`, `HmcInv`, `Hmc_proofs` | `AlgHmc::run`; its inductive invariant; proofs | refines `HmcChain` |
| `Integrator`, `Integrator_proofs` | `evolve()` of the tree of integrators | - |
| `PseudoFermions`, `PseudoFermions_proofs` | the actions' protocol under `AlgHmc::run`; proofs | - |
| `Metropolis`, `Metropolis_proofs` | `MetropolisAccept` and `SoCheck` on all nodes | uses sums as `GlobalSum` states |
| `GlobalSum` | what a global sum promises: barrier, one value | - |
| `RingSum`, `RingSum_proofs` | `glb_sum_internal2`, `slice_sum` and `glb_sum_multi_dir` with their messages | refines `GlobalSum` |
| `GetData` | `getPlusData`, `getMinusData`, `getMinus2Data`, `getMinus3Data` with handles, buffers and messages | - |
| `IoSlots` | `QioControl`'s time slots | - |
| `LatticeIo`, `LatticeIo_proofs` | `ParallelIO`, `SerialIO` and their callers; proofs about them and the time slots | extends `IoSlots` |
| `GaugeScope`, `GaugeScope_proofs` | what `Lattice`, `DiracOp` and `ParTrans` objects do to the one gauge field | - |
| `LatRanGen` | the random number generators of the lattice (operators) | - |
| `EvolutionChain` | what an evolution promises: one chain, however often it is interrupted | - |
| `Checkpoint` | the main program of an evolution, with kills and restarts | extends `LatRanGen`, refines `EvolutionChain` |
| `LinkSweep` | what a heat bath promises: links updated one after the other | - |
| `HeatBath`, `HeatBath_proofs` | `GheatBath::run` with threads, nodes and halos; proofs | refines `LinkSweep` |

`MCHmc`, `MCIntegrator`, `MCPseudoFermions`, `MCMetropolis`, `MCRingSum`,
`MCGetData`, `MCLatticeIo`, `MCGaugeScope`, `MCCheckpoint` and `MCHeatBath` give the
constants values for TLC.  Operators named `..._Bug` are
plausible mistakes; with one of them in place of the right definition TLC finds
the property it belongs to violated (`mutants` in `PROJECT.json`).

The layers meet in their abstractions.  `Hmc` takes a molecular dynamics
trajectory as a function of field, noise and precision: that is what
`PseudoFermions` (no memory of earlier tests, energies of this moment) and
`Integrator` (reversible) are about.  `Hmc`'s Metropolis step is one step: that
is what `Metropolis` shows for all nodes, and it takes global sums as barriers
with one value, which is what `RingSum` implements.  `Checkpoint` takes a
trajectory as one step of the chain, as `Hmc` implements it, and a file as
absent, partial (and refused) or complete: `LatticeIo` shows that a load of
fields or generators returns what was stored or is refused.  (That an unnoticed
failure leaves such a file, too, is in `LatticeIo` for these and in `Checkpoint` for the
argument files.)

## 3. State and actions, and the code they stand for

The `map` of `PROJECT.json` gives the lines of every definition.

**Hmc.**  `gauge`, `rng`, `noise` and `sloppy` are the lattice's field, `LRG`,
the momenta and pseudofermions held by the integrator tree, and the precision
flag of the Wilson operator; the other variables have the names of `AlgHmc`'s
members and of `run`'s locals.  Each action is a stage of `run`:
`saveInitialState`; `InitTest` (`init` and, for a repeated test,
`restoreInitialState`); `Heatbath`; `InitialHamiltonian`; `Evolve` (with the
reunitarisation) or `EvolveFault`; `FinalHamiltonian`; `ReverseEvolve`,
`reverseTest` and `restoreFinalState`; `GlobalChecksum`; `Reproduced`,
`RetryAttempt` or `FailedToReproduce`; `Accept` or `Reject`.  Fields, noise
and generator states are abstract values and the physics are functions of
them.  A hardware fault ends one test of an attempt in any field; it is
modelled where the code looks for it, that is with `reproduce` on, and at most
once per attempt: two equal faults in both tests cannot be detected.
Left out: the lattice shift of a repeated test (the shifts are 0 except on
QCDOC), the checks between s-slices, the results file.

**HmcChain.**  A step hands over either the old field or the proposal computed
from the field and generator state at the call, with the generator advanced
and the counter of updates increased when the field was replaced, or it halts.

**Integrator.**  `stack` is the call stack of `evolve`; each frame has the
position in the schedule of its integrator.  `Call(..., j)` is the j-th call of `A->evolve`, `B->evolve` or a force gradient that its class makes, with
the half steps joined between repetitions; `EvolveMomentum` and `EvolveAction` are the leaves;
`PrepareFg` and `RestoreField` are the two halves of the force gradient step
around the inner `evolve`.  Real numbers are a prime field, in which the
halves and coefficients of the schedules exist: an identity between the steps
that the code relies on holds there as well, and states are finite.

**PseudoFermions.**  `obj[a]` holds the members of an action: the draw its field
comes from, the noted energy and the flags that say whether it may be used,
`heatbathEval` and `energyEval`, `md_steps`, the ring of earlier solutions and
`fg_forecast`.
Actions are the calls the tree makes leaf by leaf: `Construct` (with `setSplit`
and `checkSplit`), `InitLeaf`, `Heatbath...`, `Energy...`, `PrepareFg...`,
`Evolve...` of the classes, and the stages of `AlgHmc::run` around them.  A
vector is the set of solutions it is a combination of.  `Schedules` gives the
sequence of calls of one trajectory.  `AlgActionQuotient` has the guesses of
`AlgActionFermion`, `AlgActionRationalQuotient` the protocol of
`AlgActionRational`.

**Metropolis.**  Nodes have a place `x` in a slice and a slice `s`.  `Enter`,
`Send`, `Receive`, `DeltaHChecked`, `Learn`, `FlagChecked` and `Stop` are the
pieces of `MetropolisAccept` and `SoCheck` between two points where the node
waits for others.  `delta_h` is an input per node.  `glb_sum` and
`glb_sum_five` are used in the way `GlobalSum` promises.

**RingSum.**  `pc`, `dir`, `itmp`, `coor` and the four buffers are the locals of
`glb_sum_internal2` on each node; `Start` starts a send and a receive,
`Deliver` is the message layer, `PassOn` and `LeaveDim` are the code after both
waits.  The message layer may copy the buffer when the send starts or take the
data from the sender's buffer later, which is all QMP promises.  Addition is
not associative: a sum is the function from coordinates to addends.
`machine` is the grid and the program of the job; `machine.sums[k]` is the set
of dimensions call `k` sums over: all of them for `glb_sum_internal2`, all but
one for `slice_sum`, one for `glb_sum_multi_dir`, whose `glb_sum_internal` has
the same ring.  `GlobalSum` is a barrier for the `Partners` of a call, the nodes
that share the coordinates not summed over.  A call all of whose dimensions are
undivided has no partners and returns at once, which is `CallAlone` there.

**GetData.**  `buf[n]` are the caller's two buffers and the three static ones,
`handle[n]` the pair of message handles `PassData` keeps for each direction,
with the buffers they were declared for.  A call is a sequence of `Transfers`;
each is `CopyLocally`, or `Start`, `Deliver` and `Complete`.  What node `n`
hands to its `k`-th call is the value `<<k, n>>`.

**IoSlots.**  `stage` is where a node is in `getIOTimeSlot` and
`finishIOTimeSlot`, `op` which global sum it enters next, `firstID` what it was
told last, `batch` the loop variable of node 0.  `getIOTimeSlot` and
`finishIOTimeSlot` are the calls and `GlobalSum` the sums between them; a sum is a step of all nodes, which is only
right because `SameSum` holds.

**LatticeIo.**  `node[n]` is the program counter, loop variables, buffers and
error of node `n`; `link` are the blocks under way; `file`, `flen` and `header`
are the file.  A behaviour is a job that stores and a job that loads: `Restart`
may come at any moment, so it is the crash as well as the normal end.
`Receive` and `Remap` are `shift_data` and `remap`; `SerialWrite`,
`SerialRead`, `SpreadSend`, `SpreadReceive` are `SerialIO` with `sSpread`;
`Write`, `WriteFails`, `WriteSkipped` and `Read` are the slot of `ParallelIO`
with its retries; `Synchronize`, `FillInChecksum` and `CheckChecksum` are the
callers.  The data of a site are its global number.  Calls fail in two ways.
`SerialWriteFails` and `WriteFails` are a `fopen` or `fwrite` whose result the
code looks at.  `FlushFails`, `CloseFails` and `FillInFails` are those it does
not ask: `Fflush` and `Fclose` (`iostyle.C:794`, `799`), `fclose` (540), and the
stream that fills in the checksum.  After one of these `store` returns as if nothing had
happened, over a file that lacks data or in which later blocks are out of place;
`lost` remembers it, for the properties only.  A checksum that was not filled in
reads 0 (`latheader.C:220`, 361).

**GaugeScope.**  `f` holds the field and the static variables of the classes:
`u` by memory index (a link is what was done to it: sign, powers of the two
anisotropy factors), `str_ord`, the locks of `DiracOp` and `ParTrans`, the
three variables called `old_str_ord`, and `smeared` with the smeared links.
`open` is the stack of objects.  Operators named like classes are constructors
and those ending in `End` destructors, from field to field, so that derived
classes call those of their base; the actions `OpenP4`, `CloseP4`, ... construct
and destroy an object where programs do.  `OpenAsqtad` and `CloseAsqtad` are the forces of
`Fasqtad` and `Fp4`, whose own conversions enclose their transporter;
`OpenSmear` and `CloseSmear` are `Smear` called outside of an operator, which
leaves smeared links behind for the operators that follow.  `Offset` says where each order keeps
a link.  That `BondCond` reckons in canonical order, whatever the order is, is
in the model: an object that calls it in another order would fail
`BoundaryWhileInUse`.

**LatRanGen.**  A generator is how it was seeded and how often it was visited.
`StartSeed`, `AssignGenerator` and the order of files are the index arithmetic
of `random.C` and of the I/O classes; `Numbers` is the field of numbers that
`RandGaussAntiHermMatrix` or `RandGaussVector` draws, and `AfterField` the
generators after it.

**Checkpoint.**  `pc` follows `main` through the loop; `disk` has the lattice,
generator and argument files of every checkpoint and the plaquette files;
`args`, `gauge`, `lrg` and `traj` are the memory of the process, gone when it
ends (`Leave`).  `StartProgram` decodes the youngest set of argument files that
is complete, on any machine, and seeds or reads the generators; the first
`Lattice` makes or loads the field, in the constructor of the first fermion
action (`AlgActionBilinear`).  `OpenFile` and `CloseFile` are the two
halves of writing a file, so that `Kill` may come between them.  `EncodeFails` is
the other end of an argument file: `Encode` never learns that a write failed
(`VML::Puts`, `vml.C:546-557`), so the program goes on and the set stays unusable.
`Saved` are the sets that can be continued from and are not being written.
A configuration is the sequence of fields of numbers it was made from.

**EvolutionChain.**  The state of the chain is a function of the number of
trajectories.  A program that is killed goes on from the youngest state saved,
and nothing else can change the chain.  A program that stops while it saves may
have saved enough (`Stop`).

**LinkSweep.**  A step updates one link, from all links and the state of one
generator as they are then, and no link is updated again before those near it had
their turn.  Near a link are the links its staple reads, the links whose staples
read it, and the links that share its generator; the updates of two links that
are not near each other commute, so distant parts of a large lattice may be in
different sweeps.  They are: a node waits for its neighbours only, so in a long
row of nodes the two ends may be a sweep apart.  An order of all links, which holds on
two nodes, was refuted by the attempt to prove it for every number of them.

**HeatBath.**  `link` holds the part of every `gauge_field` that is on its own
node, `halo[n]` the rest of node `n`'s; nothing was ever written to a halo link
with the value `Unset`.  `loop` and `pc` say where the loops over runs, iterations and colours
stand, `swept` where the loop over the sites of a colour does: one thread per
site, in any order.  `GetStaple` (`gfAllStaple`, which also records the halo
links it reads) and `UpdateLink` are two steps, so that threads interleave
between reading and writing.  `SendLinks` and `FetchLinks` are the halves of
`fetchLinks` around its transfers; `Requested` is the whole halo or the
recorded list.  A node may run ahead of its neighbours by one refresh, which is
why `sent` keeps the last two.  `EndColour` stores the list of a colour, `NewRun` is the next call of
`AlgGheatBath::run` on the same `GheatBath`.  The paths of the staples are those
of `gauge_field_functions.C` in two of the four directions.  Left out: the final
`gfUnitarize`, which acts on each link alone and removes rounding errors only,
and the arithmetic of the kernel (`NewLink` is a function of old link, staple
and generator state that tells different arguments apart).

## 4. Runs

| Run | Question | Bounds, and why they are enough |
|---|---|---|
| `hmc` | Does every test start alike, is the decision made on the true energy change, are faults and retries invisible, does every call end? | 3 fields, 3 generator states, 2 noises; all flag combinations; attempt limits 2 and the invalid 0, which means 3; 2 trajectories. State passes from one call to the next through the object, so two calls show what a longer chain would; three fields tell initial, final and faulty apart. |
| `ring` | Do fast neighbours, reused buffers and shifted data leave a sum over the grid, a plane or a line a barrier with one rounding? How many messages pile up? | A dimension of 1 node and a ring of 3 with origin -1, a sum over the first of them between sums over both; 2 x 2 nodes with origin (1,0) on which sums over a line, the grid and the other line follow each other. Three is the least ring in which a number is passed on; three sums let a node be one call ahead of another that is one ahead of a third. |
| `metropolis_slices` | Do all nodes decide alike and end alike, whatever their copies of the energy? | 2 slices of 2 nodes, differences below 0, of 1 and of 20, 2 generator states, of which one gives a number that accepts even exp(-20), one call from every generator state. |
| `integrator` | Is every scheme reversible and complete? | P = 7, every scheme alone and inside leapfrog or force gradient with a sum of two forces, 1 or 2 steps, every start field and momentum. P = 7 gives the six coefficients separate values; a wrong coefficient or an omitted half step is an identity that fails for some of the 49 starts. |
| `pseudofermions` | Are cached energies current and counted once, fields drawn once, poles evolved once, guesses of this test? | Five actions of all kinds, one shared by two splits with five ranges; leapfrog and force gradient schedules with up to 3 inner steps; 1 or 2 tests; 2 trajectories. The rings hold 2 solutions, so they wrap around within a trajectory. |
| `lattice_io` | Is a file the same from every grid, does a load restore or refuse it, do the nodes stay in step, does every job end? | Lattice 2 x 2 x 1 x 2 x 2 on 1, 2 x 2, 2 x 2 with a gap, and 2 x 2 slices. Stored serially: data of both dimensions on one node and on slices, 5-dimensional ones on 2 x 2, 4-dimensional ones with the gap; in parallel: 5-dimensional ones on one node and on 2 x 2, 4-dimensional ones on slices. Loaded on every kind of grid in both styles. Concurrency 3 and 1 of 4 (a short last batch, and one at a time); 2 tries instead of 20; one failing call in each job, whose result is looked at or ignored; a kill anywhere. Four nodes in two dimensions make the shift counter carry, in every pair of dimensions that differ in kind. |
| `gauge_scope` | Is the field as every object needs it while it exists, and as before when it is gone? Are smeared links made anew? | 2 sites in every direction: the least with both parities and a boundary that is not everywhere; all 16 boundaries and 4 anisotropic directions; 2 changes of the field; the operators of three fermion types, with transporters inside and outside of them, up to the depth the constructors nest, the forces and `Smear` on its own. |
| `checkpoint` | Is an evolution that is killed and continued, elsewhere and with other measurements, the same chain? Does it end? | 4 x 4 x 2 x 2 sites, 4 slices (8 hypercubes of 5 dimensions and 4 of 4), on 1, 2 and 4 nodes; 3 checkpoints of 11 files, 2 trajectories each; 2 kills or damaged argument files, one of which may hit the continuation of the other; one list of fates, in which accepted downhill, accepted uphill and rejected each occur as the first and as the second of the trajectories between two checkpoints. |
| `heat_bath` | Do threads and nodes that update links at once change the field as one thread would? Is the halo current wherever a staple reads it? | 8 x 4 sites: on 2 x 1 nodes each has 2 x 2 hypercubes, so that both checkers lie on both sides of a border, and on 1 node it is its own neighbour. Wilson and rectangle action (halos of 1 and 2); 2 iterations of one run, the second by the recorded lists, or 2 runs of one iteration, the second with a new field and the old lists. P = 101: a stale link or a changed order gives other numbers. |
| `oldest_solution_lost`, `serial_write_error`, `minus2_stale` | Is this sentence of the documentation true of the code? | The smallest instances in which it is not; section 7. |

Deadlock is checked in `gauge_scope` and in `heat_bath`, where nodes wait for
each other's messages: a finished job stutters there.  The other programs
modelled end, by returning after the last call or by stopping on an error.  That
they do not stop short of that is `Terminates`, `ImplementsGlobalSum` (whose
abstract specification has fairness), `EndsTogether`, `EndsUnlessAppendFailed`
and `Finishes`.

### Fairness

* `Hmc!FairSpec` has weak fairness of `Next`: `run` is one sequential program,
  which goes on.  Faults are not excluded, and a call ends even if every
  attempt is hit.  Starting another trajectory is a step of `Next` as well.
* `RingSum` and `Metropolis` have weak fairness of the step of each node: nodes
  run on processors of their own, and the message layer delivers.  A further
  call of `MetropolisAccept` is not required.
* `LatticeIo!FairIoSpec` has weak fairness of `Progress`, the steps of code
  that can go on.  Neither a failing file system call nor a kill nor a second
  job has to happen.
* `Checkpoint!Spec` has weak fairness of `Program`: the process goes on, and the
  user starts it again when it is gone.  No kill and no damaged file has to
  happen, nor is one excluded; their number is bounded.
* `Integrator`, `PseudoFermions`, `IoSlots`, `GetData`, `GaugeScope` and
  `HeatBath` are used for safety only.

## 5. Proofs

TLAPS proves, for all values of the constants that meet the named assumptions:

| Module | Theorem | Content |
|---|---|---|
| `Hmc_proofs` | `Invariance` | `IInv` is invariant |
| | `TypeCorrect` | nothing is restored from a buffer nothing was saved to |
| | `TestsStartAlike` | `SameStart` |
| | `DecisionOnTrueDeltaH` | `DeltaHExact` |
| | `StopMeansFault` | `StopsOnlyIfFaulty` |
| | `Refinement` | `Hmc` implements `HmcChain` |
| `RingSum_proofs` | `TypeCorrect` | no index leaves its ring, for every grid and origin |
| | `Invariance` | what every node holds, and which messages are under way |
| | `LinksBounded` | `BacklogBounded` |
| | `SumIsBarrier` | every step is one of `GlobalSum`: barrier, same additions in the same order |
| `Integrator_proofs` | `Palindromic` | the calls of A and B read the same backwards, for every scheme but the sum, all coefficients and repetitions |
| | `Trips` | where the calls on the stack began and what they have led to |
| | `TrajectoryReversible` | `Reversible` |
| | `ClockRight` | how far the calls on the stack have evolved each leaf |
| | `AllFullTime` | `FullTime` |
| `PseudoFermions_proofs` | `Invariance` | what the flags, poles, draws, vectors and sums say, at every call |
| | `OnlyThisTest` | `GuessesOfThisTest` |
| | `EachPoleOnce` | `PolesPartitioned` |
| | `TestsAgree` | `SameGuesses` |
| | `OneDrawForEach` | `HeatbathDrawsEachOnce` |
| | `EachEnergyOnce` | `EnergyCountedOnce` |
| `LatticeIo_proofs` | `ConcurrencyBounded` | at most `num_concur_io` nodes in a time slot |
| | `SumsMatch` | all nodes enter the same global sum |
| | `NoNodeForgotten` | the I/O is over only when all nodes had their turn |
| | `JobSlots` | the same three in jobs that store and load, are killed and restarted |
| | `ErrorsShared` | `ErrorSeenByAll` |
| | `IOInvariance` | which data every node, every block under way and the file have, in every round |
| | `FileOrdered` | `FileInGlobalOrder`, for failures that `store` looks at |
| | `PartsRight` | `PartsInPlaceOtherwise` |
| | `StoredIsLoaded` | `LoadRestores` of every file whose checksum is filled in and that lacks no data (`~lost`), `SlicesLost` excepted |
| `Metropolis_proofs` | `Invariance` | what a node holds, has added and decided depends on no timing |
| | `DecisionsAlike` | `AllAgree` |
| | `OriginsDecide` | `DecisionIsOrigins` |
| | `GeneratorsAlike` | `GeneratorsInStep` |
| | `StopMeansDifference` | `StopsForCause` |
| `GaugeScope_proofs` | `Invariance` | which objects exist, and what the field looks like then |
| | `BoundaryAppliedOnce` | `BoundaryWhileInUse` |
| | `ScopesRestore` | `FieldRestored` |
| | `OrderAsNeeded` | `OrderInUse` |
| | `SmearedLinksCurrent` | `SmearedCurrent` |
| `HeatBath_proofs` | `ColoursIndependent` | no site of a colour lies within reach of a staple of another one |
| | `SweepInvariant` | lags, messages, halos, lists and what threads have read |
| | `SweepImplemented` | `ImplementsSweep` |

**Hmc.**  None of the safety properties is inductive: that a retry starts from
the state of the call follows from what `gauge_field_init` and `lrg_state`
hold, this from the flags having been fixed when they were saved, and that
only the fault-free field is accepted follows from what the checksum of the
first test says about the second.  `IInv` is the conjunction of nine parts, one
for each kind of knowledge: `SavedStart` (the copies), `Loops` (when the loops
go round), `OneFault`, `Precise`, `TestStart`, `Hamiltonians`, `FinalField`
and `Checksums`, besides the types.  The proof has a step for each action, and
in it a step for each part the action can disturb.  The refinement follows:
`Accept` and `Reject` map to a step of the chain, `FailedToReproduce` to its
halt, all others to stutters.  Assumptions: the functions have the types of
their names (`FunctionsAssumption`), two fields with one checksum are one field
(`ChecksumAssumption`).

**RingSum.**  The proof is for every number of dimensions, every grid, origin and
sequence of sums, and any mixture of messages that are copied and that are taken
from the sender's buffer.  Each part of `IInv` answers one question a reader has.

* What does a node hold?  `HoldsOK`: at dimension i, after hearing from r places,
  it has the partial sums of the r + 1 nodes ahead of it, each at its coordinate,
  and passes on the last one.  `Held` is the partial sum, by the recursion that
  defines `Ordered`; that this recursion has a solution is proved
  with the least level at which it would not (`OrderedExists`).
* Which message is this?  `LinksOK`: counting messages since the start of the
  program, `Sent` minus `Received` are under way, and the p-th of them is the
  number of the round of the call with that count.  Only the last one can still be
  in the sender's buffer, and then the sender waits - this is why both waits are
  needed.
* Who must have come how far?  `Barrier`: a node that is past dimensions 1..i of
  call k knows that all it adds up with along them have begun call k.  The step
  to the next dimension needs `NoOvertaking`: what a node has received from q
  places ahead was passed on q times, so a whole ring has heard of the call.

`LinksBounded` is `NoOvertaking` once around the ring.  `SumIsBarrier` maps the last
`LeaveDim` of a call to `Return`, the others to stutters, `Call` to `Call` or, where
no dimension is split, to `CallAlone`.  The attempt to prove it showed that
`GlobalSum` had no such step: before, no instance had a sum over undivided
dimensions only.  Assumed is that the origin is less than one turn away
(`MachineAssumption`).

**Integrator.**  Reversal of `evolve` needs that the schedule is a palindrome
(`Palindromic`): running the calls with reversed momenta then undoes them one by
one.  That a palindrome of reversible calls is reversible is an induction over
the tree; it is done without one, with a least relation.

* `Effect(t)` relates an integrator, a step, a number of repetitions and a state
  to the state that `evolve` leads to.  It is the least relation that contains
  the ends of every sequence of states joined by the calls of a schedule
  (`Closed`).  A property of all its members follows when those that have it
  are closed (`EffectLeast`), and so do: that nothing else is in it
  (`EffectInversion`), that sums of actions move the momenta by what depends on
  the field alone (`EffectKicks`), that every evolution is undone with
  reversed momenta (`EffectReverse`) and that it has one outcome (`EffectAlone`).
* A sum is not a palindrome; it is reversible because its operators commute,
  which is `EffectKicks`.  A call with force gradient is undone because the moved
  field is not changed by what is called, and is moved by the same force again.
* The program is not a relation but a stack of frames.  `Trips` says that the
  innermost frame has done a prefix of its calls since its own `evolve` began
  (`Innermost`), with the field set aside or not, and that every other frame
  can go on from whatever comes back to it (`Waiting`).  Forward, the root began
  at `begin`; back, at the reverse of what that led to.

That every leaf evolves for the whole time (`AllFullTime`) is another invariant of
the same stack, about clocks alone.

* Between two calls at the edge a scheme evolves B by the step and A by the step less
  the two halves at the edge (`InnerTimes`, one lemma for each scheme: the
  coefficients cancel, the halves and the quotient of Campostrini multiply back).
  Joined halves make up the rest (`SchemeTimes`), so that `evolve(tau, k)` evolves
  both operators by `k * tau` (`CallsTimes`).
* A call is divided into `A_steps` or `B_steps` steps that make up its time again
  (`StepsTime`).
* `ClockRight`: with the calls it has made a frame has advanced each leaf below A or
  B by their times (`OnTime`), and a frame that waits will have once the whole time of
  what it waits for has passed (`Awaiting`).

Assumed are the shape of trees, the type of a force and what makes clocks right.
`TreesAssumption`: a node is built from two that exist already; a sum is of actions and sums of them
(`alg_int_sum.C` warns that what does not commute must not be added up); what
is called with force gradient has a `prepare_fg`, and only actions and sums do
(`alg_int.C:38` stops the program otherwise).  `ForceAssumption`: forces are
numbers, and depend on the gauge field only, since `ForceOf` has no other
argument.

Clocks need `TimesAssumption`, of which each part is used.  Every number but zero has
an inverse, that is `P` is prime.  What is divided by is not zero: `A_steps`,
`B_steps` (modulo `P`, where the code has integers and floating point) and
`2 - sigma` of Campostrini, which is `2 - 2^(1/3)` in the code.  Every leaf is below the
root and none is below both operators of a node: such a leaf would evolve twice
as long.  A sum has one step of each operator: `AlgIntSum::evolve` passes on the step
as it is (`alg_int_sum.C:55`), so with more its operators would evolve for
longer; every program that fills in the parameters of a sum sets both to 1
(`quotient.C:136` in `tests/quotient_test` and the others).

**PseudoFermions.**  The proof is for every set of actions of all four kinds, every
tree, every sequence of calls, every number of solutions kept for each mass and
any number of trajectories.  All five properties need to know what the calls
so far have done to every action, and `IInv` says it in five parts.

* `PolesInv`: `splitCheck` is the disjoint union of the poles of the splits
  constructed so far; after the heatbath it is complete.  Either the action is a
  leaf itself, with all poles, or only splits of it are leaves.
* `DrawsInv`: the fields of the actions seen so far in a heatbath come from
  draws one to the number of these actions, in some order.
* `FlagsInv` is what makes `heatbathEval` and `energyEval` work although `init`
  does not reset them: outside of heatbath and evolution no rational action has
  `heatbathEval` set, because every leaf has been evolved by then
  (`AllEvolved`); within a stage each flag is set exactly for the actions
  seen so far.  An energy noted by `heatbath` is that of the present fields as
  long as `evolved` is false.
* `TermsInv`: the sum holds one term for each action seen so far.
* `HistoryInv`: a slot of the ring with a number below `md_steps`, and slot 0
  always, holds solutions of this test only.  The other slots may hold those of
  the test before or unwritten memory, and `OldSlot` shows that the index
  arithmetic never reaches them: the k-th of min(md_steps, chrono) earlier
  solutions is in a slot below `md_steps`.

`PseudoFermionsAssumption` says what a tree is: leaves are distinct, a split is a
leaf of a rational action, every action is reached, and one call of `evolve` of the
tree evolves every leaf.  The last is needed: a rational leaf that is never evolved
would keep the field of the first trajectory.

`SameGuesses` compares two runs of the same trajectory, call by call, although the
vectors still hold what the first left in them.  Its proof (`TestsAgree`) is about views:
a view of the state is the call that is due, the gauge field, the log and the
solutions in those slots that were written in this test, all without the number of the
test (`View`).

* A call leads from a view to one that depends on nothing else (`NextView`; `CallView`
  has a case for each kind of call).  What is outside of the view never gets into a
  guess (`MinResNames`), and a solve writes the slot that it adds to the view (`RingNames`).
* Each test begins with the same view (`BeginView`): the fields are drawn from the same
  random numbers (`FieldsInv`), `init` has cleared slot 0 and `md_steps`, and
  `fg_forecast`, which it does not reset, was used up, because every `prepare_fg` of the
  tree is followed by an `evolve` of the same leaf (`ForecastInv`; `PseudoFermionsAssumption`
  says so of the schedules).
* `ViewsInv` keeps the sequence of views of the first test: there is one that
  starts with the first view, goes on by `NextView` and ends with the log that was kept
  in `first`; the view of the second test is always a member of it.  Logs only
  grow, so what the second test has noted the first has noted at the same place.

**LatticeIo.**  The inductive invariant `SlotsInv` says that the machine is always
in one of four phases - starting, announcing the first or the last node of a
batch, working, finished - and what `op`, `stage`, `firstID` and `batch` are in
each.  `SumsMatch` is then immediate.  Division occurs only in the count of
batches, which has lemmas of its own.  The first three theorems are about the time
slots on their own (`IoSlots!Spec`); `JobSlots` is about the jobs of `LatticeIo`,
whose steps either leave the slots alone, take a step of them, or start them anew
on another machine (`Restart`).  `ErrorsShared` needs that the nodes leave the
`synchronize()` of `store` together (`ErrorInv`): as long as one has not, none is
past it, and the sum that lets them all go has seen every node's error.

The other theorems are about the data, for every lattice and every two grids
that divide it.  First comes the arithmetic that `iostyle.C` relies on.

* Numbers with sides as digits: `CoorNumber` and `NumberCoor` (a coordinate
  vector and its number determine each other), `Volumes` (parts times local sites
  are all sites) and `OwnSite` (each site has one owner and one local number).
* One round of `remap`: rows do not straddle parts of the file
  (`KeyUp`, `GoalUp`), so that a row that is picked brings sites to their places
  (`PickedRow`, `CopiedPlace`); and in one loop over all dimensions but the last
  every site comes by (`AllPicked`), because the last coordinate of a site's owner and that of the part of
  the file it is in are the same (`LastCoor`).
* `shift_data` counts: dimension d moves when all before it have made a full turn
  (`Carry`), the block from the neighbour is the one `node_x` says (`Hop`), and
  after as many shifts as there are parts everything is back (`FullTurn`).

`IOInv` then says of a job that lives (`Live`) what each node has in round i
(`NodeOK`), what the blocks under way are (`LinkOK`), and how much of the file
is written (`FileOK`).  Nodes may be rounds apart, a neighbour may have sent
several blocks that were not fetched yet; therefore blocks are numbered from the
start of the job (`Sent`, `Rcvd`), and the number tells the round they are for
(`CntUnique`).  The other two cases are `Dead` (all nodes have stopped, or node
0 of a serial job has left its loop after an error and the others can only shift
until they wait for it) and `SlicesLost` (section 7), of which it says that the
file stays as it is.  `StoredIsLoaded` adds `FilledIn`: the header has its
checksum only when all sites are in the file.

What the invariant says of the contents of the file it says as long as no call
has failed unnoticed (`~lost`); after that only the size of the file is known.
`FileOrdered` and `StoredIsLoaded` therefore cover any number of failing `fopen`
and `fwrite`, which `store` notices, and no failing `fclose`, `Fflush`, `Fclose`
or filling in of the checksum.  `ErrorsShared` is about the noticed ones as
well: an ignored one sets no `error`.  That a file that lacks data is refused is
`LoadRestores` in the run, where `lost` is no excuse; it rests on the
checksum.

**Metropolis.**  `AllAgree` speaks of two nodes that have returned; why they agree
lies in the messages of two `SoCheck`s that other nodes may still be in.  `IInv`
therefore says of every node what it holds and has sent and received
(`LinkInv`, `CheckInv`): the number passed to it in round r of a check is that of the
slice r behind it, and its flag tells whether one of those differs.  That a node
which has passed a check has compared all slices (`PassedInv`) then needs only that
S - 1 steps backwards around the ring reach every slice.  `AddendInv` says what a
node has put into the sums, `RngInv` how often a generator was called.  The proof
is for every number of slices and of nodes in a slice, all energy differences and
all functions; its only assumption is that of the module on the constants.

**GaugeScope.**  The four properties are one fact: the stack of objects determines
the field.  `IInv` has a case for each of the seven stacks that occur, and says of
each in which order the field is, which locks are set, whether the boundary
condition is applied and how often the anisotropic links are multiplied
(`Held`), besides what the statics `old_str_ord` of the classes hold
(`NotesOK`) - this is what makes the destructors find their way back.  `Held`
speaks of links, not of places in memory; the proof needs that `LinkAt` is
one-to-one in each order, so that `Convert` carries every link along and
`BondCond`, which reckons in canonical order, turns the sign of the right ones.
For the staggered orders this is arithmetic with the halves of the
checkerboard, and uses that the lattice is even.  The theorems assume
`OneGaugeUse`, the restriction on `PtGaugeUses` that section 7 explains: without it
the properties are false.

**HeatBath.**  Sites that are updated at the same time must not read each other.
Two sites of one colour have the same corner of their hypercubes, so the steps
between them are even; staples look at most two steps in one direction and not two
in both, so they end in the hypercube next door, which has the other parity -
also around the lattice, whose sizes are multiples of four.  That is
`ColoursIndependent`.

The refinement needs more: that the links a thread has read, many of them from
a halo that is a copy, are still the links themselves when it writes.  `IInv`
has nine parts.  `LoopInv` and `SweptInv` say where the loops may stand and, from
that, how often each link has been updated; `SentInv` that a message belongs to
a refresh its sender has entered, and `WireInv` that it still shows the
sender's links as long as somebody has to read them; `ReadyInv` that a node sweeps a colour
only after the nodes it reads from came to the refresh before it; `ListInv`
that a recorded list holds all halo links the staples of its colour read;
`HaloInv` that those links in the halo are the owner's own while the colour is swept; and
`ThreadInv` that a thread that has read its staple has the staple and the
generator of this very moment.  The core is why an update elsewhere disturbs
neither halo nor wire nor thread: by `ReadyInv` a neighbour is in the same colour,
out of reach by `ColoursIndependent`, or waits for this node before it can be in
another one.  Lemmas that name the variables a part depends on dispose of the
actions that leave them alone.  `UpdateLink` maps to `Update`, everything else to a
stutter.

Assumed are the sizes (`HeatBathAssumption`; `ghb.C` states them in a comment and
does not test them) and `StaplesInReach`: paths stay within reach and within the
halo, and a link is read by the links it reads.  TLC evaluates both on the
paths of the source.

Only model-checked: everything temporal with fairness (`Terminates`, the
liveness half of the refinements, `EndsTogether`, `EndsUnlessAppendFailed`),
since ENABLED is beyond the prover; what `LatticeIo` says with checksums, which
are sums over sets (that a load returns nothing from a file whose checksum was
not filled in and nothing when `SlicesLost`, in `LoadRestores`;
`StopsForAReason`); the properties of `Checkpoint`; `SameOnAnyMachine` of
`HeatBath`, which compares with a fold over the sites in order.

## 6. What is left out

* The 130 000 lines of numerical kernels, and with them convergence, rounding
  and statistics.  A solver is one step with an abstract solution.
* Two different fields with one checksum, and a field whose checksum is 0,
  as in a header that was not filled in.
* An argument file that is cut off inside its very last value: `sscanf` reads
  what is there, and the results of several types are not looked at
  (`vml_encoder.C:188-190`, 236-239; `vml.C:224`).  One that is cut off earlier lacks a
  line, which `Decode` notices.
* Number formats, header text, the plaquette check on loading, checksums that
  depend on positions.
* Minima and maxima over the grid, `glb_sum_dir`, the 64-bit checksum sums; the
  communication layers of other machines.
* The counters of solver calls, which are only printed.
* Overrelaxation: one thread per node, and the nodes go through their sites in
  step, because every staple exchanges links with the neighbours; a plaquette
  staple never needs the link a neighbour is updating at that moment. What is
  left is numerical.
* The older algorithms of `alg_hmd`: one function each, with the trajectory written
  out and a single Metropolis step.  Only `AlgHmcRHMC` has a loop of
  repeated attempts, which never goes round (section 7).
* A `GheatBath` that is used with the Wilson action first and with the rectangle
  action later: its lists would be too short.  No caller does that, and the jobs
  of `heat_bath` keep one action.
* Machines that spread the fifth direction, in `Checkpoint`: `Lattice` stops on
  them at once (`GsoCheck`, `lattice_base.C:2875`, which a switch in the source
  turns off).  `Metropolis`, `RingSum` and `LatticeIo` are used before any
  `Lattice` exists or look at what the code does with that switch off.
* The results of `AlgHmc`, in `Checkpoint`: a trajectory that is made again after a
  restart is appended to its file again, which nobody empties
  (`quotient.C:197-198`).  `MeasuredOnce` is about the plaquette files, which are.
* What a program does with a refused file: `LatRngRead` returns, and a caller
  that does not look at `good()` goes on with what was read.
* The parts marked `not_modelled` in `PROJECT.json`, with the reason for each.

## 7. Where code and documentation disagree

* **`oldest_solution_lost`.**  When the ring of earlier solutions is full, the
  oldest vector given to `MinResExt` is the vector the guess is written to, and
  it is cleared first.  With `chrono = 1` the guess is always zero.
* **`serial_write_error`.**  A failed `fwrite` in `SerialIO::store` is known to
  node 0 only, which synchronises with nodes that wait for its next block.
* **`minus2_stale`.**  `PassData` keeps its message handles per direction, with the
  buffers of the call that declared them.  After `getMinus3Data` the next
  `getMinus2Data` sends what the earlier call left in another buffer:
  `NLocalPropS` gets wrong propagators whenever two directions are split.

Others have no run of their own.  `SerialIO::load` of four-dimensional data with
several slices in s shifts s once too often: the slices clone data nobody read,
where `iostyle.C` says "clone the lattice from s==0 nodes to all s>0 nodes", and
the load ends in a checksum error.  `lattice_io` makes the exception
`SlicesLost` for it; without the exception (`PartsInPlace` as the invariant) TLC
finds it at once. `AlgApeSmear` keeps the list of halo links it fetches in a
static variable that is recorded once (`alg_smear.C:399`): after smearing within
hyperplanes, smearing of another kind reads a halo that was not fetched.
`AlgHmcRHMC::run` means to "try again" when two runs differ
(`alg_hmc_rhmc.C:821`), but `CompareGaugeField` has left the program by then
(`lattice_base.C:415`); and the shift by one node between its two runs makes an
uninitialised number of transfers in the QMP build (`a_disp`,
`util/data_shift/qmp/shift_util.C:50`).  `AlgHmc` compares checksums and shifts
by 0, so neither reaches the models.

`store` returns normally, and prints that it is done, over an incomplete file when `fclose`
(`iostyle.C:540`), `Fflush` (794), `Fclose` (799) or the filling in of the checksum
fails late, on a full disk or a lost server.  `lattice_io` has these failures;
such a file is refused when it is loaded, but the job that stored it has gone
on.  `Encode` never reports a failed write either (`vml.C:546-557`); `checkpoint`
has that, and the evolution goes on from the set before.

Three are a matter of one line.  The documentation of `MetropolisAccept` says twice "If
`delta_h` is greater than or equal to 20 the routine always rejects"
(`lattice_base.C:2327`, 2399).  The test is commented out (2354): the code
accepts with probability exp(-delta_h), however small that is, and
`DecisionIsOrigins` states what the code does; `metropolis_slices` has a
difference of 20 that is accepted.
`MetropolisAccept` writes the acceptance probability, documented to be "written
to `accept`" (`lattice_base.C:2328`), on the node at the origin only, so that
`AlgHmc::run` returns an undefined value elsewhere.  Every
`AlgActionRationalSplit` adds the solver calls of the action it shares
(`alg_action_rational_split.C:91`), whose counters `init` never resets: the
costs reported are too high and grow.  `AlgGheatBath` promises a
"Cabbibo-Marinari SU(N) heatbath update" (`include/alg/alg_ghb.h:25-27`), but the
kernel it calls proposes links and accepts or rejects them by the Metropolis rule
(`metropolis_kernel`, `alg/ghb/noarch/ghb_krn.C:73`); `HeatBath` depends on
neither.

`gauge_scope` is restricted to programs that use `ParTransGauge` either inside or
outside of a `DiracOp`, as those of the repository do.  With both
(`PtGaugeUses <- {{"inside", "outside"}}`) TLC finds `FieldRestored` and
`OrderInUse` violated: the static `old_str_ord` of the first use is undone by the
second (`pt_gauge.C:60`).  Whether a program can have both is a matter of the
build: the use inside an operator exists only with `USE_CG_DWF_WRAPPER`; outside,
the rectangle force of the noarch and bgq builds and the Wilson force of noarch
do without `ParTransGauge`.  The runs and theorems say nothing of programs with both.

`lattice_io` states its properties with these exceptions of the serial style named
(`SlicesLost`, `AppendFailed`) so that it shows there are no others.

## 8. Plan

Done: the core (`Hmc`), what it relies on (`Integrator`, `PseudoFermions`,
`Metropolis`, `RingSum`, `GetData`, `GaugeScope`, `LatRanGen`), the heat bath
(`HeatBath`), storage (`IoSlots`,
`LatticeIo`) and what is built on them (`Checkpoint`).  To do, in order:

1. Theorems: the order of files in
   `Checkpoint` (a complete set of argument files has its lattice and
   generators).
2. The force and smearing classes that fetch halos by recorded offsets, as further
   users of the halo of `HeatBath`.
3. Generation and sharing of rational approximations between masses.
