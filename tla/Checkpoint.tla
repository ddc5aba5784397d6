------------------------------ MODULE Checkpoint -----------------------------
(***************************************************************************)
(* The main program of an evolution with dynamical fermions: it measures   *)
(* on every configuration, runs AlgHmc, and after Period trajectories      *)
(* writes the lattice, the random number generators and its own argument   *)
(* files, from which it can be started again.  It may be killed between    *)
(* any two steps, and in the middle of writing a file.                     *)
(*                                                                         *)
(* A file is absent, "partial", or complete; Decode, LatRngRead and        *)
(* ReadLatticeParallel all notice a partial one.  (Decode does so when a   *)
(* line is missing: an argument file cut off inside its very last value,   *)
(* which sscanf reads as far as it goes, is not modelled.)  Encode never   *)
(* learns of a failed write, because Puts does not ask Fprintf; the other  *)
(* two writers stop the program when fopen or fwrite fails.  A             *)
(* configuration is the sequence of the fields of random numbers it was    *)
(* made from, each with the seeds of the generators.                       *)
(***************************************************************************)
EXTENDS LatRanGen, Sequences

CONSTANTS
  ArgFiles,        (* the argument files, in the order they are written    *)
  Fates,           (* outcomes of the Metropolis tests to look at          *)
  Period,          (* evo_arg.gauge_unload_period                          *)
  LastTraj,        (* bound on the trajectories                            *)
  MaxKills         (* bound on the times the program is killed or an       *)
                   (* argument file is damaged                             *)

Trajs == 0..LastTraj
Saves == {t \in Trajs : t > 0 /\ t % Period = 0}

ASSUME EvolutionAssumption ==
  /\ Period \in Nat \ {0} /\ LastTraj \in Nat /\ LastTraj % Period = 0
  /\ Fates \subseteq [0..(LastTraj - 1) -> {"down", "up", "reject"}]
  /\ MaxKills \in Nat

VARIABLES
  fate,            (* of the Metropolis tests; never changes               *)
  kills,
  disk,            (* lattice and rng files, argument files, plaquettes    *)
  machine,         (* what the program runs on                             *)
  pc, traj,
  written,         (* files of this checkpoint written so far              *)
  args,            (* do_arg and evo_arg the program was started with      *)
  gauge,           (* the gauge field                                      *)
  lrg              (* the generators                                       *)

vars == <<fate, kills, disk, machine, pc, traj, written, args, gauge, lrg>>
process == <<machine, traj, args, gauge, lrg>>

\* Memory of a program that does not run.
None == <<>>

Absent  == <<>>
Partial == <<"partial">>

\* The arguments of a new evolution, and those a checkpoint leaves behind: the
\* numbers of the files to start from, 0 for START_SEED_FIXED and
\* START_CONF_DISORD.
NewArgs == [seed |-> 0, conf |-> 0, traj_start |-> 0, pbp |-> FALSE]

\* Mutant: the trajectory number is not brought up to date.
Updated_Bug(a, n) == [a EXCEPT !.seed = n, !.conf = n]

Updated(a, n) == [a EXCEPT !.seed = n, !.conf = n, !.traj_start = n]

Init ==
  /\ fate \in Fates
  /\ kills = 0
  /\ disk = [lat |-> [n \in Saves |-> Absent], rng |-> [n \in Saves |-> Absent],
             args |-> [n \in Saves |-> {}], plaq |-> [n \in Trajs |-> <<>>]]
  /\ pc = "off"
  /\ machine = None /\ traj = 0 /\ written = 0
  /\ args = None /\ gauge = None /\ lrg = None

-----------------------------------------------------------------------------
(* Starting the program *)

\* The argument sets that can be decoded; the user takes the youngest.
Decodable == {n \in Saves : disk.args[n] = {ArgFiles[k] : k \in 1..Len(ArgFiles)}}

GivenArgs ==
  IF Decodable = {} THEN NewArgs
  ELSE Updated(NewArgs, CHOOSE n \in Decodable : \A k \in Decodable : k <= n)

Readable(f) == f \notin {Absent, Partial}

\* LatRanGen::Initialize on machine m.
Initialize(m, seed) ==
  IF seed = 0 THEN lrg' = Seeded(m)
  ELSE Readable(disk.rng[seed]) /\ lrg' = FromFile(m, disk.rng[seed])

\* main() up to the loop over configurations.  The user may change whether the
\* condensate is to be measured.
StartProgram ==
  /\ pc = "off" /\ LastTraj \notin Decodable
  /\ \E m \in Machines, pbp \in BOOLEAN :
       /\ machine' = m
       /\ args' = [GivenArgs EXCEPT !.pbp = pbp]
       /\ Initialize(m, GivenArgs.seed)
  /\ traj' = GivenArgs.traj_start
  /\ pc' = "actions"
  /\ gauge' = None
  /\ UNCHANGED <<fate, kills, disk, written>>

\* The first Lattice object of the process makes or loads the field, later
\* ones find it in memory.
Lattice ==
  IF args.conf = 0
    THEN /\ gauge' = <<Numbers(machine, 4, lrg)>>
         /\ lrg' = AfterField(machine, 4, lrg)
    ELSE /\ Readable(disk.lat[args.conf]) /\ gauge' = disk.lat[args.conf]
         /\ UNCHANGED lrg

\* The first one is made by the constructor of the first fermion action.
AlgActionBilinear ==
  /\ pc = "actions"
  /\ Lattice
  /\ pc' = "begin"
  /\ UNCHANGED <<fate, kills, disk, machine, traj, written, args>>

-----------------------------------------------------------------------------
(* The loop over trajectories *)

\* Mutant: the plaquette file is not emptied.
Truncate_Bug(d, n) == d

\* Fopen(plaq_file, "w").
Truncate(d, n) == [d EXCEPT !.plaq[n] = <<>>]

BeginConfiguration ==
  /\ pc = "begin" /\ traj < LastTraj
  /\ disk' = Truncate(disk, traj)
  /\ pc' = "plaq"
  /\ UNCHANGED <<fate, kills, written, process>>

\* The trajectory whose number the output files of this configuration carry.
Block == traj - (traj % Period)

AlgPlaq ==
  /\ pc = "plaq"
  /\ disk' = [disk EXCEPT !.plaq[Block] = Append(@, Len(gauge))]
  /\ pc' = IF args.pbp THEN "pbp" ELSE "hmc"
  /\ UNCHANGED <<fate, kills, written, process>>

\* AlgPbp draws a four-dimensional source between GetStates and SetStates.
AlgPbp ==
  /\ pc = "pbp"
  /\ lrg' = SetStates(lrg, AfterField(machine, 4, lrg))
  /\ pc' = "hmc"
  /\ UNCHANGED <<fate, kills, disk, machine, traj, written, args, gauge>>

AlgHmc ==
  /\ pc = "hmc"
  /\ LET drawn == AfterField(machine, 5, AfterField(machine, 4, lrg)) IN
     lrg' = IF fate[traj] = "down" THEN drawn ELSE AfterUniform(machine, drawn)
  /\ gauge' = IF fate[traj] = "reject" THEN gauge
              ELSE Append(gauge, <<Numbers(machine, 4, lrg),
                                   Numbers(machine, 5, lrg)>>)
  /\ traj' = traj + 1
  /\ pc' = IF (traj + 1) % Period = 0 THEN "checkpoint" ELSE "plaq"
  /\ UNCHANGED <<fate, kills, disk, machine, written, args>>

-----------------------------------------------------------------------------
(* checkpoint(traj) *)

\* Mutant: the argument files are written before what they refer to.
FileOrder_Bug == ArgFiles \o <<"lat", "rng">>

FileOrder == <<"lat", "rng">> \o ArgFiles

Opened(f) ==
  IF f \in {"lat", "rng"} THEN [disk EXCEPT ![f][traj] = Partial]
  ELSE [disk EXCEPT !.args[traj] = @ \ {f}]

Closed(f) ==
  CASE f = "lat" -> [disk EXCEPT !.lat[traj] = gauge]
    [] f = "rng" -> [disk EXCEPT !.rng[traj] = ToFile(machine, lrg)]
    [] OTHER     -> [disk EXCEPT !.args[traj] = @ \cup {f}]

OpenFile ==
  /\ pc = "checkpoint"
  /\ disk' = Opened(FileOrder[written + 1])
  /\ pc' = "writing"
  /\ UNCHANGED <<fate, kills, written, process>>

NextFile ==
  /\ pc = "writing"
  /\ written' = (written + 1) % Len(FileOrder)
  /\ pc' = IF written' = 0 THEN "begin" ELSE "checkpoint"
  /\ UNCHANGED <<fate, process>>

CloseFile ==
  /\ NextFile
  /\ disk' = Closed(FileOrder[written + 1])
  /\ UNCHANGED kills

\* Part of an argument file does not reach the disk, and the program goes on.
EncodeFails ==
  /\ kills < MaxKills
  /\ NextFile
  /\ FileOrder[written + 1] \notin {"lat", "rng"}
  /\ kills' = kills + 1
  /\ UNCHANGED disk

-----------------------------------------------------------------------------
(* The end of the program *)

Leave ==
  /\ pc' = "off"
  /\ machine' = None /\ traj' = 0 /\ written' = 0
  /\ args' = None /\ gauge' = None /\ lrg' = None
  /\ UNCHANGED <<fate, disk>>

\* Killed from outside, or stopped because a file could not be written.
Kill ==
  /\ pc # "off" /\ kills < MaxKills
  /\ kills' = kills + 1
  /\ Leave

End == pc = "begin" /\ traj = LastTraj /\ Leave /\ UNCHANGED kills

Program ==
  \/ StartProgram \/ AlgActionBilinear
  \/ BeginConfiguration \/ AlgPlaq \/ AlgPbp \/ AlgHmc
  \/ OpenFile \/ CloseFile \/ End

Next == Program \/ EncodeFails \/ Kill

\* The program is one process, and the user starts it again when it is gone.
Spec == Init /\ [][Next]_vars /\ WF_vars(Program)

-----------------------------------------------------------------------------
(* Properties *)

\* The chain itself.  Every hypercube of the lattice owns a stream of numbers,
\* which it gives to its sites in canonical order: rank is the place of a site
\* among those of its hypercube.
OneNode == [d \in Dir |-> 1]
Stream  == [dim \in {4, 5} |-> [h \in Hypercube[dim] |->
  StartSeed(OneNode, dim, [d \in Dir |-> Coor(Half(Size), h, d)])]]
Draw == [dim \in {4, 5} |-> [g \in Drawn(Size, dim) |->
  LET x == [d \in Dir |-> Coor(Size, g, d)]
      b == [d \in Dir |-> x[d] % 2]
      h == Number(Half(Size), [d \in Dir |-> x[d] \div 2])
  IN [h |-> h, seed |-> Stream[dim][h],
      rank |-> IF dim = 4 THEN b[0] + 2 * (b[1] + 2 * (b[2] + 2 * b[3]))
               ELSE b[1] + 2 * (b[2] + 2 * (b[3] + 2 * b[4]))]]]
PerField == [dim \in {4, 5} |-> [h \in Hypercube[dim] |->
               Cardinality({g \in DOMAIN Draw[dim] : Draw[dim][g].h = h})]]

ChainField(dim, used) ==
  [g \in DOMAIN Draw[dim] |-> LET w == Draw[dim][g] IN
                              <<w.seed, used[dim][w.h] + w.rank>>]
Used(dim, used) ==
  [used EXCEPT ![dim] = [h \in Hypercube[dim] |-> @[h] + PerField[dim][h]]]

\* A disordered configuration takes a field of numbers as well.
Unused == [dim \in {4, 5} |-> [h \in Hypercube[dim] |-> 0]]
ChainStart == [traj |-> 0, conf |-> <<ChainField(4, Unused)>>,
               used |-> Used(4, Unused)]

\* Momenta, pseudofermions, and a uniform number if the energy went up.
ChainTrajectory(f, s) ==
  LET used == Used(5, Used(4, s.used)) IN
  [traj |-> s.traj + 1,
   conf |-> IF f[s.traj] = "reject" THEN s.conf
            ELSE Append(s.conf, <<ChainField(4, s.used), ChainField(5, s.used)>>),
   used |-> IF f[s.traj] = "down" THEN used
            ELSE [used EXCEPT ![4][0] = @ + 1]]

\* The hypercube a generator belongs to by its seed.
StreamOf ==
  LET streams == UNION {{dim} \X Hypercube[dim] : dim \in {4, 5}}
      seed(s) == Stream[s[1]][s[2]]
  IN [n \in {seed(s) : s \in streams} |-> CHOOSE s \in streams : seed(s) = n]

ChainState(n, conf, file) ==
  [traj |-> n, conf |-> conf,
   used |-> [dim \in {4, 5} |-> [h \in Hypercube[dim] |->
               IF StreamOf[file[dim][h].seed] = <<dim, h>>
               THEN file[dim][h].pos ELSE -1]]]

Complete == {n \in Decodable : Readable(disk.lat[n]) /\ Readable(disk.rng[n])}

\* A checkpoint that is being written does not count yet, though files left by
\* an earlier attempt may make it complete for a while.
Saved == {n \in Complete : n = traj => pc \notin {"checkpoint", "writing"}}

Chain == INSTANCE EvolutionChain WITH
  Start <- ChainStart, Trajectory <- ChainTrajectory,
  now <- IF gauge = None THEN [traj |-> -1]
         ELSE ChainState(traj, gauge, ToFile(machine, lrg)),
  saved <- {ChainState(n, disk.lat[n], disk.rng[n]) : n \in Saved}

\* Killed and started again at any moment, on whatever machine, with or without
\* measurements of the condensate, with argument files damaged unnoticed, the
\* program goes on with the chain it was started with, number by number, and a
\* saved state is never lost.
ImplementsEvolution == Chain!Spec

\* The plaquette file of a configuration that was saved has one line for each
\* of its trajectories, the one measured on the chain.  (The results of AlgHmc
\* go to a file that is never emptied, quotient.C:197-198, and appear there
\* again when a trajectory is made again.)
Accepted(t) == Cardinality({k \in 0..(t - 1) : fate[k] # "reject"})
MeasuredOnce ==
  \A n \in Complete :
    disk.plaq[n - Period] = [k \in 1..Period |-> 1 + Accepted(n - Period + k - 1)]

\* The evolution gets to its end if it is not killed, and its files are not
\* damaged, for ever: what is left of a checkpoint that was interrupted or is
\* damaged never keeps the program from starting.
Finishes == <>(LastTraj \in Saved)
=============================================================================
