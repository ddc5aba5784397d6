----------------------------- MODULE LatticeIo ------------------------------
(***************************************************************************)
(* Storing a field to a file and loading it again (util/qcdio/iostyle.C,   *)
(* with the callers WriteLatticeParallel::write, ReadLatticeParallel::read *)
(* and LatRngWrite::write): ParallelIO, where every node writes its part   *)
(* of the file in an I/O time slot, and SerialIO, where node 0 does it all *)
(* and the data of the other nodes are shifted past it.  In the file the   *)
(* sites come in the order of their global number, whatever the grid of    *)
(* nodes; remap() sorts them.                                              *)
(*                                                                         *)
(* A behaviour is a job that stores and, after its end or after a crash at *)
(* any moment, a job that loads, which may run on another grid.  The data  *)
(* of a site are its global number, so that a wrong place shows; memory    *)
(* and parts of the file that were never written hold Junk.  Formats and   *)
(* the text of the header are left out.  That exit() on one node ends the  *)
(* whole job is the launcher's doing (external).                           *)
(***************************************************************************)
EXTENDS IoSlots, Sequences, FiniteSetsExt

CONSTANTS
  Glb,                 (* global sites in x, y, z, t and s                 *)
  StoreJobs, LoadJobs, (* jobs that may run: sets of Job                   *)
  MaxRetry,            (* 20 in ParallelIO::store                          *)
  MaxFaults            (* bound on failing calls of the file system        *)

Dims == 1..5

\* The product of the first dim sides of box t.
Prod(t, dim) ==
  LET p[d \in 0..5] == IF d = 0 THEN 1 ELSE p[d - 1] * t[d] IN p[dim]

Job == [style     : {"serial", "parallel"},
        dimension : {4, 5},
        grid      : [Dims -> Nat \ {0}],
        concur    : Int]

ASSUME JobAssumption ==
  /\ Glb \in [Dims -> Nat \ {0}]
  /\ StoreJobs \subseteq Job /\ LoadJobs \subseteq Job
  /\ \A jb \in StoreJobs \union LoadJobs :
       /\ \A d \in Dims : Glb[d] % jb.grid[d] = 0
       /\ Prod(jb.grid, 5) \in Machines /\ jb.concur \in Concurrencies
  /\ MaxRetry \in Nat \ {0} /\ MaxFaults \in Nat

VARIABLES
  job,                 (* the job that runs                                *)
  storing,             (* it stores                                        *)
  node,                (* node[n]: what node n does and holds              *)
  link,                (* link[n][d]: blocks sent to n by its neighbour in *)
                       (* direction +d; d = 6 stands for direction -s      *)
  file, flen,          (* the data part of the file and its length         *)
  header,              (* the checksum in the header                       *)
  faults,              (* calls that have failed in this job               *)
  lost                 (* data were lost in a call whose result is ignored *)

data == <<job, storing, node, link, file, flen, header, faults, lost>>
vars == <<data, slots>>

Junk == -1

\* What the header says until the checksum is filled in: setw(8) << 0.
NoChecksum == 0

-----------------------------------------------------------------------------
(* Numbers of sites and nodes.  x is the fastest coordinate.               *)

\* The coordinates of number k in a box with sides t.
Coor(k, t) == [d \in Dims |-> (k \div Prod(t, d - 1)) % t[d]]

\* The number of coordinates x in the first dim dimensions of box t.
Number(x, t, dim) ==
  x[1] + t[1] * (x[2] + t[2] * (x[3] + t[3] * (x[4] +
    IF dim = 5 THEN t[4] * x[5] ELSE 0)))

dims == job.dimension
grid == job.grid
glb == [d \in Dims |-> IF d = 5 /\ dims = 4 THEN 1 ELSE Glb[d]]
lcl == [d \in Dims |-> IF d = 5 /\ dims = 4 THEN 1 ELSE Glb[d] \div grid[d]]
lcl_vol == Prod(lcl, 5)
Sites == 0..(lcl_vol - 1)

node_coor(n) == Coor(n, grid)
mynodeid(n) == Number(node_coor(n), grid, dims)

\* The global number of local site k of the node at x.
lcl2glb(k, x) ==
  LET c == Coor(k, lcl) IN
  Number([d \in Dims |-> c[d] + lcl[d] * x[d]], glb, dims)

\* The node and its local site for global number g.
glb2lcl(g) ==
  LET c == Coor(g, glb) IN
  [node_id |-> Number([d \in Dims |-> c[d] \div lcl[d]], grid, dims),
   site_id |-> Number([d \in Dims |-> c[d] % lcl[d]], lcl, dims)]

Neighbour(n, d, step) ==
  Number([node_coor(n) EXCEPT ![d] = (@ + step + grid[d]) % grid[d]], grid, 5)

-----------------------------------------------------------------------------
(* remap() and shift_data().                                               *)

\* The node whose data node n has after i shifts.
node_x(n, i) ==
  [d \in Dims |->
     (i \div Prod(grid, d - 1) + node_coor(n)[d]) % grid[d]]

\* The numbers of rows in x, which are moved as a whole.
Rows == {k \in Sites : k % lcl[1] = 0}

\* Mutant: from_lcl is ignored.
Picked_Bug(n, i) ==
  LET x == node_x(n, i) IN
  {<<lcl2glb(k, x) % lcl_vol, k>> :
     k \in {r \in Rows : lcl2glb(r, x) \div lcl_vol = mynodeid(n)}}

\* <<to, from>> for each row in the data at hand that belongs to node n: of
\* its part of the file when storing, of its sites when loading.
Picked(n, i) ==
  LET x == node_x(n, i)
      filed(k) == Number(x, grid, dims) * lcl_vol + k
  IN IF storing
       THEN {<<lcl2glb(k, x) % lcl_vol, k>> :
               k \in {r \in Rows : lcl2glb(r, x) \div lcl_vol = mynodeid(n)}}
       ELSE {<<glb2lcl(filed(k)).site_id, k>> :
               k \in {r \in Rows : glb2lcl(filed(r)).node_id = mynodeid(n)}}

Copied(out, o, rows) ==
  [p \in Sites |->
     LET here == {m \in rows : p \in m[1]..(m[1] + lcl[1] - 1)} IN
     IF here = {} THEN out[p]
     ELSE LET m == CHOOSE m \in here : TRUE IN o[m[2] + p - m[1]]]

\* Mutant: the carry is not propagated.
Carries_Bug(i, d) == d = 1

\* shift_data(i) also shifts in dimension d: a full turn is complete in all
\* dimensions before it.
Carries(i, d) == \A e \in 1..(d - 1) : Coor(i, grid)[e] = grid[e] - 1

\* The next dimension after d in which shift_data(i) talks to a neighbour.
NextDim(i, d) ==
  LET more == {e \in (d + 1)..5 : grid[e] > 1 /\ Carries(i, e)} IN
  IF more = {} THEN 6 ELSE CHOOSE e \in more : \A f \in more : e <= f

\* How often a loop shifts: remap() need not in the last dimension.
Shifts(loop) == Prod(grid, IF loop = "remap" THEN dims - 1 ELSE dims)

-----------------------------------------------------------------------------
(* Starting a job and moving a node on.                                    *)

Blank(jb) ==
  LET sides == [d \in Dims |-> Glb[d] \div jb.grid[d]] IN
  [s \in 0..(Prod(sides, jb.dimension) - 1) |-> Junk]

Machine(jb) == 0..(Prod(jb.grid, 5) - 1)

\* A node of a job that begins in pc, in the given loop, with data o.
Fresh(jb, pc, loop, o) ==
  [pc |-> pc, loop |-> loop, i |-> 0, j |-> 0, o |-> o, rdata |-> Blank(jb),
   snd |-> Blank(jb), mem |-> o, error |-> 0, retry |-> 0]

Links(jb) == [n \in Machine(jb) |-> [d \in 1..6 |-> <<>>]]

Move(n, pc) == node' = [node EXCEPT ![n].pc = pc]

\* ERR.FileR and ERR.General: exit().
Exit == node' = [n \in UniqueID |-> [node[n] EXCEPT !.pc = "stopped"]]

Ended ==
  \A n \in UniqueID : node[n].pc \in {"returned", "stopped", "rejected"}

\* Mutant: all s-slices count.
csum_Bug(n) == MapThenSumSet(LAMBDA s : node[n].mem[s] + 2, Sites)

\* The sum over all sites of this node; each counted once in the machine.
\* That a wrong field, or one of junk, has the right checksum or none by
\* coincidence is left out.
csum(n) ==
  IF dims = 4 /\ node_coor(n)[5] # 0 THEN 0
  ELSE MapThenSumSet(LAMBDA s : node[n].mem[s] + 2, Sites)

GlobalCsum == MapThenSumSet(csum, UniqueID)

-----------------------------------------------------------------------------
(* shift_data(): the data move to the minus neighbour, in one dimension     *)
(* after the other.                                                        *)

\* What a loop leads to when it has shifted Shifts times.
AfterLoop(nd) ==
  CASE nd.loop = "stream" -> [nd EXCEPT !.pc = "sync"]
    [] nd.loop = "remap" /\ ~storing ->
         [nd EXCEPT !.pc = "csum", !.mem = nd.rdata]
    [] nd.loop = "remap" /\ storing /\ job.style = "parallel" ->
         [nd EXCEPT !.pc = "slot"]
    [] nd.loop = "remap" /\ storing /\ job.style = "serial" ->
         [nd EXCEPT !.pc = "body", !.loop = "stream", !.i = 0, !.o = nd.rdata]

AfterShift(nd) ==
  IF nd.i + 1 < Shifts(nd.loop) THEN [nd EXCEPT !.pc = "body", !.i = @ + 1]
                                ELSE AfterLoop(nd)

\* Node n, which has become nd, has done dimension d of shift_data(): it sends
\* in the next one and waits for its own block, or the shift is over.
Shift(n, nd, d, links) ==
  \E next \in {NextDim(nd.i, d)} :
    IF next = 6
      THEN /\ node' = [node EXCEPT ![n] = AfterShift(nd)]
           /\ link' = links
      ELSE /\ node' = [node EXCEPT ![n] = [nd EXCEPT !.pc = "wait", !.j = next]]
           /\ link' = [links EXCEPT
                ![Neighbour(n, next, -1)][next] = Append(@, nd.o)]

Receive(n) ==
  /\ node[n].pc = "wait" /\ link[n][node[n].j] # <<>>
  /\ \E d \in {node[n].j} :
       Shift(n, [node[n] EXCEPT !.o = Head(link[n][d])], d,
             [link EXCEPT ![n][d] = Tail(@)])
  /\ UNCHANGED <<job, storing, file, flen, header, faults, lost, slots>>

\* remap() picks up the rows that are meant for this node.
Remap(n) ==
  /\ node[n].pc = "body" /\ node[n].loop = "remap"
  /\ \E rows \in {Picked(n, node[n].i)} :
       Shift(n, [node[n] EXCEPT !.rdata = Copied(@, node[n].o, rows)],
             0, link)
  /\ UNCHANGED <<job, storing, file, flen, header, faults, lost, slots>>

-----------------------------------------------------------------------------
(* SerialIO.                                                               *)

\* The data at hand written to the file from position p on.
Written(p, o, len) ==
  [q \in DOMAIN file |-> IF q \in p..(p + len - 1) THEN o[q - p] ELSE file[q]]

NewEnd(p, len) == IF p + len > flen THEN p + len ELSE flen

\* Of the data in a call that fails nothing is written, or the first site.
PartlyWritten(p, o) ==
  \/ UNCHANGED <<file, flen>>
  \/ file' = Written(p, o, 1) /\ flen' = NewEnd(p, 1)

\* Fwrite does nothing on the other nodes.
SerialWrite(n) ==
  /\ storing /\ node[n].pc = "body" /\ node[n].loop = "stream"
  /\ Shift(n, node[n], 0, link)
  /\ IF n = 0 THEN /\ file' = Written(flen, node[n].o, lcl_vol)
                   /\ flen' = NewEnd(flen, lcl_vol)
              ELSE UNCHANGED <<file, flen>>
  /\ UNCHANGED <<job, storing, header, faults, lost, slots>>

\* The loop is left for synchronize() when the file system fails.
SerialWriteFails ==
  /\ storing /\ node[0].pc = "body" /\ node[0].loop = "stream"
  /\ faults < MaxFaults
  /\ faults' = faults + 1
  /\ node' = [node EXCEPT ![0].pc = "sync", ![0].error = 1]
  /\ UNCHANGED <<job, storing, link, file, flen, header, lost, slots>>

\* Fwrite has taken the data, but Fflush, or Fclose at the end, cannot bring
\* them to the file.  Nobody asks for their results: the loop goes on, and what
\* is appended next comes where the missing data should be.
FlushFails ==
  /\ storing /\ node[0].pc = "body" /\ node[0].loop = "stream"
  /\ faults < MaxFaults
  /\ faults' = faults + 1 /\ lost' = TRUE
  /\ PartlyWritten(flen, node[0].o)
  /\ Shift(0, node[0], 0, link)
  /\ UNCHANGED <<job, storing, header, slots>>

\* Part number b of the file.
FileBlock(b) == [s \in Sites |-> file[b * lcl_vol + s]]

SerialRead(n) ==
  /\ ~storing /\ node[n].pc = "body" /\ node[n].loop = "stream"
  /\ IF n = 0 /\ flen < (node[n].i + 1) * lcl_vol
       THEN Exit /\ UNCHANGED link
       ELSE Shift(n, IF n > 0 THEN node[n]
                     ELSE [node[n] EXCEPT !.o = FileBlock(node[n].i)],
                  0, link)
  /\ UNCHANGED <<job, storing, file, flen, header, faults, lost, slots>>

\* sSpread() passes data on in direction +s; each node keeps what arrives
\* after as many steps as its own coordinate.
Spreads == dims = 4 /\ grid[5] > 1

SpreadSend(n) ==
  /\ node[n].pc = "spread"
  /\ link' = [link EXCEPT ![Neighbour(n, 5, 1)][6] = Append(@, node[n].snd)]
  /\ Move(n, "spread wait")
  /\ UNCHANGED <<job, storing, file, flen, header, faults, lost, slots>>

\* Where loading goes on with the blocks of the file on all nodes.
StartRemap(nd) == [nd EXCEPT !.pc = "body", !.loop = "remap", !.i = 0]

SpreadReceive(n) ==
  LET rcv == Head(link[n][6])
      kept == [node[n] EXCEPT
                 !.snd = rcv, !.i = @ + 1,
                 !.o = IF node[n].i + 1 = node_coor(n)[5] THEN rcv ELSE @]
  IN /\ node[n].pc = "spread wait" /\ link[n][6] # <<>>
     /\ link' = [link EXCEPT ![n][6] = Tail(@)]
     /\ node' = [node EXCEPT ![n] =
          IF node[n].i + 1 < grid[5] - 1 THEN [kept EXCEPT !.pc = "spread"]
                                         ELSE StartRemap(kept)]
     /\ UNCHANGED <<job, storing, file, flen, header, faults, lost, slots>>

-----------------------------------------------------------------------------
(* ParallelIO.                                                             *)

GetSlot(n) ==
  /\ node[n].pc = "slot" /\ Move(n, "io")
  /\ getIOTimeSlot(n)
  /\ UNCHANGED <<job, storing, link, file, flen, header, faults, lost>>

FinishSlot(n) ==
  /\ node[n].pc = "io done" /\ Move(n, "sync")
  /\ finishIOTimeSlot(n)
  /\ UNCHANGED <<job, storing, link, file, flen, header, faults, lost>>

SlotSum ==
  /\ \A n \in UniqueID : node[n].pc # "stopped"
  /\ GlobalSum
  /\ UNCHANGED data

InSlot(n) == node[n].pc = "io" /\ stage[n] = "io"

\* Of 4-dimensional data each site is written by one node only.
Writes(n) == dims = 5 \/ node_coor(n)[5] = 0

WriteSkipped(n) ==
  /\ storing /\ InSlot(n) /\ ~Writes(n)
  /\ Move(n, "io done")
  /\ UNCHANGED <<job, storing, link, file, flen, header, faults, lost, slots>>

\* The end of the loop body.  An error is never cleared, so that the loop
\* goes on even when a retry succeeds.
Retried(nd) ==
  IF nd.error = 0 THEN [nd EXCEPT !.pc = "io done"]
  ELSE IF nd.retry + 1 < MaxRetry THEN [nd EXCEPT !.retry = @ + 1]
  ELSE [nd EXCEPT !.retry = @ + 1, !.pc = "io done"]

Write(n) ==
  LET p == mynodeid(n) * lcl_vol IN
  /\ storing /\ InSlot(n) /\ Writes(n)
  /\ file' = Written(p, node[n].rdata, lcl_vol) /\ flen' = NewEnd(p, lcl_vol)
  /\ node' = [node EXCEPT ![n] = Retried(@)]
  /\ UNCHANGED <<job, storing, link, header, faults, lost, slots>>

\* fopen or fwrite fails.
WriteFails(n) ==
  /\ storing /\ InSlot(n) /\ Writes(n)
  /\ faults < MaxFaults
  /\ faults' = faults + 1
  /\ PartlyWritten(mynodeid(n) * lcl_vol, node[n].rdata)
  /\ node' = [node EXCEPT ![n] = Retried([@ EXCEPT !.error = 1])]
  /\ UNCHANGED <<job, storing, link, header, lost, slots>>

\* fwrite has taken the data, but fclose cannot bring them to the file.  Its
\* result is ignored: this is no error.
CloseFails(n) ==
  /\ storing /\ InSlot(n) /\ Writes(n)
  /\ faults < MaxFaults
  /\ faults' = faults + 1 /\ lost' = TRUE
  /\ PartlyWritten(mynodeid(n) * lcl_vol, node[n].rdata)
  /\ node' = [node EXCEPT ![n] = Retried(@)]
  /\ UNCHANGED <<job, storing, link, header, slots>>

Read(n) ==
  /\ ~storing /\ InSlot(n)
  /\ IF flen < (mynodeid(n) + 1) * lcl_vol
       THEN Exit
       ELSE node' = [node EXCEPT ![n].pc = "io done",
                                 ![n].o = FileBlock(mynodeid(n))]
  /\ UNCHANGED <<job, storing, link, file, flen, header, faults, lost, slots>>

-----------------------------------------------------------------------------
(* The global sums outside the time slots.                                 *)

\* Mutant: only node 0 is asked.
ErrorStatus_Bug == node[0].error # 0

\* The sum of the errors of all nodes.
ErrorStatus == \E n \in UniqueID : node[n].error # 0

\* synchronize(error): all nodes go on or all nodes stop.
Synchronize ==
  /\ \A n \in UniqueID : node[n].pc = "sync"
  /\ job.style = "parallel" => \A n \in UniqueID : stage[n] = "done"
  /\ IF ErrorStatus THEN Exit
     ELSE node' = [n \in UniqueID |->
            IF storing THEN [node[n] EXCEPT !.pc = "csum"]
            ELSE IF job.style = "serial" /\ Spreads
              THEN [node[n] EXCEPT !.pc = "spread", !.i = 0,
                      !.snd = IF node_coor(n)[5] = 0 THEN node[n].o ELSE @]
            ELSE StartRemap(node[n])]
  /\ UNCHANGED <<job, storing, link, file, flen, header, faults, lost, slots>>

\* Node 0 fills in the checksum only when the data are stored.
FillInChecksum ==
  /\ storing /\ \A n \in UniqueID : node[n].pc = "csum"
  /\ header' = GlobalCsum
  /\ node' = [n \in UniqueID |-> [node[n] EXCEPT !.pc = "returned"]]
  /\ UNCHANGED <<job, storing, link, file, flen, faults, lost, slots>>

\* The checksum does not come to the file.  WriteLatticeParallel does not ask;
\* LatRngWrite asks the stream, but before it is closed.
FillInFails ==
  /\ storing /\ \A n \in UniqueID : node[n].pc = "csum"
  /\ faults < MaxFaults
  /\ faults' = faults + 1
  /\ \/ /\ lost' = TRUE
        /\ node' = [n \in UniqueID |-> [node[n] EXCEPT !.pc = "returned"]]
     \/ dims = 5 /\ Exit /\ UNCHANGED lost
  /\ UNCHANGED <<job, storing, link, file, flen, header, slots>>

\* Node 0 compares; its verdict is synchronized.  ReadLatticeParallel stops
\* the program; LatRngRead, whose data are the 5-dimensional ones, warns and
\* returns with io_good = false.
CheckChecksum ==
  /\ ~storing /\ \A n \in UniqueID : node[n].pc = "csum"
  /\ LET verdict == IF header = GlobalCsum THEN "returned"
                    ELSE IF dims = 4 THEN "stopped" ELSE "rejected"
     IN node' = [n \in UniqueID |-> [node[n] EXCEPT !.pc = verdict]]
  /\ UNCHANGED <<job, storing, link, file, flen, header, faults, lost, slots>>

-----------------------------------------------------------------------------
\* store() begins with remap().
IoInit ==
  \E jb \in StoreJobs :
    /\ job = jb /\ storing = TRUE
    /\ node = [n \in Machine(jb) |->
         Fresh(jb, "body", "remap",
               [s \in DOMAIN Blank(jb) |-> lcl2glb(s, node_coor(n))])]
    /\ link = Links(jb)
    /\ file = [p \in 0..(Prod(glb, 5) - 1) |-> Junk]
    /\ flen = 0 /\ header = NoChecksum /\ faults = 0 /\ lost = FALSE
    /\ SlotsInit(Prod(jb.grid, 5), jb.concur)

\* The job ends or is killed, at any moment, and another one loads the file.
Restart(jb) ==
  /\ storing /\ jb.dimension = dims
  /\ job' = jb /\ storing' = FALSE
  /\ node' = [n \in Machine(jb) |->
       IF jb.style = "serial" THEN Fresh(jb, "body", "stream", Blank(jb))
                              ELSE Fresh(jb, "slot", "remap", Blank(jb))]
  /\ link' = Links(jb)
  /\ number_nodes' = Prod(jb.grid, 5) /\ num_concur_io' = jb.concur
  /\ stage' = [n \in Machine(jb) |-> "out"]
  /\ op' = [n \in Machine(jb) |-> "first"]
  /\ firstID' = [n \in Machine(jb) |-> 0]
  /\ batch' = 0
  /\ faults' = 0
  /\ UNCHANGED <<file, flen, header, lost>>

Step(n) ==
  \/ Receive(n) \/ Remap(n)
  \/ SerialWrite(n) \/ SerialRead(n) \/ SpreadSend(n) \/ SpreadReceive(n)
  \/ GetSlot(n) \/ FinishSlot(n) \/ WriteSkipped(n) \/ Write(n) \/ Read(n)

Together == SlotSum \/ Synchronize \/ FillInChecksum \/ CheckChecksum

IoNext ==
  \/ \E n \in UniqueID : Step(n) \/ WriteFails(n) \/ CloseFails(n)
  \/ SerialWriteFails \/ FlushFails
  \/ Together \/ FillInFails
  \/ \E jb \in LoadJobs : Restart(jb)

IoSpec == IoInit /\ [][IoNext]_vars

\* A node that may go on does.  No file system call has to fail, and a job
\* need not be killed.
Progress == (\E n \in UniqueID : Step(n)) \/ Together

FairIoSpec == IoSpec /\ WF_vars(Progress)

-----------------------------------------------------------------------------
\* As long as each call that fails is one whose result store() looks at
\* (fopen, fwrite): every site that is in the file is at its place in the
\* global order, on every grid and in both styles, and store() returns only
\* when all are there.  When fclose, Fflush or Fclose fails it returns over a
\* file that lacks data, and what SerialIO appends later is out of place.
FileInGlobalOrder ==
  ~lost =>
    /\ \A p \in DOMAIN file : file[p] \in {p, Junk}
    /\ storing /\ (\E n \in UniqueID : node[n].pc = "returned") =>
         \A p \in DOMAIN file : file[p] = p

\* What is stored on one grid and loaded on another comes to the right sites
\* on all nodes, also on those of the other s-slices; of a file that was left
\* behind by a failed or killed job, or that lacks data although store()
\* returned, no load returns as good.
LoadRestores ==
  ~storing => \A n \in UniqueID : node[n].pc = "returned" =>
    \A s \in Sites : node[n].mem[s] = lcl2glb(s, node_coor(n))

\* When fopen or fwrite fails on one node, store() returns on no node.
ErrorSeenByAll ==
  (\E n \in UniqueID : node[n].error # 0) =>
    \A n \in UniqueID : node[n].pc # "returned"

\* When remap() begins to sort what was loaded, each node holds the part of
\* the file that belongs to it; of 4-dimensional data all s-slices hold the
\* same (iostyle.C: "clone the lattice from s==0 nodes to all s>0 nodes").
PartsInPlace ==
  \A n \in UniqueID :
    ~storing /\ node[n].pc = "body" /\ node[n].loop = "remap" /\ node[n].i = 0
      => node[n].o = FileBlock(mynodeid(n))

\* SerialIO::load of 4-dimensional data on a machine with several nodes in s
\* is the exception: it shifts s once too often, so that slices clone data
\* nobody has read (see the README).
SlicesLost == ~storing /\ job.style = "serial" /\ Spreads

PartsInPlaceOtherwise == SlicesLost \/ PartsInPlace

\* A job stops, or rejects the file, only for a reason: a failed call, data or
\* a checksum that did not come to the file, or a store() that did not come to
\* its end.  No two halves of the code disagree about the length, the order or
\* the checksum of a file.
StopsForAReason ==
  \/ \A n \in UniqueID : node[n].pc \notin {"stopped", "rejected"}
  \/ faults > 0 \/ lost
  \/ header = NoChecksum
  \/ SlicesLost

\* When fwrite fails in SerialIO::store, node 0 goes to synchronize() and the
\* other nodes to the next shift_data(), where they wait for node 0.
AppendFailed ==
  job.style = "serial" /\ number_nodes > 1 /\ node[0].error # 0

\* All jobs end: no node is left alone in a shift or in a global sum.
EndsUnlessAppendFailed == <>[](Ended \/ AppendFailed)

\* After an error on one node all nodes are told (qioarg.h: "sync processors
\* and share error status").
ErrorEnds == (\E n \in UniqueID : node[n].error # 0) ~> Ended
=============================================================================
