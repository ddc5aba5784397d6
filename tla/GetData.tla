------------------------------ MODULE GetData -------------------------------
(***************************************************************************)
(* Data from neighbouring nodes in the QMP build (comms/qmp/scu/           *)
(* get_data.C): getPlusData and getMinusData, which declare their message  *)
(* handles for every call, and getMinus2Data and getMinus3Data, which pass *)
(* data on along two or three directions with PassData.  PassData keeps a  *)
(* pair of handles for every direction, together with the buffers it was   *)
(* called with when the handles were declared.                             *)
(*                                                                         *)
(* The nodes run the same sequence of calls, each at its own speed.  What  *)
(* node n hands to its k-th call is the value <<k, n>>.  QMP (external)    *)
(* copies a message when the send is started, or takes it from the         *)
(* sender's buffer when it is received.                                    *)
(***************************************************************************)
EXTENDS Integers, Sequences

CONSTANTS
  NP,                  (* NP[mu]: nodes in direction mu = 0..3             *)
  Program              (* the calls: records with the fields op (the name  *)
                       (* of the function), mu, nu (directions) and len    *)

Dir == 0..3

Node == {n \in [Dir -> UNION {0..(NP[mu] - 1) : mu \in Dir}] :
           \A mu \in Dir : n[mu] \in 0..(NP[mu] - 1)}

Neighbour(n, mu, sign) == [n EXCEPT ![mu] = (@ + sign + NP[mu]) % NP[mu]]

\* gjp_local_axis
Local(mu) == NP[mu] = 1

VARIABLES
  call,                (* call[n]: number of the call n is in or has made  *)
  step,                (* step[n]: transfer of this call, 0 between calls  *)
  phase,               (* "ready" or "wait" (messages are under way)       *)
  buf,                 (* buf[n]: the buffers send_buf, rcv_buf of the     *)
                       (* caller and send_noncache, rcv_noncache, tmp_buf  *)
  handle,              (* handle[n]: PassData's handles by direction       *)
  link,                (* link[mu, sign][n]: messages for n from its       *)
                       (* neighbour there: copies, or <<>> if there is none *)
  used,                (* used[n]: the handle of the transfer under way    *)
  got, sent

vars == <<call, step, phase, buf, handle, link, used, got, sent>>

Buffers == {"send_buf", "rcv_buf", "send_noncache", "rcv_noncache", "tmp_buf"}

\* Nothing was stored here, no handle declared.
Junk == <<>>
None == [len |-> 0, snd |-> "send_noncache", rcv |-> "rcv_noncache"]

Init ==
  /\ call = [n \in Node |-> 0]
  /\ step = [n \in Node |-> 0]
  /\ phase = [n \in Node |-> "ready"]
  /\ buf = [n \in Node |-> [b \in Buffers |-> Junk]]
  /\ handle = [n \in Node |-> [mu \in Dir |-> None]]
  /\ link = [d \in Dir \X {-1, 1} |-> [n \in Node |-> <<>>]]
  /\ used = [n \in Node |-> None]
  /\ got = [n \in Node |-> FALSE]
  /\ sent = [n \in Node |-> FALSE]

-----------------------------------------------------------------------------
Transfer(snd, rcv, mu, sign) == [snd |-> snd, rcv |-> rcv, mu |-> mu, sign |-> sign]

\* The transfers of a call.
Transfers(c) ==
  CASE c.op = "getPlusData"  -> <<Transfer("send_buf", "rcv_buf", c.mu, 1)>>
    [] c.op = "getMinusData" -> <<Transfer("send_buf", "rcv_buf", c.mu, -1)>>
    [] c.op = "getMinus2Data" ->
         <<Transfer("send_noncache", "tmp_buf", c.mu, -1),
           Transfer("tmp_buf", "rcv_noncache", c.nu, -1)>>
    [] c.op = "getMinus3Data" ->
         <<Transfer("send_noncache", "rcv_noncache", (c.mu + 1) % 4, -1),
           Transfer("rcv_noncache", "tmp_buf", (c.mu + 2) % 4, -1),
           Transfer("tmp_buf", "rcv_noncache", (c.mu + 3) % 4, -1)>>

\* getData declares its handles for the call, PassData keeps them.
Kept(c) == c.op \in {"getMinus2Data", "getMinus3Data"}

Current(n) == Transfers(Program[call[n]])[step[n]]

Call(n) ==
  LET k == call[n] + 1 IN
  /\ step[n] = 0 /\ k <= Len(Program)
  /\ call' = [call EXCEPT ![n] = k]
  /\ step' = [step EXCEPT ![n] = 1]
  /\ buf' = [buf EXCEPT ![n] =
       IF Kept(Program[k])
         THEN [@ EXCEPT !["send_buf"] = <<k, n>>, !["send_noncache"] = <<k, n>>]
         ELSE [@ EXCEPT !["send_buf"] = <<k, n>>]]
  /\ UNCHANGED <<phase, handle, link, used, got, sent>>

\* A transfer is over: with the last one PassData's callers copy the result to
\* the caller's buffer.
Finish(n, b) ==
  IF step[n] < Len(Transfers(Program[call[n]]))
    THEN /\ step' = [step EXCEPT ![n] = @ + 1]
         /\ buf' = [buf EXCEPT ![n] = b]
    ELSE /\ step' = [step EXCEPT ![n] = 0]
         /\ buf' = [buf EXCEPT ![n] =
              IF Kept(Program[call[n]])
                THEN [b EXCEPT !["rcv_buf"] = b["rcv_noncache"]] ELSE b]

\* The lattice is local in this direction: the data are copied.
CopyLocally(n) ==
  LET t == Current(n) IN
  /\ step[n] > 0 /\ phase[n] = "ready"
  /\ Local(t.mu)
  /\ Finish(n, [buf[n] EXCEPT ![t.rcv] = buf[n][t.snd]])
  /\ UNCHANGED <<call, phase, handle, link, used, got, sent>>

\* The padded length the handles are compared by.
Padded(len) == len + (len % 2)

\* The pair of handles a transfer starts: PassData declares a new one only if
\* the length is not that of the pair it has.
HandleFor(n, t, c) ==
  LET len == IF Kept(c) THEN Padded(c.len) ELSE c.len
      new == [len |-> len, snd |-> t.snd, rcv |-> t.rcv]
  IN  IF Kept(c) /\ handle[n][t.mu].len = len THEN handle[n][t.mu] ELSE new

\* QMP_start of both handles: the send goes to the neighbour opposite.
Start(n) ==
  LET c == Program[call[n]]
      t == Current(n)
      h == HandleFor(n, t, c)
      to == Neighbour(n, t.mu, -t.sign)
  IN
  /\ step[n] > 0 /\ phase[n] = "ready"
  /\ ~Local(t.mu)
  /\ phase' = [phase EXCEPT ![n] = "wait"]
  /\ used' = [used EXCEPT ![n] = h]
  /\ handle' = IF Kept(c) THEN [handle EXCEPT ![n][t.mu] = h] ELSE handle
  /\ \E copied \in BOOLEAN :
       /\ link' = [link EXCEPT ![t.mu, t.sign][to] =
            Append(@, IF copied THEN <<buf[n][h.snd]>> ELSE <<>>)]
       /\ sent' = [sent EXCEPT ![n] = copied]
  /\ got' = [got EXCEPT ![n] = FALSE]
  /\ UNCHANGED <<call, step, buf>>

\* QMP fills the buffer the receive was declared with.
Deliver(n) ==
  LET t == Current(n)
      d == <<t.mu, t.sign>>
      from == Neighbour(n, t.mu, t.sign)
      message == Head(link[d][n])
  IN
  /\ phase[n] = "wait" /\ ~got[n]
  /\ link[d][n] # <<>>
  /\ link' = [link EXCEPT ![d][n] = Tail(@)]
  /\ buf' = [buf EXCEPT ![n][used[n].rcv] =
       IF message # <<>> THEN Head(message) ELSE buf[from][used[from].snd]]
  /\ got' = [got EXCEPT ![n] = TRUE]
  /\ sent' = IF message # <<>> THEN sent ELSE [sent EXCEPT ![from] = TRUE]
  /\ UNCHANGED <<call, step, phase, handle, used>>

\* Both waits are over.
Complete(n) ==
  /\ phase[n] = "wait" /\ got[n] /\ sent[n]
  /\ phase' = [phase EXCEPT ![n] = "ready"]
  /\ Finish(n, buf[n])
  /\ UNCHANGED <<call, handle, link, used, got, sent>>

Next ==
  \E n \in Node : Call(n) \/ CopyLocally(n) \/ Start(n) \/ Deliver(n) \/ Complete(n)

Spec == Init /\ [][Next]_vars

-----------------------------------------------------------------------------
(* Properties *)

\* getMinus2Data returns the data of the node in the (-mu, -nu) position
\* relative to this one (get_data.C:246), whatever was transferred before.
SecondNeighbour ==
  \A n \in Node :
    LET c == Program[call[n]] IN
    call[n] > 0 /\ step[n] = 0 /\ c.op = "getMinus2Data" =>
      buf[n]["rcv_buf"] =
        <<call[n], Neighbour(Neighbour(n, c.mu, -1), c.nu, -1)>>
=============================================================================
