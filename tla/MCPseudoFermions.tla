-------------------------- MODULE MCPseudoFermions ---------------------------
(***************************************************************************)
(* Small sets of actions and calls for TLC: a fermion with two masses, one *)
(* with and one without earlier solutions, a boson, a rational action, and *)
(* a rational action that two splits share.                                *)
(***************************************************************************)
EXTENDS PseudoFermions, TLC

Op(op) == [op |-> op, leaf |-> "none", n |-> 1]
Ev(l, n) == [op |-> "evolve", leaf |-> l, n |-> n]
Fg(l) == [op |-> "prepare", leaf |-> l, n |-> 1]

drift == <<Op("drift")>>

\* Leapfrog and force gradient with the calls s of evolve and p of prepare_fg.
LeapFrog(s, n) ==
  drift \o s \o drift \o (IF n = 1 THEN <<>> ELSE s \o drift)

ForceGrad(s, p) ==
  LET fg == p \o <<Op("shift")>> \o s \o <<Op("restore")>>
  IN  drift \o fg \o drift \o fg \o drift

-----------------------------------------------------------------------------
(* Every kind of action *)

AllActions == {"frm", "bsn", "rat", "two"}
AllKind == "frm" :> "FERMION" @@ "bsn" :> "BOSON"
             @@ "rat" :> "RATIONAL" @@ "two" :> "RATIONAL"
AllChrono == "frm" :> <<2, 0>> @@ "bsn" :> <<0>> @@ "rat" :> <<0>> @@ "two" :> <<0>>
AllDegree == "frm" :> 0 @@ "bsn" :> 0 @@ "rat" :> 1 @@ "two" :> 2
AllLeaves == <<"split1", "frm", "bsn", "rat", "split2">>
AllActionOf == "frm" :> "frm" @@ "bsn" :> "bsn" @@ "rat" :> "rat"
                 @@ "split1" :> "two" @@ "split2" :> "two"
AllRanges == {<<0, 0>>, <<0, 1>>, <<1, 2>>, <<0, 2>>, <<1, 3>>}

leaves == <<Ev("split1", 1), Ev("rat", 1), Ev("split2", 1), Ev("bsn", 1)>>
fgs    == <<Fg("frm"), Fg("bsn"), Fg("rat")>>

AllSchedules ==
  {LeapFrog(<<Ev("frm", n)>> \o leaves, k) : n \in 1..3, k \in 1..2}
  \cup {ForceGrad(<<Ev("frm", n), Ev("bsn", 1), Ev("rat", 1)>>, fgs)
           \o <<Ev("split2", 2), Ev("split1", 1)>> : n \in 1..2}
  \cup {ForceGrad(<<Ev("split1", 1)>>, <<Fg("split1")>>)
           \o <<Ev("frm", 1)>> \o Tail(leaves)}

\* One fermion, for what its guesses do not keep.
OneSchedule == {LeapFrog(<<Ev("frm", 1)>>, 2)}
OneAction == {"frm"}
OneLeaf   == <<"frm">>
OneActionOf == "frm" :> "frm"
OneKind   == "frm" :> "FERMION"
OneChrono == "frm" :> <<1>>
OneDegree == "frm" :> 0
NoRanges  == {<<0, 0>>}

=============================================================================
