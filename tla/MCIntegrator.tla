---------------------------- MODULE MCIntegrator ----------------------------
(***************************************************************************)
(* Trees of integrators for TLC: every scheme alone and as the outer or    *)
(* the inner one of two, with the gauge force inside and a sum of two      *)
(* fermion forces outside.                                                 *)
(***************************************************************************)
EXTENDS Integrator, TLC

Coef == [lambda |-> 2, sigma |-> 5, rho |-> 3, theta |-> 4, mu |-> 1, chi |-> 5]

Mom    == [type |-> "MOM"]
Action == [type |-> "ACTION"]

Integ(type, a, b, na, nb) ==
  [type |-> type, A |-> a, B |-> b, A_steps |-> na, B_steps |-> nb, k |-> Coef]

MomFirst == {"LEAP", "OMELYAN", "CAMPOSTRINI", "OMELYAN_44", "OMELYAN_45",
             "FORCE_GRAD_QPQPQ"}

\* One scheme, in either order of momentum and gauge action.
Single ==
  {"mom" :> Mom @@ "gauge" :> Action
     @@ "top" :> Integ(type, "mom", "gauge", 1, 2) : type \in MomFirst}
  \cup
  {"mom" :> Mom @@ "gauge" :> Action
     @@ "top" :> Integ(type, "gauge", "mom", 3, 1) :
       type \in (MomFirst \ {"FORCE_GRAD_QPQPQ"}) \cup {"FORCE_GRAD_PQPQP"}}

\* Two schemes on two time scales.
Nested ==
  {"mom" :> Mom @@ "gauge" :> Action @@ "light" :> Action @@ "heavy" :> Action
     @@ "sum" :> Integ("SUM", "light", "heavy", 1, 1)
     @@ "inner" :> Integ(inner, "mom", "gauge", 1, 1)
     @@ "top" :> Integ(outer, "inner", "sum", 2, 1) :
       inner \in MomFirst, outer \in {"LEAP", "FORCE_GRAD_QPQPQ"}}

AllTrees == Single \cup Nested

MCForce(n, g) ==
  CASE n = "gauge" -> (g * g + 3) % P
    [] n = "light" -> (2 * g * g * g + g) % P
    [] n = "heavy" -> (5 * g + 1) % P
=============================================================================
