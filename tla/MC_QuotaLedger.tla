--------------------------- MODULE MC_QuotaLedger ---------------------------
(* QuotaLedger for TLC.  Run a has a cost and a token budget, run b has     *)
(* neither and falls under its agent's policy; both fall under the tenant.  *)
EXTENDS QuotaLedger, TLC

CONSTANTS a, b, tenant, agent

McScopesOf == [r \in Run |-> IF r = a THEN {tenant} ELSE {tenant, agent}]
McPlan == [r \in Run |-> IF r = a THEN [cost |-> 2, tokens |-> 2] ELSE [cost |-> 0, tokens |-> 0]]
McFirstPolicy ==
  tenant :> [runs |-> 1, cost |-> 3, tokens |-> 3]
    @@ agent :> [runs |-> 2, cost |-> 2, tokens |-> NoLimit]
Symmetry == Permutations(Worker)

(* Bound: a second worker and a new policy, or a second Run, not both.      *)
RetryOrContention ==
  \/ \A r \in Run \ {a} : phase[r] = "absent"
  \/ revision = 0 /\ \E w \in Worker : \A v \in Worker \ {w} : client[v] = Idle

McNewLimits == {[runs |-> 2, cost |-> 1, tokens |-> 3]}
=============================================================================
