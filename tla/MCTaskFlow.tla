------------------------------ MODULE MCTaskFlow ------------------------------
(***************************************************************************)
(* Values of the constants of TaskFlow for TLC.                            *)
(***************************************************************************)
EXTENDS TaskFlow, TLC

CONSTANTS a1, a2

OneAgent == {a1}
TwoAgents == {a1, a2}

Job(targets, type) == [targets |-> targets, type |-> type]

SingleJobs == {Job({a1}, "policy_apply"), Job({a1}, "policy_diag")}
SharedJob == {Job(TwoAgents, "verify")}

AgentsSymmetric == Permutations(TwoAgents)
=============================================================================
