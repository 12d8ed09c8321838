------------------------------ MODULE NodeStore ------------------------------
(***************************************************************************)
(* The controller's in-memory store (pkg/store/memory.go).  Every method   *)
(* holds the store's mutex, so each is one step; the operators below are   *)
(* those steps, to be conjoined with what the calling handler does.        *)
(* Audit entries, tasks, policy status, diagnostics, settings and the      *)
(* health history are written by the same handlers but read by none of     *)
(* them: they are left out here.                                           *)
(***************************************************************************)
EXTENDS PlanRules

CONSTANTS
  Unnamed,          \* the empty node ID, under which a plan may be stored
  HistoryLimit      \* plans kept per node (20)

ASSUME StoreAssumption ==
  /\ Unnamed \notin Nodes
  /\ HistoryLimit \in Nat \ {0}

VARIABLES
  nodes,            \* m.nodes: stored nodes, keyed by ID
  version,          \* m.version: config version counter of each ID
  health,           \* m.health: status of the last report of each node
  plans,            \* m.plans: the current plan of each key
  history,          \* m.history: saved plans of each key, oldest first
  globalPlanVersion \* m.globalPlanVersion

nodeVars == <<nodes, version>>
planVars == <<plans, history, globalPlanVersion>>
storeVars == <<nodes, version, health, plans, history, globalPlanVersion>>

PlanKeys == Nodes \cup {Unnamed}

Plan == [version : Nat, body : Body]

EmptyBody == BodyOf(ZeroNode, {}, {})

NoPlan == [version |-> 0, body |-> EmptyBody]

StoreInit ==
  /\ nodes = [n \in {} |-> ZeroNode]
  /\ version = [n \in Nodes |-> 0]
  /\ health = [n \in Nodes |-> "unknown"]
  /\ plans = [k \in PlanKeys |-> NoPlan]
  /\ history = [k \in PlanKeys |-> <<>>]
  /\ globalPlanVersion = 0

StoreTypeOK ==
  /\ IsMap(nodes, Nodes, Node)
  /\ version \in [Nodes -> Nat]
  /\ health \in [Nodes -> Status]
  /\ plans \in [PlanKeys -> Plan]
  /\ history \in [PlanKeys -> Seq(Plan)]
  /\ globalPlanVersion \in Nat

-----------------------------------------------------------------------------

\* The stored node, or the zero value when there is none: its cv is 0 exactly
\* when the second result of the Go method, ok, is false.
GetNode(n) == IF n \in DOMAIN nodes THEN nodes[n] ELSE ZeroNode

\* mutant: the config version is taken from the record, not from the counter
NextVersion_OfRecord(n, r) == r.cv + 1

NextVersion(n, r) == version[n] + 1

UpsertNode(n, r) ==
  /\ version' = [version EXCEPT ![n] = NextVersion(n, r)]
  /\ nodes' = Put(nodes, n, [r EXCEPT !.cv = NextVersion(n, r)])
  /\ UNCHANGED <<health, planVars>>

SaveHealth(n, status) ==
  /\ health' = [health EXCEPT ![n] = status]
  /\ UNCHANGED <<nodeVars, planVars>>

\* mutant: the oldest plans are kept instead of the newest
Trim_KeepOldest(h) ==
  IF Len(h) > HistoryLimit THEN SubSeq(h, 1, HistoryLimit) ELSE h

\* The last HistoryLimit plans.
Trim(h) ==
  IF Len(h) > HistoryLimit
    THEN SubSeq(h, Len(h) - HistoryLimit + 1, Len(h)) ELSE h

\* mutant: only the first plan of a key becomes current
SavePlan_FirstOnly(k, p) ==
  /\ plans' = IF history[k] = <<>> THEN [plans EXCEPT ![k] = p] ELSE plans
  /\ history' = [history EXCEPT ![k] = Trim(Append(@, p))]
  /\ UNCHANGED <<nodeVars, health, globalPlanVersion>>

SavePlan(k, p) ==
  /\ plans' = [plans EXCEPT ![k] = p]
  /\ history' = [history EXCEPT ![k] = Trim(Append(@, p))]
  /\ UNCHANGED <<nodeVars, health, globalPlanVersion>>

\* The first plan saved for k under version v becomes current again.
CanRollback(k, v) == \E i \in DOMAIN history[k] : history[k][i].version = v

FirstWithVersion(k, v) ==
  CHOOSE i \in DOMAIN history[k] :
    /\ history[k][i].version = v
    /\ \A j \in 1..(i - 1) : history[k][j].version # v

RollbackPlan(k, v) ==
  /\ CanRollback(k, v)
  /\ plans' = [plans EXCEPT ![k] = history[k][FirstWithVersion(k, v)]]
  /\ globalPlanVersion' = v
  /\ UNCHANGED <<nodeVars, health, history>>

SetGlobalPlanVersion(v) ==
  /\ globalPlanVersion' = v
  /\ UNCHANGED <<nodeVars, health, plans, history>>

\* The policy fields of a stored node are replaced; its version stays.
UpdatePolicy(n, policy) ==
  /\ n \in DOMAIN nodes
  /\ nodes' = [nodes EXCEPT ![n].rules = policy.rules, ![n].route = policy.route]
  /\ UNCHANGED <<version, health, planVars>>
=============================================================================
