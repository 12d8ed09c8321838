------------------------------ MODULE Controller ------------------------------
(***************************************************************************)
(* The controller's HTTP handlers (pkg/api).  net/http runs each request   *)
(* in a goroutine of its own; a member of Threads serves one request at a  *)
(* time, and its steps are the calls its handler makes to the store, to    *)
(* the atomic plan counter and to the WebSocket hub.  Between two calls    *)
(* other handlers run: what a call returned may be stale when it is used.  *)
(***************************************************************************)
EXTENDS NodeStore

CONSTANTS
  Threads,          \* handler goroutines that may run at the same time
  Ops,              \* the kinds of request that clients send
  Submissions,      \* registration forms that clients send
  Policies,         \* policies that clients send
  MaxRequests       \* bound: requests in a behaviour

OpNames == {"prepare", "register", "health", "getPlan", "policy", "rollback"}

Policy == [rules : SUBSET Rule, route : Optional]

ASSUME ControllerAssumption ==
  /\ Ops \subseteq OpNames
  /\ Submissions \subseteq Form
  /\ Policies \subseteq Policy
  /\ MaxRequests \in Nat

VARIABLES
  planVersion,      \* the atomic int64 counter of main.go
  minted,           \* key pairs and tokens generated by prepare
  pushed,           \* the last plan handed to the hub for each node
  requests,         \* requests received so far
  pc,               \* pc[t]: the next call of thread t, or "idle"
  call,             \* call[t]: the request thread t serves
  record,           \* record[t]: the node record thread t has in hand
  listed,           \* listed[t]: the node list thread t has read
  drafts,           \* drafts[t]: bodies thread t has still to publish, by key
  work              \* work[t]: the plan thread t is publishing, and its key

threadVars == <<pc, call, record, listed, drafts, work>>
vars == <<storeVars, planVersion, minted, pushed, requests, threadVars>>

NoList == [n \in {} |-> ZeroNode]
NoDrafts == [k \in {} |-> EmptyBody]
NoCall == [op |-> "none"]
NoWork == [key |-> Unnamed, plan |-> NoPlan]

Call ==
       {NoCall}
  \cup [op : {"prepare", "getPlan"}, node : Nodes]
  \cup [op : {"register"}, node : Nodes, form : Form, token : Nat]
  \cup [op : {"health"}, node : Nodes, status : {"up", "down"}]
  \cup [op : {"policy"}, node : Nodes, policy : Policy]
  \cup [op : {"rollback"}, node : Nodes, version : Nat]

Work == [key : PlanKeys, plan : Plan]

PCs == {"idle", "lookup", "assign", "save", "wait", "list", "listHealth",
        "claim", "store", "global", "push", "reset", "record", "bump"}

Init ==
  /\ StoreInit
  /\ planVersion = 0
  /\ minted = 0
  /\ pushed = [n \in Nodes |-> NoPlan]
  /\ requests = 0
  /\ pc = [t \in Threads |-> "idle"]
  /\ call = [t \in Threads |-> NoCall]
  /\ record = [t \in Threads |-> ZeroNode]
  /\ listed = [t \in Threads |-> NoList]
  /\ drafts = [t \in Threads |-> NoDrafts]
  /\ work = [t \in Threads |-> NoWork]

-----------------------------------------------------------------------------
(* Control of a thread. *)

Goto(t, from, to) ==
  /\ pc[t] = from
  /\ pc' = [pc EXCEPT ![t] = to]
  /\ call' = IF to = "idle" THEN [call EXCEPT ![t] = NoCall] ELSE call

Serving(t, op) == call[t].op = op

Receive(t, request, first) ==
  /\ pc[t] = "idle"
  /\ requests < MaxRequests
  /\ request.op \in Ops
  /\ requests' = requests + 1
  /\ pc' = [pc EXCEPT ![t] = first]
  /\ call' = [call EXCEPT ![t] = request]
  /\ UNCHANGED <<storeVars, planVersion, minted, pushed, record, listed,
                 drafts, work>>

\* mutants: the counter stays, or runs backwards
Advance_Stuck(v) == v
Advance_Back(v) == v - 1

\* atomic.AddInt64(planVersion, 1)
Advance(v) == v + 1

-----------------------------------------------------------------------------
(* POST /api/v1/nodes/prepare *)

ReceivePrepare(t) ==
  \E n \in Nodes : Receive(t, [op |-> "prepare", node |-> n], "lookup")

\* mutant: a prepared node is told by its CIDRs, which it gets later
Prepared_ByCidrs(r) == r.cidrs # None

Prepared(r) == r.token # 0

\* A node that has a token is answered as it is; any other is made anew.
PrepareLookup(t) ==
  /\ Serving(t, "prepare")
  /\ Goto(t, "lookup", IF Prepared(GetNode(call[t].node)) THEN "bump" ELSE "assign")
  /\ UNCHANGED <<storeVars, planVersion, minted, pushed, requests, record,
                 listed, drafts, work>>

\* A key pair and a token are generated and an overlay address is chosen from
\* the node list of this moment.  Tokens are nanosecond clock readings: two
\* prepares are taken to read different ones.
PrepareAssign(t) ==
  /\ Serving(t, "prepare")
  /\ Goto(t, "assign", "save")
  /\ minted' = minted + 1
  /\ record' = [record EXCEPT ![t] =
       [ZeroNode EXCEPT !.pub = minted', !.priv = minted', !.token = minted',
                        !.overlay = AssignOverlay(nodes)]]
  /\ UNCHANGED <<storeVars, planVersion, pushed, requests, listed, drafts, work>>

PrepareSave(t) ==
  /\ Serving(t, "prepare")
  /\ Goto(t, "save", "bump")
  /\ UpsertNode(call[t].node, record[t])
  /\ record' = [record EXCEPT ![t] = ZeroNode]
  /\ UNCHANGED <<planVersion, minted, pushed, requests, listed, drafts, work>>

-----------------------------------------------------------------------------
(* POST /api/v1/nodes/register *)

\* token is 0 for an authenticated user, else any token handed out so far.
ReceiveRegister(t) ==
  \E n \in Nodes, f \in Submissions, token \in 0..minted :
    Receive(t, [op |-> "register", node |-> n, form |-> f, token |-> token],
            "lookup")

TokenAccepted(token, stored) == token = 0 \/ token = stored.token

RegisterLookup(t) ==
  LET stored == GetNode(call[t].node)
  IN /\ Serving(t, "register")
     /\ IF TokenAccepted(call[t].token, stored)
          THEN /\ Goto(t, "lookup", "save")
               /\ record' = [record EXCEPT ![t] = stored]
          ELSE /\ Goto(t, "lookup", "idle")
               /\ UNCHANGED record
     /\ UNCHANGED <<storeVars, planVersion, minted, pushed, requests, listed,
                    drafts, work>>

\* The form is merged with the record read before, which may be stale by now.
RegisterSave(t) ==
  LET stored == record[t]
      merged == Merge(call[t].form, stored)
  IN /\ Serving(t, "register")
     /\ Goto(t, "save", "list")
     /\ IF stored.cv # 0 /\ ~call[t].form.force /\ NodeEqual(stored, merged)
          THEN UNCHANGED storeVars
          ELSE UpsertNode(call[t].node, merged)
     /\ record' = [record EXCEPT ![t] = ZeroNode]
     /\ UNCHANGED <<planVersion, minted, pushed, requests, listed, drafts, work>>

-----------------------------------------------------------------------------
(* POST /api/v1/health *)

ReceiveHealth(t) ==
  \E n \in Nodes, s \in {"up", "down"} :
    Receive(t, [op |-> "health", node |-> n, status |-> s], "save")

HealthSave(t) ==
  /\ Serving(t, "health")
  /\ Goto(t, "save", "list")
  /\ SaveHealth(call[t].node, call[t].status)
  /\ UNCHANGED <<planVersion, minted, pushed, requests, record, listed, drafts,
                 work>>

\* The plan of the reporting node alone is made: from a node record that holds
\* nothing but the ID, and from no other node's report.
HealthListNodes(t) ==
  LET n == call[t].node
      own == [m \in Nodes |-> IF m = n THEN call[t].status ELSE "unknown"]
  IN /\ Serving(t, "health")
     /\ Goto(t, "list", "claim")
     /\ drafts' = [drafts EXCEPT ![t] =
          [k \in {n} |-> BodyOf(ZeroNode, BuildPeerPlan(n, nodes, own),
                                ExpandPolicyRules(nodes, n))]]
     /\ UNCHANGED <<storeVars, planVersion, minted, pushed, requests, record,
                    listed, work>>

-----------------------------------------------------------------------------
(* GET /api/v1/plan *)

ReceiveGetPlan(t) ==
  \E n \in Nodes : Receive(t, [op |-> "getPlan", node |-> n], "wait")

\* waitForVersion returns when the counter exceeds the client's version, or
\* after 20 seconds: the handler goes on alike.
GetPlanWait(t) ==
  /\ Serving(t, "getPlan")
  /\ Goto(t, "wait", "list")
  /\ UNCHANGED <<storeVars, planVersion, minted, pushed, requests, record,
                 listed, drafts, work>>

-----------------------------------------------------------------------------
(* Reading the inputs of plans, and publishing plans. *)

ListNodes(t) ==
  /\ Serving(t, "register") \/ Serving(t, "getPlan")
  /\ Goto(t, "list", "listHealth")
  /\ listed' = [listed EXCEPT ![t] = nodes]
  /\ UNCHANGED <<storeVars, planVersion, minted, pushed, requests, record,
                 drafts, work>>

\* The plan GET /plan saves for a node missing from the list bears no node ID.
PlanOfMissing(n, list, status) ==
  BodyOf(ZeroNode, BuildPeerPlan(n, list, status), ExpandPolicyRules(list, n))

\* mutant: a registration makes the plan of its own node alone
Drafts_Own(request, list, status) ==
  IF request.node \in DOMAIN list
    THEN [n \in {request.node} |-> PlanBody(n, list, status)]
    ELSE [k \in {Unnamed} |-> PlanOfMissing(request.node, list, status)]

Drafts(request, list, status) ==
  IF request.op = "register"
    THEN [n \in DOMAIN list |-> PlanBody(n, list, status)]
  ELSE IF request.node \in DOMAIN list
    THEN [n \in {request.node} |-> PlanBody(n, list, status)]
    ELSE [k \in {Unnamed} |-> PlanOfMissing(request.node, list, status)]

ListHealth(t) ==
  /\ Serving(t, "register") \/ Serving(t, "getPlan")
  /\ Goto(t, "listHealth", "claim")
  /\ drafts' = [drafts EXCEPT ![t] = Drafts(call[t], listed[t], health)]
  /\ listed' = [listed EXCEPT ![t] = NoList]
  /\ UNCHANGED <<storeVars, planVersion, minted, pushed, requests, record, work>>

\* savePlanWithRules, in any order of the nodes: a version is claimed, ...
ClaimVersion(t) ==
  \E k \in DOMAIN drafts[t] :
    /\ Goto(t, "claim", "store")
    /\ planVersion' = Advance(planVersion)
    /\ work' = [work EXCEPT ![t] =
         [key |-> k, plan |-> [version |-> planVersion', body |-> drafts[t][k]]]]
    /\ drafts' = [drafts EXCEPT ![t] = [x \in DOMAIN @ \ {k} |-> @[x]]]
    /\ UNCHANGED <<storeVars, minted, pushed, requests, record, listed>>

\* ... the plan is saved under it, ...
StorePlan(t) ==
  /\ Goto(t, "store", "global")
  /\ SavePlan(work[t].key, work[t].plan)
  /\ UNCHANGED <<planVersion, minted, pushed, requests, record, listed, drafts,
                 work>>

\* ... the version becomes the global one, ...
RecordVersion(t) ==
  /\ Goto(t, "global", "push")
  /\ SetGlobalPlanVersion(work[t].plan.version)
  /\ UNCHANGED <<planVersion, minted, pushed, requests, record, listed, drafts,
                 work>>

AfterPush(t) ==
  IF drafts[t] # NoDrafts THEN "claim"
  ELSE IF Serving(t, "getPlan") THEN "idle" ELSE "bump"

\* ... and the plan is sent to the node (no agent has the empty ID).
PushPlan(t) ==
  /\ Goto(t, "push", AfterPush(t))
  /\ pushed' = [n \in Nodes |-> IF n = work[t].key THEN work[t].plan ELSE pushed[n]]
  /\ work' = [work EXCEPT ![t] = NoWork]
  /\ UNCHANGED <<storeVars, planVersion, minted, requests, record, listed, drafts>>

\* BumpPlanVersion, the last call of prepare, register, health and policy.
Bump(t) ==
  /\ Goto(t, "bump", "idle")
  /\ planVersion' = Advance(planVersion)
  /\ UNCHANGED <<storeVars, minted, pushed, requests, record, listed, drafts, work>>

-----------------------------------------------------------------------------
(* POST /api/v1/policy: a policy with rules needs a valid one. *)

ReceivePolicy(t) ==
  \E n \in Nodes, p \in Policies :
    /\ p.rules = {} \/ \E r \in p.rules : Valid(r)
    /\ Receive(t, [op |-> "policy", node |-> n,
                   policy |-> [p EXCEPT !.rules = {Normal(r) : r \in @}]], "save")

\* No plan is made: the node is sent a task and answers it by itself.
PolicySave(t) ==
  /\ Serving(t, "policy")
  /\ IF call[t].node \in DOMAIN nodes
       THEN /\ Goto(t, "save", "bump")
            /\ UpdatePolicy(call[t].node, call[t].policy)
       ELSE /\ Goto(t, "save", "idle")
            /\ UNCHANGED storeVars
  /\ UNCHANGED <<planVersion, minted, pushed, requests, record, listed, drafts,
                 work>>

-----------------------------------------------------------------------------
(* POST /api/v1/plan/rollback *)

\* The client names a version it has seen in the history.
ReceiveRollback(t) ==
  \E n \in Nodes : \E i \in DOMAIN history[n] :
    Receive(t, [op |-> "rollback", node |-> n,
                version |-> history[n][i].version], "save")

\* The signature covers the saved plan alone and always matches.
RollbackSave(t) ==
  LET n == call[t].node
      v == call[t].version
  IN /\ Serving(t, "rollback")
     /\ IF CanRollback(n, v)
          THEN /\ Goto(t, "save", "reset")
               /\ RollbackPlan(n, v)
          ELSE /\ Goto(t, "save", "idle")
               /\ UNCHANGED storeVars
     /\ UNCHANGED <<planVersion, minted, pushed, requests, record, listed,
                    drafts, work>>

RollbackReset(t) ==
  /\ Serving(t, "rollback")
  /\ Goto(t, "reset", "record")
  /\ planVersion' = call[t].version
  /\ UNCHANGED <<storeVars, minted, pushed, requests, record, listed, drafts, work>>

RollbackRecord(t) ==
  /\ Serving(t, "rollback")
  /\ Goto(t, "record", "idle")
  /\ SetGlobalPlanVersion(call[t].version)
  /\ UNCHANGED <<planVersion, minted, pushed, requests, record, listed, drafts,
                 work>>

-----------------------------------------------------------------------------

ReceiveAny(t) ==
  \/ ReceivePrepare(t) \/ ReceiveRegister(t) \/ ReceiveHealth(t)
  \/ ReceiveGetPlan(t) \/ ReceivePolicy(t) \/ ReceiveRollback(t)

Serve(t) ==
  \/ PrepareLookup(t) \/ PrepareAssign(t) \/ PrepareSave(t)
  \/ RegisterLookup(t) \/ RegisterSave(t)
  \/ HealthSave(t) \/ HealthListNodes(t)
  \/ GetPlanWait(t)
  \/ ListNodes(t) \/ ListHealth(t)
  \/ ClaimVersion(t) \/ StorePlan(t) \/ RecordVersion(t) \/ PushPlan(t)
  \/ Bump(t)
  \/ PolicySave(t)
  \/ RollbackSave(t) \/ RollbackReset(t) \/ RollbackRecord(t)

\* No client sends anything more: the server idles, which is no deadlock.
Quiescent == \A t \in Threads : pc[t] = "idle"

Idle == Quiescent /\ UNCHANGED vars

Next == (\E t \in Threads : ReceiveAny(t) \/ Serve(t)) \/ Idle

Spec == Init /\ [][Next]_vars
=============================================================================
