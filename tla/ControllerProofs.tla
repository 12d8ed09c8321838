--------------------------- MODULE ControllerProofs ---------------------------
(***************************************************************************)
(* Theorems about the controller's handlers, for every set of nodes, of    *)
(* handler threads and of requests, and for every bound on the requests.   *)
(***************************************************************************)
EXTENDS ControllerProperties, SequenceTheorems, WellFoundedInduction, TLAPS

-----------------------------------------------------------------------------
(* The operators the model is built from return values of their types. *)

\* Any set of naturals has a least element (lowest address, first version).
LEMMA LeastNatural ==
  ASSUME NEW T \in SUBSET Nat, T # {}
  PROVE  \E m \in T : \A k \in T : m <= k
<1> DEFINE R == OpToRel(<, Nat)
<1>1. \A i, j \in Nat : <<i, j>> \in R <=> i < j
  BY DEF OpToRel
<1>2. IsWellFoundedOn(R, Nat)
  BY NatLessThanWellFounded
<1> HIDE DEF R
<1>3. PICK m \in T : \A k \in T : ~(<<k, m>> \in R)
  BY <1>2, WFMin
<1>4. ASSUME NEW k \in T PROVE m <= k
  <2>1. k \in Nat /\ m \in Nat
    OBVIOUS
  <2>2. ~(<<k, m>> \in R)
    BY <1>3
  <2>3. ~(k < m)
    BY <1>1, <2>1, <2>2, Zenon
  <2> QED BY <2>1, <2>3
<1> QED BY <1>4

LEMMA ZeroTypes ==
  /\ None \in Optional
  /\ ZeroNode \in Node
  /\ EmptyBody \in Body
  /\ NoPlan \in Plan
  /\ NoWork \in Work
<1>1. None \in Optional
  BY DEF Optional
<1>2. ZeroNode \in Node
  BY <1>1 DEF ZeroNode, Node
<1>3. EmptyBody \in Body
  BY <1>1 DEF EmptyBody, Body, BodyOf, ZeroNode
<1>4. NoPlan \in Plan
  BY <1>3 DEF NoPlan, Plan
<1>5. NoWork \in Work
  BY <1>4 DEF NoWork, Work, PlanKeys
<1> QED BY <1>1, <1>2, <1>3, <1>4, <1>5

\* A Go map stays a map when a key is assigned (m.nodes[id] = n).
LEMMA PutType ==
  ASSUME NEW K, NEW V, NEW f, IsMap(f, K, V), NEW k \in K, NEW v \in V
  PROVE  IsMap(Put(f, k, v), K, V)
BY DEF IsMap, Put

\* Merging a form into a record gives a record (register handler).
LEMMA MergeType ==
  ASSUME NEW form \in Form, NEW old \in Node
  PROVE  Merge(form, old) \in Node
<1>1. /\ Or(form.pub, old.pub, 0) \in Nat
      /\ Or(old.overlay, form.overlay, 0) \in Nat
      /\ Or(form.link, old.link, None) \in Optional
      /\ Or(form.cidrs, old.cidrs, None) \in Optional
      /\ Or(form.peps, old.peps, None) \in Optional
      /\ old.priv \in Nat /\ old.token \in Nat
  BY DEF Or, Form, Node
<1> QED BY <1>1, ZeroTypes DEF Merge, Node, ZeroNode

\* The address handed out is a number, all addresses being used included
\* (assignOverlay).
LEMMA AssignOverlayType ==
  ASSUME NEW list PROVE AssignOverlay(list) \in Nat
<1> DEFINE free == (1..LastOverlay) \ {list[n].overlay : n \in DOMAIN list}
<1>1. CASE free = {}
  BY <1>1, ConstantsAssumption DEF AssignOverlay
<1>2. CASE free # {}
  <2>1. free \in SUBSET Nat
    BY ConstantsAssumption
  <2>2. \E i \in free : \A j \in free : i <= j
    <3> HIDE DEF free
    <3> QED BY <1>2, <2>1, LeastNatural
  <2>3. (CHOOSE i \in free : \A j \in free : i <= j) \in free
    <3> HIDE DEF free
    <3> QED BY <2>2
  <2> QED BY <1>2, <2>1, <2>3 DEF AssignOverlay
<1> QED BY <1>1, <1>2

\* A rule stays a rule when its via is filled in (policy handler).
LEMMA NormalType ==
  ASSUME NEW r \in Rule PROVE Normal(r) \in Rule
<1>1. CASE r.via = None /\ r.path # <<>>
  <2>1. r.path \in Seq(Nodes) /\ Len(r.path) \in 1..Len(r.path)
    BY <1>1, EmptySeq DEF Rule
  <2>2. r.path[Len(r.path)] \in Nodes
    BY <2>1, ElementOfSeq
  <2>3. [r EXCEPT !.via = r.path[Len(r.path)]] \in Rule
    BY <2>2 DEF Rule
  <2> QED BY <1>1, <2>3 DEF Normal
<1>2. CASE ~(r.via = None /\ r.path # <<>>)
  BY <1>2 DEF Normal
<1> QED BY <1>1, <1>2

\* The rules put on the hops of a path are rules (expandPolicyRules).
LEMMA ExpandType ==
  ASSUME NEW list, IsMap(list, Nodes, Node), NEW n \in Nodes
  PROVE  ExpandPolicyRules(list, n) \in SUBSET Rule
<1>1. ASSUME NEW m \in DOMAIN list, NEW r \in list[m].rules
      PROVE  RulesAt(n, m, r) \subseteq Rule
  <2>1. m \in Nodes /\ r \in Rule
    BY DEF IsMap, Node
  <2>2. CASE r.path = <<>>
    BY <2>1, <2>2 DEF RulesAt
  <2>3. CASE r.path # <<>>
    <3> DEFINE hop == <<m>> \o r.path
    <3>1. r.path \in Seq(Nodes) /\ <<m>> \in Seq(Nodes) /\ Len(r.path) \in Nat
      BY <2>1 DEF Rule
    <3>2. ASSUME NEW i \in 1..Len(r.path)
          PROVE  [r EXCEPT !.via = hop[i + 1], !.path = <<>>] \in Rule
      <4>1. hop[i + 1] = r.path[i]
        BY <3>1
      <4>2. r.path[i] \in Nodes
        BY <3>1, ElementOfSeq
      <4>3. <<>> \in Seq(Nodes)
        OBVIOUS
      <4> QED BY <2>1, <4>1, <4>2, <4>3 DEF Rule
    <3> QED BY <2>3, <3>2 DEF RulesAt
  <2> QED BY <2>2, <2>3
<1> QED BY <1>1 DEF ExpandPolicyRules

\* A peer plan is a set of peers (BuildPeerPlan).
LEMMA PeersType ==
  ASSUME NEW list, IsMap(list, Nodes, Node), NEW target, NEW status
  PROVE  BuildPeerPlan(target, list, status) \in SUBSET Peer
BY DEF BuildPeerPlan, PeerOf, Peer, IsMap, Node

\* The bodies the handlers publish are bodies (savePlanWithRules).
LEMMA BodyTypes ==
  ASSUME NEW list, IsMap(list, Nodes, Node), NEW n \in Nodes, NEW status
  PROVE  /\ BodyOf(ZeroNode, BuildPeerPlan(n, list, status),
                   ExpandPolicyRules(list, n)) \in Body
         /\ n \in DOMAIN list => PlanBody(n, list, status) \in Body
<1>1. /\ BuildPeerPlan(n, list, status) \in SUBSET Peer
      /\ ExpandPolicyRules(list, n) \in SUBSET Rule
  BY PeersType, ExpandType
<1>2. ASSUME NEW r \in Node
      PROVE  BodyOf(r, BuildPeerPlan(n, list, status),
                    ExpandPolicyRules(list, n)) \in Body
  BY <1>1 DEF BodyOf, Body, Node
<1>3. n \in DOMAIN list => list[n] \in Node
  BY DEF IsMap
<1> QED BY <1>2, <1>3, ZeroTypes DEF PlanBody

\* A trimmed history is a history (SavePlan).
LEMMA TrimType ==
  ASSUME NEW S, NEW s \in Seq(S) PROVE Trim(s) \in Seq(S)
<1>1. CASE Len(s) > HistoryLimit
  <2> DEFINE m == Len(s) - HistoryLimit + 1
  <2>1. m \in Int /\ Len(s) \in Int /\ \A i \in m..Len(s) : s[i] \in S
    BY <1>1, StoreAssumption
  <2>2. SubSeq(s, m, Len(s)) \in Seq(S)
    <3> HIDE DEF m
    <3> QED BY <2>1, SubSeqProperties
  <2> QED BY <1>1, <2>2 DEF Trim
<1>2. CASE ~(Len(s) > HistoryLimit)
  BY <1>2 DEF Trim
<1> QED BY <1>1, <1>2

\* A rollback that succeeds finds a plan of the history (RollbackPlan).
LEMMA FirstInHistory ==
  ASSUME StoreTypeOK, NEW k \in PlanKeys, NEW v, CanRollback(k, v)
  PROVE  /\ FirstWithVersion(k, v) \in DOMAIN history[k]
         /\ history[k][FirstWithVersion(k, v)].version = v
<1> DEFINE T == {i \in DOMAIN history[k] : history[k][i].version = v}
<1>1. DOMAIN history[k] = 1..Len(history[k]) /\ Len(history[k]) \in Nat
  BY LenProperties DEF StoreTypeOK
<1>2. T \in SUBSET Nat /\ T # {}
  BY <1>1 DEF CanRollback
<1>3. PICK i \in T : \A j \in T : i <= j
  <2> HIDE DEF T
  <2> QED BY <1>2, LeastNatural
<1>4. \A j \in 1..(i - 1) : history[k][j].version # v
  <2>1. ASSUME NEW j \in 1..(i - 1), history[k][j].version = v PROVE FALSE
    <3>1. j \in DOMAIN history[k] /\ j < i
      BY <1>1, <2>1
    <3>2. j \in T
      BY <2>1, <3>1
    <3>3. i <= j
      BY <1>3, <3>2
    <3> QED BY <1>1, <3>1, <3>3
  <2> QED BY <2>1
<1> QED BY <1>3, <1>4 DEF FirstWithVersion

\* What ListHealth leaves to publish maps keys to bodies.
LEMMA DraftsType ==
  ASSUME NEW list, IsMap(list, Nodes, Node), NEW request,
         request.node \in Nodes, NEW status
  PROVE  IsMap(Drafts(request, list, status), PlanKeys, Body)
<1>1. DOMAIN list \subseteq Nodes
  BY DEF IsMap
<1>2. \A n \in DOMAIN list : PlanBody(n, list, status) \in Body
  BY <1>1, BodyTypes
<1>3. PlanOfMissing(request.node, list, status) \in Body
  BY BodyTypes DEF PlanOfMissing
<1> QED BY <1>1, <1>2, <1>3 DEF Drafts, IsMap, PlanKeys

-----------------------------------------------------------------------------
(* Type correctness. *)

LEMMA GotoType ==
  ASSUME pc \in [Threads -> PCs], call \in [Threads -> Call],
         NEW t \in Threads, NEW from, NEW to \in PCs, Goto(t, from, to)
  PROVE  pc' \in [Threads -> PCs] /\ call' \in [Threads -> Call]
BY DEF Goto, Call

LEMMA GetNodeType ==
  ASSUME StoreTypeOK, NEW n PROVE GetNode(n) \in Node
BY ZeroTypes DEF StoreTypeOK, GetNode, IsMap

LEMMA InitType == Init => TypeOK
<1> SUFFICES ASSUME Init PROVE TypeOK
  OBVIOUS
<1> USE ZeroTypes DEF Init, StoreInit
<1>1. StoreTypeOK
  <2>1. nodes = [n \in {} |-> ZeroNode]
    OBVIOUS
  <2>2. IsMap(nodes, Nodes, Node)
    BY <2>1 DEF IsMap
  <2> QED BY <2>2 DEF StoreTypeOK, Status
<1>2. NoCall \in Call /\ "idle" \in PCs
  BY DEF Call, PCs
<1>3. \A t \in Threads : /\ IsMap(listed[t], Nodes, Node)
                         /\ IsMap(drafts[t], PlanKeys, Body)
  BY DEF IsMap, NoList, NoDrafts
<1> QED BY <1>1, <1>2, <1>3 DEF TypeOK

\* Requests are received with their types.
LEMMA ReceiveType ==
  ASSUME TypeOK, NEW t \in Threads, NEW request \in Call, NEW first \in PCs,
         Receive(t, request, first)
  PROVE  TypeOK'
BY DEF Receive, TypeOK, StoreTypeOK, storeVars

LEMMA ReceiveAnyType ==
  ASSUME TypeOK, NEW t \in Threads, ReceiveAny(t) PROVE TypeOK'
<1>1. {"lookup", "save", "wait"} \subseteq PCs
  BY DEF PCs
<1>2. CASE ReceivePrepare(t)
  <2>1. \A n \in Nodes : [op |-> "prepare", node |-> n] \in Call
    BY DEF Call
  <2> QED BY <1>1, <1>2, <2>1, ReceiveType DEF ReceivePrepare
<1>3. CASE ReceiveRegister(t)
  <2>1. \A n \in Nodes, f \in Submissions, token \in 0..minted :
          [op |-> "register", node |-> n, form |-> f, token |-> token] \in Call
    BY ControllerAssumption DEF Call, TypeOK
  <2> QED BY <1>1, <1>3, <2>1, ReceiveType DEF ReceiveRegister
<1>4. CASE ReceiveHealth(t)
  <2>1. \A n \in Nodes, s \in {"up", "down"} :
          [op |-> "health", node |-> n, status |-> s] \in Call
    BY DEF Call
  <2> QED BY <1>1, <1>4, <2>1, ReceiveType DEF ReceiveHealth
<1>5. CASE ReceiveGetPlan(t)
  <2>1. \A n \in Nodes : [op |-> "getPlan", node |-> n] \in Call
    BY DEF Call
  <2> QED BY <1>1, <1>5, <2>1, ReceiveType DEF ReceiveGetPlan
<1>6. CASE ReceivePolicy(t)
  <2>1. ASSUME NEW n \in Nodes, NEW p \in Policies
        PROVE  [op |-> "policy", node |-> n,
                policy |-> [p EXCEPT !.rules = {Normal(r) : r \in @}]] \in Call
    <3>1. p \in Policy
      BY ControllerAssumption
    <3>2. {Normal(r) : r \in p.rules} \in SUBSET Rule
      BY <3>1, NormalType DEF Policy
    <3>3. [p EXCEPT !.rules = {Normal(r) : r \in @}] \in Policy
      BY <3>1, <3>2 DEF Policy
    <3> QED BY <3>3 DEF Call
  <2> QED BY <1>1, <1>6, <2>1, ReceiveType DEF ReceivePolicy
<1>7. CASE ReceiveRollback(t)
  <2>1. ASSUME NEW n \in Nodes, NEW i \in DOMAIN history[n]
        PROVE  [op |-> "rollback", node |-> n,
                version |-> history[n][i].version] \in Call
    <3>1. history[n] \in Seq(Plan)
      BY DEF TypeOK, StoreTypeOK, PlanKeys
    <3>2. history[n][i] \in Plan
      BY <3>1, ElementOfSeq, LenProperties
    <3> QED BY <3>2 DEF Plan, Call
  <2> QED BY <1>1, <1>7, <2>1, ReceiveType DEF ReceiveRollback
<1> QED BY <1>2, <1>3, <1>4, <1>5, <1>6, <1>7 DEF ReceiveAny

\* The request a thread serves has the fields of its kind.
LEMMA CallFields ==
  ASSUME TypeOK, NEW t \in Threads
  PROVE  /\ call[t].op # "none" => call[t].node \in Nodes
         /\ Serving(t, "register") => call[t].form \in Form
         /\ Serving(t, "health") => call[t].status \in {"up", "down"}
         /\ Serving(t, "policy") => call[t].policy \in Policy
         /\ Serving(t, "rollback") => call[t].version \in Nat
BY DEF TypeOK, Call, NoCall, Serving

\* The store's operations keep the store's types.
LEMMA UpsertType ==
  ASSUME StoreTypeOK, NEW n \in Nodes, NEW r \in Node, UpsertNode(n, r)
  PROVE  StoreTypeOK'
<1>1. NextVersion(n, r) \in Nat
  BY DEF StoreTypeOK, NextVersion
<1>2. [r EXCEPT !.cv = NextVersion(n, r)] \in Node
  BY <1>1 DEF Node
<1>3. IsMap(nodes', Nodes, Node)
  BY <1>2, PutType DEF UpsertNode, StoreTypeOK
<1> QED BY <1>1, <1>3 DEF UpsertNode, StoreTypeOK, planVars

LEMMA SavePlanType ==
  ASSUME StoreTypeOK, NEW k \in PlanKeys, NEW p \in Plan, SavePlan(k, p)
  PROVE  StoreTypeOK'
<1>1. Append(history[k], p) \in Seq(Plan)
  BY DEF StoreTypeOK
<1>2. Trim(Append(history[k], p)) \in Seq(Plan)
  BY <1>1, TrimType
<1> QED BY <1>2 DEF SavePlan, StoreTypeOK, nodeVars

LEMMA RollbackPlanType ==
  ASSUME StoreTypeOK, NEW k \in PlanKeys, NEW v \in Nat, RollbackPlan(k, v)
  PROVE  StoreTypeOK'
<1>1. FirstWithVersion(k, v) \in DOMAIN history[k]
  BY FirstInHistory DEF RollbackPlan
<1>2. history[k][FirstWithVersion(k, v)] \in Plan
  BY <1>1, ElementOfSeq, LenProperties DEF StoreTypeOK
<1> QED BY <1>2 DEF RollbackPlan, StoreTypeOK, nodeVars

LEMMA UpdatePolicyType ==
  ASSUME StoreTypeOK, NEW n \in Nodes, NEW p \in Policy, UpdatePolicy(n, p)
  PROVE  StoreTypeOK'
<1>1. n \in DOMAIN nodes /\ nodes[n] \in Node
  BY DEF UpdatePolicy, StoreTypeOK, IsMap
<1>2. [nodes[n] EXCEPT !.rules = p.rules, !.route = p.route] \in Node
  BY <1>1 DEF Node, Policy
<1>3. nodes' = [nodes EXCEPT ![n] =
                  [nodes[n] EXCEPT !.rules = p.rules, !.route = p.route]]
  BY <1>1 DEF UpdatePolicy
<1>4. IsMap(nodes', Nodes, Node)
  BY <1>1, <1>2, <1>3 DEF StoreTypeOK, IsMap
<1> QED BY <1>4 DEF UpdatePolicy, StoreTypeOK, planVars

\* Every step of a handler keeps the types.
LEMMA ServeType ==
  ASSUME TypeOK, NEW t \in Threads, Serve(t) PROVE TypeOK'
<1> USE DEF TypeOK
<1>0. /\ PCs = {"idle", "lookup", "assign", "save", "wait", "list",
               "listHealth", "claim", "store", "global", "push", "reset",
               "record", "bump"}
      /\ planVersion + 1 \in Nat /\ minted + 1 \in Nat
  BY DEF PCs
<1>a. /\ IsMap(nodes, Nodes, Node)
      /\ health \in [Nodes -> Status]
  BY DEF StoreTypeOK
<1>b. ASSUME UNCHANGED storeVars PROVE StoreTypeOK'
  BY <1>b DEF storeVars, StoreTypeOK
<1>1. CASE PrepareLookup(t)
  <2>1. pc' \in [Threads -> PCs] /\ call' \in [Threads -> Call]
    BY <1>0, <1>1, GotoType DEF PrepareLookup
  <2> QED BY <1>1, <1>b, <2>1 DEF PrepareLookup
<1>2. CASE PrepareAssign(t)
  <2>1. pc' \in [Threads -> PCs] /\ call' \in [Threads -> Call]
    BY <1>0, <1>2, GotoType DEF PrepareAssign
  <2>2. [ZeroNode EXCEPT !.pub = minted', !.priv = minted', !.token = minted',
                         !.overlay = AssignOverlay(nodes)] \in Node
    BY <1>0, <1>2, ZeroTypes, AssignOverlayType DEF PrepareAssign, Node
  <2> QED BY <1>0, <1>2, <1>b, <2>1, <2>2 DEF PrepareAssign
<1>3. CASE PrepareSave(t)
  <2>1. pc' \in [Threads -> PCs] /\ call' \in [Threads -> Call]
    BY <1>0, <1>3, GotoType DEF PrepareSave
  <2>2. StoreTypeOK'
    BY <1>3, CallFields, UpsertType DEF PrepareSave, Serving
  <2> QED BY <1>3, <2>1, <2>2, ZeroTypes DEF PrepareSave
<1>4. CASE RegisterLookup(t)
  <2>1. pc' \in [Threads -> PCs] /\ call' \in [Threads -> Call]
    BY <1>0, <1>4, GotoType DEF RegisterLookup
  <2>2. GetNode(call[t].node) \in Node
    BY GetNodeType
  <2> QED BY <1>4, <1>b, <2>1, <2>2 DEF RegisterLookup
<1>5. CASE RegisterSave(t)
  <2>1. pc' \in [Threads -> PCs] /\ call' \in [Threads -> Call]
    BY <1>0, <1>5, GotoType DEF RegisterSave
  <2>2. Merge(call[t].form, record[t]) \in Node /\ call[t].node \in Nodes
    BY <1>5, CallFields, MergeType DEF RegisterSave, Serving
  <2>3. StoreTypeOK'
    BY <1>5, <1>b, <2>2, UpsertType DEF RegisterSave
  <2> QED BY <1>5, <2>1, <2>3, ZeroTypes DEF RegisterSave
<1>6. CASE HealthSave(t)
  <2>1. pc' \in [Threads -> PCs] /\ call' \in [Threads -> Call]
    BY <1>0, <1>6, GotoType DEF HealthSave
  <2>2. call[t].node \in Nodes /\ call[t].status \in Status
    BY <1>6, CallFields DEF HealthSave, Serving, Status
  <2>3. StoreTypeOK'
    BY <1>6, <2>2 DEF HealthSave, SaveHealth, StoreTypeOK, nodeVars, planVars
  <2> QED BY <1>6, <2>1, <2>3 DEF HealthSave
<1>7. CASE HealthListNodes(t)
  <2> DEFINE n == call[t].node
  <2> DEFINE own == [m \in Nodes |-> IF m = n THEN call[t].status ELSE "unknown"]
  <2> DEFINE b == BodyOf(ZeroNode, BuildPeerPlan(n, nodes, own),
                         ExpandPolicyRules(nodes, n))
  <2>1. pc' \in [Threads -> PCs] /\ call' \in [Threads -> Call]
    BY <1>0, <1>7, GotoType DEF HealthListNodes
  <2>2. n \in Nodes
    BY <1>7, CallFields DEF HealthListNodes, Serving
  <2>3. b \in Body
    <3> HIDE DEF n, own
    <3> QED BY <1>a, <2>2, BodyTypes
  <2>4. drafts' = [drafts EXCEPT ![t] = [k \in {n} |-> b]]
    BY <1>7 DEF HealthListNodes
  <2>5. IsMap([k \in {n} |-> b], PlanKeys, Body)
    <3> HIDE DEF n, b
    <3> QED BY <2>2, <2>3 DEF IsMap, PlanKeys
  <2>6. /\ DOMAIN drafts' = Threads
        /\ \A u \in Threads : IsMap(drafts'[u], PlanKeys, Body)
    <3> HIDE DEF n, b
    <3> QED BY <2>4, <2>5
  <2> QED BY <1>7, <1>b, <2>1, <2>6 DEF HealthListNodes
<1>8. CASE GetPlanWait(t)
  <2>1. pc' \in [Threads -> PCs] /\ call' \in [Threads -> Call]
    BY <1>0, <1>8, GotoType DEF GetPlanWait
  <2> QED BY <1>8, <1>b, <2>1 DEF GetPlanWait
<1>9. CASE ListNodes(t)
  <2>1. pc' \in [Threads -> PCs] /\ call' \in [Threads -> Call]
    BY <1>0, <1>9, GotoType DEF ListNodes
  <2> QED BY <1>9, <1>a, <1>b, <2>1 DEF ListNodes
<1>10. CASE ListHealth(t)
  <2>1. pc' \in [Threads -> PCs] /\ call' \in [Threads -> Call]
    BY <1>0, <1>10, GotoType DEF ListHealth
  <2>2. call[t].node \in Nodes /\ IsMap(listed[t], Nodes, Node)
    BY <1>10, CallFields DEF ListHealth, Serving
  <2>3. IsMap(Drafts(call[t], listed[t], health), PlanKeys, Body)
    BY <2>2, DraftsType
  <2>4. IsMap(NoList, Nodes, Node)
    BY DEF NoList, IsMap
  <2> QED BY <1>10, <1>b, <2>1, <2>3, <2>4 DEF ListHealth
<1>11. CASE ClaimVersion(t)
  <2>1. PICK k \in DOMAIN drafts[t] :
          /\ Goto(t, "claim", "store")
          /\ planVersion' = Advance(planVersion)
          /\ work' = [work EXCEPT ![t] =
               [key |-> k, plan |-> [version |-> planVersion', body |-> drafts[t][k]]]]
          /\ drafts' = [drafts EXCEPT ![t] = [x \in DOMAIN @ \ {k} |-> @[x]]]
          /\ UNCHANGED <<storeVars, minted, pushed, requests, record, listed>>
    BY <1>11 DEF ClaimVersion
  <2>2. pc' \in [Threads -> PCs] /\ call' \in [Threads -> Call]
    BY <1>0, <2>1, GotoType
  <2>3. k \in PlanKeys /\ drafts[t][k] \in Body
    BY DEF IsMap
  <2>4. [key |-> k, plan |-> [version |-> planVersion', body |-> drafts[t][k]]] \in Work
    BY <1>0, <2>1, <2>3 DEF Work, Plan, Advance
  <2>5. IsMap([x \in DOMAIN drafts[t] \ {k} |-> drafts[t][x]], PlanKeys, Body)
    BY DEF IsMap
  <2>6. \A u \in Threads : IsMap(drafts'[u], PlanKeys, Body)
    BY <2>1, <2>5
  <2> QED BY <1>0, <1>b, <2>1, <2>2, <2>4, <2>6 DEF Advance
<1>12. CASE StorePlan(t)
  <2>1. pc' \in [Threads -> PCs] /\ call' \in [Threads -> Call]
    BY <1>0, <1>12, GotoType DEF StorePlan
  <2>2. StoreTypeOK'
    BY <1>12, SavePlanType DEF StorePlan, Work
  <2> QED BY <1>12, <2>1, <2>2 DEF StorePlan
<1>13. CASE RecordVersion(t)
  <2>1. pc' \in [Threads -> PCs] /\ call' \in [Threads -> Call]
    BY <1>0, <1>13, GotoType DEF RecordVersion
  <2>2. work[t].plan.version \in Nat
    BY DEF Work, Plan
  <2>3. StoreTypeOK'
    BY <1>13, <2>2 DEF RecordVersion, SetGlobalPlanVersion, StoreTypeOK, nodeVars
  <2> QED BY <1>13, <2>1, <2>3 DEF RecordVersion
<1>14. CASE PushPlan(t)
  <2>1. pc' \in [Threads -> PCs] /\ call' \in [Threads -> Call]
    BY <1>0, <1>14, GotoType DEF PushPlan, AfterPush
  <2>2. work[t].plan \in Plan
    BY DEF Work
  <2>3. pushed' \in [Nodes -> Plan] /\ work' \in [Threads -> Work]
    BY <1>14, <2>2, ZeroTypes DEF PushPlan
  <2> QED BY <1>14, <1>b, <2>1, <2>3 DEF PushPlan
<1>15. CASE Bump(t)
  <2>1. pc' \in [Threads -> PCs] /\ call' \in [Threads -> Call]
    BY <1>0, <1>15, GotoType DEF Bump
  <2> QED BY <1>0, <1>15, <1>b, <2>1 DEF Bump, Advance
<1>16. CASE PolicySave(t)
  <2>1. pc' \in [Threads -> PCs] /\ call' \in [Threads -> Call]
    BY <1>0, <1>16, GotoType DEF PolicySave
  <2>2. call[t].node \in Nodes /\ call[t].policy \in Policy
    BY <1>16, CallFields DEF PolicySave, Serving
  <2>3. StoreTypeOK'
    BY <1>16, <1>b, <2>2, UpdatePolicyType DEF PolicySave
  <2> QED BY <1>16, <2>1, <2>3 DEF PolicySave
<1>17. CASE RollbackSave(t)
  <2>1. pc' \in [Threads -> PCs] /\ call' \in [Threads -> Call]
    BY <1>0, <1>17, GotoType DEF RollbackSave
  <2>2. call[t].node \in PlanKeys /\ call[t].version \in Nat
    BY <1>17, CallFields DEF RollbackSave, Serving, PlanKeys
  <2>3. StoreTypeOK'
    BY <1>17, <1>b, <2>2, RollbackPlanType DEF RollbackSave
  <2> QED BY <1>17, <2>1, <2>3 DEF RollbackSave
<1>18. CASE RollbackReset(t)
  <2>1. pc' \in [Threads -> PCs] /\ call' \in [Threads -> Call]
    BY <1>0, <1>18, GotoType DEF RollbackReset
  <2>2. call[t].version \in Nat
    BY <1>18, CallFields DEF RollbackReset
  <2> QED BY <1>18, <1>b, <2>1, <2>2 DEF RollbackReset
<1>19. CASE RollbackRecord(t)
  <2>1. pc' \in [Threads -> PCs] /\ call' \in [Threads -> Call]
    BY <1>0, <1>19, GotoType DEF RollbackRecord
  <2>2. call[t].version \in Nat
    BY <1>19, CallFields DEF RollbackRecord
  <2>3. StoreTypeOK'
    BY <1>19, <2>2 DEF RollbackRecord, SetGlobalPlanVersion, StoreTypeOK, nodeVars
  <2> QED BY <1>19, <2>1, <2>3 DEF RollbackRecord
<1> QED BY <1>1, <1>2, <1>3, <1>4, <1>5, <1>6, <1>7, <1>8, <1>9, <1>10, <1>11,
           <1>12, <1>13, <1>14, <1>15, <1>16, <1>17, <1>18, <1>19 DEF Serve

\* The controller's variables keep their types.
THEOREM TypeCorrect == Spec => []TypeOK
<1>1. TypeOK /\ [Next]_vars => TypeOK'
  <2> SUFFICES ASSUME TypeOK, [Next]_vars PROVE TypeOK'
    OBVIOUS
  <2>1. CASE UNCHANGED vars
    BY <2>1 DEF vars, storeVars, threadVars, TypeOK, StoreTypeOK
  <2> QED BY <2>1, ReceiveAnyType, ServeType DEF Next, Idle
<1> QED BY <1>1, InitType, PTL DEF Spec

-----------------------------------------------------------------------------
(* The handlers implement the abstract plan log. *)

\* What the refinement needs besides types: rollbacks are served only when
\* clients send them, and a version that was drawn is not 0.
ServesAllowed ==
  \A t \in Threads : /\ Serving(t, "rollback") => "rollback" \in Ops
                     /\ pc[t] = "store" => work[t].plan.version # 0

LEMMA ReceiveAllowed ==
  ASSUME TypeOK, ServesAllowed, NEW t \in Threads, ReceiveAny(t)
  PROVE  /\ ServesAllowed'
         /\ UNCHANGED Log!logVars
<1>1. PICK request, first :
        Receive(t, request, first) /\ first \in {"lookup", "save", "wait"}
  BY DEF ReceiveAny, ReceivePrepare, ReceiveRegister, ReceiveHealth,
         ReceiveGetPlan, ReceivePolicy, ReceiveRollback
<1>2. /\ \A u \in Threads \ {t} : pc'[u] = pc[u] /\ call'[u] = call[u]
      /\ pc[t] = "idle" /\ pc'[t] = first /\ call'[t] = request
      /\ request.op \in Ops /\ work' = work
  BY <1>1 DEF Receive, TypeOK
<1>3. ServesAllowed'
  BY <1>1, <1>2 DEF ServesAllowed, Serving
<1>4. \A u \in Threads : InFlight(u)' = InFlight(u)
  BY <1>1, <1>2 DEF InFlight
<1> QED BY <1>1, <1>3, <1>4 DEF Receive, storeVars, Log!logVars

\* A step that neither ends in nor leaves the point between drawing a version
\* and saving the plan draws and saves none.
LEMMA GotoClaims ==
  ASSUME TypeOK, ServesAllowed, NEW t \in Threads, NEW from, NEW to,
         Goto(t, from, to), from # "store", to # "store",
         \A u \in Threads \ {t} : work'[u] = work[u]
  PROVE  /\ ServesAllowed'
         /\ \A u \in Threads : InFlight(u)' = InFlight(u)
         /\ [u \in Threads |-> InFlight(u)]' = [u \in Threads |-> InFlight(u)]
<1>1. /\ \A u \in Threads \ {t} : pc'[u] = pc[u]
      /\ \A u \in Threads : call'[u] = call[u] \/ call'[u] = NoCall
      /\ pc[t] = from /\ pc'[t] = to
  BY DEF Goto, TypeOK
<1>2. ServesAllowed'
  BY <1>1 DEF ServesAllowed, Serving, NoCall
<1>3. \A u \in Threads : InFlight(u)' = InFlight(u)
  BY <1>1 DEF InFlight
<1> QED BY <1>2, <1>3

\* Every step of a handler is a step of the plan log, or none.
LEMMA ServeImplements ==
  ASSUME TypeOK, ServesAllowed, NEW t \in Threads, Serve(t)
  PROVE  ServesAllowed' /\ [Log!Next]_(Log!logVars)
<1> USE DEF storeVars, nodeVars, planVars, Log!logVars
<1>1. CASE \/ PrepareLookup(t) \/ PrepareAssign(t) \/ PrepareSave(t)
           \/ RegisterLookup(t) \/ RegisterSave(t)
           \/ HealthSave(t) \/ HealthListNodes(t) \/ GetPlanWait(t)
           \/ ListNodes(t) \/ ListHealth(t) \/ RecordVersion(t)
           \/ PolicySave(t) \/ RollbackRecord(t) \/ PushPlan(t)
  <2>1. /\ planVersion' = planVersion /\ plans' = plans /\ history' = history
        /\ \A u \in Threads \ {t} : work'[u] = work[u]
        /\ \E from, to : Goto(t, from, to) /\ from # "store" /\ to # "store"
    <3>1. CASE PrepareLookup(t)
      BY <3>1 DEF PrepareLookup
    <3>2. CASE PrepareAssign(t)
      BY <3>2 DEF PrepareAssign
    <3>3. CASE PrepareSave(t)
      BY <3>3 DEF PrepareSave, UpsertNode
    <3>4. CASE RegisterLookup(t)
      BY <3>4 DEF RegisterLookup
    <3>5. CASE RegisterSave(t)
      BY <3>5 DEF RegisterSave, UpsertNode
    <3>6. CASE HealthSave(t)
      BY <3>6 DEF HealthSave, SaveHealth
    <3>7. CASE HealthListNodes(t)
      BY <3>7 DEF HealthListNodes
    <3>8. CASE GetPlanWait(t)
      BY <3>8 DEF GetPlanWait
    <3>9. CASE ListNodes(t)
      BY <3>9 DEF ListNodes
    <3>10. CASE ListHealth(t)
      BY <3>10 DEF ListHealth
    <3>11. CASE RecordVersion(t)
      BY <3>11 DEF RecordVersion, SetGlobalPlanVersion
    <3>12. CASE PolicySave(t)
      BY <3>12 DEF PolicySave, UpdatePolicy
    <3>13. CASE RollbackRecord(t)
      BY <3>13 DEF RollbackRecord, SetGlobalPlanVersion
    <3>14. CASE PushPlan(t)
      BY <3>14 DEF PushPlan, AfterPush, TypeOK
    <3> QED BY <1>1, <3>1, <3>2, <3>3, <3>4, <3>5, <3>6, <3>7, <3>8, <3>9, <3>10,
               <3>11, <3>12, <3>13, <3>14
  <2> QED BY <2>1, GotoClaims
<1>2. CASE ClaimVersion(t)
  <2>1. PICK k \in DOMAIN drafts[t] :
          /\ Goto(t, "claim", "store")
          /\ planVersion' = Advance(planVersion)
          /\ work' = [work EXCEPT ![t] =
               [key |-> k, plan |-> [version |-> planVersion', body |-> drafts[t][k]]]]
          /\ UNCHANGED storeVars
    BY <1>2 DEF ClaimVersion
  <2>2. /\ \A u \in Threads \ {t} : pc'[u] = pc[u] /\ work'[u] = work[u]
        /\ \A u \in Threads : call'[u] = call[u] \/ call'[u] = NoCall
        /\ pc[t] = "claim" /\ pc'[t] = "store"
        /\ work'[t].plan.version = planVersion + 1
        /\ planVersion' = planVersion + 1 /\ planVersion \in Nat
    BY <2>1 DEF Goto, TypeOK, Advance
  <2>3. ServesAllowed'
    BY <2>2 DEF ServesAllowed, Serving, NoCall
  <2>4. /\ InFlight(t) = 0
        /\ \A u \in Threads :
             InFlight(u)' = IF u = t THEN planVersion + 1 ELSE InFlight(u)
    BY <2>2 DEF InFlight
  <2>5. Log!Claim(t)
    BY <2>1, <2>2, <2>4 DEF Log!Claim
  <2> QED BY <2>3, <2>5 DEF Log!Next
<1>3. CASE StorePlan(t)
  <2> DEFINE k == work[t].key
  <2> DEFINE e == work[t].plan
  <2>1. /\ \A u \in Threads \ {t} : pc'[u] = pc[u]
        /\ \A u \in Threads : call'[u] = call[u] \/ call'[u] = NoCall
        /\ pc[t] = "store" /\ pc'[t] = "global" /\ work' = work
    BY <1>3 DEF StorePlan, Goto, TypeOK
  <2>2. ServesAllowed'
    BY <2>1 DEF ServesAllowed, Serving, NoCall
  <2>3. k \in PlanKeys /\ e \in Plan /\ e.version # 0
    BY <2>1 DEF TypeOK, Work, ServesAllowed
  <2>4. /\ InFlight(t) = e.version
        /\ \A u \in Threads : InFlight(u)' = IF u = t THEN 0 ELSE InFlight(u)
    BY <2>1 DEF InFlight
  <2>5. /\ plans' = [plans EXCEPT ![k] = e]
        /\ history' = [history EXCEPT ![k] = Log!Last(Append(@, e))]
        /\ planVersion' = planVersion
    BY <1>3 DEF StorePlan, SavePlan, Trim, Log!Last
  <2>6. plans'[k] = e
    BY <2>3, <2>5 DEF TypeOK, StoreTypeOK
  <2> HIDE DEF k, e
  <2>7. Log!Commit(t, k)
    BY <2>3, <2>4, <2>5, <2>6 DEF Log!Commit, Log!Entry, Plan
  <2> QED BY <2>2, <2>3, <2>7 DEF Log!Next
<1>4. CASE Bump(t)
  <2>1. /\ Goto(t, "bump", "idle") /\ work' = work
        /\ planVersion' = planVersion + 1 /\ plans' = plans /\ history' = history
    BY <1>4 DEF Bump, Advance
  <2>2. /\ ServesAllowed'
        /\ [u \in Threads |-> InFlight(u)]' = [u \in Threads |-> InFlight(u)]
    BY <2>1, GotoClaims
  <2> QED BY <2>1, <2>2 DEF Log!Next, Log!Tick
<1>5. CASE RollbackSave(t)
  <2> DEFINE n == call[t].node
  <2> DEFINE v == call[t].version
  <2>1. /\ n \in PlanKeys /\ "rollback" \in Ops
        /\ work' = work /\ planVersion' = planVersion
        /\ Goto(t, "save", IF CanRollback(n, v) THEN "reset" ELSE "idle")
        /\ CanRollback(n, v) => RollbackPlan(n, v)
        /\ ~CanRollback(n, v) => UNCHANGED storeVars
    BY <1>5, CallFields DEF RollbackSave, Serving, PlanKeys, ServesAllowed
  <2>2. /\ ServesAllowed'
        /\ [u \in Threads |-> InFlight(u)]' = [u \in Threads |-> InFlight(u)]
    BY <2>1, GotoClaims
  <2>3. CASE CanRollback(n, v)
    <3> DEFINE i == FirstWithVersion(n, v)
    <3>1. i \in DOMAIN history[n]
      BY <2>1, <2>3, FirstInHistory DEF TypeOK
    <3>2. plans' = [plans EXCEPT ![n] = history[n][i]] /\ history' = history
      BY <2>1, <2>3 DEF RollbackPlan
    <3> HIDE DEF i, n
    <3>3. Log!Restore(n)
      BY <2>1, <2>2, <3>1, <3>2 DEF Log!Restore
    <3> QED BY <2>1, <2>2, <3>3 DEF Log!Next
  <2>4. CASE ~CanRollback(n, v)
    BY <2>1, <2>2, <2>4
  <2> QED BY <2>3, <2>4
<1>6. CASE RollbackReset(t)
  <2>1. /\ Goto(t, "reset", "record") /\ work' = work
        /\ planVersion' \in Nat /\ "rollback" \in Ops
        /\ plans' = plans /\ history' = history
    BY <1>6, CallFields DEF RollbackReset, ServesAllowed, Serving
  <2>2. /\ ServesAllowed'
        /\ [u \in Threads |-> InFlight(u)]' = [u \in Threads |-> InFlight(u)]
    BY <2>1, GotoClaims
  <2> QED BY <2>1, <2>2 DEF Log!Next, Log!SetBack
<1> QED BY <1>1, <1>2, <1>3, <1>4, <1>5, <1>6 DEF Serve

\* However requests interleave, what happens to the counter, the plans and the
\* histories is a behaviour of the abstract plan log.
THEOREM ControllerImplementsLog == Spec => ImplementsPlanLog
<1>1. Init => ServesAllowed /\ Log!Init
  BY DEF Init, StoreInit, ServesAllowed, Serving, NoCall, InFlight, NoPlan,
         Log!Init, Log!NoEntry
<1>2. TypeOK /\ ServesAllowed /\ [Next]_vars
        => ServesAllowed' /\ [Log!Next]_(Log!logVars)
  <2> SUFFICES ASSUME TypeOK, ServesAllowed, [Next]_vars
               PROVE  ServesAllowed' /\ [Log!Next]_(Log!logVars)
    OBVIOUS
  <2>1. CASE UNCHANGED vars
    BY <2>1 DEF vars, storeVars, threadVars, ServesAllowed, Serving, InFlight,
                Log!logVars
  <2> QED BY <2>1, ReceiveAllowed, ServeImplements DEF Next, Idle
<1> QED BY <1>1, <1>2, TypeCorrect, PTL DEF Spec, ImplementsPlanLog, Log!Spec

-----------------------------------------------------------------------------
(* What holds of every behaviour of the plan log holds of the controller.  *)

LogTheorems == INSTANCE PlanLogProofs WITH
  Keys <- PlanKeys, Publishers <- Threads, Contents <- Body,
  Blank <- EmptyBody, Limit <- HistoryLimit, Restores <- "rollback" \in Ops,
  counter <- planVersion, claim <- [t \in Threads |-> InFlight(t)],
  current <- plans, log <- history

LEMMA BehavesAsLog ==
  LogTheorems!LimitOK /\ (Spec => LogTheorems!Spec)
<1>1. LogTheorems!LimitOK
  BY StoreAssumption, ZeroTypes DEF LogTheorems!LimitOK
<1>2. Log!Init => LogTheorems!Init
  BY DEF Log!Init, LogTheorems!Init, Log!NoEntry, LogTheorems!NoEntry
<1>3. [Log!Next]_(Log!logVars) => [LogTheorems!Next]_(LogTheorems!logVars)
  BY DEF Log!Next, LogTheorems!Next, Log!logVars, LogTheorems!logVars,
         Log!Tick, LogTheorems!Tick, Log!Claim, LogTheorems!Claim,
         Log!Commit, LogTheorems!Commit, Log!Restore, LogTheorems!Restore,
         Log!SetBack, LogTheorems!SetBack, Log!Entry, LogTheorems!Entry,
         Log!Last, LogTheorems!Last
<1> QED BY <1>1, <1>2, <1>3, ControllerImplementsLog, PTL
        DEF ImplementsPlanLog, Log!Spec, LogTheorems!Spec

\* Histories never lose the current plan: a plan shown as current can be read,
\* and rolled back to, from the history (SavePlan, RollbackPlan).
THEOREM CurrentPlanKept == Spec => []CurrentPlanInHistory
<1>1. LogTheorems!CurrentInLog => CurrentPlanInHistory
  BY DEF LogTheorems!CurrentInLog, CurrentPlanInHistory, HasPlan
<1>2. LogTheorems!LimitOK => (LogTheorems!Spec => []LogTheorems!CurrentInLog)
  BY LogTheorems!CurrentPlanLogged
<1> QED BY <1>1, <1>2, BehavesAsLog, PTL

\* As long as nobody rolls back, a version names one plan: of all nodes', and
\* however the handlers that draw and save them interleave.
THEOREM VersionsNamePlans ==
  "rollback" \notin Ops => (Spec => [](VersionsUnique /\ DrawnVersionsFresh))
<1> SUFFICES ASSUME "rollback" \notin Ops
             PROVE  Spec => [](VersionsUnique /\ DrawnVersionsFresh)
  OBVIOUS
<1>1. LogTheorems!VersionsUnique /\ LogTheorems!ClaimsFresh
        => VersionsUnique /\ DrawnVersionsFresh
  <2>1. LogTheorems!VersionsUnique => VersionsUnique
    BY DEF LogTheorems!VersionsUnique, VersionsUnique
  <2>2. LogTheorems!ClaimsFresh => DrawnVersionsFresh
    BY DEF LogTheorems!ClaimsFresh, DrawnVersionsFresh
  <2> QED BY <2>1, <2>2
<1>2. LogTheorems!Spec
        => [](LogTheorems!VersionsUnique /\ LogTheorems!ClaimsFresh)
  BY BehavesAsLog, LogTheorems!LoggedVersionsUnique
<1> QED BY <1>1, <1>2, BehavesAsLog, PTL
=============================================================================
