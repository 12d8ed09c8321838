------------------------ MODULE ControllerRecordProofs ------------------------
(***************************************************************************)
(* Theorems about what the controller's handlers do to the node records,   *)
(* and about how the plans follow the records, for any number of handlers  *)
(* that run at the same time.                                              *)
(***************************************************************************)
EXTENDS ControllerProofs, ControllerHistory, FiniteSetTheorems

-----------------------------------------------------------------------------
(* Config versions. *)

\* A record of the store bears no version above the counter of its ID.
VersionsCounted == \A n \in DOMAIN nodes : nodes[n].cv <= version[n]

\* The steps that touch the stored nodes: the two saves and the policy.
LEMMA NodesStep ==
  ASSUME TypeOK, [Next]_vars, nodeVars' # nodeVars
  PROVE  \E t \in Threads :
           /\ call[t].node \in Nodes
           /\ \/ PrepareSave(t)
              \/ /\ RegisterSave(t)
                 /\ UpsertNode(call[t].node, Merge(call[t].form, record[t]))
              \/ /\ PolicySave(t)
                 /\ UpdatePolicy(call[t].node, call[t].policy)
<1> USE DEF storeVars
<1>1. PICK t \in Threads : Serve(t)
  <2>1. ~UNCHANGED vars
    BY DEF vars, nodeVars
  <2>2. \A t \in Threads : ~ReceiveAny(t)
    BY DEF ReceiveAny, Receive, ReceivePrepare, ReceiveRegister, ReceiveHealth,
           ReceiveGetPlan, ReceivePolicy, ReceiveRollback, nodeVars
  <2> QED BY <2>1, <2>2 DEF Next, Idle
<1>2. \/ PrepareSave(t)
      \/ /\ RegisterSave(t)
         /\ UpsertNode(call[t].node, Merge(call[t].form, record[t]))
      \/ /\ PolicySave(t)
         /\ UpdatePolicy(call[t].node, call[t].policy)
  <2> USE DEF nodeVars
  <2>1. ~PrepareLookup(t) /\ ~PrepareAssign(t) /\ ~RegisterLookup(t)
    BY DEF PrepareLookup, PrepareAssign, RegisterLookup
  <2>2. ~HealthSave(t) /\ ~HealthListNodes(t) /\ ~GetPlanWait(t)
    BY DEF HealthSave, SaveHealth, HealthListNodes, GetPlanWait
  <2>3. ~ListNodes(t) /\ ~ListHealth(t) /\ ~ClaimVersion(t) /\ ~StorePlan(t)
    BY DEF ListNodes, ListHealth, ClaimVersion, StorePlan, SavePlan
  <2>4. ~RecordVersion(t) /\ ~PushPlan(t) /\ ~Bump(t)
    BY DEF RecordVersion, SetGlobalPlanVersion, PushPlan, Bump
  <2>5. ~RollbackSave(t) /\ ~RollbackReset(t) /\ ~RollbackRecord(t)
    BY DEF RollbackSave, RollbackPlan, RollbackReset, RollbackRecord,
           SetGlobalPlanVersion
  <2>6. PrepareSave(t) \/ RegisterSave(t) \/ PolicySave(t)
    BY <1>1, <2>1, <2>2, <2>3, <2>4, <2>5 DEF Serve
  <2> QED BY <2>6 DEF RegisterSave, PolicySave
<1>3. call[t].node \in Nodes
  BY <1>2, CallFields DEF PrepareSave, RegisterSave, PolicySave, Serving
<1> QED BY <1>2, <1>3

\* What saving a record does to each node, and to the versions.
LEMMA UpsertEffect ==
  ASSUME StoreTypeOK, NEW n \in Nodes, NEW r \in Node, UpsertNode(n, r)
  PROVE  /\ DOMAIN nodes' = DOMAIN nodes \cup {n}
         /\ \A m \in DOMAIN nodes \ {n} : nodes'[m] = nodes[m]
         /\ nodes'[n] = [r EXCEPT !.cv = version[n] + 1]
         /\ nodes'[n].cv = version[n] + 1
         /\ nodes'[n].pub = r.pub /\ nodes'[n].priv = r.priv
         /\ nodes'[n].token = r.token /\ nodes'[n].overlay = r.overlay
         /\ nodes'[n].link = r.link /\ nodes'[n].cidrs = r.cidrs
         /\ nodes'[n].peps = r.peps
         /\ version' = [version EXCEPT ![n] = version[n] + 1]
<1>1. nodes' = Put(nodes, n, [r EXCEPT !.cv = version[n] + 1])
  BY DEF UpsertNode, NextVersion
<1>2. /\ DOMAIN nodes' = DOMAIN nodes \cup {n}
      /\ \A m \in DOMAIN nodes \ {n} : nodes'[m] = nodes[m]
      /\ nodes'[n] = [r EXCEPT !.cv = version[n] + 1]
  BY <1>1 DEF Put
<1>3. version' = [version EXCEPT ![n] = version[n] + 1]
  BY DEF UpsertNode, NextVersion
<1> QED BY <1>2, <1>3 DEF Node

\* What a policy does to each node.
LEMMA PolicyEffect ==
  ASSUME StoreTypeOK, NEW n \in Nodes, NEW p, UpdatePolicy(n, p)
  PROVE  /\ DOMAIN nodes' = DOMAIN nodes
         /\ \A m \in DOMAIN nodes :
              /\ nodes'[m] = [nodes[m] EXCEPT !.rules = nodes'[m].rules,
                                             !.route = nodes'[m].route]
              /\ nodes'[m].cv = nodes[m].cv
              /\ nodes'[m].pub = nodes[m].pub
              /\ nodes'[m].priv = nodes[m].priv
              /\ nodes'[m].token = nodes[m].token
              /\ nodes'[m].overlay = nodes[m].overlay
         /\ version' = version
<1>1. n \in DOMAIN nodes /\ \A m \in DOMAIN nodes : nodes[m] \in Node
  BY DEF UpdatePolicy, StoreTypeOK, IsMap
<1>2. /\ DOMAIN nodes' = DOMAIN nodes
      /\ nodes'[n] = [nodes[n] EXCEPT !.rules = p.rules, !.route = p.route]
      /\ \A m \in DOMAIN nodes \ {n} : nodes'[m] = nodes[m]
  BY <1>1 DEF UpdatePolicy
<1> QED BY <1>1, <1>2 DEF UpdatePolicy, Node

LEMMA VersionsCountedStep ==
  ASSUME TypeOK, VersionsCounted, [Next]_vars
  PROVE  /\ VersionsCounted'
         /\ \A n \in DOMAIN nodes :
              \/ nodes'[n].cv > nodes[n].cv
              \/ nodes'[n] = [nodes[n] EXCEPT !.rules = nodes'[n].rules,
                                             !.route = nodes'[n].route]
<1> USE DEF VersionsCounted
<1>0. /\ StoreTypeOK /\ version \in [Nodes -> Nat] /\ DOMAIN nodes \subseteq Nodes
      /\ \A n \in DOMAIN nodes : nodes[n] \in Node
      /\ record \in [Threads -> Node]
  BY DEF TypeOK, StoreTypeOK, IsMap
<1>a. ASSUME NEW n \in DOMAIN nodes, nodes'[n] = nodes[n]
      PROVE  nodes'[n] = [nodes[n] EXCEPT !.rules = nodes'[n].rules,
                                         !.route = nodes'[n].route]
  BY <1>0, <1>a DEF Node
<1>b. ASSUME NEW n \in Nodes, NEW r \in Node, UpsertNode(n, r)
      PROVE  /\ VersionsCounted'
             /\ \A m \in DOMAIN nodes :
                  \/ nodes'[m].cv > nodes[m].cv
                  \/ nodes'[m] = nodes[m]
  <2>1. /\ DOMAIN nodes' = DOMAIN nodes \cup {n}
        /\ \A m \in DOMAIN nodes \ {n} : nodes'[m] = nodes[m]
        /\ nodes'[n].cv = version[n] + 1
        /\ version' = [version EXCEPT ![n] = version[n] + 1]
    BY <1>0, <1>b, UpsertEffect
  <2>2. \A m \in DOMAIN nodes : nodes[m].cv \in Nat /\ version[m] \in Nat
    BY <1>0 DEF Node
  <2> QED BY <1>0, <2>1, <2>2
<1>1. CASE UNCHANGED nodeVars
  BY <1>1, <1>a DEF nodeVars
<1>2. CASE nodeVars' # nodeVars
  <2>1. PICK t \in Threads :
           /\ call[t].node \in Nodes
           /\ \/ PrepareSave(t)
              \/ /\ RegisterSave(t)
                 /\ UpsertNode(call[t].node, Merge(call[t].form, record[t]))
              \/ /\ PolicySave(t)
                 /\ UpdatePolicy(call[t].node, call[t].policy)
    BY <1>2, NodesStep
  <2>2. CASE PrepareSave(t)
    BY <1>0, <1>a, <1>b, <2>1, <2>2 DEF PrepareSave
  <2>3. CASE RegisterSave(t) /\ UpsertNode(call[t].node, Merge(call[t].form, record[t]))
    <3>1. Merge(call[t].form, record[t]) \in Node
      BY <1>0, <2>3, CallFields, MergeType DEF RegisterSave
    <3> QED BY <1>a, <1>b, <2>1, <2>3, <3>1
  <2>4. CASE UpdatePolicy(call[t].node, call[t].policy)
    BY <1>0, <2>1, <2>4, PolicyEffect
  <2> QED BY <2>1, <2>2, <2>3, <2>4
<1> QED BY <1>1, <1>2

\* A record changes, its policy apart, only under a higher config version,
\* however handlers overwrite each other's records: the counter of the ID, not
\* the record a handler read, gives the version (UpsertNode).
THEOREM ConfigVersionsGrow == Spec => ConfigVersionGrows
<1>1. Init => VersionsCounted
  BY DEF Init, StoreInit, VersionsCounted
<1>2. TypeOK /\ VersionsCounted /\ [Next]_vars => VersionsCounted'
  BY VersionsCountedStep
<1>3. TypeOK /\ VersionsCounted /\ [Next]_vars
        => [\A n \in DOMAIN nodes :
              \/ nodes'[n].cv > nodes[n].cv
              \/ nodes'[n] = [nodes[n] EXCEPT !.rules = nodes'[n].rules,
                                             !.route = nodes'[n].route]]_vars
  BY VersionsCountedStep
<1> QED BY <1>1, <1>2, <1>3, TypeCorrect, PTL DEF Spec, ConfigVersionGrows

\* As long as nobody rolls back, a version that was drawn and is not saved yet
\* is new: VersionsUnique rests on it, so it is proved with it.
THEOREM DrawnVersionsAreFresh ==
  "rollback" \notin Ops => (Spec => []DrawnVersionsFresh)
BY VersionsNamePlans, PTL

-----------------------------------------------------------------------------
(* Keys and tokens of one prepare. *)

\* A registration is served with a form that clients send.
FormsSubmitted ==
  \A t \in Threads : Serving(t, "register") => call[t].form \in Submissions

\* A request that is being served stays the one received, until it is answered.
LEMMA CallStep ==
  ASSUME TypeOK, [Next]_vars, NEW u \in Threads
  PROVE  \/ call'[u] = call[u]
         \/ call'[u] = NoCall
         \/ ReceiveAny(u)
<1>0. call \in [Threads -> Call]
  BY DEF TypeOK
<1>1. CASE UNCHANGED vars
  BY <1>1 DEF vars, threadVars
<1>2. ASSUME NEW t \in Threads, ReceiveAny(t), u # t PROVE call'[u] = call[u]
  BY <1>0, <1>2 DEF ReceiveAny, Receive, ReceivePrepare, ReceiveRegister,
         ReceiveHealth, ReceiveGetPlan, ReceivePolicy, ReceiveRollback
<1>3. ASSUME NEW t \in Threads, Serve(t)
      PROVE  call'[u] = call[u] \/ call'[u] = NoCall
  <2>1. PICK from, to : Goto(t, from, to)
    BY <1>3 DEF Serve, PrepareLookup, PrepareAssign, PrepareSave, RegisterLookup,
         RegisterSave, HealthSave, HealthListNodes, GetPlanWait, ListNodes,
         ListHealth, ClaimVersion, StorePlan, RecordVersion, PushPlan, Bump,
         PolicySave, RollbackSave, RollbackReset, RollbackRecord
  <2> QED BY <1>0, <2>1 DEF Goto
<1> QED BY <1>1, <1>2, <1>3 DEF Next, Idle

LEMMA FormsAreSubmitted == Spec => []FormsSubmitted
<1>1. Init => FormsSubmitted
  BY DEF Init, FormsSubmitted, Serving, NoCall
<1>2. TypeOK /\ FormsSubmitted /\ [Next]_vars => FormsSubmitted'
  <2> SUFFICES ASSUME TypeOK, FormsSubmitted, [Next]_vars, NEW u \in Threads,
                      Serving(u, "register")'
               PROVE  call'[u].form \in Submissions
    BY DEF FormsSubmitted
  <2>1. CASE call'[u] = call[u] \/ call'[u] = NoCall
    BY <2>1 DEF FormsSubmitted, Serving, NoCall
  <2>2. CASE ReceiveAny(u)
    <3>1. call \in [Threads -> Call]
      BY DEF TypeOK
    <3> QED BY <2>2, <3>1 DEF ReceiveAny, Receive, ReceivePrepare,
               ReceiveRegister, ReceiveHealth, ReceiveGetPlan, ReceivePolicy,
               ReceiveRollback, Serving
  <2> QED BY <2>1, <2>2, CallStep
<1> QED BY <1>1, <1>2, TypeCorrect, PTL DEF Spec

\* The record a handler has in hand was read from the store, was made by
\* prepare, or is the empty one it started with.
LEMMA RecordStep ==
  ASSUME TypeOK, [Next]_vars, NEW u \in Threads
  PROVE  \/ record'[u] = record[u]
         \/ record'[u] = ZeroNode
         \/ RegisterLookup(u) /\ record'[u] = GetNode(call[u].node)
         \/ /\ PrepareAssign(u)
            /\ record'[u] = [ZeroNode EXCEPT !.pub = minted', !.priv = minted',
                               !.token = minted', !.overlay = AssignOverlay(nodes)]
<1>0. record \in [Threads -> Node]
  BY DEF TypeOK
<1>1. CASE record' = record
  BY <1>1
<1>2. CASE record' # record
  <2>1. ~UNCHANGED vars /\ \A t \in Threads : ~ReceiveAny(t)
    BY <1>2 DEF vars, threadVars, ReceiveAny, Receive, ReceivePrepare,
         ReceiveRegister, ReceiveHealth, ReceiveGetPlan, ReceivePolicy,
         ReceiveRollback
  <2>2. PICK t \in Threads : Serve(t)
    BY <2>1 DEF Next, Idle
  <2>3. PrepareAssign(t) \/ PrepareSave(t) \/ RegisterLookup(t) \/ RegisterSave(t)
    BY <1>2, <2>2 DEF Serve, PrepareLookup, HealthSave, HealthListNodes,
         GetPlanWait, ListNodes, ListHealth, ClaimVersion, StorePlan,
         RecordVersion, PushPlan, Bump, PolicySave, RollbackSave,
         RollbackReset, RollbackRecord
  <2>4. CASE PrepareAssign(t)
    BY <1>0, <2>4 DEF PrepareAssign
  <2>5. CASE PrepareSave(t)
    BY <1>0, <2>5 DEF PrepareSave
  <2>6. CASE RegisterLookup(t)
    BY <1>0, <2>6 DEF RegisterLookup
  <2>7. CASE RegisterSave(t)
    BY <1>0, <2>7 DEF RegisterSave
  <2> QED BY <2>3, <2>4, <2>5, <2>6, <2>7
<1> QED BY <1>1, <1>2

\* Both halves of a record's key pair and its token come from one prepare.
OfOnePrepare(r) == r.pub = r.priv /\ r.priv = r.token

\* Every record the store or a handler holds comes from one prepare.
RecordsOfOnePrepare ==
  /\ ProvisionedTogether
  /\ \A t \in Threads : OfOnePrepare(record[t])

LEMMA RecordsOfOnePrepareStep ==
  ASSUME \A f \in Submissions : f.pub = 0,
         TypeOK, FormsSubmitted, RecordsOfOnePrepare, [Next]_vars
  PROVE  RecordsOfOnePrepare'
<1> USE DEF OfOnePrepare
<1>0. /\ StoreTypeOK /\ DOMAIN nodes \subseteq Nodes
      /\ \A t \in Threads : record[t] \in Node
      /\ OfOnePrepare(ZeroNode)
  BY DEF TypeOK, StoreTypeOK, IsMap, ZeroNode
<1>1. ASSUME NEW t \in Threads PROVE OfOnePrepare(record'[t])
  <2>1. OfOnePrepare(GetNode(call[t].node))
    BY <1>0 DEF GetNode, RecordsOfOnePrepare, ProvisionedTogether
  <2>2. ASSUME NEW k, NEW a
        PROVE  OfOnePrepare([ZeroNode EXCEPT !.pub = k, !.priv = k, !.token = k,
                                             !.overlay = a])
    BY DEF ZeroNode
  <2>3. CASE record'[t] = record[t]
    BY <2>3 DEF RecordsOfOnePrepare
  <2>4. CASE record'[t] \in {ZeroNode, GetNode(call[t].node)}
    BY <1>0, <2>1, <2>4
  <2>5. CASE record'[t] = [ZeroNode EXCEPT !.pub = minted', !.priv = minted',
                             !.token = minted', !.overlay = AssignOverlay(nodes)]
    BY <2>2, <2>5
  <2> QED BY <2>3, <2>4, <2>5, RecordStep
<1>2. ProvisionedTogether'
  <2> USE DEF ProvisionedTogether
  <2>1. CASE UNCHANGED nodeVars
    BY <2>1 DEF nodeVars, RecordsOfOnePrepare
  <2>2. ASSUME NEW n \in Nodes, NEW r \in Node, OfOnePrepare(r), UpsertNode(n, r)
        PROVE  ProvisionedTogether'
    <3>1. /\ DOMAIN nodes' = DOMAIN nodes \cup {n}
          /\ \A m \in DOMAIN nodes \ {n} : nodes'[m] = nodes[m]
          /\ OfOnePrepare(nodes'[n])
      BY <1>0, <2>2, UpsertEffect
    <3> QED BY <3>1 DEF RecordsOfOnePrepare
  <2>3. CASE nodeVars' # nodeVars
    <3>1. PICK t \in Threads :
             /\ call[t].node \in Nodes
             /\ \/ PrepareSave(t)
                \/ /\ RegisterSave(t)
                   /\ UpsertNode(call[t].node, Merge(call[t].form, record[t]))
                \/ /\ PolicySave(t)
                   /\ UpdatePolicy(call[t].node, call[t].policy)
      BY <2>3, NodesStep
    <3>2. CASE PrepareSave(t)
      BY <1>0, <2>2, <3>1, <3>2 DEF PrepareSave, RecordsOfOnePrepare
    <3>3. CASE /\ RegisterSave(t)
               /\ UpsertNode(call[t].node, Merge(call[t].form, record[t]))
      <4>1. call[t].form \in Form /\ call[t].form.pub = 0
        BY <3>3, CallFields DEF RegisterSave, FormsSubmitted
      <4>2. Merge(call[t].form, record[t]) \in Node
        BY <1>0, <4>1, MergeType
      <4>3. OfOnePrepare(Merge(call[t].form, record[t]))
        BY <4>1 DEF Merge, ZeroNode, Or, RecordsOfOnePrepare
      <4> QED BY <2>2, <3>1, <3>3, <4>2, <4>3
    <3>4. CASE UpdatePolicy(call[t].node, call[t].policy)
      BY <1>0, <3>1, <3>4, PolicyEffect DEF RecordsOfOnePrepare
    <3> QED BY <3>1, <3>2, <3>3, <3>4
  <2> QED BY <2>1, <2>3
<1> QED BY <1>1, <1>2 DEF RecordsOfOnePrepare

\* When no client submits a key of its own, a stored node never has the public
\* key of one prepare with the private key or the token of another, though
\* registrations write back whole records they read long before.
THEOREM KeysOfOnePrepare ==
  (\A f \in Submissions : f.pub = 0) => (Spec => []ProvisionedTogether)
<1> SUFFICES ASSUME \A f \in Submissions : f.pub = 0
             PROVE  Spec => []ProvisionedTogether
  OBVIOUS
<1>1. Init => RecordsOfOnePrepare
  BY DEF Init, StoreInit, RecordsOfOnePrepare, ProvisionedTogether,
         OfOnePrepare, ZeroNode
<1>2. TypeOK /\ FormsSubmitted /\ RecordsOfOnePrepare /\ [Next]_vars
        => RecordsOfOnePrepare'
  BY RecordsOfOnePrepareStep
<1>3. RecordsOfOnePrepare => ProvisionedTogether
  BY DEF RecordsOfOnePrepare
<1> QED BY <1>1, <1>2, <1>3, TypeCorrect, FormsAreSubmitted, PTL DEF Spec

-----------------------------------------------------------------------------
(* One step of one handler. *)

LEMMA NextType == ASSUME TypeOK, [Next]_vars PROVE TypeOK'
<1>1. CASE UNCHANGED vars
  BY <1>1 DEF vars, storeVars, threadVars, TypeOK, StoreTypeOK
<1> QED BY <1>1, ReceiveAnyType, ServeType DEF Next, Idle

\* The steps after which a handler is about to save or to assign.
LEMMA BeforeSave ==
  ASSUME TypeOK, NEW t \in Threads, Serve(t), pc'[t] \in {"assign", "save"}
  PROVE  PrepareLookup(t) \/ PrepareAssign(t) \/ RegisterLookup(t)
<1>1. ASSUME NEW from, NEW to, Goto(t, from, to) PROVE pc'[t] = to
  BY <1>1 DEF Goto, TypeOK
<1>2. ~PrepareSave(t) /\ ~RegisterSave(t) /\ ~HealthSave(t) /\ ~HealthListNodes(t)
  BY <1>1 DEF PrepareSave, RegisterSave, HealthSave, HealthListNodes
<1>3. ~GetPlanWait(t) /\ ~ListNodes(t) /\ ~ListHealth(t) /\ ~ClaimVersion(t)
  BY <1>1 DEF GetPlanWait, ListNodes, ListHealth, ClaimVersion
<1>4. ~StorePlan(t) /\ ~RecordVersion(t) /\ ~PushPlan(t) /\ ~Bump(t)
  BY <1>1 DEF StorePlan, RecordVersion, PushPlan, AfterPush, Bump
<1>5. ~PolicySave(t) /\ ~RollbackSave(t) /\ ~RollbackReset(t) /\ ~RollbackRecord(t)
  BY <1>1 DEF PolicySave, RollbackSave, RollbackReset, RollbackRecord
<1> QED BY <1>2, <1>3, <1>4, <1>5 DEF Serve

\* A request is received at the first call of its handler.
LEMMA Received ==
  ASSUME TypeOK, NEW t \in Threads, ReceiveAny(t)
  PROVE  /\ pc[t] = "idle"
         /\ pc'[t] \in {"lookup", "save", "wait"}
         /\ call'[t].op \in {"prepare", "register"} => pc'[t] = "lookup"
         /\ UNCHANGED <<storeVars, planVersion, minted, pushed, record, listed,
                        drafts, work>>
BY DEF ReceiveAny, Receive, ReceivePrepare, ReceiveRegister, ReceiveHealth,
       ReceiveGetPlan, ReceivePolicy, ReceiveRollback, TypeOK

\* A step of one handler leaves what the others have in hand.
LEMMA OthersStay ==
  ASSUME TypeOK, NEW t \in Threads, ReceiveAny(t) \/ Serve(t),
         NEW u \in Threads, u # t
  PROVE  /\ pc'[u] = pc[u] /\ call'[u] = call[u] /\ record'[u] = record[u]
         /\ listed'[u] = listed[u] /\ drafts'[u] = drafts[u]
         /\ work'[u] = work[u]
<1>0. /\ DOMAIN pc = Threads /\ DOMAIN call = Threads /\ DOMAIN record = Threads
      /\ DOMAIN listed = Threads /\ DOMAIN drafts = Threads
      /\ DOMAIN work = Threads
  BY DEF TypeOK
<1>a. ASSUME NEW from, NEW to, Goto(t, from, to)
      PROVE  pc'[u] = pc[u] /\ call'[u] = call[u]
  BY <1>0, <1>a DEF Goto
<1>1. CASE ReceiveAny(t)
  BY <1>0, <1>1 DEF ReceiveAny, Receive, ReceivePrepare, ReceiveRegister,
         ReceiveHealth, ReceiveGetPlan, ReceivePolicy, ReceiveRollback
<1>2. CASE PrepareLookup(t) \/ PrepareAssign(t) \/ PrepareSave(t)
  BY <1>0, <1>a, <1>2 DEF PrepareLookup, PrepareAssign, PrepareSave
<1>3. CASE RegisterLookup(t) \/ RegisterSave(t)
  BY <1>0, <1>a, <1>3 DEF RegisterLookup, RegisterSave
<1>4. CASE HealthSave(t) \/ HealthListNodes(t) \/ GetPlanWait(t)
  BY <1>0, <1>a, <1>4 DEF HealthSave, HealthListNodes, GetPlanWait
<1>5. CASE ListNodes(t) \/ ListHealth(t)
  BY <1>0, <1>a, <1>5 DEF ListNodes, ListHealth
<1>6. CASE ClaimVersion(t)
  BY <1>0, <1>a, <1>6 DEF ClaimVersion
<1>7. CASE StorePlan(t) \/ RecordVersion(t) \/ PushPlan(t) \/ Bump(t)
  BY <1>0, <1>a, <1>7 DEF StorePlan, RecordVersion, PushPlan, Bump
<1>8. CASE PolicySave(t)
  BY <1>0, <1>a, <1>8 DEF PolicySave
<1>9. CASE RollbackSave(t) \/ RollbackReset(t) \/ RollbackRecord(t)
  BY <1>0, <1>a, <1>9 DEF RollbackSave, RollbackReset, RollbackRecord
<1> QED BY <1>1, <1>2, <1>3, <1>4, <1>5, <1>6, <1>7, <1>8, <1>9 DEF Serve

\* A handler that holds a record has just got it, or holds it as before.
LEMMA HoldingStep ==
  ASSUME TypeOK, [Next]_vars, NEW u \in Threads, Holding(u)'
  PROVE  \/ PrepareLookup(u) \/ PrepareAssign(u) \/ RegisterLookup(u)
         \/ /\ Holding(u) /\ ~Saves(u)
            /\ pc'[u] = pc[u] /\ call'[u] = call[u] /\ record'[u] = record[u]
<1>0. pc'[u] \in {"assign", "save"}
  BY DEF Holding
<1>1. pc'[u] = pc[u] => ~Saves(u)
  BY DEF Saves, PrepareSave, RegisterSave, Goto, TypeOK
<1>a. pc'[u] = pc[u] /\ call'[u] = call[u] => Holding(u)
  BY DEF Holding, Serving
<1>2. CASE UNCHANGED vars
  BY <1>1, <1>2, <1>a DEF vars, threadVars
<1>3. CASE ReceiveAny(u)
  BY <1>3, Received DEF Holding, Serving
<1>4. CASE Serve(u)
  BY <1>0, <1>4, BeforeSave
<1>5. ASSUME NEW t \in Threads, ReceiveAny(t) \/ Serve(t), u # t
      PROVE  pc'[u] = pc[u] /\ call'[u] = call[u] /\ record'[u] = record[u]
  BY <1>5, OthersStay
<1> QED BY <1>1, <1>2, <1>3, <1>4, <1>5, <1>a DEF Next, Idle

\* The history variables do not restrict the handlers.
LEMMA HistoryStep == [HNext]_hvars => [Next]_vars
BY DEF HNext, hvars

LEMMA HistoryImplements == HSpec => Spec
<1>1. HInit => Init
  BY DEF HInit
<1> QED BY <1>1, HistoryStep, PTL DEF HSpec, Spec

LEMMA HistoryTypeCorrect == HSpec => []TypeOK
BY HistoryImplements, TypeCorrect, PTL

LEMMA HistoryFormsSubmitted == HSpec => []FormsSubmitted
BY HistoryImplements, FormsAreSubmitted, PTL

-----------------------------------------------------------------------------
(* What is submitted. *)

\* A registration that found a record still finds one: none is ever removed.
ReadStored ==
  \A t \in Threads :
    Serving(t, "register") /\ pc[t] = "save" /\ record[t].cv # 0
      => call[t].node \in DOMAIN nodes

LEMMA ReadStoredStep ==
  ASSUME TypeOK, ReadStored, [Next]_vars PROVE ReadStored'
<1>0. StoreTypeOK /\ \A t \in Threads : record[t] \in Node
  BY DEF TypeOK
<1>1. DOMAIN nodes \subseteq DOMAIN nodes'
  <2>1. CASE UNCHANGED nodeVars
    BY <2>1 DEF nodeVars
  <2>2. CASE nodeVars' # nodeVars
    <3>1. PICK t \in Threads :
             /\ call[t].node \in Nodes
             /\ \/ PrepareSave(t)
                \/ /\ RegisterSave(t)
                   /\ UpsertNode(call[t].node, Merge(call[t].form, record[t]))
                \/ /\ PolicySave(t)
                   /\ UpdatePolicy(call[t].node, call[t].policy)
      BY <2>2, NodesStep
    <3>2. \A n, r : UpsertNode(n, r) => DOMAIN nodes \subseteq DOMAIN nodes'
      BY DEF UpsertNode, Put
    <3>3. CASE UpdatePolicy(call[t].node, call[t].policy)
      BY <1>0, <3>1, <3>3, PolicyEffect
    <3> QED BY <3>1, <3>2, <3>3 DEF PrepareSave
  <2> QED BY <2>1, <2>2
<1> SUFFICES ASSUME NEW t \in Threads, Serving(t, "register")', pc'[t] = "save",
                    record'[t].cv # 0
             PROVE  call'[t].node \in DOMAIN nodes
  BY <1>1 DEF ReadStored
<1>2. Holding(t)'
  BY DEF Holding
<1>3. CASE RegisterLookup(t)
  <2>1. call' = call /\ record'[t] = GetNode(call[t].node)
    BY <1>0, <1>3 DEF RegisterLookup, Goto, TypeOK
  <2> QED BY <2>1 DEF GetNode, ZeroNode
<1>4. CASE PrepareLookup(t) \/ PrepareAssign(t)
  BY <1>4 DEF PrepareLookup, PrepareAssign, Serving, Goto, TypeOK, NoCall
<1>5. CASE pc'[t] = pc[t] /\ call'[t] = call[t] /\ record'[t] = record[t]
  BY <1>5 DEF ReadStored, Serving
<1> QED BY <1>2, <1>3, <1>4, <1>5, HoldingStep

LEMMA SubmissionKept ==
  ASSUME TypeOK, ReadStored, NEW t \in Threads, RegisterSave(t)
  PROVE  LET n == call[t].node
             f == call[t].form
             read == record[t]
             r == nodes'[n]
             news == f.force \/ read.cv = 0 \/ ~Edited(read, read, f)
         IN \/ /\ Edited(r, read, f)
               /\ r.peps = IF news THEN Field(f.peps, read.peps, None)
                                   ELSE read.peps
            \/ ~news /\ read # GetNode(n) /\ r = GetNode(n)
<1> DEFINE f == call[t].form
           read == record[t]
           m == Merge(f, read)
           n == call[t].node
           news == f.force \/ read.cv = 0 \/ ~Edited(read, read, f)
<1>1. /\ f \in Form /\ n \in Nodes /\ read \in Node /\ StoreTypeOK
      /\ read.cv # 0 => n \in DOMAIN nodes
  BY CallFields DEF RegisterSave, Serving, TypeOK, ReadStored, Goto
<1>2. /\ Edited(m, read, f)
      /\ m.peps = Field(f.peps, read.peps, None)
  BY DEF Merge, ZeroNode, Or, Edited, Field
<1>3. m \in Node
  BY <1>1, MergeType
<1>4. NodeEqual(read, m) <=> Edited(read, read, f)
  BY <1>2 DEF NodeEqual, Edited
<1>5. \/ news /\ UpsertNode(n, m)
      \/ ~news /\ nodes' = nodes
  BY <1>4 DEF RegisterSave, storeVars
<1> HIDE DEF m, news
<1>6. CASE news /\ UpsertNode(n, m)
  <2>1. /\ nodes'[n].pub = m.pub /\ nodes'[n].overlay = m.overlay
        /\ nodes'[n].link = m.link /\ nodes'[n].cidrs = m.cidrs
        /\ nodes'[n].peps = m.peps
    BY <1>1, <1>3, <1>6, UpsertEffect
  <2>2. Edited(nodes'[n], read, f)
    BY <1>2, <2>1 DEF Edited
  <2> QED BY <1>2, <1>6, <2>1, <2>2 DEF news
<1>7. CASE ~news /\ nodes' = nodes
  <2>1. nodes'[n] = GetNode(n) /\ Edited(read, read, f)
    BY <1>1, <1>7 DEF GetNode, news
  <2> QED BY <1>7, <2>1 DEF news
<1> QED BY <1>5, <1>6, <1>7

\* What a registration brings is stored and what it leaves empty stays as it
\* was read, though an equal record is not saved again and others save the
\* record in between; only peer endpoints, which are not compared, may be
\* dropped (register handler, nodeEqual).
THEOREM SubmissionsStored == Spec => SubmissionStored
<1>1. Init => ReadStored
  BY DEF Init, ReadStored
<1>2. TypeOK /\ ReadStored /\ [Next]_vars => ReadStored'
  BY ReadStoredStep
<1>3. TypeOK /\ ReadStored
        => [\A t \in Threads : RegisterSave(t) =>
              LET n == call[t].node
                  f == call[t].form
                  read == record[t]
                  r == nodes'[n]
                  news == f.force \/ read.cv = 0 \/ ~Edited(read, read, f)
              IN \/ /\ Edited(r, read, f)
                    /\ r.peps = IF news THEN Field(f.peps, read.peps, None)
                                        ELSE read.peps
                 \/ ~news /\ read # GetNode(n) /\ r = GetNode(n)]_vars
  BY SubmissionKept
<1> QED BY <1>1, <1>2, <1>3, TypeCorrect, PTL DEF Spec, SubmissionStored

-----------------------------------------------------------------------------
(* Tokens. *)

\* A handler that was not overtaken knows the token of its node: a registration
\* carries it, and a prepare works for a node that still has none.
TokensKnown ==
  \A t \in Threads \ overtaken :
    /\ Serving(t, "register") /\ pc[t] = "save"
         => record[t].token = GetNode(call[t].node).token
    /\ Serving(t, "prepare") /\ pc[t] \in {"assign", "save"}
         => GetNode(call[t].node).token = 0

\* The only steps that change a node's token.
LEMMA TokenChanges ==
  ASSUME TypeOK, TokensKnown, [Next]_vars, NEW n \in Nodes,
         GetNode(n)'.token # GetNode(n).token
  PROVE  \E t \in Threads : /\ Provides(t) /\ call[t].node = n
                            /\ t \in overtaken \/ GetNode(n).token = 0
<1>0. StoreTypeOK /\ \A t \in Threads : record[t] \in Node
  BY DEF TypeOK
<1>1. nodeVars' # nodeVars
  BY DEF nodeVars, GetNode
<1>2. PICK t \in Threads :
         /\ call[t].node \in Nodes
         /\ \/ PrepareSave(t)
            \/ /\ RegisterSave(t)
               /\ UpsertNode(call[t].node, Merge(call[t].form, record[t]))
            \/ /\ PolicySave(t)
               /\ UpdatePolicy(call[t].node, call[t].policy)
  BY <1>1, NodesStep
<1>3. CASE PrepareSave(t)
  <2>1. UpsertNode(call[t].node, record[t]) /\ Serving(t, "prepare") /\ pc[t] = "save"
    BY <1>3 DEF PrepareSave, Goto
  <2>2. n = call[t].node
    <3>1. /\ DOMAIN nodes' = DOMAIN nodes \cup {call[t].node}
          /\ \A m \in DOMAIN nodes \ {call[t].node} : nodes'[m] = nodes[m]
      BY <1>0, <1>2, <2>1, UpsertEffect
    <3> QED BY <3>1 DEF GetNode
  <2> QED BY <1>3, <2>1, <2>2 DEF TokensKnown, Provides
<1>4. CASE /\ RegisterSave(t)
           /\ UpsertNode(call[t].node, Merge(call[t].form, record[t]))
  <2>1. Merge(call[t].form, record[t]) \in Node
    BY <1>0, <1>4, CallFields, MergeType DEF RegisterSave
  <2>2. Merge(call[t].form, record[t]).token = record[t].token
    BY DEF Merge, ZeroNode
  <2>3. n = call[t].node
    <3>1. /\ DOMAIN nodes' = DOMAIN nodes \cup {call[t].node}
          /\ \A m \in DOMAIN nodes \ {call[t].node} : nodes'[m] = nodes[m]
      BY <1>0, <1>2, <1>4, <2>1, UpsertEffect
    <3> QED BY <3>1 DEF GetNode
  <2>4. GetNode(n)'.token = record[t].token
    <3>1. n \in DOMAIN nodes' /\ nodes'[n].token = Merge(call[t].form, record[t]).token
      BY <1>0, <1>2, <1>4, <2>1, <2>3, UpsertEffect
    <3>2. GetNode(n)' = nodes'[n]
      BY <3>1 DEF GetNode
    <3> QED BY <2>2, <3>1, <3>2
  <2>5. t \in overtaken
    BY <1>4, <2>3, <2>4 DEF TokensKnown, RegisterSave, Goto
  <2> QED BY <1>4, <2>3, <2>5 DEF Provides
<1>5. CASE UpdatePolicy(call[t].node, call[t].policy)
  <2>1. GetNode(n)'.token = GetNode(n).token
    BY <1>0, <1>2, <1>5, PolicyEffect DEF GetNode
  <2> QED BY <2>1
<1> QED BY <1>2, <1>3, <1>4, <1>5

LEMMA TokensKnownStep ==
  ASSUME TypeOK, TokensKnown, [HNext]_hvars PROVE TokensKnown'
<1>0. [Next]_vars /\ \A t \in Threads : record[t] \in Node
  BY HistoryStep DEF TypeOK
<1>1. CASE UNCHANGED hvars
  BY <1>1 DEF hvars, vars, storeVars, threadVars, slipVars, TokensKnown,
              Serving, GetNode
<1>2. CASE HNext
  <2> SUFFICES ASSUME NEW u \in Threads, u \notin overtaken'
               PROVE  /\ Serving(u, "register")' /\ pc'[u] = "save"
                           => record'[u].token = GetNode(call[u].node)'.token
                      /\ Serving(u, "prepare")' /\ pc'[u] \in {"assign", "save"}
                           => GetNode(call[u].node)'.token = 0
    BY DEF TokensKnown
  <2>a. CASE ~Holding(u)'
    BY <2>a DEF Holding
  <2>b. CASE Holding(u)'
    <3>1. ~(/\ Holding(u)
            /\ \/ u \in overtaken
               \/ \E t \in Threads \ {u} : Provides(t) /\ call[t].node = call[u].node)
      BY <1>2, <2>b DEF HNext, TrackRecords
    <3>2. CASE PrepareLookup(u)
      <4>1. /\ Serving(u, "prepare") /\ UNCHANGED storeVars /\ call' = call
            /\ pc'[u] = IF Prepared(GetNode(call[u].node)) THEN "bump" ELSE "assign"
        BY <3>2 DEF PrepareLookup, Goto, TypeOK
      <4> QED BY <4>1 DEF Serving, Prepared, GetNode, storeVars
    <3>3. CASE PrepareAssign(u)
      <4>1. /\ Serving(u, "prepare") /\ UNCHANGED storeVars /\ call' = call
            /\ pc[u] = "assign" /\ u \notin overtaken
        BY <3>1, <3>3 DEF PrepareAssign, Goto, Holding
      <4> QED BY <4>1 DEF Serving, GetNode, storeVars, TokensKnown
    <3>4. CASE RegisterLookup(u)
      <4>1. /\ Serving(u, "register") /\ UNCHANGED storeVars
            /\ pc'[u] = "save" => call' = call
            /\ pc'[u] = "save" => record'[u] = GetNode(call[u].node)
            /\ pc'[u] \in {"save", "idle"}
            /\ pc'[u] = "idle" => call'[u] = NoCall
        BY <1>0, <3>4 DEF RegisterLookup, Goto, TypeOK
      <4> QED BY <4>1 DEF Serving, GetNode, storeVars, NoCall
    <3>5. CASE /\ Holding(u) /\ ~Saves(u)
               /\ pc'[u] = pc[u] /\ call'[u] = call[u] /\ record'[u] = record[u]
      <4>1. call[u].node \in Nodes
        BY <3>5, CallFields DEF Holding, Serving
      <4>2. GetNode(call[u].node)'.token = GetNode(call[u].node).token
        <5>1. \A n \in Nodes :
                (IF n \in DOMAIN nodes' THEN nodes'[n] ELSE ZeroNode).token
                  # GetNode(n).token
                => \E t \in Threads : Provides(t) /\ call[t].node = n
          BY <1>0, TokenChanges DEF GetNode
        <5>2. ~\E t \in Threads : Provides(t) /\ call[t].node = call[u].node
          BY <3>1, <3>5 DEF Provides, Saves
        <5> QED BY <3>5, <4>1, <5>1, <5>2 DEF GetNode
      <4> QED BY <3>1, <3>5, <4>2 DEF TokensKnown, Serving
    <3> QED BY <1>0, <2>b, <3>2, <3>3, <3>4, <3>5, HoldingStep
  <2> QED BY <2>a, <2>b
<1> QED BY <1>1, <1>2

LEMMA TokensAreKnown == HSpec => []TokensKnown
<1>1. HInit => TokensKnown
  BY DEF HInit, Init, TokensKnown
<1>2. TypeOK /\ TokensKnown /\ [HNext]_hvars => TokensKnown'
  BY TokensKnownStep
<1> QED BY <1>1, <1>2, HistoryTypeCorrect, PTL DEF HSpec

LEMMA TokenKeptStep ==
  ASSUME TypeOK, TokensKnown, [HNext]_hvars, NEW n \in DOMAIN nodes
  PROVE  \/ nodes[n].token = 0
         \/ nodes'[n].token = nodes[n].token
         \/ \E t \in overtaken : Saves(t) /\ call[t].node = n
<1> SUFFICES ASSUME nodes[n].token # 0, nodes'[n].token # nodes[n].token
             PROVE  \E t \in overtaken : Saves(t) /\ call[t].node = n
  OBVIOUS
<1>1. n \in Nodes /\ GetNode(n) = nodes[n]
  BY DEF TypeOK, StoreTypeOK, IsMap, GetNode
<1>2. CASE n \in DOMAIN nodes'
  <2>1. GetNode(n)' = nodes'[n]
    BY <1>1, <1>2 DEF GetNode
  <2> QED BY <1>1, <2>1, TokenChanges, HistoryStep DEF Provides, Saves
<1>3. CASE n \notin DOMAIN nodes'
  <2>1. GetNode(n)'.token = 0
    BY <1>1, <1>3 DEF GetNode, ZeroNode
  <2> QED BY <1>1, <2>1, TokenChanges, HistoryStep DEF Provides, Saves
<1> QED BY <1>2, <1>3

\* Of any number of handlers only those can replace or lose the token of a node
\* that were overtaken by another that gave the node keys: a prepare leaves a
\* prepared node alone, a registration carries over what it read.
THEOREM TokensKept == HSpec => TokenKept
<1>1. TypeOK /\ TokensKnown /\ [HNext]_hvars
        => [\A n \in DOMAIN nodes :
              \/ nodes[n].token = 0
              \/ nodes'[n].token = nodes[n].token
              \/ \E t \in overtaken : Saves(t) /\ call[t].node = n]_hvars
  BY TokenKeptStep
<1> QED BY <1>1, HistoryTypeCorrect, TokensAreKnown, PTL DEF HSpec, TokenKept

-----------------------------------------------------------------------------
(* Overlay addresses. *)

\* An address that is handed out while one is left is a free one, and one is
\* left as long as not every node has one (assignOverlay).
LEMMA AddressFree ==
  ASSUME IsFiniteSet(Nodes), Cardinality(Nodes) <= LastOverlay,
         NEW list, DOMAIN list \subseteq Nodes, NEW n \in Nodes,
         n \in DOMAIN list => list[n].overlay = 0
  PROVE  /\ AssignOverlay(list) # 0
         /\ \A m \in DOMAIN list : list[m].overlay # AssignOverlay(list)
<1> DEFINE all == 1..LastOverlay
           used == {list[m].overlay : m \in DOMAIN list}
           free == all \ used
<1>1. free # {}
  <2> SUFFICES ASSUME free = {} PROVE FALSE
    OBVIOUS
  <2> DEFINE others == DOMAIN list \ {n}
             byOthers == {list[m].overlay : m \in others}
  <2>1. all \subseteq byOthers
    BY ConstantsAssumption
  <2>2. /\ IsFiniteSet(Nodes \ {n})
        /\ Cardinality(Nodes \ {n}) = Cardinality(Nodes) - 1
    BY FS_RemoveElement
  <2>3. IsFiniteSet(others) /\ Cardinality(others) <= Cardinality(Nodes) - 1
    <3>1. others \subseteq Nodes \ {n}
      OBVIOUS
    <3> HIDE DEF others
    <3> QED BY <2>2, <3>1, FS_Subset
  <2>4. IsFiniteSet(byOthers) /\ Cardinality(byOthers) <= Cardinality(others)
    <3> DEFINE addressOf == [m \in others |-> list[m].overlay]
    <3>1. /\ byOthers = {addressOf[m] : m \in others}
          /\ addressOf \in Surjection(others, byOthers)
      BY DEF Surjection
    <3> HIDE DEF others, byOthers, addressOf
    <3> QED BY <2>3, <3>1, FS_Surjection
  <2>5. IsFiniteSet(all) /\ Cardinality(all) = LastOverlay
    <3>1. 1 \in Int /\ LastOverlay \in Int /\ LastOverlay >= 1
      BY ConstantsAssumption
    <3> QED BY <3>1, FS_Interval
  <2>6. Cardinality(all) <= Cardinality(byOthers)
    <3> HIDE DEF all, byOthers
    <3> QED BY <2>1, <2>4, FS_Subset
  <2>7. /\ Cardinality(byOthers) \in Nat /\ Cardinality(others) \in Nat
        /\ Cardinality(Nodes) \in Nat /\ LastOverlay \in Nat
    <3> HIDE DEF byOthers, others
    <3> QED BY <2>3, <2>4, FS_CardinalityType, ConstantsAssumption
  <2> HIDE DEF all, byOthers, others
  <2> QED BY <2>3, <2>4, <2>5, <2>6, <2>7
<1>2. free \in SUBSET Nat
  BY ConstantsAssumption
<1>3. AssignOverlay(list) = CHOOSE i \in free : \A j \in free : i <= j
  BY <1>1 DEF AssignOverlay
<1>4. AssignOverlay(list) \in free
  <2> HIDE DEF free
  <2>1. \E i \in free : \A j \in free : i <= j
    BY <1>1, <1>2, LeastNatural
  <2> QED BY <1>3, <2>1
<1> QED BY <1>4, ConstantsAssumption

\* A node without a token has no address, in the store as in a record read.
AddressWithToken ==
  /\ \A n \in DOMAIN nodes : nodes[n].token = 0 => nodes[n].overlay = 0
  /\ \A t \in Threads :
       Serving(t, "register") /\ pc[t] = "save" /\ record[t].token = 0
         => record[t].overlay = 0

\* A handler that was not overtaken knows its node's address, and the address
\* that a prepare has chosen is free unless others were given one since.
AddressesKnown ==
  /\ \A t \in Threads \ overtaken :
       Serving(t, "register") /\ pc[t] = "save"
         => record[t].overlay = GetNode(call[t].node).overlay
  /\ \A t \in Threads \ (overtaken \cup crowded) :
       Serving(t, "prepare") /\ pc[t] = "save"
         => /\ record[t].overlay # 0
            /\ \A m \in DOMAIN nodes : nodes[m].overlay # record[t].overlay
  /\ \A t \in Threads :
       Serving(t, "prepare") /\ pc[t] = "save" => record[t].token # 0

AddressInv == AddressWithToken /\ AddressesKnown

\* What a step that changes the store does to the addresses, when clients
\* submit none: it gives one node that of the record in hand, or none changes.
LEMMA AddressChanges ==
  ASSUME \A f \in Submissions : f.overlay = 0,
         TypeOK, FormsSubmitted, [Next]_vars, nodes' # nodes
  PROVE  \/ \E t \in Threads :
              /\ call[t].node \in Nodes /\ Saves(t) /\ pc[t] = "save"
              /\ PrepareSave(t) => Serving(t, "prepare")
              /\ RegisterSave(t) => Serving(t, "register")
              /\ DOMAIN nodes' = DOMAIN nodes \cup {call[t].node}
              /\ \A m \in DOMAIN nodes \ {call[t].node} : nodes'[m] = nodes[m]
              /\ nodes'[call[t].node].overlay = record[t].overlay
              /\ nodes'[call[t].node].token = record[t].token
         \/ /\ DOMAIN nodes' = DOMAIN nodes
            /\ \A m \in DOMAIN nodes : /\ nodes'[m].overlay = nodes[m].overlay
                                       /\ nodes'[m].token = nodes[m].token
<1>0. StoreTypeOK /\ \A t \in Threads : record[t] \in Node
  BY DEF TypeOK
<1>1. PICK t \in Threads :
         /\ call[t].node \in Nodes
         /\ \/ PrepareSave(t)
            \/ /\ RegisterSave(t)
               /\ UpsertNode(call[t].node, Merge(call[t].form, record[t]))
            \/ /\ PolicySave(t)
               /\ UpdatePolicy(call[t].node, call[t].policy)
  <2>1. nodeVars' # nodeVars
    BY DEF nodeVars
  <2> QED BY <2>1, NodesStep
<1>2. ASSUME Saves(t)
      PROVE  /\ pc[t] = "save"
             /\ PrepareSave(t) => Serving(t, "prepare")
             /\ RegisterSave(t) => Serving(t, "register")
  BY <1>2 DEF Saves, PrepareSave, RegisterSave, Goto
<1>3. CASE PrepareSave(t)
  <2>1. UpsertNode(call[t].node, record[t])
    BY <1>3 DEF PrepareSave
  <2>2. /\ DOMAIN nodes' = DOMAIN nodes \cup {call[t].node}
        /\ \A m \in DOMAIN nodes \ {call[t].node} : nodes'[m] = nodes[m]
        /\ nodes'[call[t].node].overlay = record[t].overlay
        /\ nodes'[call[t].node].token = record[t].token
    BY <1>0, <1>1, <2>1, UpsertEffect
  <2>3. Saves(t)
    BY <1>3 DEF Saves
  <2> QED BY <1>1, <1>2, <2>2, <2>3
<1>4. CASE /\ RegisterSave(t)
           /\ UpsertNode(call[t].node, Merge(call[t].form, record[t]))
  <2>1. Merge(call[t].form, record[t]) \in Node
    BY <1>0, <1>4, CallFields, MergeType DEF RegisterSave
  <2>2. call[t].form.overlay = 0
    BY <1>4 DEF RegisterSave, FormsSubmitted
  <2>3. /\ Merge(call[t].form, record[t]).token = record[t].token
        /\ Merge(call[t].form, record[t]).overlay = record[t].overlay
    BY <2>2 DEF Merge, ZeroNode, Or
  <2>4. /\ DOMAIN nodes' = DOMAIN nodes \cup {call[t].node}
        /\ \A m \in DOMAIN nodes \ {call[t].node} : nodes'[m] = nodes[m]
        /\ nodes'[call[t].node].overlay = record[t].overlay
        /\ nodes'[call[t].node].token = record[t].token
    BY <1>0, <1>1, <1>4, <2>1, <2>3, UpsertEffect
  <2>5. Saves(t)
    BY <1>4 DEF Saves
  <2> QED BY <1>1, <1>2, <2>4, <2>5
<1>5. CASE UpdatePolicy(call[t].node, call[t].policy)
  BY <1>0, <1>1, <1>5, PolicyEffect
<1> QED BY <1>1, <1>3, <1>4, <1>5

LEMMA AddressWithTokenStep ==
  ASSUME \A f \in Submissions : f.overlay = 0,
         TypeOK, FormsSubmitted, AddressInv, [HNext]_hvars
  PROVE  AddressWithToken'
<1> USE DEF AddressInv, AddressWithToken
<1>0. [Next]_vars
  BY HistoryStep
<1>1. \A n \in DOMAIN nodes' : nodes'[n].token = 0 => nodes'[n].overlay = 0
  <2>1. CASE nodes' = nodes
    BY <2>1
  <2>2. CASE nodes' # nodes
    <3>1. CASE \E t \in Threads :
              /\ call[t].node \in Nodes /\ Saves(t) /\ pc[t] = "save"
              /\ PrepareSave(t) => Serving(t, "prepare")
              /\ RegisterSave(t) => Serving(t, "register")
              /\ DOMAIN nodes' = DOMAIN nodes \cup {call[t].node}
              /\ \A m \in DOMAIN nodes \ {call[t].node} : nodes'[m] = nodes[m]
              /\ nodes'[call[t].node].overlay = record[t].overlay
              /\ nodes'[call[t].node].token = record[t].token
      BY <3>1 DEF AddressesKnown, Saves
    <3>2. CASE /\ DOMAIN nodes' = DOMAIN nodes
               /\ \A m \in DOMAIN nodes : /\ nodes'[m].overlay = nodes[m].overlay
                                          /\ nodes'[m].token = nodes[m].token
      BY <3>2
    <3> HIDE DEF AddressInv, AddressWithToken
    <3> QED BY <1>0, <2>2, <3>1, <3>2, AddressChanges
  <2> QED BY <2>1, <2>2
<1>2. ASSUME NEW u \in Threads, Serving(u, "register")', pc'[u] = "save",
             record'[u].token = 0
      PROVE  record'[u].overlay = 0
  <2>1. Holding(u)'
    BY <1>2 DEF Holding
  <2>2. CASE PrepareLookup(u) \/ PrepareAssign(u)
    BY <1>2, <2>2 DEF PrepareLookup, PrepareAssign, Serving, Goto, TypeOK, NoCall
  <2>3. CASE RegisterLookup(u)
    <3>1. record'[u] = GetNode(call[u].node)
      BY <1>2, <2>3 DEF RegisterLookup, Goto, TypeOK
    <3> QED BY <1>2, <3>1 DEF GetNode, ZeroNode
  <2>4. CASE pc'[u] = pc[u] /\ call'[u] = call[u] /\ record'[u] = record[u]
    BY <1>2, <2>4 DEF Serving
  <2> QED BY <1>0, <2>1, <2>2, <2>3, <2>4, HoldingStep
<1> QED BY <1>1, <1>2

\* As long as nobody provides a node with keys, no address changes, and a node
\* that is new has none.
LEMMA AddressesStay ==
  ASSUME \A f \in Submissions : f.overlay = 0,
         TypeOK, FormsSubmitted, AddressInv, [Next]_vars, NEW n \in Nodes,
         GetNode(n)'.overlay # GetNode(n).overlay
  PROVE  \E t \in Threads : Provides(t) /\ call[t].node = n
<1>1. nodes' # nodes
  BY DEF GetNode
<1>2. CASE \E t \in Threads :
              /\ call[t].node \in Nodes /\ Saves(t) /\ pc[t] = "save"
              /\ PrepareSave(t) => Serving(t, "prepare")
              /\ RegisterSave(t) => Serving(t, "register")
              /\ DOMAIN nodes' = DOMAIN nodes \cup {call[t].node}
              /\ \A m \in DOMAIN nodes \ {call[t].node} : nodes'[m] = nodes[m]
              /\ nodes'[call[t].node].overlay = record[t].overlay
              /\ nodes'[call[t].node].token = record[t].token
  <2>1. PICK t \in Threads :
              /\ call[t].node \in Nodes /\ Saves(t) /\ pc[t] = "save"
              /\ PrepareSave(t) => Serving(t, "prepare")
              /\ RegisterSave(t) => Serving(t, "register")
              /\ DOMAIN nodes' = DOMAIN nodes \cup {call[t].node}
              /\ \A m \in DOMAIN nodes \ {call[t].node} : nodes'[m] = nodes[m]
              /\ nodes'[call[t].node].overlay = record[t].overlay
    BY <1>2
  <2>2. n = call[t].node /\ GetNode(n)'.overlay = record[t].overlay
    BY <2>1 DEF GetNode
  <2>3. RegisterSave(t) => t \in overtaken
    BY <2>1, <2>2 DEF AddressInv, AddressesKnown
  <2> QED BY <2>1, <2>2, <2>3 DEF Saves, Provides
<1>3. CASE /\ DOMAIN nodes' = DOMAIN nodes
           /\ \A m \in DOMAIN nodes : /\ nodes'[m].overlay = nodes[m].overlay
                                      /\ nodes'[m].token = nodes[m].token
  BY <1>3 DEF GetNode
<1> QED BY <1>1, <1>2, <1>3, AddressChanges

LEMMA AddressesKnownStep ==
  ASSUME IsFiniteSet(Nodes), Cardinality(Nodes) <= LastOverlay,
         \A f \in Submissions : f.overlay = 0,
         TypeOK, FormsSubmitted, TokensKnown, AddressInv, [HNext]_hvars
  PROVE  AddressesKnown'
<1>0. /\ [Next]_vars /\ \A t \in Threads : record[t] \in Node
      /\ minted \in Nat /\ DOMAIN nodes \subseteq Nodes
  BY HistoryStep DEF TypeOK, StoreTypeOK, IsMap
<1>1. CASE UNCHANGED hvars
  BY <1>1 DEF hvars, vars, storeVars, threadVars, slipVars, AddressInv,
              AddressesKnown, Serving, GetNode
<1>2. CASE HNext
  <2> SUFFICES ASSUME NEW u \in Threads
               PROVE  /\ (Serving(u, "register")' /\ pc'[u] = "save"
                             /\ u \notin overtaken')
                           => record'[u].overlay = GetNode(call[u].node)'.overlay
                      /\ (Serving(u, "prepare")' /\ pc'[u] = "save"
                             /\ u \notin overtaken' \cup crowded')
                           => /\ record'[u].overlay # 0
                              /\ \A m \in DOMAIN nodes' :
                                   nodes'[m].overlay # record'[u].overlay
                      /\ (Serving(u, "prepare")' /\ pc'[u] = "save")
                           => record'[u].token # 0
    BY DEF AddressesKnown
  <2>a. CASE ~Holding(u)'
    BY <2>a DEF Holding
  <2>b. CASE Holding(u)'
    <3>1. \/ u \in overtaken'
          \/ ~(/\ Holding(u)
               /\ \/ u \in overtaken
                  \/ \E t \in Threads \ {u} :
                       Provides(t) /\ call[t].node = call[u].node)
      BY <1>2, <2>b DEF HNext, TrackRecords
    <3>2. \/ u \in crowded'
          \/ ~Chosen(u)'
          \/ ~(/\ Chosen(u)
               /\ u \in crowded \/ \E t \in Threads \ {u} : Provides(t))
      BY <1>2 DEF HNext, TrackRecords
    <3>3. CASE PrepareLookup(u)
      <4>1. /\ Serving(u, "prepare") /\ pc'[u] # "save" /\ call'[u] = call[u]
        BY <3>3 DEF PrepareLookup, Goto, TypeOK
      <4> QED BY <4>1 DEF Serving
    <3>4. CASE PrepareAssign(u)
      <4>1. /\ Serving(u, "prepare") /\ UNCHANGED storeVars /\ call' = call
            /\ pc[u] = "assign" /\ minted' = minted + 1
            /\ record'[u] = [ZeroNode EXCEPT !.pub = minted', !.priv = minted',
                               !.token = minted', !.overlay = AssignOverlay(nodes)]
        BY <1>0, <3>4 DEF PrepareAssign, Goto, TypeOK
      <4>2. /\ record'[u].token = minted + 1
            /\ record'[u].overlay = AssignOverlay(nodes)
        BY <4>1 DEF ZeroNode
      <4>3. call[u].node \in Nodes
        BY <4>1, CallFields DEF Serving
      <4>4. CASE u \in overtaken'
        BY <1>0, <4>1, <4>2, <4>4 DEF Serving
      <4>5. CASE u \notin overtaken'
        <5>1. GetNode(call[u].node).token = 0
          BY <3>1, <4>1, <4>5 DEF Holding, TokensKnown
        <5>2. call[u].node \in DOMAIN nodes => nodes[call[u].node].overlay = 0
          BY <5>1 DEF GetNode, AddressInv, AddressWithToken
        <5>3. /\ AssignOverlay(nodes) # 0
              /\ \A m \in DOMAIN nodes : nodes[m].overlay # AssignOverlay(nodes)
          BY <1>0, <4>3, <5>2, AddressFree
        <5>4. nodes' = nodes /\ minted + 1 # 0 /\ ~Serving(u, "register")'
          BY <1>0, <4>1 DEF storeVars, Serving
        <5> QED BY <4>2, <5>3, <5>4
      <4> QED BY <4>4, <4>5
    <3>5. CASE RegisterLookup(u)
      <4>1. /\ Serving(u, "register") /\ UNCHANGED storeVars
            /\ pc'[u] = "save" => call' = call
            /\ pc'[u] = "save" => record'[u] = GetNode(call[u].node)
        BY <1>0, <3>5 DEF RegisterLookup, Goto, TypeOK
      <4> QED BY <4>1 DEF Serving, GetNode, storeVars
    <3>6. CASE /\ Holding(u) /\ ~Saves(u)
               /\ pc'[u] = pc[u] /\ call'[u] = call[u] /\ record'[u] = record[u]
      <4>1. call[u].node \in Nodes
        BY <3>6, CallFields DEF Holding, Serving
      <4>2. \A n \in Nodes :
              \/ (IF n \in DOMAIN nodes' THEN nodes'[n] ELSE ZeroNode).overlay
                   = (IF n \in DOMAIN nodes THEN nodes[n] ELSE ZeroNode).overlay
              \/ \E t \in Threads \ {u} : Provides(t) /\ call[t].node = n
        <5>1. \A n \in Nodes : GetNode(n)'.overlay = GetNode(n).overlay
                \/ \E t \in Threads : Provides(t) /\ call[t].node = n
          BY <1>0, AddressesStay
        <5>2. ~Provides(u)
          BY <3>6 DEF Provides, Saves
        <5> QED BY <5>1, <5>2 DEF GetNode
      <4>3. ASSUME Serving(u, "register"), pc[u] = "save", u \notin overtaken'
            PROVE  record[u].overlay = GetNode(call[u].node)'.overlay
        <5>1. /\ record[u].overlay = GetNode(call[u].node).overlay
              /\ ~\E t \in Threads \ {u} : Provides(t) /\ call[t].node = call[u].node
          BY <3>1, <3>6, <4>3 DEF AddressInv, AddressesKnown
        <5> QED BY <3>6, <4>1, <4>2, <5>1 DEF GetNode
      <4>4. ASSUME Serving(u, "prepare"), pc[u] = "save",
                   u \notin overtaken' \cup crowded'
            PROVE  /\ record[u].overlay # 0
                   /\ \A m \in DOMAIN nodes' : nodes'[m].overlay # record[u].overlay
        <5>1. Chosen(u) /\ Chosen(u)'
          BY <3>6, <4>4 DEF Chosen, Serving
        <5>2. /\ u \notin overtaken \cup crowded
              /\ ~\E t \in Threads \ {u} : Provides(t)
          BY <3>1, <3>2, <3>6, <4>4, <5>1
        <5>3. /\ record[u].overlay # 0
              /\ \A m \in DOMAIN nodes : nodes[m].overlay # record[u].overlay
          BY <4>4, <5>2 DEF AddressInv, AddressesKnown
        <5>4. ASSUME NEW m \in DOMAIN nodes' PROVE nodes'[m].overlay # record[u].overlay
          <6>1. m \in Nodes
            <7>1. TypeOK'
              BY <1>0, NextType
            <7> QED BY <7>1 DEF TypeOK, StoreTypeOK, IsMap
          <6>2. nodes'[m].overlay
                  = (IF m \in DOMAIN nodes THEN nodes[m] ELSE ZeroNode).overlay
            BY <4>2, <5>2, <6>1
          <6> QED BY <5>3, <6>2 DEF ZeroNode
        <5> QED BY <5>3, <5>4
      <4>5. Serving(u, "prepare") /\ pc[u] = "save" => record[u].token # 0
        BY DEF AddressInv, AddressesKnown
      <4> QED BY <3>6, <4>3, <4>4, <4>5 DEF Serving
    <3> QED BY <1>0, <2>b, <3>3, <3>4, <3>5, <3>6, HoldingStep
  <2> QED BY <2>a, <2>b
<1> QED BY <1>1, <1>2

LEMMA OverlayUniqueStep ==
  ASSUME \A f \in Submissions : f.overlay = 0,
         TypeOK, FormsSubmitted, AddressInv, [HNext]_hvars,
         NEW m \in DOMAIN nodes', NEW n \in DOMAIN nodes'
  PROVE  \/ ~ShareAddress(m, n)'
         \/ {m, n} \subseteq DOMAIN nodes /\ ShareAddress(m, n)
         \/ \E t \in overtaken \cup crowded : Saves(t)
<1> SUFFICES ASSUME ShareAddress(m, n)',
                    \A t \in overtaken \cup crowded : ~Saves(t)
             PROVE  {m, n} \subseteq DOMAIN nodes /\ ShareAddress(m, n)
  OBVIOUS
<1> USE DEF ShareAddress
<1>1. CASE nodes' = nodes
  BY <1>1
<1>2. CASE /\ DOMAIN nodes' = DOMAIN nodes
           /\ \A k \in DOMAIN nodes : /\ nodes'[k].overlay = nodes[k].overlay
                                      /\ nodes'[k].token = nodes[k].token
  BY <1>2
<1>3. CASE \E t \in Threads :
              /\ call[t].node \in Nodes /\ Saves(t) /\ pc[t] = "save"
              /\ PrepareSave(t) => Serving(t, "prepare")
              /\ RegisterSave(t) => Serving(t, "register")
              /\ DOMAIN nodes' = DOMAIN nodes \cup {call[t].node}
              /\ \A k \in DOMAIN nodes \ {call[t].node} : nodes'[k] = nodes[k]
              /\ nodes'[call[t].node].overlay = record[t].overlay
              /\ nodes'[call[t].node].token = record[t].token
  <2>1. PICK t \in Threads :
              /\ Saves(t) /\ pc[t] = "save"
              /\ PrepareSave(t) => Serving(t, "prepare")
              /\ RegisterSave(t) => Serving(t, "register")
              /\ DOMAIN nodes' = DOMAIN nodes \cup {call[t].node}
              /\ \A k \in DOMAIN nodes \ {call[t].node} : nodes'[k] = nodes[k]
              /\ nodes'[call[t].node].overlay = record[t].overlay
    BY <1>3
  <2>2. t \notin overtaken \cup crowded
    BY <2>1
  <2>3. CASE PrepareSave(t)
    <3>1. \A k \in DOMAIN nodes : nodes[k].overlay # record[t].overlay
      BY <2>1, <2>2, <2>3 DEF AddressInv, AddressesKnown
    <3> QED BY <2>1, <3>1
  <2>4. CASE RegisterSave(t)
    <3>1. record[t].overlay = GetNode(call[t].node).overlay
      BY <2>1, <2>2, <2>4 DEF AddressInv, AddressesKnown
    <3>2. CASE call[t].node \in DOMAIN nodes
      BY <2>1, <3>1, <3>2 DEF GetNode
    <3>3. CASE call[t].node \notin DOMAIN nodes
      BY <2>1, <3>1, <3>3 DEF GetNode, ZeroNode
    <3> QED BY <3>2, <3>3
  <2> QED BY <2>1, <2>3, <2>4 DEF Saves
<1> QED BY <1>1, <1>2, <1>3, AddressChanges, HistoryStep

\* As long as there are as many addresses as nodes and clients submit none, two
\* nodes come to share one only by the save of a handler that was overtaken, or
\* of a prepare that chose before another's address was saved.
THEOREM AddressesUnique ==
  /\ IsFiniteSet(Nodes) /\ Cardinality(Nodes) <= LastOverlay
  /\ \A f \in Submissions : f.overlay = 0
  => (HSpec => OverlayUnique)
<1> SUFFICES ASSUME IsFiniteSet(Nodes), Cardinality(Nodes) <= LastOverlay,
                    \A f \in Submissions : f.overlay = 0
             PROVE  HSpec => OverlayUnique
  OBVIOUS
<1>1. HInit => AddressInv
  BY DEF HInit, Init, StoreInit, AddressInv, AddressWithToken, AddressesKnown
<1>2. TypeOK /\ FormsSubmitted /\ TokensKnown /\ AddressInv /\ [HNext]_hvars
        => AddressInv'
  BY AddressWithTokenStep, AddressesKnownStep DEF AddressInv
<1>3. TypeOK /\ FormsSubmitted /\ AddressInv /\ [HNext]_hvars
        => [\A m, n \in DOMAIN nodes' :
              \/ ~ShareAddress(m, n)'
              \/ {m, n} \subseteq DOMAIN nodes /\ ShareAddress(m, n)
              \/ \E t \in overtaken \cup crowded : Saves(t)]_hvars
  BY OverlayUniqueStep
<1> QED BY <1>1, <1>2, <1>3, HistoryTypeCorrect, HistoryFormsSubmitted,
           TokensAreKnown, PTL DEF HSpec, OverlayUnique

-----------------------------------------------------------------------------
(* The plan that was pushed last. *)

\* The steps that change a current plan.
LEMMA PlansChange ==
  ASSUME TypeOK, NEW t \in Threads, Serve(t), plans' # plans
  PROVE  \/ /\ StorePlan(t) /\ work[t].key \in PlanKeys
            /\ pc[t] = "store" /\ pc'[t] = "global" /\ work' = work
            /\ UNCHANGED <<nodes, health, drafts, pushed, call>>
            /\ plans' = [plans EXCEPT ![work[t].key] = work[t].plan]
         \/ /\ RollbackSave(t) /\ pc'[t] = "reset"
            /\ \A k \in PlanKeys : k = call[t].node \/ plans'[k] = plans[k]
<1> USE DEF storeVars, planVars
<1>0. work[t].key \in PlanKeys /\ DOMAIN plans = PlanKeys /\ pc \in [Threads -> PCs]
  BY DEF TypeOK, Work, StoreTypeOK
<1>1. ~PrepareLookup(t) /\ ~PrepareAssign(t) /\ ~PrepareSave(t)
  BY DEF PrepareLookup, PrepareAssign, PrepareSave, UpsertNode
<1>2. ~RegisterLookup(t) /\ ~RegisterSave(t) /\ ~PolicySave(t)
  BY DEF RegisterLookup, RegisterSave, UpsertNode, PolicySave, UpdatePolicy
<1>3. ~HealthSave(t) /\ ~HealthListNodes(t) /\ ~GetPlanWait(t)
  BY DEF HealthSave, SaveHealth, HealthListNodes, GetPlanWait
<1>4. ~ListNodes(t) /\ ~ListHealth(t) /\ ~ClaimVersion(t)
  BY DEF ListNodes, ListHealth, ClaimVersion
<1>5. ~RecordVersion(t) /\ ~PushPlan(t) /\ ~Bump(t)
  BY DEF RecordVersion, SetGlobalPlanVersion, PushPlan, Bump
<1>6. ~RollbackReset(t) /\ ~RollbackRecord(t)
  BY DEF RollbackReset, RollbackRecord, SetGlobalPlanVersion
<1>7. CASE StorePlan(t)
  BY <1>0, <1>7 DEF StorePlan, SavePlan, Goto, nodeVars
<1>8. CASE RollbackSave(t)
  <2>1. Goto(t, "save", "reset") /\ RollbackPlan(call[t].node, call[t].version)
    BY <1>8 DEF RollbackSave
  <2> QED BY <1>0, <1>8, <2>1 DEF RollbackPlan, Goto
<1> QED BY <1>1, <1>2, <1>3, <1>4, <1>5, <1>6, <1>7, <1>8 DEF Serve

\* The only step that pushes a plan.
LEMMA PushedChange ==
  ASSUME TypeOK, NEW t \in Threads, Serve(t), pushed' # pushed
  PROVE  /\ PushPlan(t) /\ pc[t] = "push"
         /\ pushed' = [n \in Nodes |-> IF n = work[t].key THEN work[t].plan
                                                           ELSE pushed[n]]
<1>1. PushPlan(t)
  BY DEF Serve, PrepareLookup, PrepareAssign, PrepareSave, RegisterLookup,
         RegisterSave, HealthSave, HealthListNodes, GetPlanWait, ListNodes,
         ListHealth, ClaimVersion, StorePlan, RecordVersion, Bump,
         PolicySave, RollbackSave, RollbackReset, RollbackRecord
<1> QED BY <1>1 DEF PushPlan, Goto

\* A handler that is publishing a plan has just saved it, or is as before.
LEMMA PublishingStep ==
  ASSUME TypeOK, NEW t \in Threads, Serve(t), pc'[t] \in {"global", "push"}
  PROVE  \/ StorePlan(t)
         \/ pc[t] = "global" /\ work' = work
<1>1. ASSUME NEW from, NEW to, Goto(t, from, to) PROVE pc'[t] = to
  BY <1>1 DEF Goto, TypeOK
<1>2. ~PrepareLookup(t) /\ ~PrepareAssign(t) /\ ~PrepareSave(t)
  BY <1>1 DEF PrepareLookup, PrepareAssign, PrepareSave
<1>3. ~RegisterLookup(t) /\ ~RegisterSave(t) /\ ~PolicySave(t)
  BY <1>1 DEF RegisterLookup, RegisterSave, PolicySave
<1>4. ~HealthSave(t) /\ ~HealthListNodes(t) /\ ~GetPlanWait(t)
  BY <1>1 DEF HealthSave, HealthListNodes, GetPlanWait
<1>5. ~ListNodes(t) /\ ~ListHealth(t) /\ ~ClaimVersion(t)
  BY <1>1 DEF ListNodes, ListHealth, ClaimVersion
<1>6. ~PushPlan(t) /\ ~Bump(t)
  BY <1>1 DEF PushPlan, AfterPush, Bump
<1>7. ~RollbackSave(t) /\ ~RollbackReset(t) /\ ~RollbackRecord(t)
  BY <1>1 DEF RollbackSave, RollbackReset, RollbackRecord
<1>8. CASE RecordVersion(t)
  BY <1>8 DEF RecordVersion, Goto
<1> QED BY <1>2, <1>3, <1>4, <1>5, <1>6, <1>7, <1>8 DEF Serve

\* Whoever is publishing a plan of a node is publishing its current plan, and
\* when nobody is, the current plan is the one pushed last.
PushesFollow ==
  \A n \in Nodes \ unsent :
    /\ \A t \in Threads : Publishing(t, n) => work[t].plan = plans[n]
    /\ pushed[n] = plans[n] \/ \E t \in Threads : Publishing(t, n)

\* One handler's step, about one node's plan that is sent.
LEMMA ServePushes ==
  ASSUME TypeOK, PushesFollow, HNext, NEW t \in Threads, Serve(t),
         NEW n \in Nodes \ unsent'
  PROVE  /\ \A u \in Threads : Publishing(u, n)' => work'[u].plan = plans'[n]
         /\ pushed'[n] = plans'[n] \/ \E u \in Threads : Publishing(u, n)'
<1> USE DEF Publishing
<1>0. /\ n \in PlanKeys /\ plans \in [PlanKeys -> Plan]
      /\ pc \in [Threads -> PCs] /\ DOMAIN pushed = Nodes
  BY DEF TypeOK, StoreTypeOK, PlanKeys
<1>1. /\ n \notin unsent \/ \E u \in Threads : StoresPlan(u, n)
      /\ ~\E u, v \in Threads : StoresPlan(u, n) /\ Publishing(v, n)
      /\ ~\E u \in Threads : RollsBack(u, n)
  BY DEF HNext, TrackPlans
<1>2. \A u \in Threads \ {t} : pc'[u] = pc[u] /\ work'[u] = work[u]
  BY OthersStay
<1>3. ASSUME NEW u \in Threads, StoresPlan(u, n) PROVE u = t
  <2>1. pc'[u] # pc[u]
    BY <1>0, <1>3 DEF StoresPlan, StorePlan, Goto
  <2> QED BY <1>2, <2>1
<1>4. CASE StoresPlan(t, n)
  <2>1. /\ pc[t] = "store" /\ pc'[t] = "global" /\ work[t].key = n /\ work' = work
        /\ plans'[n] = work[t].plan
    BY <1>0, <1>4 DEF StoresPlan, StorePlan, SavePlan, Goto
  <2>2. \A u \in Threads : ~Publishing(u, n)
    BY <1>1, <1>4
  <2> QED BY <1>2, <2>1, <2>2
<1>5. CASE ~StoresPlan(t, n)
  <2>0. n \notin unsent
    BY <1>1, <1>3, <1>5
  <2>1. plans'[n] = plans[n]
    <3>1. CASE plans' = plans
      BY <3>1
    <3>2. CASE plans' # plans
      BY <1>0, <1>1, <1>5, <3>2, PlansChange DEF StoresPlan, RollsBack
    <3> QED BY <3>1, <3>2
  <2>2. /\ \A u \in Threads : Publishing(u, n) => work[u].plan = plans[n]
        /\ pushed[n] = plans[n] \/ \E u \in Threads : Publishing(u, n)
    BY <2>0 DEF PushesFollow
  <2>3. ASSUME NEW u \in Threads, Publishing(u, n)' PROVE work'[u].plan = plans'[n]
    <3>1. CASE u # t
      BY <1>2, <2>1, <2>2, <2>3, <3>1
    <3>2. CASE u = t
      <4>1. CASE StorePlan(t)
        BY <1>5, <2>3, <3>2, <4>1 DEF StoresPlan, StorePlan
      <4>2. CASE pc[t] = "global" /\ work' = work
        BY <2>1, <2>2, <2>3, <3>2, <4>2
      <4> QED BY <2>3, <3>2, <4>1, <4>2, PublishingStep
    <3> QED BY <3>1, <3>2
  <2>4. pushed'[n] = plans'[n] \/ \E u \in Threads : Publishing(u, n)'
    <3>1. CASE PushPlan(t)
      <4>1. /\ pc[t] = "push"
            /\ pushed' = [m \in Nodes |-> IF m = work[t].key THEN work[t].plan
                                                              ELSE pushed[m]]
        BY <3>1 DEF PushPlan, Goto
      <4>2. CASE work[t].key = n
        BY <2>1, <2>2, <4>1, <4>2
      <4>3. CASE work[t].key # n
        BY <1>2, <2>1, <2>2, <4>1, <4>3
      <4> QED BY <4>2, <4>3
    <3>2. CASE ~PushPlan(t)
      <4>1. pushed' = pushed
        BY <3>2, PushedChange
      <4>2. ASSUME Publishing(t, n) PROVE Publishing(t, n)'
        <5>1. RecordVersion(t)
          BY <3>2, <4>2 DEF Serve, PrepareLookup, PrepareAssign, PrepareSave,
             RegisterLookup, RegisterSave, HealthSave, HealthListNodes,
             GetPlanWait, ListNodes, ListHealth, ClaimVersion, StorePlan, Bump,
             PolicySave, RollbackSave, RollbackReset, RollbackRecord, Goto
        <5> QED BY <1>0, <4>2, <5>1 DEF RecordVersion, Goto
      <4> QED BY <1>2, <2>1, <2>2, <4>1, <4>2
    <3> QED BY <3>1, <3>2
  <2> QED BY <2>3, <2>4
<1> QED BY <1>4, <1>5

LEMMA PushesFollowStep ==
  ASSUME TypeOK, PushesFollow, [HNext]_hvars PROVE PushesFollow'
<1>1. CASE UNCHANGED hvars
  BY <1>1 DEF hvars, vars, storeVars, threadVars, slipVars, PushesFollow, Publishing
<1>2. CASE HNext
  <2>1. ASSUME NEW t \in Threads, Serve(t) PROVE PushesFollow'
    BY <1>2, <2>1, ServePushes DEF PushesFollow
  <2>2. CASE \A t \in Threads : ~Serve(t)
    <3>1. /\ UNCHANGED <<plans, pushed, work>>
          /\ \A t \in Threads : ~StorePlan(t) /\ ~RollbackSave(t)
          /\ \A t \in Threads : pc[t] \in {"global", "push"}
                                <=> pc'[t] \in {"global", "push"}
      <4>1. CASE UNCHANGED vars
        BY <2>2, <4>1 DEF vars, storeVars, threadVars, Serve
      <4>2. ASSUME NEW t \in Threads, ReceiveAny(t)
            PROVE  /\ UNCHANGED <<plans, pushed, work>>
                   /\ \A u \in Threads : pc[u] \in {"global", "push"}
                                         <=> pc'[u] \in {"global", "push"}
        BY <4>2, Received, OthersStay DEF storeVars
      <4> QED BY <1>2, <2>2, <4>1, <4>2 DEF HNext, Next, Idle, Serve
    <3>2. \A n \in Nodes \ unsent' : n \notin unsent
      BY <1>2, <3>1 DEF HNext, TrackPlans, StoresPlan, RollsBack
    <3> QED BY <3>1, <3>2 DEF PushesFollow, Publishing
  <2> QED BY <2>1, <2>2
<1> QED BY <1>1, <1>2

\* The plan a node was sent last is its current one, or that is about to be
\* sent, unless since the last plan that was published alone two handlers have
\* published plans of the node at once or one rolled it back: saving a plan and
\* pushing it are two steps (savePlanWithRules).
THEOREM PushesAreCurrent == HSpec => []PushedIsCurrent
<1>1. HInit => PushesFollow
  <2> SUFFICES ASSUME HInit PROVE PushesFollow
    OBVIOUS
  <2>1. /\ \A t \in Threads : pc[t] = "idle"
        /\ \A n \in Nodes : pushed[n] = NoPlan /\ plans[n] = NoPlan
    BY DEF HInit, Init, StoreInit, PlanKeys
  <2> QED BY <2>1 DEF PushesFollow, Publishing
<1>2. TypeOK /\ PushesFollow /\ [HNext]_hvars => PushesFollow'
  BY PushesFollowStep
<1>3. PushesFollow => PushedIsCurrent
  BY DEF PushesFollow, PushedIsCurrent
<1> QED BY <1>1, <1>2, <1>3, HistoryTypeCorrect, PTL DEF HSpec

-----------------------------------------------------------------------------
(* Plans of what is stored. *)

\* What a handler has in hand to publish is the plan of now, as long as nothing
\* it was made of has changed; a registration leaves no other plan behind it,
\* except of nodes whose plan another has replaced by an older one.
PlansFollow ==
  \A t \in Threads \ behind :
    /\ HasNodes(t) /\ pc[t] = "listHealth" => listed[t] = nodes
    /\ HasNodes(t) /\ pc[t] = "store" /\ work[t].key \in DOMAIN nodes
         => work[t].plan.body = PlanBody(work[t].key, nodes, health)
    /\ HasReports(t) =>
         \A k \in DOMAIN drafts[t] \cap DOMAIN nodes :
           drafts[t][k] = PlanBody(k, nodes, health)
    /\ HasReports(t) /\ Serving(t, "register") =>
         \A n \in DOMAIN nodes \ displaced :
           \/ n \in DOMAIN drafts[t]
           \/ pc[t] = "store" /\ work[t].key = n
           \/ PlanFresh(n)
    /\ HasReports(t) /\ pc[t] = "bump" => drafts[t] = NoDrafts

\* A plan is published for a registration, a plan request or a health report.
Publishers ==
  \A t \in Threads :
    pc[t] \in {"claim", "store", "global", "push"}
      => Planning(t) \/ Serving(t, "health")

\* The steps after which a handler is about to claim a version or to save.
LEMMA BeforeStore ==
  ASSUME TypeOK, NEW t \in Threads, Serve(t), pc'[t] \in {"claim", "store"}
  PROVE  HealthListNodes(t) \/ ListHealth(t) \/ ClaimVersion(t) \/ PushPlan(t)
<1>1. ASSUME NEW from, NEW to, Goto(t, from, to) PROVE pc'[t] = to
  BY <1>1 DEF Goto, TypeOK
<1>2. ~PrepareLookup(t) /\ ~PrepareAssign(t) /\ ~PrepareSave(t)
  BY <1>1 DEF PrepareLookup, PrepareAssign, PrepareSave
<1>3. ~RegisterLookup(t) /\ ~RegisterSave(t) /\ ~PolicySave(t)
  BY <1>1 DEF RegisterLookup, RegisterSave, PolicySave
<1>4. ~HealthSave(t) /\ ~GetPlanWait(t) /\ ~ListNodes(t)
  BY <1>1 DEF HealthSave, GetPlanWait, ListNodes
<1>5. ~StorePlan(t) /\ ~RecordVersion(t) /\ ~Bump(t)
  BY <1>1 DEF StorePlan, RecordVersion, Bump
<1>6. ~RollbackSave(t) /\ ~RollbackReset(t) /\ ~RollbackRecord(t)
  BY <1>1 DEF RollbackSave, RollbackReset, RollbackRecord
<1> QED BY <1>2, <1>3, <1>4, <1>5, <1>6 DEF Serve

\* A handler's request is kept until it is answered.
LEMMA CallKept ==
  ASSUME TypeOK, NEW t \in Threads, Serve(t)
  PROVE  pc'[t] = "idle" \/ call' = call
<1>1. PICK from, to : Goto(t, from, to)
  BY DEF Serve, PrepareLookup, PrepareAssign, PrepareSave, RegisterLookup,
     RegisterSave, HealthSave, HealthListNodes, GetPlanWait, ListNodes,
     ListHealth, ClaimVersion, StorePlan, RecordVersion, PushPlan, Bump,
     PolicySave, RollbackSave, RollbackReset, RollbackRecord
<1> QED BY <1>1 DEF Goto, TypeOK

\* Every step keeps publishing to those three requests.
LEMMA PublishersStep ==
  ASSUME TypeOK, Publishers, [Next]_vars PROVE Publishers'
<1> USE DEF Publishers, Planning, Serving
<1> SUFFICES ASSUME NEW u \in Threads,
                    pc'[u] \in {"claim", "store", "global", "push"}
             PROVE  call'[u].op \in {"register", "getPlan", "health"}
  OBVIOUS
<1>1. CASE UNCHANGED vars
  BY <1>1 DEF vars, threadVars
<1>2. CASE ReceiveAny(u)
  BY <1>2, Received
<1>3. ASSUME NEW t \in Threads, ReceiveAny(t) \/ Serve(t), t # u
      PROVE  pc'[u] = pc[u] /\ call'[u] = call[u]
  BY <1>3, OthersStay
<1>4. CASE Serve(u)
  <2>1. call'[u] = call[u]
    BY <1>4, CallKept
  <2>2. CASE pc'[u] \in {"claim", "store"}
    BY <1>4, <2>1, <2>2, BeforeStore
       DEF HealthListNodes, ListHealth, ClaimVersion, PushPlan, Goto
  <2>3. CASE pc'[u] \in {"global", "push"}
    BY <1>4, <2>1, <2>3, PublishingStep DEF StorePlan, Goto
  <2> QED BY <2>2, <2>3
<1> QED BY <1>1, <1>2, <1>3, <1>4 DEF Next, Idle

\* A plan that followed, or is replaced now, follows after the step if it was
\* not made of what has been overtaken.
LEMMA FreshStays ==
  ASSUME TypeOK, PlansFollow, Publishers, HNext, nodes' = nodes, health' = health,
         NEW n \in DOMAIN nodes, n \notin displaced',
         \/ n \in displaced \/ PlanFresh(n)
         \/ \E t \in Threads : StoresPlan(t, n)
  PROVE  plans'[n].body = PlanBody(n, nodes, health)
<1>0. /\ n \in Nodes /\ n \in PlanKeys /\ plans \in [PlanKeys -> Plan]
  BY DEF TypeOK, StoreTypeOK, IsMap, PlanKeys
<1>1. /\ n \notin displaced \/ \E t \in Threads : StoresPlan(t, n)
      /\ ~\E t \in Threads :
            StoresPlan(t, n) /\ (t \in behind \/ Serving(t, "health"))
      /\ ~\E t \in Threads : RollsBack(t, n)
  BY <1>0 DEF HNext, TrackPlans
<1>2. CASE \E t \in Threads : StoresPlan(t, n)
  <2>1. PICK t \in Threads : StoresPlan(t, n)
    BY <1>2
  <2>2. /\ pc[t] = "store" /\ work[t].key = n /\ plans'[n] = work[t].plan
    BY <1>0, <2>1 DEF StoresPlan, StorePlan, SavePlan, Goto
  <2>3. t \notin behind /\ HasNodes(t)
    BY <1>1, <2>1, <2>2 DEF Publishers, HasNodes
  <2> QED BY <2>2, <2>3 DEF PlansFollow
<1>3. CASE ~\E t \in Threads : StoresPlan(t, n)
  <2>1. plans'[n].body = plans[n].body
    <3>1. CASE plans' = plans
      BY <3>1
    <3>2. CASE plans' # plans
      <4>1. PICK t \in Threads : Serve(t)
        <5>1. \A t \in Threads : ~ReceiveAny(t)
          BY <3>2, Received DEF storeVars
        <5> QED BY <3>2, <5>1 DEF HNext, Next, Idle, vars, storeVars
      <4> QED BY <1>0, <1>1, <1>3, <3>2, <4>1, PlansChange
              DEF StoresPlan, RollsBack
    <3> QED BY <3>1, <3>2
  <2> QED BY <1>1, <1>3, <2>1 DEF PlanFresh
<1> QED BY <1>2, <1>3

\* What PlansFollow says of one handler after a step.
FollowsNext(u) ==
  /\ pc'[u] = "listHealth" => listed'[u] = nodes'
  /\ pc'[u] = "store" /\ work'[u].key \in DOMAIN nodes'
       => work'[u].plan.body = PlanBody(work'[u].key, nodes', health')
  /\ pc'[u] # "listHealth" =>
       \A k \in DOMAIN drafts'[u] \cap DOMAIN nodes' :
         drafts'[u][k] = PlanBody(k, nodes', health')
  /\ pc'[u] # "listHealth" /\ call'[u].op = "register" =>
       \A n \in DOMAIN nodes' \ displaced' :
         \/ n \in DOMAIN drafts'[u]
         \/ pc'[u] = "store" /\ work'[u].key = n
         \/ plans'[n].body = PlanBody(n, nodes', health')
  /\ pc'[u] = "bump" => drafts'[u] = NoDrafts

\* A handler that others overtake with nothing keeps what it has.
LEMMA WaitingFollows ==
  ASSUME TypeOK, PlansFollow, Publishers, HNext,
         NEW u \in Threads \ behind', HasNodes(u)',
         pc'[u] = pc[u], call'[u] = call[u], listed'[u] = listed[u],
         drafts'[u] = drafts[u], work'[u] = work[u]
  PROVE  FollowsNext(u)
<1>1. HasNodes(u) /\ HasReports(u) <=> HasNodes(u) /\ pc[u] # "listHealth"
  BY DEF HasNodes, HasReports, Planning, Serving
<1>2. HasNodes(u)
  BY DEF HasNodes, Planning, Serving
<1>3. /\ u \notin behind /\ nodes' = nodes
      /\ pc[u] # "listHealth" => health' = health
  BY <1>1, <1>2 DEF HNext, TrackPlans
<1>4. CASE pc[u] = "listHealth"
  BY <1>2, <1>3, <1>4 DEF PlansFollow, FollowsNext
<1>5. CASE pc[u] # "listHealth"
  <2>1. health' = health /\ HasReports(u)
    BY <1>1, <1>2, <1>3, <1>5
  <2>2. ASSUME call[u].op = "register", NEW n \in DOMAIN nodes \ displaced'
        PROVE  \/ n \in DOMAIN drafts[u]
               \/ pc[u] = "store" /\ work[u].key = n
               \/ plans'[n].body = PlanBody(n, nodes, health)
    BY <1>3, <2>1, <2>2, FreshStays DEF PlansFollow, Serving
  <2> QED BY <1>2, <1>3, <1>5, <2>1, <2>2 DEF PlansFollow, FollowsNext
<1> QED BY <1>4, <1>5

\* The steps of a handler that leave it with a node list, or what it made of it.
LEMMA PlanningStep ==
  ASSUME TypeOK, NEW u \in Threads, Serve(u), HasNodes(u)'
  PROVE  /\ Planning(u) /\ call'[u] = call[u]
         /\ \/ ListNodes(u) \/ ListHealth(u) \/ ClaimVersion(u) \/ StorePlan(u)
            \/ RecordVersion(u) \/ PushPlan(u)
<1>1. pc'[u] # "idle" /\ call'[u].op \in {"register", "getPlan"}
  BY DEF HasNodes, Planning, Serving
<1>2. call'[u] = call[u] /\ call[u].op \in {"register", "getPlan"}
  BY <1>1, CallKept
<1>3. ASSUME NEW from, NEW to, Goto(u, from, to) PROVE pc'[u] = to
  BY <1>3 DEF Goto, TypeOK
<1>4. pc'[u] \in {"listHealth", "claim", "store", "global", "push", "bump"}
  BY DEF HasNodes
<1>5. ~PrepareLookup(u) /\ ~PrepareAssign(u) /\ ~PrepareSave(u)
  BY <1>2 DEF PrepareLookup, PrepareAssign, PrepareSave, Serving
<1>6. ~RegisterLookup(u) /\ ~RegisterSave(u)
  BY <1>3, <1>4 DEF RegisterLookup, RegisterSave
<1>7. ~HealthSave(u) /\ ~HealthListNodes(u) /\ ~PolicySave(u)
  BY <1>2 DEF HealthSave, HealthListNodes, PolicySave, Serving
<1>8. ~GetPlanWait(u) /\ ~Bump(u)
  BY <1>3, <1>4 DEF GetPlanWait, Bump
<1>9. ~RollbackSave(u) /\ ~RollbackReset(u) /\ ~RollbackRecord(u)
  BY <1>2 DEF RollbackSave, RollbackReset, RollbackRecord, Serving
<1> QED BY <1>2, <1>5, <1>6, <1>7, <1>8, <1>9 DEF Serve, Planning, Serving

\* A handler's own step leaves it with plans of what is stored.
LEMMA OwnStepFollows ==
  ASSUME TypeOK, PlansFollow, Publishers, HNext,
         NEW u \in Threads \ behind', Serve(u), HasNodes(u)'
  PROVE  FollowsNext(u)
<1>0. /\ pc \in [Threads -> PCs] /\ work \in [Threads -> Work]
      /\ DOMAIN listed = Threads /\ DOMAIN drafts = Threads
      /\ DOMAIN nodes \subseteq Nodes
  BY DEF TypeOK, StoreTypeOK, IsMap
<1>1. /\ Planning(u) /\ call'[u] = call[u]
      /\ \/ ListNodes(u) \/ ListHealth(u) \/ ClaimVersion(u) \/ StorePlan(u)
         \/ RecordVersion(u) \/ PushPlan(u)
  BY PlanningStep
<1>2. nodes' = nodes /\ health' = health
  BY <1>1 DEF ListNodes, ListHealth, ClaimVersion, StorePlan, RecordVersion,
     PushPlan, SavePlan, SetGlobalPlanVersion, storeVars, planVars, nodeVars
<1>3. HasNodes(u) => u \notin behind
  BY DEF HNext, TrackPlans
<1>4. ASSUME NEW from, NEW to, Goto(u, from, to) PROVE pc[u] = from /\ pc'[u] = to
  BY <1>0, <1>4 DEF Goto
<1>5. ASSUME HasReports(u), call[u].op = "register",
             NEW n \in DOMAIN nodes \ displaced'
      PROVE  \/ n \in DOMAIN drafts[u]
             \/ pc[u] = "store" /\ work[u].key = n
             \/ plans'[n].body = PlanBody(n, nodes, health)
  <2>1. u \notin behind
    BY <1>3, <1>5 DEF HasReports
  <2>2. CASE n \in displaced
    BY <1>2, <1>5, <2>2, FreshStays
  <2>3. CASE n \notin displaced
    <3>1. \/ n \in DOMAIN drafts[u]
          \/ pc[u] = "store" /\ work[u].key = n
          \/ PlanFresh(n)
      BY <1>5, <2>1, <2>3 DEF PlansFollow, Serving
    <3> QED BY <1>2, <1>5, <3>1, FreshStays
  <2> QED BY <2>2, <2>3
<1>6. CASE ListNodes(u)
  <2>1. pc'[u] = "listHealth" /\ listed'[u] = nodes
    BY <1>0, <1>4, <1>6 DEF ListNodes
  <2> QED BY <1>2, <2>1 DEF FollowsNext
<1>7. CASE ListHealth(u)
  <2>1. /\ pc[u] = "listHealth" /\ pc'[u] = "claim"
        /\ drafts'[u] = Drafts(call[u], listed[u], health)
    BY <1>0, <1>4, <1>7 DEF ListHealth
  <2>2. HasNodes(u)
    BY <1>1, <2>1 DEF HasNodes
  <2>3. listed[u] = nodes
    BY <1>3, <2>1, <2>2 DEF PlansFollow
  <2>4. call[u].op = "register" =>
          drafts'[u] = [n \in DOMAIN nodes |-> PlanBody(n, nodes, health)]
    BY <2>1, <2>3 DEF Drafts
  <2>5. \A k \in DOMAIN drafts'[u] \cap DOMAIN nodes :
          drafts'[u][k] = PlanBody(k, nodes, health)
    BY <1>0, <2>1, <2>3, <2>4, StoreAssumption DEF Drafts
  <2> QED BY <1>1, <1>2, <2>1, <2>4, <2>5 DEF FollowsNext
<1>8. CASE ClaimVersion(u)
  <2>1. PICK k \in DOMAIN drafts[u] :
          /\ Goto(u, "claim", "store")
          /\ work' = [work EXCEPT ![u] =
               [key |-> k, plan |-> [version |-> planVersion', body |-> drafts[u][k]]]]
          /\ drafts' = [drafts EXCEPT ![u] = [x \in DOMAIN @ \ {k} |-> @[x]]]
    BY <1>8 DEF ClaimVersion
  <2>2. pc[u] = "claim" /\ pc'[u] = "store"
    BY <1>4, <2>1
  <2>3. /\ work'[u].key = k /\ work'[u].plan.body = drafts[u][k]
        /\ DOMAIN drafts'[u] = DOMAIN drafts[u] \ {k}
        /\ \A x \in DOMAIN drafts'[u] : drafts'[u][x] = drafts[u][x]
    BY <1>0, <2>1
  <2>4. HasReports(u)
    BY <1>1, <2>2 DEF HasReports, HasNodes
  <2>5. \A x \in DOMAIN drafts[u] \cap DOMAIN nodes :
          drafts[u][x] = PlanBody(x, nodes, health)
    BY <1>3, <2>4 DEF PlansFollow, HasReports
  <2>6. ASSUME call[u].op = "register", NEW n \in DOMAIN nodes \ displaced'
        PROVE  \/ n \in DOMAIN drafts'[u]
               \/ pc'[u] = "store" /\ work'[u].key = n
               \/ plans'[n].body = PlanBody(n, nodes, health)
    BY <1>5, <2>2, <2>3, <2>4, <2>6
  <2> QED BY <1>1, <1>2, <2>2, <2>3, <2>5, <2>6 DEF FollowsNext
<1>9. CASE StorePlan(u)
  <2>1. /\ pc[u] = "store" /\ pc'[u] = "global" /\ drafts' = drafts
        /\ work' = work
    BY <1>4, <1>9 DEF StorePlan
  <2>2. HasReports(u)
    BY <1>1, <2>1 DEF HasReports, HasNodes
  <2>3. \A x \in DOMAIN drafts[u] \cap DOMAIN nodes :
          drafts[u][x] = PlanBody(x, nodes, health)
    BY <1>3, <2>2 DEF PlansFollow, HasReports
  <2>4. ASSUME call[u].op = "register", NEW n \in DOMAIN nodes \ displaced'
        PROVE  \/ n \in DOMAIN drafts[u]
               \/ plans'[n].body = PlanBody(n, nodes, health)
    <3>1. CASE work[u].key = n
      BY <1>2, <1>9, <2>4, <3>1, FreshStays DEF StoresPlan
    <3>2. CASE work[u].key # n
      BY <1>5, <2>2, <2>4, <3>2
    <3> QED BY <3>1, <3>2
  <2> QED BY <1>1, <1>2, <2>1, <2>3, <2>4 DEF FollowsNext
<1>10. CASE RecordVersion(u) \/ PushPlan(u)
  <2>1. /\ pc[u] \in {"global", "push"} /\ drafts' = drafts
        /\ pc'[u] \in {"push", "claim", "bump"}
        /\ pc'[u] = "bump" => drafts[u] = NoDrafts
    <3>1. CASE RecordVersion(u)
      BY <1>4, <3>1 DEF RecordVersion
    <3>2. CASE PushPlan(u)
      <4>1. AfterPush(u) \in {"claim", "bump", "idle"}
            /\ (AfterPush(u) = "bump" => drafts[u] = NoDrafts)
        BY DEF AfterPush
      <4>2. pc[u] = "push" /\ pc'[u] = AfterPush(u) /\ drafts' = drafts
        BY <1>4, <3>2 DEF PushPlan
      <4>3. pc'[u] # "idle"
        BY DEF HasNodes
      <4> QED BY <4>1, <4>2, <4>3
    <3> QED BY <1>10, <3>1, <3>2
  <2>2. HasReports(u)
    BY <1>1, <2>1 DEF HasReports, HasNodes
  <2>3. \A x \in DOMAIN drafts[u] \cap DOMAIN nodes :
          drafts[u][x] = PlanBody(x, nodes, health)
    BY <1>3, <2>2 DEF PlansFollow, HasReports
  <2>4. ASSUME call[u].op = "register", NEW n \in DOMAIN nodes \ displaced'
        PROVE  \/ n \in DOMAIN drafts[u]
               \/ plans'[n].body = PlanBody(n, nodes, health)
    BY <1>5, <2>1, <2>2, <2>4
  <2> QED BY <1>1, <1>2, <2>1, <2>3, <2>4 DEF FollowsNext
<1> QED BY <1>1, <1>6, <1>7, <1>8, <1>9, <1>10

\* Every step keeps what handlers have in hand made of what is stored.
LEMMA PlansFollowStep ==
  ASSUME TypeOK, PlansFollow, Publishers, [HNext]_hvars
  PROVE  PlansFollow'
<1>1. CASE UNCHANGED hvars
  BY <1>1 DEF hvars, slipVars, vars, threadVars, storeVars, planVars, nodeVars,
     PlansFollow, HasNodes, HasReports, Planning, Serving, PlanFresh
<1>2. CASE HNext
  <2>1. ASSUME NEW u \in Threads \ behind', HasNodes(u)'
        PROVE  FollowsNext(u)
    <3>1. CASE Idle
      BY <1>2, <2>1, <3>1, WaitingFollows DEF Idle, vars, threadVars
    <3>2. CASE ReceiveAny(u)
      BY <2>1, <3>2, Received DEF HasNodes
    <3>3. CASE Serve(u)
      BY <1>2, <2>1, <3>3, OwnStepFollows
    <3>4. ASSUME NEW t \in Threads \ {u}, ReceiveAny(t) \/ Serve(t)
          PROVE  FollowsNext(u)
      <4>1. /\ pc'[u] = pc[u] /\ call'[u] = call[u] /\ listed'[u] = listed[u]
            /\ drafts'[u] = drafts[u] /\ work'[u] = work[u]
        BY <3>4, OthersStay
      <4> QED BY <1>2, <2>1, <4>1, WaitingFollows
    <3> QED BY <1>2, <3>1, <3>2, <3>3, <3>4 DEF HNext, Next
  <2> QED BY <2>1 DEF FollowsNext, PlansFollow, HasNodes, HasReports, Planning,
          Serving, PlanFresh
<1> QED BY <1>1, <1>2

\* A registration that nothing has overtaken leaves, when it has saved its
\* plans, every node's plan made of all that is stored, displaced ones apart.
THEOREM RegistrationsReachPlans == HSpec => []RegistrationsPropagate
<1>1. HInit => PlansFollow /\ Publishers
  BY DEF HInit, Init, PlansFollow, Publishers, HasNodes, HasReports, Planning,
     Serving, NoCall
<1>2. TypeOK /\ PlansFollow /\ Publishers /\ [HNext]_hvars
        => PlansFollow' /\ Publishers'
  BY PlansFollowStep, PublishersStep, HistoryStep
<1>3. PlansFollow => RegistrationsPropagate
  <2> SUFFICES ASSUME PlansFollow, NEW t \in Threads \ behind,
                      Serving(t, "register"), pc[t] = "bump",
                      NEW n \in DOMAIN nodes \ displaced
               PROVE  PlanFresh(n)
    BY DEF RegistrationsPropagate
  <2>1. DOMAIN NoDrafts = {}
    BY DEF NoDrafts
  <2>2. HasReports(t)
    BY DEF HasReports, HasNodes, Planning
  <2> QED BY <2>1, <2>2 DEF PlansFollow, HasReports
<1> QED BY <1>1, <1>2, <1>3, HistoryTypeCorrect, PTL DEF HSpec

=============================================================================
