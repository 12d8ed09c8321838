------------------------------ MODULE AgentProofs ------------------------------
(***************************************************************************)
(* Theorems of AgentPlan: its types, and what holds of the plan and the    *)
(* rules in the agent's memory, for any number of message handlers, any    *)
(* rules, and any number of plans, policies, faults and crashes.           *)
(***************************************************************************)
EXTENDS AgentPlan, TLAPS

-----------------------------------------------------------------------------
(* Merging. *)

\* A merge (plan.go:275) gives rules or half-read rules, never anything else.
LEMMA MergedType == \A r \in NodeRules, c \in Plan : Merged(r, c) \in NodeRules
  BY DEF Merged, NodeRules, Lists, Plan

\* The plan a process starts without changes no rules when it is merged.
LEMMA MergedNothing == \A r : Merged(r, NoCfg) = r
  BY DEF Merged, NoCfg

\* Merging a plan once more, as every repair does (plan.go:131), changes nothing.
LEMMA MergedTwice == \A r, c : Merged(Merged(r, c), c) = Merged(r, c)
  BY DEF Merged

LEMMA NoCfgType == NoCfg \in Plan /\ NoCfg \in Config /\ None \in NodeRules
  BY DEF NoCfg, Plan, Config, NodeRules, Lists

LEMMA PlanIsConfig == Plan \subseteq Config
  BY DEF Plan, Config, NodeRules

-----------------------------------------------------------------------------
(* Types. *)

LEMMA InitType == Init => AgentTypeOK
<1> SUFFICES ASSUME Init PROVE AgentTypeOK
  OBVIOUS
<1> USE NoCfgType
<1>1. cfg \in [Goroutines -> Plan]
  BY DEF Init, NoCfg, Plan, Lists
<1>2. at \in [Goroutines -> Labels] /\ node \in [Goroutines -> NodeRules]
  BY DEF Init, Labels
<1>3. budget \in [Happenings -> Nat]
  BY AgentAssumption DEF Init
<1>4. wire \in Seq(Message)
  BY DEF Init
<1> QED
  BY <1>1, <1>2, <1>3, <1>4 DEF Init, AgentTypeOK, File, Lists

LEMMA HappensType ==
  ASSUME AgentTypeOK, NEW x \in Happenings, Happens(x)
  PROVE  budget' \in [Happenings -> Nat]
  BY DEF AgentTypeOK, Happens

LEMMA RestartedType ==
  ASSUME AgentTypeOK, Restarted, budget' \in [Happenings -> Nat], wg' \in File
  PROVE  AgentTypeOK'
<1> USE NoCfgType
<1>1. cfg' \in [Goroutines -> Plan]
  BY DEF AgentTypeOK, Restarted, Plan
<1>2. at' \in [Goroutines -> Labels] /\ node' \in [Goroutines -> NodeRules]
  BY DEF Restarted, Labels
<1>3. wire' \in Seq(Message)
  BY DEF Restarted
<1> QED
  BY <1>1, <1>2, <1>3 DEF AgentTypeOK, Restarted

\* The last two conjuncts of the type invariant follow from a longer step only
\* where a message is read.
LEMMA ReceiveType ==
  ASSUME AgentTypeOK, NEW h \in Handlers, Receive(h)
  PROVE  AgentTypeOK'
<1> DEFINE m == Head(wire)
<1> USE NoCfgType
<1>1. wire \in Seq(Message) /\ wire # <<>>
  BY DEF AgentTypeOK, Receive
<1>2. m \in Message /\ wire' \in Seq(Message)
  BY <1>1 DEF Receive
<1>3. m.plan \in Plan /\ m.kind \in {"plan", "task", "install"}
  BY <1>2 DEF Message
<1>4. Merged(expected.rules, m.plan) \in NodeRules /\ m.plan.version \in Nat
  BY <1>3, MergedType DEF AgentTypeOK, Config, Plan
<1>5. expected' \in Config
  <2>1. CASE m.kind = "plan"
    BY <2>1, <1>4 DEF Receive, Config
  <2>2. CASE m.kind # "plan"
    BY <2>2 DEF Receive, AgentTypeOK
  <2> QED
    BY <2>1, <2>2
<1>6. job' \in [Handlers -> {"plan", "task", "install"}] /\ cfg' \in [Goroutines -> Plan]
  BY <1>3 DEF AgentTypeOK, Receive, Begin
<1>7. node' \in [Goroutines -> NodeRules] /\ at' \in [Goroutines -> Labels]
  BY <1>3 DEF AgentTypeOK, Receive, Begin, Labels
<1>8. overlap' \in BOOLEAN
  BY DEF Receive, AgentTypeOK
<1>9. UNCHANGED <<latestCfg, latestNode, wgConf, wg, routes, tunnels, policy, made, budget>>
  BY DEF Receive, memory, host, controller
<1> QED
  BY <1>2, <1>5, <1>6, <1>7, <1>8, <1>9 DEF AgentTypeOK

LEMMA ReadNodeType ==
  ASSUME AgentTypeOK, NEW h \in Handlers, ReadNode(h)
  PROVE  AgentTypeOK'
<1>1. PICK r \in Reads(node[h], latestNode) : node' = [node EXCEPT ![h] = r]
  BY DEF ReadNode
<1>2. r \in NodeRules
  BY <1>1 DEF Reads, AgentTypeOK, NodeRules, Goroutines
<1>3. node' \in [Goroutines -> NodeRules] /\ at' \in [Goroutines -> Labels]
  BY <1>1, <1>2 DEF AgentTypeOK, ReadNode, Labels
<1> QED
  BY <1>3 DEF AgentTypeOK, ReadNode, memory, host, controller, history

LEMMA LookUpType ==
  ASSUME AgentTypeOK, NEW h \in Handlers, LookUp(h)
  PROVE  AgentTypeOK'
<1>1. cfg' \in [Goroutines -> Plan]
  BY DEF AgentTypeOK, LookUp
<1>2. Merged(latestNode, latestCfg) \in NodeRules
  BY MergedType DEF AgentTypeOK
<1>3. node' \in [Goroutines -> NodeRules] /\ at' \in [Goroutines -> Labels]
  BY <1>2 DEF AgentTypeOK, LookUp, Labels
<1> QED
  BY <1>1, <1>3 DEF AgentTypeOK, LookUp, memory, host, controller, history

LEMMA HandlePlanType ==
  ASSUME AgentTypeOK, NEW g \in Goroutines, HandlePlan(g)
  PROVE  AgentTypeOK'
<1>1. cfg[g] \in Plan /\ Merged(node[g], cfg[g]) \in NodeRules
  BY MergedType DEF AgentTypeOK
<1>2. latestCfg' \in Plan /\ latestNode' \in NodeRules
  BY <1>1 DEF HandlePlan
<1>3. node' \in [Goroutines -> NodeRules] /\ at' \in [Goroutines -> Labels]
  BY <1>1 DEF AgentTypeOK, HandlePlan, Labels
<1> QED
  BY <1>2, <1>3 DEF AgentTypeOK, HandlePlan, host, controller, history

LEMMA TickType ==
  ASSUME AgentTypeOK, Tick
  PROVE  AgentTypeOK'
<1>1. Merged(latestNode, latestCfg) \in NodeRules /\ Repair \in Goroutines
  BY MergedType DEF AgentTypeOK, Goroutines
<1>2. cfg' \in [Goroutines -> Plan] /\ node' \in [Goroutines -> NodeRules]
        /\ at' \in [Goroutines -> Labels]
  BY <1>1 DEF AgentTypeOK, Tick, Labels
<1> QED
  BY <1>2 DEF AgentTypeOK, Tick, memory, host, controller, history

\* A goroutine that goes on or returns has nothing in hand but what had a type.
LEMMA GotoType ==
  ASSUME AgentTypeOK, NEW g \in Goroutines, NEW l \in Labels, Goto(g, l)
  PROVE  /\ at' \in [Goroutines -> Labels]
         /\ job' \in [Handlers -> {"plan", "task", "install"}]
         /\ cfg' \in [Goroutines -> Plan]
         /\ node' \in [Goroutines -> NodeRules]
  BY DEF AgentTypeOK, Goto

LEMMA ReturnType ==
  ASSUME AgentTypeOK, NEW g \in Goroutines, Return(g)
  PROVE  /\ at' \in [Goroutines -> Labels]
         /\ job' \in [Handlers -> {"plan", "task", "install"}]
         /\ cfg' \in [Goroutines -> Plan]
         /\ node' \in [Goroutines -> NodeRules]
  BY NoCfgType DEF AgentTypeOK, Return, Labels

LEMMA WriteConfType ==
  ASSUME AgentTypeOK, NEW g \in Goroutines, WriteConf(g)
  PROVE  AgentTypeOK'
<1>1. Rendered(g) \in File
  BY DEF AgentTypeOK, Rendered, Plan, File, Config
<1>2. wgConf' \in File
  BY <1>1 DEF WriteConf, Written, File
<1>3. PICK l \in Labels : Goto(g, l)
  BY DEF WriteConf, Labels
<1> QED
  BY <1>2, <1>3, GotoType
  DEF AgentTypeOK, WriteConf, others, memory, controller, history

LEMMA StartTunnelsType ==
  ASSUME AgentTypeOK, NEW g \in Goroutines, StartTunnels(g)
  PROVE  AgentTypeOK'
<1>1. "apply" \in Labels /\ Goto(g, "apply")
  BY DEF StartTunnels, Labels
<1>2. cfg[g].version \in Nat /\ node[g] \in NodeRules
  BY DEF AgentTypeOK, Plan
<1>3. routes' \subseteq NodeRules \ {None} /\ tunnels' \in Nat
  BY <1>2 DEF AgentTypeOK, StartTunnels
<1>4. budget' \in [Happenings -> Nat]
  BY HappensType DEF StartTunnels, AgentTypeOK, Happenings
<1> QED
  BY <1>1, <1>3, <1>4, GotoType DEF AgentTypeOK, StartTunnels, memory, history

LEMMA ApplyConfigsType ==
  ASSUME AgentTypeOK, NEW g \in Goroutines, ApplyConfigs(g)
  PROVE  AgentTypeOK'
<1>1. Return(g) /\ wg' \in File
  BY DEF ApplyConfigs, AgentTypeOK
<1> QED
  BY <1>1, ReturnType
  DEF AgentTypeOK, ApplyConfigs, others, memory, controller, history

LEMMA FailType ==
  ASSUME AgentTypeOK, NEW g \in Goroutines, Fail(g)
  PROVE  AgentTypeOK'
<1>1. budget' \in [Happenings -> Nat]
  BY HappensType DEF Fail, AgentTypeOK, Happenings
<1>2. wg' \in File
  BY DEF Fail, AgentTypeOK
<1>3. CASE g = Main
  BY <1>1, <1>2, <1>3, RestartedType DEF Fail
<1>4. CASE g # Main
  BY <1>1, <1>2, <1>4, ReturnType DEF Fail, AgentTypeOK, memory, history
<1> QED
  BY <1>3, <1>4

LEMMA PushType ==
  ASSUME AgentTypeOK, NEW k \in {"plan", "task", "install"}, NEW c \in Plan, Push(k, c)
  PROVE  wire' \in Seq(Message)
<1>1. [kind |-> k, plan |-> c] \in Message
  BY DEF Message
<1>2. wire \in Seq(Message)
  BY DEF AgentTypeOK
<1>3. CASE wire' = Append(wire, [kind |-> k, plan |-> c])
  BY <1>1, <1>2, <1>3
<1>4. CASE UNCHANGED wire
  BY <1>2, <1>4
<1> QED
  BY <1>3, <1>4 DEF Push

LEMMA OutsideType ==
  ASSUME AgentTypeOK, PushPlan \/ SubmitPolicy \/ RequestInstall \/ Disconnect \/ Drift
  PROVE  AgentTypeOK'
<1> USE DEF outside, memory, goroutines, history, host, controller
<1>1. CASE PushPlan
  <2>1. made' \in Nat /\ [version |-> made', rules |-> policy] \in Plan
    BY <1>1 DEF PushPlan, AgentTypeOK, Plan
  <2>2. wire' \in Seq(Message)
    BY <1>1, <2>1, PushType DEF PushPlan
  <2>3. budget' \in [Happenings -> Nat]
    BY <1>1, HappensType DEF PushPlan, Happenings
  <2> QED
    BY <1>1, <2>1, <2>2, <2>3 DEF PushPlan, AgentTypeOK
<1>2. CASE SubmitPolicy
  <2>1. wire' \in Seq(Message)
    BY <1>2, NoCfgType, PushType DEF SubmitPolicy
  <2>2. budget' \in [Happenings -> Nat]
    BY <1>2, HappensType DEF SubmitPolicy, Happenings
  <2> QED
    BY <1>2, <2>1, <2>2 DEF SubmitPolicy, AgentTypeOK
<1>3. CASE RequestInstall
  <2>1. wire' \in Seq(Message)
    BY <1>3, NoCfgType, PushType DEF RequestInstall
  <2>2. budget' \in [Happenings -> Nat]
    BY <1>3, HappensType DEF RequestInstall, Happenings
  <2> QED
    BY <1>3, <2>1, <2>2 DEF RequestInstall, AgentTypeOK
<1>4. CASE Disconnect
  <2>1. wire' \in Seq(Message)
    BY <1>4 DEF Disconnect
  <2> QED
    BY <1>4, <2>1 DEF Disconnect, AgentTypeOK
<1>5. CASE Drift
  <2>1. budget' \in [Happenings -> Nat]
    BY <1>5, HappensType DEF Drift, Happenings
  <2>2. wg' \in File /\ routes' \subseteq NodeRules \ {None} /\ tunnels' \in Nat
    BY <1>5 DEF Drift, AgentTypeOK, File
  <2> QED
    BY <1>5, <2>1, <2>2 DEF Drift, AgentTypeOK
<1> QED
  BY <1>1, <1>2, <1>3, <1>4, <1>5

LEMMA NextType == AgentTypeOK /\ [Next]_vars => AgentTypeOK'
<1> SUFFICES ASSUME AgentTypeOK, [Next]_vars PROVE AgentTypeOK'
  OBVIOUS
<1>1. ASSUME NEW h \in Handlers, Receive(h) \/ ReadNode(h) \/ LookUp(h)
      PROVE  AgentTypeOK'
  BY <1>1, ReceiveType, ReadNodeType, LookUpType
<1>2. ASSUME NEW g \in Goroutines, Proceed(g) \/ Fail(g)
      PROVE  AgentTypeOK'
  BY <1>2, HandlePlanType, WriteConfType, StartTunnelsType, ApplyConfigsType, FailType
  DEF Proceed
<1>3. CASE Crash
  BY <1>3, HappensType, RestartedType DEF Crash, Happenings, AgentTypeOK
<1>4. CASE UNCHANGED vars
  BY <1>4 DEF AgentTypeOK, vars, memory, goroutines, host, controller, history
<1> QED
  BY <1>1, <1>2, <1>3, <1>4, TickType, OutsideType DEF Next

\* Whatever the agent's goroutines, the network and the faults do, its state has
\* its types: what is in hand, in memory, in the files and in the kernel.
THEOREM AgentTypeCorrect == Spec => []AgentTypeOK
<1>1. Init => AgentTypeOK
  BY InitType
<1>2. AgentTypeOK /\ [Next]_vars => AgentTypeOK'
  BY NextType
<1> QED
  BY <1>1, <1>2, PTL DEF Spec

-----------------------------------------------------------------------------
(* The plan and the rules in memory. *)

\* Only three actions change what is in memory.
LEMMA MemoryChanges ==
  ASSUME Next
  PROVE  \/ \E g \in Goroutines : HandlePlan(g)
         \/ Restarted
         \/ UNCHANGED memory
  BY DEF Next, Receive, ReadNode, LookUp, Tick, Proceed, WriteConf, StartTunnels,
         ApplyConfigs, Fail, Crash, PushPlan, SubmitPolicy, RequestInstall, Disconnect,
         Drift, others, outside

\* The rules of the plan in memory are those of the node in memory, although each
\* handler merges into a node read before and without the lock (plan.go:205).
THEOREM MemoryTogether == Spec => []LatestTogether
<1>1. Init => LatestTogether
  BY MergedNothing DEF Init, LatestTogether
<1>2. LatestTogether /\ [Next]_vars => LatestTogether'
  <2> SUFFICES ASSUME LatestTogether, [Next]_vars PROVE LatestTogether'
    OBVIOUS
  <2>1. ASSUME NEW g \in Goroutines, HandlePlan(g)
        PROVE  LatestTogether'
    BY <2>1, MergedTwice DEF HandlePlan, LatestTogether
  <2>2. CASE Restarted
    BY <2>2, MergedNothing DEF Restarted, LatestTogether
  <2>3. CASE UNCHANGED memory
    BY <2>3 DEF memory, LatestTogether
  <2> QED
    BY <2>1, <2>2, <2>3, MemoryChanges DEF vars
<1> QED
  BY <1>1, <1>2, PTL DEF Spec

-----------------------------------------------------------------------------
(***************************************************************************)
(* Messages handled in turn.  InTurn looks at the moments when no handler  *)
(* works.  What carries it from one to the next: while messages are not    *)
(* handled side by side, at most one handler is at work, and if it has not *)
(* stored its plan yet, then the expected plan is the one it will store;   *)
(* everybody else, main() and the repairs included, never stores a plan.   *)
(***************************************************************************)
OneWorks == \A g, h \in Handlers : Working(g) /\ Working(h) => g = h

\* Between reading latestNode and storing the merge.
WillStore(h) ==
  /\ at[h] = "read" => /\ node[h] = latestNode
                       /\ expected.version = cfg[h].version
                       /\ expected.rules = Merged(latestNode, cfg[h])
  /\ at[h] = "merge" => /\ expected.version = cfg[h].version
                        /\ expected.rules = Merged(node[h], cfg[h])

Stored ==
  (\A h \in Handlers : at[h] \notin {"read", "merge"}) =>
    latestCfg.version = expected.version /\ latestNode = expected.rules

\* main() and the repair loop render what they were given and store nothing.
OnlyHandlersStore == \A g \in {Repair, Main} : at[g] \notin {"read", "look", "merge"}

TurnInv ==
  /\ OnlyHandlersStore
  /\ ~overlap => OneWorks /\ Stored /\ \A h \in Handlers : WillStore(h)

\* The strengthened invariant.
AgentInv == AgentTypeOK /\ LatestTogether /\ TurnInv

LEMMA HandlersApart ==
  /\ Repair \in Goroutines /\ Main \in Goroutines /\ Handlers \subseteq Goroutines
  /\ Repair # Main /\ Repair \notin Handlers /\ Main \notin Handlers
  /\ \A g \in Goroutines : g \in Handlers \/ g = Repair \/ g = Main
  BY AgentAssumption DEF Goroutines, Repair, Main

LEMMA AgentInvGivesInTurn == AgentInv => InTurn
  BY HandlersApart DEF AgentInv, TurnInv, Stored, InTurn, Working

LEMMA InitTurn == Init => TurnInv
  BY HandlersApart
  DEF Init, TurnInv, OnlyHandlersStore, OneWorks, Stored, WillStore, Working, NoCfg

LEMMA RestartedTurn ==
  ASSUME Restarted
  PROVE  TurnInv'
  BY HandlersApart
  DEF Restarted, TurnInv, OnlyHandlersStore, OneWorks, Stored, WillStore, Working, NoCfg

\* A step after which no goroutine is nearer to storing a plan, and no handler
\* begins to work.
LEMMA NothingStored ==
  ASSUME AgentInv, at' \in [Goroutines -> Labels],
         UNCHANGED <<latestCfg, latestNode, overlap, expected>>,
         \A g \in Goroutines :
           \/ at'[g] = at[g] /\ cfg'[g] = cfg[g] /\ node'[g] = node[g]
           \/ at'[g] \notin {"read", "look", "merge"}
                /\ at[g] \notin {"read", "merge"}
                /\ (at[g] = "idle" => g \notin Handlers)
  PROVE  TurnInv'
<1>1. OnlyHandlersStore'
  BY HandlersApart DEF AgentInv, TurnInv, OnlyHandlersStore
<1>2. ASSUME ~overlap' PROVE OneWorks' /\ Stored' /\ \A h \in Handlers : WillStore(h)'
  <2>1. OneWorks /\ Stored /\ \A h \in Handlers : WillStore(h)
    BY <1>2 DEF AgentInv, TurnInv
  <2>2. \A h \in Handlers : Working(h)' => Working(h)
    BY HandlersApart DEF Working
  <2>3. OneWorks'
    BY <2>1, <2>2 DEF OneWorks
  <2>4. Stored'
    BY <2>1, HandlersApart DEF Stored
  <2>5. \A h \in Handlers : WillStore(h)'
    BY <2>1, HandlersApart DEF WillStore
  <2> QED
    BY <2>3, <2>4, <2>5
<1> QED
  BY <1>1, <1>2 DEF TurnInv

LEMMA ReceiveTurn ==
  ASSUME AgentInv, NEW h \in Handlers, Receive(h)
  PROVE  TurnInv'
<1> DEFINE m == Head(wire)
<1>1. /\ h \in Goroutines /\ at \in [Goroutines -> Labels]
      /\ cfg \in [Goroutines -> Plan] /\ node \in [Goroutines -> NodeRules]
  BY HandlersApart DEF AgentInv, AgentTypeOK
<1>2. UNCHANGED <<latestCfg, latestNode>>
  BY DEF Receive, memory
<1>3. OnlyHandlersStore'
  BY <1>1, HandlersApart DEF AgentInv, TurnInv, OnlyHandlersStore, Receive, Begin
<1>4. ASSUME ~overlap' PROVE OneWorks' /\ Stored' /\ \A k \in Handlers : WillStore(k)'
  <2>1. ~overlap /\ \A g \in Handlers : at[g] = "idle"
    BY <1>4 DEF Receive, Working
  <2>2. \A g \in Handlers : g # h => at'[g] = "idle"
    BY <1>1, <2>1, HandlersApart DEF Receive, Begin
  <2>3. latestCfg.version = expected.version /\ latestNode = expected.rules
    BY <2>1 DEF AgentInv, TurnInv, Stored
  <2>4. OneWorks'
    BY <2>2 DEF OneWorks, Working
  <2>5. CASE m.kind = "plan"
    <3>1. at'[h] = "read" /\ cfg'[h] = m.plan /\ node'[h] = latestNode
      BY <1>1, <2>5 DEF Receive, Begin
    <3>2. expected' = [version |-> m.plan.version, rules |-> Merged(expected.rules, m.plan)]
      BY <2>5 DEF Receive
    <3>3. WillStore(h)'
      BY <1>2, <2>3, <3>1, <3>2 DEF WillStore, Merged
    <3>4. Stored'
      BY <3>1 DEF Stored
    <3> QED
      BY <2>2, <2>4, <3>3, <3>4 DEF WillStore
  <2>6. CASE m.kind # "plan"
    <3>1. at'[h] = "look"
      BY <1>1, <2>6 DEF Receive, Begin
    <3>2. UNCHANGED expected
      BY <2>6 DEF Receive
    <3>3. Stored'
      BY <1>2, <2>3, <3>2 DEF Stored
    <3> QED
      BY <2>2, <2>4, <3>1, <3>3 DEF WillStore
  <2> QED
    BY <2>5, <2>6
<1> QED
  BY <1>3, <1>4 DEF TurnInv

\* A handler at work alone: the others neither work nor begin to.
LEMMA AloneTurn ==
  ASSUME AgentInv, NEW h \in Handlers, Working(h), ~overlap
  PROVE  \A g \in Handlers : g # h => at[g] = "idle"
  BY DEF AgentInv, TurnInv, OneWorks, Working

LEMMA ReadNodeTurn ==
  ASSUME AgentInv, NEW h \in Handlers, ReadNode(h)
  PROVE  TurnInv'
<1>1. /\ h \in Goroutines /\ at \in [Goroutines -> Labels]
      /\ node \in [Goroutines -> NodeRules]
  BY HandlersApart DEF AgentInv, AgentTypeOK
<1>2. PICK r \in Reads(node[h], latestNode) : node' = [node EXCEPT ![h] = r]
  BY DEF ReadNode
<1>3. OnlyHandlersStore'
  BY <1>1, HandlersApart DEF AgentInv, TurnInv, OnlyHandlersStore, ReadNode
<1>4. ASSUME ~overlap' PROVE OneWorks' /\ Stored' /\ \A k \in Handlers : WillStore(k)'
  <2>1. ~overlap /\ UNCHANGED <<expected, latestCfg, latestNode, cfg>>
    BY <1>4 DEF ReadNode, history, memory
  <2>2. WillStore(h) /\ at[h] = "read"
    BY <2>1 DEF AgentInv, TurnInv, ReadNode
  <2>3. r = latestNode
    BY <1>2, <2>2 DEF WillStore, Reads
  <2>4. at'[h] = "merge" /\ node'[h] = latestNode
    BY <1>1, <1>2, <2>3 DEF ReadNode
  <2>5. \A g \in Handlers : g # h => at'[g] = "idle"
    BY <1>1, <2>1, <2>2, AloneTurn, HandlersApart DEF ReadNode, Working
  <2>6. WillStore(h)'
    BY <2>1, <2>2, <2>4 DEF WillStore, Merged
  <2> QED
    BY <2>4, <2>5, <2>6 DEF WillStore, OneWorks, Stored, Working
<1> QED
  BY <1>3, <1>4 DEF TurnInv

LEMMA LookUpTurn ==
  ASSUME AgentInv, NEW h \in Handlers, LookUp(h)
  PROVE  TurnInv'
<1>1. /\ h \in Goroutines /\ at \in [Goroutines -> Labels]
      /\ cfg \in [Goroutines -> Plan] /\ node \in [Goroutines -> NodeRules]
  BY HandlersApart DEF AgentInv, AgentTypeOK
<1>2. OnlyHandlersStore'
  BY <1>1, HandlersApart DEF AgentInv, TurnInv, OnlyHandlersStore, LookUp
<1>3. ASSUME ~overlap' PROVE OneWorks' /\ Stored' /\ \A k \in Handlers : WillStore(k)'
  <2>1. ~overlap /\ UNCHANGED <<expected, latestCfg, latestNode>>
    BY <1>3 DEF LookUp, history, memory
  <2>2. \A g \in Handlers : g # h => at[g] = "idle" /\ at'[g] = "idle"
    BY <1>1, <2>1, AloneTurn, HandlersApart DEF LookUp, Working
  <2>3. latestCfg.version = expected.version /\ latestNode = expected.rules
    BY <2>1, <2>2 DEF AgentInv, TurnInv, Stored, LookUp
  <2>4. cfg'[h] = latestCfg /\ at'[h] \in {"merge", "cut"}
    BY <1>1 DEF LookUp
  <2>5. at'[h] = "merge" => node'[h] = latestNode
    BY <1>1 DEF LookUp
  <2>6. WillStore(h)'
    BY <2>1, <2>3, <2>4, <2>5 DEF AgentInv, LatestTogether, WillStore
  <2>7. Stored'
    BY <2>1, <2>3 DEF Stored
  <2> QED
    BY <2>2, <2>6, <2>7 DEF WillStore, OneWorks, Working
<1> QED
  BY <1>2, <1>3 DEF TurnInv

LEMMA HandlePlanTurn ==
  ASSUME AgentInv, NEW g \in Goroutines, HandlePlan(g)
  PROVE  TurnInv'
<1>1. /\ at \in [Goroutines -> Labels] /\ node \in [Goroutines -> NodeRules]
      /\ at[g] = "merge"
  BY DEF AgentInv, AgentTypeOK, HandlePlan
<1>2. g \in Handlers
  BY <1>1, HandlersApart DEF AgentInv, TurnInv, OnlyHandlersStore
<1>3. OnlyHandlersStore'
  BY <1>1, <1>2, HandlersApart DEF AgentInv, TurnInv, OnlyHandlersStore, HandlePlan
<1>4. ASSUME ~overlap' PROVE OneWorks' /\ Stored' /\ \A k \in Handlers : WillStore(k)'
  <2>1. ~overlap /\ UNCHANGED expected
    BY <1>4 DEF HandlePlan, history
  <2>2. \A h \in Handlers : h # g => at'[h] = "idle"
    BY <1>1, <1>2, <2>1, AloneTurn, HandlersApart DEF HandlePlan, Working
  <2>3. WillStore(g)
    BY <1>2, <2>1 DEF AgentInv, TurnInv
  <2>4. latestCfg'.version = expected'.version /\ latestNode' = expected'.rules
    BY <1>1, <2>1, <2>3 DEF WillStore, HandlePlan
  <2>5. at'[g] = "cut"
    BY <1>1 DEF HandlePlan
  <2> QED
    BY <2>2, <2>4, <2>5 DEF WillStore, OneWorks, Stored, Working
<1> QED
  BY <1>3, <1>4 DEF TurnInv

LEMMA TickTurn ==
  ASSUME AgentInv, Tick
  PROVE  TurnInv'
<1>1. /\ at \in [Goroutines -> Labels] /\ at' \in [Goroutines -> Labels]
      /\ cfg \in [Goroutines -> Plan] /\ node \in [Goroutines -> NodeRules]
  BY TickType DEF AgentInv, AgentTypeOK
<1>2. at[Repair] = "idle" /\ at'[Repair] = "cut"
  BY <1>1, HandlersApart DEF Tick, Working
<1>3. \A h \in Goroutines :
        h # Repair => at'[h] = at[h] /\ cfg'[h] = cfg[h] /\ node'[h] = node[h]
  BY <1>1 DEF Tick
<1>4. UNCHANGED <<latestCfg, latestNode, overlap, expected>>
  BY DEF Tick, memory, history
<1> QED
  BY <1>1, <1>2, <1>3, <1>4, HandlersApart, NothingStored

\* Rendering and applying touch nothing but the goroutine's own state and the host.
LEMMA GoesOn ==
  ASSUME AgentInv, NEW g \in Goroutines,
         at[g] \in {"cut", "write", "start", "apply"},
         \/ Return(g)
         \/ \E l \in {"write", "start", "apply"} : Goto(g, l),
         UNCHANGED <<latestCfg, latestNode, overlap, expected>>
  PROVE  TurnInv'
<1>1. /\ at \in [Goroutines -> Labels]
      /\ cfg \in [Goroutines -> Plan] /\ node \in [Goroutines -> NodeRules]
  BY DEF AgentInv, AgentTypeOK
<1>2. at' \in [Goroutines -> Labels] /\ at'[g] \notin {"read", "look", "merge"}
  BY <1>1 DEF Return, Goto, Labels
<1>3. \A h \in Goroutines :
        h # g => at'[h] = at[h] /\ cfg'[h] = cfg[h] /\ node'[h] = node[h]
  BY <1>1 DEF Return, Goto
<1> QED
  BY <1>2, <1>3, NothingStored

LEMMA RunTurn ==
  ASSUME AgentInv, NEW g \in Goroutines,
         WriteConf(g) \/ StartTunnels(g) \/ ApplyConfigs(g) \/ Fail(g)
  PROVE  TurnInv'
<1> USE DEF others, memory, history
<1>1. CASE WriteConf(g)
  BY <1>1, GoesOn DEF WriteConf
<1>2. CASE StartTunnels(g)
  BY <1>2, GoesOn DEF StartTunnels
<1>3. CASE ApplyConfigs(g)
  BY <1>3, GoesOn DEF ApplyConfigs
<1>4. CASE Fail(g) /\ g = Main
  BY <1>4, RestartedTurn DEF Fail
<1>5. CASE Fail(g) /\ g # Main
  BY <1>5, GoesOn DEF Fail
<1> QED
  BY <1>1, <1>2, <1>3, <1>4, <1>5

LEMMA NextTurn == AgentInv /\ [Next]_vars => TurnInv'
<1> SUFFICES ASSUME AgentInv, [Next]_vars PROVE TurnInv'
  OBVIOUS
<1>1. ASSUME NEW h \in Handlers, Receive(h) \/ ReadNode(h) \/ LookUp(h)
      PROVE  TurnInv'
  BY <1>1, ReceiveTurn, ReadNodeTurn, LookUpTurn
<1>2. ASSUME NEW g \in Goroutines, Proceed(g) \/ Fail(g)
      PROVE  TurnInv'
  BY <1>2, HandlePlanTurn, RunTurn DEF Proceed
<1>3. CASE Crash
  BY <1>3, RestartedTurn DEF Crash
<1>4. CASE UNCHANGED <<at, cfg, node, latestCfg, latestNode, overlap, expected>>
  <2>1. at' \in [Goroutines -> Labels]
    BY <1>4 DEF AgentInv, AgentTypeOK
  <2> QED
    BY <1>4, <2>1, NothingStored
<1>5. CASE PushPlan \/ SubmitPolicy \/ RequestInstall \/ Disconnect \/ Drift
  BY <1>4, <1>5
  DEF PushPlan, SubmitPolicy, RequestInstall, Disconnect, Drift, outside, memory,
      goroutines, history
<1>6. CASE UNCHANGED vars
  BY <1>4, <1>6 DEF vars, memory, goroutines, history
<1> QED
  BY <1>1, <1>2, <1>3, <1>5, <1>6, TickTurn DEF Next

\* Plans handled one at a time leave in memory, and with it in every later repair,
\* the last plan received and the rules of all of them in order: tasks, commands,
\* repairs and failures in between bring back nothing earlier (plan.go:86, 211).
THEOREM HandledInTurn == Spec => []InTurn
<1>1. Spec => []AgentTypeOK
  BY AgentTypeCorrect
<1>2. Spec => []LatestTogether
  BY MemoryTogether
<1>3. Init => TurnInv
  BY InitTurn
<1>4. AgentTypeOK /\ LatestTogether /\ TurnInv /\ [Next]_vars => TurnInv'
  BY NextTurn DEF AgentInv
<1>5. AgentTypeOK /\ LatestTogether /\ TurnInv => InTurn
  BY AgentInvGivesInTurn DEF AgentInv
<1> QED
  BY <1>1, <1>2, <1>3, <1>4, <1>5, PTL DEF Spec
=============================================================================
