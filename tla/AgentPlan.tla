------------------------------- MODULE AgentPlan -------------------------------
(***************************************************************************)
(* The agent's handling of plans (pkg/agent/plan.go, apply.go, render.go,  *)
(* cmd/agent/main.go): messages handled by a goroutine each, the periodic  *)
(* self-repair, the start of the process, and the files, routes, tunnels   *)
(* and daemons they all write.                                             *)
(*                                                                         *)
(* A plan's version stands for its peers and settings.  Its rules are kept *)
(* apart, for an empty list leaves those of an earlier plan in force; two  *)
(* lists have routes to different prefixes.  The agent runs with -apply    *)
(* and -plan-interval, as its installer has it.  FRR's file and FRR,       *)
(* written and applied right after WireGuard's and like them, and the NAT  *)
(* rules, which no plan changes, are left out.                             *)
(* Messages come in the order in which they were sent (InOrder of WSHub),  *)
(* or are lost.                                                            *)
(***************************************************************************)
EXTENDS Integers, Sequences, FiniteSets

CONSTANTS
  Handlers,         \* goroutines of messages that may run at the same time
  Rules,            \* rule lists of a policy that are not empty
  None,             \* the empty rule list; a file cut to nothing
  Torn,             \* a list or a file that is half of one and half of another
  MaxWire,          \* messages on their way
  Budgets           \* how often each of Happenings may happen in a behaviour

Happenings == {"plan", "policy", "install", "drift", "fault", "crash"}

\* The two goroutines that handle no message: main() and the repair loop.
Repair == "repair"

Main == "main"

Goroutines == Handlers \cup {Repair, Main}

ASSUME AgentAssumption ==
  /\ {Repair, Main} \cap Handlers = {}
  /\ None # Torn /\ {None, Torn} \cap Rules = {}
  /\ MaxWire \in Nat
  /\ Budgets \subseteq [Happenings -> Nat]

VARIABLES
  latestCfg,        \* the plan handled last; version 0: none yet
  latestNode,       \* the node's record in memory: its rules
  at,               \* what each goroutine does next
  job,              \* the kind of message each handler runs
  cfg, node,        \* the plan and the node each goroutine has in hand
  wgConf,           \* the file
  wg,               \* what WireGuard runs, None: no peers
  routes,           \* the rule lists with routes in the kernel
  tunnels,          \* the version whose peers the wstunnel processes reach
  policy,           \* the controller: the rules stored for this node
  wire,             \* messages the hub has sent and the agent has not read
  budget,           \* how often each of Happenings may still happen
  made,             \* the controller: the version of its last plan
  overlap,          \* history: two handlers have been at work at once
  expected          \* history: plan and rules if messages were handled in turn

memory == <<latestCfg, latestNode>>
goroutines == <<at, job, cfg, node>>
host == <<wgConf, wg, routes, tunnels>>
controller == <<policy, made, budget>>
history == <<overlap, expected>>
vars == <<memory, goroutines, host, controller, wire, history>>

Lists == Rules \cup {None}

NodeRules == Lists \cup {Torn}

Plan == [version : Nat, rules : Lists]

NoCfg == [version |-> 0, rules |-> None]

Message == [kind : {"plan", "task", "install"}, plan : Plan]

\* What is rendered from a plan and a node.
Config == [version : Nat, rules : NodeRules]

File == Config \cup {None, Torn}

Labels == {"idle", "read", "look", "merge", "cut", "write", "start", "apply"}

AgentTypeOK ==
  /\ latestCfg \in Plan /\ latestNode \in NodeRules
  /\ at \in [Goroutines -> Labels]
  /\ job \in [Handlers -> {"plan", "task", "install"}]
  /\ cfg \in [Goroutines -> Plan]
  /\ node \in [Goroutines -> NodeRules]
  /\ {wgConf, wg} \subseteq File
  /\ routes \subseteq NodeRules \ {None}
  /\ tunnels \in Nat
  /\ policy \in Lists
  /\ wire \in Seq(Message)
  /\ budget \in [Happenings -> Nat]
  /\ made \in Nat
  /\ overlap \in BOOLEAN
  /\ expected \in Config

-----------------------------------------------------------------------------
(* Merging, files. *)

\* mergePlanIntoNode: an empty rule list leaves the node's.
Merged(rules, c) == IF c.rules # None THEN c.rules ELSE rules

\* latestNode read without its lock while it changes: one of the two or both.
Reads(old, new) == IF old = new THEN {new} ELSE {old, new, Torn}

Rendered(g) == [version |-> cfg[g].version, rules |-> node[g]]

\* A file is cut and then written: text that another goroutine has written since
\* is overwritten as far as the new text goes.
Written(file, c) == IF file = None THEN {c} ELSE {c, Torn}

-----------------------------------------------------------------------------
(* The process. *)

\* main() registers, is answered with a plan, and renders it; the node it starts
\* with has no policy.
Init ==
  /\ latestCfg = NoCfg /\ latestNode = None
  /\ at = [g \in Goroutines |-> IF g = Main THEN "cut" ELSE "idle"]
  /\ job = [h \in Handlers |-> "plan"]
  /\ cfg = [g \in Goroutines |-> [NoCfg EXCEPT !.version = IF g = Main THEN 1 ELSE 0]]
  /\ node = [g \in Goroutines |-> None]
  /\ wgConf = None /\ wg = None
  /\ routes = {} /\ tunnels = 0
  /\ policy = None
  /\ wire = <<>>
  /\ budget \in Budgets /\ made = 1
  /\ overlap = FALSE
  /\ expected = NoCfg

Happens(x) ==
  /\ budget[x] > 0
  /\ budget' = [budget EXCEPT ![x] = @ - 1]

\* The process ends and is started again: its goroutines, its memory and, with
\* the service's control group, its tunnels are gone; it registers once more.
Restarted ==
  /\ latestCfg' = NoCfg /\ latestNode' = None
  /\ at' = [g \in Goroutines |-> IF g = Main THEN "cut" ELSE "idle"]
  /\ job' = [h \in Handlers |-> "plan"]
  /\ cfg' = [g \in Goroutines |->
               IF g = Main THEN [version |-> made, rules |-> policy] ELSE NoCfg]
  /\ node' = [g \in Goroutines |-> None]
  /\ tunnels' = 0
  /\ wire' = <<>>
  /\ overlap' = FALSE
  /\ expected' = NoCfg
  /\ UNCHANGED <<wgConf, routes, policy, made>>

Crash == Happens("crash") /\ Restarted /\ UNCHANGED wg

\* StartPlanPoller has been called.
Polling == at[Main] = "idle"

Working(h) == at[h] # "idle"

-----------------------------------------------------------------------------
(* Messages. *)

\* A goroutine is started for message m; that of a plan may begin to read
\* latestNode at once.
Begin(h, m) ==
  /\ job' = [job EXCEPT ![h] = m.kind]
  /\ cfg' = [cfg EXCEPT ![h] = m.plan]
  /\ node' = [node EXCEPT ![h] = IF m.kind = "plan" THEN latestNode ELSE None]
  /\ at' = [at EXCEPT ![h] = IF m.kind = "plan" THEN "read" ELSE "look"]

\* readLoop: a message is read and handed to a new goroutine.
Receive(h) ==
  /\ Polling /\ ~Working(h)
  /\ wire # <<>>
  /\ wire' = Tail(wire)
  /\ Begin(h, Head(wire))
  /\ overlap' = (overlap \/ \E g \in Handlers : Working(g))
  /\ expected' = IF Head(wire).kind = "plan"
                   THEN [version |-> Head(wire).plan.version,
                         rules |-> Merged(expected.rules, Head(wire).plan)]
                   ELSE expected
  /\ UNCHANGED <<memory, host, controller>>

\* handleWSPlan: latestNode has been copied, word by word.
ReadNode(h) ==
  /\ at[h] = "read"
  /\ \E r \in Reads(node[h], latestNode) : node' = [node EXCEPT ![h] = r]
  /\ at' = [at EXCEPT ![h] = "merge"]
  /\ UNCHANGED <<memory, job, cfg, host, controller, wire, history>>

\* handleWSTask, handleWSCommand: plan and node are read under the lock.
LookUp(h) ==
  /\ at[h] = "look"
  /\ cfg' = [cfg EXCEPT ![h] = latestCfg]
  /\ \/ /\ job[h] = "task"
        /\ node' = [node EXCEPT ![h] = latestNode]
        /\ at' = [at EXCEPT ![h] = "merge"]
     \/ /\ job[h] = "install"
        /\ node' = [node EXCEPT ![h] = Merged(latestNode, latestCfg)]
        /\ at' = [at EXCEPT ![h] = "cut"]
  /\ UNCHANGED <<memory, job, host, controller, wire, history>>

\* mutant: the rendered configuration is stored in the node's place
HandlePlan_Whole(g) ==
  /\ at[g] = "merge"
  /\ latestCfg' = cfg[g]
  /\ latestNode' = Rendered(g)
  /\ node' = [node EXCEPT ![g] = Merged(node[g], cfg[g])]
  /\ at' = [at EXCEPT ![g] = "cut"]
  /\ UNCHANGED <<job, cfg, host, controller, wire, history>>

\* mutant: what is stored is the node before the merge
HandlePlan_Base(g) ==
  /\ at[g] = "merge"
  /\ latestCfg' = cfg[g]
  /\ latestNode' = node[g]
  /\ node' = [node EXCEPT ![g] = Merged(node[g], cfg[g])]
  /\ at' = [at EXCEPT ![g] = "cut"]
  /\ UNCHANGED <<job, cfg, host, controller, wire, history>>

\* handlePlan: the plan and the merged node are stored under the lock.
HandlePlan(g) ==
  /\ at[g] = "merge"
  /\ latestCfg' = cfg[g]
  /\ latestNode' = Merged(node[g], cfg[g])
  /\ node' = [node EXCEPT ![g] = Merged(node[g], cfg[g])]
  /\ at' = [at EXCEPT ![g] = "cut"]
  /\ UNCHANGED <<job, cfg, host, controller, wire, history>>

\* mutant: the loop handles its plan as if it had been pushed
Tick_Handles ==
  /\ Polling /\ ~Working(Repair)
  /\ latestCfg.version # 0
  /\ cfg' = [cfg EXCEPT ![Repair] = latestCfg]
  /\ node' = [node EXCEPT ![Repair] = Merged(latestNode, latestCfg)]
  /\ at' = [at EXCEPT ![Repair] = "merge"]
  /\ UNCHANGED <<memory, job, host, controller, wire, history>>

\* mutant: the loop does nothing while the files are as they were written
Tick_Unchanged ==
  /\ Polling /\ ~Working(Repair)
  /\ latestCfg.version # 0
  /\ wgConf # [version |-> latestCfg.version, rules |-> latestNode]
  /\ cfg' = [cfg EXCEPT ![Repair] = latestCfg]
  /\ node' = [node EXCEPT ![Repair] = Merged(latestNode, latestCfg)]
  /\ at' = [at EXCEPT ![Repair] = "cut"]
  /\ UNCHANGED <<memory, job, host, controller, wire, history>>

\* The loop of StartPlanPoller begins ensureRuntimeState.
Tick ==
  /\ Polling /\ ~Working(Repair)
  /\ latestCfg.version # 0
  /\ cfg' = [cfg EXCEPT ![Repair] = latestCfg]
  /\ node' = [node EXCEPT ![Repair] = Merged(latestNode, latestCfg)]
  /\ at' = [at EXCEPT ![Repair] = "cut"]
  /\ UNCHANGED <<memory, job, host, controller, wire, history>>

-----------------------------------------------------------------------------
(* Rendering and applying, alike for all goroutines. *)

others == <<memory, controller, wire, history>>

Goto(g, l) == at' = [at EXCEPT ![g] = l] /\ UNCHANGED <<job, cfg, node>>

\* The goroutine returns; what it had in hand is dead.
Return(g) ==
  /\ at' = [at EXCEPT ![g] = "idle"]
  /\ job' = IF g \in Handlers THEN [job EXCEPT ![g] = "plan"] ELSE job
  /\ cfg' = [cfg EXCEPT ![g] = NoCfg]
  /\ node' = [node EXCEPT ![g] = None]

\* RenderAndWrite: os.WriteFile cuts the file and then writes it.
WriteConf(g) ==
  /\ \/ at[g] = "cut" /\ wgConf' = None /\ Goto(g, "write")
     \/ at[g] = "write" /\ wgConf' \in Written(wgConf, Rendered(g)) /\ Goto(g, "start")
  /\ UNCHANGED <<others, wg, routes, tunnels>>

\* applyStaticRoutes adds routes and takes none of another list away; startAll
\* stops all tunnels and starts those of the plan.  Failures are only logged.
StartTunnels(g) ==
  /\ at[g] = "start"
  /\ \/ /\ routes' = routes \cup ({node[g]} \ {None})
        /\ tunnels' = cfg[g].version
        /\ UNCHANGED budget
     \/ /\ Happens("fault")
        /\ routes' = routes
        /\ tunnels' \in {0, cfg[g].version}
  /\ Goto(g, "apply")
  /\ UNCHANGED <<memory, policy, made, wire, history, wgConf, wg>>

\* ApplyConfigs: WireGuard is given what the file now says; peers that are not in
\* it go.
ApplyConfigs(g) ==
  /\ at[g] = "apply"
  /\ wg' = wgConf
  /\ Return(g)
  /\ UNCHANGED <<others, wgConf, routes, tunnels>>

\* A write or a command fails, FRR's after WireGuard's perhaps, and WireGuard may
\* refuse a file that is torn: main() exits, anything else returns.
Fail(g) ==
  /\ \/ at[g] \in {"cut", "write", "apply"} /\ Happens("fault")
     \/ at[g] = "apply" /\ wgConf = Torn /\ UNCHANGED budget
  /\ \/ UNCHANGED wg
     \/ at[g] = "apply" /\ wg' = wgConf
  /\ IF g = Main
       THEN Restarted
       ELSE /\ Return(g)
            /\ UNCHANGED <<memory, wgConf, routes, tunnels, policy, made, wire, history>>

Proceed(g) ==
  \/ HandlePlan(g)
  \/ WriteConf(g) \/ StartTunnels(g) \/ ApplyConfigs(g)

-----------------------------------------------------------------------------
(* The controller, the network, and the host's other users. *)

\* hub.Send: an agent that is away, or not connected yet, does not get the message.
Push(kind, c) ==
  \/ /\ Polling /\ Len(wire) < MaxWire
     /\ wire' = Append(wire, [kind |-> kind, plan |-> c])
  \/ UNCHANGED wire

outside == <<memory, goroutines, history>>

\* A plan is made, with the rules stored, and pushed.
PushPlan ==
  /\ Happens("plan")
  /\ made' = made + 1
  /\ Push("plan", [version |-> made', rules |-> policy])
  /\ UNCHANGED <<outside, host, policy>>

\* The policy handler stores the rules and sends a task; it makes no plan.
SubmitPolicy ==
  /\ Happens("policy")
  /\ policy' \in Lists
  /\ Push("task", NoCfg)
  /\ UNCHANGED <<outside, host, made>>

RequestInstall ==
  /\ Happens("install")
  /\ Push("install", NoCfg)
  /\ UNCHANGED <<outside, host, policy, made>>

\* The connection breaks: what was on its way is lost.
Disconnect ==
  /\ wire # <<>>
  /\ wire' = <<>>
  /\ UNCHANGED <<outside, host, controller>>

\* Somebody takes the interface's peers or the routes away, or the tunnels die.
Drift ==
  /\ Happens("drift")
  /\ \/ wg' = None /\ UNCHANGED <<routes, tunnels>>
     \/ routes' = {} /\ UNCHANGED <<wg, tunnels>>
     \/ tunnels' = 0 /\ UNCHANGED <<wg, routes>>
  /\ UNCHANGED <<outside, wgConf, policy, made, wire>>

Next ==
  \/ \E h \in Handlers : Receive(h) \/ ReadNode(h) \/ LookUp(h)
  \/ Tick
  \/ \E g \in Goroutines : Proceed(g) \/ Fail(g)
  \/ Crash
  \/ PushPlan \/ SubmitPolicy \/ RequestInstall \/ Disconnect \/ Drift

Spec == Init /\ [][Next]_vars

\* Goroutines that can go on do so, the ticker ticks; no message need be read.
FairSpec ==
  /\ Spec
  /\ \A h \in Handlers : WF_vars(ReadNode(h) \/ LookUp(h) \/ Proceed(h))
  /\ WF_vars(Proceed(Main))
  /\ WF_vars(Tick \/ Proceed(Repair))

-----------------------------------------------------------------------------
(* Properties. *)

\* The plan and the node in memory belong together, although each handler merges
\* into a node it read before and without the lock (plan.go:103, 205): the rules
\* of the plan are the node's, so that a repair installs what a plan said.
LatestTogether == Merged(latestNode, latestCfg) = latestNode

\* As long as no two messages are handled at once, the plan and the rules in
\* memory, and with them all that repairs will install, are those of the plans in
\* the order in which they came: neither repairs, which run beside the handlers,
\* nor tasks and failed commands bring back an earlier plan (plan.go:86, 211).
InTurn ==
  ~overlap /\ (\A h \in Handlers : ~Working(h)) =>
    latestCfg.version = expected.version /\ latestNode = expected.rules

\* Self-repair (plan.go:129): once a plan is in memory and handlers are quiet,
\* what runs becomes what that plan says and stays so, whatever failed, was
\* overwritten half way or was deleted by hand before.
Quiet ==
  /\ Polling /\ latestCfg.version # 0
  /\ \A h \in Handlers : ~Working(h)

Installed ==
  /\ wg = [version |-> latestCfg.version, rules |-> latestNode]
  /\ tunnels = latestCfg.version
  /\ {latestNode} \ {None} \subseteq routes

Heals == <>[]Quiet => <>[]Installed

\* A task of a policy that was applied without an error (plan.go:255) has applied
\* that policy.  Of a run with one policy.
PolicyApplied ==
  [][\A h \in Handlers :
       at[h] = "apply" /\ job[h] = "task" /\ ApplyConfigs(h) => node[h] = policy]_vars
=============================================================================
