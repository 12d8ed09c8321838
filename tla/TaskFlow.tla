------------------------------- MODULE TaskFlow -------------------------------
(***************************************************************************)
(* Tasks: a handler stores a task and sends it to its targets              *)
(* (pkg/api/tasks.go, policy.go); each agent runs the task's stages in a   *)
(* goroutine of its own and reports steps (pkg/agent/plan.go); the hub's   *)
(* read loop of each connection reads the stored task, appends the step    *)
(* and saves it back without a lock (pkg/api/ws.go).                       *)
(***************************************************************************)
EXTENDS Integers, Sequences, FiniteSetsExt

CONSTANTS
  Agents,           \* node IDs of the agents
  Tasks,            \* task IDs
  Requests,         \* what handlers are asked: targets, each named once, and a type
  FullLengths,      \* lengths at which append finds an array full
  MaxConns,         \* bound: connections of each agent
  MaxUnread         \* bound: steps written to a connection and unread

TaskTypes == {"policy_apply", "policy_diag", "verify"}

ASSUME TaskAssumption ==
  /\ Requests \subseteq [targets : SUBSET Agents, type : TaskTypes]
  /\ FullLengths \subseteq Nat
  /\ MaxConns \in Nat \ {0} /\ MaxUnread \in Nat \ {0}

VARIABLES
  stored,           \* stored[k]: the saved task (m.tasks), or NoTask
  job,              \* job[k]: targets and type of the saved task
  arrays,           \* arrays[k]: the Go arrays that slices of k's steps share
  unsent,           \* unsent[k]: targets the handler has not sent k to
  conn,             \* conn[a]: number of agent a's connection
  up,               \* up[a]: that connection is open
  toAgent,          \* toAgent[a]: tasks sent to a and not read yet
  pipeline,         \* pipeline[a][k]: what a's goroutine for k has left to do
  wire,             \* wire[a][c]: steps written to a's c-th connection, unread
  loop              \* loop[a][c]: what the hub's read loop of it has in hand

agentVars == <<conn, up, toAgent, pipeline, wire>>
taskVars == <<stored, job, arrays, unsent, agentVars, loop>>

Conns == 1..MaxConns

Stages(type) ==
  CASE type = "policy_diag" -> <<"diag">>
    [] type = "verify" -> <<"verify">>
    [] OTHER -> <<"apply", "self_test", "verify">>

Pipeline(k) == <<"environment_check">> \o Stages(job[k].type) \o <<"complete">>

\* The stages whose failure ends the task; the others report success always.
MayFail == {"apply", "verify"}

StageNames == {"environment_check", "diag", "apply", "self_test", "verify", "complete"}
Nobody == "controller"
Step == [name : StageNames \cup {"dispatch"}, status : {"running", "success", "fail"},
         node : Agents \cup {Nobody}]
Report == [task : Tasks, step : Step]

\* A Go slice: an array of arrays[k] and how much of it is seen.
Slice == [array : Nat \ {0}, len : Nat \ {0}]
NoTask == [status |-> "none"]
NoJob == [targets |-> {}, type |-> "policy_apply"]
Idle == [at |-> "read"]
NotStarted == [left |-> <<>>, running |-> FALSE]

DispatchStep == [name |-> "dispatch", status |-> "running", node |-> Nobody]

TaskInit ==
  /\ stored = [k \in Tasks |-> NoTask]
  /\ job = [k \in Tasks |-> NoJob]
  /\ arrays = [k \in Tasks |-> <<>>]
  /\ unsent = [k \in Tasks |-> {}]
  /\ conn = [a \in Agents |-> 1]
  /\ up = [a \in Agents |-> TRUE]
  /\ toAgent = [a \in Agents |-> {}]
  /\ pipeline = [a \in Agents |-> [k \in Tasks |-> NotStarted]]
  /\ wire = [a \in Agents |-> [c \in Conns |-> <<>>]]
  /\ loop = [a \in Agents |-> [c \in Conns |-> Idle]]

-----------------------------------------------------------------------------
(* The handler. *)

\* POST /api/v1/tasks (and POST /api/v1/policy, for one node): the task is
\* saved with its first step before it is sent to anyone.
Dispatch(k, request) ==
  /\ stored[k] = NoTask
  /\ job' = [job EXCEPT ![k] = request]
  /\ arrays' = [arrays EXCEPT ![k] = << <<DispatchStep>> >>]
  /\ stored' = [stored EXCEPT ![k] = [array |-> 1, len |-> 1, status |-> "running"]]
  /\ unsent' = [unsent EXCEPT ![k] = request.targets]
  /\ UNCHANGED <<agentVars, loop>>

\* The hub sends it to an agent that is connected and skips any other.  An
\* agent that has reconnected may be skipped too (WSHub, ConnectedIsFound).
SendTask(k, a) ==
  /\ a \in unsent[k]
  /\ unsent' = [unsent EXCEPT ![k] = @ \ {a}]
  /\ \/ up[a] /\ toAgent' = [toAgent EXCEPT ![a] = @ \cup {k}]
     \/ (up[a] => conn[a] > 1) /\ UNCHANGED toAgent
  /\ UNCHANGED <<stored, job, arrays, conn, up, pipeline, wire, loop>>

-----------------------------------------------------------------------------
(* The agent. *)

\* Each task is run by a goroutine of its own.
StartTask(a, k) ==
  /\ k \in toAgent[a]
  /\ toAgent' = [toAgent EXCEPT ![a] = @ \ {k}]
  /\ pipeline' = [pipeline EXCEPT ![a][k] =
       [left |-> Pipeline(k), running |-> FALSE]]
  /\ UNCHANGED <<stored, job, arrays, unsent, conn, up, wire, loop>>

\* wsClient.send: under the client's mutex; lost when the connection is gone.
Send(a, k, name, status) ==
  LET report == [task |-> k, step |-> [name |-> name, status |-> status, node |-> a]]
  IN IF up[a]
       THEN /\ Len(wire[a][conn[a]]) < MaxUnread
            /\ wire' = [wire EXCEPT ![a][conn[a]] = Append(@, report)]
       ELSE UNCHANGED wire

\* mutant: a failed stage is tried again
AfterStage_Retry(left, status) == IF status = "fail" THEN left ELSE Tail(left)

\* What is left after a stage has ended.
AfterStage(left, status) == IF status = "fail" THEN <<>> ELSE Tail(left)

BeginStage(a, k) ==
  LET p == pipeline[a][k]
  IN /\ p.left # <<>> /\ ~p.running /\ Head(p.left) # "complete"
     /\ Send(a, k, Head(p.left), "running")
     /\ pipeline' = [pipeline EXCEPT ![a][k] =
          [left |-> p.left, running |-> TRUE]]
     /\ UNCHANGED <<stored, job, arrays, unsent, conn, up, toAgent, loop>>

EndStage(a, k) ==
  LET p == pipeline[a][k]
  IN /\ p.left # <<>>
     /\ p.running \/ Head(p.left) = "complete"
     /\ \E status \in {"success"} \cup
                      IF Head(p.left) \in MayFail THEN {"fail"} ELSE {} :
          /\ Send(a, k, Head(p.left), status)
          /\ pipeline' = [pipeline EXCEPT ![a][k] =
               [left |-> AfterStage(p.left, status), running |-> FALSE]]
     /\ UNCHANGED <<stored, job, arrays, unsent, conn, up, toAgent, loop>>

-----------------------------------------------------------------------------
(* Connections: WSHub has their details. *)

\* The connection is gone.  Some of what was written to it may still arrive.
Disconnect(a) ==
  /\ up[a] /\ conn[a] < MaxConns
  /\ up' = [up EXCEPT ![a] = FALSE]
  /\ toAgent' = [toAgent EXCEPT ![a] = {}]
  /\ \E n \in 0..Len(wire[a][conn[a]]) :
       wire' = [wire EXCEPT ![a][conn[a]] = SubSeq(@, 1, n)]
  /\ UNCHANGED <<stored, job, arrays, unsent, conn, loop>>

Break(a) == Disconnect(a) /\ UNCHANGED pipeline

\* The agent's process ends, and the tasks it was running with it.
Restart(a) ==
  /\ Disconnect(a)
  /\ pipeline' = [pipeline EXCEPT ![a] = [k \in Tasks |-> NotStarted]]

\* The agent dials and the hub closes the old connection, whose read loop may
\* still be busy with a step.
Reconnect(a) ==
  /\ ~up[a]
  /\ up' = [up EXCEPT ![a] = TRUE]
  /\ conn' = [conn EXCEPT ![a] = @ + 1]
  /\ wire' = [wire EXCEPT ![a][conn[a]] = <<>>]
  /\ UNCHANGED <<stored, job, arrays, unsent, toAgent, pipeline, loop>>

-----------------------------------------------------------------------------
(* The hub's read loops: readLoop and handleTaskStep. *)

\* mutant: the last message is taken before the others
Received_Newest(q) == q[Len(q)]

Received(q) == Head(q)

\* The message is also kept in taskUpd, which nothing reads: left out.
HubRead(a, c) ==
  /\ loop[a][c] = Idle
  /\ wire[a][c] # <<>>
  /\ loop' = [loop EXCEPT ![a][c] = [at |-> "get", report |-> Received(wire[a][c])]]
  /\ wire' = [wire EXCEPT ![a][c] = Tail(@)]
  /\ UNCHANGED <<stored, job, arrays, unsent, conn, up, toAgent, pipeline>>

\* GetTask copies the task, and with it the slice but not the array.
HubGet(a, c) ==
  LET l == loop[a][c]
      t == stored[l.report.task]
  IN /\ l.at = "get"
     /\ loop' = [loop EXCEPT ![a][c] =
          [at |-> "append", report |-> l.report,
           slice |-> [array |-> t.array, len |-> t.len]]]
     /\ UNCHANGED <<stored, job, arrays, unsent, agentVars>>

\* Go doubles an array that is full: those of 1, 2, 4, 8 and 16 steps are, and
\* then one of 34, as its allocator rounds up.
Full(len) == len \in FullLengths

Write(array, i, e) ==
  IF i <= Len(array) THEN [array EXCEPT ![i] = e] ELSE Append(array, e)

\* append(t.Steps, step): in place when the array has room, which another
\* loop that holds a slice of it may be using too.
Appended(arrs, s, step) ==
  IF Full(s.len) THEN Append(arrs, Append(SubSeq(arrs[s.array], 1, s.len), step))
                 ELSE [arrs EXCEPT ![s.array] = Write(@, s.len + 1, step)]

AppendedSlice(arrs, s) ==
  [array |-> IF Full(s.len) THEN Len(arrs) + 1 ELSE s.array, len |-> s.len + 1]

HubAppend(a, c) ==
  LET l == loop[a][c]
      k == l.report.task
  IN /\ l.at = "append"
     /\ arrays' = [arrays EXCEPT ![k] = Appended(@, l.slice, l.report.step)]
     /\ loop' = [loop EXCEPT ![a][c] =
          [at |-> "save", report |-> l.report,
           slice |-> AppendedSlice(arrays[k], l.slice)]]
     /\ UNCHANGED <<stored, job, unsent, agentVars>>

\* mutants: the status is the step's name, or is left by all steps but the
\* last; the new slice is dropped
StatusAfter_Name(t, step) == step.name
StatusAfter_Final(t, step) ==
  IF step.name = "complete" THEN step.status ELSE t.status
Kept_Old(t, s) == [array |-> t.array, len |-> t.len]

\* The status of the task is that of the step; its steps are the new slice.
StatusAfter(t, step) == step.status
Kept(t, s) == s

\* The slices of k's steps that the store and the loops hold.  What none of
\* them sees is garbage, collected so that equal states are equal.
Held(k, st, lp) ==
  {[array |-> st[k].array, len |-> st[k].len]} \cup
  UNION {{lp[a][c].slice :
            c \in {d \in Conns : lp[a][d].at \in {"append", "save"}
                                  /\ lp[a][d].report.task = k}} : a \in Agents}

Collected(arrs, slices) ==
  [i \in DOMAIN arrs |->
     SubSeq(arrs[i], 1, Max({0} \cup {s.len : s \in {x \in slices : x.array = i}}))]

HubSave(a, c) ==
  LET l == loop[a][c]
      k == l.report.task
      s == Kept(stored[k], l.slice)
  IN /\ l.at = "save"
     /\ stored' = [stored EXCEPT ![k] =
          [array |-> s.array, len |-> s.len,
           status |-> StatusAfter(stored[k], l.report.step)]]
     /\ loop' = [loop EXCEPT ![a][c] = Idle]
     /\ arrays' = [arrays EXCEPT ![k] = Collected(@, Held(k, stored', loop'))]
     /\ UNCHANGED <<job, unsent, agentVars>>

-----------------------------------------------------------------------------

HandlerStep(k) == \E a \in Agents : SendTask(k, a)
AgentStep(a, k) == StartTask(a, k) \/ BeginStage(a, k) \/ EndStage(a, k)
LoopStep(a, c) == HubRead(a, c) \/ HubGet(a, c) \/ HubAppend(a, c) \/ HubSave(a, c)

\* Every task has been handled: nothing is left to do.
AllDone ==
  /\ \A k \in Tasks : stored[k] # NoTask /\ unsent[k] = {}
  /\ \A a \in Agents : /\ up[a] /\ toAgent[a] = {}
                       /\ \A k \in Tasks : pipeline[a][k].left = <<>>
                       /\ \A c \in Conns : wire[a][c] = <<>> /\ loop[a][c] = Idle

TaskNext ==
  \/ \E k \in Tasks, request \in Requests : Dispatch(k, request)
  \/ \E k \in Tasks : HandlerStep(k)
  \/ \E a \in Agents, k \in Tasks : AgentStep(a, k)
  \/ \E a \in Agents : Break(a) \/ Restart(a) \/ Reconnect(a)
  \/ \E a \in Agents, c \in Conns : LoopStep(a, c)
  \/ AllDone /\ UNCHANGED taskVars

TaskSpec == TaskInit /\ [][TaskNext]_taskVars

\* Goroutines that can run do, and commands an agent runs end.  Connections
\* need not fail, and need not be restored.
TaskFairSpec ==
  /\ TaskSpec
  /\ \A k \in Tasks : WF_taskVars(HandlerStep(k))
  /\ \A a \in Agents, k \in Tasks : WF_taskVars(AgentStep(a, k))
  /\ \A a \in Agents, c \in Conns : WF_taskVars(LoopStep(a, c))

-----------------------------------------------------------------------------

Steps(k) == IF stored[k] = NoTask THEN <<>>
            ELSE SubSeq(arrays[k][stored[k].array], 1, stored[k].len)

LoopState ==
       {Idle}
  \cup [at : {"get"}, report : Report]
  \cup [at : {"append", "save"}, report : Report, slice : Slice]

TaskTypeOK ==
  /\ stored \in [Tasks -> {NoTask} \cup [array : Nat \ {0}, len : Nat \ {0},
                     status : {"running", "success", "fail"}]]
  /\ job \in [Tasks -> Requests \cup {NoJob}]
  /\ arrays \in [Tasks -> Seq(Seq(Step))]
  /\ \A k \in Tasks : stored[k] # NoTask =>
       /\ stored[k].array \in DOMAIN arrays[k]
       /\ stored[k].len <= Len(arrays[k][stored[k].array])
  /\ unsent \in [Tasks -> SUBSET Agents]
  /\ conn \in [Agents -> Conns] /\ up \in [Agents -> BOOLEAN]
  /\ toAgent \in [Agents -> SUBSET Tasks]
  /\ pipeline \in [Agents -> [Tasks ->
       [left : Seq(StageNames), running : BOOLEAN]]]
  /\ wire \in [Agents -> [Conns -> Seq(Report)]]
  /\ loop \in [Agents -> [Conns -> LoopState]]

\* Agent a has had one connection only, and has it still.
Undisturbed(a) == conn[a] = 1 /\ up[a]

\* One read loop alone handles the steps of task k.
OneLoop(k) == \E a \in Agents : job[k].targets = {a} /\ conn[a] = 1

\* Where in its pipeline agent a is after step s of task k.
Rank(k, s) ==
  2 * (CHOOSE i \in DOMAIN Pipeline(k) : Pipeline(k)[i] = s.name)
    + IF s.status = "running" THEN 0 ELSE 1

\* The stored steps of each of a task's two agents are in the order of its
\* pipeline while neither has reconnected, though both loops append to the same
\* arrays, overwrite each other's elements and save older copies of the task
\* (handleTaskStep).  With a third agent the order can break.
StepsInOrder ==
  (\A a \in Agents : conn[a] = 1) =>
    \A k \in Tasks :
      (\E a, b \in Agents : job[k].targets \subseteq {a, b}) =>
        \A i, j \in DOMAIN Steps(k) \ {1} :
          i < j /\ Steps(k)[i].node = Steps(k)[j].node
            => Rank(k, Steps(k)[i]) < Rank(k, Steps(k)[j])

\* No step is stored twice, whatever is lost, overwritten or sent over a new
\* connection while the old one's loop is still at work.
StoredOnce ==
  \A k \in Tasks : \A i, j \in DOMAIN Steps(k) :
    i # j => Steps(k)[i] # Steps(k)[j]

\* The steps of a task that one read loop handles only grow, by the step that
\* is saved, and the status is that step's: for one agent nothing is lost.
StepsOnlyGrow ==
  [][\A k \in Tasks :
       OneLoop(k) /\ stored'[k] # stored[k] /\ stored[k] # NoTask =>
         \E e \in Step : /\ Steps(k)' = Append(Steps(k), e)
                         /\ stored'[k].status = e.status]_taskVars

Ended(k) ==
  /\ stored[k] # NoTask
  /\ LET last == Steps(k)[Len(Steps(k))]
     IN last.name = "complete" \/ last.status = "fail"

\* A task for one agent that keeps its connection comes to its end: its last
\* step is the last stage's, or one that failed (handleWSTask).
TaskEnds ==
  \A k \in Tasks, a \in Agents :
    job[k].targets = {a} /\ stored[k] # NoTask ~> Ended(k) \/ ~Undisturbed(a)
=============================================================================
