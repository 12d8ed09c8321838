---------------------------- MODULE TaskFlowProofs ----------------------------
(***************************************************************************)
(* Proofs about tasks and their steps, for any agents, tasks, requests and *)
(* bounds.                                                                 *)
(***************************************************************************)
EXTENDS TaskFlow, SequenceTheorems, WellFoundedInduction, TLAPS

-----------------------------------------------------------------------------
(* Arrays and slices. *)

\* Slice s lies within its array, one of arrs.
Fits(s, arrs) == s.array \in DOMAIN arrs /\ s.len <= Len(arrs[s.array])

\* The read loop holds a slice of its own: it has read the task, and not saved
\* it yet.
Holding(l) == l.at \in {"append", "save"}

SliceOf(t) == [array |-> t.array, len |-> t.len]

\* A bounded set of numbers that is not empty has a greatest one, which is what
\* Max picks (the longest slice of an array, handleTaskStep).
LEMMA MaxNatural ==
  ASSUME NEW T \in SUBSET Nat, T # {}, NEW n \in Nat, \A x \in T : x <= n
  PROVE  Max(T) \in T /\ \A x \in T : x <= Max(T)
<1> DEFINE U == {m \in Nat : \A x \in T : x <= m}
           R == OpToRel(<, Nat)
<1>1. \A i, j \in Nat : <<i, j>> \in R <=> i < j
  BY DEF OpToRel
<1>2. IsWellFoundedOn(R, Nat)
  BY NatLessThanWellFounded
<1>3. U \in SUBSET Nat /\ U # {}
  OBVIOUS
<1> HIDE DEF R
<1>4. PICK m \in U : \A k \in U : ~(<<k, m>> \in R)
  BY <1>2, <1>3, WFMin
<1>5. m \in Nat /\ \A x \in T : x <= m
  BY <1>4
<1>6. m \in T
  <2> SUFFICES ASSUME m \notin T
               PROVE  FALSE
    OBVIOUS
  <2>1. PICK y \in T : TRUE
    OBVIOUS
  <2>2. m # 0
    BY <1>5, <2>1
  <2>3. \A x \in T : x <= m - 1
    BY <1>5
  <2>4. m - 1 \in U
    BY <1>5, <2>2, <2>3
  <2>5. <<m - 1, m>> \in R
    BY <1>1, <1>5, <2>2
  <2> QED
    BY <1>4, <2>4, <2>5
<1>7. \E x \in T : \A y \in T : x >= y
  BY <1>5, <1>6
<1>8. Max(T) \in T /\ \A y \in T : Max(T) >= y
  BY <1>7, Zenon DEF Max
<1> QED
  BY <1>8

\* A function on 1..n is a sequence (arrays, handleTaskStep).
LEMMA FunctionIsSeq ==
  ASSUME NEW S, NEW n \in Nat, NEW f \in [1..n -> S]
  PROVE  f \in Seq(S) /\ Len(f) = n
<1>1. f \in Seq(S)
  OBVIOUS
<1> QED
  BY <1>1, LenProperties

\* What the store and the loops hold of task k (handleTaskStep).
LEMMA HeldSlices ==
  ASSUME NEW k, NEW st, NEW lp, NEW t
  PROVE  t \in Held(k, st, lp) <=>
           \/ t = SliceOf(st[k])
           \/ \E a \in Agents, c \in Conns :
                /\ Holding(lp[a][c]) /\ lp[a][c].report.task = k
                /\ t = lp[a][c].slice
  BY DEF Held, SliceOf, Holding

\* Collecting garbage shortens arrays to the longest slice that is held.
LEMMA CollectedProperties ==
  ASSUME NEW S, NEW arrs \in Seq(Seq(S)), NEW slices \in SUBSET Slice,
         \A s \in slices : Fits(s, arrs)
  PROVE  LET new == Collected(arrs, slices)
         IN /\ new \in Seq(Seq(S))
            /\ \A p : p \in DOMAIN new <=> p \in DOMAIN arrs
            /\ \A p \in DOMAIN arrs : Len(new[p]) <= Len(arrs[p])
            /\ \A p \in DOMAIN arrs : \A i \in DOMAIN new[p] : new[p][i] = arrs[p][i]
            /\ \A s \in slices : s.len <= Len(new[s.array])
<1> DEFINE Lens(p) == {0} \cup {s.len : s \in {x \in slices : x.array = p}}
           new == Collected(arrs, slices)
<1>1. ASSUME NEW p \in DOMAIN arrs
      PROVE  /\ Max(Lens(p)) \in 0..Len(arrs[p])
             /\ \A x \in Lens(p) : x <= Max(Lens(p))
  <2>1. arrs[p] \in Seq(S) /\ Len(arrs[p]) \in Nat
    OBVIOUS
  <2>2. \A x \in Lens(p) : x \in Nat /\ x <= Len(arrs[p])
    BY <2>1 DEF Slice, Fits
  <2>3. 0 \in Lens(p)
    OBVIOUS
  <2> HIDE DEF Lens
  <2>4. Max(Lens(p)) \in Lens(p) /\ \A x \in Lens(p) : x <= Max(Lens(p))
    BY <2>1, <2>2, <2>3, MaxNatural
  <2> QED
    BY <2>1, <2>2, <2>4
<1>2. new = [p \in DOMAIN arrs |-> SubSeq(arrs[p], 1, Max(Lens(p)))]
  BY DEF Collected
<1> HIDE DEF new, Lens
<1>3. ASSUME NEW p \in DOMAIN arrs
      PROVE  /\ new[p] \in Seq(S) /\ Len(new[p]) = Max(Lens(p))
             /\ DOMAIN new[p] = 1..Max(Lens(p))
             /\ \A i \in DOMAIN new[p] : new[p][i] = arrs[p][i]
  <2>1. new[p] = SubSeq(arrs[p], 1, Max(Lens(p)))
    BY <1>2
  <2>2. arrs[p] \in Seq(S)
    OBVIOUS
  <2> DEFINE q == arrs[p]
             m == Max(Lens(p))
  <2>3. q \in Seq(S) /\ m \in 0..Len(q)
    BY <1>1, <2>2
  <2> HIDE DEF q, m
  <2>4. /\ SubSeq(q, 1, m) \in Seq(S) /\ Len(SubSeq(q, 1, m)) = m
        /\ DOMAIN SubSeq(q, 1, m) = 1..m
        /\ \A i \in 1..m : SubSeq(q, 1, m)[i] = q[i]
    BY <2>3
  <2> QED
    BY <2>1, <2>4 DEF q, m
<1>4. new \in Seq(Seq(S)) /\ DOMAIN new = DOMAIN arrs
  <2>1. DOMAIN arrs = 1..Len(arrs) /\ Len(arrs) \in Nat
    OBVIOUS
  <2>2. new \in [1..Len(arrs) -> Seq(S)]
    BY <1>2, <1>3, <2>1
  <2> QED
    BY <2>1, <2>2, FunctionIsSeq
<1>5. ASSUME NEW s \in slices
      PROVE  s.len <= Len(new[s.array])
  <2>1. s.array \in DOMAIN arrs /\ s.len \in Lens(s.array)
    BY DEF Fits, Lens
  <2> QED
    BY <2>1, <1>1, <1>3
<1> QED
  BY <1>1, <1>3, <1>4, <1>5 DEF new

\* Writing to the first free place of an array, or over a later one.
LEMMA WriteProperties ==
  ASSUME NEW S, NEW array \in Seq(S), NEW n \in 1..(Len(array) + 1), NEW e \in S
  PROVE  /\ Write(array, n, e) \in Seq(S)
         /\ Len(array) <= Len(Write(array, n, e))
         /\ n \in DOMAIN Write(array, n, e) /\ Write(array, n, e)[n] = e
         /\ \A i : i \in DOMAIN Write(array, n, e) <=> i \in DOMAIN array \/ i = n
         /\ \A i \in DOMAIN array : i # n => Write(array, n, e)[i] = array[i]
<1> DEFINE new == Write(array, n, e)
<1>0. Len(array) \in Nat /\ DOMAIN array = 1..Len(array) /\ n \in Nat
  OBVIOUS
<1>1. CASE n <= Len(array)
  <2>1. new = [array EXCEPT ![n] = e]
    BY <1>1 DEF Write
  <2> HIDE DEF new
  <2>2. n \in 1..Len(array)
    BY <1>0, <1>1
  <2>3. new \in Seq(S) /\ Len(new) = Len(array)
    BY <2>1, <2>2, ExceptSeq
  <2>4. DOMAIN new = DOMAIN array
    BY <2>1
  <2>5. new[n] = e /\ \A i \in DOMAIN array : i # n => new[i] = array[i]
    BY <1>0, <2>1, <2>2
  <2>6. DOMAIN array = DOMAIN array \cup {n}
    BY <1>0, <2>2
  <2>7. n \in DOMAIN new /\ Len(array) <= Len(new)
    BY <1>0, <2>2, <2>3, <2>4
  <2> QED
    BY <2>3, <2>4, <2>5, <2>6, <2>7 DEF new
<1>2. CASE ~(n <= Len(array))
  <2>1. n = Len(array) + 1
    BY <1>2
  <2>2. new = Append(array, e)
    BY <1>2 DEF Write
  <2> HIDE DEF new
  <2>3. /\ new \in Seq(S) /\ Len(new) = n /\ new[n] = e
        /\ \A i \in 1..Len(array) : new[i] = array[i]
    BY <2>1, <2>2, AppendProperties
  <2>4. DOMAIN new = 1..n
    BY <2>3, LenProperties
  <2>5. DOMAIN new = DOMAIN array \cup {n}
    BY <1>0, <2>1, <2>4
  <2> QED
    BY <1>0, <2>1, <2>3, <2>4, <2>5 DEF new
<1> QED
  BY <1>1, <1>2

\* Appending to a slice (handleTaskStep): where the step is then, in the array
\* of the slice or in a new one, and what is as before.
GrownArray(arrs, s) == AppendedSlice(arrs, s).array

LEMMA AppendedProperties ==
  ASSUME NEW S, NEW arrs \in Seq(Seq(S)), NEW s \in Slice, Fits(s, arrs), NEW e \in S
  PROVE  LET new == Appended(arrs, s, e)
             g == GrownArray(arrs, s)
         IN /\ new \in Seq(Seq(S)) /\ g \in Nat \ {0}
            /\ \A p : p \in DOMAIN new <=> p \in DOMAIN arrs \/ p = g
            /\ g \in DOMAIN arrs => g = s.array
            /\ \A p \in DOMAIN arrs : p # g => new[p] = arrs[p]
            /\ \A p \in DOMAIN arrs : Len(arrs[p]) <= Len(new[p])
            /\ s.len + 1 \in DOMAIN new[g] /\ new[g][s.len + 1] = e
            /\ s.len + 1 <= Len(new[g])
            /\ \A i \in 1..s.len : i \in DOMAIN new[g] /\ new[g][i] = arrs[s.array][i]
            /\ \A i \in DOMAIN new[g] : i # s.len + 1 =>
                 i \in DOMAIN arrs[s.array] /\ new[g][i] = arrs[s.array][i]
<1> DEFINE a == arrs[s.array]
           new == Appended(arrs, s, e)
           g == GrownArray(arrs, s)
<1>1. /\ s.array \in DOMAIN arrs /\ s.len \in 1..Len(a) /\ a \in Seq(S)
      /\ Len(arrs) \in Nat /\ DOMAIN arrs = 1..Len(arrs) /\ s.array \in Nat \ {0}
      /\ \A p \in DOMAIN arrs : arrs[p] \in Seq(S) /\ Len(arrs[p]) \in Nat
  BY DEF Fits, Slice
<1>2. CASE Full(s.len)
  <2> DEFINE b == Append(SubSeq(a, 1, s.len), e)
  <2>1. /\ SubSeq(a, 1, s.len) \in Seq(S) /\ Len(SubSeq(a, 1, s.len)) = s.len
        /\ \A i \in 1..s.len : SubSeq(a, 1, s.len)[i] = a[i]
    <3> HIDE DEF a
    <3> QED
      BY <1>1
  <2>2. /\ b \in Seq(S) /\ Len(b) = s.len + 1 /\ DOMAIN b = 1..(s.len + 1)
        /\ b[s.len + 1] = e /\ \A i \in 1..s.len : b[i] = a[i]
    <3> DEFINE q == SubSeq(a, 1, s.len)
    <3> HIDE DEF q, a
    <3>1. q \in Seq(S) /\ Len(q) = s.len /\ \A i \in 1..s.len : q[i] = a[i]
      BY <2>1 DEF q
    <3>2. b = Append(q, e)
      BY DEF q
    <3> QED
      BY <1>1, <3>1, <3>2
  <2>3. new = Append(arrs, b) /\ g = Len(arrs) + 1
    BY <1>2 DEF Appended, GrownArray, AppendedSlice
  <2> HIDE DEF b, new, g
  <2>4. /\ new \in Seq(Seq(S)) /\ DOMAIN new = DOMAIN arrs \cup {g} /\ new[g] = b
        /\ \A p \in DOMAIN arrs : new[p] = arrs[p]
    BY <1>1, <2>2, <2>3
  <2>5. DOMAIN a = 1..Len(a)
    BY <1>1
  <2>6. g \notin DOMAIN arrs /\ g \in Nat \ {0}
    BY <1>1, <2>3
  <2>7. \A i \in 1..s.len : i \in DOMAIN b /\ b[i] = a[i] /\ i \in DOMAIN a
    BY <1>1, <2>2, <2>5
  <2>8. \A i \in DOMAIN b : i # s.len + 1 => i \in 1..s.len
    BY <1>1, <2>2
  <2>9. s.len + 1 \in DOMAIN b /\ s.len + 1 <= Len(b) /\ b[s.len + 1] = e
    BY <1>1, <2>2
  <2>10. \A p \in DOMAIN arrs : Len(arrs[p]) <= Len(new[p])
    BY <1>1, <2>4
  <2> HIDE DEF a
  <2>11. \A i \in 1..s.len : i \in DOMAIN new[g] /\ new[g][i] = a[i]
    BY <2>4, <2>7
  <2>12. \A i \in DOMAIN new[g] : i # s.len + 1 => i \in DOMAIN a /\ new[g][i] = a[i]
    BY <2>4, <2>7, <2>8
  <2> QED
    BY <2>4, <2>6, <2>9, <2>10, <2>11, <2>12 DEF new, g, a
<1>3. CASE ~Full(s.len)
  <2> DEFINE b == Write(a, s.len + 1, e)
  <2>1. /\ b \in Seq(S) /\ Len(a) <= Len(b) /\ s.len + 1 \in DOMAIN b
        /\ b[s.len + 1] = e
        /\ \A i : i \in DOMAIN b <=> i \in DOMAIN a \/ i = s.len + 1
        /\ \A i \in DOMAIN a : i # s.len + 1 => b[i] = a[i]
    <3>1. s.len + 1 \in 1..(Len(a) + 1) /\ a \in Seq(S)
      BY <1>1
    <3> DEFINE m == s.len + 1
    <3> HIDE DEF a, m
    <3>2. m \in 1..(Len(a) + 1) /\ a \in Seq(S)
      BY <3>1 DEF m
    <3>3. Write(a, m, e) \in Seq(S) /\ Len(a) <= Len(Write(a, m, e))
      BY <3>2, WriteProperties
    <3>4. m \in DOMAIN Write(a, m, e) /\ Write(a, m, e)[m] = e
      BY <3>2, WriteProperties
    <3>5. \A i : i \in DOMAIN Write(a, m, e) <=> i \in DOMAIN a \/ i = m
      BY <3>2, WriteProperties
    <3>6. \A i \in DOMAIN a : i # m => Write(a, m, e)[i] = a[i]
      BY <3>2, WriteProperties
    <3> QED
      BY <3>3, <3>4, <3>5, <3>6 DEF m
  <2>2. new = [arrs EXCEPT ![s.array] = b] /\ g = s.array
    BY <1>3 DEF Appended, GrownArray, AppendedSlice
  <2>3. DOMAIN a = 1..Len(a) /\ DOMAIN b = 1..Len(b) /\ Len(b) \in Nat
    BY <1>1, <2>1
  <2> HIDE DEF b, new, g
  <2>4. /\ new \in Seq(Seq(S)) /\ DOMAIN new = DOMAIN arrs /\ new[g] = b
        /\ \A p \in DOMAIN arrs : p # g => new[p] = arrs[p]
    BY <1>1, <2>1, <2>2, ExceptSeq
  <2>5. g \in DOMAIN arrs /\ g \in Nat \ {0}
    BY <1>1, <2>2
  <2>6. \A i \in 1..s.len : i \in DOMAIN b /\ b[i] = a[i]
    <3> HIDE DEF a
    <3>1. \A i \in 1..s.len : i \in 1..Len(a) /\ i # s.len + 1
      BY <1>1
    <3>2. \A i \in 1..s.len : i \in DOMAIN a /\ i # s.len + 1
      BY <2>3, <3>1
    <3> QED
      BY <2>1, <3>2
  <2>7. \A i \in DOMAIN b : i # s.len + 1 => i \in DOMAIN a /\ b[i] = a[i]
    BY <2>1
  <2>8. s.len + 1 <= Len(b)
    BY <2>1, <2>3
  <2>9. \A p \in DOMAIN arrs : Len(arrs[p]) <= Len(new[p])
    BY <1>1, <2>1, <2>2, <2>4
  <2> QED
    BY <2>1, <2>2, <2>4, <2>5, <2>6, <2>7, <2>8, <2>9 DEF new, g
<1> QED
  BY <1>2, <1>3

-----------------------------------------------------------------------------
(* Types. *)

\* Nothing of a task exists before it is stored (CreateTask, policy.go).
NothingEarly ==
  \A k \in Tasks : stored[k] = NoTask =>
    /\ arrays[k] = <<>> /\ unsent[k] = {}
    /\ \A a \in Agents :
         /\ k \notin toAgent[a] /\ pipeline[a][k].left = <<>>
         /\ \A c \in Conns :
              /\ loop[a][c].at # "read" => loop[a][c].report.task # k
              /\ \A i \in DOMAIN wire[a][c] : wire[a][c][i].task # k

SlicesFit ==
  \A a \in Agents, c \in Conns :
    Holding(loop[a][c]) => Fits(loop[a][c].slice, arrays[loop[a][c].report.task])

MayReconnect == \A a \in Agents : ~up[a] => conn[a] < MaxConns

TaskShape == TaskTypeOK /\ NothingEarly /\ SlicesFit /\ MayReconnect

\* The parts of the type invariant that the steps change together.
StoredTask == [array : Nat \ {0}, len : Nat \ {0},
               status : {"running", "success", "fail"}]
StoreOK ==
  /\ stored \in [Tasks -> {NoTask} \cup StoredTask]
  /\ arrays \in [Tasks -> Seq(Seq(Step))]
StoredFits == \A k \in Tasks : stored[k] # NoTask => Fits(stored[k], arrays[k])
HandlerOK ==
  /\ job \in [Tasks -> Requests \cup {NoJob}] /\ unsent \in [Tasks -> SUBSET Agents]
ConnOK == conn \in [Agents -> Conns] /\ up \in [Agents -> BOOLEAN]
InboxOK == toAgent \in [Agents -> SUBSET Tasks]
PipelineOK ==
  pipeline \in [Agents -> [Tasks -> [left : Seq(StageNames), running : BOOLEAN]]]
WireOK == wire \in [Agents -> [Conns -> Seq(Report)]]
LoopOK == loop \in [Agents -> [Conns -> LoopState]]

LEMMA TypeParts ==
  TaskTypeOK <=> /\ StoreOK /\ StoredFits /\ HandlerOK /\ ConnOK /\ InboxOK
                 /\ PipelineOK /\ WireOK /\ LoopOK
  BY Zenon DEF TaskTypeOK, StoreOK, StoredFits, HandlerOK, ConnOK, InboxOK, PipelineOK,
               WireOK, LoopOK, StoredTask, Fits

LEMMA TypePartsNext ==
  TaskTypeOK' <=> /\ StoreOK' /\ StoredFits' /\ HandlerOK' /\ ConnOK' /\ InboxOK'
                  /\ PipelineOK' /\ WireOK' /\ LoopOK'
  BY Zenon DEF TaskTypeOK, StoreOK, StoredFits, HandlerOK, ConnOK, InboxOK, PipelineOK,
               WireOK, LoopOK, StoredTask, Fits

\* The stages of a task are known for any job (handleWSTask).
LEMMA PipelineType ==
  ASSUME HandlerOK, NEW k \in Tasks
  PROVE  Pipeline(k) \in Seq(StageNames)
<1>1. job[k].type \in TaskTypes
  BY TaskAssumption DEF HandlerOK, NoJob, TaskTypes
<1>2. Stages(job[k].type) \in Seq(StageNames)
  <2> DEFINE t == job[k].type
  <2>1. <<"diag">> \in Seq(StageNames) /\ <<"verify">> \in Seq(StageNames)
    BY DEF StageNames
  <2>2. <<"apply", "self_test", "verify">> \in Seq(StageNames)
    BY DEF StageNames
  <2>3. t = "policy_diag" \/ t = "verify" \/ t = "policy_apply"
    BY <1>1 DEF TaskTypes
  <2> HIDE DEF t
  <2>4. Stages(t) \in Seq(StageNames)
    BY <2>1, <2>2, <2>3 DEF Stages
  <2> QED
    BY <2>4 DEF t
<1>3. <<"environment_check">> \in Seq(StageNames) /\ <<"complete">> \in Seq(StageNames)
  BY DEF StageNames
<1>4. <<"environment_check">> \o Stages(job[k].type) \in Seq(StageNames)
  BY <1>2, <1>3, ConcatProperties
<1> QED
  BY <1>3, <1>4, ConcatProperties DEF Pipeline

LEMMA TaskShapeInit == TaskInit => TaskShape
<1> SUFFICES ASSUME TaskInit
             PROVE  TaskShape
  OBVIOUS
<1> USE TaskAssumption DEF TaskInit
<1>1. TaskTypeOK
  BY DEF TaskTypeOK, NoTask, NoJob, NotStarted, Idle, LoopState, Conns
<1>2. NothingEarly
  BY DEF NothingEarly, NotStarted, Idle
<1>3. SlicesFit
  BY DEF SlicesFit, Holding, Idle
<1>4. MayReconnect
  BY DEF MayReconnect
<1> QED
  BY <1>1, <1>2, <1>3, <1>4 DEF TaskShape

\* The handler's steps (CreateTask, SendTask).
LEMMA DispatchShape ==
  ASSUME TaskShape, NEW k \in Tasks, NEW request \in Requests, Dispatch(k, request)
  PROVE  TaskShape'
<1>0. /\ StoreOK /\ StoredFits /\ HandlerOK /\ ConnOK /\ InboxOK /\ PipelineOK
      /\ WireOK /\ LoopOK /\ NothingEarly /\ SlicesFit /\ MayReconnect
  BY TypeParts DEF TaskShape
<1>1. request \in [targets : SUBSET Agents, type : TaskTypes]
  BY TaskAssumption
<1> DEFINE first == <<DispatchStep>>
           new == <<first>>
           t == [array |-> 1, len |-> 1, status |-> "running"]
<1>2. first \in Seq(Step) /\ Len(first) = 1
  BY DEF DispatchStep, Step
<1>3. t \in StoredTask /\ t.array = 1 /\ t.len = 1 /\ t # NoTask
  BY DEF NoTask, StoredTask
<1>4. /\ stored[k] = NoTask /\ stored' = [stored EXCEPT ![k] = t]
      /\ arrays' = [arrays EXCEPT ![k] = new]
      /\ job' = [job EXCEPT ![k] = request]
      /\ unsent' = [unsent EXCEPT ![k] = request.targets]
      /\ UNCHANGED <<conn, up, toAgent, pipeline, wire, loop>>
  BY DEF Dispatch, agentVars
<1> HIDE DEF t, first
<1>5. new \in Seq(Seq(Step)) /\ Len(new) = 1 /\ DOMAIN new = 1..1 /\ new[1] = first
  BY <1>2
<1> HIDE DEF new
<1>6. StoreOK'
  BY <1>0, <1>3, <1>4, <1>5 DEF StoreOK
<1>7. Fits(t, new)
  <2>1. t.array \in DOMAIN new /\ new[t.array] = first
    BY <1>3, <1>5
  <2>2. t.len = 1 /\ Len(new[t.array]) = 1
    BY <1>2, <1>3, <2>1
  <2> QED
    BY <2>1, <2>2 DEF Fits
<1>8. StoredFits'
  BY <1>0, <1>4, <1>7 DEF StoredFits, StoreOK
<1>9. HandlerOK'
  BY <1>0, <1>1, <1>4 DEF HandlerOK
<1>10. ConnOK' /\ InboxOK' /\ PipelineOK' /\ WireOK' /\ LoopOK'
  BY <1>0, <1>4 DEF ConnOK, InboxOK, PipelineOK, WireOK, LoopOK
<1>11. NothingEarly'
  BY <1>0, <1>3, <1>4 DEF NothingEarly, StoreOK, HandlerOK
<1>12. SlicesFit'
  <2> SUFFICES ASSUME NEW a \in Agents, NEW c \in Conns, Holding(loop[a][c])
               PROVE  Fits(loop[a][c].slice, arrays'[loop[a][c].report.task])
    BY <1>4 DEF SlicesFit
  <2>1. loop[a][c].report.task # k
    BY <1>0, <1>4 DEF NothingEarly, Holding
  <2>2. arrays'[loop[a][c].report.task] = arrays[loop[a][c].report.task]
    BY <1>4, <2>1
  <2> QED
    BY <1>0, <2>2 DEF SlicesFit
<1>13. MayReconnect'
  BY <1>0, <1>4 DEF MayReconnect
<1> QED
  BY <1>6, <1>8, <1>9, <1>10, <1>11, <1>12, <1>13, TypePartsNext DEF TaskShape

LEMMA SendTaskShape ==
  ASSUME TaskShape, NEW k \in Tasks, NEW a \in Agents, SendTask(k, a)
  PROVE  TaskShape'
<1>0. /\ StoreOK /\ StoredFits /\ HandlerOK /\ ConnOK /\ InboxOK /\ PipelineOK
      /\ WireOK /\ LoopOK /\ NothingEarly /\ SlicesFit /\ MayReconnect
  BY TypeParts DEF TaskShape
<1>1. /\ a \in unsent[k] /\ unsent' = [unsent EXCEPT ![k] = unsent[k] \ {a}]
      /\ UNCHANGED <<stored, job, arrays, conn, up, pipeline, wire, loop>>
  BY DEF SendTask
<1>2. toAgent' = [toAgent EXCEPT ![a] = toAgent[a] \cup {k}] \/ toAgent' = toAgent
  BY DEF SendTask
<1>3. HandlerOK' /\ InboxOK'
  BY <1>0, <1>1, <1>2 DEF HandlerOK, InboxOK
<1>4. StoreOK' /\ StoredFits' /\ ConnOK' /\ PipelineOK' /\ WireOK' /\ LoopOK'
  BY <1>0, <1>1 DEF StoreOK, StoredFits, ConnOK, PipelineOK, WireOK, LoopOK
<1>5. NothingEarly'
  <2>1. stored[k] # NoTask
    BY <1>0, <1>1 DEF NothingEarly
  <2>2. \A j \in Tasks : j # k => unsent'[j] = unsent[j]
    BY <1>0, <1>1 DEF HandlerOK
  <2>3. \A j \in Tasks, b \in Agents : j # k /\ j \in toAgent'[b] => j \in toAgent[b]
    BY <1>0, <1>2 DEF InboxOK
  <2> QED
    BY <1>0, <1>1, <2>1, <2>2, <2>3 DEF NothingEarly
<1>6. SlicesFit' /\ MayReconnect'
  BY <1>0, <1>1 DEF SlicesFit, MayReconnect
<1> QED
  BY <1>3, <1>4, <1>5, <1>6, TypePartsNext DEF TaskShape

\* The agent's steps (handleWSTask).  A step that is sent is the last of a wire.
LEMMA SendWire ==
  ASSUME WireOK, ConnOK, NEW a \in Agents, NEW k \in Tasks, NEW name \in StageNames,
         NEW status \in {"running", "success", "fail"}, Send(a, k, name, status)
  PROVE  /\ WireOK'
         /\ \A b \in Agents, c \in Conns : \A i \in DOMAIN wire'[b][c] :
              \/ wire'[b][c][i].task = k
              \/ (i \in DOMAIN wire[b][c] /\ wire'[b][c][i] = wire[b][c][i])
<1> DEFINE report == [task |-> k, step |-> [name |-> name, status |-> status, node |-> a]]
           q == wire[a][conn[a]]
<1>1. report \in Report /\ report.task = k
  BY DEF Report, Step
<1>2. wire' = [wire EXCEPT ![a][conn[a]] = Append(q, report)] \/ wire' = wire
  BY DEF Send
<1>3. q \in Seq(Report) /\ conn[a] \in Conns
  BY DEF WireOK, ConnOK
<1> HIDE DEF report, q
<1>4. CASE wire' = wire
  BY <1>4 DEF WireOK
<1>5. CASE wire' = [wire EXCEPT ![a][conn[a]] = Append(q, report)]
  <2> DEFINE new == Append(q, report)
  <2>1. /\ new \in Seq(Report) /\ Len(new) = Len(q) + 1 /\ new[Len(q) + 1] = report
        /\ \A i \in 1..Len(q) : new[i] = q[i]
    BY <1>1, <1>3, AppendProperties
  <2>2. \A i \in DOMAIN new : i = Len(q) + 1 \/ i \in DOMAIN q
    BY <1>3, <2>1
  <2> HIDE DEF new
  <2>3. WireOK'
    BY <1>3, <1>5, <2>1 DEF WireOK, new
  <2>4. wire'[a][conn[a]] = new
    BY <1>3, <1>5 DEF WireOK, new
  <2>5. \A b \in Agents, c \in Conns :
          ~(b = a /\ c = conn[a]) => wire'[b][c] = wire[b][c]
    BY <1>5 DEF WireOK
  <2>6. \A i \in DOMAIN new : new[i].task = k \/ (i \in DOMAIN q /\ new[i] = q[i])
    BY <1>1, <1>3, <2>1, <2>2
  <2>7. ASSUME NEW b \in Agents, NEW c \in Conns, NEW i \in DOMAIN wire'[b][c]
        PROVE  \/ wire'[b][c][i].task = k
               \/ (i \in DOMAIN wire[b][c] /\ wire'[b][c][i] = wire[b][c][i])
    BY <2>4, <2>5, <2>6, <2>7 DEF q
  <2> QED
    BY <2>3, <2>7
<1> QED
  BY <1>2, <1>4, <1>5

LEMMA StartTaskShape ==
  ASSUME TaskShape, NEW a \in Agents, NEW k \in Tasks, StartTask(a, k)
  PROVE  TaskShape'
<1>0. /\ StoreOK /\ StoredFits /\ HandlerOK /\ ConnOK /\ InboxOK /\ PipelineOK
      /\ WireOK /\ LoopOK /\ NothingEarly /\ SlicesFit /\ MayReconnect
  BY TypeParts DEF TaskShape
<1> DEFINE p == [left |-> Pipeline(k), running |-> FALSE]
<1>1. /\ k \in toAgent[a] /\ toAgent' = [toAgent EXCEPT ![a] = toAgent[a] \ {k}]
      /\ pipeline' = [pipeline EXCEPT ![a][k] = p]
      /\ UNCHANGED <<stored, job, arrays, unsent, conn, up, wire, loop>>
  BY DEF StartTask
<1>2. p \in [left : Seq(StageNames), running : BOOLEAN]
  BY <1>0, PipelineType
<1> HIDE DEF p
<1>3. PipelineOK' /\ InboxOK'
  BY <1>0, <1>1, <1>2 DEF PipelineOK, InboxOK
<1>4. StoreOK' /\ StoredFits' /\ HandlerOK' /\ ConnOK' /\ WireOK' /\ LoopOK'
  BY <1>0, <1>1 DEF StoreOK, StoredFits, HandlerOK, ConnOK, WireOK, LoopOK
<1>5. NothingEarly'
  <2>1. stored[k] # NoTask
    BY <1>0, <1>1 DEF NothingEarly
  <2>2. \A j \in Tasks, b \in Agents : j # k =>
          (j \in toAgent'[b] => j \in toAgent[b]) /\ pipeline'[b][j] = pipeline[b][j]
    BY <1>0, <1>1 DEF InboxOK, PipelineOK
  <2> QED
    BY <1>0, <1>1, <2>1, <2>2 DEF NothingEarly
<1>6. SlicesFit' /\ MayReconnect'
  BY <1>0, <1>1 DEF SlicesFit, MayReconnect
<1> QED
  BY <1>3, <1>4, <1>5, <1>6, TypePartsNext DEF TaskShape

\* What a stage's beginning and its end have in common.
LEMMA StageShape ==
  ASSUME TaskShape, NEW a \in Agents, NEW k \in Tasks, pipeline[a][k].left # <<>>,
         NEW name \in StageNames, NEW status \in {"running", "success", "fail"},
         Send(a, k, name, status),
         NEW p \in [left : Seq(StageNames), running : BOOLEAN],
         pipeline' = [pipeline EXCEPT ![a][k] = p],
         UNCHANGED <<stored, job, arrays, unsent, conn, up, toAgent, loop>>
  PROVE  TaskShape'
<1>0. /\ StoreOK /\ StoredFits /\ HandlerOK /\ ConnOK /\ InboxOK /\ PipelineOK
      /\ WireOK /\ LoopOK /\ NothingEarly /\ SlicesFit /\ MayReconnect
  BY TypeParts DEF TaskShape
<1>1. /\ WireOK'
      /\ \A b \in Agents, c \in Conns : \A i \in DOMAIN wire'[b][c] :
           \/ wire'[b][c][i].task = k
           \/ (i \in DOMAIN wire[b][c] /\ wire'[b][c][i] = wire[b][c][i])
  BY <1>0, SendWire
<1>2. PipelineOK'
  BY <1>0 DEF PipelineOK
<1>3. StoreOK' /\ StoredFits' /\ HandlerOK' /\ ConnOK' /\ InboxOK' /\ LoopOK'
  BY <1>0 DEF StoreOK, StoredFits, HandlerOK, ConnOK, InboxOK, LoopOK
<1>4. NothingEarly'
  <2>1. stored[k] # NoTask
    BY <1>0 DEF NothingEarly
  <2>2. \A j \in Tasks, b \in Agents : j # k => pipeline'[b][j] = pipeline[b][j]
    BY <1>0 DEF PipelineOK
  <2> QED
    BY <1>0, <1>1, <2>1, <2>2 DEF NothingEarly
<1>5. SlicesFit' /\ MayReconnect'
  BY <1>0 DEF SlicesFit, MayReconnect
<1> QED
  BY <1>1, <1>2, <1>3, <1>4, <1>5, TypePartsNext DEF TaskShape

LEMMA BeginStageShape ==
  ASSUME TaskShape, NEW a \in Agents, NEW k \in Tasks, BeginStage(a, k)
  PROVE  TaskShape'
<1>0. PipelineOK
  BY TypeParts DEF TaskShape
<1> DEFINE p == pipeline[a][k]
           new == [left |-> p.left, running |-> TRUE]
<1>1. p \in [left : Seq(StageNames), running : BOOLEAN]
  BY <1>0 DEF PipelineOK
<1>2. /\ p.left # <<>> /\ Send(a, k, Head(p.left), "running")
      /\ pipeline' = [pipeline EXCEPT ![a][k] = new]
      /\ UNCHANGED <<stored, job, arrays, unsent, conn, up, toAgent, loop>>
  BY DEF BeginStage
<1>3. Head(p.left) \in StageNames
  BY <1>1, <1>2
<1>4. new \in [left : Seq(StageNames), running : BOOLEAN]
  BY <1>1
<1> HIDE DEF new
<1> QED
  BY <1>2, <1>3, <1>4, StageShape

LEMMA EndStageShape ==
  ASSUME TaskShape, NEW a \in Agents, NEW k \in Tasks, EndStage(a, k)
  PROVE  TaskShape'
<1>0. PipelineOK
  BY TypeParts DEF TaskShape
<1> DEFINE p == pipeline[a][k]
<1>1. p \in [left : Seq(StageNames), running : BOOLEAN] /\ p.left # <<>>
  BY <1>0 DEF PipelineOK, EndStage
<1>2. PICK status \in {"success", "fail"} :
        /\ Send(a, k, Head(p.left), status)
        /\ pipeline' = [pipeline EXCEPT ![a][k] =
             [left |-> AfterStage(p.left, status), running |-> FALSE]]
        /\ UNCHANGED <<stored, job, arrays, unsent, conn, up, toAgent, loop>>
  BY DEF EndStage
<1> DEFINE new == [left |-> AfterStage(p.left, status), running |-> FALSE]
<1>3. pipeline' = [pipeline EXCEPT ![a][k] = new]
  BY <1>2
<1>4. Head(p.left) \in StageNames
  BY <1>1
<1>5. new \in [left : Seq(StageNames), running : BOOLEAN]
  BY <1>1 DEF AfterStage
<1>6. status \in {"running", "success", "fail"}
  OBVIOUS
<1> DEFINE name == Head(p.left)
<1>7. /\ Send(a, k, name, status) /\ name \in StageNames /\ pipeline[a][k].left # <<>>
      /\ UNCHANGED <<stored, job, arrays, unsent, conn, up, toAgent, loop>>
  BY <1>1, <1>2, <1>4
<1> HIDE DEF new, name, p
<1> QED
  BY <1>3, <1>5, <1>6, <1>7, StageShape

\* A connection that ends takes unread tasks and a part of the steps with it.
LEMMA DisconnectShape ==
  ASSUME TaskShape, NEW a \in Agents, Disconnect(a),
         pipeline' = pipeline \/ pipeline' = [pipeline EXCEPT ![a] = [k \in Tasks |-> NotStarted]]
  PROVE  TaskShape'
<1>0. /\ StoreOK /\ StoredFits /\ HandlerOK /\ ConnOK /\ InboxOK /\ PipelineOK
      /\ WireOK /\ LoopOK /\ NothingEarly /\ SlicesFit /\ MayReconnect
  BY TypeParts DEF TaskShape
<1> DEFINE q == wire[a][conn[a]]
<1>1. PICK n \in 0..Len(q) : wire' = [wire EXCEPT ![a][conn[a]] = SubSeq(q, 1, n)]
  BY DEF Disconnect
<1>2. /\ up[a] /\ conn[a] < MaxConns /\ up' = [up EXCEPT ![a] = FALSE]
      /\ toAgent' = [toAgent EXCEPT ![a] = {}]
      /\ UNCHANGED <<stored, job, arrays, unsent, conn, loop>>
  BY DEF Disconnect
<1>3. q \in Seq(Report) /\ conn[a] \in Conns
  BY <1>0 DEF WireOK, ConnOK
<1> HIDE DEF q
<1> DEFINE new == SubSeq(q, 1, n)
<1>4. /\ new \in Seq(Report) /\ DOMAIN new = 1..n
      /\ \A i \in DOMAIN new : i \in DOMAIN q /\ new[i] = q[i]
  BY <1>3
<1> HIDE DEF new
<1>5. WireOK'
  BY <1>0, <1>1, <1>3, <1>4 DEF WireOK, new
<1>6. ASSUME NEW b \in Agents, NEW c \in Conns, NEW i \in DOMAIN wire'[b][c]
      PROVE  i \in DOMAIN wire[b][c] /\ wire'[b][c][i] = wire[b][c][i]
  <2>1. CASE b = a /\ c = conn[a]
    <3>1. wire'[b][c] = new
      BY <1>0, <1>1, <2>1 DEF WireOK, new
    <3> QED
      BY <1>4, <1>6, <2>1, <3>1 DEF q
  <2>2. CASE ~(b = a /\ c = conn[a])
    <3>1. wire'[b][c] = wire[b][c]
      BY <1>0, <1>1, <2>2 DEF WireOK
    <3> QED
      BY <1>6, <3>1
  <2> QED
    BY <2>1, <2>2
<1> DEFINE none == [k \in Tasks |-> NotStarted]
<1>7. /\ PipelineOK'
      /\ \A j \in Tasks, b \in Agents :
           pipeline'[b][j] = pipeline[b][j] \/ pipeline'[b][j] = NotStarted
  <2>1. NotStarted \in [left : Seq(StageNames), running : BOOLEAN]
    BY DEF NotStarted
  <2>2. /\ none \in [Tasks -> [left : Seq(StageNames), running : BOOLEAN]]
        /\ \A j \in Tasks : none[j] = NotStarted
    BY <2>1
  <2> HIDE DEF none
  <2>3. CASE pipeline' = [pipeline EXCEPT ![a] = none]
    BY <1>0, <2>2, <2>3 DEF PipelineOK
  <2>4. CASE pipeline' = pipeline
    BY <1>0, <2>4 DEF PipelineOK
  <2> QED
    BY <2>3, <2>4 DEF none
<1>8. ConnOK' /\ InboxOK'
  BY <1>0, <1>2 DEF ConnOK, InboxOK
<1>9. StoreOK' /\ StoredFits' /\ HandlerOK' /\ LoopOK'
  BY <1>0, <1>2 DEF StoreOK, StoredFits, HandlerOK, LoopOK
<1>10. NothingEarly'
  <2>1. \A j \in Tasks, b \in Agents :
          /\ j \in toAgent'[b] => j \in toAgent[b]
          /\ pipeline[b][j].left = <<>> => pipeline'[b][j].left = <<>>
    BY <1>0, <1>2, <1>7 DEF InboxOK, NotStarted
  <2> QED
    BY <1>0, <1>2, <1>6, <2>1 DEF NothingEarly
<1>11. SlicesFit'
  BY <1>0, <1>2 DEF SlicesFit
<1>12. MayReconnect'
  BY <1>0, <1>2 DEF MayReconnect, ConnOK
<1> QED
  BY <1>5, <1>7, <1>8, <1>9, <1>10, <1>11, <1>12, TypePartsNext DEF TaskShape

LEMMA ReconnectShape ==
  ASSUME TaskShape, NEW a \in Agents, Reconnect(a)
  PROVE  TaskShape'
<1>0. /\ StoreOK /\ StoredFits /\ HandlerOK /\ ConnOK /\ InboxOK /\ PipelineOK
      /\ WireOK /\ LoopOK /\ NothingEarly /\ SlicesFit /\ MayReconnect
  BY TypeParts DEF TaskShape
<1>1. /\ ~up[a] /\ up' = [up EXCEPT ![a] = TRUE] /\ conn' = [conn EXCEPT ![a] = conn[a] + 1]
      /\ wire' = [wire EXCEPT ![a][conn[a]] = <<>>]
      /\ UNCHANGED <<stored, job, arrays, unsent, toAgent, pipeline, loop>>
  BY DEF Reconnect
<1>2. conn[a] + 1 \in Conns
  BY <1>0, <1>1, TaskAssumption DEF ConnOK, MayReconnect, Conns
<1>3. ConnOK'
  BY <1>0, <1>1, <1>2 DEF ConnOK
<1>4. conn'[a] = conn[a] + 1
  BY <1>0, <1>1 DEF ConnOK
<1>5. WireOK' /\ \A b \in Agents, c \in Conns :
                   wire'[b][c] = wire[b][c] \/ wire'[b][c] = <<>>
  <2> DEFINE empty == <<>>
  <2>1. empty \in Seq(Report) /\ conn[a] \in Conns
    BY <1>0 DEF ConnOK
  <2>2. wire' = [wire EXCEPT ![a][conn[a]] = empty]
    BY <1>1
  <2> HIDE DEF empty
  <2>3. WireOK'
    BY <1>0, <2>1, <2>2 DEF WireOK
  <2>4. \A b \in Agents, c \in Conns : wire'[b][c] = wire[b][c] \/ wire'[b][c] = empty
    BY <1>0, <2>1, <2>2 DEF WireOK
  <2> QED
    BY <2>3, <2>4 DEF empty
<1>6. /\ StoreOK' /\ StoredFits' /\ HandlerOK' /\ LoopOK' /\ InboxOK' /\ PipelineOK'
  BY <1>0, <1>1 DEF StoreOK, StoredFits, HandlerOK, LoopOK, InboxOK, PipelineOK
<1>7. NothingEarly'
  <2>1. \A b \in Agents, c \in Conns : \A i \in DOMAIN wire'[b][c] :
          i \in DOMAIN wire[b][c] /\ wire'[b][c][i] = wire[b][c][i]
    <3>1. DOMAIN <<>> = {}
      OBVIOUS
    <3> QED
      BY <1>5, <3>1
  <2> QED
    BY <1>0, <1>1, <2>1 DEF NothingEarly
<1>8. SlicesFit' /\ MayReconnect'
  BY <1>0, <1>1 DEF SlicesFit, MayReconnect, ConnOK
<1> QED
  BY <1>3, <1>5, <1>6, <1>7, <1>8, TypePartsNext DEF TaskShape

\* The read loops' steps (readLoop, handleTaskStep).
LEMMA HubReadShape ==
  ASSUME TaskShape, NEW a \in Agents, NEW c \in Conns, HubRead(a, c)
  PROVE  TaskShape'
<1>0. /\ StoreOK /\ StoredFits /\ HandlerOK /\ ConnOK /\ InboxOK /\ PipelineOK
      /\ WireOK /\ LoopOK /\ NothingEarly /\ SlicesFit /\ MayReconnect
  BY TypeParts DEF TaskShape
<1> DEFINE q == wire[a][c]
           r == Head(q)
           new == [at |-> "get", report |-> r]
           rest == Tail(q)
<1>1. /\ loop[a][c] = Idle /\ q # <<>> /\ loop' = [loop EXCEPT ![a][c] = new]
      /\ wire' = [wire EXCEPT ![a][c] = rest]
      /\ UNCHANGED <<stored, job, arrays, unsent, conn, up, toAgent, pipeline>>
  BY DEF HubRead, Received
<1>2. q \in Seq(Report)
  BY <1>0 DEF WireOK
<1>3. /\ r \in Report /\ rest \in Seq(Report) /\ 1 \in DOMAIN q /\ r = q[1]
      /\ \A i \in DOMAIN rest : i + 1 \in DOMAIN q /\ rest[i] = q[i + 1]
  <2> HIDE DEF q
  <2> QED
    BY <1>1, <1>2
<1>4. new \in LoopState /\ new.at = "get" /\ new.report = r
  BY <1>3 DEF LoopState
<1> HIDE DEF new, rest, r
<1>5. LoopOK' /\ WireOK'
  BY <1>0, <1>1, <1>3, <1>4 DEF LoopOK, WireOK
<1>6. StoreOK' /\ StoredFits' /\ HandlerOK' /\ ConnOK' /\ InboxOK' /\ PipelineOK'
  BY <1>0, <1>1 DEF StoreOK, StoredFits, HandlerOK, ConnOK, InboxOK, PipelineOK
<1>7. /\ loop'[a][c] = new /\ wire'[a][c] = rest
      /\ \A b \in Agents, d \in Conns : ~(b = a /\ d = c) =>
           loop'[b][d] = loop[b][d] /\ wire'[b][d] = wire[b][d]
  BY <1>0, <1>1 DEF LoopOK, WireOK
<1>8. stored[r.task] # NoTask /\ r.task \in Tasks
  BY <1>0, <1>3 DEF NothingEarly, Report
<1>9. NothingEarly'
  <2>1. \A i \in DOMAIN rest : stored[rest[i].task] # NoTask
    <3>1. \A i \in DOMAIN q : q[i].task \in Tasks
      <4> HIDE DEF q
      <4>1. \A i \in DOMAIN q : q[i] \in Report
        BY <1>2
      <4> QED
        BY <4>1 DEF Report
    <3>2. \A i \in DOMAIN q : stored[q[i].task] # NoTask
      BY <1>0, <3>1 DEF NothingEarly
    <3> QED
      BY <1>3, <3>2
  <2> SUFFICES ASSUME NEW k \in Tasks, stored[k] = NoTask, NEW b \in Agents, NEW d \in Conns
               PROVE  /\ loop'[b][d].at # "read" => loop'[b][d].report.task # k
                      /\ \A i \in DOMAIN wire'[b][d] : wire'[b][d][i].task # k
    BY <1>0, <1>1 DEF NothingEarly
  <2>2. CASE b = a /\ d = c
    BY <1>4, <1>7, <1>8, <2>1, <2>2
  <2>3. CASE ~(b = a /\ d = c)
    BY <1>0, <1>7, <2>3 DEF NothingEarly
  <2> QED
    BY <2>2, <2>3
<1>10. SlicesFit'
  BY <1>0, <1>1, <1>4, <1>7 DEF SlicesFit, Holding
<1>11. MayReconnect'
  BY <1>0, <1>1 DEF MayReconnect
<1> QED
  BY <1>5, <1>6, <1>9, <1>10, <1>11, TypePartsNext DEF TaskShape

\* What read loops that are not idle have in hand.
LEMMA LoopParts ==
  ASSUME LoopOK, NEW a \in Agents, NEW c \in Conns
  PROVE  LET l == loop[a][c]
         IN /\ l = Idle \/ l.at \in {"get", "append", "save"}
            /\ l.at # "read" => l.report \in Report /\ l.report.task \in Tasks
            /\ Holding(l) => l.slice \in Slice
  BY DEF LoopOK, LoopState, Idle, Holding, Report

LEMMA HubGetShape ==
  ASSUME TaskShape, NEW a \in Agents, NEW c \in Conns, HubGet(a, c)
  PROVE  TaskShape'
<1>0. /\ StoreOK /\ StoredFits /\ HandlerOK /\ ConnOK /\ InboxOK /\ PipelineOK
      /\ WireOK /\ LoopOK /\ NothingEarly /\ SlicesFit /\ MayReconnect
  BY TypeParts DEF TaskShape
<1> DEFINE r == loop[a][c].report
           k == r.task
           s == SliceOf(stored[k])
           new == [at |-> "append", report |-> r, slice |-> s]
<1>1. /\ loop[a][c].at = "get" /\ loop' = [loop EXCEPT ![a][c] = new]
      /\ UNCHANGED <<stored, job, arrays, unsent, conn, up, toAgent, pipeline, wire>>
  BY DEF HubGet, SliceOf, agentVars
<1>2. r \in Report /\ k \in Tasks
  BY <1>0, <1>1, LoopParts
<1>3. stored[k] # NoTask
  BY <1>0, <1>1, <1>2 DEF NothingEarly
<1>4. stored[k] \in StoredTask /\ Fits(stored[k], arrays[k])
  BY <1>0, <1>2, <1>3 DEF StoreOK, StoredFits
<1>5. s \in Slice /\ Fits(s, arrays[k])
  BY <1>4 DEF SliceOf, StoredTask, Slice, Fits
<1> HIDE DEF s
<1>6. new \in LoopState /\ new.at = "append" /\ new.report = r /\ new.slice = s
  BY <1>2, <1>5 DEF LoopState
<1> HIDE DEF new, r
<1>7. LoopOK'
  BY <1>0, <1>1, <1>6 DEF LoopOK
<1>8. /\ StoreOK' /\ StoredFits' /\ HandlerOK' /\ ConnOK' /\ InboxOK' /\ PipelineOK'
      /\ WireOK'
  BY <1>0, <1>1 DEF StoreOK, StoredFits, HandlerOK, ConnOK, InboxOK, PipelineOK, WireOK
<1>9. /\ loop'[a][c] = new
      /\ \A b \in Agents, d \in Conns : ~(b = a /\ d = c) => loop'[b][d] = loop[b][d]
  BY <1>0, <1>1 DEF LoopOK
<1>10. NothingEarly'
  BY <1>0, <1>1, <1>3, <1>6, <1>9 DEF NothingEarly
<1>11. SlicesFit'
  BY <1>0, <1>1, <1>5, <1>6, <1>9 DEF SlicesFit
<1>12. MayReconnect'
  BY <1>0, <1>1 DEF MayReconnect
<1> QED
  BY <1>7, <1>8, <1>10, <1>11, <1>12, TypePartsNext DEF TaskShape

LEMMA HubAppendShape ==
  ASSUME TaskShape, NEW a \in Agents, NEW c \in Conns, HubAppend(a, c)
  PROVE  TaskShape'
<1>0. /\ StoreOK /\ StoredFits /\ HandlerOK /\ ConnOK /\ InboxOK /\ PipelineOK
      /\ WireOK /\ LoopOK /\ NothingEarly /\ SlicesFit /\ MayReconnect
  BY TypeParts DEF TaskShape
<1> DEFINE r == loop[a][c].report
           k == r.task
           s == loop[a][c].slice
           g == GrownArray(arrays[k], s)
           grown == AppendedSlice(arrays[k], s)
           new == [at |-> "save", report |-> r, slice |-> grown]
           arrs == Appended(arrays[k], s, r.step)
<1>1. /\ loop[a][c].at = "append" /\ loop' = [loop EXCEPT ![a][c] = new]
      /\ arrays' = [arrays EXCEPT ![k] = arrs]
      /\ UNCHANGED <<stored, job, unsent, conn, up, toAgent, pipeline, wire>>
  BY DEF HubAppend, agentVars
<1>2. r \in Report /\ k \in Tasks /\ r.step \in Step /\ s \in Slice
  BY <1>0, <1>1, LoopParts DEF Holding, Report
<1>3. stored[k] # NoTask
  BY <1>0, <1>1, <1>2 DEF NothingEarly
<1>4. Fits(s, arrays[k]) /\ arrays[k] \in Seq(Seq(Step))
  BY <1>0, <1>1, <1>2 DEF SlicesFit, StoreOK, Holding
<1> HIDE DEF s, r, g, arrs
<1>5. /\ arrs \in Seq(Seq(Step)) /\ g \in Nat \ {0}
      /\ \A p : p \in DOMAIN arrs <=> p \in DOMAIN arrays[k] \/ p = g
      /\ \A p \in DOMAIN arrays[k] : Len(arrays[k][p]) <= Len(arrs[p])
      /\ s.len + 1 <= Len(arrs[g])
  <2> DEFINE old == arrays[k]
             e == r.step
  <2> HIDE DEF old, e, k
  <2>1. old \in Seq(Seq(Step)) /\ e \in Step /\ Fits(s, old) /\ s \in Slice
    BY <1>2, <1>4 DEF old, e
  <2>2. arrs = Appended(old, s, e) /\ g = GrownArray(old, s)
    BY DEF arrs, g, old, e, k
  <2>3. Appended(old, s, e) \in Seq(Seq(Step)) /\ GrownArray(old, s) \in Nat \ {0}
    BY <2>1, AppendedProperties
  <2>4. \A p : p \in DOMAIN Appended(old, s, e) <=>
                 p \in DOMAIN old \/ p = GrownArray(old, s)
    BY <2>1, AppendedProperties
  <2>5. \A p \in DOMAIN old : Len(old[p]) <= Len(Appended(old, s, e)[p])
    BY <2>1, AppendedProperties
  <2>6. s.len + 1 <= Len(Appended(old, s, e)[GrownArray(old, s)])
    BY <2>1, AppendedProperties
  <2> QED
    BY <2>2, <2>3, <2>4, <2>5, <2>6 DEF old, k
<1>6. grown \in Slice /\ grown.array = g /\ grown.len = s.len + 1
  <2>1. g = grown.array /\ grown = [array |-> g, len |-> s.len + 1]
    BY DEF g, GrownArray, AppendedSlice
  <2> QED
    BY <1>2, <1>5, <2>1 DEF Slice
<1> HIDE DEF grown
<1>7. new \in LoopState /\ new.at = "save" /\ new.report = r /\ new.slice = grown
  BY <1>2, <1>6 DEF LoopState
<1> HIDE DEF new
<1>8. LoopOK'
  BY <1>0, <1>1, <1>7 DEF LoopOK
<1>9. StoreOK' /\ HandlerOK' /\ ConnOK' /\ InboxOK' /\ PipelineOK' /\ WireOK'
  BY <1>0, <1>1, <1>5 DEF StoreOK, HandlerOK, ConnOK, InboxOK, PipelineOK, WireOK
<1>10. /\ loop'[a][c] = new
       /\ \A b \in Agents, d \in Conns : ~(b = a /\ d = c) => loop'[b][d] = loop[b][d]
  BY <1>0, <1>1 DEF LoopOK
<1>11. arrays'[k] = arrs /\ \A j \in Tasks : j # k => arrays'[j] = arrays[j]
  BY <1>0, <1>1, <1>2 DEF StoreOK
<1>12. NothingEarly'
  BY <1>0, <1>1, <1>3, <1>7, <1>10, <1>11 DEF NothingEarly
\* A slice that fits an array of k still does.
<1>13. ASSUME NEW t, Fits(t, arrays[k]), t.len \in Nat
       PROVE  Fits(t, arrs)
  <2>1. t.array \in DOMAIN arrays[k] /\ t.len <= Len(arrays[k][t.array])
    BY <1>13 DEF Fits
  <2>2. t.array \in DOMAIN arrs /\ Len(arrays[k][t.array]) <= Len(arrs[t.array])
    BY <1>5, <2>1
  <2>3. Len(arrays[k][t.array]) \in Nat /\ Len(arrs[t.array]) \in Nat
    BY <1>4, <1>5, <2>1, <2>2
  <2> QED
    BY <1>13, <2>1, <2>2, <2>3 DEF Fits
<1>14. Fits(grown, arrs)
  BY <1>5, <1>6 DEF Fits
<1>15. StoredFits'
  <2> SUFFICES ASSUME NEW j \in Tasks, stored[j] # NoTask
               PROVE  Fits(stored[j], arrays'[j])
    BY <1>1 DEF StoredFits
  <2>1. stored[j].len \in Nat
    BY <1>0 DEF StoreOK, StoredTask
  <2> QED
    BY <1>0, <1>11, <1>13, <2>1 DEF StoredFits
<1>16. SlicesFit'
  <2> SUFFICES ASSUME NEW b \in Agents, NEW d \in Conns, Holding(loop'[b][d])
               PROVE  Fits(loop'[b][d].slice, arrays'[loop'[b][d].report.task])
    BY DEF SlicesFit
  <2>1. CASE b = a /\ d = c
    BY <1>7, <1>10, <1>11, <1>14, <2>1
  <2>2. CASE ~(b = a /\ d = c)
    <3>1. loop'[b][d] = loop[b][d] /\ Holding(loop[b][d])
      BY <1>10, <2>2
    <3>2. loop[b][d].report.task \in Tasks /\ loop[b][d].slice \in Slice
      BY <1>0, <3>1, LoopParts DEF Holding
    <3>3. loop[b][d].slice.len \in Nat
      BY <3>2 DEF Slice
    <3>4. Fits(loop[b][d].slice, arrays[loop[b][d].report.task])
      BY <1>0, <3>1 DEF SlicesFit
    <3> QED
      BY <1>11, <1>13, <3>1, <3>2, <3>3, <3>4
  <2> QED
    BY <2>1, <2>2
<1>17. MayReconnect'
  BY <1>0, <1>1 DEF MayReconnect
<1> QED
  BY <1>8, <1>9, <1>12, <1>15, <1>16, <1>17, TypePartsNext DEF TaskShape

\* The slices held after a save were held before it, and all of them fit.
LEMMA SavedSlices ==
  ASSUME TaskShape, NEW a \in Agents, NEW c \in Conns, HubSave(a, c)
  PROVE  LET k == loop[a][c].report.task
         IN /\ k \in Tasks /\ stored[k] # NoTask
            /\ Held(k, stored', loop') \subseteq Held(k, stored, loop)
            /\ \A t \in Held(k, stored, loop) : t \in Slice /\ Fits(t, arrays[k])
            /\ SliceOf(stored'[k]) = loop[a][c].slice
            /\ loop[a][c].slice \in Held(k, stored', loop')
<1>0. StoreOK /\ StoredFits /\ LoopOK /\ NothingEarly /\ SlicesFit
  BY TypeParts DEF TaskShape
<1> DEFINE r == loop[a][c].report
           k == r.task
           s == loop[a][c].slice
           t == [array |-> s.array, len |-> s.len, status |-> r.step.status]
<1>1. /\ loop[a][c].at = "save" /\ loop' = [loop EXCEPT ![a][c] = Idle]
      /\ stored' = [stored EXCEPT ![k] = t]
  BY DEF HubSave, Kept, StatusAfter
<1>2. r \in Report /\ k \in Tasks /\ s \in Slice
  BY <1>0, <1>1, LoopParts DEF Holding
<1>3. stored[k] # NoTask
  BY <1>0, <1>1, <1>2 DEF NothingEarly
<1>4. SliceOf(t) = s
  BY <1>2 DEF SliceOf, Slice
<1> HIDE DEF t, s, r
<1>5. SliceOf(stored'[k]) = s
  BY <1>0, <1>1, <1>2, <1>4 DEF StoreOK
<1>6. \A b \in Agents, d \in Conns :
        loop'[b][d] = loop[b][d] \/ loop'[b][d] = Idle
  BY <1>0, <1>1 DEF LoopOK
<1>7. ~Holding(Idle)
  BY DEF Holding, Idle
<1>8. s \in Held(k, stored, loop)
  BY <1>1, HeldSlices DEF Holding, s, r
<1>9. ASSUME NEW x \in Held(k, stored', loop')
      PROVE  x \in Held(k, stored, loop)
  <2>1. \/ x = SliceOf(stored'[k])
        \/ \E b \in Agents, d \in Conns :
             Holding(loop'[b][d]) /\ loop'[b][d].report.task = k /\ x = loop'[b][d].slice
    <3> HIDE DEF k
    <3> QED
      BY <1>9, HeldSlices
  <2>2. CASE x = SliceOf(stored'[k])
    BY <1>5, <1>8, <2>2
  <2>3. ASSUME NEW b \in Agents, NEW d \in Conns, Holding(loop'[b][d]),
               loop'[b][d].report.task = k, x = loop'[b][d].slice
        PROVE  x \in Held(k, stored, loop)
    <3>1. loop'[b][d] = loop[b][d]
      BY <1>6, <1>7, <2>3
    <3> QED
      BY <2>3, <3>1, HeldSlices
  <2> QED
    BY <2>1, <2>2, <2>3
<1>10. ASSUME NEW x \in Held(k, stored, loop)
       PROVE  x \in Slice /\ Fits(x, arrays[k])
  <2>1. \/ x = SliceOf(stored[k])
        \/ \E b \in Agents, d \in Conns :
             Holding(loop[b][d]) /\ loop[b][d].report.task = k /\ x = loop[b][d].slice
    <3> HIDE DEF k
    <3> QED
      BY <1>10, HeldSlices
  <2>2. CASE x = SliceOf(stored[k])
    <3>1. stored[k] \in StoredTask /\ Fits(stored[k], arrays[k])
      BY <1>0, <1>2, <1>3 DEF StoreOK, StoredFits
    <3> QED
      BY <2>2, <3>1 DEF SliceOf, StoredTask, Slice, Fits
  <2>3. ASSUME NEW b \in Agents, NEW d \in Conns, Holding(loop[b][d]),
               loop[b][d].report.task = k, x = loop[b][d].slice
        PROVE  x \in Slice /\ Fits(x, arrays[k])
    BY <1>0, <2>3, LoopParts DEF SlicesFit
  <2> QED
    BY <2>1, <2>2, <2>3
<1>11. s \in Held(k, stored', loop')
  BY <1>5, HeldSlices
<1> QED
  BY <1>2, <1>3, <1>5, <1>9, <1>10, <1>11 DEF s, r

\* What a save leaves of the arrays of its task.
LEMMA SavedArrays ==
  ASSUME TaskShape, NEW a \in Agents, NEW c \in Conns, HubSave(a, c)
  PROVE  LET k == loop[a][c].report.task
         IN /\ arrays'[k] \in Seq(Seq(Step))
            /\ \A j \in Tasks : j # k => arrays'[j] = arrays[j]
            /\ \A p : p \in DOMAIN arrays'[k] <=> p \in DOMAIN arrays[k]
            /\ \A p \in DOMAIN arrays[k] :
                 /\ Len(arrays'[k][p]) <= Len(arrays[k][p])
                 /\ \A i \in DOMAIN arrays'[k][p] : arrays'[k][p][i] = arrays[k][p][i]
            /\ \A t \in Held(k, stored', loop') : Fits(t, arrays'[k])
<1> DEFINE k == loop[a][c].report.task
           held == Held(k, stored', loop')
           old == arrays[k]
<1>0. StoreOK
  BY TypeParts DEF TaskShape
<1>1. /\ k \in Tasks /\ held \subseteq Slice
      /\ \A t \in held : Fits(t, old)
  BY SavedSlices
<1>2. arrays' = [arrays EXCEPT ![k] = Collected(old, held)]
  BY DEF HubSave
<1>3. old \in Seq(Seq(Step))
  BY <1>0, <1>1 DEF StoreOK
<1> HIDE DEF held, old, k
<1> DEFINE new == Collected(old, held)
<1>4. new \in Seq(Seq(Step)) /\ \A p : p \in DOMAIN new <=> p \in DOMAIN old
  BY <1>1, <1>3, CollectedProperties
<1>5. \A p \in DOMAIN old : /\ Len(new[p]) <= Len(old[p])
                            /\ \A i \in DOMAIN new[p] : new[p][i] = old[p][i]
  <2>1. \A p \in DOMAIN old : Len(new[p]) <= Len(old[p])
    BY <1>1, <1>3, CollectedProperties
  <2>2. \A p \in DOMAIN old : \A i \in DOMAIN new[p] : new[p][i] = old[p][i]
    BY <1>1, <1>3, CollectedProperties
  <2> QED
    BY <2>1, <2>2
<1>6. \A t \in held : t.len <= Len(new[t.array])
  BY <1>1, <1>3, CollectedProperties
<1> HIDE DEF new
<1>7. \A t \in held : Fits(t, new)
  BY <1>1, <1>4, <1>6 DEF Fits
<1>8. arrays'[k] = new /\ \A j \in Tasks : j # k => arrays'[j] = arrays[j]
  BY <1>0, <1>1, <1>2 DEF StoreOK, new
<1> QED
  BY <1>4, <1>5, <1>7, <1>8 DEF held, old, k

LEMMA HubSaveShape ==
  ASSUME TaskShape, NEW a \in Agents, NEW c \in Conns, HubSave(a, c)
  PROVE  TaskShape'
<1>0. /\ StoreOK /\ StoredFits /\ HandlerOK /\ ConnOK /\ InboxOK /\ PipelineOK
      /\ WireOK /\ LoopOK /\ NothingEarly /\ SlicesFit /\ MayReconnect
  BY TypeParts DEF TaskShape
<1> DEFINE r == loop[a][c].report
           k == r.task
           s == loop[a][c].slice
           t == [array |-> s.array, len |-> s.len, status |-> r.step.status]
           new == Collected(arrays[k], Held(k, stored', loop'))
<1>1. /\ loop[a][c].at = "save" /\ loop' = [loop EXCEPT ![a][c] = Idle]
      /\ stored' = [stored EXCEPT ![k] = t]
      /\ arrays' = [arrays EXCEPT ![k] = new]
      /\ UNCHANGED <<job, unsent, conn, up, toAgent, pipeline, wire>>
  BY DEF HubSave, Kept, StatusAfter, agentVars
<1>2. r \in Report /\ k \in Tasks /\ s \in Slice /\ r.step \in Step
  BY <1>0, <1>1, LoopParts DEF Holding, Report
<1>3. t \in StoredTask /\ t # NoTask
  BY <1>2 DEF StoredTask, Slice, Step, NoTask
<1>4. stored[k] # NoTask
  BY SavedSlices
<1>5. /\ arrays'[k] \in Seq(Seq(Step)) /\ \A j \in Tasks : j # k => arrays'[j] = arrays[j]
      /\ \A x \in Held(k, stored', loop') : Fits(x, arrays'[k])
  BY SavedArrays
<1> HIDE DEF t, s, r, new
<1>6. stored'[k] = t /\ \A j \in Tasks : j # k => stored'[j] = stored[j]
  BY <1>0, <1>1, <1>2 DEF StoreOK
<1>7. StoreOK'
  <2>1. new \in Seq(Seq(Step))
    BY <1>0, <1>1, <1>2, <1>5 DEF StoreOK
  <2> QED
    BY <1>0, <1>1, <1>2, <1>3, <2>1 DEF StoreOK
<1>8. /\ \A b \in Agents, d \in Conns : ~(b = a /\ d = c) => loop'[b][d] = loop[b][d]
      /\ loop'[a][c] = Idle
  BY <1>0, <1>1 DEF LoopOK
<1>9. LoopOK'
  BY <1>0, <1>1 DEF LoopOK, LoopState
<1>10. HandlerOK' /\ ConnOK' /\ InboxOK' /\ PipelineOK' /\ WireOK'
  BY <1>0, <1>1 DEF HandlerOK, ConnOK, InboxOK, PipelineOK, WireOK
<1>11. StoredFits'
  <2>1. Fits(stored'[k], arrays'[k])
    <3>1. SliceOf(stored'[k]) \in Held(k, stored', loop')
      BY HeldSlices, Zenon
    <3>2. Fits(SliceOf(stored'[k]), arrays'[k])
      BY <1>5, <3>1
    <3> QED
      BY <3>2 DEF Fits, SliceOf
  <2> QED
    BY <1>0, <1>5, <1>6, <2>1 DEF StoredFits
<1>12. NothingEarly'
  BY <1>0, <1>1, <1>3, <1>4, <1>5, <1>6, <1>8 DEF NothingEarly, Idle
<1>13. SlicesFit'
  <2> SUFFICES ASSUME NEW b \in Agents, NEW d \in Conns, Holding(loop'[b][d])
               PROVE  Fits(loop'[b][d].slice, arrays'[loop'[b][d].report.task])
    BY DEF SlicesFit
  <2>1. loop'[b][d] = loop[b][d]
    BY <1>8 DEF Holding, Idle
  <2>2. loop[b][d].report.task \in Tasks
    BY <1>0, <2>1, LoopParts DEF Holding
  <2>3. CASE loop[b][d].report.task = k
    <3>1. loop'[b][d].slice \in Held(k, stored', loop')
      BY <2>1, <2>3, HeldSlices
    <3> QED
      BY <1>5, <2>1, <2>3, <3>1
  <2>4. CASE loop[b][d].report.task # k
    BY <1>0, <1>5, <2>1, <2>2, <2>4 DEF SlicesFit
  <2> QED
    BY <2>3, <2>4
<1>14. MayReconnect'
  BY <1>0, <1>1 DEF MayReconnect
<1> QED
  BY <1>7, <1>9, <1>10, <1>11, <1>12, <1>13, <1>14, TypePartsNext DEF TaskShape

LEMMA TaskShapeStep ==
  ASSUME TaskShape, [TaskNext]_taskVars
  PROVE  TaskShape'
<1>1. ASSUME NEW k \in Tasks, NEW request \in Requests, Dispatch(k, request)
      PROVE  TaskShape'
  BY <1>1, DispatchShape
<1>2. ASSUME NEW k \in Tasks, NEW a \in Agents, SendTask(k, a)
      PROVE  TaskShape'
  BY <1>2, SendTaskShape
<1>3. ASSUME NEW a \in Agents, NEW k \in Tasks, StartTask(a, k)
      PROVE  TaskShape'
  BY <1>3, StartTaskShape
<1>4. ASSUME NEW a \in Agents, NEW k \in Tasks, BeginStage(a, k)
      PROVE  TaskShape'
  BY <1>4, BeginStageShape
<1>5. ASSUME NEW a \in Agents, NEW k \in Tasks, EndStage(a, k)
      PROVE  TaskShape'
  BY <1>5, EndStageShape
<1>6. ASSUME NEW a \in Agents, Break(a) \/ Restart(a)
      PROVE  TaskShape'
  BY <1>6, DisconnectShape DEF Break, Restart
<1>7. ASSUME NEW a \in Agents, Reconnect(a)
      PROVE  TaskShape'
  BY <1>7, ReconnectShape
<1>8. ASSUME NEW a \in Agents, NEW c \in Conns, HubRead(a, c)
      PROVE  TaskShape'
  BY <1>8, HubReadShape
<1>9. ASSUME NEW a \in Agents, NEW c \in Conns, HubGet(a, c)
      PROVE  TaskShape'
  BY <1>9, HubGetShape
<1>10. ASSUME NEW a \in Agents, NEW c \in Conns, HubAppend(a, c)
       PROVE  TaskShape'
  BY <1>10, HubAppendShape
<1>11. ASSUME NEW a \in Agents, NEW c \in Conns, HubSave(a, c)
       PROVE  TaskShape'
  BY <1>11, HubSaveShape
<1>12. CASE UNCHANGED taskVars
  <2>1. UNCHANGED <<stored, job, arrays, unsent, conn, up, toAgent, pipeline, wire, loop>>
    BY <1>12 DEF taskVars, agentVars
  <2>2. TaskTypeOK'
    BY <2>1 DEF TaskShape, TaskTypeOK
  <2>3. NothingEarly' /\ SlicesFit' /\ MayReconnect'
    BY <2>1 DEF TaskShape, NothingEarly, SlicesFit, MayReconnect
  <2> QED
    BY <2>2, <2>3 DEF TaskShape
<1> QED
  BY <1>1, <1>2, <1>3, <1>4, <1>5, <1>6, <1>7, <1>8, <1>9, <1>10, <1>11, <1>12
  DEF TaskNext, HandlerStep, AgentStep, LoopStep

\* The types hold throughout: no read loop ever indexes beyond an array it
\* shares, whatever other loops append, save and drop (handleTaskStep).
THEOREM TaskTypeCorrect == TaskSpec => []TaskTypeOK
<1>1. TaskShape => TaskTypeOK
  BY DEF TaskShape
<1> QED
  BY <1>1, TaskShapeInit, TaskShapeStep, PTL DEF TaskSpec

-----------------------------------------------------------------------------
(* How far an agent is with a task. *)

\* left is the end of the pipeline all.
Remaining(left, all) ==
  /\ Len(left) <= Len(all)
  /\ \A i \in 1..Len(left) : left[i] = all[Len(all) - Len(left) + i]

\* The task reaches an agent once, and only if the agent is one of its targets;
\* from then on the agent has an end of the pipeline before it (handleWSTask).
OnTheWay(a, k) ==
  /\ a \in unsent[k] => a \in job[k].targets /\ k \notin toAgent[a]
  /\ k \in toAgent[a] => a \in job[k].targets
  /\ pipeline[a][k].left = <<>> => ~pipeline[a][k].running
  /\ pipeline[a][k].left # <<>> =>
       /\ a \in job[k].targets /\ a \notin unsent[k] /\ k \notin toAgent[a]
       /\ Remaining(pipeline[a][k].left, Pipeline(k))

AllOnTheWay == \A a \in Agents, k \in Tasks : OnTheWay(a, k)

\* No step that agent a has sent for task k so far has this rank or a higher one.
NextRank(a, k) ==
  2 * (Len(Pipeline(k)) - Len(pipeline[a][k].left) + 1)
    + IF pipeline[a][k].running THEN 1 ELSE 0

\* No stage is in a pipeline twice (handleWSTask).
LEMMA PipelineDistinct ==
  ASSUME HandlerOK, NEW k \in Tasks
  PROVE  /\ Len(Pipeline(k)) \in Nat
         /\ \A i, j \in 1..Len(Pipeline(k)) : Pipeline(k)[i] = Pipeline(k)[j] => i = j
<1> DEFINE t == job[k].type
           stages == Stages(t)
           front == <<"environment_check">> \o stages
<1>1. t \in TaskTypes
  BY TaskAssumption DEF HandlerOK, NoJob, TaskTypes
<1>2. /\ stages \in Seq(StageNames \ {"environment_check", "complete"})
      /\ \A i, j \in 1..Len(stages) : stages[i] = stages[j] => i = j
  <2> HIDE DEF t
  <2>1. stages = <<"diag">> \/ stages = <<"verify">> \/ stages = <<"apply", "self_test", "verify">>
    BY <1>1 DEF TaskTypes, Stages
  <2> HIDE DEF stages
  <2>2. CASE stages = <<"diag">>
    BY <2>2 DEF StageNames
  <2>3. CASE stages = <<"verify">>
    BY <2>3 DEF StageNames
  <2>4. CASE stages = <<"apply", "self_test", "verify">>
    BY <2>4 DEF StageNames
  <2> QED
    BY <2>1, <2>2, <2>3, <2>4
<1> DEFINE len == Len(stages)
<1> HIDE DEF stages
<1>3. /\ len \in Nat /\ stages \in Seq(StageNames)
      /\ \A i \in 1..len : stages[i] # "environment_check" /\ stages[i] # "complete"
  BY <1>2
<1>4. /\ front \in Seq(StageNames) /\ Len(front) = len + 1 /\ front[1] = "environment_check"
      /\ \A i \in 2..(len + 1) : front[i] = stages[i - 1]
  BY <1>3 DEF StageNames
<1>5. Pipeline(k) = front \o <<"complete">>
  BY DEF Pipeline, stages
<1> HIDE DEF front, len
<1>6. /\ Len(Pipeline(k)) = len + 2 /\ Pipeline(k)[len + 2] = "complete"
      /\ \A i \in 1..(len + 1) : Pipeline(k)[i] = front[i]
  BY <1>3, <1>4, <1>5
<1> DEFINE all == Pipeline(k)
<1> HIDE DEF all
<1>7. /\ Len(all) = len + 2 /\ all[1] = "environment_check" /\ all[len + 2] = "complete"
      /\ \A i \in 2..(len + 1) : all[i] = stages[i - 1] /\ i - 1 \in 1..len
  BY <1>3, <1>4, <1>6 DEF all
<1>8. ASSUME NEW i \in 1..(len + 2), NEW j \in 1..(len + 2), all[i] = all[j]
      PROVE  i = j
  <2>1. /\ i = 1 \/ i \in 2..(len + 1) \/ i = len + 2
        /\ j = 1 \/ j \in 2..(len + 1) \/ j = len + 2
    BY <1>3
  <2>2. \A m \in 2..(len + 1) : all[m] # all[1] /\ all[m] # all[len + 2]
    BY <1>3, <1>7
  <2>3. all[1] # all[len + 2]
    BY <1>7
  <2>4. CASE i \in 2..(len + 1) /\ j \in 2..(len + 1)
    <3>1. stages[i - 1] = stages[j - 1] /\ i - 1 \in 1..len /\ j - 1 \in 1..len
      BY <1>7, <1>8, <2>4
    <3>2. i - 1 = j - 1
      BY <1>2, <3>1 DEF len
    <3> QED
      BY <3>2, <2>4
  <2> QED
    BY <1>8, <2>1, <2>2, <2>3, <2>4
<1> QED
  BY <1>3, <1>7, <1>8 DEF all

LEMMA RankOf ==
  ASSUME HandlerOK, NEW k \in Tasks, NEW i \in 1..Len(Pipeline(k)), NEW s,
         s.name = Pipeline(k)[i]
  PROVE  /\ Rank(k, s) = 2 * i + (IF s.status = "running" THEN 0 ELSE 1)
         /\ Rank(k, s) \in Int
<1> DEFINE all == Pipeline(k)
           j == CHOOSE j \in DOMAIN all : all[j] = s.name
<1>1. all \in Seq(StageNames) /\ DOMAIN all = 1..Len(all)
  BY PipelineType
<1>2. \A m \in DOMAIN all : all[m] = s.name => m = i
  BY <1>1, PipelineDistinct
<1>3. i \in DOMAIN all /\ all[i] = s.name
  BY <1>1
<1>4. j \in DOMAIN all /\ all[j] = s.name
  BY <1>3
<1>5. j = i
  BY <1>2, <1>4
<1>6. Rank(k, s) = 2 * j + IF s.status = "running" THEN 0 ELSE 1
  BY DEF Rank
<1> HIDE DEF j, all
<1>7. i \in Int
  OBVIOUS
<1> QED
  BY <1>5, <1>6, <1>7

\* A stage's step has a rank no earlier step has, and no later one will have.
SendsNext(a, k, name, status) ==
  LET s == [name |-> name, status |-> status, node |-> a]
  IN /\ Send(a, k, name, status)
     /\ Rank(k, s) \in Int /\ NextRank(a, k) <= Rank(k, s)
     /\ Rank(k, s) < NextRank(a, k)'
     /\ NextRank(a, k) \in Int /\ NextRank(a, k)' \in Int
     /\ OnTheWay(a, k)'
     /\ a \in job[k].targets /\ a \notin unsent[k] /\ k \notin toAgent[a]
     /\ \A b \in Agents, j \in Tasks : ~(b = a /\ j = k) =>
           pipeline'[b][j] = pipeline[b][j]
     /\ UNCHANGED <<stored, job, arrays, unsent, conn, up, toAgent, loop>>

LEMMA StageSends ==
  ASSUME TaskShape, NEW a \in Agents, NEW k \in Tasks, OnTheWay(a, k),
         BeginStage(a, k) \/ EndStage(a, k)
  PROVE  \E name \in StageNames, status \in {"running", "success", "fail"} :
           SendsNext(a, k, name, status)
<1> DEFINE p == pipeline[a][k]
           all == Pipeline(k)
           n == Len(all)
           i == n - Len(p.left) + 1
           name == Head(p.left)
<1>0. PipelineOK /\ HandlerOK
  BY TypeParts DEF TaskShape
<1>1. /\ p.left \in Seq(StageNames) /\ p.running \in BOOLEAN
      /\ p.left # <<>> /\ UNCHANGED <<stored, job, arrays, unsent, conn, up, toAgent, loop>>
  BY <1>0 DEF PipelineOK, BeginStage, EndStage
<1>2. all \in Seq(StageNames) /\ n \in Nat
  BY <1>0, PipelineType
<1>3. /\ a \in job[k].targets /\ a \notin unsent[k] /\ k \notin toAgent[a]
      /\ Remaining(p.left, all)
  BY <1>1 DEF OnTheWay
<1>4. Pipeline(k)' = Pipeline(k) /\ \A s : Rank(k, s)' = Rank(k, s)
  BY <1>1 DEF Pipeline, Rank
<1>5. Len(p.left) \in 1..n
  <2>1. Len(p.left) \in Nat /\ Len(p.left) # 0
    BY <1>1
  <2> QED
    BY <1>2, <1>3, <2>1 DEF Remaining
<1>6. i \in 1..n /\ name = all[i] /\ name \in StageNames
  <2> DEFINE left == p.left
             m == Len(left)
  <2>1. left \in Seq(StageNames) /\ left # <<>> /\ m \in 1..n
    BY <1>1, <1>5
  <2>2. \A j \in 1..m : left[j] = all[n - m + j]
    BY <1>3 DEF Remaining
  <2> HIDE DEF left, n, all
  <2>3. Head(left) = left[1] /\ left[1] \in StageNames
    BY <2>1
  <2> HIDE DEF m
  <2>4. left[1] = all[n - m + 1] /\ n - m + 1 \in 1..n
    BY <1>2, <2>1, <2>2
  <2> QED
    BY <2>3, <2>4 DEF left, m
<1>7. NextRank(a, k) = 2 * i + (IF p.running THEN 1 ELSE 0)
  BY DEF NextRank
<1>8. ASSUME NEW status \in {"running", "success", "fail"}, NEW left \in Seq(StageNames),
             NEW running \in BOOLEAN,
             pipeline' = [pipeline EXCEPT ![a][k] = [left |-> left, running |-> running]],
             Send(a, k, name, status),
             \/ status = "running" /\ ~p.running /\ left = p.left /\ running
             \/ status # "running" /\ left = Tail(p.left) /\ ~running
             \/ status # "running" /\ left = <<>> /\ ~running
      PROVE  LET s == [name |-> name, status |-> status, node |-> a]
             IN /\ Rank(k, s) \in Int /\ NextRank(a, k) <= Rank(k, s)
                /\ Rank(k, s) < NextRank(a, k)'
                /\ NextRank(a, k) \in Int /\ NextRank(a, k)' \in Int
                /\ OnTheWay(a, k)'
                /\ \A b \in Agents, j \in Tasks : ~(b = a /\ j = k) =>
                      pipeline'[b][j] = pipeline[b][j]
  <2> DEFINE s == [name |-> name, status |-> status, node |-> a]
             new == [left |-> left, running |-> running]
  <2>1. /\ Rank(k, s) = 2 * i + (IF status = "running" THEN 0 ELSE 1)
        /\ Rank(k, s) \in Int
    <3> DEFINE m == i
    <3>1. m \in 1..Len(Pipeline(k)) /\ s.name = Pipeline(k)[m] /\ s.status = status
      BY <1>6
    <3> HIDE DEF m, s
    <3>2. /\ Rank(k, s) = 2 * m + (IF s.status = "running" THEN 0 ELSE 1)
          /\ Rank(k, s) \in Int
      BY <1>0, <3>1, RankOf
    <3> QED
      BY <3>1, <3>2 DEF m
  <2>2. /\ pipeline'[a][k] = new
        /\ \A b \in Agents, j \in Tasks : ~(b = a /\ j = k) =>
             pipeline'[b][j] = pipeline[b][j]
    <3> HIDE DEF new
    <3>1. pipeline' = [pipeline EXCEPT ![a][k] = new]
      BY <1>8 DEF new
    <3> QED
      BY <1>0, <3>1 DEF PipelineOK
  <2>3. NextRank(a, k)' = 2 * (n - Len(left) + 1) + (IF running THEN 1 ELSE 0)
    BY <1>4, <2>2 DEF NextRank
  <2>4. \/ left = p.left
        \/ Len(left) = Len(p.left) - 1 /\ \A m \in 1..Len(left) : left[m] = p.left[m + 1]
        \/ left = <<>>
    <3>1. \A q \in Seq(StageNames) : q # <<>> =>
            /\ Len(Tail(q)) = Len(q) - 1
            /\ \A m \in 1..Len(Tail(q)) : Tail(q)[m] = q[m + 1]
      OBVIOUS
    <3>2. p.left \in Seq(StageNames) /\ p.left # <<>>
      BY <1>1
    <3>3. left = p.left \/ left = Tail(p.left) \/ left = <<>>
      BY <1>8
    <3> QED
      BY <3>1, <3>2, <3>3
  <2>5. Remaining(left, all)
    <3>1. CASE left = p.left
      BY <1>3, <3>1
    <3>2. CASE Len(left) = Len(p.left) - 1 /\ \A m \in 1..Len(left) : left[m] = p.left[m + 1]
      <4>1. \A m \in 1..Len(p.left) : p.left[m] = all[n - Len(p.left) + m]
        BY <1>3 DEF Remaining
      <4>2. Len(left) <= n
        BY <1>2, <1>5, <3>2
      <4>3. ASSUME NEW m \in 1..Len(left)
            PROVE  left[m] = all[n - Len(left) + m]
        <5>1. m + 1 \in 1..Len(p.left) /\ left[m] = p.left[m + 1]
          BY <1>5, <3>2
        <5>2. left[m] = all[n - Len(p.left) + (m + 1)]
          BY <4>1, <5>1
        <5>3. n - Len(p.left) + (m + 1) = n - Len(left) + m
          BY <1>2, <1>5, <3>2
        <5> QED
          BY <5>2, <5>3
      <4> QED
        BY <4>2, <4>3 DEF Remaining
    <3>3. CASE left = <<>>
      BY <1>2, <3>3 DEF Remaining
    <3> QED
      BY <2>4, <3>1, <3>2, <3>3
  <2>6. OnTheWay(a, k)'
    <3>1. pipeline'[a][k].left = left /\ pipeline'[a][k].running = running
      BY <2>2
    <3>2. left = <<>> => ~running
      BY <1>1, <1>8
    <3> QED
      BY <1>1, <1>3, <1>4, <2>5, <3>1, <3>2 DEF OnTheWay
  <2>7. Len(left) \in Nat /\ (status # "running" => Len(left) <= Len(p.left) - 1)
    <3>1. status # "running" => left = Tail(p.left) \/ left = <<>>
      BY <1>8
    <3>2. Len(Tail(p.left)) = Len(p.left) - 1 /\ Len(<<>>) = 0
      BY <1>1
    <3> QED
      BY <1>5, <3>1, <3>2
  <2> DEFINE m == Len(p.left)
             ll == Len(left)
  <2>8. /\ m \in 1..n /\ n \in Nat /\ ll \in Nat /\ (status # "running" => ll <= m - 1)
        /\ NextRank(a, k) = 2 * (n - m + 1) + (IF p.running THEN 1 ELSE 0)
        /\ NextRank(a, k)' = 2 * (n - ll + 1) + (IF running THEN 1 ELSE 0)
        /\ Rank(k, s) = 2 * (n - m + 1) + (IF status = "running" THEN 0 ELSE 1)
        /\ (status = "running" => ~p.running /\ ll = m /\ running)
        /\ (status # "running" => ~running)
    BY <1>2, <1>5, <1>7, <1>8, <2>1, <2>3, <2>7
  <2> HIDE DEF m, ll, n, s, p
  <2>9. NextRank(a, k) \in Int /\ NextRank(a, k)' \in Int
    BY <2>8
  <2>10. NextRank(a, k) <= Rank(k, s) /\ Rank(k, s) < NextRank(a, k)'
    <3>1. CASE status = "running"
      BY <2>8, <3>1
    <3>2. CASE status # "running"
      BY <2>8, <3>2
    <3> QED
      BY <3>1, <3>2
  <2> QED
    BY <2>1, <2>2, <2>6, <2>9, <2>10 DEF s
<1>9. CASE BeginStage(a, k)
  <2>1. /\ pipeline' = [pipeline EXCEPT ![a][k] = [left |-> p.left, running |-> TRUE]]
        /\ Send(a, k, name, "running") /\ ~p.running
    BY <1>9 DEF BeginStage
  <2> HIDE DEF name
  <2>2. SendsNext(a, k, name, "running")
    BY <1>1, <1>3, <1>6, <1>8, <2>1 DEF SendsNext
  <2> QED
    BY <1>6, <2>2
<1>10. CASE EndStage(a, k)
  <2>1. PICK status \in {"success", "fail"} :
          /\ Send(a, k, name, status)
          /\ pipeline' = [pipeline EXCEPT ![a][k] =
               [left |-> AfterStage(p.left, status), running |-> FALSE]]
    BY <1>10 DEF EndStage
  <2> DEFINE left == AfterStage(p.left, status)
  <2>2. left = Tail(p.left) \/ left = <<>>
    BY DEF AfterStage
  <2>3. left \in Seq(StageNames)
    <3> DEFINE q == p.left
    <3>1. q \in Seq(StageNames) /\ q # <<>> /\ (left = Tail(q) \/ left = <<>>)
      BY <1>1, <2>2
    <3> HIDE DEF q, left
    <3>2. Tail(q) \in Seq(StageNames) /\ <<>> \in Seq(StageNames)
      BY <3>1
    <3> QED
      BY <3>1, <3>2
  <2> HIDE DEF name, left
  <2>4. pipeline' = [pipeline EXCEPT ![a][k] = [left |-> left, running |-> FALSE]]
    BY <2>1 DEF left
  <2>5. SendsNext(a, k, name, status)
    BY <1>1, <1>3, <1>6, <1>8, <2>1, <2>2, <2>3, <2>4 DEF SendsNext
  <2> QED
    BY <1>6, <2>5
<1> QED
  BY <1>9, <1>10

LEMMA NextRankType ==
  ASSUME PipelineOK, HandlerOK, NEW a \in Agents, NEW k \in Tasks
  PROVE  NextRank(a, k) \in Int
<1>1. Len(Pipeline(k)) \in Int
  BY PipelineType
<1>2. pipeline[a][k].left \in Seq(StageNames)
  BY DEF PipelineOK
<1>3. Len(pipeline[a][k].left) \in Int
  BY <1>2
<1> QED
  BY <1>1, <1>3 DEF NextRank

NextRanksOK == \A a \in Agents, k \in Tasks : NextRank(a, k) \in Int

LEMMA NextRankTypes == PipelineOK /\ HandlerOK => NextRanksOK
  BY NextRankType DEF NextRanksOK

\* What a step does to agent a and task k: it brings a no nearer to the
\* beginning of its pipeline.
Advances(a, k) ==
  /\ OnTheWay(a, k)'
  /\ stored[k] # NoTask =>
       /\ stored'[k] # NoTask /\ job'[k] = job[k]
       /\ a \notin unsent[k] /\ k \notin toAgent[a] =>
            /\ a \notin unsent'[k] /\ k \notin toAgent'[a]
            /\ NextRank(a, k) <= NextRank(a, k)'

LEMMA SameAdvances ==
  ASSUME PipelineOK, HandlerOK, NEW a \in Agents, NEW k \in Tasks, OnTheWay(a, k),
         stored[k] # NoTask => stored'[k] # NoTask, job'[k] = job[k],
         pipeline'[a][k] = pipeline[a][k],
         a \in unsent'[k] <=> a \in unsent[k], k \in toAgent'[a] => k \in toAgent[a]
  PROVE  Advances(a, k)
<1>1. Pipeline(k)' = Pipeline(k)
  BY DEF Pipeline
<1>2. OnTheWay(a, k)'
  BY <1>1 DEF OnTheWay
<1>3. NextRank(a, k)' = NextRank(a, k)
  BY <1>1 DEF NextRank
<1>4. NextRank(a, k) <= NextRank(a, k)'
  BY <1>3, NextRankType
<1> QED
  BY <1>2, <1>4 DEF Advances

LEMMA DispatchAdvances ==
  ASSUME TaskShape, AllOnTheWay, NEW k \in Tasks, NEW request \in Requests,
         Dispatch(k, request), NEW b \in Agents, NEW j \in Tasks
  PROVE  Advances(b, j)
<1>0. StoreOK /\ HandlerOK /\ PipelineOK /\ NothingEarly
  BY TypeParts DEF TaskShape
<1>1. /\ stored[k] = NoTask /\ job' = [job EXCEPT ![k] = request]
      /\ stored' = [stored EXCEPT ![k] = [array |-> 1, len |-> 1, status |-> "running"]]
      /\ unsent' = [unsent EXCEPT ![k] = request.targets]
      /\ UNCHANGED <<pipeline, toAgent>>
  BY DEF Dispatch, agentVars
<1>2. OnTheWay(b, j)
  BY DEF AllOnTheWay
<1>3. CASE j = k
  <2>1. job'[j] = request /\ unsent'[j] = request.targets
    BY <1>0, <1>1, <1>3 DEF HandlerOK
  <2>2. j \notin toAgent[b] /\ pipeline[b][j].left = <<>>
    BY <1>0, <1>1, <1>3 DEF NothingEarly
  <2>3. ~pipeline[b][j].running
    BY <1>2, <2>2 DEF OnTheWay
  <2> QED
    BY <1>1, <1>3, <2>1, <2>2, <2>3 DEF Advances, OnTheWay
<1>4. CASE j # k
  <2>1. job'[j] = job[j] /\ unsent'[j] = unsent[j] /\ stored'[j] = stored[j]
    BY <1>0, <1>1, <1>4 DEF HandlerOK, StoreOK
  <2> QED
    BY <1>0, <1>1, <1>2, <2>1, SameAdvances
<1> QED
  BY <1>3, <1>4

LEMMA SendTaskAdvances ==
  ASSUME TaskShape, AllOnTheWay, NEW k \in Tasks, NEW a \in Agents, SendTask(k, a),
         NEW b \in Agents, NEW j \in Tasks
  PROVE  Advances(b, j)
<1>0. StoreOK /\ HandlerOK /\ PipelineOK /\ InboxOK /\ NothingEarly
  BY TypeParts DEF TaskShape
<1>1. /\ a \in unsent[k] /\ unsent' = [unsent EXCEPT ![k] = unsent[k] \ {a}]
      /\ UNCHANGED <<stored, job, pipeline>>
  BY DEF SendTask
<1>2. toAgent' = [toAgent EXCEPT ![a] = toAgent[a] \cup {k}] \/ toAgent' = toAgent
  BY DEF SendTask
<1>3. OnTheWay(b, j)
  BY DEF AllOnTheWay
<1>4. CASE j = k /\ b = a
  <2>1. b \notin unsent'[j]
    BY <1>0, <1>1, <1>4 DEF HandlerOK
  <2>2. b \in job[j].targets /\ pipeline[b][j].left = <<>> /\ ~pipeline[b][j].running
    BY <1>1, <1>3, <1>4 DEF OnTheWay
  <2> QED
    BY <1>1, <1>4, <2>1, <2>2 DEF Advances, OnTheWay
<1>5. CASE ~(j = k /\ b = a)
  <2>1. b \in unsent'[j] <=> b \in unsent[j]
    BY <1>0, <1>1, <1>5 DEF HandlerOK
  <2>2. j \in toAgent'[b] => j \in toAgent[b]
    BY <1>0, <1>2, <1>5 DEF InboxOK
  <2> QED
    BY <1>0, <1>1, <1>3, <2>1, <2>2, SameAdvances
<1> QED
  BY <1>4, <1>5

LEMMA StartTaskAdvances ==
  ASSUME TaskShape, AllOnTheWay, NEW a \in Agents, NEW k \in Tasks, StartTask(a, k),
         NEW b \in Agents, NEW j \in Tasks
  PROVE  Advances(b, j)
<1>0. StoreOK /\ HandlerOK /\ PipelineOK /\ InboxOK /\ NothingEarly
  BY TypeParts DEF TaskShape
<1>1. /\ k \in toAgent[a] /\ toAgent' = [toAgent EXCEPT ![a] = toAgent[a] \ {k}]
      /\ pipeline' = [pipeline EXCEPT ![a][k] =
           [left |-> Pipeline(k), running |-> FALSE]]
      /\ UNCHANGED <<stored, job, unsent>>
  BY DEF StartTask
<1>2. OnTheWay(b, j)
  BY DEF AllOnTheWay
<1>3. CASE b = a /\ j = k
  <2>1. j \notin toAgent'[b] /\ b \in job[j].targets /\ b \notin unsent[j]
    BY <1>0, <1>1, <1>2, <1>3 DEF InboxOK, OnTheWay
  <2>2. pipeline'[b][j] = [left |-> Pipeline(j), running |-> FALSE]
    BY <1>0, <1>1, <1>3 DEF PipelineOK
  <2>3. Pipeline(j)' = Pipeline(j)
    BY <1>1 DEF Pipeline
  <2>4. Remaining(Pipeline(j), Pipeline(j))
    <3> DEFINE all == Pipeline(j)
    <3>1. Len(all) \in Nat
      BY <1>0, PipelineType
    <3> HIDE DEF all
    <3>2. \A i \in 1..Len(all) : Len(all) - Len(all) + i = i
      BY <3>1
    <3> QED
      BY <3>1, <3>2 DEF Remaining, all
  <2>5. OnTheWay(b, j)'
    BY <1>1, <2>1, <2>2, <2>3, <2>4 DEF OnTheWay
  <2> QED
    BY <1>1, <1>3, <2>5 DEF Advances
<1>4. CASE ~(b = a /\ j = k)
  <2>1. pipeline'[b][j] = pipeline[b][j] /\ (j \in toAgent'[b] => j \in toAgent[b])
    BY <1>0, <1>1, <1>4 DEF PipelineOK, InboxOK
  <2> QED
    BY <1>0, <1>1, <1>2, <2>1, SameAdvances
<1> QED
  BY <1>3, <1>4

LEMMA StageAdvances ==
  ASSUME TaskShape, AllOnTheWay, NEW a \in Agents, NEW k \in Tasks,
         BeginStage(a, k) \/ EndStage(a, k), NEW b \in Agents, NEW j \in Tasks
  PROVE  Advances(b, j)
<1>0. HandlerOK /\ PipelineOK
  BY TypeParts DEF TaskShape
<1>1. OnTheWay(b, j) /\ OnTheWay(a, k)
  BY DEF AllOnTheWay
<1>2. /\ OnTheWay(a, k)' /\ NextRank(a, k) <= NextRank(a, k)'
      /\ a \notin unsent[k] /\ k \notin toAgent[a]
      /\ \A c \in Agents, i \in Tasks : ~(c = a /\ i = k) =>
           pipeline'[c][i] = pipeline[c][i]
      /\ UNCHANGED <<stored, job, arrays, unsent, conn, up, toAgent, loop>>
  <2>1. PICK name \in StageNames, status \in {"running", "success", "fail"} :
          SendsNext(a, k, name, status)
    BY <1>1, StageSends
  <2>2. NextRank(a, k) <= NextRank(a, k)'
    BY <2>1 DEF SendsNext
  <2> QED
    BY <2>1, <2>2 DEF SendsNext
<1>3. CASE b = a /\ j = k
  BY <1>2, <1>3 DEF Advances
<1>4. CASE ~(b = a /\ j = k)
  BY <1>0, <1>1, <1>2, <1>4, SameAdvances
<1> QED
  BY <1>3, <1>4

LEMMA DisconnectAdvances ==
  ASSUME TaskShape, AllOnTheWay, NEW a \in Agents, Break(a) \/ Restart(a),
         NEW b \in Agents, NEW j \in Tasks
  PROVE  Advances(b, j)
<1>0. HandlerOK /\ PipelineOK /\ InboxOK
  BY TypeParts DEF TaskShape
<1>1. /\ toAgent' = [toAgent EXCEPT ![a] = {}] /\ UNCHANGED <<stored, job, unsent>>
      /\ \/ pipeline' = pipeline
         \/ pipeline' = [pipeline EXCEPT ![a] = [k \in Tasks |-> NotStarted]]
  BY DEF Break, Restart, Disconnect
<1>2. OnTheWay(b, j)
  BY DEF AllOnTheWay
<1>3. j \in toAgent'[b] => j \in toAgent[b]
  BY <1>0, <1>1 DEF InboxOK
<1>4. pipeline'[b][j] = pipeline[b][j] \/ pipeline'[b][j] = NotStarted
  BY <1>0, <1>1 DEF PipelineOK
<1>5. CASE pipeline'[b][j] = pipeline[b][j]
  BY <1>0, <1>1, <1>2, <1>3, <1>5, SameAdvances
<1>6. CASE pipeline'[b][j] = NotStarted
  <2>1. pipeline'[b][j].left = <<>> /\ ~pipeline'[b][j].running
    BY <1>6 DEF NotStarted
  <2>2. OnTheWay(b, j)'
    BY <1>1, <1>2, <1>3, <2>1 DEF OnTheWay
  <2> DEFINE n == Len(Pipeline(j))
             m == Len(pipeline[b][j].left)
  <2>3. NextRank(b, j)' = 2 * (n - 0 + 1) + 0
    BY <1>1, <2>1 DEF NextRank, Pipeline
  <2>4. NextRank(b, j) = 2 * (n - m + 1) + IF pipeline[b][j].running THEN 1 ELSE 0
    BY DEF NextRank
  <2>5. n \in Nat /\ m \in Nat /\ (m = 0 => ~pipeline[b][j].running)
    <3>1. pipeline[b][j].left \in Seq(StageNames)
      BY <1>0 DEF PipelineOK
    <3>2. m = 0 => pipeline[b][j].left = <<>>
      BY <3>1
    <3> QED
      BY <1>0, <1>2, <3>1, <3>2, PipelineType DEF OnTheWay
  <2> HIDE DEF n, m
  <2>6. NextRank(b, j) <= NextRank(b, j)'
    BY <2>3, <2>4, <2>5
  <2> QED
    BY <1>1, <1>3, <2>2, <2>6 DEF Advances
<1> QED
  BY <1>4, <1>5, <1>6

\* Reconnects and the read loops leave the agents' pipelines alone.
LEMMA OtherAdvances ==
  ASSUME TaskShape, AllOnTheWay, UNCHANGED <<job, unsent, toAgent, pipeline>>,
         \A k \in Tasks : stored[k] # NoTask => stored'[k] # NoTask,
         NEW b \in Agents, NEW j \in Tasks
  PROVE  Advances(b, j)
<1>1. HandlerOK /\ PipelineOK /\ OnTheWay(b, j)
  BY TypeParts DEF TaskShape, AllOnTheWay
<1> QED
  BY <1>1, SameAdvances

LEMMA AdvancesStep ==
  ASSUME TaskShape, AllOnTheWay, [TaskNext]_taskVars, NEW b \in Agents, NEW j \in Tasks
  PROVE  Advances(b, j)
<1>1. ASSUME NEW k \in Tasks, NEW request \in Requests, Dispatch(k, request)
      PROVE  Advances(b, j)
  BY <1>1, DispatchAdvances
<1>2. ASSUME NEW k \in Tasks, NEW a \in Agents, SendTask(k, a)
      PROVE  Advances(b, j)
  BY <1>2, SendTaskAdvances
<1>3. ASSUME NEW a \in Agents, NEW k \in Tasks, StartTask(a, k)
      PROVE  Advances(b, j)
  BY <1>3, StartTaskAdvances
<1>4. ASSUME NEW a \in Agents, NEW k \in Tasks, BeginStage(a, k) \/ EndStage(a, k)
      PROVE  Advances(b, j)
  BY <1>4, StageAdvances
<1>5. ASSUME NEW a \in Agents, Break(a) \/ Restart(a)
      PROVE  Advances(b, j)
  BY <1>5, DisconnectAdvances
<1>6. ASSUME NEW a \in Agents, Reconnect(a)
      PROVE  Advances(b, j)
  BY <1>6, OtherAdvances DEF Reconnect
<1>7. ASSUME NEW a \in Agents, NEW c \in Conns,
             HubRead(a, c) \/ HubGet(a, c) \/ HubAppend(a, c)
      PROVE  Advances(b, j)
  BY <1>7, OtherAdvances DEF HubRead, HubGet, HubAppend, agentVars
<1>8. ASSUME NEW a \in Agents, NEW c \in Conns, HubSave(a, c)
      PROVE  Advances(b, j)
  <2> DEFINE k == loop[a][c].report.task
             s == loop[a][c].slice
             t == [array |-> s.array, len |-> s.len, status |-> loop[a][c].report.step.status]
  <2>1. StoreOK
    BY TypeParts DEF TaskShape
  <2>2. stored' = [stored EXCEPT ![k] = t] /\ UNCHANGED <<job, unsent, toAgent, pipeline>>
    BY <1>8 DEF HubSave, Kept, StatusAfter, agentVars
  <2>3. t # NoTask
    BY DEF NoTask
  <2> HIDE DEF t, k
  <2>4. \A i \in Tasks : stored[i] # NoTask => stored'[i] # NoTask
    BY <2>1, <2>2, <2>3 DEF StoreOK
  <2> QED
    BY <2>2, <2>4, OtherAdvances
<1>9. CASE UNCHANGED taskVars
  BY <1>9, OtherAdvances DEF taskVars, agentVars
<1> QED
  BY <1>1, <1>2, <1>3, <1>4, <1>5, <1>6, <1>7, <1>8, <1>9
  DEF TaskNext, HandlerStep, AgentStep, LoopStep

-----------------------------------------------------------------------------
(* The steps that are on their way to the store, and those in the arrays. *)

\* The reports of a connection that no step has been appended for: the one the
\* read loop has in hand, and the unread ones.
Pending(l, q) == IF l.at \in {"get", "append"} THEN <<l.report>> \o q ELSE q
Pend(a, c) == Pending(loop[a][c], wire[a][c])

\* Step s of task k was sent: no later step of its node will have its rank.
Sent(k, s) ==
  /\ s.name # "dispatch" /\ s.node \in job[k].targets /\ s.node \in Agents
  /\ Rank(k, s) \in Int /\ Rank(k, s) < NextRank(s.node, k)
  /\ s.node \notin unsent[k] /\ k \notin toAgent[s.node]

\* What was sent stays sent.
LEMMA SentStays ==
  ASSUME TaskShape, AllOnTheWay, [TaskNext]_taskVars, NEW k \in Tasks,
         stored[k] # NoTask, NEW s, Sent(k, s)
  PROVE  Sent(k, s)' /\ Rank(k, s)' = Rank(k, s)
<1> DEFINE a == s.node
<1>1. a \in Agents /\ a \notin unsent[k] /\ k \notin toAgent[a]
  BY DEF Sent
<1>2. Advances(a, k)
  BY <1>1, AdvancesStep
<1>3. /\ job'[k] = job[k] /\ a \notin unsent'[k] /\ k \notin toAgent'[a]
      /\ NextRank(a, k) <= NextRank(a, k)'
  BY <1>1, <1>2 DEF Advances
<1>4. Rank(k, s)' = Rank(k, s)
  BY <1>3 DEF Rank, Pipeline
<1>5. NextRank(a, k) \in Int /\ NextRank(a, k)' \in Int
  <2>1. PipelineOK /\ HandlerOK
    BY TypeParts DEF TaskShape
  <2>2. PipelineOK' /\ HandlerOK'
    BY TaskShapeStep, TypePartsNext DEF TaskShape
  <2>3. NextRank(a, k) \in Int
    BY <1>1, <2>1, NextRankType
  <2>4. PipelineOK' /\ HandlerOK' => NextRanksOK'
    BY NextRankTypes, PTL
  <2> HIDE DEF a
  <2>5. NextRank(a, k)' \in Int
    BY <1>1, <2>2, <2>4 DEF NextRanksOK
  <2> QED
    BY <2>3, <2>5
<1> QED
  BY <1>1, <1>3, <1>4, <1>5 DEF Sent

LEMMA PendingProperties ==
  ASSUME NEW l \in LoopState, NEW q \in Seq(Report)
  PROVE  LET h == IF l.at \in {"get", "append"} THEN 1 ELSE 0
         IN /\ Pending(l, q) \in Seq(Report) /\ Len(Pending(l, q)) = Len(q) + h
            /\ DOMAIN Pending(l, q) = 1..(Len(q) + h)
            /\ \A i \in 1..Len(q) : Pending(l, q)[i + h] = q[i]
            /\ h = 1 => Pending(l, q)[1] = l.report
<1>1. CASE l.at \in {"get", "append"}
  <2>1. l.report \in Report
    BY <1>1 DEF LoopState, Idle
  <2> DEFINE r == l.report
  <2>2. Pending(l, q) = <<r>> \o q
    BY <1>1 DEF Pending
  <2> HIDE DEF r
  <2>3. /\ <<r>> \o q \in Seq(Report) /\ Len(<<r>> \o q) = Len(q) + 1
        /\ DOMAIN (<<r>> \o q) = 1..(Len(q) + 1)
        /\ \A i \in 1..Len(q) : (<<r>> \o q)[i + 1] = q[i]
        /\ (<<r>> \o q)[1] = r
    BY <2>1 DEF r
  <2> QED
    BY <1>1, <2>2, <2>3 DEF r
<1>2. CASE l.at \notin {"get", "append"}
  <2>1. Pending(l, q) = q
    BY <1>2 DEF Pending
  <2> QED
    BY <1>2, <2>1
<1> QED
  BY <1>1, <1>2

\* The steps that wait for a loop stay, or the first or the last ones are gone.
Taken(a, c) ==
  \E o \in {0, 1} : \A i \in DOMAIN Pend(a, c)' :
    i + o \in DOMAIN Pend(a, c) /\ Pend(a, c)'[i] = Pend(a, c)[i + o]

LEMMA PendType ==
  ASSUME LoopOK, WireOK, NEW a \in Agents, NEW c \in Conns
  PROVE  /\ Pend(a, c) \in Seq(Report)
         /\ \A i \in DOMAIN Pend(a, c) : i \in Nat /\ Pend(a, c)[i] \in Report
<1>1. loop[a][c] \in LoopState /\ wire[a][c] \in Seq(Report)
  BY DEF LoopOK, WireOK
<1>2. Pend(a, c) \in Seq(Report)
  BY <1>1, PendingProperties DEF Pend
<1> QED
  BY <1>2

LEMMA SamePend ==
  ASSUME LoopOK, WireOK, NEW a \in Agents, NEW c \in Conns, Pend(a, c)' = Pend(a, c)
  PROVE  Taken(a, c)
<1>1. \A i \in DOMAIN Pend(a, c) : i + 0 = i
  BY PendType
<1> QED
  BY <1>1 DEF Taken

LEMMA HubReadPend ==
  ASSUME LoopOK, WireOK, NEW a \in Agents, NEW c \in Conns, HubRead(a, c),
         NEW b \in Agents, NEW d \in Conns
  PROVE  Pend(b, d)' = Pend(b, d)
<1> DEFINE q == wire[a][c]
           new == [at |-> "get", report |-> Head(q)]
           rest == Tail(q)
<1>1. /\ loop[a][c] = Idle /\ q # <<>> /\ loop' = [loop EXCEPT ![a][c] = new]
      /\ wire' = [wire EXCEPT ![a][c] = rest] /\ q \in Seq(Report)
  BY DEF HubRead, Received, WireOK
<1>2. CASE b = a /\ d = c
  <2>1. loop'[b][d] = new /\ wire'[b][d] = rest
    BY <1>1, <1>2 DEF LoopOK, WireOK
  <2>2. Pend(b, d)' = <<Head(q)>> \o rest
    BY <2>1 DEF Pend, Pending
  <2>3. Pend(b, d) = q
    BY <1>1, <1>2 DEF Pend, Pending, Idle
  <2>4. <<Head(q)>> \o rest = q
    <3> HIDE DEF q
    <3> QED
      BY <1>1
  <2> QED
    BY <2>2, <2>3, <2>4
<1>3. CASE ~(b = a /\ d = c)
  <2> HIDE DEF new, rest
  <2>1. loop'[b][d] = loop[b][d] /\ wire'[b][d] = wire[b][d]
    BY <1>1, <1>3 DEF LoopOK, WireOK
  <2> QED
    BY <2>1 DEF Pend
<1> QED
  BY <1>2, <1>3

LEMMA HubGetPend ==
  ASSUME LoopOK, NEW a \in Agents, NEW c \in Conns, HubGet(a, c),
         NEW b \in Agents, NEW d \in Conns
  PROVE  Pend(b, d)' = Pend(b, d)
<1> DEFINE l == loop[a][c]
           t == stored[l.report.task]
           new == [at |-> "append", report |-> l.report,
                   slice |-> [array |-> t.array, len |-> t.len]]
<1>1. l.at = "get" /\ loop' = [loop EXCEPT ![a][c] = new] /\ wire' = wire
  BY DEF HubGet, agentVars
<1>2. new.at = "append" /\ new.report = l.report
  OBVIOUS
<1> HIDE DEF new
<1>3. CASE b = a /\ d = c
  <2>1. loop'[b][d] = new
    BY <1>1, <1>3 DEF LoopOK
  <2> QED
    BY <1>1, <1>2, <1>3, <2>1 DEF Pend, Pending
<1>4. CASE ~(b = a /\ d = c)
  <2>1. loop'[b][d] = loop[b][d]
    BY <1>1, <1>4 DEF LoopOK
  <2> QED
    BY <1>1, <2>1 DEF Pend
<1> QED
  BY <1>3, <1>4

LEMMA HubSavePend ==
  ASSUME LoopOK, NEW a \in Agents, NEW c \in Conns, HubSave(a, c),
         NEW b \in Agents, NEW d \in Conns
  PROVE  Pend(b, d)' = Pend(b, d)
<1>1. loop[a][c].at = "save" /\ loop' = [loop EXCEPT ![a][c] = Idle] /\ wire' = wire
  BY DEF HubSave, agentVars
<1>2. CASE b = a /\ d = c
  <2>1. loop'[b][d] = Idle
    BY <1>1, <1>2 DEF LoopOK
  <2> QED
    BY <1>1, <1>2, <2>1 DEF Pend, Pending, Idle
<1>3. CASE ~(b = a /\ d = c)
  <2>1. loop'[b][d] = loop[b][d]
    BY <1>1, <1>3 DEF LoopOK
  <2> QED
    BY <1>1, <2>1 DEF Pend
<1> QED
  BY <1>2, <1>3

\* The step that is appended was the first to wait.
LEMMA HubAppendPend ==
  ASSUME LoopOK, WireOK, NEW a \in Agents, NEW c \in Conns, HubAppend(a, c),
         NEW b \in Agents, NEW d \in Conns
  PROVE  /\ ~(b = a /\ d = c) => Pend(b, d)' = Pend(b, d)
         /\ b = a /\ d = c =>
              /\ 1 \in DOMAIN Pend(b, d) /\ Pend(b, d)[1] = loop[a][c].report
              /\ \A i \in DOMAIN Pend(b, d)' :
                   i + 1 \in DOMAIN Pend(b, d) /\ Pend(b, d)'[i] = Pend(b, d)[i + 1]
<1> DEFINE l == loop[a][c]
           q == wire[a][c]
           new == [at |-> "save", report |-> l.report,
                   slice |-> AppendedSlice(arrays[l.report.task], l.slice)]
<1>1. /\ l.at = "append" /\ loop' = [loop EXCEPT ![a][c] = new] /\ wire' = wire
      /\ l \in LoopState /\ q \in Seq(Report)
  BY DEF HubAppend, agentVars, LoopOK, WireOK
<1>2. new.at = "save"
  OBVIOUS
<1> HIDE DEF new
<1>3. CASE b = a /\ d = c
  <2>1. loop'[b][d] = new
    BY <1>1, <1>3 DEF LoopOK
  <2>2. Pend(b, d)' = q /\ Pend(b, d) = Pending(l, q)
    BY <1>1, <1>2, <1>3, <2>1 DEF Pend, Pending
  <2> HIDE DEF l, q
  <2>3. /\ DOMAIN Pending(l, q) = 1..(Len(q) + 1) /\ Pending(l, q)[1] = l.report
        /\ \A i \in 1..Len(q) : Pending(l, q)[i + 1] = q[i]
    BY <1>1, PendingProperties
  <2>4. DOMAIN q = 1..Len(q) /\ Len(q) \in Nat
    BY <1>1
  <2> QED
    BY <1>3, <2>2, <2>3, <2>4 DEF l
<1>4. CASE ~(b = a /\ d = c)
  <2>1. loop'[b][d] = loop[b][d]
    BY <1>1, <1>4 DEF LoopOK
  <2> QED
    BY <1>1, <1>4, <2>1 DEF Pend
<1> QED
  BY <1>3, <1>4

LEMMA PrefixPending ==
  ASSUME NEW l \in LoopState, NEW q \in Seq(Report), NEW n \in 0..Len(q),
         NEW i \in DOMAIN Pending(l, SubSeq(q, 1, n))
  PROVE  /\ i \in DOMAIN Pending(l, q)
         /\ Pending(l, SubSeq(q, 1, n))[i] = Pending(l, q)[i]
<1> DEFINE h == IF l.at \in {"get", "append"} THEN 1 ELSE 0
           p == SubSeq(q, 1, n)
<1>1. /\ p \in Seq(Report) /\ Len(p) = n /\ \A j \in 1..n : p[j] = q[j]
      /\ Len(q) \in Nat /\ n \in Nat /\ n <= Len(q) /\ h \in {0, 1}
  OBVIOUS
<1> HIDE DEF p
<1>2. /\ DOMAIN Pending(l, p) = 1..(Len(p) + h)
      /\ \A j \in 1..Len(p) : Pending(l, p)[j + h] = p[j]
      /\ h = 1 => Pending(l, p)[1] = l.report
  BY <1>1, PendingProperties
<1>3. /\ DOMAIN Pending(l, q) = 1..(Len(q) + h)
      /\ \A j \in 1..Len(q) : Pending(l, q)[j + h] = q[j]
      /\ h = 1 => Pending(l, q)[1] = l.report
  BY PendingProperties
<1> HIDE DEF h
<1>4. i \in 1..(n + h)
  BY <1>1, <1>2 DEF p
<1>5. CASE h = 1 /\ i = 1
  BY <1>1, <1>2, <1>3, <1>5 DEF p
<1>6. CASE ~(h = 1 /\ i = 1)
  <2>1. i - h \in 1..n /\ i - h \in 1..Len(q) /\ (i - h) + h = i
    BY <1>1, <1>4, <1>6
  <2>2. Pending(l, p)[i] = p[i - h] /\ Pending(l, q)[i] = q[i - h] /\ p[i - h] = q[i - h]
    BY <1>1, <1>2, <1>3, <2>1
  <2>3. i \in DOMAIN Pending(l, q)
    BY <1>1, <1>3, <1>4
  <2> QED
    BY <2>2, <2>3 DEF p
<1> QED
  BY <1>5, <1>6

LEMMA AppendPending ==
  ASSUME NEW l \in LoopState, NEW q \in Seq(Report), NEW r \in Report,
         NEW i \in DOMAIN Pending(l, Append(q, r))
  PROVE  \/ i \in DOMAIN Pending(l, q) /\ Pending(l, Append(q, r))[i] = Pending(l, q)[i]
         \/ Pending(l, Append(q, r))[i] = r /\ i = Len(Pending(l, q)) + 1
<1> DEFINE h == IF l.at \in {"get", "append"} THEN 1 ELSE 0
           p == Append(q, r)
<1>1. /\ p \in Seq(Report) /\ Len(p) = Len(q) + 1 /\ \A j \in 1..Len(q) : p[j] = q[j]
      /\ p[Len(q) + 1] = r /\ Len(q) \in Nat /\ h \in {0, 1}
  BY AppendProperties
<1> HIDE DEF p
<1>2. /\ DOMAIN Pending(l, p) = 1..(Len(p) + h)
      /\ \A j \in 1..Len(p) : Pending(l, p)[j + h] = p[j]
      /\ h = 1 => Pending(l, p)[1] = l.report
  BY <1>1, PendingProperties
<1>3. /\ DOMAIN Pending(l, q) = 1..(Len(q) + h) /\ Len(Pending(l, q)) = Len(q) + h
      /\ \A j \in 1..Len(q) : Pending(l, q)[j + h] = q[j]
      /\ h = 1 => Pending(l, q)[1] = l.report
  BY PendingProperties
<1> HIDE DEF h
<1>4. i \in 1..(Len(q) + 1 + h)
  BY <1>1, <1>2 DEF p
<1>5. CASE h = 1 /\ i = 1
  BY <1>1, <1>2, <1>3, <1>5 DEF p
<1>6. CASE i = Len(q) + 1 + h
  <2>1. Len(q) + 1 \in 1..Len(p) /\ (Len(q) + 1) + h = i
    BY <1>1, <1>6
  <2>2. Pending(l, p)[i] = r
    BY <1>1, <1>2, <2>1
  <2>3. i = Len(Pending(l, q)) + 1
    BY <1>1, <1>3, <1>6
  <2> QED
    BY <2>2, <2>3 DEF p
<1>7. CASE ~(h = 1 /\ i = 1) /\ i # Len(q) + 1 + h
  <2>1. /\ i - h \in 1..Len(p) /\ i - h \in 1..Len(q) /\ (i - h) + h = i
        /\ i \in DOMAIN Pending(l, q)
    BY <1>1, <1>3, <1>4, <1>7
  <2>2. Pending(l, p)[i] = p[i - h] /\ Pending(l, q)[i] = q[i - h] /\ p[i - h] = q[i - h]
    BY <1>1, <1>2, <1>3, <2>1
  <2> QED
    BY <2>1, <2>2 DEF p
<1> QED
  BY <1>5, <1>6, <1>7

\* A wire that loses its last steps, all of them perhaps.
LEMMA ShorterPend ==
  ASSUME LoopOK, WireOK, ConnOK, NEW a \in Agents, loop' = loop,
         NEW n \in 0..Len(wire[a][conn[a]]),
         wire' = [wire EXCEPT ![a][conn[a]] = SubSeq(wire[a][conn[a]], 1, n)],
         NEW b \in Agents, NEW d \in Conns
  PROVE  Taken(b, d)
<1> DEFINE l == loop[b][d]
           q == wire[b][d]
<1>1. l \in LoopState /\ q \in Seq(Report) /\ Pend(b, d) = Pending(l, q)
  BY DEF LoopOK, WireOK, Pend
<1>2. CASE b = a /\ d = conn[a]
  <2>1. wire'[b][d] = SubSeq(q, 1, n)
    BY <1>2 DEF WireOK, ConnOK
  <2>2. Pend(b, d)' = Pending(l, SubSeq(q, 1, n))
    BY <2>1 DEF Pend
  <2>3. n \in 0..Len(q)
    BY <1>2
  <2> HIDE DEF l, q
  <2>4. \A i \in DOMAIN Pend(b, d)' : /\ i \in DOMAIN Pend(b, d)
                                     /\ Pend(b, d)'[i] = Pend(b, d)[i]
    BY <1>1, <2>2, <2>3, PrefixPending
  <2>5. \A i \in DOMAIN Pend(b, d) : i + 0 = i
    BY PendType
  <2> QED
    BY <2>4, <2>5 DEF Taken
<1>3. CASE ~(b = a /\ d = conn[a])
  <2>1. wire'[b][d] = wire[b][d]
    BY <1>3 DEF WireOK
  <2> QED
    BY <2>1, SamePend DEF Pend
<1> QED
  BY <1>2, <1>3

LEMMA TakenStep ==
  ASSUME TaskShape, [TaskNext]_taskVars, NEW b \in Agents, NEW d \in Conns,
         \A a \in Agents, k \in Tasks : ~BeginStage(a, k) /\ ~EndStage(a, k)
  PROVE  Taken(b, d)
<1>0. LoopOK /\ WireOK /\ ConnOK
  BY TypeParts DEF TaskShape
<1>1. ASSUME UNCHANGED <<wire, loop>>
      PROVE  Taken(b, d)
  BY <1>0, <1>1, SamePend DEF Pend
<1>2. ASSUME NEW k \in Tasks, NEW request \in Requests, Dispatch(k, request)
      PROVE  Taken(b, d)
  BY <1>1, <1>2 DEF Dispatch, agentVars
<1>3. ASSUME NEW k \in Tasks, NEW a \in Agents, SendTask(k, a)
      PROVE  Taken(b, d)
  BY <1>1, <1>3 DEF SendTask
<1>4. ASSUME NEW a \in Agents, NEW k \in Tasks, StartTask(a, k)
      PROVE  Taken(b, d)
  BY <1>1, <1>4 DEF StartTask
<1>5. ASSUME NEW a \in Agents, Break(a) \/ Restart(a)
      PROVE  Taken(b, d)
  <2>1. /\ loop' = loop
        /\ \E n \in 0..Len(wire[a][conn[a]]) :
             wire' = [wire EXCEPT ![a][conn[a]] = SubSeq(wire[a][conn[a]], 1, n)]
    BY <1>5 DEF Break, Restart, Disconnect
  <2> QED
    BY <1>0, <2>1, ShorterPend
<1>6. ASSUME NEW a \in Agents, Reconnect(a)
      PROVE  Taken(b, d)
  <2> DEFINE q == wire[a][conn[a]]
  <2>1. loop' = loop /\ wire' = [wire EXCEPT ![a][conn[a]] = <<>>]
    BY <1>6 DEF Reconnect
  <2>2. q \in Seq(Report)
    BY <1>0 DEF WireOK, ConnOK
  <2>3. SubSeq(q, 1, 0) = <<>> /\ 0 \in 0..Len(q)
    BY <2>2, SubSeqEmpty
  <2> QED
    BY <1>0, <2>1, <2>3, ShorterPend
<1>7. ASSUME NEW a \in Agents, NEW c \in Conns, HubRead(a, c)
      PROVE  Taken(b, d)
  BY <1>0, <1>7, HubReadPend, SamePend
<1>8. ASSUME NEW a \in Agents, NEW c \in Conns, HubGet(a, c)
      PROVE  Taken(b, d)
  BY <1>0, <1>8, HubGetPend, SamePend
<1>9. ASSUME NEW a \in Agents, NEW c \in Conns, HubAppend(a, c)
      PROVE  Taken(b, d)
  <2>1. CASE b = a /\ d = c
    <3>1. \A i \in DOMAIN Pend(b, d)' :
            i + 1 \in DOMAIN Pend(b, d) /\ Pend(b, d)'[i] = Pend(b, d)[i + 1]
      BY <1>0, <1>9, <2>1, HubAppendPend
    <3> QED
      BY <3>1 DEF Taken
  <2>2. CASE ~(b = a /\ d = c)
    BY <1>0, <1>9, <2>2, HubAppendPend, SamePend
  <2> QED
    BY <2>1, <2>2
<1>10. ASSUME NEW a \in Agents, NEW c \in Conns, HubSave(a, c)
       PROVE  Taken(b, d)
  BY <1>0, <1>10, HubSavePend, SamePend
<1>11. CASE UNCHANGED taskVars
  BY <1>1, <1>11 DEF taskVars, agentVars
<1> QED
  BY <1>2, <1>3, <1>4, <1>5, <1>6, <1>7, <1>8, <1>9, <1>10, <1>11
  DEF TaskNext, HandlerStep, AgentStep, LoopStep

-----------------------------------------------------------------------------
(* What agents have sent, where it waits and where it is written. *)

\* r is the i-th report that waits on a's c-th connection (readLoop).
Waits(a, c, i, r) == i \in DOMAIN Pend(a, c) /\ r = Pend(a, c)[i]

\* s is the i-th element of an array of task k.
Written(k, i, s) ==
  \E p \in DOMAIN arrays[k] : i \in DOMAIN arrays[k][p] /\ s = arrays[k][p][i]

LEMMA WaitsType ==
  ASSUME TaskShape, NEW a \in Agents, NEW c \in Conns, NEW i, NEW r, Waits(a, c, i, r)
  PROVE  i \in Nat \ {0} /\ r \in Report /\ r.task \in Tasks /\ stored[r.task] # NoTask
<1>0. LoopOK /\ WireOK /\ NothingEarly
  BY TypeParts DEF TaskShape
<1> DEFINE l == loop[a][c]
           q == wire[a][c]
           h == IF l.at \in {"get", "append"} THEN 1 ELSE 0
<1>1. l \in LoopState /\ q \in Seq(Report) /\ Pend(a, c) = Pending(l, q)
  BY <1>0 DEF LoopOK, WireOK, Pend
<1>2. r = Pend(a, c)[i] /\ i \in DOMAIN Pend(a, c)
  BY DEF Waits
<1> HIDE DEF l, q
<1>3. /\ Pending(l, q) \in Seq(Report)
      /\ DOMAIN Pending(l, q) = 1..(Len(q) + h)
      /\ \A j \in 1..Len(q) : Pending(l, q)[j + h] = q[j]
      /\ h = 1 => Pending(l, q)[1] = l.report
  BY <1>1, PendingProperties
<1>4. Len(q) \in Nat /\ h \in {0, 1} /\ DOMAIN q = 1..Len(q)
  BY <1>1
<1>5. i \in Nat \ {0} /\ r \in Report /\ r.task \in Tasks
  <2> DEFINE w == Pending(l, q)
  <2>1. w \in Seq(Report) /\ i \in DOMAIN w /\ r = w[i]
    BY <1>1, <1>2, <1>3
  <2> HIDE DEF w
  <2>2. i \in Nat \ {0} /\ r \in Report
    BY <2>1
  <2> QED
    BY <2>2 DEF Report
<1>6. (h = 1 /\ r = l.report) \/ \E j \in DOMAIN q : r = q[j]
  <2>1. CASE h = 1 /\ i = 1
    BY <1>1, <1>2, <1>3, <2>1
  <2>2. CASE ~(h = 1 /\ i = 1)
    <3> HIDE DEF h
    <3>1. i - h \in 1..Len(q) /\ (i - h) + h = i
      BY <1>1, <1>2, <1>3, <1>4, <2>2
    <3> QED
      BY <1>1, <1>2, <1>3, <1>4, <3>1
  <2> QED
    BY <2>1, <2>2
<1>7. h = 1 => l.at # "read"
  OBVIOUS
<1>8. stored[r.task] # NoTask
  <2> HIDE DEF h
  <2> QED
    BY <1>0, <1>5, <1>6, <1>7 DEF NothingEarly, l, q
<1> QED
  BY <1>5, <1>8

LEMMA WrittenType ==
  ASSUME TaskShape, NEW k \in Tasks, NEW i, NEW s, Written(k, i, s)
  PROVE  i \in Nat \ {0} /\ s \in Step /\ stored[k] # NoTask
<1>0. StoreOK /\ NothingEarly
  BY TypeParts DEF TaskShape
<1> DEFINE arrs == arrays[k]
<1>1. arrs \in Seq(Seq(Step))
  BY <1>0 DEF StoreOK
<1>2. PICK p \in DOMAIN arrs : i \in DOMAIN arrs[p] /\ s = arrs[p][i]
  BY DEF Written
<1> HIDE DEF arrs
<1>3. arrs[p] \in Seq(Step)
  BY <1>1, <1>2
<1>4. i \in Nat \ {0} /\ s \in Step
  BY <1>2, <1>3
<1>5. arrs # <<>>
  BY <1>2
<1> QED
  BY <1>0, <1>4, <1>5 DEF NothingEarly, arrs

\* What waits was sent by the agent, over this connection.
PendingSent ==
  \A a \in Agents, c \in Conns : \A i, r :
    Waits(a, c, i, r) => c <= conn[a] /\ r.step.node = a /\ Sent(r.task, r.step)

\* An array starts with the handler's step; those after it were sent.
ArraysSent ==
  \A k \in Tasks : \A i, s :
    Written(k, i, s) => IF i = 1 THEN s = DispatchStep ELSE Sent(k, s)

\* r is new: sent over the open connection behind all that waits there, with a
\* rank that no step of its agent and task had before (wsClient.send).
NewWait(b, d, i, r) ==
  /\ d = conn[b] /\ i = Len(Pend(b, d)) + 1 /\ r.step.node = b
  /\ Sent(r.task, r.step)' /\ Rank(r.task, r.step)' = Rank(r.task, r.step)
  /\ Rank(r.task, r.step) \in Int /\ NextRank(b, r.task) \in Int
  /\ NextRank(b, r.task) <= Rank(r.task, r.step)
  /\ arrays' = arrays /\ conn' = conn /\ job' = job

\* The step takes o of the waiting reports, and may add a new one.
WaitsFrom(b, d, o) ==
  \A i, r : Waits(b, d, i, r)' => Waits(b, d, i + o, r) \/ (o = 0 /\ NewWait(b, d, i, r))

LEMMA StageWaits ==
  ASSUME TaskShape, NEW a \in Agents, NEW k \in Tasks, NEW name \in StageNames,
         NEW status \in {"running", "success", "fail"}, SendsNext(a, k, name, status),
         NEW b \in Agents, NEW d \in Conns
  PROVE  WaitsFrom(b, d, 0)
<1> DEFINE s == [name |-> name, status |-> status, node |-> a]
           new == [task |-> k, step |-> s]
           q == wire[b][d]
           l == loop[b][d]
<1>0. LoopOK /\ WireOK /\ ConnOK
  BY TypeParts DEF TaskShape
<1>1. /\ Send(a, k, name, status) /\ loop' = loop /\ arrays' = arrays /\ conn' = conn
      /\ job' = job /\ unsent' = unsent /\ toAgent' = toAgent
      /\ a \in job[k].targets /\ a \notin unsent[k] /\ k \notin toAgent[a]
      /\ Rank(k, s) \in Int /\ NextRank(a, k) <= Rank(k, s) /\ Rank(k, s) < NextRank(a, k)'
      /\ NextRank(a, k) \in Int
  BY DEF SendsNext
<1>2. /\ s.name = name /\ s.node = a /\ new.task = k /\ new.step = s /\ name # "dispatch"
      /\ new \in Report
  BY DEF StageNames, Report, Step
<1>3. \/ wire' = wire
      \/ wire' = [wire EXCEPT ![a][conn[a]] = Append(wire[a][conn[a]], new)]
  BY <1>1 DEF Send
<1> HIDE DEF s, new
<1>4. Rank(k, s)' = Rank(k, s)
  BY <1>1 DEF Rank, Pipeline
<1>5. Sent(k, s)'
  BY <1>1, <1>2, <1>4 DEF Sent
<1>6. l \in LoopState /\ q \in Seq(Report) /\ Pend(b, d) = Pending(l, q)
  BY <1>0 DEF LoopOK, WireOK, Pend
<1> HIDE DEF l, q
<1> SUFFICES ASSUME NEW i, NEW r, Waits(b, d, i, r)'
             PROVE  Waits(b, d, i, r) \/ NewWait(b, d, i, r)
  <2>1. ASSUME NEW i, NEW r, Waits(b, d, i, r)'
        PROVE  Waits(b, d, i + 0, r) \/ NewWait(b, d, i, r)
    <3>1. Waits(b, d, i, r) => i + 0 = i
      BY WaitsType
    <3> QED
      BY <2>1, <3>1
  <2> QED
    BY <2>1 DEF WaitsFrom
<1>7. i \in DOMAIN Pend(b, d)' /\ r = Pend(b, d)'[i]
  BY DEF Waits
<1>8. CASE Pend(b, d)' = Pend(b, d)
  BY <1>7, <1>8 DEF Waits
<1>9. CASE Pend(b, d)' # Pend(b, d)
  <2>1. wire'[b][d] # wire[b][d]
    BY <1>1, <1>9 DEF Pend
  <2>2. b = a /\ d = conn[a] /\ wire'[b][d] = Append(q, new)
    <3>1. wire' = [wire EXCEPT ![a][conn[a]] = Append(wire[a][conn[a]], new)]
      BY <1>3, <2>1
    <3> QED
      BY <1>0, <2>1, <3>1 DEF WireOK, ConnOK, q
  <2>3. Pend(b, d)' = Pending(l, Append(q, new))
    BY <1>1, <2>2 DEF Pend, l
  <2>4. \/ i \in DOMAIN Pend(b, d) /\ r = Pend(b, d)[i]
        \/ r = new /\ i = Len(Pend(b, d)) + 1
    BY <1>2, <1>6, <1>7, <2>3, AppendPending
  <2>5. CASE i \in DOMAIN Pend(b, d) /\ r = Pend(b, d)[i]
    BY <2>5 DEF Waits
  <2>6. CASE r = new /\ i = Len(Pend(b, d)) + 1
    <3>1. r.task = k /\ r.step = s
      BY <1>2, <2>6
    <3> QED
      BY <1>1, <1>2, <1>4, <1>5, <2>2, <2>6, <3>1 DEF NewWait
  <2> QED
    BY <2>4, <2>5, <2>6
<1> QED
  BY <1>8, <1>9

LEMMA WaitsStep ==
  ASSUME TaskShape, AllOnTheWay, [TaskNext]_taskVars, NEW b \in Agents, NEW d \in Conns
  PROVE  \E o \in {0, 1} : WaitsFrom(b, d, o)
<1>1. ASSUME NEW a \in Agents, NEW k \in Tasks, BeginStage(a, k) \/ EndStage(a, k)
      PROVE  WaitsFrom(b, d, 0)
  <2>1. OnTheWay(a, k)
    BY DEF AllOnTheWay
  <2>2. PICK name \in StageNames, status \in {"running", "success", "fail"} :
          SendsNext(a, k, name, status)
    BY <1>1, <2>1, StageSends
  <2> QED
    BY <2>2, StageWaits
<1>2. CASE \A a \in Agents, k \in Tasks : ~BeginStage(a, k) /\ ~EndStage(a, k)
  <2>1. PICK o \in {0, 1} : \A i \in DOMAIN Pend(b, d)' :
          i + o \in DOMAIN Pend(b, d) /\ Pend(b, d)'[i] = Pend(b, d)[i + o]
    BY <1>2, TakenStep DEF Taken
  <2>2. WaitsFrom(b, d, o)
    BY <2>1 DEF WaitsFrom, Waits
  <2> QED
    BY <2>2
<1> QED
  BY <1>1, <1>2

\* s is new at place i: the handler's step, or the first report that waited on
\* a connection (handleTaskStep).
NewWritten(k, i, s) ==
  \/ i = 1 /\ s = DispatchStep /\ stored[k] = NoTask
  \/ /\ i \in Nat \ {0, 1}
     /\ \E a \in Agents, c \in Conns, r \in Report :
          /\ Waits(a, c, 1, r) /\ r.task = k /\ r.step = s
          /\ \A j, q : Waits(a, c, j, q)' => Waits(a, c, j + 1, q)

WrittenFrom(k, n, e) ==
  \A i, s : Written(k, i, s)' =>
    Written(k, i, s) \/ (i = n /\ s = e /\ NewWritten(k, n, e))

LEMMA SameWritten ==
  ASSUME NEW k \in Tasks, arrays'[k] = arrays[k], NEW n, NEW e
  PROVE  WrittenFrom(k, n, e)
  BY DEF WrittenFrom, Written

LEMMA DispatchWritten ==
  ASSUME TaskShape, NEW j \in Tasks, NEW request \in Requests, Dispatch(j, request),
         NEW k \in Tasks
  PROVE  \E n, e : WrittenFrom(k, n, e)
<1>0. StoreOK
  BY TypeParts DEF TaskShape
<1> DEFINE first == <<DispatchStep>>
           arrs == <<first>>
<1>1. arrays' = [arrays EXCEPT ![j] = arrs] /\ stored[j] = NoTask
  BY DEF Dispatch
<1>2. DOMAIN first = {1} /\ first[1] = DispatchStep /\ DOMAIN arrs = {1} /\ arrs[1] = first
  OBVIOUS
<1> HIDE DEF first, arrs
<1>3. CASE k = j
  <2>1. arrays'[k] = arrs
    BY <1>0, <1>1, <1>3 DEF StoreOK
  <2>2. \A i, s : Written(k, i, s)' => i = 1 /\ s = DispatchStep
    BY <1>2, <2>1 DEF Written
  <2>3. NewWritten(k, 1, DispatchStep)
    BY <1>1, <1>3 DEF NewWritten
  <2>4. WrittenFrom(k, 1, DispatchStep)
    BY <2>2, <2>3 DEF WrittenFrom
  <2> QED
    BY <2>4
<1>4. CASE k # j
  <2>1. arrays'[k] = arrays[k]
    BY <1>0, <1>1, <1>4 DEF StoreOK
  <2> QED
    BY <2>1, SameWritten
<1> QED
  BY <1>3, <1>4

LEMMA AppendWritten ==
  ASSUME TaskShape, NEW a \in Agents, NEW c \in Conns, HubAppend(a, c), NEW k \in Tasks
  PROVE  \E n, e : WrittenFrom(k, n, e)
<1>0. LoopOK /\ WireOK /\ StoreOK /\ SlicesFit
  BY TypeParts DEF TaskShape
<1> DEFINE r == loop[a][c].report
           s == loop[a][c].slice
           old == arrays[r.task]
           new == Appended(old, s, r.step)
           g == GrownArray(old, s)
           e == r.step
           n == s.len + 1
<1>1. loop[a][c].at = "append" /\ arrays' = [arrays EXCEPT ![r.task] = new]
  BY DEF HubAppend
<1>2. r \in Report /\ r.task \in Tasks /\ s \in Slice /\ e \in Step
  BY <1>0, <1>1, LoopParts DEF Holding, Report
<1>3. Fits(s, old) /\ old \in Seq(Seq(Step))
  BY <1>0, <1>1, <1>2 DEF SlicesFit, StoreOK, Holding
<1>4. CASE r.task # k
  <2>1. arrays'[k] = arrays[k]
    BY <1>0, <1>1, <1>4 DEF StoreOK
  <2> QED
    BY <2>1, SameWritten
<1>5. CASE r.task = k
  <2>1. arrays'[k] = new /\ old = arrays[k]
    BY <1>0, <1>1, <1>5 DEF StoreOK
  <2>2. Waits(a, c, 1, r) /\ \A j, q : Waits(a, c, j, q)' => Waits(a, c, j + 1, q)
    BY <1>0, HubAppendPend DEF Waits
  <2>3. n \in Nat \ {0, 1}
    BY <1>2 DEF Slice
  <2>4. NewWritten(k, n, e)
    <3> HIDE DEF n, r
    <3> QED
      BY <1>2, <1>5, <2>2, <2>3 DEF NewWritten
  <2>5. /\ new = Appended(old, s, e) /\ g = GrownArray(old, s)
    OBVIOUS
  <2> HIDE DEF old, s, e, r, new, g
  <2>6. \A p : p \in DOMAIN new <=> p \in DOMAIN old \/ p = g
    BY <1>2, <1>3, <2>5, AppendedProperties
  <2>7. \A p \in DOMAIN old : p # g => new[p] = old[p]
    BY <1>2, <1>3, <2>5, AppendedProperties
  <2>8. new[g][n] = e
    BY <1>2, <1>3, <2>5, AppendedProperties
  <2>9. \A i \in DOMAIN new[g] : i # n => i \in DOMAIN old[s.array] /\ new[g][i] = old[s.array][i]
    BY <1>2, <1>3, <2>5, AppendedProperties
  <2>10. s.array \in DOMAIN old
    BY <1>3 DEF Fits
  <2> HIDE DEF n
  <2>11. ASSUME NEW i, NEW x, Written(k, i, x)'
         PROVE  Written(k, i, x) \/ (i = n /\ x = e)
    <3>1. PICK p \in DOMAIN new : i \in DOMAIN new[p] /\ x = new[p][i]
      BY <2>1, <2>11 DEF Written
    <3>2. CASE p # g
      BY <2>1, <2>6, <2>7, <3>1, <3>2 DEF Written
    <3>3. CASE p = g
      BY <2>1, <2>8, <2>9, <2>10, <3>1, <3>3 DEF Written
    <3> QED
      BY <3>2, <3>3
  <2>12. WrittenFrom(k, n, e)
    BY <2>4, <2>11 DEF WrittenFrom
  <2> QED
    BY <2>12
<1> QED
  BY <1>4, <1>5

LEMMA SaveWritten ==
  ASSUME TaskShape, NEW a \in Agents, NEW c \in Conns, HubSave(a, c), NEW k \in Tasks
  PROVE  \E n, e : WrittenFrom(k, n, e)
<1> DEFINE j == loop[a][c].report.task
<1>1. /\ \A i \in Tasks : i # j => arrays'[i] = arrays[i]
      /\ \A p : p \in DOMAIN arrays'[j] <=> p \in DOMAIN arrays[j]
      /\ \A p \in DOMAIN arrays[j] :
           /\ Len(arrays'[j][p]) <= Len(arrays[j][p])
           /\ \A i \in DOMAIN arrays'[j][p] : arrays'[j][p][i] = arrays[j][p][i]
      /\ arrays'[j] \in Seq(Seq(Step)) /\ j \in Tasks
  BY SavedArrays, SavedSlices
<1>0. StoreOK
  BY TypeParts DEF TaskShape
<1> HIDE DEF j
<1>2. CASE j # k
  BY <1>1, <1>2, SameWritten
<1>3. CASE j = k
  <2>1. ASSUME NEW p \in DOMAIN arrays[k], NEW i \in DOMAIN arrays'[k][p]
        PROVE  i \in DOMAIN arrays[k][p]
    <3> DEFINE old == arrays[k]
               new == arrays'[k]
    <3>1. old \in Seq(Seq(Step)) /\ new \in Seq(Seq(Step)) /\ p \in DOMAIN old /\ p \in DOMAIN new
      BY <1>0, <1>1, <1>3 DEF StoreOK
    <3>2. Len(new[p]) <= Len(old[p])
      BY <1>1, <1>3
    <3>3. i \in DOMAIN new[p]
      BY <2>1
    <3> HIDE DEF old, new
    <3>4. new[p] \in Seq(Step) /\ old[p] \in Seq(Step)
      BY <3>1
    <3>5. i \in DOMAIN old[p]
      BY <3>2, <3>3, <3>4
    <3> QED
      BY <3>5 DEF old
  <2>2. \A i, s : Written(k, i, s)' => Written(k, i, s)
    BY <1>1, <1>3, <2>1 DEF Written
  <2>3. WrittenFrom(k, 1, DispatchStep)
    BY <2>2 DEF WrittenFrom
  <2> QED
    BY <2>3
<1> QED
  BY <1>2, <1>3

LEMMA WrittenStep ==
  ASSUME TaskShape, [TaskNext]_taskVars, NEW k \in Tasks
  PROVE  \E n, e : WrittenFrom(k, n, e)
<1>1. ASSUME arrays' = arrays
      PROVE  \E n, e : WrittenFrom(k, n, e)
  BY <1>1, SameWritten
<1>2. ASSUME NEW j \in Tasks, NEW request \in Requests, Dispatch(j, request)
      PROVE  \E n, e : WrittenFrom(k, n, e)
  BY <1>2, DispatchWritten
<1>3. ASSUME NEW a \in Agents, NEW c \in Conns, HubAppend(a, c)
      PROVE  \E n, e : WrittenFrom(k, n, e)
  BY <1>3, AppendWritten
<1>4. ASSUME NEW a \in Agents, NEW c \in Conns, HubSave(a, c)
      PROVE  \E n, e : WrittenFrom(k, n, e)
  BY <1>4, SaveWritten
<1>5. ASSUME NEW j \in Tasks, NEW a \in Agents,
             SendTask(j, a) \/ StartTask(a, j) \/ BeginStage(a, j) \/ EndStage(a, j)
      PROVE  arrays' = arrays
  BY <1>5 DEF SendTask, StartTask, BeginStage, EndStage
<1>6. ASSUME NEW a \in Agents, Break(a) \/ Restart(a) \/ Reconnect(a)
      PROVE  arrays' = arrays
  BY <1>6 DEF Break, Restart, Disconnect, Reconnect
<1>7. ASSUME NEW a \in Agents, NEW c \in Conns, HubRead(a, c) \/ HubGet(a, c)
      PROVE  arrays' = arrays
  BY <1>7 DEF HubRead, HubGet
<1>8. CASE UNCHANGED taskVars
  BY <1>1, <1>8 DEF taskVars
<1> QED
  BY <1>1, <1>2, <1>3, <1>4, <1>5, <1>6, <1>7, <1>8
  DEF TaskNext, HandlerStep, AgentStep, LoopStep

Before(c, i, d, j) == c < d \/ (c = d /\ i < j)

\* The steps of a task that wait for one agent's loops are in the order of its
\* pipeline, those of older connections first.
PendingInOrder ==
  \A a \in Agents, c, d \in Conns : \A i, j, r, q :
    Waits(a, c, i, r) /\ Waits(a, d, j, q) /\ r.task = q.task /\ Before(c, i, d, j)
      => Rank(r.task, r.step) < Rank(r.task, q.step)

\* A step that waits is in no array, and without a reconnect all those of its
\* agent that are were sent before it.
PendingNew ==
  \A a \in Agents, c \in Conns : \A i, r, j, s :
    Waits(a, c, i, r) /\ Written(r.task, j, s) /\ j # 1 /\ s.node = a =>
      /\ Rank(r.task, s) # Rank(r.task, r.step)
      /\ conn[a] = 1 => Rank(r.task, s) < Rank(r.task, r.step)

\* All arrays that have a step have it at the same place.
OnePlace ==
  \A k \in Tasks : \A i, j, s : Written(k, i, s) /\ Written(k, j, s) => i = j

Flow == /\ AllOnTheWay /\ PendingSent /\ ArraysSent
        /\ PendingInOrder /\ PendingNew /\ OnePlace

\* Connections are numbered upwards (Register).
LEMMA ConnGrows ==
  ASSUME ConnOK, [TaskNext]_taskVars, NEW a \in Agents
  PROVE  conn'[a] \in {conn[a], conn[a] + 1} /\ conn[a] \in Nat \ {0}
<1>1. conn[a] \in Nat \ {0}
  BY TaskAssumption DEF ConnOK, Conns
<1>2. ASSUME conn' = conn
      PROVE  conn'[a] \in {conn[a], conn[a] + 1}
  BY <1>2
<1>3. ASSUME NEW b \in Agents, Reconnect(b)
      PROVE  conn'[a] \in {conn[a], conn[a] + 1}
  <2>1. conn' = [conn EXCEPT ![b] = conn[b] + 1]
    BY <1>3 DEF Reconnect
  <2> QED
    BY <2>1 DEF ConnOK
<1>4. ASSUME NEW b \in Agents, Break(b) \/ Restart(b)
      PROVE  conn' = conn
  BY <1>4 DEF Break, Restart, Disconnect
<1>5. ASSUME NEW k \in Tasks, NEW request \in Requests, Dispatch(k, request)
      PROVE  conn' = conn
  BY <1>5 DEF Dispatch, agentVars
<1>6. ASSUME NEW k \in Tasks, NEW b \in Agents,
             SendTask(k, b) \/ StartTask(b, k) \/ BeginStage(b, k) \/ EndStage(b, k)
      PROVE  conn' = conn
  BY <1>6 DEF SendTask, StartTask, BeginStage, EndStage
<1>7. ASSUME NEW b \in Agents, NEW c \in Conns, LoopStep(b, c)
      PROVE  conn' = conn
  BY <1>7 DEF LoopStep, HubRead, HubGet, HubAppend, HubSave, agentVars
<1>8. CASE UNCHANGED taskVars
  BY <1>8, <1>1 DEF taskVars, agentVars
<1> QED
  BY <1>1, <1>2, <1>3, <1>4, <1>5, <1>6, <1>7, <1>8 DEF TaskNext, HandlerStep, AgentStep

LEMMA FlowInit == TaskInit => Flow
<1> SUFFICES ASSUME TaskInit
             PROVE  Flow
  OBVIOUS
<1>1. /\ \A a \in Agents, c \in Conns : wire[a][c] = <<>> /\ loop[a][c].at = "read"
      /\ \A k \in Tasks : arrays[k] = <<>> /\ unsent[k] = {}
      /\ \A a \in Agents : toAgent[a] = {} /\ \A k \in Tasks : pipeline[a][k] = NotStarted
  BY DEF TaskInit, Idle
<1>2. \A a \in Agents, c \in Conns : \A i, r : ~Waits(a, c, i, r)
  <2>1. DOMAIN <<>> = {}
    OBVIOUS
  <2> QED
    BY <1>1, <2>1 DEF Waits, Pend, Pending
<1>3. \A k \in Tasks : \A i, s : ~Written(k, i, s)
  <2>1. DOMAIN <<>> = {}
    OBVIOUS
  <2> QED
    BY <1>1, <2>1 DEF Written
<1>4. AllOnTheWay
  BY <1>1 DEF AllOnTheWay, OnTheWay, NotStarted
<1>5. PendingSent /\ PendingInOrder /\ PendingNew
  BY <1>2 DEF PendingSent, PendingInOrder, PendingNew
<1>6. ArraysSent /\ OnePlace
  BY <1>3 DEF ArraysSent, OnePlace
<1> QED
  BY <1>4, <1>5, <1>6 DEF Flow

\* What waits or is written keeps its rank (runStage).
LEMMA WaitsKeeps ==
  ASSUME TaskShape, AllOnTheWay, PendingSent, [TaskNext]_taskVars,
         NEW a \in Agents, NEW c \in Conns, NEW i, NEW r, Waits(a, c, i, r)
  PROVE  /\ Sent(r.task, r.step)' /\ Rank(r.task, r.step)' = Rank(r.task, r.step)
         /\ Rank(r.task, r.step) \in Int /\ NextRank(a, r.task) \in Int
         /\ Rank(r.task, r.step) < NextRank(a, r.task)
         /\ r.step.node = a /\ c <= conn[a] /\ r.task \in Tasks
<1>1. r.task \in Tasks /\ stored[r.task] # NoTask
  BY WaitsType
<1>2. Sent(r.task, r.step) /\ r.step.node = a /\ c <= conn[a]
  BY DEF PendingSent
<1>3. Sent(r.task, r.step)' /\ Rank(r.task, r.step)' = Rank(r.task, r.step)
  BY <1>1, <1>2, SentStays
<1>4. PipelineOK /\ HandlerOK
  BY TypeParts DEF TaskShape
<1>5. NextRank(a, r.task) \in Int
  BY <1>1, <1>4, NextRankType
<1> QED
  BY <1>1, <1>2, <1>3, <1>5 DEF Sent

LEMMA WrittenKeeps ==
  ASSUME TaskShape, AllOnTheWay, ArraysSent, [TaskNext]_taskVars,
         NEW k \in Tasks, NEW i, NEW s, Written(k, i, s), i # 1
  PROVE  /\ Sent(k, s)' /\ Rank(k, s)' = Rank(k, s) /\ Rank(k, s) \in Int
         /\ NextRank(s.node, k) \in Int /\ Rank(k, s) < NextRank(s.node, k)
<1>1. stored[k] # NoTask
  BY WrittenType
<1>2. Sent(k, s)
  BY DEF ArraysSent
<1>3. Sent(k, s)' /\ Rank(k, s)' = Rank(k, s)
  BY <1>1, <1>2, SentStays
<1>4. PipelineOK /\ HandlerOK
  BY TypeParts DEF TaskShape
<1>5. s.node \in Agents
  BY <1>2 DEF Sent
<1> DEFINE a == s.node
<1> HIDE DEF a
<1>6. NextRank(a, k) \in Int
  BY <1>4, <1>5, NextRankType DEF a
<1> QED
  BY <1>2, <1>3, <1>6 DEF Sent, a

LEMMA SentStep ==
  ASSUME TaskShape, Flow, [TaskNext]_taskVars
  PROVE  AllOnTheWay' /\ PendingSent' /\ ArraysSent'
<1>0. AllOnTheWay /\ PendingSent /\ ArraysSent /\ ConnOK
  BY TypeParts DEF TaskShape, Flow
<1>1. AllOnTheWay'
  BY <1>0, AdvancesStep DEF AllOnTheWay, Advances
<1>2. ASSUME NEW a \in Agents, NEW c \in Conns, NEW i, NEW r, Waits(a, c, i, r)'
      PROVE  c <= conn'[a] /\ r.step.node = a /\ Sent(r.task, r.step)'
  <2>1. PICK o \in {0, 1} : WaitsFrom(a, c, o)
    BY <1>0, WaitsStep
  <2>2. conn'[a] \in {conn[a], conn[a] + 1} /\ conn[a] \in Nat \ {0} /\ c \in Int
    BY <1>0, ConnGrows DEF Conns
  <2>3. CASE Waits(a, c, i + o, r)
    BY <1>0, <2>2, <2>3, WaitsKeeps
  <2>4. CASE NewWait(a, c, i, r)
    BY <2>2, <2>4 DEF NewWait
  <2> QED
    BY <1>2, <2>1, <2>3, <2>4 DEF WaitsFrom
<1>3. PendingSent'
  BY <1>2 DEF PendingSent
<1>4. ASSUME NEW k \in Tasks, NEW i, NEW s, Written(k, i, s)'
      PROVE  IF i = 1 THEN s = DispatchStep ELSE Sent(k, s)'
  <2>1. Written(k, i, s) \/ NewWritten(k, i, s)
    BY <1>4, WrittenStep DEF WrittenFrom
  <2>2. CASE Written(k, i, s)
    <3>1. i = 1 => s = DispatchStep
      BY <1>0, <2>2 DEF ArraysSent
    <3> QED
      BY <1>0, <2>2, <3>1, WrittenKeeps
  <2>3. ASSUME NEW a \in Agents, NEW c \in Conns, NEW r, Waits(a, c, 1, r),
               r.task = k, r.step = s
        PROVE  Sent(k, s)'
    <3>1. Sent(r.task, r.step)'
      BY <1>0, <2>3, WaitsKeeps
    <3> QED
      BY <2>3, <3>1
  <2> QED
    BY <2>1, <2>2, <2>3 DEF NewWritten
<1>5. ArraysSent'
  BY <1>4 DEF ArraysSent
<1> QED
  BY <1>1, <1>3, <1>5

LEMMA NewWaitAbove ==
  ASSUME NEW b, NEW d, NEW i, NEW r, NewWait(b, d, i, r)
  PROVE  /\ d = conn[b] /\ i = Len(Pend(b, d)) + 1 /\ r.step.node = b
         /\ Rank(r.task, r.step)' = Rank(r.task, r.step)
         /\ Rank(r.task, r.step) \in Int /\ NextRank(b, r.task) \in Int
         /\ NextRank(b, r.task) <= Rank(r.task, r.step)
         /\ arrays' = arrays /\ conn' = conn
  BY DEF NewWait

LEMMA NextWaitsType ==
  ASSUME TaskShape, [TaskNext]_taskVars, NEW a \in Agents, NEW c \in Conns,
         NEW i, NEW r, Waits(a, c, i, r)'
  PROVE  i \in Nat \ {0} /\ r.task \in Tasks
<1>1. LoopOK' /\ WireOK'
  BY TaskShapeStep, TypePartsNext DEF TaskShape
<1>2. loop'[a][c] \in LoopState /\ wire'[a][c] \in Seq(Report)
  BY <1>1 DEF LoopOK, WireOK
<1>3. Pending(loop'[a][c], wire'[a][c]) \in Seq(Report)
  BY <1>2, PendingProperties
<1> DEFINE w == Pend(a, c)'
<1>4. w \in Seq(Report) /\ i \in DOMAIN w /\ r = w[i]
  BY <1>3 DEF Pend, Waits
<1> HIDE DEF w
<1>5. i \in Nat \ {0} /\ r \in Report
  BY <1>4
<1> QED
  BY <1>5 DEF Report

LEMMA InOrderStep ==
  ASSUME TaskShape, Flow, [TaskNext]_taskVars
  PROVE  PendingInOrder'
<1>0. /\ AllOnTheWay /\ PendingSent /\ PendingInOrder /\ ConnOK /\ LoopOK /\ WireOK
  BY TypeParts DEF TaskShape, Flow
<1> SUFFICES ASSUME NEW a \in Agents, NEW c \in Conns, NEW d \in Conns,
                    NEW i, NEW j, NEW r, NEW q,
                    Waits(a, c, i, r)', Waits(a, d, j, q)', r.task = q.task,
                    Before(c, i, d, j)
             PROVE  Rank(r.task, r.step)' < Rank(r.task, q.step)'
  BY DEF PendingInOrder
<1> DEFINE k == r.task
<1>1. PICK o \in {0, 1} : WaitsFrom(a, c, o)
  BY <1>0, WaitsStep
<1>2. PICK u \in {0, 1} : WaitsFrom(a, d, u) /\ (c = d => u = o)
  BY <1>0, <1>1, WaitsStep
<1>3. /\ Waits(a, c, i + o, r) \/ (o = 0 /\ NewWait(a, c, i, r))
      /\ Waits(a, d, j + u, q) \/ (u = 0 /\ NewWait(a, d, j, q))
  BY <1>1, <1>2 DEF WaitsFrom
<1>4. c \in Int /\ d \in Int
  BY DEF Conns
<1>5. i \in Nat /\ j \in Nat
  BY NextWaitsType
<1>6. CASE Waits(a, c, i + o, r) /\ Waits(a, d, j + u, q)
  <2>1. Before(c, i + o, d, j + u)
    BY <1>2, <1>5 DEF Before
  <2>2. Rank(k, r.step) < Rank(k, q.step)
    BY <1>0, <1>6, <2>1 DEF PendingInOrder
  <2>3. Rank(k, r.step)' = Rank(k, r.step)
    BY <1>0, <1>6, WaitsKeeps
  <2>4. Rank(k, q.step)' = Rank(k, q.step)
    BY <1>0, <1>6, WaitsKeeps
  <2> QED
    BY <2>2, <2>3, <2>4
<1>7. CASE Waits(a, c, i + o, r) /\ u = 0 /\ NewWait(a, d, j, q)
  <2>1. /\ Rank(k, r.step)' = Rank(k, r.step) /\ Rank(k, r.step) < NextRank(a, k)
        /\ Rank(k, r.step) \in Int
    BY <1>0, <1>7, WaitsKeeps
  <2>2. /\ Rank(k, q.step)' = Rank(k, q.step) /\ NextRank(a, k) <= Rank(k, q.step)
        /\ Rank(k, q.step) \in Int /\ NextRank(a, k) \in Int
    BY <1>7, NewWaitAbove
  <2> HIDE DEF k
  <2> QED
    BY <2>1, <2>2 DEF k
<1>8. CASE o = 0 /\ NewWait(a, c, i, r) /\ Waits(a, d, j + u, q)
  <2>1. c = conn[a] /\ i = Len(Pend(a, c)) + 1
    BY <1>8, NewWaitAbove
  <2>2. d <= conn[a]
    BY <1>0, <1>8 DEF PendingSent
  <2>3. c = d /\ i < j
    BY <1>4, <2>1, <2>2 DEF Before
  <2>4. j \in DOMAIN Pend(a, c)
    BY <1>2, <1>5, <1>8, <2>3 DEF Waits
  <2>5. Pend(a, c) \in Seq(Report)
    BY <1>0, PendType
  <2>6. j <= Len(Pend(a, c)) /\ Len(Pend(a, c)) \in Nat
    BY <2>4, <2>5
  <2> QED
    BY <1>5, <2>1, <2>3, <2>6
<1>9. CASE NewWait(a, c, i, r) /\ NewWait(a, d, j, q)
  <2>1. c = conn[a] /\ i = Len(Pend(a, c)) + 1 /\ d = conn[a] /\ j = Len(Pend(a, d)) + 1
    BY <1>9, NewWaitAbove
  <2> QED
    BY <1>4, <1>5, <2>1 DEF Before
<1> QED
  BY <1>3, <1>6, <1>7, <1>8, <1>9

LEMMA PendingNewStep ==
  ASSUME TaskShape, Flow, [TaskNext]_taskVars
  PROVE  PendingNew'
<1>0. /\ AllOnTheWay /\ PendingSent /\ ArraysSent /\ PendingInOrder /\ PendingNew /\ ConnOK
  BY TypeParts DEF TaskShape, Flow
<1> SUFFICES ASSUME NEW a \in Agents, NEW c \in Conns, NEW i, NEW r, NEW j, NEW s,
                    Waits(a, c, i, r)', Written(r.task, j, s)', j # 1, s.node = a
             PROVE  /\ Rank(r.task, s)' # Rank(r.task, r.step)'
                    /\ conn'[a] = 1 => Rank(r.task, s)' < Rank(r.task, r.step)'
  BY DEF PendingNew
<1> DEFINE k == r.task
<1>1. PICK o \in {0, 1} : WaitsFrom(a, c, o)
  BY <1>0, WaitsStep
<1>2. Waits(a, c, i + o, r) \/ (o = 0 /\ NewWait(a, c, i, r))
  BY <1>1 DEF WaitsFrom
<1>3. conn'[a] = 1 => conn[a] = 1
  BY <1>0, ConnGrows
<1>4. CASE NewWait(a, c, i, r)
  <2>1. /\ Rank(k, r.step)' = Rank(k, r.step) /\ NextRank(a, k) <= Rank(k, r.step)
        /\ Rank(k, r.step) \in Int /\ NextRank(a, k) \in Int
        /\ arrays' = arrays
    BY <1>4, NewWaitAbove
  <2>2. Written(k, j, s)
    BY <2>1 DEF Written
  <2>3. k \in Tasks
    BY NextWaitsType
  <2>4. Rank(k, s)' = Rank(k, s) /\ Rank(k, s) \in Int /\ Rank(k, s) < NextRank(a, k)
    BY <1>0, <2>2, <2>3, WrittenKeeps
  <2> HIDE DEF k
  <2> QED
    BY <2>1, <2>4 DEF k
<1>5. CASE Waits(a, c, i + o, r)
  <2>1. /\ Rank(k, r.step)' = Rank(k, r.step) /\ Rank(k, r.step) \in Int
        /\ k \in Tasks /\ c <= conn[a]
    BY <1>0, <1>5, WaitsKeeps
  <2>2. Written(k, j, s) \/ NewWritten(k, j, s)
    BY <2>1, WrittenStep DEF WrittenFrom
  <2>3. CASE Written(k, j, s)
    <3>1. Rank(k, s)' = Rank(k, s)
      BY <1>0, <2>1, <2>3, WrittenKeeps
    <3>2. /\ Rank(k, s) # Rank(k, r.step)
          /\ conn[a] = 1 => Rank(k, s) < Rank(k, r.step)
      BY <1>0, <1>5, <2>3 DEF PendingNew
    <3> QED
      BY <1>3, <2>1, <3>1, <3>2
  <2>4. CASE NewWritten(k, j, s)
    <3>1. PICK b \in Agents, d \in Conns, q \in Report :
            /\ Waits(b, d, 1, q) /\ q.task = k /\ q.step = s
            /\ \A x, y : Waits(b, d, x, y)' => Waits(b, d, x + 1, y)
      BY <2>4 DEF NewWritten
    <3>2. /\ Rank(k, s)' = Rank(k, s) /\ Rank(k, s) \in Int /\ b = a /\ d <= conn[a]
      BY <1>0, <3>1, WaitsKeeps
    <3>3. i + o \in Nat \ {0} /\ c \in Nat \ {0} /\ d \in Nat \ {0} /\ conn[a] \in Nat
      BY <1>0, <1>5, WaitsType, ConnGrows DEF Conns
    <3>4. CASE c = d
      <4>1. Waits(a, c, i + 1, r)
        BY <3>1, <3>2, <3>4
      <4>2. i \in Nat \ {0}
        BY NextWaitsType
      <4>4. Before(d, 1, c, i + 1)
        BY <3>4, <4>2 DEF Before
      <4>5. Rank(k, s) < Rank(k, r.step)
        BY <1>0, <3>1, <3>2, <4>1, <4>4 DEF PendingInOrder
      <4> QED
        BY <2>1, <3>2, <4>5
    <3>5. CASE d < c
      <4>1. Before(d, 1, c, i + o)
        BY <3>5 DEF Before
      <4>2. Rank(k, s) < Rank(k, r.step)
        BY <1>0, <1>5, <3>1, <3>2, <4>1 DEF PendingInOrder
      <4> QED
        BY <2>1, <3>2, <4>2
    <3>6. CASE c < d
      <4>1. Before(c, i + o, d, 1)
        BY <3>6 DEF Before
      <4>2. Rank(k, r.step) < Rank(k, s)
        BY <1>0, <1>5, <3>1, <3>2, <4>1 DEF PendingInOrder
      <4>3. conn[a] # 1
        BY <3>2, <3>3, <3>6
      <4> QED
        BY <1>3, <2>1, <3>2, <4>2, <4>3
    <3> QED
      BY <3>3, <3>4, <3>5, <3>6
  <2> QED
    BY <2>2, <2>3, <2>4
<1> QED
  BY <1>2, <1>4, <1>5

LEMMA OnePlaceStep ==
  ASSUME TaskShape, Flow, [TaskNext]_taskVars
  PROVE  OnePlace'
<1>0. /\ AllOnTheWay /\ PendingSent /\ ArraysSent /\ PendingNew /\ OnePlace
  BY DEF Flow
<1> SUFFICES ASSUME NEW k \in Tasks, NEW i, NEW j, NEW s,
                    Written(k, i, s)', Written(k, j, s)'
             PROVE  i = j
  BY DEF OnePlace
<1>1. PICK n, e : WrittenFrom(k, n, e)
  BY WrittenStep
<1>2. /\ Written(k, i, s) \/ (i = n /\ s = e /\ NewWritten(k, n, e))
      /\ Written(k, j, s) \/ (j = n /\ s = e /\ NewWritten(k, n, e))
  BY <1>1 DEF WrittenFrom
\* A step that is appended was in no array yet.
<1>3. ASSUME NewWritten(k, n, e), NEW m, Written(k, m, e)
      PROVE  FALSE
  <2>1. stored[k] # NoTask
    BY <1>3, WrittenType
  <2>2. PICK a \in Agents, c \in Conns, r \in Report :
          Waits(a, c, 1, r) /\ r.task = k /\ r.step = e
    BY <1>3, <2>1 DEF NewWritten
  <2>3. e.node = a /\ e.name # "dispatch"
    <3>1. Sent(r.task, r.step) /\ r.step.node = a
      BY <1>0, <2>2 DEF PendingSent
    <3> QED
      BY <2>2, <3>1 DEF Sent
  <2>4. m # 1
    BY <1>0, <1>3, <2>3 DEF ArraysSent, DispatchStep
  <2>5. Rank(k, e) # Rank(k, e)
    BY <1>0, <1>3, <2>2, <2>3, <2>4 DEF PendingNew
  <2> QED
    BY <2>5
<1>4. CASE Written(k, i, s) /\ Written(k, j, s)
  BY <1>0, <1>4 DEF OnePlace
<1> QED
  BY <1>2, <1>3, <1>4

LEMMA FlowStep == TaskShape /\ Flow /\ [TaskNext]_taskVars => Flow'
  BY SentStep, InOrderStep, PendingNewStep, OnePlaceStep DEF Flow

LEMMA FlowAlways == TaskSpec => [](TaskShape /\ Flow)
  BY TaskShapeInit, TaskShapeStep, FlowInit, FlowStep, PTL DEF TaskSpec

\* No step is ever stored twice, whatever is lost, overwritten, or sent over a
\* new connection while the old one's loop is at work (handleTaskStep).
THEOREM StepsStoredOnce == TaskSpec => []StoredOnce
<1>1. ASSUME TaskShape, Flow
      PROVE  StoredOnce
  <2> SUFFICES ASSUME NEW k \in Tasks, NEW i \in DOMAIN Steps(k), NEW j \in DOMAIN Steps(k),
                      Steps(k)[i] = Steps(k)[j]
               PROVE  i = j
    BY <1>1 DEF StoredOnce
  <2>1. CASE stored[k] = NoTask
    BY <2>1 DEF Steps
  <2>2. CASE stored[k] # NoTask
    <3>1. StoreOK /\ StoredFits
      BY <1>1, TypeParts DEF TaskShape
    <3> DEFINE p == stored[k].array
               n == stored[k].len
               a == arrays[k][p]
    <3>2. Steps(k) = SubSeq(a, 1, n)
      BY <2>2 DEF Steps
    <3>3. /\ p \in DOMAIN arrays[k] /\ n \in 0..Len(a) /\ a \in Seq(Step)
      BY <2>2, <3>1 DEF StoreOK, StoredFits, Fits, StoredTask
    <3> HIDE DEF a, n
    <3>4. \A m \in DOMAIN Steps(k) : m \in DOMAIN a /\ Steps(k)[m] = a[m]
      BY <3>2, <3>3
    <3>5. Written(k, i, Steps(k)[i]) /\ Written(k, j, Steps(k)[j])
      BY <3>3, <3>4 DEF Written, a
    <3> QED
      BY <1>1, <3>5 DEF Flow, OnePlace
  <2> QED
    BY <2>1, <2>2
<1> QED
  BY <1>1, FlowAlways, PTL

-----------------------------------------------------------------------------
(* A task that one read loop handles. *)

\* What a step does to one read loop, and to the record and arrays of a task.
LEMMA LoopChange ==
  ASSUME TaskShape, [TaskNext]_taskVars, NEW b \in Agents, NEW d \in Conns
  PROVE  loop'[b][d] = loop[b][d] \/ LoopStep(b, d)
<1>0. LoopOK
  BY TypeParts DEF TaskShape
<1>1. ASSUME loop' = loop
      PROVE  loop'[b][d] = loop[b][d]
  BY <1>1
<1>2. ASSUME NEW a \in Agents, NEW c \in Conns, LoopStep(a, c), ~(a = b /\ c = d)
      PROVE  loop'[b][d] = loop[b][d]
  <2> DEFINE l == loop[a][c]
             r == [at |-> "get", report |-> Received(wire[a][c])]
             t == stored[l.report.task]
             g == [at |-> "append", report |-> l.report,
                   slice |-> [array |-> t.array, len |-> t.len]]
             p == [at |-> "save", report |-> l.report,
                   slice |-> AppendedSlice(arrays[l.report.task], l.slice)]
  <2>1. \E x \in {r, g, p, Idle} : loop' = [loop EXCEPT ![a][c] = x]
    <3>1. CASE HubRead(a, c)
      BY <3>1 DEF HubRead
    <3>2. CASE HubGet(a, c)
      BY <3>2 DEF HubGet
    <3>3. CASE HubAppend(a, c)
      BY <3>3 DEF HubAppend
    <3>4. CASE HubSave(a, c)
      BY <3>4 DEF HubSave
    <3> QED
      BY <1>2, <3>1, <3>2, <3>3, <3>4 DEF LoopStep
  <2> HIDE DEF r, g, p
  <2> QED
    BY <1>0, <1>2, <2>1 DEF LoopOK
<1>3. ASSUME NEW j \in Tasks, NEW a \in Agents,
             SendTask(j, a) \/ StartTask(a, j) \/ BeginStage(a, j) \/ EndStage(a, j)
      PROVE  loop' = loop
  BY <1>3 DEF SendTask, StartTask, BeginStage, EndStage
<1>4. ASSUME NEW a \in Agents, Break(a) \/ Restart(a) \/ Reconnect(a)
      PROVE  loop' = loop
  BY <1>4 DEF Break, Restart, Disconnect, Reconnect
<1>5. ASSUME NEW j \in Tasks, NEW request \in Requests, Dispatch(j, request)
      PROVE  loop' = loop
  BY <1>5 DEF Dispatch
<1>6. CASE UNCHANGED taskVars
  BY <1>1, <1>6 DEF taskVars
<1>7. ASSUME NEW a \in Agents, NEW c \in Conns, LoopStep(a, c)
      PROVE  loop'[b][d] = loop[b][d] \/ LoopStep(b, d)
  <2>1. CASE a = b /\ c = d
    BY <1>7, <2>1
  <2>2. CASE ~(a = b /\ c = d)
    BY <1>2, <1>7, <2>2
  <2> QED
    BY <2>1, <2>2
<1> DEFINE Done == loop'[b][d] = loop[b][d] \/ LoopStep(b, d)
<1>8. ASSUME loop' = loop
      PROVE  Done
  BY <1>8
<1>9. \A a \in Agents, c \in Conns : LoopStep(a, c) => Done
  BY <1>7
<1>10. UNCHANGED taskVars => Done
  BY <1>6
<1> HIDE DEF Done
<1>11. CASE \E a \in Agents, c \in Conns : LoopStep(a, c)
  BY <1>9, <1>11 DEF Done
<1>12. CASE \E k \in Tasks, request \in Requests : Dispatch(k, request)
  BY <1>5, <1>8, <1>12 DEF Done
<1>13. CASE \E k \in Tasks : HandlerStep(k)
  BY <1>3, <1>8, <1>13 DEF Done, HandlerStep
<1>14. CASE \E a \in Agents, k \in Tasks : AgentStep(a, k)
  BY <1>3, <1>8, <1>14 DEF Done, AgentStep
<1>15. CASE \E a \in Agents : Break(a) \/ Restart(a) \/ Reconnect(a)
  BY <1>4, <1>8, <1>15 DEF Done
<1> QED
  BY <1>10, <1>11, <1>12, <1>13, <1>14, <1>15 DEF TaskNext, Done

LEMMA TaskChange ==
  ASSUME TaskShape, [TaskNext]_taskVars, NEW k \in Tasks
  PROVE  \/ stored'[k] = stored[k] /\ arrays'[k] = arrays[k]
         \/ stored[k] = NoTask
         \/ \E a \in Agents, c \in Conns :
              (HubAppend(a, c) \/ HubSave(a, c)) /\ loop[a][c].report.task = k
<1>0. StoreOK
  BY TypeParts DEF TaskShape
<1> DEFINE Same == stored'[k] = stored[k] /\ arrays'[k] = arrays[k]
<1>1. ASSUME stored' = stored, arrays' = arrays
      PROVE  Same
  BY <1>1
<1>2. ASSUME NEW a \in Agents, NEW c \in Conns, HubAppend(a, c),
             loop[a][c].report.task # k
      PROVE  Same
  <2> DEFINE l == loop[a][c]
             new == Appended(arrays[l.report.task], l.slice, l.report.step)
  <2>1. stored' = stored /\ arrays' = [arrays EXCEPT ![l.report.task] = new]
    BY <1>2 DEF HubAppend
  <2> HIDE DEF new
  <2> QED
    BY <1>0, <1>2, <2>1 DEF StoreOK
<1>3. ASSUME NEW a \in Agents, NEW c \in Conns, HubSave(a, c),
             loop[a][c].report.task # k
      PROVE  Same
  <2> DEFINE l == loop[a][c]
             j == l.report.task
             t == [array |-> l.slice.array, len |-> l.slice.len,
                   status |-> l.report.step.status]
  <2>1. stored' = [stored EXCEPT ![j] = t]
    BY <1>3 DEF HubSave, Kept, StatusAfter
  <2> HIDE DEF t
  <2>2. stored'[k] = stored[k]
    BY <1>0, <1>3, <2>1 DEF StoreOK
  <2>3. arrays'[k] = arrays[k]
    BY <1>3, SavedArrays
  <2> QED
    BY <2>2, <2>3
<1>4. ASSUME NEW j \in Tasks, NEW request \in Requests, Dispatch(j, request)
      PROVE  Same \/ stored[k] = NoTask
  <2> DEFINE t == [array |-> 1, len |-> 1, status |-> "running"]
             new == << <<DispatchStep>> >>
  <2>1. /\ stored[j] = NoTask /\ stored' = [stored EXCEPT ![j] = t]
        /\ arrays' = [arrays EXCEPT ![j] = new]
    BY <1>4 DEF Dispatch
  <2> HIDE DEF t, new
  <2> QED
    BY <1>0, <2>1 DEF StoreOK
<1>5. ASSUME NEW j \in Tasks, NEW a \in Agents,
             SendTask(j, a) \/ StartTask(a, j) \/ BeginStage(a, j) \/ EndStage(a, j)
      PROVE  stored' = stored /\ arrays' = arrays
  BY <1>5 DEF SendTask, StartTask, BeginStage, EndStage
<1>6. ASSUME NEW a \in Agents, Break(a) \/ Restart(a) \/ Reconnect(a)
      PROVE  stored' = stored /\ arrays' = arrays
  BY <1>6 DEF Break, Restart, Disconnect, Reconnect
<1>7. ASSUME NEW a \in Agents, NEW c \in Conns, HubRead(a, c) \/ HubGet(a, c)
      PROVE  stored' = stored /\ arrays' = arrays
  BY <1>7 DEF HubRead, HubGet
<1>8. CASE UNCHANGED taskVars
  BY <1>1, <1>8 DEF taskVars
<1>9. CASE \E a \in Agents, c \in Conns : LoopStep(a, c)
  <2>1. PICK a \in Agents, c \in Conns : LoopStep(a, c)
    BY <1>9
  <2>2. CASE HubRead(a, c) \/ HubGet(a, c)
    BY <1>7, <2>2
  <2>3. CASE HubAppend(a, c)
    BY <1>2, <2>3
  <2>4. CASE HubSave(a, c)
    BY <1>3, <2>4
  <2> QED
    BY <2>1, <2>2, <2>3, <2>4 DEF LoopStep
<1>10. CASE \E j \in Tasks, request \in Requests : Dispatch(j, request)
  BY <1>4, <1>10 DEF Same
<1>11. CASE \E j \in Tasks : HandlerStep(j)
  BY <1>1, <1>5, <1>11 DEF HandlerStep
<1>12. CASE \E a \in Agents, j \in Tasks : AgentStep(a, j)
  BY <1>1, <1>5, <1>12 DEF AgentStep
<1>13. CASE \E a \in Agents : Break(a) \/ Restart(a) \/ Reconnect(a)
  BY <1>1, <1>6, <1>13
<1> QED
  BY <1>8, <1>9, <1>10, <1>11, <1>12, <1>13 DEF TaskNext

\* What read loops do to their own state and to the task they handle.
LEMMA GetEffect ==
  ASSUME TaskShape, NEW a \in Agents, NEW c \in Conns, HubGet(a, c)
  PROVE  LET k == loop[a][c].report.task
         IN /\ k \in Tasks /\ stored[k] # NoTask
            /\ loop[a][c].at = "get" /\ loop'[a][c].at = "append"
            /\ loop'[a][c].report = loop[a][c].report
            /\ loop'[a][c].slice = SliceOf(stored[k]) /\ UNCHANGED <<stored, arrays, job, conn>>
<1>0. LoopOK /\ NothingEarly
  BY TypeParts DEF TaskShape
<1> DEFINE l == loop[a][c]
           t == stored[l.report.task]
           new == [at |-> "append", report |-> l.report, slice |-> SliceOf(t)]
<1>1. /\ l.at = "get" /\ loop' = [loop EXCEPT ![a][c] = new]
      /\ UNCHANGED <<stored, arrays, job, conn>>
  BY DEF HubGet, SliceOf, agentVars
<1>2. l.report.task \in Tasks
  BY <1>0, <1>1, LoopParts
<1>3. stored[l.report.task] # NoTask
  BY <1>0, <1>1, <1>2 DEF NothingEarly
<1>4. new.at = "append" /\ new.report = l.report /\ new.slice = SliceOf(t)
  OBVIOUS
<1> HIDE DEF new
<1>5. loop'[a][c] = new
  BY <1>0, <1>1 DEF LoopOK
<1> QED
  BY <1>1, <1>2, <1>3, <1>4, <1>5

LEMMA AppendEffect ==
  ASSUME TaskShape, NEW a \in Agents, NEW c \in Conns, HubAppend(a, c)
  PROVE  LET k == loop[a][c].report.task
             s == loop[a][c].slice
             g == loop'[a][c].slice.array
         IN /\ k \in Tasks /\ stored[k] # NoTask
            /\ loop[a][c].at = "append" /\ loop'[a][c].at = "save"
            /\ loop'[a][c].report = loop[a][c].report
            /\ loop'[a][c].slice.len = s.len + 1 /\ s \in Slice /\ Fits(s, arrays[k])
            /\ g \in DOMAIN arrays[k] => g = s.array
            /\ \A p \in DOMAIN arrays[k] : p # g => arrays'[k][p] = arrays[k][p]
            /\ arrays'[k][g][s.len + 1] = loop[a][c].report.step
            /\ \A i \in 1..s.len : arrays'[k][g][i] = arrays[k][s.array][i]
            /\ \A i \in DOMAIN arrays'[k][g] : i # s.len + 1 =>
                 i \in DOMAIN arrays[k][s.array] /\ arrays'[k][g][i] = arrays[k][s.array][i]
            /\ UNCHANGED <<stored, job, conn>>
<1>0. LoopOK /\ NothingEarly /\ StoreOK /\ SlicesFit
  BY TypeParts DEF TaskShape
<1> DEFINE l == loop[a][c]
           r == l.report
           k == r.task
           s == l.slice
           e == r.step
           old == arrays[k]
           arrs == Appended(old, s, e)
           grown == AppendedSlice(old, s)
           g == GrownArray(old, s)
           new == [at |-> "save", report |-> r, slice |-> grown]
<1>1. /\ l.at = "append" /\ loop' = [loop EXCEPT ![a][c] = new]
      /\ arrays' = [arrays EXCEPT ![k] = arrs]
      /\ UNCHANGED <<stored, job, conn>>
  BY DEF HubAppend, agentVars
<1>2. k \in Tasks /\ s \in Slice /\ e \in Step
  BY <1>0, <1>1, LoopParts DEF Holding, Report
<1>3. stored[k] # NoTask
  BY <1>0, <1>1, <1>2 DEF NothingEarly
<1>4. Fits(s, old) /\ old \in Seq(Seq(Step))
  BY <1>0, <1>1, <1>2 DEF SlicesFit, StoreOK, Holding
<1>5. new.at = "save" /\ new.report = r /\ new.slice = grown
  OBVIOUS
<1>6. grown.array = g /\ grown.len = s.len + 1
  BY DEF GrownArray, AppendedSlice
<1>7. /\ arrs = Appended(old, s, e) /\ g = GrownArray(old, s)
  OBVIOUS
<1> HIDE DEF new, grown, g, arrs
<1>8. loop'[a][c] = new /\ arrays'[k] = arrs
  BY <1>0, <1>1, <1>2 DEF LoopOK, StoreOK
<1> HIDE DEF s, e, old
<1>9. g \in DOMAIN old => g = s.array
  BY <1>2, <1>4, <1>7, AppendedProperties
<1>10. \A p \in DOMAIN old : p # g => arrs[p] = old[p]
  BY <1>2, <1>4, <1>7, AppendedProperties
<1>11. arrs[g][s.len + 1] = e
  BY <1>2, <1>4, <1>7, AppendedProperties
<1>12. \A i \in 1..s.len : arrs[g][i] = old[s.array][i]
  BY <1>2, <1>4, <1>7, AppendedProperties
<1>13. \A i \in DOMAIN arrs[g] : i # s.len + 1 =>
         i \in DOMAIN old[s.array] /\ arrs[g][i] = old[s.array][i]
  BY <1>2, <1>4, <1>7, AppendedProperties
<1>14. loop'[a][c].slice.array = g /\ loop'[a][c].slice.len = s.len + 1
  BY <1>5, <1>6, <1>8
<1> HIDE DEF l, r, k
<1>15. /\ g \in DOMAIN arrays[k] => g = s.array
       /\ \A p \in DOMAIN arrays[k] : p # g => arrays'[k][p] = arrays[k][p]
  BY <1>8, <1>9, <1>10 DEF old
<1>16. /\ arrays'[k][g][s.len + 1] = e
       /\ \A i \in 1..s.len : arrays'[k][g][i] = arrays[k][s.array][i]
       /\ \A i \in DOMAIN arrays'[k][g] : i # s.len + 1 =>
            i \in DOMAIN arrays[k][s.array] /\ arrays'[k][g][i] = arrays[k][s.array][i]
  BY <1>8, <1>11, <1>12, <1>13 DEF old
<1> QED
  BY <1>1, <1>2, <1>3, <1>4, <1>5, <1>8, <1>14, <1>15, <1>16 DEF l, r, k, s, e, old

LEMMA SaveEffect ==
  ASSUME TaskShape, NEW a \in Agents, NEW c \in Conns, HubSave(a, c)
  PROVE  LET k == loop[a][c].report.task
             s == loop[a][c].slice
         IN /\ loop[a][c].at = "save" /\ loop'[a][c] = Idle
            /\ stored'[k] = [array |-> s.array, len |-> s.len,
                             status |-> loop[a][c].report.step.status]
            /\ loop[a][c].report.step \in Step /\ UNCHANGED <<job, conn>>
<1>0. LoopOK /\ StoreOK
  BY TypeParts DEF TaskShape
<1> DEFINE l == loop[a][c]
           k == l.report.task
           t == [array |-> l.slice.array, len |-> l.slice.len,
                 status |-> l.report.step.status]
<1>1. /\ l.at = "save" /\ loop' = [loop EXCEPT ![a][c] = Idle]
      /\ stored' = [stored EXCEPT ![k] = t] /\ UNCHANGED <<job, conn>>
  BY DEF HubSave, Kept, StatusAfter, agentVars
<1>2. k \in Tasks /\ l.report.step \in Step
  BY <1>0, <1>1, LoopParts DEF Report
<1> HIDE DEF t
<1>3. stored'[k] = t /\ loop'[a][c] = Idle
  BY <1>0, <1>1, <1>2 DEF StoreOK, LoopOK
<1> QED
  BY <1>1, <1>2, <1>3 DEF t

\* A loop only ever has steps of its agent in hand, for tasks it is a target of.
LoopSends ==
  \A a \in Agents, c \in Conns : loop[a][c].at = "save" =>
    /\ c <= conn[a] /\ loop[a][c].report.step.node = a
    /\ a \in job[loop[a][c].report.task].targets

LEMMA LoopSendsInit == TaskInit => LoopSends
  BY DEF TaskInit, LoopSends, Idle

LEMMA FirstWaits ==
  ASSUME TaskShape, Flow, NEW a \in Agents, NEW c \in Conns,
         loop[a][c].at \in {"get", "append"}
  PROVE  LET r == loop[a][c].report
         IN /\ Waits(a, c, 1, r) /\ r.task \in Tasks /\ c <= conn[a] /\ r.step.node = a
            /\ Sent(r.task, r.step) /\ a \in job[r.task].targets
<1>0. LoopOK /\ WireOK /\ PendingSent
  BY TypeParts DEF TaskShape, Flow
<1> DEFINE l == loop[a][c]
           q == wire[a][c]
           r == l.report
<1>1. l \in LoopState /\ q \in Seq(Report) /\ Pend(a, c) = Pending(l, q) /\ Len(q) \in Nat
  BY <1>0 DEF LoopOK, WireOK, Pend
<1> HIDE DEF q
<1>2. l.at \in {"get", "append"}
  OBVIOUS
<1> HIDE DEF l
<1>3. Pending(l, q)[1] = l.report /\ 1 \in DOMAIN Pending(l, q)
  BY <1>1, <1>2, PendingProperties
<1>4. Waits(a, c, 1, r)
  BY <1>1, <1>3 DEF Waits
<1>5. r.task \in Tasks
  BY <1>4, WaitsType
<1> HIDE DEF r
<1>6. c <= conn[a] /\ r.step.node = a /\ Sent(r.task, r.step)
  BY <1>0, <1>4 DEF PendingSent
<1>7. a \in job[r.task].targets
  BY <1>6 DEF Sent
<1> QED
  BY <1>4, <1>5, <1>6, <1>7 DEF r, l

LEMMA JobStays ==
  ASSUME TaskShape, Flow, [TaskNext]_taskVars, NEW k \in Tasks, stored[k] # NoTask,
         Agents # {}
  PROVE  job'[k] = job[k] /\ stored'[k] # NoTask
<1>1. PICK a \in Agents : TRUE
  OBVIOUS
<1>2. Advances(a, k)
  BY AdvancesStep DEF Flow
<1> QED
  BY <1>2 DEF Advances

LEMMA LoopTaskStored ==
  ASSUME TaskShape, NEW a \in Agents, NEW c \in Conns, loop[a][c].at # "read"
  PROVE  loop[a][c].report.task \in Tasks /\ stored[loop[a][c].report.task] # NoTask
<1>0. LoopOK /\ NothingEarly
  BY TypeParts DEF TaskShape
<1>1. loop[a][c].report.task \in Tasks
  BY <1>0, LoopParts
<1> QED
  BY <1>0, <1>1 DEF NothingEarly

LEMMA LoopSendsStep ==
  ASSUME TaskShape, Flow, LoopSends, [TaskNext]_taskVars
  PROVE  LoopSends'
<1> SUFFICES ASSUME NEW a \in Agents, NEW c \in Conns, loop'[a][c].at = "save"
             PROVE  /\ c <= conn'[a] /\ loop'[a][c].report.step.node = a
                    /\ a \in job'[loop'[a][c].report.task].targets
  BY DEF LoopSends
<1>0. ConnOK
  BY TypeParts DEF TaskShape
<1>1. conn'[a] >= conn[a] /\ conn[a] \in Int /\ conn'[a] \in Int /\ c \in Int
  BY <1>0, ConnGrows DEF Conns
<1>2. CASE loop'[a][c] = loop[a][c]
  <2>1. loop[a][c].at = "save" /\ loop[a][c].at # "read"
    BY <1>2
  <2>2. loop[a][c].report.task \in Tasks /\ stored[loop[a][c].report.task] # NoTask
    BY <2>1, LoopTaskStored
  <2>3. job'[loop[a][c].report.task] = job[loop[a][c].report.task]
    BY <2>2, JobStays
  <2>4. /\ c <= conn[a] /\ loop[a][c].report.step.node = a
        /\ a \in job[loop[a][c].report.task].targets
    BY <2>1 DEF LoopSends
  <2> QED
    BY <1>1, <1>2, <2>3, <2>4
<1>3. CASE HubAppend(a, c)
  <2>1. /\ loop[a][c].at = "append" /\ loop'[a][c].report = loop[a][c].report
        /\ job' = job /\ conn' = conn
    BY <1>3, AppendEffect
  <2>2. /\ c <= conn[a] /\ loop[a][c].report.step.node = a
        /\ a \in job[loop[a][c].report.task].targets
    BY <2>1, FirstWaits
  <2> QED
    BY <2>1, <2>2
<1>4. CASE HubRead(a, c)
  <2> DEFINE new == [at |-> "get", report |-> Received(wire[a][c])]
  <2>1. loop' = [loop EXCEPT ![a][c] = new]
    BY <1>4 DEF HubRead
  <2>2. new.at = "get"
    OBVIOUS
  <2> HIDE DEF new
  <2>3. loop'[a][c] = new
    BY <2>1, TypeParts DEF TaskShape, LoopOK
  <2> QED
    BY <2>2, <2>3
<1>5. CASE HubGet(a, c)
  BY <1>5, GetEffect
<1>6. CASE HubSave(a, c)
  <2>1. loop'[a][c] = Idle
    BY <1>6, SaveEffect
  <2> QED
    BY <2>1 DEF Idle
<1> QED
  BY <1>2, <1>3, <1>4, <1>5, <1>6, LoopChange DEF LoopStep

\* Of a task that one loop handles, no other loop has a step in hand.
LEMMA OneLoopOwner ==
  ASSUME TaskShape, Flow, LoopSends, NEW k \in Tasks, OneLoop(k),
         NEW b \in Agents, NEW d \in Conns, loop[b][d].at # "read", loop[b][d].report.task = k
  PROVE  job[k].targets = {b} /\ conn[b] = 1 /\ d = 1 /\ loop[b][d].report.step.node = b
<1>0. LoopOK
  BY TypeParts DEF TaskShape
<1>1. PICK a \in Agents : job[k].targets = {a} /\ conn[a] = 1
  BY DEF OneLoop
<1>2. d <= conn[b] /\ b \in job[k].targets /\ loop[b][d].report.step.node = b
  <2>1. loop[b][d].at \in {"get", "append", "save"}
    BY <1>0, LoopParts DEF Idle
  <2>2. CASE loop[b][d].at = "save"
    BY <2>2 DEF LoopSends
  <2>3. CASE loop[b][d].at \in {"get", "append"}
    BY <2>3, FirstWaits
  <2> QED
    BY <2>1, <2>2, <2>3
<1>3. d \in Nat \ {0}
  BY DEF Conns
<1> QED
  BY <1>1, <1>2, <1>3

\* Slice s is the stored one and step e behind it.
GrownBy(k, s, e) ==
  /\ s.len = stored[k].len + 1 /\ arrays[k][s.array][s.len] = e
  /\ \A i \in 1..stored[k].len :
       arrays[k][s.array][i] = arrays[k][stored[k].array][i]

\* A loop that handles a task alone has the stored slice when it appends, and
\* only its own step more when it saves.
LastSaved ==
  \A k \in Tasks, a \in Agents :
    OneLoop(k) /\ job[k].targets = {a} /\ stored[k] # NoTask
        /\ loop[a][1].at # "read" /\ loop[a][1].report.task = k =>
      /\ loop[a][1].at = "append" => loop[a][1].slice = SliceOf(stored[k])
      /\ loop[a][1].at = "save" =>
           \A s, e : s = loop[a][1].slice /\ e = loop[a][1].report.step => GrownBy(k, s, e)

LEMMA LastSavedInit == TaskInit => LastSaved
<1>1. 1 \in Conns
  BY TaskAssumption DEF Conns
<1> QED
  BY <1>1 DEF TaskInit, LastSaved, Idle

LEMMA LastSavedStep ==
  ASSUME TaskShape, Flow, LoopSends, LastSaved, [TaskNext]_taskVars
  PROVE  LastSaved'
<1> SUFFICES ASSUME NEW k \in Tasks, NEW a \in Agents,
                    OneLoop(k)', job'[k].targets = {a}, stored'[k] # NoTask,
                    loop'[a][1].at \in {"append", "save"}, loop'[a][1].report.task = k,
                    NEW s, s = loop'[a][1].slice, NEW e, e = loop'[a][1].report.step
             PROVE  /\ loop'[a][1].at = "append" => s = SliceOf(stored'[k])
                    /\ loop'[a][1].at = "save" => GrownBy(k, s, e)'
  BY DEF LastSaved, SliceOf
<1>0. ConnOK /\ LoopOK /\ StoreOK /\ StoredFits /\ 1 \in Conns
  BY TypeParts, TaskAssumption DEF TaskShape, Conns
<1>1. ASSUME loop[a][1].at # "read", loop[a][1].report.task = k
      PROVE  OneLoop(k) /\ job[k].targets = {a} /\ stored[k] # NoTask
  <2>1. stored[k] # NoTask
    BY <1>0, <1>1, LoopTaskStored
  <2>2. job'[k] = job[k]
    BY <2>1, JobStays
  <2>3. conn'[a] = 1
    BY DEF OneLoop
  <2>4. conn[a] = 1
    BY <1>0, <2>3, ConnGrows
  <2> QED
    BY <2>1, <2>2, <2>4 DEF OneLoop
<1>2. CASE loop'[a][1] = loop[a][1]
  <2>1. loop[a][1].at \in {"append", "save"} /\ loop[a][1].report.task = k
    BY <1>2
  <2>2. OneLoop(k) /\ job[k].targets = {a} /\ stored[k] # NoTask
    BY <1>1, <2>1
  <2>3. ASSUME NEW b \in Agents, NEW c \in Conns, HubAppend(b, c) \/ HubSave(b, c),
               loop[b][c].report.task = k
        PROVE  FALSE
    <3>1. loop[b][c].at # "read"
      BY <2>3, AppendEffect, SaveEffect
    <3>2. job[k].targets = {b} /\ c = 1
      <4>1. OneLoop(k) /\ loop[b][c].report.task = k
        BY <2>2, <2>3
      <4> QED
        BY <3>1, <4>1, OneLoopOwner
    <3>5. b = a
      BY <2>2, <3>2
    <3>3. CASE HubAppend(a, 1)
      BY <1>0, <1>2, <3>3, AppendEffect
    <3>4. CASE HubSave(a, 1)
      <4>1. loop'[a][1] = Idle
        BY <1>0, <3>4, SaveEffect
      <4> QED
        BY <1>2, <2>1, <4>1 DEF Idle
    <3> QED
      BY <2>3, <3>2, <3>3, <3>4, <3>5
  <2>4. stored'[k] = stored[k] /\ arrays'[k] = arrays[k]
    BY <2>2, <2>3, TaskChange
  <2>5. /\ loop[a][1].at = "append" => loop[a][1].slice = SliceOf(stored[k])
        /\ loop[a][1].at = "save" => GrownBy(k, s, e)
    BY <1>2, <2>1, <2>2 DEF LastSaved
  <2> QED
    BY <1>2, <2>4, <2>5 DEF GrownBy
<1>3. CASE HubGet(a, 1)
  <2>1. /\ loop'[a][1].at = "append" /\ loop'[a][1].report = loop[a][1].report
        /\ loop'[a][1].slice = SliceOf(stored[loop[a][1].report.task]) /\ stored' = stored
    BY <1>0, <1>3, GetEffect
  <2> QED
    BY <2>1
<1>4. CASE HubAppend(a, 1)
  <2> DEFINE j == loop[a][1].report.task
             old == loop[a][1].slice
             g == loop'[a][1].slice.array
  <2>1. /\ loop[a][1].at = "append" /\ loop'[a][1].at = "save"
        /\ loop'[a][1].report = loop[a][1].report
        /\ loop'[a][1].slice.len = old.len + 1 /\ stored' = stored
    BY <1>0, <1>4, AppendEffect
  <2>2. /\ \A p \in DOMAIN arrays[j] : p # g => arrays'[j][p] = arrays[j][p]
        /\ arrays'[j][g][old.len + 1] = loop[a][1].report.step
        /\ \A i \in 1..old.len : arrays'[j][g][i] = arrays[j][old.array][i]
    BY <1>0, <1>4, AppendEffect
  <2>3. j = k /\ s.array = g /\ s.len = old.len + 1 /\ e = loop[a][1].report.step
    BY <2>1
  <2>4. OneLoop(k) /\ job[k].targets = {a} /\ stored[k] # NoTask
    BY <1>1, <2>1, <2>3
  <2>5. old = SliceOf(stored[k])
    BY <2>1, <2>3, <2>4 DEF LastSaved
  <2>6. old.len = stored[k].len /\ old.array = stored[k].array
    BY <2>5 DEF SliceOf
  <2>7. old.array \in DOMAIN arrays[k]
    BY <1>0, <2>4, <2>6 DEF StoredFits, Fits
  <2> HIDE DEF old, j, g
  <2>8. /\ arrays'[k][s.array][s.len] = e
        /\ \A i \in 1..old.len : arrays'[k][s.array][i] = arrays[k][old.array][i]
        /\ s.array # old.array => arrays'[k][old.array] = arrays[k][old.array]
    BY <2>2, <2>3, <2>7
  <2>9. \A i \in 1..old.len : arrays'[k][s.array][i] = arrays'[k][old.array][i]
    BY <2>8
  <2>10. GrownBy(k, s, e)'
    BY <2>1, <2>3, <2>6, <2>8, <2>9 DEF GrownBy
  <2> QED
    BY <2>1, <2>10
<1>5. CASE HubRead(a, 1)
  <2> DEFINE new == [at |-> "get", report |-> Received(wire[a][1])]
  <2>1. loop' = [loop EXCEPT ![a][1] = new]
    BY <1>5 DEF HubRead
  <2>2. new.at = "get"
    OBVIOUS
  <2> HIDE DEF new
  <2>3. loop'[a][1] = new
    BY <1>0, <2>1 DEF LoopOK
  <2> QED
    BY <2>2, <2>3
<1>6. CASE HubSave(a, 1)
  <2>1. loop'[a][1] = Idle
    BY <1>0, <1>6, SaveEffect
  <2> QED
    BY <2>1 DEF Idle
<1> QED
  BY <1>0, <1>2, <1>3, <1>4, <1>5, <1>6, LoopChange DEF LoopStep

\* Saving leaves the slice that is saved as the loop has it.
LEMMA SavedSteps ==
  ASSUME TaskShape, NEW a \in Agents, NEW c \in Conns, HubSave(a, c),
         NEW k, k = loop[a][c].report.task, NEW s, s = loop[a][c].slice
  PROVE  /\ Steps(k)' \in Seq(Step) /\ Len(Steps(k)') = s.len
         /\ \A i \in 1..s.len : Steps(k)'[i] = arrays[k][s.array][i]
<1> DEFINE new == arrays'[k]
           b == new[s.array]
<1>1. stored'[k].array = s.array /\ stored'[k].len = s.len
  <2>1. stored'[k] = [array |-> s.array, len |-> s.len,
                      status |-> loop[a][c].report.step.status]
    BY SaveEffect
  <2> QED
    BY <2>1
<1>2. s \in Slice /\ s \in Held(k, stored', loop') /\ stored'[k] # NoTask
  <2>1. s \in Held(k, stored', loop') /\ Held(k, stored', loop') \subseteq Held(k, stored, loop)
    BY SavedSlices
  <2>2. \A t \in Held(k, stored, loop) : t \in Slice
    BY SavedSlices
  <2>3. stored'[k] # NoTask
    <3>1. stored'[k] = [array |-> s.array, len |-> s.len,
                        status |-> loop[a][c].report.step.status]
      BY SaveEffect
    <3> QED
      BY <3>1 DEF NoTask
  <2> QED
    BY <2>1, <2>2, <2>3
<1>3. /\ new \in Seq(Seq(Step)) /\ Fits(s, new)
      /\ \A p : p \in DOMAIN new <=> p \in DOMAIN arrays[k]
      /\ \A p \in DOMAIN arrays[k] : \A i \in DOMAIN new[p] : new[p][i] = arrays[k][p][i]
  BY <1>2, SavedArrays
<1>4. Steps(k)' = SubSeq(b, 1, s.len)
  BY <1>1, <1>2 DEF Steps
<1> HIDE DEF new
<1>5. b \in Seq(Step) /\ s.len \in 1..Len(b) /\ s.array \in DOMAIN new
  BY <1>2, <1>3 DEF Fits, Slice
<1>6. \A i \in DOMAIN b : b[i] = arrays[k][s.array][i]
  BY <1>3, <1>5
<1> HIDE DEF b
<1>7. /\ SubSeq(b, 1, s.len) \in Seq(Step) /\ Len(SubSeq(b, 1, s.len)) = s.len
      /\ \A i \in 1..s.len : SubSeq(b, 1, s.len)[i] = b[i] /\ i \in DOMAIN b
  BY <1>5
<1> QED
  BY <1>4, <1>6, <1>7

LEMMA StepsAre ==
  ASSUME TaskShape, NEW k \in Tasks, stored[k] # NoTask
  PROVE  /\ Steps(k) \in Seq(Step) /\ Len(Steps(k)) = stored[k].len
         /\ stored[k].len \in Nat \ {0} /\ stored[k].array \in DOMAIN arrays[k]
         /\ stored[k].len <= Len(arrays[k][stored[k].array])
         /\ \A i \in 1..stored[k].len : Steps(k)[i] = arrays[k][stored[k].array][i]
<1>0. StoreOK /\ StoredFits
  BY TypeParts DEF TaskShape
<1> DEFINE p == stored[k].array
           n == stored[k].len
           a == arrays[k][p]
<1>1. Steps(k) = SubSeq(a, 1, n)
  BY DEF Steps
<1>2. p \in DOMAIN arrays[k] /\ n \in 1..Len(a) /\ a \in Seq(Step) /\ n \in Nat \ {0}
  BY <1>0 DEF StoreOK, StoredFits, Fits, StoredTask
<1> HIDE DEF a, n
<1>3. /\ SubSeq(a, 1, n) \in Seq(Step) /\ Len(SubSeq(a, 1, n)) = n
      /\ \A i \in 1..n : SubSeq(a, 1, n)[i] = a[i] /\ n <= Len(a)
  BY <1>2
<1> QED
  BY <1>1, <1>2, <1>3 DEF a, n

\* The steps of a task that one read loop handles only grow, by the step that is
\* saved, and the status is that step's (handleTaskStep).
THEOREM StepsOfOneLoop == TaskSpec => StepsOnlyGrow
<1>1. ASSUME TaskShape, Flow, LoopSends, LastSaved, [TaskNext]_taskVars,
             NEW k \in Tasks, OneLoop(k), stored'[k] # stored[k], stored[k] # NoTask
      PROVE  \E e \in Step : Steps(k)' = Append(Steps(k), e) /\ stored'[k].status = e.status
  <2>1. PICK a \in Agents, c \in Conns :
          (HubAppend(a, c) \/ HubSave(a, c)) /\ loop[a][c].report.task = k
    BY <1>1, TaskChange
  <2>2. ~HubAppend(a, c)
    <3>1. HubAppend(a, c) => stored' = stored
      BY DEF HubAppend
    <3> QED
      BY <1>1, <3>1
  <2>3. HubSave(a, c) /\ loop[a][c].at = "save"
    BY <2>1, <2>2 DEF HubSave
  <2>0. PICK s, e : s = loop[a][c].slice /\ e = loop[a][c].report.step
    OBVIOUS
  <2>4. loop[a][c].at # "read"
    BY <2>3
  <2>5. job[k].targets = {a} /\ c = 1
    BY <1>1, <2>1, <2>4, OneLoopOwner
  <2>6. GrownBy(k, s, e)
    BY <1>1, <2>0, <2>1, <2>3, <2>4, <2>5 DEF LastSaved
  <2>7. stored'[k].status = e.status /\ e \in Step
    <3>1. /\ stored'[k] = [array |-> s.array, len |-> s.len, status |-> e.status]
          /\ e \in Step
      BY <1>1, <2>0, <2>1, <2>3, SaveEffect
    <3> QED
      BY <3>1
  <2>8. /\ Steps(k)' \in Seq(Step) /\ Len(Steps(k)') = s.len
        /\ \A i \in 1..s.len : Steps(k)'[i] = arrays[k][s.array][i]
    BY <1>1, <2>0, <2>1, <2>3, SavedSteps
  <2> DEFINE n == stored[k].len
             old == Steps(k)
             new == Steps(k)'
  <2>9. /\ old \in Seq(Step) /\ Len(old) = n /\ n \in Nat
        /\ \A i \in 1..n : old[i] = arrays[k][stored[k].array][i]
    BY <1>1, StepsAre
  <2>10. /\ s.len = n + 1 /\ arrays[k][s.array][s.len] = e
         /\ \A i \in 1..n : arrays[k][s.array][i] = arrays[k][stored[k].array][i]
    BY <2>6 DEF GrownBy
  <2> HIDE DEF n, old, new
  <2>11. /\ new \in Seq(Step) /\ Len(new) = n + 1 /\ new[n + 1] = e
         /\ \A i \in 1..n : new[i] = old[i]
    <3>1. new \in Seq(Step) /\ Len(new) = n + 1
      BY <2>8, <2>10 DEF new
    <3>2. \A i \in 1..(n + 1) : new[i] = arrays[k][s.array][i]
      BY <2>8, <2>10 DEF new
    <3>3. n + 1 \in 1..(n + 1) /\ \A i \in 1..n : i \in 1..(n + 1)
      BY <2>9
    <3> QED
      BY <2>9, <2>10, <3>1, <3>2, <3>3
  <2>12. /\ Append(old, e) \in Seq(Step) /\ Len(Append(old, e)) = n + 1
         /\ Append(old, e)[n + 1] = e /\ \A i \in 1..n : Append(old, e)[i] = old[i]
    BY <2>7, <2>9, AppendProperties
  <2>13. \A i \in 1..Len(new) : new[i] = Append(old, e)[i]
    BY <2>9, <2>11, <2>12
  <2>14. new = Append(old, e)
    BY <2>11, <2>12, <2>13, SeqEqual
  <2> QED
    BY <2>7, <2>14 DEF new, old
<1> DEFINE Grows == \A k \in Tasks :
             OneLoop(k) /\ stored'[k] # stored[k] /\ stored[k] # NoTask =>
               \E e \in Step : /\ Steps(k)' = Append(Steps(k), e)
                               /\ stored'[k].status = e.status
<1>2. TaskShape /\ Flow /\ LoopSends /\ LastSaved /\ [TaskNext]_taskVars => Grows
  BY <1>1
<1>3. TaskShape /\ Flow /\ LoopSends /\ LastSaved /\ [TaskNext]_taskVars
        => LoopSends' /\ LastSaved'
  BY LoopSendsStep, LastSavedStep
<1>4. TaskSpec => [][Grows]_taskVars
  BY <1>2, <1>3, FlowAlways, LoopSendsInit, LastSavedInit, PTL DEF TaskSpec
<1> QED
  BY <1>4 DEF StepsOnlyGrow

-----------------------------------------------------------------------------
(* The tasks of two agents. *)

\* The slice that agent x's loop has in hand for task k, or else the stored one.
Own(x, k) ==
  IF Holding(loop[x][1]) /\ loop[x][1].report.task = k THEN loop[x][1].slice
                                                       ELSE SliceOf(stored[k])

Views(k) == {SliceOf(stored[k])} \cup {Own(x, k) : x \in job[k].targets}

Pair(k) ==
  /\ stored[k] # NoTask /\ \A a \in Agents : conn[a] = 1
  /\ \E a, b \in Agents : job[k].targets \subseteq {a, b}

\* Behind what a loop sees of an array, no slice sees a step of its agent: what
\* the loop overwrites there is another agent's (handleTaskStep).
NothingBeyond(k) ==
  \A x \in job[k].targets, t \in Views(k) : \A s : s = Own(x, k) /\ t.array = s.array =>
    \A i \in (s.len + 1)..t.len : arrays[k][t.array][i].node # x

ViewsInOrder(k) ==
  \A t \in Views(k) : \A i, j \in 2..t.len : \A u, v :
    i < j /\ u = arrays[k][t.array][i] /\ v = arrays[k][t.array][j] /\ u.node = v.node
      => Rank(k, u) < Rank(k, v)

PairsInOrder == \A k \in Tasks : Pair(k) => NothingBeyond(k) /\ ViewsInOrder(k)

LEMMA ViewsFit ==
  ASSUME TaskShape, NEW k \in Tasks, stored[k] # NoTask, job[k].targets \subseteq Agents,
         NEW t \in Views(k)
  PROVE  /\ t \in Slice /\ Fits(t, arrays[k])
         /\ \A i \in 1..t.len : /\ i \in DOMAIN arrays[k][t.array]
                                /\ Written(k, i, arrays[k][t.array][i])
<1>0. StoreOK /\ StoredFits /\ SlicesFit /\ LoopOK /\ 1 \in Conns
  BY TypeParts, TaskAssumption DEF TaskShape, Conns
<1>1. t \in Slice /\ Fits(t, arrays[k])
  <2>1. CASE t = SliceOf(stored[k])
    <3>1. stored[k] \in StoredTask /\ Fits(stored[k], arrays[k])
      BY <1>0 DEF StoreOK, StoredFits
    <3> QED
      BY <2>1, <3>1 DEF SliceOf, StoredTask, Slice, Fits
  <2>2. ASSUME NEW x \in Agents, Holding(loop[x][1]), loop[x][1].report.task = k,
               t = loop[x][1].slice
        PROVE  t \in Slice /\ Fits(t, arrays[k])
    BY <1>0, <2>2, LoopParts DEF SlicesFit
  <2> QED
    BY <2>1, <2>2 DEF Views, Own
<1> DEFINE a == arrays[k][t.array]
<1>2. a \in Seq(Step) /\ t.len \in Nat /\ t.len <= Len(a) /\ t.array \in DOMAIN arrays[k]
  BY <1>0, <1>1 DEF StoreOK, Fits, Slice
<1> HIDE DEF a
<1>3. \A i \in 1..t.len : i \in DOMAIN a
  BY <1>2
<1>4. \A i \in 1..t.len : Written(k, i, a[i])
  BY <1>2, <1>3 DEF Written, a
<1> QED
  BY <1>1, <1>3, <1>4 DEF a

LEMMA LoopsApart ==
  ASSUME LoopOK, NEW a \in Agents, NEW c \in Conns, HubAppend(a, c) \/ HubSave(a, c),
         NEW b \in Agents, NEW d \in Conns, ~(a = b /\ c = d)
  PROVE  loop'[b][d] = loop[b][d]
<1> DEFINE l == loop[a][c]
           p == [at |-> "save", report |-> l.report,
                 slice |-> AppendedSlice(arrays[l.report.task], l.slice)]
<1>1. \E x \in {p, Idle} : loop' = [loop EXCEPT ![a][c] = x]
  BY DEF HubAppend, HubSave
<1> HIDE DEF p
<1> QED
  BY <1>1 DEF LoopOK

\* A step brings a task into being only by dispatching it (CreateTask).
LEMMA Born ==
  ASSUME TaskShape, [TaskNext]_taskVars, NEW k \in Tasks, stored[k] = NoTask,
         stored'[k] # NoTask
  PROVE  \E request \in Requests : Dispatch(k, request)
<1>0. StoreOK
  BY TypeParts DEF TaskShape
<1>1. ASSUME stored' = stored
      PROVE  FALSE
  BY <1>1
<1>2. ASSUME NEW a \in Agents, NEW c \in Conns, LoopStep(a, c)
      PROVE  FALSE
  <2>1. CASE HubRead(a, c) \/ HubGet(a, c) \/ HubAppend(a, c)
    BY <1>1, <2>1 DEF HubRead, HubGet, HubAppend
  <2>2. CASE HubSave(a, c)
    <3> DEFINE l == loop[a][c]
               j == l.report.task
               t == [array |-> l.slice.array, len |-> l.slice.len,
                     status |-> l.report.step.status]
    <3>1. stored' = [stored EXCEPT ![j] = t]
      BY <2>2 DEF HubSave, Kept, StatusAfter
    <3>2. stored[j] # NoTask
      BY <2>2, SavedSlices
    <3> HIDE DEF t, j
    <3>3. k # j
      BY <3>2
    <3>4. stored'[k] = stored[k]
      BY <1>0, <3>1, <3>3 DEF StoreOK
    <3> QED
      BY <3>4
  <2> QED
    BY <1>2, <2>1, <2>2 DEF LoopStep
<1>3. ASSUME NEW j \in Tasks, NEW request \in Requests, Dispatch(j, request)
      PROVE  Dispatch(k, request)
  <2> DEFINE t == [array |-> 1, len |-> 1, status |-> "running"]
  <2>1. stored' = [stored EXCEPT ![j] = t]
    BY <1>3 DEF Dispatch
  <2> HIDE DEF t
  <2>2. j = k
    BY <1>0, <2>1 DEF StoreOK
  <2> QED
    BY <1>3, <2>2
<1>4. ~UNCHANGED taskVars
  BY DEF taskVars
<1>5. CASE \E a \in Agents, c \in Conns : LoopStep(a, c)
  BY <1>2, <1>5
<1>6. CASE \E j \in Tasks, request \in Requests : Dispatch(j, request)
  BY <1>3, <1>6
<1>7. CASE \E j \in Tasks : HandlerStep(j)
  BY <1>1, <1>7 DEF HandlerStep, SendTask
<1>8. CASE \E a \in Agents, j \in Tasks : AgentStep(a, j)
  BY <1>1, <1>8 DEF AgentStep, StartTask, BeginStage, EndStage
<1>9. CASE \E a \in Agents : Break(a) \/ Restart(a) \/ Reconnect(a)
  BY <1>1, <1>9 DEF Break, Restart, Disconnect, Reconnect
<1> QED
  BY <1>4, <1>5, <1>6, <1>7, <1>8, <1>9 DEF TaskNext

LEMMA TargetsKnown ==
  ASSUME HandlerOK, NEW k \in Tasks
  PROVE  job[k].targets \subseteq Agents
<1>1. job[k] \in Requests \cup {NoJob}
  BY DEF HandlerOK
<1> QED
  BY <1>1, TaskAssumption DEF NoJob

\* A task that has just been dispatched.
LEMMA PairBorn ==
  ASSUME TaskShape, NEW k \in Tasks, NEW request \in Requests, Dispatch(k, request)
  PROVE  NothingBeyond(k)' /\ ViewsInOrder(k)'
<1>0. StoreOK /\ NothingEarly /\ 1 \in Conns /\ HandlerOK
  BY TypeParts, TaskAssumption DEF TaskShape, Conns
<1> DEFINE t == [array |-> 1, len |-> 1, status |-> "running"]
           s == [array |-> 1, len |-> 1]
<1>1. /\ stored[k] = NoTask /\ stored' = [stored EXCEPT ![k] = t] /\ loop' = loop
      /\ job' = [job EXCEPT ![k] = request]
  BY DEF Dispatch
<1>2. SliceOf(t) = s /\ s.len = 1
  BY DEF SliceOf
<1> HIDE DEF t, s
<1>3. stored'[k] = t /\ job'[k] = request
  BY <1>0, <1>1 DEF StoreOK, HandlerOK
<1>4. request.targets \subseteq Agents
  BY TaskAssumption
<1>5. \A x \in request.targets : Own(x, k)' = s
  BY <1>0, <1>1, <1>2, <1>3, <1>4 DEF Own, NothingEarly, Holding
<1>6. \A x \in Views(k)' : x = s
  BY <1>2, <1>3, <1>5 DEF Views
<1>7. \A i : i \notin (s.len + 1)..s.len /\ i \notin 2..s.len
  BY <1>2
<1>8. NothingBeyond(k)'
  BY <1>3, <1>5, <1>6, <1>7 DEF NothingBeyond
<1>9. ViewsInOrder(k)'
  BY <1>6, <1>7 DEF ViewsInOrder
<1> QED
  BY <1>8, <1>9

\* A step that touches neither the task nor a loop's slice of it.
LEMMA PairQuiet ==
  ASSUME TaskShape, [TaskNext]_taskVars, NEW k \in Tasks, stored[k] # NoTask,
         job'[k] = job[k], job[k].targets \subseteq Agents,
         stored'[k] = stored[k], arrays'[k] = arrays[k],
         \A a \in Agents, c \in Conns :
           HubAppend(a, c) \/ HubSave(a, c) => loop[a][c].report.task # k,
         NothingBeyond(k), ViewsInOrder(k)
  PROVE  NothingBeyond(k)' /\ ViewsInOrder(k)'
<1>0. 1 \in Conns /\ LoopOK
  BY TypeParts, TaskAssumption DEF TaskShape, Conns
<1>1. ASSUME NEW x \in job[k].targets
      PROVE  Own(x, k)' = Own(x, k)
  <2>1. x \in Agents
    OBVIOUS
  <2>2. CASE loop'[x][1] = loop[x][1]
    BY <2>2 DEF Own
  <2>3. CASE HubRead(x, 1)
    <3> DEFINE new == [at |-> "get", report |-> Received(wire[x][1])]
    <3>1. loop[x][1] = Idle /\ loop' = [loop EXCEPT ![x][1] = new]
      BY <2>3 DEF HubRead
    <3>2. new.at = "get"
      OBVIOUS
    <3> HIDE DEF new
    <3>3. loop'[x][1] = new
      BY <1>0, <2>1, <3>1 DEF LoopOK
    <3> QED
      BY <3>1, <3>2, <3>3 DEF Own, Holding, Idle
  <2>4. CASE HubGet(x, 1)
    <3>1. /\ loop[x][1].at = "get" /\ loop'[x][1].at = "append"
          /\ loop'[x][1].report = loop[x][1].report
          /\ loop'[x][1].slice = SliceOf(stored[loop[x][1].report.task])
      BY <1>0, <2>1, <2>4, GetEffect
    <3> QED
      BY <3>1 DEF Own, Holding
  <2>5. CASE HubAppend(x, 1)
    <3>1. /\ loop'[x][1].report = loop[x][1].report /\ loop[x][1].report.task # k
      BY <1>0, <2>1, <2>5, AppendEffect
    <3> QED
      BY <3>1 DEF Own
  <2>6. CASE HubSave(x, 1)
    <3>1. loop'[x][1] = Idle
      BY <1>0, <2>1, <2>6, SaveEffect
    <3>2. loop[x][1].report.task # k
      BY <1>0, <2>1, <2>6
    <3> QED
      BY <3>1, <3>2 DEF Own, Holding, Idle
  <2> QED
    BY <1>0, <2>1, <2>2, <2>3, <2>4, <2>5, <2>6, LoopChange DEF LoopStep
<1>2. \A t : t \in Views(k)' => t \in Views(k)
  BY <1>1 DEF Views
<1>3. NothingBeyond(k)'
  BY <1>1, <1>2 DEF NothingBeyond
<1>4. \A u : Rank(k, u)' = Rank(k, u)
  BY DEF Rank, Pipeline
<1>5. ViewsInOrder(k)'
  BY <1>2, <1>4 DEF ViewsInOrder
<1> QED
  BY <1>3, <1>5

LEMMA PairSave ==
  ASSUME TaskShape, Flow, LoopSends, NEW k \in Tasks, Pair(k),
         NEW a \in Agents, NEW c \in Conns, HubSave(a, c), loop[a][c].report.task = k,
         NothingBeyond(k), ViewsInOrder(k), [TaskNext]_taskVars
  PROVE  NothingBeyond(k)' /\ ViewsInOrder(k)'
<1>0. /\ 1 \in Conns /\ LoopOK /\ StoreOK /\ stored[k] # NoTask
      /\ job[k].targets \subseteq Agents
  BY TypeParts, TaskAssumption, TargetsKnown DEF TaskShape, Conns, Pair
<1>1. /\ loop[a][c].at = "save" /\ loop'[a][c] = Idle /\ job' = job
  BY SaveEffect
<1>2. PICK s : s = loop[a][c].slice
  OBVIOUS
<1>3. c = 1 /\ a \in job[k].targets
  <2>1. c <= conn[a] /\ a \in job[k].targets
    BY <1>1 DEF LoopSends
  <2> QED
    BY <2>1 DEF Pair, Conns
<1>4. Own(a, k) = s /\ s \in Views(k)
  BY <1>1, <1>2, <1>3 DEF Own, Holding, Views
<1>5. SliceOf(stored'[k]) = s /\ Own(a, k)' = s
  <2>1. SliceOf(stored'[k]) = s
    BY <1>2, SavedSlices
  <2> QED
    BY <1>1, <1>3, <2>1 DEF Own, Holding, Idle
<1>6. ASSUME NEW x \in job[k].targets
      PROVE  Own(x, k)' = s \/ (Own(x, k)' = Own(x, k) /\ Holding(loop[x][1])
                                  /\ loop[x][1].report.task = k /\ x # a)
  <2>1. CASE x = a
    BY <1>5, <2>1
  <2>2. CASE x # a
    <3>1. loop'[x][1] = loop[x][1]
      BY <1>0, <2>2, LoopsApart
    <3> QED
      BY <1>5, <2>2, <3>1 DEF Own
  <2> QED
    BY <2>1, <2>2
<1>7. \A x \in job[k].targets : Own(x, k)' \in Views(k)
  BY <1>4, <1>6 DEF Views
<1>8. \A t : t \in Views(k)' => t \in Views(k)
  BY <1>1, <1>4, <1>5, <1>7 DEF Views
<1>9. ASSUME NEW t \in Views(k)', NEW i \in 1..t.len
      PROVE  arrays'[k][t.array][i] = arrays[k][t.array][i]
  <2>1. t \in Held(k, stored', loop')
    <3>1. t = SliceOf(stored'[k]) \/ \E x \in job[k].targets : t = Own(x, k)'
      BY <1>1 DEF Views
    <3>2. CASE t = SliceOf(stored'[k])
      BY <3>2, HeldSlices
    <3>3. ASSUME NEW x \in job[k].targets, t = Own(x, k)'
          PROVE  t \in Held(k, stored', loop')
      <4>1. CASE Holding(loop'[x][1]) /\ loop'[x][1].report.task = k
        <5>1. t = loop'[x][1].slice /\ x \in Agents
          BY <1>0, <3>3, <4>1 DEF Own
        <5> QED
          BY <1>0, <4>1, <5>1, HeldSlices
      <4>2. CASE ~(Holding(loop'[x][1]) /\ loop'[x][1].report.task = k)
        <5>1. t = SliceOf(stored'[k])
          BY <3>3, <4>2 DEF Own
        <5> QED
          BY <5>1, HeldSlices
      <4> QED
        BY <4>1, <4>2
    <3> QED
      BY <3>1, <3>2, <3>3
  <2>2. /\ Fits(t, arrays'[k]) /\ arrays'[k] \in Seq(Seq(Step))
        /\ \A p \in DOMAIN arrays[k] : \A j \in DOMAIN arrays'[k][p] :
             arrays'[k][p][j] = arrays[k][p][j]
    BY <2>1, SavedArrays
  <2>3. t \in Slice /\ Fits(t, arrays[k])
    BY <1>0, <1>8, ViewsFit
  <2> DEFINE new == arrays'[k]
             b == new[t.array]
  <2>4. t.array \in DOMAIN new /\ t.array \in DOMAIN arrays[k] /\ t.len <= Len(b)
        /\ t.len \in Nat /\ new \in Seq(Seq(Step))
    BY <2>2, <2>3 DEF Fits, Slice
  <2> HIDE DEF new
  <2>5. b \in Seq(Step)
    BY <2>4
  <2> HIDE DEF b
  <2>6. i \in DOMAIN b
    BY <2>4, <2>5
  <2> QED
    BY <2>2, <2>4, <2>6 DEF b, new
<1>10. \A t \in Views(k)' : t.len \in Nat
  BY <1>0, <1>8, ViewsFit DEF Slice
<1>11. ViewsInOrder(k)'
  <2> SUFFICES ASSUME NEW t \in Views(k)', NEW i \in 2..t.len, NEW j \in 2..t.len,
                      NEW u, NEW v, i < j, u = arrays'[k][t.array][i],
                      v = arrays'[k][t.array][j], u.node = v.node
               PROVE  Rank(k, u)' < Rank(k, v)'
    BY DEF ViewsInOrder
  <2>1. u = arrays[k][t.array][i] /\ v = arrays[k][t.array][j]
    BY <1>9, <1>10
  <2>2. Rank(k, u) < Rank(k, v)
    BY <1>8, <2>1 DEF ViewsInOrder
  <2>3. Rank(k, u)' = Rank(k, u) /\ Rank(k, v)' = Rank(k, v)
    BY <1>1 DEF Rank, Pipeline
  <2> QED
    BY <2>2, <2>3
<1>12. NothingBeyond(k)'
  <2> SUFFICES ASSUME NEW x \in job[k].targets, NEW t \in Views(k)',
                      NEW m, m = Own(x, k)', t.array = m.array,
                      NEW i \in (m.len + 1)..t.len
               PROVE  arrays'[k][t.array][i].node # x
    BY <1>1 DEF NothingBeyond
  <2>1. m \in Slice /\ t \in Slice
    BY <1>0, <1>7, <1>8, ViewsFit
  <2>2. i \in 1..t.len /\ m.len \in Nat /\ t.len \in Nat
    BY <2>1 DEF Slice
  <2>3. arrays'[k][t.array][i] = arrays[k][t.array][i]
    BY <1>9, <2>2
  <2>4. CASE m = Own(x, k)
    BY <1>8, <2>3, <2>4 DEF NothingBeyond
  <2>5. CASE m # Own(x, k)
    <3>1. m = s /\ x # a
      BY <1>4, <1>6, <2>5
    <3>2. ~(Holding(loop[x][1]) /\ loop[x][1].report.task = k)
      <4>1. loop'[x][1] = loop[x][1]
        BY <1>0, <3>1, LoopsApart
      <4> QED
        BY <2>5, <4>1 DEF Own
    <3>3. \A y \in job[k].targets : y = a \/ y = x
      BY <1>3, <3>1 DEF Pair
    <3>4. \A y \in job[k].targets : Own(y, k)' = s
      BY <1>5, <3>1, <3>3
    <3>5. t = s
      BY <1>1, <1>5, <3>4 DEF Views
    <3> QED
      BY <2>2, <3>1, <3>5
  <2> QED
    BY <2>4, <2>5
<1> QED
  BY <1>11, <1>12

\* What an append leaves of the elements of its task's arrays.
LEMMA AppendKeeps ==
  ASSUME TaskShape, NEW a \in Agents, NEW c \in Conns, HubAppend(a, c)
  PROVE  LET k == loop[a][c].report.task
             s == loop[a][c].slice
             g == loop'[a][c].slice.array
         IN \A p \in DOMAIN arrays[k] : \A i \in DOMAIN arrays[k][p] :
              \/ arrays'[k][p][i] = arrays[k][p][i]
              \/ p = g /\ i = s.len + 1
<1> SUFFICES ASSUME NEW k, k = loop[a][c].report.task, NEW s, s = loop[a][c].slice,
                    NEW g, g = loop'[a][c].slice.array,
                    NEW p \in DOMAIN arrays[k], NEW i \in DOMAIN arrays[k][p]
             PROVE  \/ arrays'[k][p][i] = arrays[k][p][i]
                    \/ p = g /\ i = s.len + 1
  OBVIOUS
<1>0. StoreOK /\ LoopOK /\ SlicesFit
  BY TypeParts DEF TaskShape
<1> DEFINE l == loop[a][c]
           e == l.report.step
           old == arrays[k]
           new == Appended(old, s, e)
           q == GrownArray(old, s)
           r == [at |-> "save", report |-> l.report, slice |-> AppendedSlice(old, s)]
<1>1. l.at = "append" /\ arrays' = [arrays EXCEPT ![k] = new]
      /\ loop' = [loop EXCEPT ![a][c] = r]
  BY DEF HubAppend
<1>2. k \in Tasks /\ s \in Slice /\ e \in Step
  BY <1>0, <1>1, LoopParts DEF Holding, Report
<1>3. Fits(s, old) /\ old \in Seq(Seq(Step))
  BY <1>0, <1>1, <1>2 DEF SlicesFit, StoreOK, Holding
<1>4. r.slice = AppendedSlice(old, s) /\ q = AppendedSlice(old, s).array
  BY DEF GrownArray
<1> HIDE DEF r
<1>5. loop'[a][c] = r
  BY <1>0, <1>1 DEF LoopOK
<1>6. g = q
  BY <1>4, <1>5
<1>7. new = Appended(old, s, e) /\ q = GrownArray(old, s)
  OBVIOUS
<1> HIDE DEF new, q, e
<1>8. arrays'[k] = new
  BY <1>0, <1>1, <1>2 DEF StoreOK
<1>9. p \in DOMAIN old /\ i \in DOMAIN old[p]
  OBVIOUS
<1> HIDE DEF old
<1>10. \A x \in DOMAIN old : x # q => new[x] = old[x]
  BY <1>2, <1>3, <1>7, AppendedProperties
<1>11. \A x \in DOMAIN old : Len(old[x]) <= Len(new[x])
  BY <1>2, <1>3, <1>7, AppendedProperties
<1>12. \A x \in DOMAIN new[q] : x # s.len + 1 => new[q][x] = old[s.array][x]
  <2>1. \A x \in DOMAIN arrays'[k][g] : x # s.len + 1 =>
          arrays'[k][g][x] = arrays[k][s.array][x]
    BY AppendEffect
  <2> QED
    BY <1>6, <1>8, <2>1 DEF old
<1>13. q \in DOMAIN old => q = s.array
  <2>1. g \in DOMAIN arrays[k] => g = s.array
    BY AppendEffect
  <2> QED
    BY <1>6, <2>1 DEF old
<1>14. new \in Seq(Seq(Step)) /\ \A x : x \in DOMAIN new <=> x \in DOMAIN old \/ x = q
  <2>1. new \in Seq(Seq(Step))
    BY <1>2, <1>3, <1>7, AppendedProperties
  <2>2. \A x : x \in DOMAIN new <=> x \in DOMAIN old \/ x = q
    BY <1>2, <1>3, <1>7, AppendedProperties
  <2> QED
    BY <2>1, <2>2
<1>15. new[p][i] = old[p][i] \/ (p = q /\ i = s.len + 1)
  <2>1. CASE p # q
    BY <1>9, <1>10, <2>1
  <2>2. CASE p = q /\ i # s.len + 1
    <3> DEFINE b == old[p]
               d == new[p]
    <3>1. b \in Seq(Step) /\ d \in Seq(Step) /\ Len(b) <= Len(d) /\ i \in DOMAIN b
      BY <1>3, <1>9, <1>11, <1>14
    <3> HIDE DEF b, d
    <3>2. i \in DOMAIN d
      BY <3>1
    <3> QED
      BY <1>9, <1>12, <1>13, <2>2, <3>2 DEF b, d
  <2> QED
    BY <2>1, <2>2
<1> QED
  BY <1>6, <1>8, <1>15 DEF old

LEMMA PairAppend ==
  ASSUME TaskShape, Flow, LoopSends, NEW k \in Tasks, Pair(k),
         NEW a \in Agents, NEW c \in Conns, HubAppend(a, c), loop[a][c].report.task = k,
         NothingBeyond(k), ViewsInOrder(k), [TaskNext]_taskVars
  PROVE  NothingBeyond(k)' /\ ViewsInOrder(k)'
<1>0. /\ 1 \in Conns /\ LoopOK /\ StoreOK /\ stored[k] # NoTask
      /\ job[k].targets \subseteq Agents /\ PendingNew /\ ConnOK
  BY TypeParts, TaskAssumption, TargetsKnown DEF TaskShape, Conns, Pair, Flow
<1>1. PICK s, m, g, e : /\ s = loop[a][c].slice /\ m = loop'[a][c].slice
                        /\ g = m.array /\ e = loop[a][c].report.step
  OBVIOUS
<1>2. /\ loop[a][c].at = "append" /\ loop'[a][c].at = "save"
      /\ loop'[a][c].report = loop[a][c].report
      /\ m.len = s.len + 1 /\ s \in Slice /\ Fits(s, arrays[k])
      /\ stored' = stored /\ job' = job /\ conn' = conn
  BY <1>1, AppendEffect
<1>3. /\ g \in DOMAIN arrays[k] => g = s.array
      /\ arrays'[k][g][s.len + 1] = e
      /\ \A i \in 1..s.len : arrays'[k][g][i] = arrays[k][s.array][i]
  BY <1>1, AppendEffect
<1>4. /\ Waits(a, c, 1, loop[a][c].report) /\ c = 1 /\ a \in job[k].targets /\ e.node = a
  <2>1. /\ Waits(a, c, 1, loop[a][c].report) /\ c <= conn[a] /\ a \in job[k].targets
        /\ e.node = a
    BY <1>1, <1>2, FirstWaits
  <2> QED
    BY <2>1 DEF Pair, Conns
<1>5. \A i, u : Written(k, i, u) /\ i # 1 /\ u.node = a => Rank(k, u) < Rank(k, e)
  <2>1. conn[a] = 1
    BY DEF Pair
  <2> QED
    BY <1>0, <1>1, <1>4, <2>1 DEF PendingNew
<1>6. Own(a, k) = s /\ s \in Views(k) /\ Own(a, k)' = m
  BY <1>1, <1>2, <1>4 DEF Own, Holding, Views
<1>7. \A x \in job[k].targets : x # a => Own(x, k)' = Own(x, k) /\ Own(x, k) \in Views(k)
  <2> SUFFICES ASSUME NEW x \in job[k].targets, x # a
               PROVE  Own(x, k)' = Own(x, k) /\ Own(x, k) \in Views(k)
    OBVIOUS
  <2>1. loop'[x][1] = loop[x][1]
    BY <1>0, LoopsApart
  <2> QED
    BY <1>2, <2>1 DEF Own, Views
<1>8. \A t : t \in Views(k)' => t = m \/ t \in Views(k)
  BY <1>2, <1>6, <1>7 DEF Views
<1>9. s.len \in Nat \ {0} /\ \A t \in Views(k) : t.len \in Nat /\ t.array \in DOMAIN arrays[k]
  BY <1>0, <1>2, ViewsFit DEF Slice, Fits
\* An element of an old view is as before, or is the step and ends the new view.
<1>10. ASSUME NEW t \in Views(k), NEW i \in 1..t.len
       PROVE  \/ arrays'[k][t.array][i] = arrays[k][t.array][i]
              \/ /\ t.array = g /\ i = s.len + 1 /\ s.array = g
                 /\ arrays'[k][t.array][i] = e
  <2>1. t.array \in DOMAIN arrays[k] /\ i \in DOMAIN arrays[k][t.array]
    BY <1>0, <1>9, ViewsFit
  <2>2. \/ arrays'[k][t.array][i] = arrays[k][t.array][i]
        \/ t.array = g /\ i = s.len + 1
    BY <1>1, <2>1, AppendKeeps
  <2> QED
    BY <1>3, <2>1, <2>2
<1>11. \A u : Rank(k, u)' = Rank(k, u)
  BY <1>2 DEF Rank, Pipeline
<1>12. ViewsInOrder(k)'
  <2> SUFFICES ASSUME NEW t, t \in Views(k)', NEW i \in 2..t.len, NEW j \in 2..t.len,
                      NEW u, NEW v, i < j, u = arrays'[k][t.array][i],
                      v = arrays'[k][t.array][j], u.node = v.node
               PROVE  Rank(k, u) < Rank(k, v)
    BY <1>11 DEF ViewsInOrder
  <2>1. CASE t \in Views(k)
    <3>1. i \in 1..t.len /\ j \in 1..t.len /\ i # 1 /\ t.len \in Nat
      BY <1>9, <2>1
    <3>2. Written(k, i, arrays[k][t.array][i])
      BY <1>0, <2>1, <3>1, ViewsFit
    <3>3. CASE u = arrays[k][t.array][i] /\ v = arrays[k][t.array][j]
      BY <2>1, <3>3 DEF ViewsInOrder
    <3>4. CASE u = arrays[k][t.array][i] /\ v = e
      BY <1>4, <1>5, <3>1, <3>2, <3>4
    <3>5. CASE u = e /\ t.array = s.array /\ i = s.len + 1 /\ v # e
      <4>1. v = arrays[k][t.array][j]
        BY <1>10, <2>1, <3>1, <3>5
      <4>2. j \in (s.len + 1)..t.len
        BY <1>9, <3>1, <3>5
      <4>3. arrays[k][t.array][j].node # a
        BY <1>4, <1>6, <2>1, <3>5, <4>2 DEF NothingBeyond
      <4> QED
        BY <1>4, <3>5, <4>1, <4>3
    <3>6. CASE u = e /\ t.array = s.array /\ i = s.len + 1 /\ v = e
      <4>1. j # s.len + 1
        BY <3>6
      <4>2. v = arrays[k][t.array][j]
        BY <1>10, <2>1, <3>1, <4>1
      <4>3. j \in (s.len + 1)..t.len
        BY <1>9, <3>1, <3>6
      <4>4. arrays[k][t.array][j].node # a
        BY <1>4, <1>6, <2>1, <3>6, <4>3 DEF NothingBeyond
      <4> QED
        BY <1>4, <3>6, <4>2, <4>4
    <3> QED
      BY <1>10, <2>1, <3>1, <3>3, <3>4, <3>5, <3>6
  <2>2. CASE t = m
    <3>1. t.array = g /\ t.len = s.len + 1 /\ i \in 1..s.len /\ i # 1
      BY <1>1, <1>2, <1>9, <2>2
    <3>2. u = arrays[k][s.array][i] /\ Written(k, i, u)
      BY <1>0, <1>3, <1>6, <3>1, ViewsFit
    <3>3. CASE j = s.len + 1
      <4>1. v = e
        BY <1>3, <3>1, <3>3
      <4> QED
        BY <1>4, <1>5, <3>1, <3>2, <4>1
    <3>4. CASE j # s.len + 1
      <4>1. j \in 1..s.len /\ i \in 2..s.len /\ j \in 2..s.len
        BY <1>9, <3>1, <3>4
      <4>2. v = arrays[k][s.array][j]
        BY <1>3, <3>1, <4>1
      <4> QED
        BY <1>6, <3>2, <4>1, <4>2 DEF ViewsInOrder
    <3> QED
      BY <3>3, <3>4
  <2> QED
    BY <1>8, <2>1, <2>2
<1>13. NothingBeyond(k)'
  <2> SUFFICES ASSUME NEW x \in job[k].targets, NEW t, t \in Views(k)',
                      NEW o, o = Own(x, k)', t.array = o.array,
                      NEW i \in (o.len + 1)..t.len
               PROVE  arrays'[k][t.array][i].node # x
    BY <1>2 DEF NothingBeyond
  <2>1. CASE x = a /\ t = m
    BY <1>2, <1>6, <1>9, <2>1
  <2>2. CASE x = a /\ t \in Views(k)
    <3>1. o = m /\ t.array = g /\ g = s.array
      BY <1>1, <1>3, <1>6, <1>9, <2>2
    <3>2. i \in (s.len + 1)..t.len /\ i \in 1..t.len /\ i # s.len + 1
      BY <1>2, <1>9, <2>2, <3>1
    <3>3. arrays'[k][t.array][i] = arrays[k][t.array][i]
      BY <1>10, <2>2, <3>2
    <3> QED
      BY <1>6, <2>2, <3>1, <3>2, <3>3 DEF NothingBeyond
  <2>3. CASE x # a /\ t \in Views(k)
    <3>1. o = Own(x, k) /\ o.len \in Nat
      BY <1>7, <1>9, <2>3
    <3>2. arrays[k][t.array][i].node # x
      BY <2>3, <3>1 DEF NothingBeyond
    <3>3. i \in 1..t.len
      BY <1>9, <2>3, <3>1
    <3> QED
      BY <1>4, <1>10, <2>3, <3>2, <3>3
  <2>4. CASE x # a /\ t = m
    <3>1. o = Own(x, k) /\ o.len \in Nat /\ o.array \in DOMAIN arrays[k]
      BY <1>7, <1>9, <2>4
    <3>2. t.array = g /\ g = s.array /\ t.len = s.len + 1
      BY <1>1, <1>2, <1>3, <2>4, <3>1
    <3>3. CASE i = s.len + 1
      BY <1>3, <1>4, <2>4, <3>2, <3>3
    <3>4. CASE i # s.len + 1
      <4>1. i \in (o.len + 1)..s.len /\ i \in 1..s.len
        BY <1>9, <3>1, <3>2, <3>4
      <4>2. arrays[k][s.array][i].node # x
        BY <1>6, <2>4, <3>1, <3>2, <4>1 DEF NothingBeyond
      <4> QED
        BY <1>3, <3>2, <4>1, <4>2
    <3> QED
      BY <3>3, <3>4
  <2> QED
    BY <1>8, <2>1, <2>2, <2>3, <2>4
<1> QED
  BY <1>12, <1>13

LEMMA PairsStep ==
  ASSUME TaskShape, Flow, LoopSends, PairsInOrder, [TaskNext]_taskVars
  PROVE  PairsInOrder'
<1> SUFFICES ASSUME NEW k \in Tasks, Pair(k)'
             PROVE  NothingBeyond(k)' /\ ViewsInOrder(k)'
  BY DEF PairsInOrder
<1>0. ConnOK /\ HandlerOK
  BY TypeParts DEF TaskShape
<1>1. stored'[k] # NoTask
  BY DEF Pair
<1>2. CASE stored[k] = NoTask
  <2>1. PICK request \in Requests : Dispatch(k, request)
    BY <1>1, <1>2, Born
  <2> QED
    BY <2>1, PairBorn
<1>3. CASE stored[k] # NoTask
  <2>1. Agents # {}
    BY DEF Pair
  <2>2. job'[k] = job[k] /\ job[k].targets \subseteq Agents
    BY <1>0, <1>3, <2>1, JobStays, TargetsKnown
  <2>3. \A a \in Agents : conn[a] = 1
    <3> SUFFICES ASSUME NEW a \in Agents
                 PROVE  conn[a] = 1
      OBVIOUS
    <3>1. conn'[a] = 1
      BY DEF Pair
    <3> QED
      BY <1>0, <3>1, ConnGrows
  <2>4. Pair(k)
    BY <1>3, <2>2, <2>3 DEF Pair
  <2>5. NothingBeyond(k) /\ ViewsInOrder(k)
    BY <2>4 DEF PairsInOrder
  <2>6. CASE \E a \in Agents, c \in Conns : HubAppend(a, c) /\ loop[a][c].report.task = k
    BY <2>4, <2>5, <2>6, PairAppend
  <2>7. CASE \E a \in Agents, c \in Conns : HubSave(a, c) /\ loop[a][c].report.task = k
    BY <2>4, <2>5, <2>7, PairSave
  <2>8. CASE \A a \in Agents, c \in Conns :
               HubAppend(a, c) \/ HubSave(a, c) => loop[a][c].report.task # k
    <3>1. stored'[k] = stored[k] /\ arrays'[k] = arrays[k]
      BY <1>3, <2>8, TaskChange
    <3> QED
      BY <1>3, <2>2, <2>5, <2>8, <3>1, PairQuiet
  <2> QED
    BY <2>6, <2>7, <2>8
<1> QED
  BY <1>2, <1>3

LEMMA PairsInit == TaskInit => PairsInOrder
  BY DEF TaskInit, PairsInOrder, Pair

\* While no agent has reconnected, the stored steps of each of a task's two
\* agents are in the order of its pipeline, though both read loops append to the
\* same arrays and save older copies of the task (handleTaskStep).
THEOREM StepsOfTwoInOrder == TaskSpec => []StepsInOrder
<1>1. ASSUME TaskShape, PairsInOrder
      PROVE  StepsInOrder
  <2> SUFFICES ASSUME \A a \in Agents : conn[a] = 1, NEW k \in Tasks,
                      \E a, b \in Agents : job[k].targets \subseteq {a, b},
                      NEW i \in DOMAIN Steps(k) \ {1}, NEW j \in DOMAIN Steps(k) \ {1},
                      i < j, Steps(k)[i].node = Steps(k)[j].node
               PROVE  Rank(k, Steps(k)[i]) < Rank(k, Steps(k)[j])
    BY DEF StepsInOrder
  <2>1. stored[k] # NoTask
    BY DEF Steps
  <2>2. ViewsInOrder(k)
    BY <1>1, <2>1 DEF PairsInOrder, Pair
  <2> DEFINE t == SliceOf(stored[k])
  <2>3. t \in Views(k) /\ t.len = stored[k].len /\ t.array = stored[k].array
    BY DEF Views, SliceOf
  <2>4. /\ Steps(k) \in Seq(Step) /\ Len(Steps(k)) = t.len /\ t.len \in Nat
        /\ \A m \in 1..t.len : Steps(k)[m] = arrays[k][t.array][m]
    BY <1>1, <2>1, <2>3, StepsAre
  <2> HIDE DEF t
  <2>5. i \in 2..t.len /\ j \in 2..t.len /\ i \in 1..t.len /\ j \in 1..t.len
    BY <2>4
  <2> QED
    BY <2>2, <2>3, <2>4, <2>5 DEF ViewsInOrder
<1> QED
  BY <1>1, FlowAlways, LoopSendsInit, LoopSendsStep, PairsInit, PairsStep, PTL DEF TaskSpec
=============================================================================
