----------------------------- MODULE ConsoleProofs -----------------------------
(***************************************************************************)
(* Theorems about the web console, for any nodes, controllers, scenarios   *)
(* and numbers of calls in flight.                                         *)
(***************************************************************************)
EXTENDS Console, FiniteSetTheorems, FunctionTheorems, TLAPS

-----------------------------------------------------------------------------
(* Calls that are sent. *)

\* A call that has no ID yet.
Draft ==
  {k \in [id : {0}, kind : Kinds, node : Nodes \cup {None}, base : Bases,
          good : BOOLEAN, shown : BOOLEAN, choices : [Nodes -> Nodes \cup {None}],
          list : {{}}, state : {"sent"}] :
     k.node \in Nodes <=> k.kind \in NodeKinds}

\* Kind k goes with node n, or with None.
Fits(k, n) == n \in Nodes \cup {None} /\ (n \in Nodes <=> k \in NodeKinds)

Unique(cs) == \A c, d \in cs : c.id = d.id => c = d

\* A call that is not numbered is a draft.
LEMMA ToDraft ==
  ASSUME NEW k \in Kinds, NEW n, Fits(k, n), NEW b \in Bases, NEW t
  PROVE  To(k, n, b, t) \in Draft
<1>1. NoChoice \in [Nodes -> Nodes \cup {None}]
  BY DEF NoChoice
<1> QED
  BY <1>1 DEF To, Draft, Fits

\* Draft k with ID i.
As(k, i) == [k EXCEPT !.id = i]

LEMMA NumberedDraft ==
  ASSUME NEW k \in Draft, NEW i \in Slots
  PROVE  /\ As(k, i) \in Call /\ As(k, i).id = i
         /\ As(k, i).kind = k.kind /\ As(k, i).shown = k.shown
<1> DEFINE d == [id |-> i, kind |-> k.kind, node |-> k.node, base |-> k.base,
                 good |-> k.good, shown |-> k.shown, choices |-> k.choices,
                 list |-> k.list, state |-> k.state]
<1>1. [k EXCEPT !.id = i] = d
  BY DEF Draft
<1>2. d \in Call
  BY DEF Draft, Call
<1> QED
  BY <1>1, <1>2 DEF As

\* Free IDs are enough for as many calls.
LEMMA Numbering ==
  ASSUME NEW K, NEW F, IsFiniteSet(K), IsFiniteSet(F), Cardinality(K) <= Cardinality(F)
  PROVE  \E f \in [K -> F] : IsInjective(f)
<1> DEFINE m == Cardinality(K)  n == Cardinality(F)
<1>1. m \in Nat /\ n \in Nat /\ ExistsBijection(1..m, K) /\ ExistsBijection(1..n, F)
  BY FS_CardinalityType
<1>2. ExistsBijection(K, 1..m)
  BY <1>1, Fun_ExistsBijSymmetric
<1>3. PICK g \in [K -> 1..m] : IsInjective(g)
  BY <1>2 DEF ExistsBijection, Bijection, Injection
<1>4. PICK h \in [1..n -> F] : IsInjective(h)
  BY <1>1 DEF ExistsBijection, Bijection, Injection
<1>5. 1..m \subseteq 1..n
  BY <1>1
<1> DEFINE f == [k \in K |-> h[g[k]]]
<1>6. f \in [K -> F]
  BY <1>3, <1>4, <1>5
<1>7. IsInjective(f)
  BY <1>3, <1>4, <1>5 DEF IsInjective
<1> QED
  BY <1>6, <1>7

\* Sending the drafts K beside cs leaves calls ds: each draft has its ID.
Sends(cs, K, ds) ==
  /\ ds \subseteq Call /\ Unique(ds)
  /\ cs \subseteq ds
  /\ \A k \in K : \E i \in Slots : As(k, i) \in ds
  /\ \A d \in ds \ cs : \E k \in K, i \in Slots : d = As(k, i)
  /\ \A k \in K : K = {k} => \E i \in Slots : ds = cs \cup {As(k, i)}

LEMMA SentCalls ==
  ASSUME NEW s \in Scenarios, scene = s, NEW cs, cs \subseteq Call, Unique(cs),
         NEW K, K \subseteq Draft, IsFiniteSet(K), Room(cs, K)
  PROVE  Sends(cs, K, Sent(cs, K))
<1> DEFINE id == CHOOSE f \in [K -> Free(cs)] : IsInjective(f)
<1>1. IsFiniteSet(scene.slots) /\ scene.slots \subseteq Slots
  BY ConsoleAssumption DEF Slots, Scenario
<1>2. IsFiniteSet(Free(cs))
  BY <1>1, FS_Subset DEF Free
<1>3. \E f \in [K -> Free(cs)] : IsInjective(f)
  BY <1>2, Numbering DEF Room
<1>4. id \in [K -> Free(cs)] /\ IsInjective(id)
  BY <1>3
<1>5. Sent(cs, K) = cs \cup {As(k, id[k]) : k \in K}
  BY DEF Sent, As
<1> HIDE DEF id
<1>6. \A k \in K : id[k] \in Slots /\ id[k] \notin {c.id : c \in cs}
  BY <1>1, <1>4 DEF Free
<1>7. \A k \in K : As(k, id[k]) \in Call /\ As(k, id[k]).id = id[k]
  BY <1>6, NumberedDraft
<1>8. Sent(cs, K) \subseteq Call
  BY <1>5, <1>7
<1>9. Unique(Sent(cs, K))
  <2> SUFFICES ASSUME NEW c \in Sent(cs, K), NEW d \in Sent(cs, K), c.id = d.id
               PROVE  c = d
    BY DEF Unique
  <2>1. CASE c \in cs /\ d \in cs
    BY <2>1 DEF Unique
  <2>2. CASE c \in cs /\ d \notin cs
    BY <2>2, <1>5, <1>6, <1>7
  <2>3. CASE c \notin cs /\ d \in cs
    BY <2>3, <1>5, <1>6, <1>7
  <2>4. CASE c \notin cs /\ d \notin cs
    <3>1. PICK j \in K : c = As(j, id[j])
      BY <2>4, <1>5
    <3>2. PICK k \in K : d = As(k, id[k])
      BY <2>4, <1>5
    <3>3. id[j] = id[k]
      BY <3>1, <3>2, <1>7
    <3> QED
      BY <3>1, <3>2, <3>3, <1>4 DEF IsInjective
  <2> QED
    BY <2>1, <2>2, <2>3, <2>4
<1>10. \A k \in K : K = {k} => Sent(cs, K) = cs \cup {As(k, id[k])}
  BY <1>5
<1> QED
  BY <1>5, <1>6, <1>8, <1>9, <1>10 DEF Sends

LEMMA KindsOfHooks ==
  /\ Hooks \subseteq Kinds /\ Hooks \subseteq Spinners /\ IsFiniteSet(Hooks)
  /\ "nodes" \in Hooks /\ \A h \in Hooks : Fits(h, None)
BY ConsoleAssumption DEF Kinds, Spinners, Fits

LEMMA FitsNode ==
  /\ \A k \in NodeKinds, n \in Nodes : k \in Kinds /\ Fits(k, n)
  /\ \A k \in OtherKinds : k \in Kinds /\ Fits(k, None)
  /\ Fits("nodes", None)
BY ConsoleAssumption DEF Kinds, Fits, NodeKinds, OtherKinds

\* The calls for node n to b, one of each kind in S.
LEMMA ToDrafts ==
  ASSUME NEW S, S \subseteq Kinds, IsFiniteSet(S), NEW n, \A k \in S : Fits(k, n),
         NEW b \in Bases, NEW t
  PROVE  /\ {To(k, n, b, t) : k \in S} \subseteq Draft
         /\ IsFiniteSet({To(k, n, b, t) : k \in S})
         /\ Cardinality({To(k, n, b, t) : k \in S}) <= Cardinality(S)
<1> DEFINE K == {To(k, n, b, t) : k \in S}
           f == [k \in S |-> To(k, n, b, t)]
<1>1. K \subseteq Draft
  BY ToDraft
<1>2. f \in Surjection(S, K)
  BY DEF Surjection
<1> QED
  BY <1>1, <1>2, FS_Surjection

LEMMA HookDrafts ==
  ASSUME NEW b \in Bases, NEW t
  PROVE  HookCalls(b, t) \subseteq Draft /\ IsFiniteSet(HookCalls(b, t))
BY KindsOfHooks, ToDrafts DEF HookCalls

LEMMA OneDraft ==
  ASSUME NEW k \in Draft
  PROVE  {k} \subseteq Draft /\ IsFiniteSet({k}) /\ \A j \in {k} : j = k
BY FS_Singleton

CallsOK(cs) == cs \subseteq Call /\ Unique(cs)

\* A fresh page's calls: a scenario has IDs for all tables.
LEMMA FreshCalls ==
  ASSUME NEW s \in Scenarios, scene = s, NEW b \in Bases, NEW t, NEW set \in BOOLEAN
  PROVE  /\ CallsOK(FreshPage(b, t, set).calls)
         /\ FreshPage(b, t, set).view = InitialView(t, set)
         /\ FreshPage(b, t, set).busy \in [Spinners -> BOOLEAN]
         /\ InitialView(t, set) \in {"login", "register", "app"}
         /\ LET v == InitialView(t, set)
                loading == IF v = "app" THEN Hooks ELSE {}
            IN /\ FreshPage(b, t, set).busy = [f \in Spinners |-> f \in loading]
               /\ Sends({}, {To(h, None, b, t) : h \in loading}, FreshPage(b, t, set).calls)
<1> DEFINE v == InitialView(t, set)
           loading == IF v = "app" THEN Hooks ELSE {}
           K == {To(h, None, b, t) : h \in loading}
<1>1. loading \subseteq Hooks /\ IsFiniteSet(loading) /\ loading \subseteq Kinds
  BY KindsOfHooks, FS_EmptySet
<1>2. K \subseteq Draft /\ IsFiniteSet(K) /\ Cardinality(K) <= Cardinality(loading)
  <2> HIDE DEF loading
  <2> QED BY <1>1, KindsOfHooks, ToDrafts
<1>3. Cardinality(loading) <= Cardinality(Hooks) /\ Cardinality(loading) \in Nat
      /\ Cardinality(Hooks) \in Nat /\ Cardinality(K) \in Nat
  BY <1>1, <1>2, ConsoleAssumption, FS_Subset, FS_CardinalityType
<1>4. IsFiniteSet(scene.slots) /\ Cardinality(Hooks) <= Cardinality(scene.slots)
      /\ Cardinality(scene.slots) \in Nat
  BY ConsoleAssumption, FS_CardinalityType
<1>5. Free({}) = scene.slots
  BY DEF Free
<1>6. Room({}, K)
  BY <1>2, <1>3, <1>4, <1>5 DEF Room
<1>7. Sends({}, K, Sent({}, K))
  <2> HIDE DEF K
  <2> QED BY <1>2, <1>6, SentCalls DEF Unique
<1>8. FreshPage(b, t, set) = [view |-> v, busy |-> [f \in Spinners |-> f \in loading],
                              calls |-> Sent({}, K)]
  BY DEF FreshPage
<1>9. v \in {"login", "register", "app"}
  BY DEF InitialView
<1>10. /\ FreshPage(b, t, set).view = v
       /\ FreshPage(b, t, set).busy = [f \in Spinners |-> f \in loading]
       /\ FreshPage(b, t, set).calls = Sent({}, K)
  <2> HIDE DEF v, loading, K
  <2> QED BY <1>8
<1>11. CallsOK(Sent({}, K))
  BY <1>7 DEF Sends, CallsOK
<1>12. [f \in Spinners |-> f \in loading] \in [Spinners -> BOOLEAN]
  OBVIOUS
<1> QED
  BY <1>7, <1>9, <1>10, <1>11, <1>12

\* A call that is sent beside some of those in flight.
LEMMA SendTyped ==
  ASSUME ConsoleTypeOK, NEW cs, cs \subseteq calls, NEW K, K \subseteq Draft, IsFiniteSet(K),
         Send(cs, K)
  PROVE  Sends(cs, K, calls') /\ CallsOK(calls')
<1>1. scene \in Scenarios /\ cs \subseteq Call /\ Unique(cs)
  BY DEF ConsoleTypeOK, Unique
<1>2. Sends(cs, K, Sent(cs, K))
  BY <1>1, SentCalls DEF Send
<1> QED
  BY <1>2 DEF Send, Sends, CallsOK

\* Call d is call c with another answer or state.
Same(d, c) == d \in Call /\ d.id = c.id /\ d.kind = c.kind /\ d.shown = c.shown

\* What may change in a call in flight.
LEMMA CallChanges ==
  ASSUME NEW c \in Call
  PROVE  /\ \A x \in {"sent", "counted", "ok", "failed"} : Same([c EXCEPT !.state = x], c)
         /\ \A x \in SUBSET Nodes : Same([c EXCEPT !.state = "ok", !.list = x], c)
         /\ \A x \in [Nodes -> Nodes \cup {None}] :
              Same([c EXCEPT !.state = "ok", !.choices = x], c)
<1>1. ASSUME NEW x \in {"sent", "counted", "ok", "failed"}
      PROVE  Same([c EXCEPT !.state = x], c)
  BY DEF Call, Same
<1>2. ASSUME NEW x \in SUBSET Nodes
      PROVE  Same([c EXCEPT !.state = "ok", !.list = x], c)
  BY DEF Call, Same
<1>3. ASSUME NEW x \in [Nodes -> Nodes \cup {None}]
      PROVE  Same([c EXCEPT !.state = "ok", !.choices = x], c)
  BY DEF Call, Same
<1> QED
  BY <1>1, <1>2, <1>3

\* Call c once its form has been left.
Hidden(c) == [c EXCEPT !.shown = FALSE]

LEMMA CallHidden ==
  ASSUME NEW c \in Call
  PROVE  /\ Hidden(c) \in Call /\ Hidden(c).id = c.id /\ Hidden(c).kind = c.kind
         /\ Hidden(c).shown = FALSE
<1>1. Hidden(c) \in Call
  BY DEF Call, Hidden
<1>2. Hidden(c).id = c.id /\ Hidden(c).kind = c.kind /\ Hidden(c).shown = FALSE
  BY DEF Call, Hidden
<1> QED
  BY <1>1, <1>2

LEMMA ApiDraft ==
  ASSUME ConsoleTypeOK, NEW k \in Kinds, NEW n, Fits(k, n)
  PROVE  Api(k, n) \in Draft
BY ToDraft DEF ConsoleTypeOK, Api

LEMMA ApiDrafts ==
  ASSUME ConsoleTypeOK, NEW S, S \subseteq Kinds, IsFiniteSet(S), NEW n,
         \A k \in S : Fits(k, n)
  PROVE  {Api(k, n) : k \in S} \subseteq Draft /\ IsFiniteSet({Api(k, n) : k \in S})
<1>1. base \in Bases
  BY DEF ConsoleTypeOK
<1>2. {Api(k, n) : k \in S} = {To(k, n, base, token) : k \in S}
  BY DEF Api
<1>3. /\ {To(k, n, base, token) : k \in S} \subseteq Draft
      /\ IsFiniteSet({To(k, n, base, token) : k \in S})
  BY <1>1, ToDrafts
<1> QED
  BY <1>2, <1>3, Zenon


-----------------------------------------------------------------------------
(* Types. *)

StorageOK == base \in Bases /\ token \in Bases \cup {None} /\ adminSet \in BOOLEAN

ViewOK ==
  /\ view \in {"login", "register", "app"}
  /\ seen \in Bases \cup {None}
  /\ at \in {Closed} \cup (Modals \X Nodes)
               \cup ({"newnode", "settings", "install"} \X {None})
  /\ mounted \in BOOLEAN

FlagsOK == busy \in [Spinners -> BOOLEAN] /\ failed \in [Hooks -> BOOLEAN]

ShownOK ==
  /\ data \in [Hooks -> (SUBSET Nodes) \cup {{None}}]
  /\ about \in [Panels -> Nodes \cup {None}]
  /\ form \in [Nodes -> Nodes \cup {None}]

ServerOK ==
  /\ admins \subseteq Bases /\ store \subseteq Nodes
  /\ peps \in [Nodes -> [Nodes -> Nodes \cup {None}]]

LEMMA TypeParts ==
  ConsoleTypeOK <=> /\ scene \in Scenarios /\ StorageOK /\ ViewOK /\ FlagsOK
                    /\ ShownOK /\ ServerOK /\ CallsOK(calls)
BY DEF ConsoleTypeOK, StorageOK, ViewOK, FlagsOK, ShownOK, ServerOK, CallsOK, Unique

\* The same of the next state.
LEMMA NextTypeParts ==
  ASSUME scene' \in Scenarios, StorageOK', ViewOK', FlagsOK', ShownOK', ServerOK',
         CallsOK(calls')
  PROVE  ConsoleTypeOK'
BY DEF ConsoleTypeOK, StorageOK, ViewOK, FlagsOK, ShownOK, ServerOK, CallsOK, Unique

LEMMA SetFlags ==
  ASSUME NEW D, NEW f \in [D -> BOOLEAN], NEW S, NEW v \in BOOLEAN
  PROVE  Set(f, S, v) \in [D -> BOOLEAN]
BY DEF Set

LEMMA InitTypes == Init => ConsoleTypeOK
<1> SUFFICES ASSUME Init
             PROVE  ConsoleTypeOK
  OBVIOUS
<1>1. base \in Bases /\ token \in Bases \cup {None} /\ adminSet \in BOOLEAN
  <2>1. base \in Bases /\ token \in Bases \cup {None}
    BY DEF Init
  <2>2. adminSet \in BOOLEAN
    <3>1. CASE "auth" \in uses
      BY <3>1 DEF Init
    <3>2. CASE "auth" \notin uses
      BY <3>2 DEF Init
    <3> QED
      BY <3>1, <3>2
  <2> QED
    BY <2>1, <2>2
<1>2. scene \in Scenarios
  BY DEF Init
<1>3. CallsOK(calls) /\ view \in {"login", "register", "app"} /\ busy \in [Spinners -> BOOLEAN]
  BY <1>1, <1>2, FreshCalls DEF Init
<1>4. ViewOK
  BY <1>1, <1>3 DEF Init, ViewOK
<1>5. FlagsOK
  BY <1>3 DEF Init, FlagsOK
<1>6. ShownOK
  <2>1. data \in [Hooks -> (SUBSET Nodes) \cup {{None}}]
    BY DEF Init
  <2>2. about \in [Panels -> Nodes \cup {None}]
    BY DEF Init
  <2>3. form \in [Nodes -> Nodes \cup {None}]
    BY DEF Init, NoChoice
  <2> QED
    BY <2>1, <2>2, <2>3 DEF ShownOK
<1>7. ServerOK
  <2>1. admins \subseteq Bases /\ store \subseteq Nodes
    BY ConsoleAssumption DEF Init, Scenario
  <2>2. PICK S \in SUBSET Nodes, m \in Nodes :
          peps = [n \in Nodes |-> IF n \in S THEN [NoChoice EXCEPT ![m] = n] ELSE NoChoice]
    BY ConsoleAssumption DEF Init
  <2>3. NoChoice \in [Nodes -> Nodes \cup {None}]
    BY DEF NoChoice
  <2> QED
    BY <2>1, <2>2, <2>3 DEF ServerOK
<1> QED
  BY <1>1, <1>2, <1>3, <1>4, <1>5, <1>6, <1>7, TypeParts DEF StorageOK

\* One member of a set of drafts.
LEMMA SendOne ==
  ASSUME ConsoleTypeOK, NEW cs, cs \subseteq calls, NEW k \in Draft, Send(cs, {k})
  PROVE  Sends(cs, {k}, calls') /\ CallsOK(calls')
BY OneDraft, SendTyped

\* What Run does to the flags and the calls.
LEMMA RunTyped ==
  ASSUME ConsoleTypeOK, NEW cs, cs \subseteq calls, Run(Hooks, cs)
  PROVE  FlagsOK' /\ CallsOK(calls') /\ Sends(cs, {Api(h, None) : h \in Hooks}, calls')
<1>1. /\ {Api(h, None) : h \in Hooks} \subseteq Draft
      /\ IsFiniteSet({Api(h, None) : h \in Hooks})
  BY ApiDrafts, KindsOfHooks
<1>2. Sends(cs, {Api(h, None) : h \in Hooks}, calls') /\ CallsOK(calls')
  BY <1>1, SendTyped DEF Run
<1>3. FlagsOK'
  BY SetFlags DEF Run, ConsoleTypeOK, FlagsOK
<1> QED
  BY <1>2, <1>3

\* What a panel's opening does.
LEMMA OpenTyped ==
  ASSUME ConsoleTypeOK, NEW m \in Modals, NEW n \in Nodes, NEW K \in SUBSET NodeKinds,
         IsFiniteSet(K), Open(m, n, K)
  PROVE  ConsoleTypeOK' /\ Sends(calls, {Api(k, n) : k \in K}, calls')
<1>1. {Api(k, n) : k \in K} \subseteq Draft /\ IsFiniteSet({Api(k, n) : k \in K})
  BY ApiDrafts, FitsNode
<1>2. Sends(calls, {Api(k, n) : k \in K}, calls') /\ CallsOK(calls')
  BY <1>1, SendTyped DEF Open
<1>3. FlagsOK'
  BY SetFlags DEF Open, inner, ConsoleTypeOK, FlagsOK
<1>4. ViewOK'
  BY DEF Open, inner, ConsoleTypeOK, ViewOK
<1>5. ShownOK' /\ StorageOK' /\ ServerOK' /\ scene' \in Scenarios
  BY DEF Open, inner, storage, server, ConsoleTypeOK, ShownOK, StorageOK, ServerOK
<1> QED
  BY <1>2, <1>3, <1>4, <1>5, NextTypeParts

\* Of a step that changes no more than flags, calls and the modal.
LEMMA PanelTyped ==
  ASSUME ConsoleTypeOK, busy' \in [Spinners -> BOOLEAN], CallsOK(calls'),
         UNCHANGED <<scene, storage, inner, server>>,
         at' = at \/ at' = Closed \/ at' \in Modals \X Nodes,
         about' \in [Panels -> Nodes \cup {None}]
  PROVE  ConsoleTypeOK'
<1>1. StorageOK' /\ ServerOK' /\ scene' \in Scenarios
  BY DEF storage, server, ConsoleTypeOK, StorageOK, ServerOK
<1>2. ViewOK'
  BY DEF inner, ConsoleTypeOK, ViewOK
<1>3. FlagsOK' /\ ShownOK'
  BY DEF inner, ConsoleTypeOK, FlagsOK, ShownOK
<1> QED
  BY <1>1, <1>2, <1>3, NextTypeParts

\* The draft of a saved endpoint form.
LEMMA ChoicesDraft ==
  ASSUME ConsoleTypeOK, NEW n \in Nodes
  PROVE  [Api("saveEndpoints", n) EXCEPT !.choices =
            [m \in Nodes |-> IF m \in Listed \ {n} THEN form[m] ELSE None]] \in Draft
<1>1. Api("saveEndpoints", n) \in Draft
  BY ApiDraft, FitsNode DEF NodeKinds
<1>2. [m \in Nodes |-> IF m \in Listed \ {n} THEN form[m] ELSE None]
        \in [Nodes -> Nodes \cup {None}]
  BY DEF ConsoleTypeOK
<1>3. ASSUME NEW k \in Draft, NEW f \in [Nodes -> Nodes \cup {None}]
      PROVE  [k EXCEPT !.choices = f] \in Draft
  BY DEF Draft
<1> QED
  BY <1>1, <1>2, <1>3

LEMMA OldCalls == ConsoleTypeOK => CallsOK(calls) /\ \A cs : cs \subseteq calls => CallsOK(cs)
BY DEF ConsoleTypeOK, CallsOK, Unique

\* Signing in: the steps of its forms.
LEMMA FormTyped ==
  ASSUME ConsoleTypeOK, SwitchForm \/ SubmitLogin \/ SubmitRegister \/ EditStorage
  PROVE  ConsoleTypeOK'
<1>1. CASE SwitchForm
  <2>1. CallsOK(calls')
    <3>1. calls' = {Hidden(c) : c \in calls}
      BY <1>1 DEF SwitchForm, Hidden
    <3>2. calls \subseteq Call /\ Unique(calls)
      BY DEF ConsoleTypeOK, Unique
    <3>3. \A c \in calls : Hidden(c) \in Call /\ Hidden(c).id = c.id
      BY <3>2, CallHidden
    <3>4. calls' \subseteq Call
      BY <3>1, <3>3
    <3>5. \A c, d \in calls : Hidden(c).id = Hidden(d).id => Hidden(c) = Hidden(d)
      BY <3>2, <3>3 DEF Unique
    <3>6. Unique(calls')
      BY <3>1, <3>5, Zenon DEF Unique
    <3> QED
      BY <3>4, <3>6 DEF CallsOK
  <2>2. ViewOK' /\ ShownOK'
    BY <1>1 DEF SwitchForm, panels, ConsoleTypeOK, ViewOK, ShownOK
  <2>3. FlagsOK'
    BY <1>1 DEF SwitchForm, panels, ConsoleTypeOK, FlagsOK
  <2>4. StorageOK' /\ ServerOK' /\ scene' \in Scenarios
    BY <1>1 DEF SwitchForm, storage, server, ConsoleTypeOK, StorageOK, ServerOK
  <2> QED
    BY <2>1, <2>2, <2>3, <2>4, NextTypeParts
<1>2. ASSUME NEW kind \in {"login", "register"}, SubmitForm(kind)
      PROVE  ConsoleTypeOK'
  <2>1. PICK b \in Bases : Send(calls, {To(kind, None, b, None)})
    BY <1>2 DEF SubmitForm
  <2>2. To(kind, None, b, None) \in Draft
    BY ToDraft, FitsNode DEF OtherKinds
  <2>3. CallsOK(calls')
    BY <2>1, <2>2, SendOne
  <2>4. FlagsOK' /\ ViewOK' /\ ShownOK'
    BY <1>2 DEF SubmitForm, panels, ConsoleTypeOK, FlagsOK, ViewOK, ShownOK
  <2>5. StorageOK' /\ ServerOK' /\ scene' \in Scenarios
    BY <1>2 DEF SubmitForm, storage, server, ConsoleTypeOK, StorageOK, ServerOK
  <2> QED
    BY <2>3, <2>4, <2>5, NextTypeParts
<1>3. CASE EditStorage
  <2>1. StorageOK'
    BY <1>3 DEF EditStorage, ConsoleTypeOK, StorageOK
  <2>2. FlagsOK' /\ ViewOK' /\ ShownOK' /\ ServerOK' /\ scene' \in Scenarios
    BY <1>3 DEF EditStorage, page, server, ConsoleTypeOK, FlagsOK, ViewOK, ShownOK, ServerOK
  <2>3. CallsOK(calls')
    BY <1>3, OldCalls DEF EditStorage
  <2> QED
    BY <2>1, <2>2, <2>3, NextTypeParts
<1> QED
  BY <1>1, <1>2, <1>3 DEF SubmitLogin, SubmitRegister

LEMMA LogoutTyped ==
  ASSUME ConsoleTypeOK, Logout
  PROVE  ConsoleTypeOK'
<1>1. base \in Bases /\ adminSet \in BOOLEAN /\ scene \in Scenarios
  BY DEF ConsoleTypeOK
<1>2. /\ CallsOK(calls') /\ busy' \in [Spinners -> BOOLEAN]
      /\ view' \in {"login", "register", "app"}
  BY <1>1, FreshCalls DEF Logout
<1>3. ViewOK'
  BY <1>2 DEF Logout, ViewOK
<1>4. FlagsOK'
  BY <1>2 DEF Logout, FlagsOK
<1>5. ShownOK'
  <2>1. data' \in [Hooks -> (SUBSET Nodes) \cup {{None}}]
    BY DEF Logout
  <2>2. about' \in [Panels -> Nodes \cup {None}]
    BY DEF Logout
  <2>3. form' \in [Nodes -> Nodes \cup {None}]
    BY DEF Logout, NoChoice
  <2> QED
    BY <2>1, <2>2, <2>3 DEF ShownOK
<1>6. StorageOK' /\ ServerOK' /\ scene' \in Scenarios
  BY DEF Logout, server, ConsoleTypeOK, StorageOK, ServerOK
<1> QED
  BY <1>2, <1>3, <1>4, <1>5, <1>6, NextTypeParts

\* The tables run again.
LEMMA HooksTyped ==
  ASSUME ConsoleTypeOK, Rerender \/ Refresh
  PROVE  ConsoleTypeOK'
<1>1. FlagsOK' /\ CallsOK(calls')
  BY RunTyped DEF Rerender, Refresh
<1>2. ViewOK' /\ ShownOK'
  BY DEF Rerender, Refresh, storage, ConsoleTypeOK, ViewOK, ShownOK
<1>3. StorageOK' /\ ServerOK' /\ scene' \in Scenarios
  BY DEF Rerender, Refresh, storage, server, ConsoleTypeOK, StorageOK, ServerOK
<1> QED
  BY <1>1, <1>2, <1>3, NextTypeParts

\* One call is sent for the panel that is open, or for none.
LEMMA PanelSends ==
  ASSUME ConsoleTypeOK, NEW cs, cs \subseteq calls, NEW k \in Draft, Send(cs, {k}),
         busy' \in [Spinners -> BOOLEAN],
         UNCHANGED <<scene, storage, at, inner, about, server>>
  PROVE  ConsoleTypeOK'
<1>1. CallsOK(calls')
  BY SendOne
<1>2. about' \in [Panels -> Nodes \cup {None}]
  BY DEF ConsoleTypeOK
<1> QED
  BY <1>1, <1>2, PanelTyped

LEMMA OpenAtNode ==
  ASSUME ConsoleTypeOK, NEW m \in Modals, at[1] = m
  PROVE  at[2] \in Nodes
BY DEF ConsoleTypeOK, Closed, Modals

LEMMA PairFinite ==
  ASSUME NEW x, NEW y
  PROVE  IsFiniteSet({x, y})
<1>1. IsFiniteSet({x} \cup {y})
  BY FS_Singleton, FS_AddElement
<1>2. {x, y} = {x} \cup {y}
  OBVIOUS
<1> QED
  BY <1>1, <1>2

\* Opening and closing panels.
LEMMA OpeningTyped ==
  ASSUME ConsoleTypeOK,
         \/ \E n \in Nodes : OpenHistory(n) \/ OpenDiagnose(n) \/ OpenEndpoints(n) \/ OpenPolicy(n)
         \/ Close \/ OpenNode \/ OpenSettings
  PROVE  ConsoleTypeOK'
<1>1. ASSUME NEW n \in Nodes, OpenHistory(n) PROVE ConsoleTypeOK'
  BY <1>1, OpenTyped, FS_Singleton DEF OpenHistory, Modals, NodeKinds
<1>2. ASSUME NEW n \in Nodes, OpenDiagnose(n) PROVE ConsoleTypeOK'
  BY <1>2, OpenTyped, FS_Singleton DEF OpenDiagnose, Modals, NodeKinds
<1>3. ASSUME NEW n \in Nodes, OpenPolicy(n) PROVE ConsoleTypeOK'
  <2> QED
    BY <1>3, PairFinite, OpenTyped DEF OpenPolicy, Modals, NodeKinds
<1>4. ASSUME NEW n \in Nodes, OpenEndpoints(n) PROVE ConsoleTypeOK'
  <2>1. Api("endpoints", n) \in Draft
    BY ApiDraft, FitsNode DEF NodeKinds
  <2>2. CallsOK(calls')
    BY <1>4, <2>1, SendOne DEF OpenEndpoints
  <2> QED
    BY <1>4, <2>2, PanelTyped DEF OpenEndpoints, Modals, ConsoleTypeOK
<1>5. CASE Close
  BY <1>5, OldCalls, PanelTyped DEF Close, ConsoleTypeOK
<1>6. CASE OpenNode
  <2>1. ViewOK' /\ FlagsOK' /\ ShownOK'
    BY <1>6 DEF OpenNode, inner, ConsoleTypeOK, ViewOK, FlagsOK, ShownOK
  <2>2. StorageOK' /\ ServerOK' /\ scene' \in Scenarios
    BY <1>6 DEF OpenNode, storage, server, ConsoleTypeOK, StorageOK, ServerOK
  <2> QED
    BY <1>6, <2>1, <2>2, OldCalls, NextTypeParts DEF OpenNode
<1>7. CASE OpenSettings
  <2> DEFINE S == IF mounted THEN {} ELSE {"geoip", "diag"}
  <2>1. IsFiniteSet({"geoip", "diag"})
    BY PairFinite
  <2>2. S \subseteq Kinds /\ IsFiniteSet(S) /\ \A k \in S : Fits(k, None)
    BY <2>1, FitsNode, FS_EmptySet DEF OtherKinds
  <2>3. Send(calls, {Api(k, None) : k \in S})
    BY <1>7 DEF OpenSettings
  <2>4. CallsOK(calls')
    <3> HIDE DEF S
    <3>1. {Api(k, None) : k \in S} \subseteq Draft /\ IsFiniteSet({Api(k, None) : k \in S})
      BY <2>2, ApiDrafts
    <3> QED
      BY <2>3, <3>1, SendTyped
  <2>5. ViewOK' /\ FlagsOK' /\ ShownOK'
    BY <1>7 DEF OpenSettings, ConsoleTypeOK, ViewOK, FlagsOK, ShownOK
  <2>6. StorageOK' /\ ServerOK' /\ scene' \in Scenarios
    BY <1>7 DEF OpenSettings, storage, server, ConsoleTypeOK, StorageOK, ServerOK
  <2> QED
    BY <2>4, <2>5, <2>6, NextTypeParts
<1> QED
  BY <1>1, <1>2, <1>3, <1>4, <1>5, <1>6, <1>7

\* What is done in an open panel.
LEMMA InPanelTyped ==
  ASSUME ConsoleTypeOK,
         \/ LoadDiag \/ RunVerify \/ ChooseEndpoint \/ SubmitEndpoints
         \/ \E n \in Nodes : SubmitNode(n) \/ ShowInstall(n)
         \/ LoadGeoip \/ SaveGeoip \/ SaveDiag \/ CloseInstall
         \/ \E k \in {"status", "tasks"} : Poll(k)
  PROVE  ConsoleTypeOK'
<1> USE FitsNode DEF NodeKinds, OtherKinds
<1>1. CASE LoadDiag
  BY <1>1, OpenAtNode, ApiDraft, PanelSends DEF LoadDiag, Modals, ConsoleTypeOK
<1>2. CASE RunVerify
  BY <1>2, OpenAtNode, ApiDraft, PanelSends DEF RunVerify, Modals, ConsoleTypeOK
<1>3. CASE ChooseEndpoint
  <2>1. ShownOK'
    <3>1. at[2] \in Nodes
      BY <1>3, OpenAtNode DEF ChooseEndpoint, Modals
    <3>2. PICK m \in Nodes, v \in {at[2], None} : form' = [form EXCEPT ![m] = v]
      BY <1>3, ConsoleAssumption DEF ChooseEndpoint
    <3>3. form' \in [Nodes -> Nodes \cup {None}]
      BY <3>1, <3>2 DEF ConsoleTypeOK
    <3> QED
      BY <1>3, <3>3 DEF ChooseEndpoint, ConsoleTypeOK, ShownOK
  <2>2. ViewOK' /\ FlagsOK' /\ ServerOK' /\ StorageOK' /\ scene' \in Scenarios
    BY <1>3 DEF ChooseEndpoint, storage, server, ConsoleTypeOK, ViewOK, FlagsOK, ServerOK,
                StorageOK
  <2> QED
    BY <1>3, <2>1, <2>2, OldCalls, NextTypeParts DEF ChooseEndpoint
<1>4. CASE SubmitEndpoints
  <2>1. at[2] \in Nodes
    BY <1>4, OpenAtNode DEF SubmitEndpoints, Modals
  <2>2. busy' \in [Spinners -> BOOLEAN]
    BY <1>4 DEF SubmitEndpoints, ConsoleTypeOK
  <2> QED
    BY <1>4, <2>1, <2>2, ChoicesDraft, PanelSends DEF SubmitEndpoints
<1>5. ASSUME NEW n \in Nodes, SubmitNode(n) PROVE ConsoleTypeOK'
  BY <1>5, ApiDraft, PanelSends DEF SubmitNode, ConsoleTypeOK
<1>6. ASSUME NEW n \in Nodes, ShowInstall(n) PROVE ConsoleTypeOK'
  BY <1>6, ApiDraft, PanelSends DEF ShowInstall, page, inner, ConsoleTypeOK
<1>7. CASE LoadGeoip
  BY <1>7, ApiDraft, PanelSends DEF LoadGeoip, ConsoleTypeOK
<1>8. CASE SaveGeoip
  BY <1>8, ApiDraft, PanelSends DEF SaveGeoip, ConsoleTypeOK
<1>9. CASE SaveDiag
  BY <1>9, ApiDraft, PanelSends DEF SaveDiag, ConsoleTypeOK
<1>10. CASE CloseInstall
  BY <1>10, OldCalls, PanelTyped DEF CloseInstall, ConsoleTypeOK
<1>11. ASSUME NEW k \in {"status", "tasks"}, Poll(k) PROVE ConsoleTypeOK'
  <2>1. at[2] \in Nodes
    BY <1>11, OpenAtNode DEF Poll, Modals
  <2>2. busy' \in [Spinners -> BOOLEAN]
    BY <1>11, SetFlags DEF Poll, ConsoleTypeOK
  <2> QED
    BY <1>11, <2>1, <2>2, ApiDraft, PanelSends DEF Poll
<1> QED
  BY <1>1, <1>2, <1>3, <1>4, <1>5, <1>6, <1>7, <1>8, <1>9, <1>10, <1>11

\* What the network and the controllers do with a call.
LEMMA SettleChanges ==
  ASSUME ConsoleTypeOK, NEW c \in calls, Settle(c)
  PROVE  /\ \E d : Same(d, c) /\ calls' = (calls \ {c}) \cup {d}
         /\ ServerOK'
<1>1. /\ c \in Call /\ c.base \in Bases
      /\ c.kind \in NodeKinds => c.node \in Nodes
      /\ c.choices \in [Nodes -> Nodes \cup {None}]
  BY DEF ConsoleTypeOK, Call
<1>2. /\ Same([c EXCEPT !.state = "ok"], c)
      /\ Same([c EXCEPT !.state = "failed"], c)
      /\ Same([c EXCEPT !.state = "counted"], c)
      /\ Same([c EXCEPT !.state = "ok", !.list = store], c)
  BY <1>1, CallChanges DEF ConsoleTypeOK
<1>3. ServerOK
  BY DEF ConsoleTypeOK, ServerOK
<1> DEFINE Changed == \E d : Same(d, c) /\ calls' = (calls \ {c}) \cup {d}
<1>4. Answer(c) \/ Refuse(c) \/ Become(c, [c EXCEPT !.state = "counted"])
      \/ Become(c, [c EXCEPT !.state = "ok", !.list = store]) => Changed
  BY <1>2, Zenon DEF Answer, Refuse, Become
<1> HIDE DEF Changed
<1>5. CASE ServeAuth(c)
  <2>1. Changed
    BY <1>5, <1>4, Zenon DEF ServeAuth
  <2>2. ServerOK'
    BY <1>1, <1>3, <1>5 DEF ServeAuth, server, ServerOK
  <2> QED
    BY <2>1, <2>2 DEF Changed
<1>6. CASE ServeLists(c)
  <2>1. ASSUME Become(c, [c EXCEPT !.state = "ok", !.list = store])
        PROVE  Changed
    BY <1>4, <2>1
  <2>2. ASSUME c.kind = "endpoints",
               Become(c, [c EXCEPT !.state = "ok", !.choices = peps[c.node]])
        PROVE  Changed
    <3>1. peps[c.node] \in [Nodes -> Nodes \cup {None}]
      BY <1>1, <1>3, <2>2 DEF ServerOK, NodeKinds
    <3>2. Same([c EXCEPT !.state = "ok", !.choices = peps[c.node]], c)
      BY <1>1, <3>1, CallChanges
    <3> QED
      BY <2>2, <3>2 DEF Become, Changed
  <2>3. ServerOK'
    BY <1>3, <1>6 DEF ServeLists, server, ServerOK
  <2> QED
    BY <1>6, <2>1, <2>2, <2>3, Zenon DEF ServeLists, Changed
<1>7. CASE ServeEndpoints(c)
  <2>1. Changed
    BY <1>7, <1>4, Zenon DEF ServeEndpoints
  <2>2. ServerOK'
    BY <1>1, <1>3, <1>7 DEF ServeEndpoints, ServerOK, NodeKinds
  <2> QED
    BY <2>1, <2>2 DEF Changed
<1>8. CASE ServeNode(c)
  <2>1. Changed
    BY <1>8, <1>4, Zenon DEF ServeNode
  <2>2. ServerOK'
    BY <1>1, <1>3, <1>8 DEF ServeNode, ServerOK, NoChoice, NodeKinds
  <2> QED
    BY <2>1, <2>2 DEF Changed
<1>9. CASE ServeRest(c)
  BY <1>3, <1>4, <1>9 DEF ServeRest, server, ServerOK, Changed
<1>10. CASE Fail(c)
  BY <1>3, <1>4, <1>10 DEF Fail, server, ServerOK, Changed
<1> QED
  BY <1>5, <1>6, <1>7, <1>8, <1>9, <1>10, Zenon DEF Settle, Changed

LEMMA SettleTyped ==
  ASSUME ConsoleTypeOK, NEW c \in calls, Settle(c)
  PROVE  ConsoleTypeOK'
<1>1. PICK d : Same(d, c) /\ calls' = (calls \ {c}) \cup {d}
  BY SettleChanges
<1>2. CallsOK(calls')
  BY <1>1 DEF Same, CallsOK, Unique, ConsoleTypeOK
<1>3. ViewOK' /\ FlagsOK' /\ ShownOK'
  BY DEF Settle, page, ConsoleTypeOK, ViewOK, FlagsOK, ShownOK
<1>4. StorageOK' /\ scene' \in Scenarios
  BY DEF Settle, storage, ConsoleTypeOK, StorageOK
<1> QED
  BY <1>2, <1>3, <1>4, SettleChanges, NextTypeParts

LEMMA CallFields ==
  ASSUME ConsoleTypeOK, NEW c \in calls
  PROVE  /\ c \in Call /\ c.kind \in Kinds /\ c.base \in Bases /\ c.shown \in BOOLEAN
         /\ c.node \in Nodes \cup {None}
         /\ c.kind \in NodeKinds => c.node \in Nodes
         /\ c.list \in SUBSET Nodes
         /\ c.choices \in [Nodes -> Nodes \cup {None}]
         /\ calls \ {c} \subseteq calls /\ CallsOK(calls \ {c})
BY OldCalls DEF ConsoleTypeOK, Call

\* The continuations of sign-ins.
LEMMA SignInTyped ==
  ASSUME ConsoleTypeOK, NEW c \in calls, LoginDone(c) \/ RegisterDone(c),
         UNCHANGED <<scene, server>>
  PROVE  ConsoleTypeOK'
<1>1. ServerOK' /\ scene' \in Scenarios
  BY DEF server, ConsoleTypeOK, ServerOK
<1>2. CASE SignedIn(c)
  <2>1. StorageOK'
    BY <1>2, CallFields DEF SignedIn, StorageOK
  <2>2. ViewOK' /\ ShownOK'
    BY <1>2, <2>1 DEF SignedIn, panels, ConsoleTypeOK, StorageOK, ViewOK, ShownOK
  <2>3. FlagsOK'
    <3>1. [busy EXCEPT !["form"] = FALSE] \in [Spinners -> BOOLEAN]
      BY DEF ConsoleTypeOK
    <3>2. Set([busy EXCEPT !["form"] = FALSE], Hooks, TRUE) \in [Spinners -> BOOLEAN]
      BY <3>1, SetFlags
    <3> QED
      BY <1>2, <3>2 DEF SignedIn, panels, ConsoleTypeOK, FlagsOK
  <2>4. CallsOK(calls')
    <3>1. CASE view = "app"
      BY <1>2, <3>1, CallFields DEF SignedIn
    <3>2. CASE view # "app"
      <4>1. Send(calls \ {c}, HookCalls(base', token'))
        BY <1>2, <3>2 DEF SignedIn
      <4>2. base' \in Bases
        BY <2>1 DEF StorageOK
      <4>3. HookCalls(base', token') \subseteq Draft /\ IsFiniteSet(HookCalls(base', token'))
        BY <4>2, HookDrafts
      <4> QED
        BY <4>1, <4>3, SendTyped
    <3> QED
      BY <3>1, <3>2
  <2> QED
    BY <1>1, <2>1, <2>2, <2>3, <2>4, NextTypeParts
<1>3. CASE NotSignedIn(c)
  <2>1. busy' \in [Spinners -> BOOLEAN]
    BY <1>3, CallFields DEF NotSignedIn, ConsoleTypeOK
  <2>2. StorageOK' /\ ViewOK' /\ FlagsOK' /\ ShownOK'
    BY <1>3, <2>1 DEF NotSignedIn, storage, panels, ConsoleTypeOK, StorageOK, ViewOK,
                      FlagsOK, ShownOK
  <2>3. CallsOK(calls')
    BY <1>3, CallFields DEF NotSignedIn
  <2> QED
    BY <1>1, <2>2, <2>3, NextTypeParts
<1> QED
  BY <1>2, <1>3 DEF LoginDone, RegisterDone

LEMMA HookDoneTyped ==
  ASSUME ConsoleTypeOK, NEW c \in calls, HookDone(c), UNCHANGED <<scene, server>>
  PROVE  ConsoleTypeOK'
<1>1. ServerOK' /\ StorageOK' /\ scene' \in Scenarios
  BY DEF HookDone, storage, server, ConsoleTypeOK, ServerOK, StorageOK
<1>2. FlagsOK'
  BY DEF HookDone, ConsoleTypeOK, FlagsOK
<1>3. ViewOK' /\ ShownOK'
  BY CallFields DEF HookDone, ConsoleTypeOK, ViewOK, ShownOK
<1>4. CallsOK(calls')
  BY CallFields DEF HookDone
<1> QED
  BY <1>1, <1>2, <1>3, <1>4, NextTypeParts

LEMMA ShownTyped ==
  ASSUME ConsoleTypeOK, NEW c \in calls, NEW kind \in Panels \ {"install"}, Shown(c, kind),
         UNCHANGED <<scene, server>>
  PROVE  ConsoleTypeOK'
<1>1. CallsOK(calls')
  BY CallFields DEF Shown
<1>2. busy' \in [Spinners -> BOOLEAN]
  BY SetFlags DEF Shown, ConsoleTypeOK
<1>3. about' \in [Panels -> Nodes \cup {None}]
  BY CallFields DEF Shown, ConsoleTypeOK
<1>4. UNCHANGED <<storage, inner>> /\ at' = at
  BY DEF Shown
<1> QED
  BY <1>1, <1>2, <1>3, <1>4, PanelTyped

\* The other continuations of panels.
LEMMA PanelDoneTyped ==
  ASSUME ConsoleTypeOK, NEW c \in calls,
         \/ CommandDone(c) \/ VerifyDone(c) \/ EndpointsSaved(c) \/ InstallDone(c),
         UNCHANGED <<scene, server>>
  PROVE  ConsoleTypeOK'
<1> USE FitsNode, CallFields DEF NodeKinds
<1>1. CASE CommandDone(c)
  <2>1. Api("report", c.node) \in Draft
    BY <1>1, ApiDraft DEF CommandDone
  <2>2. busy' \in [Spinners -> BOOLEAN]
    BY <1>1 DEF CommandDone, ConsoleTypeOK
  <2> QED
    BY <1>1, <2>1, <2>2, PanelSends DEF CommandDone
<1>2. CASE VerifyDone(c)
  <2> DEFINE S == {Api("tasks", c.node) : x \in {y \in {1} : c.state = "ok"}}
  <2>1. Api("tasks", c.node) \in Draft
    BY <1>2, ApiDraft DEF VerifyDone
  <2>2. S \subseteq {Api("tasks", c.node)}
    OBVIOUS
  <2>3. S \subseteq Draft /\ IsFiniteSet(S)
    <3> HIDE DEF S
    <3>1. IsFiniteSet({Api("tasks", c.node)})
      BY FS_Singleton
    <3> QED
      BY <2>1, <2>2, <3>1, FS_Subset
  <2>4. Send(calls \ {c}, S)
    BY <1>2 DEF VerifyDone
  <2>5. CallsOK(calls')
    <3> HIDE DEF S
    <3> QED BY <2>3, <2>4, SendTyped
  <2>6. busy' \in [Spinners -> BOOLEAN] /\ about' \in [Panels -> Nodes \cup {None}]
    BY <1>2 DEF VerifyDone, ConsoleTypeOK
  <2> QED
    BY <1>2, <2>5, <2>6, PanelTyped DEF VerifyDone
<1>3. CASE EndpointsSaved(c)
  BY <1>3, PanelTyped DEF EndpointsSaved, ConsoleTypeOK
<1>4. CASE InstallDone(c)
  <2>1. about' \in [Panels -> Nodes \cup {None}]
    BY <1>4 DEF InstallDone, ConsoleTypeOK
  <2> QED
    BY <1>4, <2>1, PanelTyped DEF InstallDone, ConsoleTypeOK
<1> QED
  BY <1>1, <1>2, <1>3, <1>4

\* Those that change forms or reload tables.
LEMMA CardDoneTyped ==
  ASSUME ConsoleTypeOK, NEW c \in calls,
         \/ EndpointsLoaded(c) \/ NodeDone(c) \/ GeoipLoaded(c) \/ DiagLoaded(c)
         \/ GeoipSaved(c) \/ DiagSaved(c),
         UNCHANGED <<scene, server>>
  PROVE  ConsoleTypeOK'
<1>1. ServerOK' /\ scene' \in Scenarios
  BY DEF server, ConsoleTypeOK, ServerOK
<1>2. CASE EndpointsLoaded(c)
  <2>1. form' \in [Nodes -> Nodes \cup {None}]
    <3>1. c.choices \in [Nodes -> Nodes \cup {None}] /\ form \in [Nodes -> Nodes \cup {None}]
      BY CallFields DEF ConsoleTypeOK
    <3>2. form' = [m \in Nodes |->
                     IF c.state = "ok" /\ c.choices[m] # None THEN c.choices[m] ELSE form[m]]
      BY <1>2 DEF EndpointsLoaded
    <3> QED
      BY <3>1, <3>2
  <2>2. StorageOK' /\ ViewOK' /\ FlagsOK' /\ ShownOK'
    BY <1>2, <2>1 DEF EndpointsLoaded, storage, ConsoleTypeOK, StorageOK, ViewOK, FlagsOK, ShownOK
  <2> QED
    BY <1>1, <1>2, <2>2, CallFields, NextTypeParts DEF EndpointsLoaded
<1>3. CASE NodeDone(c)
  <2>1. StorageOK' /\ ViewOK' /\ ShownOK'
    BY <1>3 DEF NodeDone, storage, ConsoleTypeOK, StorageOK, ViewOK, ShownOK
  <2>2. FlagsOK'
    BY <1>3 DEF NodeDone, ConsoleTypeOK, FlagsOK
  <2>3. CallsOK(calls')
    <3>1. CASE c.state = "ok"
      BY <1>3, <3>1, KindsOfHooks, FitsNode, ApiDraft, SendOne DEF NodeDone
    <3>2. CASE c.state # "ok"
      BY <1>3, <3>2, CallFields DEF NodeDone
    <3> QED
      BY <3>1, <3>2
  <2> QED
    BY <1>1, <2>1, <2>2, <2>3, NextTypeParts
<1>4. CASE GeoipLoaded(c) \/ DiagLoaded(c)
  <2>1. StorageOK' /\ ViewOK' /\ FlagsOK' /\ ShownOK'
    BY <1>4 DEF GeoipLoaded, DiagLoaded, storage, page, ConsoleTypeOK, StorageOK, ViewOK,
                FlagsOK, ShownOK
  <2> QED
    BY <1>1, <1>4, <2>1, CallFields, NextTypeParts DEF GeoipLoaded, DiagLoaded
<1>5. ASSUME NEW S, SavedSettings(c, S)
      PROVE  ConsoleTypeOK'
  <2>1. StorageOK' /\ ViewOK' /\ ShownOK'
    BY <1>5 DEF SavedSettings, storage, ConsoleTypeOK, StorageOK, ViewOK, ShownOK
  <2>2. FlagsOK'
    <3>1. /\ busy \in [Spinners -> BOOLEAN] /\ failed \in [Hooks -> BOOLEAN]
          /\ Set(failed, Hooks, FALSE) \in [Hooks -> BOOLEAN]
          /\ Set(busy, Hooks, TRUE) \in [Spinners -> BOOLEAN]
          /\ Set(busy, S, FALSE) \in [Spinners -> BOOLEAN]
      BY SetFlags DEF ConsoleTypeOK
    <3>2. Set(Set(busy, Hooks, TRUE), S, FALSE) \in [Spinners -> BOOLEAN]
      BY <3>1, SetFlags
    <3> QED
      BY <1>5, <3>1, <3>2 DEF SavedSettings, FlagsOK
  <2>3. CallsOK(calls')
    <3>1. CASE c.state = "ok"
      BY <1>5, <3>1, KindsOfHooks, ApiDrafts, SendTyped, CallFields DEF SavedSettings
    <3>2. CASE c.state # "ok"
      BY <1>5, <3>2, CallFields DEF SavedSettings
    <3> QED
      BY <3>1, <3>2
  <2> QED
    BY <1>1, <2>1, <2>2, <2>3, NextTypeParts
<1> QED
  BY <1>2, <1>3, <1>4, <1>5 DEF GeoipSaved, DiagSaved

LEMMA ContinueTyped ==
  ASSUME ConsoleTypeOK, NEW c \in calls, Continue(c)
  PROVE  ConsoleTypeOK'
BY SignInTyped, HookDoneTyped, ShownTyped, PanelDoneTyped, CardDoneTyped
   DEF Continue, Panels, HistoryDone, DiagnoseDone, StatusDone, TasksDone, ReportDone

LEMMA NextTyped == ConsoleTypeOK /\ [Next]_vars => ConsoleTypeOK'
<1> SUFFICES ASSUME ConsoleTypeOK, [Next]_vars
             PROVE  ConsoleTypeOK'
  OBVIOUS
<1>1. CASE UserStep
  BY <1>1, FormTyped, LogoutTyped, HooksTyped, OpeningTyped, InPanelTyped DEF UserStep
<1>2. CASE Rerender
  BY <1>2, HooksTyped
<1>3. CASE \E k \in {"status", "tasks"} : Poll(k)
  BY <1>3, InPanelTyped
<1>4. ASSUME NEW i \in Slots, Numbered(i, Settle) \/ Numbered(i, Continue)
      PROVE  ConsoleTypeOK'
  BY <1>4, SettleTyped, ContinueTyped DEF Numbered
<1>5. CASE UNCHANGED vars
  BY <1>5 DEF vars, storage, page, server, ConsoleTypeOK
<1> QED
  BY <1>1, <1>2, <1>3, <1>4, <1>5 DEF Next

\* The console keeps its types, however calls are answered: also a scenario's
\* IDs, given to calls anew whenever they are free, stay unique.
THEOREM ConsoleTypeCorrect == Spec => []ConsoleTypeOK
<1>1. Init => ConsoleTypeOK
  BY InitTypes
<1>2. ConsoleTypeOK /\ [Next]_vars => ConsoleTypeOK'
  BY NextTyped
<1> QED
  BY <1>1, <1>2, PTL DEF Spec

-----------------------------------------------------------------------------
(* Base and token. *)

\* Only three steps change the storage.
LEMMA StorageChanges ==
  ASSUME Next
  PROVE  /\ scene' = scene
         /\ UNCHANGED storage \/ EditStorage \/ Logout \/ \E c \in calls : SignedIn(c)
<1>1. CASE UserStep
  BY <1>1, Zenon
     DEF UserStep, SwitchForm, SubmitLogin, SubmitRegister, SubmitForm, EditStorage, Logout,
         Refresh, OpenHistory, OpenDiagnose, OpenEndpoints, OpenPolicy, Open, Close, LoadDiag,
         RunVerify, ChooseEndpoint, SubmitEndpoints, OpenNode, SubmitNode, OpenSettings,
         LoadGeoip, SaveGeoip, SaveDiag, ShowInstall, CloseInstall
<1>2. CASE Rerender \/ \E k \in {"status", "tasks"} : Poll(k)
  BY <1>2, Zenon DEF Rerender, Poll
<1>3. ASSUME NEW c \in calls, Settle(c)
      PROVE  scene' = scene /\ UNCHANGED storage
  BY <1>3 DEF Settle
<1>4. ASSUME NEW c \in calls, Continue(c)
      PROVE  scene' = scene /\ (UNCHANGED storage \/ SignedIn(c))
  BY <1>4, Zenon
     DEF Continue, LoginDone, RegisterDone, NotSignedIn, HookDone, HistoryDone, DiagnoseDone,
         StatusDone, TasksDone, ReportDone, Shown, CommandDone, VerifyDone, EndpointsLoaded,
         EndpointsSaved, NodeDone, GeoipLoaded, GeoipSaved, DiagLoaded, DiagSaved,
         SavedSettings, InstallDone
<1> QED
  BY <1>1, <1>2, <1>3, <1>4, Zenon DEF Next, Numbered

\* Unless the user edits them, base and token belong together, however sign-ins
\* at several controllers overlap and fail (Login.jsx:22): TokenOfBase is
\* inductive, because both are stored in one step and from one call.
THEOREM SessionKept == Spec => []TokenOfBase
<1>1. Init => TokenOfBase
  BY DEF Init, TokenOfBase
<1>2. TokenOfBase /\ [Next]_vars => TokenOfBase'
  <2> SUFFICES ASSUME TokenOfBase, [Next]_vars
               PROVE  TokenOfBase'
    OBVIOUS
  <2>1. CASE UNCHANGED vars
    BY <2>1 DEF vars, storage, TokenOfBase, uses
  <2>2. CASE Next /\ UNCHANGED storage
    BY <2>2, StorageChanges DEF storage, TokenOfBase, uses
  <2>3. CASE Next /\ EditStorage
    BY <2>3, StorageChanges DEF EditStorage, User, TokenOfBase, uses
  <2>4. CASE Next /\ Logout
    BY <2>4 DEF Logout, TokenOfBase
  <2>5. ASSUME NEW c \in calls, SignedIn(c)
        PROVE  TokenOfBase'
    BY <2>5 DEF SignedIn, TokenOfBase
  <2> QED
    BY <2>1, <2>2, <2>3, <2>4, <2>5, StorageChanges
<1> QED
  BY <1>1, <1>2, PTL DEF Spec

-----------------------------------------------------------------------------
(* Flags and calls. *)

\* Calls that are only made while no other holds their flag.
Guarded(c) ==
  c.kind \in Saves \/ (c.kind \in {"login", "register"} /\ c.shown)

\* Such a call's flag is set, but for that of a form that has given way to the
\* admin page.
HeldInv ==
  \A c \in calls, s \in Spinners :
    Guarded(c) /\ Holds(c, s) /\ (s = "form" => view # "app") => busy[s]

\* A flag has one such call: more than SavedOnce says.
OneInv ==
  \A c, d \in calls, s \in Spinners :
    Guarded(c) /\ Guarded(d) /\ Holds(c, s) /\ Holds(d, s) => c = d

FormInv == view = "app" => ~busy["form"]

WorkInv == LoadingHonest /\ HeldInv /\ OneInv /\ FormInv /\ QuietMeansData

\* A call holds one flag, and whatever else holds a guarded call's is guarded.
LEMMA HoldsOne ==
  /\ \A c : \A s, t \in Spinners : Holds(c, s) /\ Holds(c, t) => s = t
  /\ \A c, d : \A s \in Spinners :
       Guarded(c) /\ Holds(c, s) /\ Holds(d, s) /\ d.kind \in Kinds => Guarded(d)
  /\ \A c : Guarded(c) => \E s \in Flags : Holds(c, s)
<1> USE ConsoleAssumption DEF Spinners, Flags, NodeKinds, OtherKinds
<1>1. ASSUME NEW c, NEW s \in Spinners, NEW t \in Spinners, Holds(c, s), Holds(c, t)
      PROVE  s = t
  BY <1>1 DEF Holds
<1>2. ASSUME NEW c, NEW d, NEW s \in Spinners, Guarded(c), Holds(c, s), Holds(d, s),
             d.kind \in Kinds
      PROVE  Guarded(d)
  BY <1>2 DEF Holds, Guarded, Saves, Kinds
<1>3. ASSUME NEW c, Guarded(c)
      PROVE  \E s \in Flags : Holds(c, s)
  BY <1>3 DEF Holds, Guarded, Saves
<1> QED
  BY <1>1, <1>2, <1>3

LEMMA OneGivesSavedOnce == OneInv => SavedOnce
<1> SUFFICES ASSUME OneInv, NEW c \in calls, NEW d \in calls, c # d, c.kind = d.kind
             PROVE  /\ c.kind \notin Saves
                    /\ c.kind \in {"login", "register"} => ~(c.shown /\ d.shown)
  BY DEF SavedOnce
<1>1. ~(Guarded(c) /\ Guarded(d))
  <2> SUFFICES ASSUME Guarded(c), Guarded(d)
               PROVE  FALSE
    OBVIOUS
  <2>1. PICK s \in Flags : Holds(c, s)
    BY HoldsOne
  <2>2. Holds(d, s)
    BY <2>1 DEF Holds, Guarded, Saves
  <2> QED
    BY <2>1, <2>2 DEF OneInv, Spinners
<1> QED
  BY <1>1 DEF Guarded

LEMMA AsHolds ==
  ASSUME NEW k \in Draft, NEW i \in Slots
  PROVE  /\ As(k, i) \in Call /\ As(k, i).kind = k.kind
         /\ \A s : Holds(As(k, i), s) <=> Holds(k, s)
         /\ Guarded(As(k, i)) <=> Guarded(k)
BY NumberedDraft DEF Holds, Guarded

\* Nothing is sent.
LEMMA NothingSent ==
  ASSUME NEW cs, CallsOK(cs)
  PROVE  Sends(cs, {}, cs)
BY DEF Sends, CallsOK

\* A step that ends the calls in C, of which there is at most one, sends the drafts
\* in K, and treats flags and tables as it should.
Works(C, K) ==
  /\ C \subseteq calls /\ \A c, d \in C : c = d
  /\ K \subseteq Draft
  /\ Sends(calls \ C, K, calls')
  /\ view' = view
  /\ view = "app" => ~busy'["form"]
  /\ \A s \in Spinners :
       /\ busy'[s] => \/ busy[s] /\ \A c \in C : ~Holds(c, s)
                      \/ \E k \in K : Holds(k, s)
       /\ busy[s] /\ (\A c \in C : ~Holds(c, s)) => busy'[s]
       /\ \A k \in K : Guarded(k) /\ Holds(k, s) =>
            K = {k} /\ ~busy[s] /\ busy'[s] /\ (s = "form" => view # "app")
  /\ \A h \in Hooks :
       \/ /\ failed[h] => failed'[h]
          /\ data'[h] = data[h]
          /\ \A c \in C : c.kind # h
       \/ \E k \in K : k.kind = h
       \/ failed'[h] \/ data'[h] # {None}

LEMMA WorksHonest ==
  ASSUME ConsoleTypeOK, LoadingHonest, NEW C, NEW K, Works(C, K)
  PROVE  LoadingHonest'
<1> SUFFICES ASSUME NEW s \in Spinners, busy'[s]
             PROVE  \E c \in calls' : Holds(c, s)
  BY DEF LoadingHonest, Holds
<1>1. CASE busy[s] /\ \A c \in C : ~Holds(c, s)
  BY <1>1 DEF LoadingHonest, Works, Sends
<1>2. CASE \E k \in K : Holds(k, s)
  <2>1. PICK k \in K : Holds(k, s)
    BY <1>2
  <2>2. PICK i \in Slots : As(k, i) \in calls'
    BY DEF Works, Sends
  <2>3. k \in Draft
    BY DEF Works
  <2> QED
    BY <2>1, <2>2, <2>3, AsHolds
<1> QED
  BY <1>1, <1>2 DEF Works

LEMMA WorksHeld ==
  ASSUME ConsoleTypeOK, HeldInv, OneInv, NEW C, NEW K, Works(C, K)
  PROVE  HeldInv'
<1> SUFFICES ASSUME NEW d \in calls', NEW s \in Spinners, Guarded(d), Holds(d, s),
                    s = "form" => view # "app"
             PROVE  busy'[s]
  BY DEF HeldInv, Works, Guarded, Holds, Saves
<1>1. CASE d \in calls \ C
  <2>1. busy[s]
    BY <1>1 DEF HeldInv
  <2>2. \A c \in C : ~Holds(c, s)
    BY <1>1, HoldsOne, CallFields DEF Works, OneInv
  <2> QED
    BY <2>1, <2>2 DEF Works
<1>2. CASE d \notin calls \ C
  <2>1. PICK k \in K, i \in Slots : d = As(k, i)
    BY <1>2 DEF Works, Sends
  <2>2. Guarded(k) /\ Holds(k, s)
    BY <2>1, AsHolds DEF Works
  <2> QED
    BY <2>2 DEF Works
<1> QED
  BY <1>1, <1>2

LEMMA WorksOne ==
  ASSUME ConsoleTypeOK, HeldInv, OneInv, NEW C, NEW K, Works(C, K)
  PROVE  OneInv'
<1> SUFFICES ASSUME NEW c \in calls', NEW d \in calls', NEW s \in Spinners,
                    Guarded(c), Guarded(d), Holds(c, s), Holds(d, s)
             PROVE  c = d
  BY DEF OneInv, Works, Guarded, Holds, Saves
<1> DEFINE old == calls \ C
\* A new guarded call is alone.
<1>1. ASSUME NEW x \in calls', NEW y \in calls', x \notin old,
             Guarded(x), Guarded(y), Holds(x, s), Holds(y, s)
      PROVE  x = y
  <2>1. PICK k \in K, j \in Slots : x = As(k, j)
    BY <1>1 DEF Works, Sends
  <2>2. Guarded(k) /\ Holds(k, s)
    BY <1>1, <2>1, AsHolds DEF Works
  <2>3. K = {k} /\ ~busy[s] /\ (s = "form" => view # "app")
    BY <2>2 DEF Works
  <2>4. PICK i \in Slots : calls' = old \cup {As(k, i)}
    BY <2>3 DEF Works, Sends
  <2>5. y \notin old
    BY <1>1, <2>3 DEF HeldInv
  <2> QED
    BY <1>1, <2>4, <2>5
<1>2. CASE c \in old /\ d \in old
  BY <1>2 DEF OneInv
<1>3. CASE c \notin old
  BY <1>1, <1>3
<1>4. CASE d \notin old
  BY <1>1, <1>4
<1> QED
  BY <1>2, <1>3, <1>4

LEMMA WorksQuiet ==
  ASSUME ConsoleTypeOK, QuietMeansData, NEW C, NEW K, Works(C, K)
  PROVE  QuietMeansData'
<1> SUFFICES ASSUME NEW h \in Hooks, view' = "app", \A c \in calls' : c.kind # h, ~failed'[h]
             PROVE  data'[h] # {None}
  BY DEF QuietMeansData
<1>1. ~ \E k \in K : k.kind = h
  <2> SUFFICES ASSUME NEW k \in K, k.kind = h
               PROVE  FALSE
    OBVIOUS
  <2>1. PICK i \in Slots : As(k, i) \in calls'
    BY DEF Works, Sends
  <2> QED
    BY <2>1, AsHolds DEF Works
<1>2. CASE /\ failed[h] => failed'[h]
           /\ data'[h] = data[h]
           /\ \A c \in C : c.kind # h
  BY <1>2 DEF Works, Sends, QuietMeansData
<1> QED
  BY <1>1, <1>2 DEF Works

LEMMA WorksKeep ==
  ASSUME ConsoleTypeOK, WorkInv, NEW C, NEW K, Works(C, K)
  PROVE  WorkInv'
<1>1. FormInv'
  BY DEF Works, FormInv
<1> QED
  BY <1>1, WorksHonest, WorksHeld, WorksOne, WorksQuiet DEF WorkInv

\* Nothing is begun or ended.
LEMMA IdleKeeps ==
  ASSUME WorkInv, UNCHANGED <<view, busy, failed, data, calls>>
  PROVE  WorkInv'
BY DEF WorkInv, LoadingHonest, HeldInv, OneInv, FormInv, QuietMeansData, Guarded, Holds, Saves

\* Some unguarded calls are sent; those flags they hold may be set.
LEMMA FreeSends ==
  ASSUME ConsoleTypeOK, WorkInv, NEW K, K \subseteq Draft, IsFiniteSet(K), Send(calls, K),
         \A k \in K : ~Guarded(k),
         NEW S, S \subseteq Spinners \ {"form"}, \A s \in S : \E k \in K : Holds(k, s),
         busy' = Set(busy, S, TRUE) \/ (busy' = busy /\ S = {}),
         UNCHANGED inner
  PROVE  WorkInv'
<1>1. Sends(calls \ {}, K, calls')
  BY SendTyped, calls \ {} = calls
<1>2. \A s \in Spinners : busy'[s] = (busy[s] \/ s \in S)
  BY DEF Set, ConsoleTypeOK
<1>3. "form" \in Spinners
  BY DEF Spinners, Flags
<1>4. Works({}, K)
  BY <1>1, <1>2, <1>3 DEF Works, inner, WorkInv, FormInv
<1> QED
  BY <1>4, WorksKeep

LEMMA FreeSend ==
  ASSUME ConsoleTypeOK, WorkInv, NEW k \in Draft, Send(calls, {k}), ~Guarded(k),
         busy' = busy, UNCHANGED inner
  PROVE  WorkInv'
<1>1. Sends(calls \ {}, {k}, calls')
  BY SendOne, calls \ {} = calls
<1>2. \A s \in Spinners : Guarded(k) => FALSE
  OBVIOUS
<1>3. Works({}, {k})
  BY <1>1, <1>2 DEF Works, inner, WorkInv, FormInv
<1> QED
  BY <1>3, WorksKeep

\* A guarded call is sent under its flag.
LEMMA GuardedSends ==
  ASSUME ConsoleTypeOK, WorkInv, NEW k \in Draft, Send(calls, {k}),
         NEW s \in Flags \ {"form"}, Holds(k, s), ~busy[s],
         busy' = [busy EXCEPT ![s] = TRUE],
         UNCHANGED inner
  PROVE  WorkInv'
<1>1. Sends(calls \ {}, {k}, calls')
  BY SendOne, calls \ {} = calls
<1>2. s \in Spinners /\ "form" \in Spinners
  BY DEF Spinners, Flags
<1>3. \A t \in Spinners : busy'[t] = (busy[t] \/ t = s)
  BY <1>2 DEF ConsoleTypeOK
<1>4. \A t \in Spinners : Holds(k, t) => t = s
  BY <1>2, HoldsOne
<1>5. Works({}, {k})
  BY <1>1, <1>2, <1>3, <1>4 DEF Works, inner, WorkInv, FormInv
<1> QED
  BY <1>5, WorksKeep

\* Opening and closing panels.
LEMMA OpeningWorks ==
  ASSUME ConsoleTypeOK, WorkInv,
         \/ \E n \in Nodes : OpenHistory(n) \/ OpenDiagnose(n) \/ OpenEndpoints(n) \/ OpenPolicy(n)
         \/ Close \/ OpenNode \/ OpenSettings
  PROVE  WorkInv'
<1>1. ASSUME NEW n \in Nodes, NEW m \in Modals, NEW K \in SUBSET NodeKinds, IsFiniteSet(K),
             Open(m, n, K), \A k \in K : ~Guarded(Api(k, n)),
             \A k \in K : k \notin {"endpoints", "geoip"}
      PROVE  WorkInv'
  <2> DEFINE D == {Api(k, n) : k \in K}  S == K \cap Spinners
  <2>1. D \subseteq Draft /\ IsFiniteSet(D)
    BY <1>1, ApiDrafts, FitsNode
  <2>2. S \subseteq Spinners \ {"form"}
    BY <1>1, ConsoleAssumption DEF NodeKinds
  <2>3. \A s \in S : \E k \in D : Holds(k, s)
    <3>1. ASSUME NEW s \in S
          PROVE  Holds(Api(s, n), s)
      BY <1>1 DEF Holds, Api, To
    <3> QED
      BY <3>1
  <2>4. Send(calls, D) /\ busy' = Set(busy, S, TRUE) /\ UNCHANGED inner
    BY <1>1 DEF Open
  <2>5. \A k \in D : ~Guarded(k)
    BY <1>1
  <2> HIDE DEF D, S
  <2> QED
    BY <2>1, <2>2, <2>3, <2>4, <2>5, FreeSends
<1>2. \A n, k : k \in {"history", "diagnose", "endpoints", "status", "tasks"} => ~Guarded(Api(k, n))
  BY DEF Guarded, Saves, Api, To
<1>3. ASSUME NEW n \in Nodes, OpenHistory(n) PROVE WorkInv'
  <2>1. IsFiniteSet({"history"})
    BY FS_Singleton
  <2>2. "history" \in Modals /\ {"history"} \in SUBSET NodeKinds
    BY DEF Modals, NodeKinds
  <2>3. Open("history", n, {"history"})
    BY <1>3 DEF OpenHistory
  <2> QED
    BY <1>1, <1>2, <2>1, <2>2, <2>3
<1>4. ASSUME NEW n \in Nodes, OpenDiagnose(n) PROVE WorkInv'
  <2>1. IsFiniteSet({"diagnose"})
    BY FS_Singleton
  <2>2. "diagnose" \in Modals /\ {"diagnose"} \in SUBSET NodeKinds
    BY DEF Modals, NodeKinds
  <2>3. Open("diagnose", n, {"diagnose"})
    BY <1>4 DEF OpenDiagnose
  <2> QED
    BY <1>1, <1>2, <2>1, <2>2, <2>3
<1>5. ASSUME NEW n \in Nodes, OpenPolicy(n) PROVE WorkInv'
  BY <1>1, <1>2, <1>5, PairFinite DEF OpenPolicy, Modals, NodeKinds
<1>6. ASSUME NEW n \in Nodes, OpenEndpoints(n) PROVE WorkInv'
  <2>1. Api("endpoints", n) \in Draft
    BY ApiDraft, FitsNode DEF NodeKinds
  <2>2. Send(calls, {Api("endpoints", n)}) /\ busy' = busy /\ UNCHANGED inner
    BY <1>6 DEF OpenEndpoints
  <2> QED
    BY <1>2, <2>1, <2>2, FreeSend
<1>7. CASE Close
  BY <1>7, IdleKeeps DEF Close, inner
<1>8. CASE OpenNode
  BY <1>8, IdleKeeps DEF OpenNode, inner
<1>9. CASE OpenSettings
  <2> DEFINE S == IF mounted THEN {} ELSE {"geoip", "diag"}
             D == {Api(k, None) : k \in S}
  <2>1. S \subseteq Kinds /\ IsFiniteSet(S) /\ \A k \in S : Fits(k, None)
    BY PairFinite, FitsNode, FS_EmptySet DEF OtherKinds
  <2>2. D \subseteq Draft /\ IsFiniteSet(D)
    <3> HIDE DEF S
    <3> QED BY <2>1, ApiDrafts
  <2>3. \A k \in D : ~Guarded(k)
    BY DEF Guarded, Saves, Api, To
  <2>4. Send(calls, D) /\ busy' = busy /\ view' = view /\ failed' = failed /\ data' = data
    BY <1>9 DEF OpenSettings
  <2>5. Sends(calls \ {}, D, calls')
    <3> HIDE DEF D
    <3> QED BY <2>2, <2>4, SendTyped, calls \ {} = calls
  <2>6. Works({}, D)
    <3> HIDE DEF D
    <3> QED BY <2>2, <2>3, <2>4, <2>5 DEF Works, WorkInv, FormInv
  <2> QED
    BY <2>6, WorksKeep
<1> QED
  BY <1>3, <1>4, <1>5, <1>6, <1>7, <1>8, <1>9

\* What is done in an open panel.
LEMMA InPanelWorks ==
  ASSUME ConsoleTypeOK, WorkInv,
         \/ LoadDiag \/ RunVerify \/ ChooseEndpoint \/ SubmitEndpoints
         \/ \E n \in Nodes : SubmitNode(n) \/ ShowInstall(n)
         \/ LoadGeoip \/ SaveGeoip \/ SaveDiag \/ CloseInstall
         \/ \E k \in {"status", "tasks"} : Poll(k)
  PROVE  WorkInv'
<1> USE FitsNode DEF NodeKinds, OtherKinds
<1>1. CASE LoadDiag
  <2>1. Api("command", at[2]) \in Draft
    BY <1>1, OpenAtNode, ApiDraft DEF LoadDiag, Modals
  <2>2. ~Guarded(Api("command", at[2]))
    BY DEF Guarded, Saves, Api, To
  <2> QED
    BY <1>1, <2>1, <2>2, FreeSend DEF LoadDiag
<1>2. CASE RunVerify
  <2>1. Api("verify", at[2]) \in Draft
    BY <1>2, OpenAtNode, ApiDraft DEF RunVerify, Modals
  <2>2. Holds(Api("verify", at[2]), "verify") /\ "verify" \in Flags \ {"form"}
    BY DEF Holds, Api, To, Flags
  <2> QED
    BY <1>2, <2>1, <2>2, GuardedSends DEF RunVerify
<1>3. CASE ChooseEndpoint
  BY <1>3, IdleKeeps DEF ChooseEndpoint
<1>4. CASE SubmitEndpoints
  <2> DEFINE k == [Api("saveEndpoints", at[2]) EXCEPT !.choices =
                     [m \in Nodes |-> IF m \in Listed \ {at[2]} THEN form[m] ELSE None]]
  <2>1. k \in Draft
    BY <1>4, OpenAtNode, ChoicesDraft DEF SubmitEndpoints, Modals
  <2>2. Holds(k, "endpoints") /\ "endpoints" \in Flags \ {"form"}
    BY DEF Holds, Api, To, Flags
  <2>3. /\ Send(calls, {k}) /\ ~busy["endpoints"] /\ UNCHANGED inner
        /\ busy' = [busy EXCEPT !["endpoints"] = TRUE]
    BY <1>4 DEF SubmitEndpoints
  <2> HIDE DEF k
  <2> QED
    BY <2>1, <2>2, <2>3, GuardedSends
<1>5. ASSUME NEW n \in Nodes, SubmitNode(n) PROVE WorkInv'
  <2>1. Api("newnode", n) \in Draft
    BY ApiDraft
  <2>2. Holds(Api("newnode", n), "newnode") /\ "newnode" \in Flags \ {"form"}
    BY DEF Holds, Api, To, Flags
  <2> QED
    BY <1>5, <2>1, <2>2, GuardedSends DEF SubmitNode
<1>6. ASSUME NEW n \in Nodes, ShowInstall(n) PROVE WorkInv'
  <2>1. Api("install", n) \in Draft
    BY ApiDraft
  <2>2. ~Guarded(Api("install", n))
    BY DEF Guarded, Saves, Api, To
  <2> QED
    BY <1>6, <2>1, <2>2, FreeSend DEF ShowInstall, page, inner
<1>7. CASE LoadGeoip
  <2>1. Api("geoip", None) \in Draft /\ ~Guarded(Api("geoip", None))
    BY ApiDraft DEF Guarded, Saves, Api, To
  <2> QED
    BY <1>7, <2>1, FreeSend DEF LoadGeoip
<1>8. CASE SaveGeoip
  <2>1. Api("saveGeoip", None) \in Draft
    BY ApiDraft
  <2>2. Holds(Api("saveGeoip", None), "geoip") /\ "geoip" \in Flags \ {"form"}
    BY DEF Holds, Api, To, Flags
  <2> QED
    BY <1>8, <2>1, <2>2, GuardedSends DEF SaveGeoip
<1>9. CASE SaveDiag
  <2>1. Api("saveDiag", None) \in Draft /\ ~Guarded(Api("saveDiag", None))
    BY ApiDraft DEF Guarded, Saves, Api, To
  <2> QED
    BY <1>9, <2>1, FreeSend DEF SaveDiag
<1>10. CASE CloseInstall
  BY <1>10, IdleKeeps DEF CloseInstall, inner
<1>11. ASSUME NEW k \in {"status", "tasks"}, Poll(k) PROVE WorkInv'
  <2> DEFINE d == Api(k, at[2])  S == {k} \cap Spinners
  <2>1. d \in Draft
    BY <1>11, OpenAtNode, ApiDraft DEF Poll, Modals
  <2>2. ~Guarded(d) /\ \A s \in S : Holds(d, s)
    BY DEF Guarded, Saves, Holds, Api, To
  <2>3. Send(calls, {d}) /\ busy' = Set(busy, S, TRUE) /\ UNCHANGED inner
    BY <1>11 DEF Poll
  <2>4. S \subseteq Spinners \ {"form"}
    OBVIOUS
  <2> HIDE DEF d, S
  <2>5. {d} \subseteq Draft /\ IsFiniteSet({d})
    BY <2>1, OneDraft
  <2> QED
    BY <2>2, <2>3, <2>4, <2>5, FreeSends
<1> QED
  BY <1>1, <1>2, <1>3, <1>4, <1>5, <1>6, <1>7, <1>8, <1>9, <1>10, <1>11

\* The tables are loaded again, beside the calls that are left.
LEMMA RunWorks ==
  ASSUME ConsoleTypeOK, WorkInv, NEW C, C \subseteq calls, \A c, d \in C : c = d,
         Send(calls \ C, {Api(h, None) : h \in Hooks}),
         \A s \in Spinners : busy'[s] = (s \in Hooks \/ (busy[s] /\ \A c \in C : ~Holds(c, s))),
         view' = view
  PROVE  WorkInv'
<1> DEFINE D == {Api(h, None) : h \in Hooks}
<1>1. D \subseteq Draft /\ IsFiniteSet(D)
  BY ApiDrafts, KindsOfHooks
<1>2. Sends(calls \ C, D, calls')
  <2>1. Send(calls \ C, D)
    OBVIOUS
  <2>2. calls \ C \subseteq calls
    OBVIOUS
  <2> HIDE DEF D
  <2> QED BY <1>1, <2>1, <2>2, SendTyped
<1>3. \A k \in D : ~Guarded(k)
  BY ConsoleAssumption DEF Guarded, Saves, NodeKinds, OtherKinds, Api, To
<1>4. \A h \in Hooks : \E k \in D : k.kind = h /\ Holds(k, h)
  <2>1. ASSUME NEW h \in Hooks
        PROVE  Api(h, None).kind = h /\ Holds(Api(h, None), h)
    BY ConsoleAssumption DEF Holds, Flags, NodeKinds, OtherKinds, Api, To
  <2> QED
    BY <2>1
<1>5. "form" \in Spinners /\ "form" \notin Hooks /\ Hooks \subseteq Spinners
  BY ConsoleAssumption DEF Spinners, Flags
<1> HIDE DEF D
<1>6. Works(C, D)
  BY <1>1, <1>2, <1>3, <1>4, <1>5 DEF Works, WorkInv, FormInv
<1> QED
  BY <1>6, WorksKeep

LEMMA HooksWork ==
  ASSUME ConsoleTypeOK, WorkInv, Rerender \/ Refresh
  PROVE  WorkInv'
<1> DEFINE C == {}
<1>1. Run(Hooks, calls) /\ view' = view
  BY DEF Rerender, Refresh
<1>2. \A s \in Spinners : busy'[s] = (s \in Hooks \/ (busy[s] /\ \A c \in C : ~Holds(c, s)))
  BY <1>1 DEF Run, Set, ConsoleTypeOK
<1>3. Send(calls \ C, {Api(h, None) : h \in Hooks})
  BY <1>1, calls \ C = calls DEF Run
<1>4. C \subseteq calls /\ \A c, d \in C : c = d
  OBVIOUS
<1> HIDE DEF C
<1> QED
  BY <1>1, <1>2, <1>3, <1>4, RunWorks

\* A call ends, and gives back the flag it holds.
LEMMA EndWorks ==
  ASSUME ConsoleTypeOK, WorkInv, NEW c \in calls, calls' = calls \ {c},
         NEW S, \A s \in Spinners : busy'[s] = (busy[s] /\ s \notin S),
         \A s \in Spinners : s \in S <=> Holds(c, s),
         view' = view, c.kind \notin Hooks, failed' = failed, data' = data
  PROVE  WorkInv'
<1>1. Sends(calls \ {c}, {}, calls')
  BY CallFields, NothingSent
<1>2. "form" \in Spinners
  BY DEF Spinners, Flags
<1>3. Works({c}, {})
  BY <1>1, <1>2 DEF Works, WorkInv, FormInv
<1> QED
  BY <1>3, WorksKeep

LEMMA HookDoneWorks ==
  ASSUME ConsoleTypeOK, WorkInv, NEW c \in calls, c.state \in {"ok", "failed"}, HookDone(c)
  PROVE  WorkInv'
<1>1. Sends(calls \ {c}, {}, calls')
  BY CallFields, NothingSent DEF HookDone
<1>2. /\ "form" \in Spinners /\ "form" \notin Hooks /\ Hooks \subseteq Spinners
      /\ \A s \in Spinners : Holds(c, s) <=> s = c.kind
  BY ConsoleAssumption DEF Spinners, Flags, HookDone, Holds, NodeKinds, OtherKinds
<1>3. \A s \in Spinners : busy'[s] = (busy[s] /\ s # c.kind)
  BY <1>2 DEF HookDone, ConsoleTypeOK
<1>4. /\ \A h \in Hooks : h # c.kind => failed'[h] = failed[h] /\ data'[h] = data[h]
      /\ failed'[c.kind] \/ data'[c.kind] # {None}
  <2>1. c.list # {None}
    BY CallFields, ConsoleAssumption
  <2> QED
    BY <2>1 DEF HookDone, ConsoleTypeOK
<1>5. view' = view
  BY DEF HookDone
<1>6. Works({c}, {})
  BY <1>1, <1>2, <1>3, <1>4, <1>5 DEF Works, WorkInv, FormInv
<1> QED
  BY <1>6, WorksKeep

\* The continuations of sign-ins.
LEMMA NotSignedInWorks ==
  ASSUME ConsoleTypeOK, WorkInv, NEW c \in calls, c.kind \in {"login", "register"},
         NotSignedIn(c)
  PROVE  WorkInv'
<1>1. /\ \A s \in Spinners : Holds(c, s) <=> s = "form" /\ c.shown
      /\ "form" \in Spinners /\ c.kind \notin Hooks
  BY ConsoleAssumption DEF Holds, Spinners, Flags, OtherKinds
<1> DEFINE S == {s \in Spinners : Holds(c, s)}
<1>2. \A s \in Spinners : busy'[s] = (busy[s] /\ s \notin S)
  BY <1>1, CallFields DEF NotSignedIn, ConsoleTypeOK
<1>3. \A s \in Spinners : s \in S <=> Holds(c, s)
  OBVIOUS
<1>4. /\ view' = view /\ failed' = failed /\ data' = data
      /\ calls' = calls \ {c}
  BY DEF NotSignedIn, panels
<1> HIDE DEF S
<1> QED
  BY <1>1, <1>2, <1>3, <1>4, EndWorks

\* The page that was a form becomes the admin page.
LEMMA SignedInWorks ==
  ASSUME ConsoleTypeOK, WorkInv, NEW c \in calls, c.kind \in {"login", "register"},
         SignedIn(c)
  PROVE  WorkInv'
<1>1. /\ \A s \in Spinners : Holds(c, s) => s = "form"
      /\ "form" \in Spinners /\ c.kind \notin Hooks
  BY ConsoleAssumption DEF Holds, Spinners, Flags, OtherKinds
<1>2. failed' = failed /\ data' = data /\ view' = "app"
  BY DEF SignedIn, panels
<1>3. CASE view = "app"
  <2> DEFINE S == {s \in Spinners : Holds(c, s)}
  <2>1. \A s \in Spinners : busy'[s] = (busy[s] /\ s \notin S)
    BY <1>1, <1>3 DEF SignedIn, WorkInv, FormInv, ConsoleTypeOK
  <2>2. \A s \in Spinners : s \in S <=> Holds(c, s)
    OBVIOUS
  <2>3. calls' = calls \ {c}
    BY <1>3 DEF SignedIn
  <2> HIDE DEF S
  <2> QED
    BY <1>1, <1>2, <1>3, <2>1, <2>2, <2>3, EndWorks
<1>4. CASE view # "app"
  <2> DEFINE D == HookCalls(base', token')
  <2>0. D \subseteq Draft /\ IsFiniteSet(D)
    <3>1. base' \in Bases
      BY CallFields DEF SignedIn
    <3> QED
      BY <3>1, HookDrafts
  <2>1. Sends(calls \ {c}, D, calls')
    <3>1. Send(calls \ {c}, D)
      BY <1>4 DEF SignedIn
    <3>2. calls \ {c} \subseteq calls
      OBVIOUS
    <3> HIDE DEF D
    <3> QED
      BY <2>0, <3>1, <3>2, SendTyped
  <2>2. /\ D \subseteq Draft
        /\ \A k \in D : k.kind \in Hooks /\ \A s \in Spinners : Holds(k, s) <=> s = k.kind
        /\ \A h \in Hooks : \E k \in D : k.kind = h
    <3>1. ASSUME NEW h \in Hooks
          PROVE  /\ To(h, None, base', token').kind = h
                 /\ \A s \in Spinners : Holds(To(h, None, base', token'), s) <=> s = h
      BY ConsoleAssumption DEF Holds, To, Flags, NodeKinds, OtherKinds
    <3> QED
      BY <2>0, <3>1 DEF HookCalls
  <2>3. \A s \in Spinners : busy'[s] <=> s \in Hooks \/ (busy[s] /\ s # "form")
    <3> DEFINE f == [busy EXCEPT !["form"] = FALSE]
    <3>1. busy' = Set(f, Hooks, TRUE)
      BY <1>4 DEF SignedIn
    <3>2. DOMAIN f = Spinners /\ \A s \in Spinners : f[s] <=> (busy[s] /\ s # "form")
      BY <1>1 DEF ConsoleTypeOK
    <3> HIDE DEF f
    <3>3. \A s \in Spinners : busy'[s] = IF s \in Hooks THEN TRUE ELSE f[s]
      BY <3>1, <3>2 DEF Set
    <3> QED
      BY <3>2, <3>3, Zenon
  <2> HIDE DEF D
  <2>4. ASSUME NEW k \in D
        PROVE  ~Guarded(k) /\ \E i \in Slots : As(k, i) \in calls' /\ As(k, i).kind = k.kind
    <3>1. k.kind \in Hooks /\ k \in Draft
      BY <2>2
    <3>2. ~Guarded(k)
      BY <3>1, ConsoleAssumption DEF Guarded, Saves, NodeKinds, OtherKinds
    <3>3. PICK i \in Slots : As(k, i) \in calls'
      BY <2>1 DEF Sends
    <3>4. As(k, i).kind = k.kind
      BY <3>1, AsHolds
    <3> QED
      BY <3>2, <3>3, <3>4
  <2>5. \A d \in calls' : Guarded(d) => d \in calls \ {c}
    <3> SUFFICES ASSUME NEW d \in calls', d \notin calls \ {c}
                 PROVE  ~Guarded(d)
      OBVIOUS
    <3>1. PICK k \in D, i \in Slots : d = As(k, i)
      BY <2>1 DEF Sends
    <3>2. k \in Draft /\ ~Guarded(k)
      BY <2>2, <2>4
    <3> QED
      BY <3>1, <3>2, AsHolds
  <2>6. \A h \in Hooks : \E d \in calls' : d.kind = h /\ Holds(d, h)
    <3> SUFFICES ASSUME NEW h \in Hooks
                 PROVE  \E d \in calls' : d.kind = h /\ Holds(d, h)
      OBVIOUS
    <3>1. PICK k \in D : k.kind = h
      BY <2>2
    <3>2. Holds(k, h)
      BY <2>2, <3>1, KindsOfHooks
    <3>3. PICK i \in Slots : As(k, i) \in calls'
      BY <2>4
    <3> QED
      BY <2>2, <3>1, <3>2, <3>3, AsHolds
  <2>7. LoadingHonest'
    <3> SUFFICES ASSUME NEW s \in Spinners, busy'[s]
                 PROVE  \E d \in calls' : Holds(d, s)
      BY DEF LoadingHonest, Holds
    <3>1. CASE s \in Hooks
      BY <2>6, <3>1
    <3>2. CASE s \notin Hooks
      BY <1>1, <2>1, <2>3, <3>2 DEF WorkInv, LoadingHonest, Sends
    <3> QED
      BY <3>1, <3>2
  <2>8. HeldInv'
    <3> SUFFICES ASSUME NEW d \in calls', NEW s \in Spinners, Guarded(d), Holds(d, s), s # "form"
                 PROVE  busy'[s]
      BY <1>2 DEF HeldInv, Guarded, Holds, Saves
    <3> QED
      BY <2>3, <2>5 DEF WorkInv, HeldInv
  <2>9. OneInv'
    BY <2>5 DEF WorkInv, OneInv, Guarded, Holds, Saves
  <2>10. FormInv'
    BY <1>1, <2>3, ConsoleAssumption DEF FormInv, Flags
  <2>11. QuietMeansData'
    BY <2>6 DEF QuietMeansData
  <2> QED
    BY <2>7, <2>8, <2>9, <2>10, <2>11 DEF WorkInv
<1> QED
  BY <1>3, <1>4

\* The other continuations: of panels.
LEMMA ShownWorks ==
  ASSUME ConsoleTypeOK, WorkInv, NEW c \in calls, NEW kind \in Panels \ {"install"}, Shown(c, kind)
  PROVE  WorkInv'
<1> DEFINE S == {kind} \cap Spinners
<1>1. /\ \A s \in Spinners : s \in S <=> Holds(c, s)
      /\ c.kind \notin Hooks
  BY ConsoleAssumption DEF Shown, Panels, Holds, NodeKinds
<1>2. busy' = Set(busy, S, FALSE)
  BY DEF Shown
<1>3. view' = view /\ failed' = failed /\ data' = data /\ calls' = calls \ {c}
  BY DEF Shown, inner
<1> HIDE DEF S
<1>4. \A s \in Spinners : busy'[s] = (busy[s] /\ s \notin S)
  BY <1>2 DEF Set, ConsoleTypeOK
<1> QED
  BY <1>1, <1>3, <1>4, EndWorks

\* A call ends and another one, unguarded, is sent.
LEMMA FollowWorks ==
  ASSUME ConsoleTypeOK, WorkInv, NEW c \in calls, c.kind \notin Hooks,
         NEW k \in Draft, ~Guarded(k), Send(calls \ {c}, {k}),
         NEW T, T \subseteq Spinners \ {"form"}, \A s \in T : Holds(k, s),
         \A s \in Spinners : busy'[s] <=> s \in T \/ (busy[s] /\ ~Holds(c, s)),
         view' = view, data' = data,
         \A h \in Hooks : (failed[h] => failed'[h]) \/ k.kind = h
  PROVE  WorkInv'
<1>1. Sends(calls \ {c}, {k}, calls')
  BY SendOne
<1>2. "form" \in Spinners
  BY DEF Spinners, Flags
<1>3. Works({c}, {k})
  BY <1>1, <1>2 DEF Works, WorkInv, FormInv
<1> QED
  BY <1>3, WorksKeep

LEMMA PanelDoneWorks ==
  ASSUME ConsoleTypeOK, WorkInv, NEW c \in calls, c.state \in {"ok", "failed"},
         \/ CommandDone(c) \/ VerifyDone(c) \/ EndpointsLoaded(c) \/ EndpointsSaved(c)
         \/ InstallDone(c) \/ GeoipLoaded(c) \/ DiagLoaded(c)
  PROVE  WorkInv'
<1> USE FitsNode, CallFields DEF NodeKinds
<1>1. ASSUME c.kind \in {"endpoints", "install", "geoip", "diag"}, calls' = calls \ {c},
             busy' = busy, view' = view, failed' = failed, data' = data
      PROVE  WorkInv'
  <2> DEFINE S == {s \in Spinners : Holds(c, s)}
  <2>1. S = {} /\ c.kind \notin Hooks
    BY <1>1, ConsoleAssumption DEF Holds, Spinners, Flags, OtherKinds
  <2>2. \A s \in Spinners : s \in S <=> Holds(c, s)
    OBVIOUS
  <2> HIDE DEF S
  <2>3. \A s \in Spinners : busy'[s] = (busy[s] /\ s \notin S)
    BY <1>1, <2>1 DEF ConsoleTypeOK
  <2> QED
    BY <1>1, <2>1, <2>2, <2>3, EndWorks
<1>2. CASE EndpointsLoaded(c) \/ InstallDone(c) \/ GeoipLoaded(c) \/ DiagLoaded(c)
  BY <1>1, <1>2 DEF EndpointsLoaded, InstallDone, GeoipLoaded, DiagLoaded, inner, page
<1>3. CASE EndpointsSaved(c)
  <2> DEFINE S == {"endpoints"}
  <2>1. /\ \A s \in Spinners : s \in S <=> Holds(c, s)
        /\ c.kind \notin Hooks
    BY <1>3, ConsoleAssumption DEF EndpointsSaved, Holds, Spinners, Flags
  <2>2. \A s \in Spinners : busy'[s] = (busy[s] /\ s \notin S)
    BY <1>3 DEF EndpointsSaved, ConsoleTypeOK
  <2>3. view' = view /\ failed' = failed /\ data' = data /\ calls' = calls \ {c}
    BY <1>3 DEF EndpointsSaved, inner
  <2> HIDE DEF S
  <2> QED
    BY <2>1, <2>2, <2>3, EndWorks
<1>4. CASE CommandDone(c)
  <2> DEFINE T == {"report"}  k == Api("report", c.node)
  <2>1. /\ \A s \in Spinners : ~Holds(c, s)
        /\ c.kind \notin Hooks
    BY <1>4, ConsoleAssumption DEF CommandDone, Holds, Spinners, Flags
  <2>2. k \in Draft
    BY <1>4, ApiDraft DEF CommandDone
  <2>3. ~Guarded(k) /\ \A s \in T : Holds(k, s)
    BY DEF Guarded, Holds, Saves, Api, To
  <2>4. \A s \in Spinners : busy'[s] <=> s \in T \/ (busy[s] /\ ~Holds(c, s))
    BY <1>4, <2>1 DEF CommandDone, ConsoleTypeOK
  <2>5. /\ Send(calls \ {c}, {k}) /\ view' = view /\ data' = data
        /\ failed' = failed /\ T \subseteq Spinners \ {"form"}
        /\ \A h \in Hooks : (failed[h] => failed'[h]) \/ k.kind = h
    BY <1>4 DEF CommandDone, inner, Spinners, Flags
  <2> HIDE DEF T, k
  <2> QED
    BY <2>1, <2>2, <2>3, <2>4, <2>5, FollowWorks
<1>5. CASE VerifyDone(c)
  <2> DEFINE S == {"verify"}  T == {}  k == Api("tasks", c.node)
             K == {Api("tasks", c.node) : x \in {y \in {1} : c.state = "ok"}}
  <2>1. /\ \A s \in Spinners : s \in S <=> Holds(c, s)
        /\ c.kind \notin Hooks
    BY <1>5, ConsoleAssumption DEF VerifyDone, Holds
  <2>2. k \in Draft
    BY <1>5, ApiDraft DEF VerifyDone
  <2>3. ~Guarded(k) /\ \A s \in T : Holds(k, s)
    BY DEF Guarded, Saves, Api, To
  <2>4. \A s \in Spinners : busy'[s] = (busy[s] /\ s \notin S)
    BY <1>5 DEF VerifyDone, ConsoleTypeOK
  <2>5. /\ Send(calls \ {c}, K) /\ view' = view /\ data' = data
        /\ failed' = failed /\ T \subseteq Spinners \ {"form"}
        /\ \A h \in Hooks : (failed[h] => failed'[h]) \/ k.kind = h
    BY <1>5 DEF VerifyDone, inner
  <2>6. \A s \in Spinners : busy'[s] <=> s \in T \/ (busy[s] /\ ~Holds(c, s))
    BY <2>1, <2>4
  <2>7. CASE c.state = "ok"
    <3>1. K = {k}
      BY <2>7
    <3> HIDE DEF S, T, k, K
    <3> QED
      BY <3>1, <2>1, <2>2, <2>3, <2>5, <2>6, FollowWorks
  <2>8. CASE c.state # "ok"
    <3>1. K = {}
      BY <2>8
    <3> HIDE DEF S, T, k, K
    <3>2. calls' = Sent(calls \ {c}, {})
      BY <2>5, <3>1 DEF Send
    <3>3. Sent(calls \ {c}, {}) = calls \ {c}
      BY DEF Sent
    <3> QED
      BY <3>2, <3>3, <2>1, <2>4, <2>5, EndWorks
  <2> QED
    BY <2>7, <2>8
<1> QED
  BY <1>2, <1>3, <1>4, <1>5

LEMMA NodeDoneWorks ==
  ASSUME ConsoleTypeOK, WorkInv, NEW c \in calls, NodeDone(c)
  PROVE  WorkInv'
<1>1. /\ \A s \in Spinners : Holds(c, s) <=> s = "newnode"
      /\ c.kind \notin Hooks
  BY ConsoleAssumption DEF NodeDone, Holds, NodeKinds
<1>2. view' = view /\ data' = data
  BY DEF NodeDone
<1>3. CASE c.state = "ok"
  <2> DEFINE T == {"nodes"}  k == Api("nodes", None)
  <2>1. k \in Draft
    BY ApiDraft, KindsOfHooks
  <2>2. ~Guarded(k) /\ \A s \in T : Holds(k, s)
    BY DEF Guarded, Holds, Saves, Api, To
  <2>3. Send(calls \ {c}, {k}) /\ T \subseteq Spinners \ {"form"}
    BY <1>3, KindsOfHooks DEF NodeDone
  <2>4. \A s \in Spinners : busy'[s] <=> s \in T \/ (busy[s] /\ ~Holds(c, s))
    BY <1>1, <1>3, KindsOfHooks DEF NodeDone, ConsoleTypeOK
  <2>5. \A h \in Hooks : (failed[h] => failed'[h]) \/ k.kind = h
    BY <1>3 DEF NodeDone, ConsoleTypeOK, Api, To
  <2> HIDE DEF T, k
  <2> QED
    BY <1>1, <1>2, <2>1, <2>2, <2>3, <2>4, <2>5, FollowWorks
<1>4. CASE c.state # "ok"
  <2> DEFINE S == {"newnode"}
  <2>1. \A s \in Spinners : s \in S <=> Holds(c, s)
    BY <1>1
  <2>2. \A s \in Spinners : busy'[s] = (busy[s] /\ s \notin S)
    BY <1>4 DEF NodeDone, ConsoleTypeOK
  <2>3. failed' = failed /\ calls' = calls \ {c}
    BY <1>4 DEF NodeDone
  <2> HIDE DEF S
  <2> QED
    BY <1>1, <1>2, <2>1, <2>2, <2>3, EndWorks
<1> QED
  BY <1>3, <1>4

LEMMA SavedSettingsWorks ==
  ASSUME ConsoleTypeOK, WorkInv, NEW c \in calls, GeoipSaved(c) \/ DiagSaved(c)
  PROVE  WorkInv'
<1>1. PICK S : /\ SavedSettings(c, S) /\ S \subseteq {"geoip"}
               /\ (c.kind = "saveGeoip" /\ S = {"geoip"}) \/ (c.kind = "saveDiag" /\ S = {})
  BY DEF GeoipSaved, DiagSaved
<1>2. /\ \A s \in Spinners : s \in S <=> Holds(c, s)
      /\ c.kind \notin Hooks /\ "geoip" \notin Hooks
  BY <1>1, ConsoleAssumption DEF Holds, Spinners, Flags, OtherKinds
<1>3. view' = view /\ data' = data
  BY <1>1 DEF SavedSettings
<1>4. CASE c.state = "ok"
  <2> DEFINE C == {c}
  <2>1. Send(calls \ C, {Api(h, None) : h \in Hooks})
    BY <1>1, <1>4 DEF SavedSettings
  <2>2. busy' = Set(Set(busy, Hooks, TRUE), S, FALSE)
    BY <1>1, <1>4 DEF SavedSettings
  <2>3. \A s \in Spinners :
          busy'[s] = (s \in Hooks \/ (busy[s] /\ \A d \in C : ~Holds(d, s)))
    <3>1. \A s \in Spinners :
            busy'[s] = IF s \in S THEN FALSE ELSE IF s \in Hooks THEN TRUE ELSE busy[s]
      BY <2>2 DEF Set, ConsoleTypeOK
    <3>2. \A s \in Spinners : (\A d \in C : ~Holds(d, s)) <=> s \notin S
      BY <1>2
    <3>3. \A s \in S : s \notin Hooks
      BY <1>1, <1>2
    <3>4. \A s \in Spinners : busy[s] \in BOOLEAN
      BY DEF ConsoleTypeOK
    <3> HIDE DEF C
    <3> QED
      BY <3>1, <3>2, <3>3, <3>4
  <2>4. C \subseteq calls /\ \A d, e \in C : d = e
    OBVIOUS
  <2> HIDE DEF C
  <2> QED
    BY <1>3, <2>1, <2>3, <2>4, RunWorks
<1>5. CASE c.state # "ok"
  <2>1. \A s \in Spinners : busy'[s] = (busy[s] /\ s \notin S)
    <3>1. busy \in [Spinners -> BOOLEAN] /\ busy' = Set(busy, S, FALSE)
      BY <1>1, <1>5 DEF SavedSettings, ConsoleTypeOK
    <3>2. \A s \in Spinners : busy'[s] = IF s \in S THEN FALSE ELSE busy[s]
      BY <3>1 DEF Set
    <3> QED
      BY <3>1, <3>2
  <2>2. failed' = failed /\ calls' = calls \ {c}
    BY <1>1, <1>5 DEF SavedSettings
  <2> QED
    BY <1>2, <1>3, <2>1, <2>2, EndWorks
<1> QED
  BY <1>4, <1>5

LEMMA ContinueWorks ==
  ASSUME ConsoleTypeOK, WorkInv, NEW c \in calls, Continue(c)
  PROVE  WorkInv'
<1>1. CASE LoginDone(c) \/ RegisterDone(c)
  BY <1>1, NotSignedInWorks, SignedInWorks DEF LoginDone, RegisterDone
<1>2. CASE HistoryDone(c) \/ DiagnoseDone(c) \/ StatusDone(c) \/ TasksDone(c) \/ ReportDone(c)
  BY <1>2, ShownWorks
     DEF Panels, HistoryDone, DiagnoseDone, StatusDone, TasksDone, ReportDone
<1> QED
  BY <1>1, <1>2, HookDoneWorks, PanelDoneWorks, NodeDoneWorks, SavedSettingsWorks DEF Continue

\* The button of a form.
LEMMA SubmitWorks ==
  ASSUME ConsoleTypeOK, WorkInv, NEW kind \in {"login", "register"}, SubmitForm(kind)
  PROVE  WorkInv'
<1>1. PICK b \in Bases : Send(calls, {To(kind, None, b, None)})
  BY DEF SubmitForm
<1> DEFINE k == To(kind, None, b, None)
<1>2. k \in Draft
  BY ToDraft, FitsNode DEF OtherKinds
<1>3. /\ "form" \in Spinners /\ k.kind \notin Hooks
      /\ \A s \in Spinners : Holds(k, s) <=> s = "form"
  BY ConsoleAssumption DEF Holds, To, Spinners, Flags, OtherKinds
<1>4. Sends(calls \ {}, {k}, calls')
  <2>1. Send(calls, {k})
    BY <1>1
  <2> HIDE DEF k
  <2> QED BY <1>2, <2>1, SendOne, calls \ {} = calls
<1>5. /\ view' = view /\ view # "app" /\ ~busy["form"]
      /\ failed' = failed /\ data' = data
      /\ \A s \in Spinners : busy'[s] <=> busy[s] \/ s = "form"
  BY <1>3 DEF SubmitForm, panels, ConsoleTypeOK
<1> HIDE DEF k
<1>6. Works({}, {k})
  BY <1>2, <1>3, <1>4, <1>5 DEF Works
<1> QED
  BY <1>6, WorksKeep

\* A form gives way to the other one, and its call no longer holds its flag.
LEMMA SwitchWorks ==
  ASSUME ConsoleTypeOK, WorkInv, SwitchForm
  PROVE  WorkInv'
<1>1. /\ calls' = {Hidden(c) : c \in calls}
      /\ view # "app" /\ view' # "app"
      /\ \A s \in Spinners : busy'[s] <=> busy[s] /\ s # "form"
  BY DEF SwitchForm, Hidden, ConsoleTypeOK
<1>2. ASSUME NEW c \in calls
      PROVE  /\ \A s \in Spinners : Holds(Hidden(c), s) <=> Holds(c, s) /\ s # "form"
             /\ Guarded(Hidden(c)) <=> c.kind \in Saves
  BY CallFields, CallHidden, ConsoleAssumption
     DEF Holds, Guarded, Saves, Kinds, Spinners, Flags, NodeKinds, OtherKinds
<1>3. LoadingHonest'
  <2> SUFFICES ASSUME NEW s \in Spinners, busy'[s]
               PROVE  \E d \in calls' : Holds(d, s)
    BY DEF LoadingHonest, Holds
  <2>1. PICK c \in calls : Holds(c, s)
    BY <1>1 DEF WorkInv, LoadingHonest
  <2> QED
    BY <1>1, <1>2, <2>1
<1>4. HeldInv'
  <2> SUFFICES ASSUME NEW c \in calls, NEW s \in Spinners, Guarded(Hidden(c)), Holds(Hidden(c), s)
               PROVE  busy'[s]
    BY <1>1 DEF HeldInv, Guarded, Holds, Saves
  <2>1. Guarded(c) /\ Holds(c, s) /\ s # "form"
    BY <1>2 DEF Guarded
  <2> QED
    BY <1>1, <2>1 DEF WorkInv, HeldInv
<1>5. OneInv'
  <2> SUFFICES ASSUME NEW x \in calls', NEW y \in calls', NEW s \in Spinners,
                      Guarded(x), Guarded(y), Holds(x, s), Holds(y, s)
               PROVE  x = y
    BY DEF OneInv, Guarded, Holds, Saves
  <2>1. PICK c \in calls, d \in calls : x = Hidden(c) /\ y = Hidden(d)
    BY <1>1
  <2>2. Guarded(c) /\ Guarded(d) /\ Holds(c, s) /\ Holds(d, s)
    BY <1>2, <2>1 DEF Guarded
  <2>3. c = d
    BY <2>2 DEF WorkInv, OneInv
  <2> QED
    BY <2>1, <2>3
<1> QED
  BY <1>1, <1>3, <1>4, <1>5 DEF WorkInv, FormInv, QuietMeansData

\* A fresh page's flags and calls are those of its tables.
LEMMA FreshWorks ==
  ASSUME NEW s \in Scenarios, scene = s, NEW b \in Bases, NEW t, NEW set \in BOOLEAN
  PROVE  LET P == FreshPage(b, t, set)
         IN /\ \A c \in P.calls : ~Guarded(c)
            /\ \A f \in Spinners : P.busy[f] => f # "form" /\ \E c \in P.calls : Holds(c, f)
            /\ P.view = "app" => \A h \in Hooks : \E c \in P.calls : c.kind = h
<1> DEFINE P == FreshPage(b, t, set)
           v == InitialView(t, set)
           loading == IF v = "app" THEN Hooks ELSE {}
           K == {To(h, None, b, t) : h \in loading}
<1>1. /\ P.view = v /\ P.busy = [f \in Spinners |-> f \in loading]
      /\ Sends({}, K, P.calls)
  BY FreshCalls
<1>2. loading \subseteq Hooks /\ (v = "app" => loading = Hooks)
  OBVIOUS
<1>3. K \subseteq Draft
  <2> HIDE DEF loading
  <2> QED BY <1>2, KindsOfHooks, ToDraft
<1>4. /\ \A k \in K : k.kind \in loading
      /\ \A h \in loading : \E k \in K : k.kind = h
  <2>1. \A h : To(h, None, b, t).kind = h
    BY DEF To
  <2> HIDE DEF loading
  <2> QED
    BY <2>1
<1> HIDE DEF P, v, loading, K
<1>5. ASSUME NEW c \in P.calls
      PROVE  c.kind \in Hooks
  <2>1. PICK k \in K, i \in Slots : c = As(k, i)
    BY <1>1 DEF Sends
  <2> QED
    BY <1>2, <1>3, <1>4, <2>1, AsHolds
<1>6. ASSUME NEW h \in loading
      PROVE  \E c \in P.calls : c.kind = h
  <2>1. PICK k \in K : k.kind = h
    BY <1>4
  <2>2. PICK i \in Slots : As(k, i) \in P.calls
    BY <1>1 DEF Sends
  <2> QED
    BY <1>3, <2>1, <2>2, AsHolds
<1>7. \A c : c.kind \in Hooks => ~Guarded(c) /\ Holds(c, c.kind)
  BY ConsoleAssumption DEF Guarded, Holds, Saves, NodeKinds, OtherKinds
<1>8. "form" \notin Hooks
  BY ConsoleAssumption DEF Flags
<1>9. \A f \in Spinners : P.busy[f] => f \in loading
  BY <1>1
<1>10. \A c \in P.calls : ~Guarded(c)
  BY <1>5, <1>7
<1>11. \A f \in Spinners : P.busy[f] => f # "form" /\ \E c \in P.calls : Holds(c, f)
  BY <1>2, <1>6, <1>7, <1>8, <1>9
<1>12. P.view = "app" => \A h \in Hooks : \E c \in P.calls : c.kind = h
  BY <1>1, <1>2, <1>6
<1> QED
  BY <1>10, <1>11, <1>12 DEF P

LEMMA InitWorks == Init => WorkInv
<1> SUFFICES ASSUME Init
             PROVE  WorkInv
  OBVIOUS
<1>1. scene \in Scenarios /\ base \in Bases /\ adminSet \in BOOLEAN
  BY InitTypes DEF ConsoleTypeOK
<1>2. /\ \A c \in calls : ~Guarded(c)
      /\ \A f \in Spinners : busy[f] => f # "form" /\ \E c \in calls : Holds(c, f)
      /\ view = "app" => \A h \in Hooks : \E c \in calls : c.kind = h
  BY <1>1, FreshWorks DEF Init
<1>3. "form" \in Spinners
  BY DEF Spinners, Flags
<1> QED
  BY <1>2, <1>3 DEF WorkInv, LoadingHonest, HeldInv, OneInv, FormInv, QuietMeansData

LEMMA LogoutWorks ==
  ASSUME ConsoleTypeOK, Logout
  PROVE  WorkInv'
<1>1. scene \in Scenarios /\ base \in Bases /\ adminSet \in BOOLEAN
  BY DEF ConsoleTypeOK
<1>2. /\ \A c \in calls' : ~Guarded(c)
      /\ \A f \in Spinners : busy'[f] => f # "form" /\ \E c \in calls' : Holds(c, f)
      /\ view' = "app" => \A h \in Hooks : \E c \in calls' : c.kind = h
  BY <1>1, FreshWorks DEF Logout
<1>3. "form" \in Spinners
  BY DEF Spinners, Flags
<1>4. LoadingHonest'
  BY <1>2 DEF LoadingHonest, Holds
<1>5. HeldInv' /\ OneInv'
  BY <1>2 DEF HeldInv, OneInv, Guarded, Holds, Saves
<1>6. FormInv' /\ QuietMeansData'
  BY <1>2, <1>3 DEF FormInv, QuietMeansData
<1> QED
  BY <1>4, <1>5, <1>6 DEF WorkInv

\* A controller serves a call: it stays the call of its flag.
LEMMA SettleWorks ==
  ASSUME ConsoleTypeOK, WorkInv, NEW c \in calls, Settle(c)
  PROVE  WorkInv'
<1>1. PICK d : Same(d, c) /\ calls' = (calls \ {c}) \cup {d}
  BY SettleChanges
<1>2. /\ \A s : Holds(d, s) <=> Holds(c, s)
      /\ Guarded(d) <=> Guarded(c)
  BY <1>1 DEF Same, Holds, Guarded
<1>3. view' = view /\ busy' = busy /\ failed' = failed /\ data' = data
  BY DEF Settle, page
<1>4. LoadingHonest'
  <2> SUFFICES ASSUME NEW s \in Spinners, busy[s]
               PROVE  \E e \in calls' : Holds(e, s)
    BY <1>3 DEF LoadingHonest, Holds
  <2> QED
    BY <1>1, <1>2 DEF WorkInv, LoadingHonest
<1>5. HeldInv'
  <2> SUFFICES ASSUME NEW e \in calls', NEW s \in Spinners, Guarded(e), Holds(e, s),
                      s = "form" => view # "app"
               PROVE  busy[s]
    BY <1>3 DEF HeldInv, Guarded, Holds, Saves
  <2> QED
    BY <1>1, <1>2 DEF WorkInv, HeldInv
<1>6. OneInv'
  <2> SUFFICES ASSUME NEW x \in calls', NEW y \in calls', NEW s \in Spinners,
                      Guarded(x), Guarded(y), Holds(x, s), Holds(y, s)
               PROVE  x = y
    BY DEF OneInv, Guarded, Holds, Saves
  <2> QED
    BY <1>1, <1>2 DEF WorkInv, OneInv
<1>7. FormInv'
  BY <1>3 DEF WorkInv, FormInv
<1>8. QuietMeansData'
  <2> SUFFICES ASSUME NEW h \in Hooks, view = "app", \A e \in calls' : e.kind # h, ~failed[h]
               PROVE  data[h] # {None}
    BY <1>3 DEF QuietMeansData
  <2> QED
    BY <1>1 DEF Same, WorkInv, QuietMeansData
<1> QED
  BY <1>4, <1>5, <1>6, <1>7, <1>8 DEF WorkInv

LEMMA NextWorks == ConsoleTypeOK /\ WorkInv /\ [Next]_vars => WorkInv'
<1> SUFFICES ASSUME ConsoleTypeOK, WorkInv, [Next]_vars
             PROVE  WorkInv'
  OBVIOUS
<1>1. CASE UserStep
  <2>1. CASE SubmitLogin \/ SubmitRegister
    BY <2>1, SubmitWorks DEF SubmitLogin, SubmitRegister
  <2>2. CASE EditStorage
    BY <2>2, IdleKeeps DEF EditStorage, page
  <2> QED
    BY <1>1, <2>1, <2>2, SwitchWorks, LogoutWorks, HooksWork, OpeningWorks, InPanelWorks
       DEF UserStep
<1>2. CASE Rerender
  BY <1>2, HooksWork
<1>3. CASE \E k \in {"status", "tasks"} : Poll(k)
  BY <1>3, InPanelWorks
<1>4. ASSUME NEW i \in Slots, Numbered(i, Settle) \/ Numbered(i, Continue)
      PROVE  WorkInv'
  BY <1>4, SettleWorks, ContinueWorks DEF Numbered
<1>5. CASE UNCHANGED vars
  BY <1>5, IdleKeeps DEF vars, page
<1> QED
  BY <1>1, <1>2, <1>3, <1>4, <1>5 DEF Next

LEMMA WorkInvariant == Spec => [](ConsoleTypeOK /\ WorkInv)
<1>1. Init => ConsoleTypeOK /\ WorkInv
  BY InitTypes, InitWorks
<1>2. (ConsoleTypeOK /\ WorkInv) /\ [Next]_vars => (ConsoleTypeOK /\ WorkInv)'
  BY NextTyped, NextWorks
<1> QED
  BY <1>1, <1>2, PTL DEF Spec

\* No flag is left set (useAsync's finally, api.js:38, and each panel's own):
\* a table, form or panel that says it works has a call in flight, although
\* calls fail, runs overlap, and panels close or change nodes before the answer.
THEOREM FlagsHonest == Spec => []LoadingHonest
<1>1. WorkInv => LoadingHonest
  BY DEF WorkInv
<1> QED
  BY <1>1, WorkInvariant, PTL

\* What a flag guards is in flight once, also for another node after the panel
\* was closed (EndpointDrawer, CreateNodeModal, GeoIPCard, PolicyDrawer): the
\* argument is that such a call has its flag set, and that a flag has one.
THEOREM RunsOnce == Spec => []SavedOnce
<1>1. WorkInv => SavedOnce
  BY OneGivesSavedOnce DEF WorkInv
<1> QED
  BY <1>1, WorkInvariant, PTL

\* A table at rest without an error shows an answer (useAsync): although the
\* error is cleared by a run that another one then overtakes.
THEOREM TablesQuiet == Spec => []QuietMeansData
<1>1. WorkInv => QuietMeansData
  BY DEF WorkInv
<1> QED
  BY <1>1, WorkInvariant, PTL

-----------------------------------------------------------------------------
(* The choices of endpoints. *)

\* Calls that read or change the choices stored for their node.
Editing == {"endpoints", "saveEndpoints", "install"}

\* The admin page has a token of its base.
OwnToken == view = "app" => token = base

OneEdit == \A c, d \in calls : c.kind \in Editing /\ d.kind \in Editing => c = d

\* A load is of the node the drawer is open for, it does not fail, and its answer
\* has the choices that are stored by now.
LoadOwn ==
  \A c \in calls : c.kind = "endpoints" =>
    /\ at = <<"endpoints", c.node>> /\ c.good /\ c.state \in {"sent", "ok"}
    /\ c.state = "ok" => \A m \in Nodes : peps[c.node][m] = c.node => c.choices[m] = c.node

SaveOwn ==
  \A c \in calls : c.kind = "saveEndpoints" =>
    /\ at = <<"endpoints", c.node>>
    /\ \A m \in Nodes : c.choices[m] \in {None, form[m]}

\* Once the drawer's node is loaded, the form has the node's own choices, but for
\* those its user has taken back.
FormOwn ==
  \A n \in Nodes : at = <<"endpoints", n>> /\ (\A c \in calls : c.kind # "endpoints") =>
    \A m \in Nodes : peps[n][m] = n => form[m] \in {n, None}

ChoiceInv == OwnToken /\ OneEdit /\ LoadOwn /\ SaveOwn /\ FormOwn

\* Beside cs, calls of kinds in S only are in flight now.
Adds(cs, S) == cs \subseteq calls' /\ \A d \in calls' \ cs : d.kind \in S

\* A call keeps what it is about when it is given an ID.
LEMMA ApiNumbered ==
  ASSUME NEW k, NEW n, NEW i
  PROVE  /\ As(Api(k, n), i).kind = k /\ As(Api(k, n), i).node = n
         /\ token = base => As(Api(k, n), i).good
         /\ As(Api(k, n), i).state = "sent" /\ As(Api(k, n), i).choices = NoChoice
BY DEF As, Api, To

LEMMA SentDrafts ==
  ASSUME NEW cs, NEW K, Send(cs, K)
  PROVE  cs \subseteq calls' /\ \A d \in calls' \ cs : \E k \in K : \E i : d = As(k, i)
<1> DEFINE id == CHOOSE f \in [K -> Free(cs)] : IsInjective(f)
<1>1. calls' = cs \cup {As(k, id[k]) : k \in K}
  BY DEF Send, Sent, As
<1> HIDE DEF id
<1> QED
  BY <1>1

LEMMA ApiAdds ==
  ASSUME NEW cs, NEW S, NEW n, Send(cs, {Api(k, n) : k \in S})
  PROVE  Adds(cs, S)
<1>1. /\ cs \subseteq calls'
      /\ \A d \in calls' \ cs : \E x \in {Api(k, n) : k \in S} : \E i : d = As(x, i)
  BY SentDrafts
<1>2. \A d \in calls' \ cs : \E k \in S : \E i : d = As(Api(k, n), i)
  BY <1>1
<1> QED
  BY <1>1, <1>2, ApiNumbered DEF Adds

LEMMA OneAdds ==
  ASSUME NEW cs, NEW k, NEW n, Send(cs, {Api(k, n)})
  PROVE  Adds(cs, {k})
<1>1. cs \subseteq calls' /\ \A d \in calls' \ cs : \E x \in {Api(k, n)} : \E i : d = As(x, i)
  BY SentDrafts
<1>2. \A d \in calls' \ cs : \E i : d = As(Api(k, n), i)
  BY <1>1
<1> QED
  BY <1>1, <1>2, ApiNumbered DEF Adds

\* A step that neither edits choices nor loads them.
LEMMA ChoicesLeft ==
  ASSUME ChoiceInv, peps' = peps, OwnToken',
         \A d \in calls' : d.kind \in Editing => d \in calls,
         \/ /\ at' = at /\ form' = form
            /\ \A c \in calls : c.kind = "endpoints" => c \in calls'
         \/ /\ at'[1] # "endpoints"
            /\ \A d \in calls' : d.kind \notin {"endpoints", "saveEndpoints"}
  PROVE  ChoiceInv'
<1>1. OneEdit'
  BY DEF ChoiceInv, OneEdit
<1>2. CASE /\ at' = at /\ form' = form
           /\ \A c \in calls : c.kind = "endpoints" => c \in calls'
  <2>1. LoadOwn'
    BY <1>2 DEF ChoiceInv, LoadOwn, Editing
  <2>2. SaveOwn'
    BY <1>2 DEF ChoiceInv, SaveOwn, Editing
  <2>3. FormOwn'
    BY <1>2 DEF ChoiceInv, FormOwn
  <2> QED
    BY <1>1, <2>1, <2>2, <2>3 DEF ChoiceInv
<1>3. CASE /\ at'[1] # "endpoints"
           /\ \A d \in calls' : d.kind \notin {"endpoints", "saveEndpoints"}
  <2>1. \A n : at' # <<"endpoints", n>>
    BY <1>3
  <2> QED
    BY <1>1, <1>3, <2>1 DEF ChoiceInv, LoadOwn, SaveOwn, FormOwn
<1> QED
  BY <1>2, <1>3

\* A step of a user who has waited for all answers: the calls it makes are all
\* that are in flight.
LEMMA UserLeaves ==
  ASSUME ChoiceInv, calls = {}, NEW S, Adds({}, S), S \cap Editing = {}, peps' = peps,
         OwnToken', (at' = at /\ form' = form) \/ at'[1] # "endpoints"
  PROVE  ChoiceInv'
<1>1. \A d \in calls' : d.kind \notin Editing
  BY DEF Adds
<1> QED
  BY <1>1, ChoicesLeft DEF Editing

LEMMA FreshAdds ==
  ASSUME ConsoleTypeOK, NEW t, NEW set \in BOOLEAN, calls' = FreshPage(base, t, set).calls
  PROVE  Adds({}, Hooks)
<1> DEFINE loading == IF InitialView(t, set) = "app" THEN Hooks ELSE {}
           K == {To(h, None, base, t) : h \in loading}
<1>1. Sends({}, K, calls')
  BY FreshCalls DEF ConsoleTypeOK
<1>2. \A d \in calls' : \E h \in Hooks : \E i : d = As(To(h, None, base, t), i)
  BY <1>1 DEF Sends
<1>3. \A h, i : As(To(h, None, base, t), i).kind = h
  BY DEF As, To
<1> QED
  BY <1>2, <1>3 DEF Adds

\* The steps of the user that are about no node's endpoints.
LEMMA UserKeeps ==
  ASSUME ConsoleTypeOK, ChoiceInv, "patient" \in uses, "inputs" \notin uses,
         \/ SwitchForm \/ SubmitLogin \/ SubmitRegister \/ EditStorage \/ Logout \/ Refresh
         \/ \E n \in Nodes : OpenHistory(n) \/ OpenDiagnose(n) \/ OpenPolicy(n)
         \/ Close \/ LoadDiag \/ RunVerify
         \/ OpenNode \/ \E n \in Nodes : SubmitNode(n)
         \/ OpenSettings \/ LoadGeoip \/ SaveGeoip \/ SaveDiag
         \/ CloseInstall
  PROVE  ChoiceInv'
<1> USE DEF server, storage, inner, page
<1>0. calls = {}
  BY Zenon
     DEF SwitchForm, SubmitLogin, SubmitRegister, SubmitForm, EditStorage, Logout,
         Refresh, OpenHistory, OpenDiagnose, OpenPolicy, Open, Close, LoadDiag,
         RunVerify, OpenNode, SubmitNode, OpenSettings,
         LoadGeoip, SaveGeoip, SaveDiag, CloseInstall, User
<1>1. /\ Hooks \cap Editing = {}
      /\ \A k \in {"history", "diagnose", "status", "tasks", "command", "verify", "newnode",
                   "geoip", "saveGeoip", "diag", "saveDiag", "login", "register"} :
           k \notin Editing
  BY ConsoleAssumption DEF Editing, NodeKinds
<1>2. OwnToken /\ (view' = view /\ base' = base /\ token' = token => OwnToken')
  BY DEF ChoiceInv, OwnToken
<1>3. \A S : Adds(calls, S) => Adds({}, S)
  BY <1>0 DEF Adds
<1>4. calls' = calls => Adds({}, {})
  BY <1>0 DEF Adds
<1>5. CASE SwitchForm
  <2>1. calls' = {}
    BY <1>0, <1>5 DEF SwitchForm
  <2>2. OwnToken' /\ at' = at /\ form' = form /\ peps' = peps
    BY <1>5 DEF SwitchForm, OwnToken, panels
  <2> QED
    BY <1>0, <1>4, <2>1, <2>2, UserLeaves
<1>6. ASSUME NEW kind \in {"login", "register"}, SubmitForm(kind) PROVE ChoiceInv'
  <2>1. PICK b \in Bases : Send(calls, {To(kind, None, b, None)})
    BY <1>6 DEF SubmitForm
  <2>2. \A i : As(To(kind, None, b, None), i).kind = kind
    BY DEF As, To
  <2>3. /\ \A d \in calls' \ calls : \E x \in {To(kind, None, b, None)} : \E i : d = As(x, i)
        /\ calls \subseteq calls'
    BY <2>1, SentDrafts
  <2>4. Adds({}, {kind})
    BY <1>0, <2>2, <2>3 DEF Adds
  <2>5. OwnToken' /\ at' = at /\ form' = form /\ peps' = peps
    BY <1>2, <1>6 DEF SubmitForm, panels
  <2> QED
    BY <1>0, <1>1, <2>4, <2>5, UserLeaves
<1>7. CASE EditStorage
  BY <1>7 DEF EditStorage, User
<1>8. CASE Logout
  <2>1. Adds({}, Hooks)
    BY <1>8, FreshAdds DEF Logout, ConsoleTypeOK
  <2>2. view' # "app"
    BY <1>8, FreshCalls DEF Logout, ConsoleTypeOK, InitialView
  <2>3. at'[1] # "endpoints" /\ peps' = peps
    BY <1>8 DEF Logout, Closed
  <2> QED
    BY <1>0, <1>1, <2>1, <2>2, <2>3, UserLeaves DEF OwnToken
<1>9. CASE Refresh
  <2>1. Adds(calls, Hooks)
    BY <1>9, ApiAdds DEF Refresh, Run
  <2> QED
    BY <1>0, <1>1, <1>2, <1>3, <1>9, <2>1, UserLeaves DEF Refresh
<1>10. ASSUME NEW n \in Nodes, NEW m, NEW K, Open(m, n, K), m # "endpoints",
              K \cap Editing = {}
       PROVE  ChoiceInv'
  <2>1. Adds(calls, K)
    BY <1>10, ApiAdds DEF Open
  <2>2. at'[1] # "endpoints"
    BY <1>10 DEF Open
  <2> QED
    BY <1>0, <1>2, <1>3, <1>10, <2>1, <2>2, UserLeaves DEF Open
<1>11. ASSUME NEW n \in Nodes, OpenHistory(n) \/ OpenDiagnose(n) \/ OpenPolicy(n)
       PROVE  ChoiceInv'
  BY <1>1, <1>10, <1>11 DEF OpenHistory, OpenDiagnose, OpenPolicy
<1>12. CASE Close
  BY <1>0, <1>2, <1>4, <1>12, UserLeaves DEF Close, Closed
<1>13. ASSUME NEW k, NEW n, Send(calls, {Api(k, n)}), k \notin Editing,
              UNCHANGED <<storage, at, inner, server>>
       PROVE  ChoiceInv'
  <2>1. Adds({}, {k}) /\ {k} \cap Editing = {}
    BY <1>3, <1>13, OneAdds
  <2> QED
    BY <1>0, <1>2, <1>13, <2>1, UserLeaves
<1>14. CASE LoadDiag
  BY <1>1, <1>13, <1>14 DEF LoadDiag
<1>15. CASE RunVerify
  BY <1>1, <1>13, <1>15 DEF RunVerify
<1>16. CASE OpenNode
  BY <1>0, <1>2, <1>4, <1>16, UserLeaves DEF OpenNode
<1>17. ASSUME NEW n \in Nodes, SubmitNode(n) PROVE ChoiceInv'
  BY <1>1, <1>13, <1>17 DEF SubmitNode
<1>18. CASE OpenSettings
  <2> DEFINE S == IF mounted THEN {} ELSE {"geoip", "diag"}
  <2>1. Send(calls, {Api(k, None) : k \in S})
    BY <1>18 DEF OpenSettings
  <2>2. S \cap Editing = {}
    BY <1>1
  <2> HIDE DEF S
  <2>3. Adds({}, S)
    BY <1>3, <2>1, ApiAdds
  <2>4. OwnToken' /\ at'[1] # "endpoints" /\ peps' = peps
    BY <1>2, <1>18 DEF OpenSettings
  <2> QED
    BY <1>0, <2>2, <2>3, <2>4, UserLeaves
<1>19. CASE LoadGeoip
  BY <1>1, <1>13, <1>19 DEF LoadGeoip
<1>20. CASE SaveGeoip
  BY <1>1, <1>13, <1>20 DEF SaveGeoip
<1>21. CASE SaveDiag
  BY <1>1, <1>13, <1>21 DEF SaveDiag
<1>22. CASE CloseInstall
  BY <1>0, <1>2, <1>4, <1>22, UserLeaves DEF CloseInstall
<1> QED
  BY <1>5, <1>6, <1>7, <1>8, <1>9, <1>11, <1>12, <1>14, <1>15, <1>16, <1>17, <1>18, <1>19,
     <1>20, <1>21, <1>22 DEF SubmitLogin, SubmitRegister

\* The one call a user makes who has waited for all answers.
LEMMA OneSent ==
  ASSUME calls = {}, NEW x, Send(calls, {x})
  PROVE  \E i : calls' = {As(x, i)}
<1> DEFINE id == CHOOSE f \in [{x} -> Free(calls)] : IsInjective(f)
<1>1. calls' = calls \cup {As(k, id[k]) : k \in {x}}
  BY DEF Send, Sent, As
<1> HIDE DEF id
<1>2. calls' = {As(x, id[x])}
  BY <1>1
<1> QED
  BY <1>2

\* The endpoint drawer, and the installation of a node, which may clear choices.
LEMMA EditorKeeps ==
  ASSUME ConsoleTypeOK, ChoiceInv, "patient" \in uses,
         \/ ChooseEndpoint \/ SubmitEndpoints
         \/ \E n \in Nodes : OpenEndpoints(n) \/ ShowInstall(n)
  PROVE  ChoiceInv'
<1> USE DEF server, storage, inner, page
<1>0. calls = {}
  BY DEF OpenEndpoints, ChooseEndpoint, SubmitEndpoints, ShowInstall, User
<1>1. OwnToken'
  BY DEF ChoiceInv, OwnToken, OpenEndpoints, ChooseEndpoint, SubmitEndpoints, ShowInstall
<1>2. peps' = peps
  BY DEF OpenEndpoints, ChooseEndpoint, SubmitEndpoints, ShowInstall
<1>3. ASSUME NEW n \in Nodes, OpenEndpoints(n) PROVE ChoiceInv'
  <2>1. Send(calls, {Api("endpoints", n)}) /\ at' = <<"endpoints", n>> /\ view = "app"
    BY <1>3 DEF OpenEndpoints, Idle
  <2>2. PICK i : calls' = {As(Api("endpoints", n), i)}
    BY <1>0, <2>1, OneSent
  <2>3. \A d \in calls' : d.kind = "endpoints" /\ d.node = n /\ d.good /\ d.state = "sent"
    <3>1. token = base
      BY <2>1 DEF ChoiceInv, OwnToken
    <3> QED
      BY <2>2, <3>1, ApiNumbered
  <2>4. \E d \in calls' : calls' = {d}
    BY <2>2
  <2>5. OneEdit'
    BY <2>4 DEF OneEdit
  <2>6. LoadOwn' /\ SaveOwn' /\ FormOwn'
    BY <2>1, <2>3, <2>4 DEF LoadOwn, SaveOwn, FormOwn
  <2> QED
    BY <1>1, <2>5, <2>6 DEF ChoiceInv
<1>4. CASE ChooseEndpoint
  <2>1. calls' = {} /\ at' = at /\ at[1] = "endpoints"
    BY <1>0, <1>4 DEF ChooseEndpoint
  <2>2. PICK m, v : v \in {at[2], None} /\ form' = [form EXCEPT ![m] = v]
    BY <1>4 DEF ChooseEndpoint
  <2>3. FormOwn'
    <3> SUFFICES ASSUME NEW n \in Nodes, at = <<"endpoints", n>>, NEW x \in Nodes,
                        peps[n][x] = n
                 PROVE  form'[x] \in {n, None}
      BY <1>2, <2>1 DEF FormOwn
    <3>1. form[x] \in {n, None}
      BY <1>0 DEF ChoiceInv, FormOwn
    <3> QED
      BY <2>2, <3>1 DEF ConsoleTypeOK
  <2> QED
    BY <1>1, <2>1, <2>3 DEF ChoiceInv, OneEdit, LoadOwn, SaveOwn
<1>5. CASE SubmitEndpoints
  <2> DEFINE fields == Listed \ {at[2]}
             x == [Api("saveEndpoints", at[2]) EXCEPT !.choices =
                     [m \in Nodes |-> IF m \in fields THEN form[m] ELSE None]]
  <2>1. Send(calls, {x}) /\ at' = at /\ form' = form /\ at[1] = "endpoints"
    BY <1>5 DEF SubmitEndpoints
  <2>2. PICK i : calls' = {As(x, i)}
    BY <1>0, <2>1, OneSent
  <2>3. /\ As(x, i).kind = "saveEndpoints" /\ As(x, i).node = at[2]
        /\ As(x, i).choices = [m \in Nodes |-> IF m \in fields THEN form[m] ELSE None]
    BY DEF As, Api, To
  <2>4. at = <<"endpoints", at[2]>>
    BY <2>1 DEF ConsoleTypeOK, Closed, Modals
  <2> HIDE DEF x
  <2>5. \A d \in calls' : /\ d.kind = "saveEndpoints" /\ at = <<"endpoints", d.node>>
                          /\ \A m \in Nodes : d.choices[m] \in {None, form[m]}
    BY <2>2, <2>3, <2>4
  <2>6. FormOwn'
    BY <1>0, <1>2, <2>1 DEF ChoiceInv, FormOwn
  <2> QED
    BY <1>1, <2>1, <2>2, <2>5, <2>6 DEF ChoiceInv, OneEdit, LoadOwn, SaveOwn
<1>6. ASSUME NEW n \in Nodes, ShowInstall(n) PROVE ChoiceInv'
  <2>1. Send(calls, {Api("install", n)}) /\ at' = at /\ form' = form
    BY <1>6 DEF ShowInstall
  <2>2. PICK i : calls' = {As(Api("install", n), i)}
    BY <1>0, <2>1, OneSent
  <2>3. \A d \in calls' : d.kind = "install"
    BY <2>2, ApiNumbered
  <2>4. FormOwn'
    BY <1>0, <1>2, <2>1 DEF ChoiceInv, FormOwn
  <2> QED
    BY <1>1, <2>2, <2>3, <2>4 DEF ChoiceInv, OneEdit, LoadOwn, SaveOwn
<1> QED
  BY <1>3, <1>4, <1>5, <1>6

\* What becomes of the call that is served.
LEMMA SettleEdits ==
  ASSUME ConsoleTypeOK, NEW c \in calls, Settle(c)
  PROVE  \E d : /\ calls' = (calls \ {c}) \cup {d}
                /\ d.kind = c.kind /\ d.node = c.node
                /\ c.kind = "saveEndpoints" => d.choices = c.choices
<1>1. \E d : Same(d, c) /\ calls' = (calls \ {c}) \cup {d}
  BY SettleChanges
<1>2. c \in Call
  BY DEF ConsoleTypeOK
<1> DEFINE Kept(d) == /\ d.kind = c.kind /\ d.node = c.node
                      /\ c.kind = "saveEndpoints" => d.choices = c.choices
           Edited == \E d : calls' = (calls \ {c}) \cup {d} /\ Kept(d)
<1>3. /\ Kept([c EXCEPT !.state = "ok"])
      /\ Kept([c EXCEPT !.state = "failed"])
      /\ Kept([c EXCEPT !.state = "counted"])
      /\ Kept([c EXCEPT !.state = "ok", !.list = store])
      /\ c.kind = "endpoints" => Kept([c EXCEPT !.state = "ok", !.choices = peps[c.node]])
  BY <1>2 DEF Call
<1> HIDE DEF Kept
<1>4. Answer(c) \/ Refuse(c) \/ Become(c, [c EXCEPT !.state = "counted"])
      \/ Become(c, [c EXCEPT !.state = "ok", !.list = store]) => Edited
  BY <1>3, Zenon DEF Answer, Refuse, Become
<1>5. c.kind = "endpoints" /\ Become(c, [c EXCEPT !.state = "ok", !.choices = peps[c.node]])
        => Edited
  BY <1>3, Zenon DEF Become
<1> HIDE DEF Edited
<1>6. Edited
  BY <1>4, <1>5, Zenon
     DEF Settle, ServeAuth, ServeLists, ServeEndpoints, ServeNode, ServeRest, Fail
<1> QED
  BY <1>6, Zenon DEF Edited, Kept

\* A load that is served is answered, with the choices stored.
LEMMA LoadServed ==
  ASSUME ConsoleTypeOK, ChoiceInv, "patient" \in uses, NEW c \in calls, Settle(c),
         c.kind = "endpoints"
  PROVE  /\ peps' = peps
         /\ calls' = (calls \ {c}) \cup {[c EXCEPT !.state = "ok", !.choices = peps[c.node]]}
<1>1. c.good /\ c.state \in {"sent", "ok"}
  BY DEF ChoiceInv, LoadOwn
<1>2. "endpoints" \notin Hooks
  BY ConsoleAssumption DEF NodeKinds
<1>3. ServeLists(c)
  BY <1>1 DEF Settle, ServeAuth, ServeEndpoints, ServeNode, ServeRest, Fail
<1> QED
  BY <1>2, <1>3 DEF ServeLists, Become, server

\* Which service changes the choices stored.
LEMMA ChoicesServed ==
  ASSUME NEW c \in calls, Settle(c), c.kind \notin {"endpoints"}
  PROVE  \/ peps' = peps
         \/ c.kind = "saveEndpoints" /\ peps' = [peps EXCEPT ![c.node] = c.choices]
         \/ c.kind = "install" /\ peps' = [peps EXCEPT ![c.node] = NoChoice]
BY DEF Settle, ServeAuth, ServeLists, ServeEndpoints, ServeNode, ServeRest, Fail, server

LEMMA SettleKeeps ==
  ASSUME ConsoleTypeOK, ChoiceInv, "patient" \in uses, NEW c \in calls, Settle(c)
  PROVE  /\ ChoiceInv'
         /\ \A n, m \in Nodes : peps[n][m] = n => peps'[n][m] \in {n, None}
<1> USE DEF Editing
<1>0. /\ at' = at /\ form' = form /\ OwnToken'
      /\ c \in Call
      /\ c.kind \in NodeKinds => c.node \in Nodes
      /\ peps \in [Nodes -> [Nodes -> Nodes \cup {None}]]
  BY CallFields DEF Settle, page, storage, ChoiceInv, OwnToken, ConsoleTypeOK
<1>1. PICK d : /\ calls' = (calls \ {c}) \cup {d}
               /\ d.kind = c.kind /\ d.node = c.node
               /\ c.kind = "saveEndpoints" => d.choices = c.choices
  BY SettleEdits
<1>2. CASE c.kind \notin Editing
  <2>1. peps' = peps
    BY <1>2, ChoicesServed
  <2>2. ChoiceInv'
    BY <1>0, <1>1, <1>2, <2>1, ChoicesLeft
  <2> QED
    BY <2>1, <2>2
<1>3. CASE c.kind \in Editing
  \* It is the only call about choices.
  <2>1. \A e \in calls' : e.kind \in Editing => e = d
    BY <1>1, <1>3 DEF ChoiceInv, OneEdit
  <2>2. OneEdit'
    BY <2>1 DEF OneEdit
  <2>3. CASE c.kind = "endpoints"
    <3>1. /\ peps' = peps
          /\ calls' = (calls \ {c}) \cup {[c EXCEPT !.state = "ok", !.choices = peps[c.node]]}
      BY <2>3, LoadServed
    <3> DEFINE e == [c EXCEPT !.state = "ok", !.choices = peps[c.node]]
    <3>2. /\ e.kind = "endpoints" /\ e.node = c.node /\ e.good = c.good /\ e.state = "ok"
          /\ e.choices = peps[c.node]
      BY <1>0, <2>3 DEF Call
    <3>3. at = <<"endpoints", c.node>> /\ c.good
      BY <2>3 DEF ChoiceInv, LoadOwn
    <3>4. e \in calls' /\ \A x \in calls' : x.kind \in Editing => x = e
      <4>1. e \in calls'
        BY <3>1
      <4> HIDE DEF e
      <4> QED
        BY <2>1, <3>2, <4>1
    <3> HIDE DEF e
    <3>5. LoadOwn'
      <4> SUFFICES ASSUME NEW x \in calls', x.kind = "endpoints"
                   PROVE  /\ at = <<"endpoints", x.node>> /\ x.good
                          /\ x.state \in {"sent", "ok"}
                          /\ \A m \in Nodes : peps[x.node][m] = x.node => x.choices[m] = x.node
        BY <1>0, <3>1 DEF LoadOwn
      <4>1. x = e
        BY <3>4
      <4> QED
        BY <3>2, <3>3, <4>1
    <3>6. SaveOwn'
      BY <3>2, <3>4 DEF SaveOwn
    <3>7. FormOwn'
      BY <3>2, <3>4 DEF FormOwn
    <3> QED
      BY <1>0, <2>2, <3>1, <3>5, <3>6, <3>7 DEF ChoiceInv
  <2>4. CASE c.kind \in {"saveEndpoints", "install"}
    <3>1. \A e \in calls' : e.kind # "endpoints"
      BY <1>1, <2>1, <2>4
    <3>2. \A e \in calls : e.kind # "endpoints"
      BY <1>3, <2>4 DEF ChoiceInv, OneEdit
    <3>3. c.node \in Nodes
      BY <1>0, <2>4 DEF NodeKinds
    <3>4. \A m \in Nodes : NoChoice[m] = None
      BY DEF NoChoice
    <3>5. ASSUME c.kind = "saveEndpoints"
          PROVE  /\ at = <<"endpoints", c.node>>
                 /\ \A m \in Nodes : /\ c.choices[m] \in {None, form[m]}
                                     /\ peps[c.node][m] = c.node => form[m] \in {c.node, None}
      <4>1. /\ at = <<"endpoints", c.node>>
            /\ \A m \in Nodes : c.choices[m] \in {None, form[m]}
        BY <3>5 DEF ChoiceInv, SaveOwn
      <4>2. \A m \in Nodes : peps[c.node][m] = c.node => form[m] \in {c.node, None}
        BY <3>2, <3>3, <4>1 DEF ChoiceInv, FormOwn
      <4> QED
        BY <4>1, <4>2
    \* What is stored for a node is left, cleared, or the form's.
    <3>6. ASSUME NEW n \in Nodes, NEW m \in Nodes
          PROVE  \/ peps'[n][m] = peps[n][m]
                 \/ n = c.node /\ peps'[n][m] = None
                 \/ n = c.node /\ c.kind = "saveEndpoints" /\ peps'[n][m] = c.choices[m]
      <4>1. CASE peps' = peps
        BY <4>1
      <4>2. CASE peps' = [peps EXCEPT ![c.node] = c.choices] /\ c.kind = "saveEndpoints"
        BY <1>0, <4>2
      <4>3. CASE peps' = [peps EXCEPT ![c.node] = NoChoice]
        BY <1>0, <3>4, <4>3
      <4> QED
        BY <2>4, <4>1, <4>2, <4>3, ChoicesServed
    <3>7. SaveOwn'
      BY <1>0, <1>1, <2>1, <3>5 DEF SaveOwn
    <3>8. LoadOwn'
      BY <3>1 DEF LoadOwn
    <3>9. FormOwn'
      <4> SUFFICES ASSUME NEW n \in Nodes, at = <<"endpoints", n>>, NEW m \in Nodes,
                          peps'[n][m] = n
                   PROVE  form[m] \in {n, None}
        BY <1>0 DEF FormOwn
      <4>1. CASE peps'[n][m] = peps[n][m]
        BY <3>2, <4>1 DEF ChoiceInv, FormOwn
      <4>2. CASE peps'[n][m] = None
        BY <4>2, ConsoleAssumption
      <4>3. CASE n = c.node /\ c.kind = "saveEndpoints" /\ peps'[n][m] = c.choices[m]
        BY <3>5, <4>3, ConsoleAssumption
      <4> QED
        BY <3>6, <4>1, <4>2, <4>3
    <3>10. \A n, m \in Nodes : peps[n][m] = n => peps'[n][m] \in {n, None}
      BY <3>5, <3>6
    <3> QED
      BY <1>0, <2>2, <3>7, <3>8, <3>9, <3>10 DEF ChoiceInv
  <2> QED
    BY <1>3, <2>3, <2>4
<1> QED
  BY <1>2, <1>3

\* An answer is taken in, and calls are made that are about no choices.
LEMMA AnswerLeaves ==
  ASSUME ChoiceInv, NEW c \in calls, c.kind # "endpoints", NEW S, Adds(calls \ {c}, S),
         S \cap Editing = {}, peps' = peps, at' = at, form' = form, OwnToken'
  PROVE  ChoiceInv'
<1>1. \A d \in calls' : d.kind \in Editing => d \in calls
  BY DEF Adds
<1>2. \A e \in calls : e.kind = "endpoints" => e \in calls'
  BY DEF Adds
<1> QED
  BY <1>1, <1>2, ChoicesLeft

\* The page's own steps.
LEMMA PageKeeps ==
  ASSUME ChoiceInv, Rerender \/ \E k \in {"status", "tasks"} : Poll(k)
  PROVE  ChoiceInv'
<1> USE DEF server, storage, inner
<1>1. PICK S : Adds(calls, S) /\ S \cap Editing = {}
  <2>1. CASE Rerender
    <3>1. Adds(calls, Hooks)
      BY <2>1, ApiAdds DEF Rerender, Run
    <3>2. Hooks \cap Editing = {}
      BY ConsoleAssumption DEF Editing, NodeKinds
    <3> QED
      BY <3>1, <3>2
  <2>2. CASE \E k \in {"status", "tasks"} : Poll(k)
    <3>1. PICK k \in {"status", "tasks"} : Send(calls, {Api(k, at[2])})
      BY <2>2 DEF Poll
    <3>2. Adds(calls, {k}) /\ {k} \cap Editing = {}
      BY <3>1, OneAdds DEF Editing
    <3> QED
      BY <3>2
  <2> QED
    BY <2>1, <2>2
<1>2. peps' = peps /\ at' = at /\ form' = form /\ OwnToken'
  BY DEF ChoiceInv, OwnToken, Rerender, Poll
<1>3. /\ \A d \in calls' : d.kind \in Editing => d \in calls
      /\ \A e \in calls : e \in calls'
  BY <1>1 DEF Adds
<1> QED
  BY <1>2, <1>3, ChoicesLeft

\* The answers that are about no choices.
LEMMA AnswerKeeps ==
  ASSUME ChoiceInv, NEW c \in calls, UNCHANGED <<scene, server>>,
         \/ LoginDone(c) \/ RegisterDone(c) \/ HookDone(c)
         \/ HistoryDone(c) \/ DiagnoseDone(c)
         \/ StatusDone(c) \/ TasksDone(c) \/ CommandDone(c) \/ ReportDone(c) \/ VerifyDone(c)
         \/ GeoipLoaded(c) \/ GeoipSaved(c) \/ DiagLoaded(c) \/ DiagSaved(c)
         \/ InstallDone(c)
  PROVE  ChoiceInv'
<1> USE DEF storage, inner, page, panels
<1>1. peps' = peps
  BY DEF server
<1>2. OwnToken /\ (view' = view /\ base' = base /\ token' = token => OwnToken')
  BY DEF ChoiceInv, OwnToken
<1>3. /\ Hooks \cap Editing = {}
      /\ \A k \in {"report", "tasks"} : {k} \cap Editing = {}
      /\ "endpoints" \notin Hooks
  BY ConsoleAssumption DEF Editing, NodeKinds
<1>4. calls' = calls \ {c} => Adds(calls \ {c}, {})
  BY DEF Adds
<1>5. ASSUME c.kind # "endpoints", SignedIn(c) \/ NotSignedIn(c) PROVE ChoiceInv'
  <2>1. at' = at /\ form' = form
    BY <1>5 DEF SignedIn, NotSignedIn
  <2>2. CASE SignedIn(c)
    <3>1. OwnToken'
      BY <2>2 DEF SignedIn, OwnToken
    <3>2. CASE view = "app"
      BY <1>1, <1>4, <1>5, <2>1, <2>2, <3>1, <3>2, AnswerLeaves DEF SignedIn
    <3>3. CASE view # "app"
      <4> DEFINE K == {To(h, None, base', token') : h \in Hooks}
      <4>1. Send(calls \ {c}, K)
        BY <2>2, <3>3 DEF SignedIn, HookCalls
      <4>2. \A h, i : As(To(h, None, base', token'), i).kind = h
        BY DEF As, To
      <4>3. /\ calls \ {c} \subseteq calls'
            /\ \A d \in calls' \ (calls \ {c}) : \E x \in K : \E i : d = As(x, i)
        BY <4>1, SentDrafts
      <4>4. Adds(calls \ {c}, Hooks)
        BY <4>2, <4>3 DEF Adds
      <4> QED
        BY <1>1, <1>3, <1>5, <2>1, <3>1, <4>4, AnswerLeaves
    <3> QED
      BY <3>2, <3>3
  <2>3. CASE NotSignedIn(c)
    BY <1>1, <1>2, <1>4, <1>5, <2>1, <2>3, AnswerLeaves DEF NotSignedIn
  <2> QED
    BY <1>5, <2>2, <2>3
<1>6. CASE LoginDone(c) \/ RegisterDone(c)
  BY <1>5, <1>6 DEF LoginDone, RegisterDone
<1>7. ASSUME c.kind # "endpoints", UNCHANGED <<storage, view, at, form>>,
             NEW S, Adds(calls \ {c}, S), S \cap Editing = {}
      PROVE  ChoiceInv'
  BY <1>1, <1>2, <1>7, AnswerLeaves
<1>8. CASE HookDone(c) \/ GeoipLoaded(c) \/ DiagLoaded(c) \/ InstallDone(c)
  <2>1. /\ c.kind # "endpoints" /\ UNCHANGED <<storage, view, at, form>>
        /\ calls' = calls \ {c}
    BY <1>3, <1>8 DEF HookDone, GeoipLoaded, DiagLoaded, InstallDone
  <2> QED
    BY <1>4, <1>7, <2>1
<1>9. CASE HistoryDone(c) \/ DiagnoseDone(c) \/ StatusDone(c) \/ TasksDone(c) \/ ReportDone(c)
  <2>1. /\ c.kind # "endpoints" /\ UNCHANGED <<storage, view, at, form>>
        /\ calls' = calls \ {c}
    BY <1>9 DEF HistoryDone, DiagnoseDone, StatusDone, TasksDone, ReportDone, Shown
  <2> QED
    BY <1>4, <1>7, <2>1
<1>10. CASE CommandDone(c)
  <2>1. /\ c.kind # "endpoints" /\ UNCHANGED <<storage, view, at, form>>
        /\ Send(calls \ {c}, {Api("report", c.node)})
    BY <1>10 DEF CommandDone
  <2>2. Adds(calls \ {c}, {"report"})
    BY <2>1, OneAdds
  <2> QED
    BY <1>3, <1>7, <2>1, <2>2
<1>11. CASE VerifyDone(c)
  <2> DEFINE X == {y \in {1} : c.state = "ok"}
             K == {Api("tasks", c.node) : x \in X}
  <2>1. /\ c.kind # "endpoints" /\ UNCHANGED <<storage, view, at, form>>
        /\ Send(calls \ {c}, K)
    BY <1>11 DEF VerifyDone
  <2>2. /\ calls \ {c} \subseteq calls'
        /\ \A d \in calls' \ (calls \ {c}) : \E x \in K : \E i : d = As(x, i)
    BY <2>1, SentDrafts
  <2>3. \A x \in K : x = Api("tasks", c.node)
    OBVIOUS
  <2> HIDE DEF K
  <2>4. Adds(calls \ {c}, {"tasks"})
    BY <2>2, <2>3, ApiNumbered DEF Adds
  <2> QED
    BY <1>3, <1>7, <2>1, <2>4
<1>12. ASSUME c.kind # "endpoints", NEW S, SavedSettings(c, S) PROVE ChoiceInv'
  <2>1. UNCHANGED <<storage, view, at, form>>
    BY <1>12 DEF SavedSettings
  <2>2. CASE c.state = "ok"
    <3>1. Adds(calls \ {c}, Hooks)
      BY <1>12, <2>2, ApiAdds DEF SavedSettings
    <3> QED
      BY <1>3, <1>7, <1>12, <2>1, <3>1
  <2>3. CASE c.state # "ok"
    BY <1>4, <1>7, <1>12, <2>1, <2>3 DEF SavedSettings
  <2> QED
    BY <2>2, <2>3
<1>13. CASE GeoipSaved(c) \/ DiagSaved(c)
  BY <1>12, <1>13 DEF GeoipSaved, DiagSaved
<1> QED
  BY <1>6, <1>8, <1>9, <1>10, <1>11, <1>13

\* The answers about choices, and the one that closes a panel.
LEMMA ContinueKeeps ==
  ASSUME ConsoleTypeOK, ChoiceInv, NEW c \in calls, Continue(c)
  PROVE  ChoiceInv' /\ peps' = peps
<1> USE DEF storage, inner
<1>1. UNCHANGED <<scene, server>> /\ peps' = peps
  BY DEF Continue, server
<1>2. view' = view /\ base' = base /\ token' = token => OwnToken'
  BY DEF ChoiceInv, OwnToken
<1>3. CASE EndpointsLoaded(c)
  <2>1. /\ calls' = calls \ {c} /\ at' = at /\ OwnToken'
        /\ form' = [m \in Nodes |->
                      IF c.state = "ok" /\ c.choices[m] # None THEN c.choices[m] ELSE form[m]]
    BY <1>2, <1>3 DEF EndpointsLoaded
  <2>2. /\ c.kind = "endpoints" /\ c.state = "ok"
        /\ \A m \in Nodes : peps[c.node][m] = c.node => c.choices[m] = c.node
        /\ at = <<"endpoints", c.node>>
    BY <1>3 DEF ChoiceInv, LoadOwn, EndpointsLoaded, Continue
  <2>3. \A d \in calls' : d.kind \notin Editing
    BY <2>1, <2>2 DEF ChoiceInv, OneEdit, Editing
  <2>4. OneEdit' /\ LoadOwn' /\ SaveOwn'
    BY <2>3 DEF OneEdit, LoadOwn, SaveOwn, Editing
  <2>5. FormOwn'
    <3> SUFFICES ASSUME NEW n \in Nodes, at = <<"endpoints", n>>, NEW m \in Nodes,
                        peps[n][m] = n
                 PROVE  form'[m] \in {n, None}
      BY <1>1, <2>1 DEF FormOwn
    <3>1. c.choices[m] = n /\ n # None
      BY <2>2, ConsoleAssumption
    <3> QED
      BY <2>1, <2>2, <3>1
  <2> QED
    BY <1>1, <2>1, <2>4, <2>5 DEF ChoiceInv
<1>4. CASE EndpointsSaved(c)
  <2>1. /\ calls' = calls \ {c} /\ form' = form /\ OwnToken'
        /\ at' = Closed \/ at' = at
    BY <1>2, <1>4 DEF EndpointsSaved
  <2>2. \A d \in calls : d.kind \in Editing => d = c
    BY <1>4 DEF ChoiceInv, OneEdit, Editing, EndpointsSaved
  <2>3. c.kind = "saveEndpoints"
    BY <1>4 DEF EndpointsSaved
  <2>4. /\ \A d \in calls' : d.kind \notin Editing
        /\ \A d \in calls : d.kind # "endpoints"
    BY <2>1, <2>2, <2>3 DEF Editing
  <2>5. Closed[1] # "endpoints"
    BY DEF Closed
  <2> QED
    BY <1>1, <2>1, <2>4, <2>5, ChoicesLeft DEF Editing
<1>5. CASE NodeDone(c)
  <2>1. c.kind = "newnode" /\ form' = form /\ OwnToken'
    BY <1>2, <1>5 DEF NodeDone
  <2>2. Adds(calls \ {c}, {"nodes"})
    <3>1. CASE c.state = "ok"
      BY <1>5, <3>1, OneAdds DEF NodeDone
    <3>2. CASE c.state # "ok"
      BY <1>5, <3>2 DEF NodeDone, Adds
    <3> QED
      BY <3>1, <3>2
  <2>3. {"nodes"} \cap Editing = {}
    BY ConsoleAssumption DEF Editing, NodeKinds
  <2>4. CASE at' = at
    BY <1>1, <2>1, <2>2, <2>3, <2>4, AnswerLeaves
  \* A drawer that is open for endpoints is not closed.
  <2>5. CASE at[1] = "newnode" /\ at' = Closed
    <3>1. \A d \in calls : d.kind \notin {"endpoints", "saveEndpoints"}
      BY <2>5 DEF ChoiceInv, LoadOwn, SaveOwn
    <3>2. \A d \in calls' : d.kind \in Editing => d \in calls
      BY <2>2, <2>3 DEF Adds
    <3>3. at'[1] # "endpoints"
      BY <2>5 DEF Closed
    <3> QED
      BY <1>1, <2>1, <3>1, <3>2, <3>3, ChoicesLeft DEF Editing
  <2> QED
    BY <1>5, <2>4, <2>5 DEF NodeDone
<1> QED
  BY <1>1, <1>3, <1>4, <1>5, AnswerKeeps, Zenon DEF Continue

\* A user who waits for each answer leaves the two fields of the page's head
\* alone: with another token there, loads are refused, which is a failed call.
FieldsLeft == \A s \in Scenarios : "patient" \in s.uses => "inputs" \notin s.uses

PatientInv == "patient" \in uses => "inputs" \notin uses /\ ChoiceInv

LEMMA InitPatient == FieldsLeft => (Init => PatientInv)
<1> SUFFICES ASSUME FieldsLeft, Init, "patient" \in uses
             PROVE  "inputs" \notin uses /\ ChoiceInv
  BY DEF PatientInv
<1>1. scene \in Scenarios /\ base \in Bases /\ adminSet \in BOOLEAN
  BY InitTypes DEF ConsoleTypeOK
<1>2. "inputs" \notin uses
  BY <1>1 DEF FieldsLeft, uses
<1> DEFINE loading == IF InitialView(token, adminSet) = "app" THEN Hooks ELSE {}
           K == {To(h, None, base, token) : h \in loading}
<1>3. view = InitialView(token, adminSet) /\ Sends({}, K, calls)
  BY <1>1, FreshCalls DEF Init
<1>4. OwnToken
  BY <1>3 DEF Init, OwnToken, InitialView
<1>5. \A d \in calls : \E h \in Hooks : \E i : d = As(To(h, None, base, token), i)
  BY <1>3 DEF Sends
<1>6. \A h, i : As(To(h, None, base, token), i).kind = h
  BY DEF As, To
<1>7. Hooks \cap Editing = {}
  BY ConsoleAssumption DEF Editing, NodeKinds
<1>8. \A d \in calls : d.kind \notin Editing
  BY <1>5, <1>6, <1>7
<1>9. \A n : at # <<"endpoints", n>>
  BY DEF Init, Closed
<1> QED
  BY <1>2, <1>4, <1>8, <1>9 DEF ChoiceInv, OneEdit, LoadOwn, SaveOwn, FormOwn, Editing

LEMMA UsesStay == [Next]_vars => uses' = uses
BY StorageChanges DEF vars, uses

\* Each step keeps the invariant, and what the property says of it.
LEMMA NextPatient ==
  ConsoleTypeOK /\ PatientInv /\ [Next]_vars =>
    /\ PatientInv'
    /\ \A n, m \in Nodes : "patient" \in uses /\ peps[n][m] = n => peps'[n][m] \in {n, None}
<1> SUFFICES ASSUME ConsoleTypeOK, PatientInv, [Next]_vars, "patient" \in uses
             PROVE  /\ uses' = uses /\ ChoiceInv'
                    /\ \A n, m \in Nodes : peps[n][m] = n => peps'[n][m] \in {n, None}
  BY UsesStay DEF PatientInv
<1>1. uses' = uses
  BY UsesStay
<1>2. "inputs" \notin uses /\ ChoiceInv
  BY DEF PatientInv
<1>3. ASSUME peps' = peps PROVE \A n, m \in Nodes : peps[n][m] = n => peps'[n][m] \in {n, None}
  BY <1>3
<1>4. CASE UserStep
  <2>1. peps' = peps
    BY <1>4, Zenon
       DEF UserStep, SwitchForm, SubmitLogin, SubmitRegister, SubmitForm, EditStorage, Logout,
           Refresh, OpenHistory, OpenDiagnose, OpenEndpoints, OpenPolicy, Open, Close, LoadDiag,
           RunVerify, ChooseEndpoint, SubmitEndpoints, OpenNode, SubmitNode, OpenSettings,
           LoadGeoip, SaveGeoip, SaveDiag, ShowInstall, CloseInstall, server
  <2>2. ChoiceInv'
    BY <1>2, <1>4, UserKeeps, EditorKeeps, Zenon DEF UserStep
  <2> QED
    BY <1>1, <1>3, <2>1, <2>2
<1>5. CASE Rerender \/ \E k \in {"status", "tasks"} : Poll(k)
  <2>1. peps' = peps
    BY <1>5, Zenon DEF Rerender, Poll, server
  <2> QED
    BY <1>1, <1>2, <1>3, <1>5, <2>1, PageKeeps
<1>6. ASSUME NEW c \in calls, Settle(c)
      PROVE  /\ ChoiceInv'
             /\ \A n, m \in Nodes : peps[n][m] = n => peps'[n][m] \in {n, None}
  BY <1>2, <1>6, SettleKeeps
<1>7. ASSUME NEW c \in calls, Continue(c)
      PROVE  ChoiceInv' /\ peps' = peps
  BY <1>2, <1>7, ContinueKeeps
<1>8. CASE UNCHANGED vars
  <2>1. peps' = peps
    BY <1>8 DEF vars, server
  <2>2. ChoiceInv'
    BY <1>2, <1>8
       DEF vars, page, storage, server, ChoiceInv, OwnToken, OneEdit, LoadOwn, SaveOwn, FormOwn
  <2> QED
    BY <1>1, <1>3, <2>1, <2>2
<1>9. CASE Next
  BY <1>1, <1>3, <1>4, <1>5, <1>6, <1>7, <1>9 DEF Next, Numbered
<1> QED
  BY <1>8, <1>9

\* The endpoint form (EndpointDrawer) keeps what it held for the nodes it was
\* opened for before, and saves it for the node it is open for now: where a user
\* waits for each answer and no call fails, what the node's own drawer chose is
\* loaded over it first, and so is saved again or taken back, and never replaced.
THEOREM OwnChoicesKept == FieldsLeft => (Spec => OwnChoiceKept)
<1>1. FieldsLeft /\ Init => PatientInv
  BY InitPatient
<1>2. ConsoleTypeOK /\ PatientInv /\ [Next]_vars => PatientInv'
  BY NextPatient
<1>3. ConsoleTypeOK /\ PatientInv /\ [Next]_vars =>
        [\A n, m \in Nodes : "patient" \in uses /\ peps[n][m] = n => peps'[n][m] \in {n, None}]_vars
  BY NextPatient
<1> QED
  BY <1>1, <1>2, <1>3, ConsoleTypeCorrect, PTL DEF Spec, OwnChoiceKept
=============================================================================
