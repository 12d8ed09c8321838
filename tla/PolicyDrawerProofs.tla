-------------------------- MODULE PolicyDrawerProofs --------------------------
(***************************************************************************)
(* Proofs about the policy drawer, for any nodes, drawers, paths and       *)
(* bounds: types, whose policy a save stores, and what becomes of rules    *)
(* and paths.                                                              *)
(***************************************************************************)
EXTENDS PolicyDrawer, FiniteSetTheorems, TLAPS

\* Deleting an element of a sequence leaves a sequence of the same kind
\* (removeRule).
LEMMA RemoveAtInSeq ==
  ASSUME NEW T, NEW s \in Seq(T), NEW i \in DOMAIN s
  PROVE  RemoveAt(s, i) \in Seq(T)
<1>1. i \in 1..Len(s) /\ Len(s) \in Nat
  OBVIOUS
<1>2. SubSeq(s, 1, i - 1) \in Seq(T) /\ SubSeq(s, i + 1, Len(s)) \in Seq(T)
  BY <1>1
<1> QED
  BY <1>2 DEF RemoveAt

\* Deleting an element of a sequence leaves elements it had (removeRule).
LEMMA RemoveAtElements ==
  ASSUME NEW S, NEW s \in Seq(S), NEW i \in DOMAIN s
  PROVE  \A j \in DOMAIN RemoveAt(s, i) : \E k \in DOMAIN s : RemoveAt(s, i)[j] = s[k]
<1> DEFINE T == {s[k] : k \in DOMAIN s}
<1>1. s \in Seq(T)
  OBVIOUS
<1>2. RemoveAt(s, i) \in Seq(T)
  BY <1>1, RemoveAtInSeq
<1>3. \A j \in DOMAIN RemoveAt(s, i) : RemoveAt(s, i)[j] \in T
  BY <1>2
<1> QED
  BY <1>3

\* The last node of a path is one of its nodes (addRule).
LEMMA LastIsMember ==
  ASSUME NEW S, NEW s \in Seq(S), s # <<>>
  PROVE  Last(s) \in S
  BY DEF Last

-----------------------------------------------------------------------------
(* Types. *)

\* A call that is sent is a call, and the only one with its number (api).
LEMMA AskTyped ==
  ASSUME DrawerTypeOK, NEW kind \in Kinds, NEW n \in Nodes, NEW p \in Policy,
         Ask(kind, n, p)
  PROVE  /\ made' \in [Acts -> Nat]
         /\ calls' \subseteq Call
         /\ \A c, d \in calls' : c.id = d.id /\ c.kind = d.kind => c = d
         /\ \A c \in calls' : c.id <= made'[c.kind]
<1> USE DEF DrawerTypeOK
<1> DEFINE new == [id |-> made[kind] + 1, kind |-> kind, node |-> n,
                   policy |-> p, state |-> "sent"]
<1>1. calls' = calls \cup {new} /\ made' = [made EXCEPT ![kind] = @ + 1]
  BY DEF Ask
<1>2. kind \in Acts /\ made[kind] \in Nat
  BY DEF Acts
<1>3. new \in Call
  BY <1>2 DEF Call
<1>4. made' \in [Acts -> Nat] /\ made'[kind] = made[kind] + 1
  BY <1>1, <1>2
<1>5. \A c \in calls : c.kind \in Acts /\ c.id \in Nat /\ c.id <= made[c.kind]
  BY DEF Call, Acts
<1>6. \A c \in calls : c.id # new.id \/ c.kind # new.kind
  BY <1>2, <1>5
<1>7. \A c \in calls : c.id <= made'[c.kind]
  BY <1>1, <1>2, <1>5
<1>8. new.id <= made'[new.kind]
  <2>1. new.id = made[kind] + 1 /\ new.kind = kind
    OBVIOUS
  <2> HIDE DEF new
  <2> QED
    BY <1>2, <1>4, <2>1
<1> QED
  BY <1>1, <1>3, <1>4, <1>6, <1>7, <1>8

\* A call that is served stays the call with its number (policy.go).
LEMMA BecomeTyped ==
  ASSUME DrawerTypeOK, NEW c \in calls, NEW p \in Policy,
         NEW state \in {"sent", "answered", "failed"}, Become(c, state, p)
  PROVE  /\ calls' \subseteq Call
         /\ \A b, d \in calls' : b.id = d.id /\ b.kind = d.kind => b = d
         /\ \A d \in calls' : d.id <= made[d.kind]
<1> USE DEF DrawerTypeOK
<1> DEFINE new == [c EXCEPT !.state = state, !.policy = p]
<1>1. calls' = (calls \ {c}) \cup {new}
  BY DEF Become
<1>2. c \in Call
  OBVIOUS
<1>3. new \in Call /\ new.id = c.id /\ new.kind = c.kind
  BY <1>2 DEF Call
<1> HIDE DEF new
<1> QED
  BY <1>1, <1>3

\* What a rule is normalised to is a rule, with the same destination, path and
\* home (policy.go).
LEMMA NormalTyped ==
  ASSUME NEW r \in DrawerRule
  PROVE  Normal(r) \in DrawerRule /\ Normal(r).home = r.home
<1>1. CASE r.via = None /\ r.path # <<>>
  <2>1. r.path[Len(r.path)] \in Nodes
    <3>1. r.path \in Seq(Nodes)
      BY DEF DrawerRule
    <3> QED
      BY <3>1, <1>1
  <2> QED
    BY <1>1, <2>1 DEF Normal, DrawerRule
<1>2. CASE ~(r.via = None /\ r.path # <<>>)
  BY <1>2 DEF Normal
<1> QED
  BY <1>1, <1>2

\* A list of rules is normalised rule by rule (policy.go).
LEMMA NormalsTyped ==
  ASSUME NEW q \in Seq(DrawerRule)
  PROVE  /\ [i \in DOMAIN q |-> Normal(q[i])] \in Seq(DrawerRule)
         /\ DOMAIN [i \in DOMAIN q |-> Normal(q[i])] = DOMAIN q
<1>1. DOMAIN q = 1..Len(q) /\ Len(q) \in Nat
  OBVIOUS
<1>2. [i \in 1..Len(q) |-> Normal(q[i])] \in [1..Len(q) -> DrawerRule]
  BY NormalTyped
<1>3. [1..Len(q) -> DrawerRule] \subseteq Seq(DrawerRule)
  BY <1>1
<1> QED
  BY <1>1, <1>2, <1>3

\* What the drawer makes of a rule's fields is a rule of its node (addRule).
LEMMA NewRuleTyped ==
  ASSUME DrawerTypeOK, node # None, NEW d \in Dests \cup {None}, NEW via \in Vias
  PROVE  NewRule(d, via) \in DrawerRule /\ NewRule(d, via).home = node
<1> USE DEF DrawerTypeOK
<1>1. currentPath # <<>> => Last(currentPath) \in Nodes
  BY LastIsMember
<1>2. via \in Nodes \cup {Local, None}
  BY DrawerAssumption
<1> QED
  BY <1>1, <1>2 DEF NewRule, DrawerRule

\* The type invariant of the drawer and its calls holds throughout, for any
\* nodes and bounds (PolicyDrawer.jsx, policy.go).
THEOREM DrawerTypeCorrect == Spec => []DrawerTypeOK
<1>1. Init => DrawerTypeOK
  <2> SUFFICES ASSUME Init PROVE DrawerTypeOK
    OBVIOUS
  <2>1. \A n \in Nodes, d \in Dests :
          [settings |-> n, rules |-> <<LocalRule(n, d)>>] \in Policy
    BY DEF LocalRule, Policy, DrawerRule
  <2>2. NoPolicy \in Policy
    BY DEF NoPolicy, Policy
  <2>3. stored \in [Nodes -> Policy]
    BY <2>1, <2>2 DEF Init
  <2>4. /\ calls = {} /\ made = [k \in Acts |-> 0] /\ node = None /\ settings = None
        /\ rules = <<>> /\ currentPath = <<>> /\ pathModal = FALSE /\ path = <<>>
        /\ slips = {}
    BY DEF Init
  <2>5. rules \in Seq(DrawerRule) /\ currentPath \in Seq(Nodes) /\ path \in Seq(Nodes)
    BY <2>4
  <2> QED
    BY <2>3, <2>4, <2>5 DEF DrawerTypeOK
<1>2. ASSUME DrawerTypeOK, [Next]_vars
      PROVE  DrawerTypeOK'
  <2> USE <1>2 DEF DrawerTypeOK, shown, selector
  <2>1. ASSUME NEW n \in Opened, Open(n)
        PROVE  DrawerTypeOK'
    <3>1. n \in Nodes /\ NoPolicy \in Policy /\ "load" \in Kinds
      BY DrawerAssumption DEF NoPolicy, Policy, Kinds
    <3>2. Ask("load", n, NoPolicy)
      BY <2>1 DEF Open
    <3>3. /\ made' \in [Acts -> Nat]
          /\ calls' \subseteq Call
          /\ \A c, d \in calls' : c.id = d.id /\ c.kind = d.kind => c = d
          /\ \A c \in calls' : c.id <= made'[c.kind]
      BY <3>1, <3>2, AskTyped
    <3> QED
      BY <2>1, <3>1, <3>3 DEF Open
  <2>2. CASE Close
    BY <2>2 DEF Close
  <2>3. CASE EditSettings
    BY <2>3 DEF EditSettings, InFront
  <2>4. CASE AddRule
    <3>1. PICK d \in Dests \cup {None}, via \in Vias : rules' = Append(rules, NewRule(d, via))
      BY <2>4 DEF AddRule
    <3>2. node # None
      BY <2>4 DEF AddRule, InFront
    <3>3. rules' \in Seq(DrawerRule)
      <4>1. NewRule(d, via) \in DrawerRule
        BY <3>2, NewRuleTyped
      <4> QED
        BY <3>1, <4>1
    <3>4. /\ made' \in [Acts -> Nat]
          /\ \A c \in calls : c.id <= made'[c.kind]
      <4>1. "rule" \in Acts /\ made' = [made EXCEPT !["rule"] = @ + 1]
        BY <2>4 DEF AddRule, Acts
      <4>2. \A c \in calls : c.kind \in Acts /\ c.id \in Nat /\ c.kind # "rule"
        BY DEF Call, Acts, Kinds
      <4> QED
        BY <4>1, <4>2
    <3> QED
      BY <2>4, <3>3, <3>4 DEF AddRule
  <2>5. CASE DeleteRule
    <3>1. rules' \in Seq(DrawerRule)
      BY <2>5, RemoveAtInSeq DEF DeleteRule
    <3> QED
      BY <2>5, <3>1 DEF DeleteRule
  <2>6. CASE OpenSelector
    <3>1. /\ made' \in [Acts -> Nat]
          /\ \A c \in calls : c.id <= made'[c.kind]
      <4>1. "path" \in Acts /\ made' = [made EXCEPT !["path"] = @ + 1]
        BY <2>6 DEF OpenSelector, Acts
      <4>2. \A c \in calls : c.kind \in Acts /\ c.id \in Nat /\ c.kind # "path"
        BY DEF Call, Acts, Kinds
      <4> QED
        BY <4>1, <4>2
    <3> QED
      BY <2>6, <3>1 DEF OpenSelector
  <2>7. CASE PickNode
    <3>1. path' \in Seq(Nodes)
      BY <2>7 DEF PickNode
    <3> QED
      BY <2>7, <3>1 DEF PickNode
  <2>8. CASE FinishPath
    <3>1. path' = <<>> /\ currentPath' \in {path, currentPath}
      BY <2>8 DEF FinishPath
    <3>2. pathModal' = FALSE
      BY <2>8, Zenon DEF FinishPath
    <3>3. path' \in Seq(Nodes) /\ currentPath' \in Seq(Nodes)
      BY <3>1
    <3>4. UNCHANGED <<stored, calls, made, node, settings, rules, slips>>
      BY <2>8 DEF FinishPath
    <3> QED
      BY <3>2, <3>3, <3>4
  <2>9. CASE CancelPath
    <3>1. path' = <<>> /\ currentPath' \in {path, currentPath}
      BY <2>9 DEF CancelPath
    <3>2. pathModal' = FALSE
      BY <2>9, Zenon DEF CancelPath
    <3>3. path' \in Seq(Nodes) /\ currentPath' \in Seq(Nodes)
      BY <3>1
    <3>4. UNCHANGED <<stored, calls, made, node, settings, rules, slips>>
      BY <2>9 DEF CancelPath
    <3> QED
      BY <3>2, <3>3, <3>4
  <2>10. CASE Submit
    <3> DEFINE p == [settings |-> settings, rules |-> rules]
    <3>1. node \in Nodes /\ p \in Policy /\ "submit" \in Kinds
      BY <2>10 DEF Submit, InFront, Policy, Kinds
    <3>2. Ask("submit", node, p)
      BY <2>10 DEF Submit
    <3> HIDE DEF p
    <3>3. /\ made' \in [Acts -> Nat]
          /\ calls' \subseteq Call
          /\ \A c, d \in calls' : c.id = d.id /\ c.kind = d.kind => c = d
          /\ \A c \in calls' : c.id <= made'[c.kind]
      BY <3>1, <3>2, AskTyped
    <3>4. slips' \subseteq Slips
      BY <2>10 DEF Submit, Slips
    <3> QED
      BY <2>10, <3>3, <3>4 DEF Submit
  <2>11. CASE ServeGet
    <3>1. PICK c \in calls : Become(c, "answered", stored[c.node])
      BY <2>11 DEF ServeGet
    <3>2. stored[c.node] \in Policy
      BY DEF Call
    <3>3. /\ calls' \subseteq Call
          /\ \A b, d \in calls' : b.id = d.id /\ b.kind = d.kind => b = d
          /\ \A d \in calls' : d.id <= made[d.kind]
      BY <3>1, <3>2, BecomeTyped
    <3> QED
      BY <2>11, <3>3 DEF ServeGet
  <2>12. CASE ServePost
    <3>1. PICK c \in calls :
            LET p == [c.policy EXCEPT !.rules = [i \in DOMAIN @ |-> Normal(@[i])]]
            IN IF Accepted(c.policy)
                 THEN Become(c, "answered", p) /\ stored' = [stored EXCEPT ![c.node] = p]
                 ELSE Become(c, "failed", c.policy) /\ UNCHANGED stored
      BY <2>12 DEF ServePost
    <3> DEFINE p == [c.policy EXCEPT !.rules = [i \in DOMAIN @ |-> Normal(@[i])]]
    <3>2. c.policy \in Policy /\ c.node \in Nodes
      BY DEF Call
    <3>3. p \in Policy
      <4> DEFINE q == c.policy
                 normal == [i \in DOMAIN q.rules |-> Normal(q.rules[i])]
      <4>1. normal \in Seq(DrawerRule)
        BY <3>2, NormalsTyped DEF Policy
      <4>2. p = [q EXCEPT !.rules = normal]
        OBVIOUS
      <4> HIDE DEF normal, q, p
      <4>3. q \in Policy
        BY <3>2 DEF q
      <4> QED
        BY <4>1, <4>2, <4>3 DEF Policy
    <3> HIDE DEF p
    <3>4. CASE Become(c, "answered", p) /\ stored' = [stored EXCEPT ![c.node] = p]
      BY <3>4, <3>2, <3>3, <2>12, BecomeTyped DEF ServePost
    <3>5. CASE Become(c, "failed", c.policy) /\ UNCHANGED stored
      BY <3>5, <3>2, <2>12, BecomeTyped DEF ServePost
    <3> QED
      BY <3>1, <3>4, <3>5 DEF p
  <2>13. CASE Lose
    <3>1. PICK c \in calls : Become(c, "failed", c.policy)
      BY <2>13 DEF Lose
    <3>2. c.policy \in Policy
      BY DEF Call
    <3>3. /\ calls' \subseteq Call
          /\ \A b, d \in calls' : b.id = d.id /\ b.kind = d.kind => b = d
          /\ \A d \in calls' : d.id <= made[d.kind]
      BY <3>1, <3>2, BecomeTyped
    <3> QED
      BY <2>13, <3>3 DEF Lose
  <2>14. CASE Continue
    <3>1. PICK c \in calls : /\ LoadDone(c) \/ LoadFailed(c) \/ SubmitDone(c)
                            /\ calls' = calls \ {c}
      BY <2>14 DEF Continue
    <3>2. c.policy.settings \in Nodes \cup {None} /\ c.policy.rules \in Seq(DrawerRule)
      BY DEF Call, Policy
    <3>3. SlipsOf(c) \subseteq Slips
      BY DEF SlipsOf, Slips
    <3>4. settings' \in Nodes \cup {None} /\ rules' \in Seq(DrawerRule) /\ slips' \subseteq Slips
      BY <3>1, <3>2, <3>3 DEF LoadDone, LoadFailed, SubmitDone
    <3> QED
      BY <2>14, <3>1, <3>4 DEF Continue
  <2>15. CASE UNCHANGED vars
    BY <2>15 DEF vars
  <2> QED
    BY <1>2, <2>1, <2>2, <2>3, <2>4, <2>5, <2>6, <2>7, <2>8, <2>9, <2>10, <2>11,
       <2>12, <2>13, <2>14, <2>15 DEF Next
<1> QED
  BY <1>1, <1>2, PTL DEF Spec

-----------------------------------------------------------------------------
(* Whose policy a save stores.                                             *)
(*                                                                         *)
(* OwnUnlessSlip is not inductive: a wrong save has its cause in what the  *)
(* drawer showed or in what a call carried.  OwnInv says of these that they*)
(* are the node's own too: every submission in flight, every answer, and,  *)
(* once no load of the node is in flight, what the drawer shows.           *)

Shown == [settings |-> settings, rules |-> rules]

OwnCalls ==
  \A c \in calls : c.kind = "submit" \/ c.state = "answered" => Own(c.node, c.policy)

OwnShown == node # None /\ ~Loading(node, calls) => Own(node, Shown)

OwnInv == slips = {} => OwnPolicies /\ OwnCalls /\ OwnShown

\* A call that is sent leaves the others and, if it is a load of the node
\* shown, one in flight (api).
LEMMA AskOwn ==
  ASSUME OwnCalls, NEW kind \in Kinds, NEW n, NEW p,
         Ask(kind, n, p), kind = "submit" => Own(n, p)
  PROVE  /\ OwnCalls'
         /\ \A m : Loading(m, calls) => Loading(m, calls')
         /\ kind = "load" => Loading(n, calls')
         /\ kind = "submit" => \A m : Loading(m, calls') => Loading(m, calls)
<1> DEFINE new == [id |-> made[kind] + 1, kind |-> kind, node |-> n,
                   policy |-> p, state |-> "sent"]
<1>1. calls' = calls \cup {new}
  BY DEF Ask
<1>2. new.kind = kind /\ new.node = n /\ new.policy = p /\ new.state = "sent"
  OBVIOUS
<1> HIDE DEF new
<1>3. OwnCalls'
  BY <1>1, <1>2 DEF OwnCalls, Own, OwnRule
<1> QED
  BY <1>1, <1>2, <1>3 DEF Loading

\* A call that is served stays a call of its kind and node (policy.go).
LEMMA BecomeOwn ==
  ASSUME DrawerTypeOK, OwnCalls, NEW c \in calls, NEW p, NEW state,
         Become(c, state, p),
         c.kind = "submit" \/ state = "answered" => Own(c.node, p)
  PROVE  OwnCalls' /\ \A m : Loading(m, calls') <=> Loading(m, calls)
<1> DEFINE new == [c EXCEPT !.state = state, !.policy = p]
<1>1. calls' = (calls \ {c}) \cup {new}
  BY DEF Become
<1>2. c \in Call
  BY DEF DrawerTypeOK
<1>3. new.kind = c.kind /\ new.node = c.node /\ new.policy = p /\ new.state = state
  BY <1>2 DEF Call
<1> HIDE DEF new
<1>4. OwnCalls'
  BY <1>1, <1>3 DEF OwnCalls, Own, OwnRule
<1> QED
  BY <1>1, <1>3, <1>4 DEF Loading

\* What is normalised is the same node's as before (policy.go).
LEMMA NormalOwn ==
  ASSUME NEW n \in Nodes, NEW q \in Policy, Own(n, q)
  PROVE  Own(n, [q EXCEPT !.rules = [i \in DOMAIN @ |-> Normal(@[i])]])
<1> DEFINE normal == [i \in DOMAIN q.rules |-> Normal(q.rules[i])]
<1>1. q.rules \in Seq(DrawerRule) /\ q.settings \in {n, None}
  BY DEF Policy, Own
<1>2. \A i \in DOMAIN q.rules : q.rules[i] \in DrawerRule /\ q.rules[i].home = n
  BY <1>1 DEF Own, OwnRule
<1>3. \A i \in DOMAIN normal : normal[i].home = n
  BY <1>2, NormalTyped
<1> HIDE DEF normal
<1>4. Own(n, [q EXCEPT !.rules = normal])
  BY <1>1, <1>3 DEF Own, OwnRule, Policy
<1> QED
  BY <1>4 DEF normal

\* An answer or a failure of a load that leaves no slip leaves the drawer with
\* its node's policy, or with another load of it in flight (load).
LEMMA LoadOwn ==
  ASSUME DrawerTypeOK, OwnCalls, OwnShown, NEW c \in calls, calls' = calls \ {c},
         LoadDone(c) \/ LoadFailed(c), slips' = {}, node' = node
  PROVE  OwnShown'
<1> SUFFICES ASSUME node # None, ~Loading(node, calls \ {c})
             PROVE  Own(node, Shown')
  BY DEF OwnShown, Own, OwnRule
<1>1. SlipsOf(c) = {} /\ c.kind = "load"
  BY DEF LoadDone, LoadFailed
<1>2. ~(c.state = "failed" /\ c.node = node) /\ ~(c.state = "answered" /\ c.node # node)
  BY <1>1 DEF SlipsOf
<1>3. CASE LoadDone(c)
  <2>1. c.state = "answered" /\ c.node = node
    BY <1>2, <1>3 DEF LoadDone
  <2>2. Own(node, c.policy)
    BY <2>1 DEF OwnCalls
  <2>3. settings' = c.policy.settings /\ rules' = c.policy.rules
    BY <1>3 DEF LoadDone
  <2> QED
    BY <2>2, <2>3 DEF Own, OwnRule, Shown
<1>4. CASE LoadFailed(c)
  <2>1. c.node # node
    BY <1>2, <1>4 DEF LoadFailed
  <2>2. ~Loading(node, calls)
    BY <2>1 DEF Loading
  <2>3. Own(node, Shown)
    BY <2>2 DEF OwnShown
  <2>4. settings' = settings /\ rules' = rules
    BY <1>4 DEF LoadFailed, shown
  <2> QED
    BY <2>3, <2>4 DEF Own, OwnRule, Shown
<1> QED
  BY <1>3, <1>4

\* Unless a load of the node shown failed, an answer came late or a submission
\* early, no node is stored with what was entered in another one's drawer, for
\* any nodes, paths and number of calls (PolicyDrawer.jsx).
THEOREM OwnWithoutSlips == Spec => []OwnUnlessSlip
<1>1. Init => OwnInv
  <2> SUFFICES ASSUME Init PROVE OwnPolicies /\ OwnCalls /\ OwnShown
    BY DEF OwnInv
  <2>1. ASSUME NEW n \in Nodes PROVE Own(n, stored[n])
    <3>1. \A d : Own(n, [settings |-> n, rules |-> <<LocalRule(n, d)>>])
      BY DEF Own, OwnRule, LocalRule
    <3>2. Own(n, NoPolicy)
      BY DEF Own, OwnRule, NoPolicy
    <3> QED
      BY <3>1, <3>2 DEF Init
  <2> QED
    BY <2>1 DEF Init, OwnPolicies, OwnCalls, OwnShown
<1>2. ASSUME DrawerTypeOK, OwnInv, [Next]_vars
      PROVE  OwnInv'
  <2> SUFFICES ASSUME slips' = {}
               PROVE  OwnPolicies' /\ OwnCalls' /\ OwnShown'
    BY DEF OwnInv
  <2>0. slips = {}
    BY <1>2 DEF Next, vars, Open, Close, EditSettings, AddRule, DeleteRule, OpenSelector,
       PickNode, FinishPath, CancelPath, Submit, ServeGet, ServePost, Lose, Continue,
       LoadDone, LoadFailed, SubmitDone
  <2> USE <1>2, <2>0 DEF shown, selector
  <2>own. OwnPolicies /\ OwnCalls /\ OwnShown
    BY DEF OwnInv
  <2>1. ASSUME NEW n \in Opened, Open(n)
        PROVE  OwnPolicies' /\ OwnCalls' /\ OwnShown'
    <3>1. Ask("load", n, NoPolicy) /\ node' = n /\ stored' = stored
      BY <2>1 DEF Open
    <3>2. OwnCalls' /\ Loading(n, calls')
      BY <2>own, <3>1, AskOwn DEF Kinds
    <3> QED
      BY <2>own, <3>1, <3>2 DEF OwnPolicies, OwnShown, Own, OwnRule
  <2>2. CASE Close
    BY <2>2, <2>own DEF Close, OwnPolicies, OwnCalls, OwnShown, Own, OwnRule
  <2>3. CASE EditSettings
    <3>1. /\ settings' \in {node, None}
          /\ UNCHANGED <<stored, calls, node, rules>>
      BY <2>3 DEF EditSettings
    <3>2. OwnShown'
      BY <2>own, <3>1 DEF OwnShown, Own, OwnRule, Shown
    <3> QED
      BY <2>own, <3>1, <3>2 DEF OwnPolicies, OwnCalls, Own, OwnRule
  <2>4. CASE AddRule
    <3>1. PICK d \in Dests \cup {None}, via \in Vias : rules' = Append(rules, NewRule(d, via))
      BY <2>4 DEF AddRule
    <3>2. node # None /\ UNCHANGED <<stored, calls, node, settings>>
      BY <2>4 DEF AddRule, InFront
    <3>3. NewRule(d, via) \in DrawerRule /\ NewRule(d, via).home = node
      BY <3>2, NewRuleTyped
    <3>4. rules \in Seq(DrawerRule)
      BY DEF DrawerTypeOK
    <3>5. \A i \in DOMAIN rules' : \/ i \in DOMAIN rules /\ rules'[i] = rules[i]
                                   \/ rules'[i] = NewRule(d, via)
      BY <3>1, <3>3, <3>4
    <3>6. OwnShown'
      BY <2>own, <3>2, <3>3, <3>5 DEF OwnShown, Own, OwnRule, Shown
    <3> QED
      BY <2>own, <3>2, <3>6 DEF OwnPolicies, OwnCalls, Own, OwnRule
  <2>5. CASE DeleteRule
    <3>1. PICK i \in DOMAIN rules : rules' = RemoveAt(rules, i)
      BY <2>5 DEF DeleteRule
    <3>2. UNCHANGED <<stored, calls, node, settings>>
      BY <2>5 DEF DeleteRule
    <3>3. rules \in Seq(DrawerRule)
      BY DEF DrawerTypeOK
    <3>4. \A j \in DOMAIN rules' : \E k \in DOMAIN rules : rules'[j] = rules[k]
      BY <3>1, <3>3, RemoveAtElements
    <3>5. OwnShown'
      BY <2>own, <3>2, <3>4 DEF OwnShown, Own, OwnRule, Shown
    <3> QED
      BY <2>own, <3>2, <3>5 DEF OwnPolicies, OwnCalls, Own, OwnRule
  <2>6. CASE OpenSelector \/ PickNode \/ FinishPath \/ CancelPath
    <3>1. UNCHANGED <<stored, calls, node, settings, rules>>
      BY <2>6 DEF OpenSelector, PickNode, FinishPath, CancelPath
    <3> QED
      BY <2>own, <3>1 DEF OwnPolicies, OwnCalls, OwnShown, Own, OwnRule, Shown
  <2>7. CASE Submit
    <3>1. /\ Ask("submit", node, Shown)
          /\ UNCHANGED <<stored, node, settings, rules>>
          /\ node # None
      BY <2>7 DEF Submit, Shown, InFront
    <3>2. ~Loading(node, calls)
      BY <2>7 DEF Submit
    <3>3. Own(node, Shown)
      BY <2>own, <3>1, <3>2 DEF OwnShown
    <3>4. OwnCalls'
      BY <2>own, <3>1, <3>3, AskOwn DEF Kinds
    <3> QED
      BY <2>own, <3>1, <3>3, <3>4 DEF OwnPolicies, OwnShown, Own, OwnRule, Shown
  <2>8. CASE ServeGet
    <3>1. PICK c \in calls : Become(c, "answered", stored[c.node])
      BY <2>8 DEF ServeGet
    <3>2. UNCHANGED <<stored, node, settings, rules>>
      BY <2>8 DEF ServeGet
    <3>3. c.node \in Nodes
      BY DEF DrawerTypeOK, Call
    <3>4. Own(c.node, stored[c.node])
      BY <2>own, <3>3 DEF OwnPolicies
    <3>5. OwnCalls' /\ \A m : Loading(m, calls') <=> Loading(m, calls)
      BY <2>own, <3>1, <3>4, BecomeOwn
    <3> QED
      BY <2>own, <3>2, <3>5 DEF OwnPolicies, OwnShown, Own, OwnRule, Shown
  <2>9. CASE ServePost
    <3>1. PICK c \in calls :
            LET p == [c.policy EXCEPT !.rules = [i \in DOMAIN @ |-> Normal(@[i])]]
            IN /\ c.kind = "submit"
               /\ IF Accepted(c.policy)
                    THEN Become(c, "answered", p) /\ stored' = [stored EXCEPT ![c.node] = p]
                    ELSE Become(c, "failed", c.policy) /\ UNCHANGED stored
      BY <2>9 DEF ServePost
    <3> DEFINE p == [c.policy EXCEPT !.rules = [i \in DOMAIN @ |-> Normal(@[i])]]
    <3>2. UNCHANGED <<node, settings, rules>>
      BY <2>9 DEF ServePost
    <3>3. c.node \in Nodes /\ c.policy \in Policy /\ stored \in [Nodes -> Policy]
      BY DEF DrawerTypeOK, Call
    <3>4. Own(c.node, c.policy)
      BY <2>own, <3>1 DEF OwnCalls
    <3>5. Own(c.node, p)
      BY <3>3, <3>4, NormalOwn
    <3> HIDE DEF p
    <3>6. CASE Become(c, "answered", p) /\ stored' = [stored EXCEPT ![c.node] = p]
      <4>1. OwnCalls' /\ \A m : Loading(m, calls') <=> Loading(m, calls)
        BY <2>own, <3>5, <3>6, BecomeOwn
      <4>2. OwnPolicies'
        BY <2>own, <3>3, <3>5, <3>6 DEF OwnPolicies, Own, OwnRule
      <4> QED
        BY <2>own, <3>2, <4>1, <4>2 DEF OwnShown, Own, OwnRule, Shown
    <3>7. CASE Become(c, "failed", c.policy) /\ UNCHANGED stored
      <4>1. OwnCalls' /\ \A m : Loading(m, calls') <=> Loading(m, calls)
        BY <2>own, <3>4, <3>7, BecomeOwn
      <4> QED
        BY <2>own, <3>2, <3>7, <4>1 DEF OwnPolicies, OwnShown, Own, OwnRule, Shown
    <3> QED
      BY <3>1, <3>6, <3>7 DEF p
  <2>10. CASE Lose
    <3>1. PICK c \in calls : c.state = "sent" /\ Become(c, "failed", c.policy)
      BY <2>10 DEF Lose
    <3>2. UNCHANGED <<stored, node, settings, rules>>
      BY <2>10 DEF Lose
    <3>3. c.kind = "submit" => Own(c.node, c.policy)
      BY <2>own DEF OwnCalls
    <3>4. OwnCalls' /\ \A m : Loading(m, calls') <=> Loading(m, calls)
      BY <2>own, <3>1, <3>3, BecomeOwn
    <3> QED
      BY <2>own, <3>2, <3>4 DEF OwnPolicies, OwnShown, Own, OwnRule, Shown
  <2>11. CASE Continue
    <3>1. PICK c \in calls : /\ LoadDone(c) \/ LoadFailed(c) \/ SubmitDone(c)
                            /\ calls' = calls \ {c}
      BY <2>11 DEF Continue
    <3>2. UNCHANGED <<stored, node>>
      BY <2>11 DEF Continue
    <3>3. OwnPolicies' /\ OwnCalls'
      BY <2>own, <3>1, <3>2 DEF OwnPolicies, OwnCalls, Own, OwnRule
    <3>4. CASE LoadDone(c) \/ LoadFailed(c)
      BY <2>own, <3>1, <3>2, <3>3, <3>4, LoadOwn
    <3>5. CASE SubmitDone(c)
      <4>1. UNCHANGED <<settings, rules>> /\ \A m : Loading(m, calls') <=> Loading(m, calls)
        BY <3>1, <3>5 DEF SubmitDone, Loading
      <4> QED
        BY <2>own, <3>2, <3>3, <4>1 DEF OwnShown, Own, OwnRule, Shown
    <3> QED
      BY <3>1, <3>4, <3>5
  <2>12. CASE UNCHANGED vars
    BY <2>12, <2>own DEF vars, OwnPolicies, OwnCalls, OwnShown, Own, OwnRule, Shown, Loading
  <2> QED
    BY <2>1, <2>2, <2>3, <2>4, <2>5, <2>6, <2>7, <2>8, <2>9, <2>10, <2>11, <2>12 DEF Next
<1>3. OwnInv => OwnUnlessSlip
  BY DEF OwnInv, OwnUnlessSlip
<1> QED
  BY <1>1, <1>2, <1>3, DrawerTypeCorrect, PTL DEF Spec

-----------------------------------------------------------------------------
(* What becomes of rules and paths.  A rule has an exit, and one with a    *)
(* path ends where its path does, wherever the rule is: in the drawer, in  *)
(* a call or in the store.                                                 *)

Sound(r) ==
  /\ r.via # None \/ r.path # <<>>
  /\ r.path # <<>> => r.via = Last(r.path)

AllSound(q) == \A i \in DOMAIN q : Sound(q[i])

RulesSound ==
  /\ \A n \in Nodes : AllSound(stored[n].rules)
  /\ \A c \in calls : AllSound(c.policy.rules)
  /\ AllSound(rules)

\* A call that is sent carries sound rules if it was given them (api).
LEMMA AskSound ==
  ASSUME RulesSound, NEW kind \in Kinds, NEW n, NEW p, Ask(kind, n, p), AllSound(p.rules)
  PROVE  \A c \in calls' : AllSound(c.policy.rules)
  BY DEF Ask, RulesSound

\* A call that is served carries sound rules if it was given them (policy.go).
LEMMA BecomeSound ==
  ASSUME DrawerTypeOK, RulesSound, NEW c \in calls, NEW p, NEW state,
         Become(c, state, p), AllSound(p.rules)
  PROVE  \A d \in calls' : AllSound(d.policy.rules)
<1> DEFINE new == [c EXCEPT !.state = state, !.policy = p]
<1>1. calls' = (calls \ {c}) \cup {new}
  BY DEF Become
<1>2. c \in Call
  BY DEF DrawerTypeOK
<1>3. new.policy = p
  BY <1>2 DEF Call
<1> HIDE DEF new
<1> QED
  BY <1>1, <1>3 DEF RulesSound

\* Sound rules stay sound when they are normalised (policy.go).
LEMMA NormalSound ==
  ASSUME NEW q \in Policy, AllSound(q.rules)
  PROVE  AllSound([q EXCEPT !.rules = [i \in DOMAIN @ |-> Normal(@[i])]].rules)
<1> DEFINE normal == [i \in DOMAIN q.rules |-> Normal(q.rules[i])]
<1>1. [q EXCEPT !.rules = [i \in DOMAIN @ |-> Normal(@[i])]].rules = normal
  BY DEF Policy
<1>2. ASSUME NEW i \in DOMAIN q.rules
      PROVE  Sound(Normal(q.rules[i]))
  <2> DEFINE r == q.rules[i]
  <2>1. r \in DrawerRule /\ Sound(r)
    BY DEF Policy, AllSound
  <2> HIDE DEF r
  <2>2. r.path # <<>> => Last(r.path) \in Nodes
    BY <2>1, LastIsMember DEF DrawerRule
  <2>3. ~(r.via = None /\ r.path # <<>>)
    BY <2>1, <2>2, ConstantsAssumption DEF Sound
  <2>4. Normal(r) = r
    BY <2>3 DEF Normal
  <2> QED
    BY <2>1, <2>4 DEF r
<1>3. DOMAIN normal = DOMAIN q.rules /\ \A i \in DOMAIN q.rules : normal[i] = Normal(q.rules[i])
  OBVIOUS
<1> HIDE DEF normal
<1> QED
  BY <1>1, <1>2, <1>3 DEF AllSound

\* The rules of the drawer, of its calls and of the store are sound
\* (addRule, submit, load; policy.go).
LEMMA RulesStaySound == Spec => []RulesSound
<1>1. Init => RulesSound
  <2> SUFFICES ASSUME Init PROVE RulesSound
    OBVIOUS
  <2>1. ASSUME NEW n \in Nodes PROVE AllSound(stored[n].rules)
    <3>1. \A m, d : AllSound([settings |-> m, rules |-> <<LocalRule(n, d)>>].rules)
      BY DrawerAssumption DEF AllSound, Sound, LocalRule
    <3>2. AllSound(NoPolicy.rules)
      BY DEF AllSound, NoPolicy
    <3> QED
      BY <3>1, <3>2 DEF Init
  <2> QED
    BY <2>1 DEF Init, RulesSound, AllSound
<1>2. ASSUME DrawerTypeOK, RulesSound, [Next]_vars
      PROVE  RulesSound'
  <2> USE <1>2 DEF shown, selector
  <2>1. ASSUME NEW n \in Opened, Open(n)
        PROVE  RulesSound'
    <3>1. Ask("load", n, NoPolicy) /\ AllSound(NoPolicy.rules) /\ UNCHANGED <<stored, rules>>
      BY <2>1 DEF Open, AllSound, NoPolicy
    <3>2. \A c \in calls' : AllSound(c.policy.rules)
      BY <3>1, AskSound DEF Kinds
    <3> QED
      BY <3>1, <3>2 DEF RulesSound
  <2>2. CASE Close \/ EditSettings \/ OpenSelector \/ PickNode \/ FinishPath \/ CancelPath
    <3>1. UNCHANGED <<stored, calls, rules>>
      BY <2>2 DEF Close, EditSettings, OpenSelector, PickNode, FinishPath, CancelPath
    <3> QED
      BY <3>1 DEF RulesSound
  <2>3. CASE AddRule
    <3>1. PICK d \in Dests \cup {None}, via \in Vias :
            ViaGiven(via) /\ rules' = Append(rules, NewRule(d, via))
      BY <2>3 DEF AddRule
    <3>2. Sound(NewRule(d, via))
      BY <3>1 DEF Sound, NewRule, ViaGiven
    <3>3. NewRule(d, via) \in DrawerRule /\ rules \in Seq(DrawerRule)
      BY <2>3, NewRuleTyped DEF AddRule, InFront, DrawerTypeOK
    <3>4. \A i \in DOMAIN rules' : \/ i \in DOMAIN rules /\ rules'[i] = rules[i]
                                   \/ rules'[i] = NewRule(d, via)
      BY <3>1, <3>3
    <3>5. AllSound(rules')
      BY <3>2, <3>4 DEF RulesSound, AllSound
    <3>6. UNCHANGED <<stored, calls>>
      BY <2>3 DEF AddRule
    <3> QED
      BY <3>5, <3>6 DEF RulesSound
  <2>4. CASE DeleteRule
    <3>1. PICK i \in DOMAIN rules : rules' = RemoveAt(rules, i)
      BY <2>4 DEF DeleteRule
    <3>2. rules \in Seq(DrawerRule)
      BY DEF DrawerTypeOK
    <3>3. \A j \in DOMAIN rules' : \E k \in DOMAIN rules : rules'[j] = rules[k]
      BY <3>1, <3>2, RemoveAtElements
    <3>4. AllSound(rules')
      BY <3>3 DEF RulesSound, AllSound
    <3>5. UNCHANGED <<stored, calls>>
      BY <2>4 DEF DeleteRule
    <3> QED
      BY <3>4, <3>5 DEF RulesSound
  <2>5. CASE Submit
    <3>1. Ask("submit", node, Shown) /\ UNCHANGED <<stored, rules>>
      BY <2>5 DEF Submit, Shown
    <3>2. AllSound(Shown.rules)
      BY DEF RulesSound, Shown
    <3>3. \A c \in calls' : AllSound(c.policy.rules)
      BY <3>1, <3>2, AskSound DEF Kinds
    <3> QED
      BY <3>1, <3>3 DEF RulesSound
  <2>6. CASE ServeGet
    <3>1. PICK c \in calls : Become(c, "answered", stored[c.node])
      BY <2>6 DEF ServeGet
    <3>2. AllSound(stored[c.node].rules)
      BY DEF DrawerTypeOK, Call, RulesSound
    <3>3. \A d \in calls' : AllSound(d.policy.rules)
      BY <3>1, <3>2, BecomeSound
    <3>4. UNCHANGED <<stored, rules>>
      BY <2>6 DEF ServeGet
    <3> QED
      BY <3>3, <3>4 DEF RulesSound
  <2>7. CASE ServePost
    <3>1. PICK c \in calls :
            LET p == [c.policy EXCEPT !.rules = [i \in DOMAIN @ |-> Normal(@[i])]]
            IN IF Accepted(c.policy)
                 THEN Become(c, "answered", p) /\ stored' = [stored EXCEPT ![c.node] = p]
                 ELSE Become(c, "failed", c.policy) /\ UNCHANGED stored
      BY <2>7 DEF ServePost
    <3> DEFINE p == [c.policy EXCEPT !.rules = [i \in DOMAIN @ |-> Normal(@[i])]]
    <3>2. rules' = rules
      BY <2>7 DEF ServePost
    <3>3. c.policy \in Policy /\ stored \in [Nodes -> Policy]
      BY DEF DrawerTypeOK, Call
    <3>4. AllSound(c.policy.rules)
      BY DEF RulesSound
    <3>5. AllSound(p.rules)
      BY <3>3, <3>4, NormalSound
    <3> HIDE DEF p
    <3>6. CASE Become(c, "answered", p) /\ stored' = [stored EXCEPT ![c.node] = p]
      <4>1. \A d \in calls' : AllSound(d.policy.rules)
        BY <3>5, <3>6, BecomeSound
      <4>2. \A n \in Nodes : AllSound(stored'[n].rules)
        BY <3>3, <3>5, <3>6 DEF RulesSound
      <4> QED
        BY <3>2, <4>1, <4>2 DEF RulesSound
    <3>7. CASE Become(c, "failed", c.policy) /\ UNCHANGED stored
      <4>1. \A d \in calls' : AllSound(d.policy.rules)
        BY <3>4, <3>7, BecomeSound
      <4> QED
        BY <3>2, <3>7, <4>1 DEF RulesSound
    <3> QED
      BY <3>1, <3>6, <3>7 DEF p
  <2>8. CASE Lose
    <3>1. PICK c \in calls : Become(c, "failed", c.policy)
      BY <2>8 DEF Lose
    <3>2. \A d \in calls' : AllSound(d.policy.rules)
      BY <3>1, BecomeSound DEF RulesSound
    <3>3. UNCHANGED <<stored, rules>>
      BY <2>8 DEF Lose
    <3> QED
      BY <3>2, <3>3 DEF RulesSound
  <2>9. CASE Continue
    <3>1. PICK c \in calls : /\ LoadDone(c) \/ LoadFailed(c) \/ SubmitDone(c)
                            /\ calls' = calls \ {c}
      BY <2>9 DEF Continue
    <3>2. rules' = rules \/ rules' = c.policy.rules
      BY <3>1 DEF LoadDone, LoadFailed, SubmitDone
    <3>3. stored' = stored
      BY <2>9 DEF Continue
    <3> QED
      BY <3>1, <3>2, <3>3 DEF RulesSound
  <2>10. CASE UNCHANGED vars
    BY <2>10 DEF vars, RulesSound
  <2> QED
    BY <2>1, <2>2, <2>3, <2>4, <2>5, <2>6, <2>7, <2>8, <2>9, <2>10 DEF Next
<1> QED
  BY <1>1, <1>2, DrawerTypeCorrect, PTL DEF Spec

\* No rule without an exit is stored, although the controller stores whatever
\* stands beside one valid rule (RuleEditor, policy.go).
THEOREM RulesUsable == Spec => []UsableRules
<1>1. RulesSound => UsableRules
  BY DEF RulesSound, AllSound, Sound, UsableRules
<1> QED
  BY <1>1, RulesStaySound, PTL

-----------------------------------------------------------------------------
(* Paths. *)

Hops(n, r) == <<n>> \o r.path

\* The rule that sends what r matches on to h.
Forward(r, h) == [r EXCEPT !.via = h, !.path = <<>>]

\* What becomes of rule r of node n is what its path says.
Follows(n, r) ==
  /\ \A k \in 1..Len(r.path) : RulesAt(Hops(n, r)[k], n, r) = {Forward(r, Hops(n, r)[k + 1])}
  /\ \A m \in Nodes \ {Hops(n, r)[k] : k \in 1..Len(r.path)} : RulesAt(m, n, r) = {}

\* A rule with a path is forwarded wherever the path has the node before a hop.
LEMMA RulesOnPath ==
  ASSUME NEW m, NEW n, NEW r, r.path # <<>>
  PROVE  RulesAt(m, n, r) = {Forward(r, Hops(n, r)[i + 1]) :
                               i \in {j \in 1..Len(r.path) : Hops(n, r)[j] = m}}
  BY Zenon DEF RulesAt, Forward, Hops

\* What expandPolicyRules makes of a rule with a path that repeats no node: one
\* rule at each of its hops but the last, and nothing elsewhere.
LEMMA PathSpread ==
  ASSUME NEW n \in Nodes, NEW r \in DrawerRule, r.path # <<>>, ~Repeats(Hops(n, r))
  PROVE  Follows(n, r)
<1> DEFINE passed(m) == {j \in 1..Len(r.path) : Hops(n, r)[j] = m}
<1>1. r.path \in Seq(Nodes)
  BY DEF DrawerRule
<1>2. DOMAIN Hops(n, r) = 1..Len(r.path) + 1 /\ Len(r.path) \in Nat
  BY <1>1 DEF Hops
<1>3. \A i, j \in 1..Len(r.path) : Hops(n, r)[i] = Hops(n, r)[j] => i = j
  BY <1>2 DEF Repeats
<1>4. \A m : RulesAt(m, n, r) = {Forward(r, Hops(n, r)[i + 1]) : i \in passed(m)}
  BY RulesOnPath
<1>5. ASSUME NEW k \in 1..Len(r.path)
      PROVE  RulesAt(Hops(n, r)[k], n, r) = {Forward(r, Hops(n, r)[k + 1])}
  <2>1. passed(Hops(n, r)[k]) = {k}
    BY <1>3
  <2> HIDE DEF passed
  <2> QED
    BY <1>4, <2>1
<1>6. ASSUME NEW m \in Nodes \ {Hops(n, r)[k] : k \in 1..Len(r.path)}
      PROVE  RulesAt(m, n, r) = {}
  <2>1. passed(m) = {}
    OBVIOUS
  <2> HIDE DEF passed
  <2> QED
    BY <1>4, <2>1
<1> QED
  BY <1>5, <1>6 DEF Follows

\* A path that starts at n ends where it ended without it.
LEMMA LastHop ==
  ASSUME NEW n \in Nodes, NEW p \in Seq(Nodes), p # <<>>
  PROVE  Last(<<n>> \o p) = Last(p)
<1>1. Len(<<n>> \o p) = Len(p) + 1 /\ Len(p) \in Nat \ {0}
  OBVIOUS
<1>2. (<<n>> \o p)[Len(p) + 1] = p[Len(p)]
  BY <1>1
<1> QED
  BY <1>1, <1>2 DEF Last

\* A path picked in the drawer becomes the rules that follow it and ends at the
\* exit shown in the list (PathSelectorModal, addRule, expandPolicyRules).
THEOREM PathsFollowed == Spec => []PathFollowed
<1>1. ASSUME DrawerTypeOK, RulesSound, NEW n \in Nodes, NEW i \in DOMAIN stored[n].rules,
             stored[n].rules[i].path # <<>>, ~Repeats(Hops(n, stored[n].rules[i]))
      PROVE  /\ stored[n].rules[i].via = Last(Hops(n, stored[n].rules[i]))
             /\ Follows(n, stored[n].rules[i])
  <2>1. stored[n].rules[i] \in DrawerRule
    BY <1>1 DEF DrawerTypeOK, Policy
  <2>2. stored[n].rules[i].via = Last(stored[n].rules[i].path)
    BY <1>1 DEF RulesSound, AllSound, Sound
  <2>3. stored[n].rules[i].path \in Seq(Nodes)
    BY <2>1 DEF DrawerRule
  <2> QED
    BY <1>1, <2>1, <2>2, <2>3, LastHop, PathSpread DEF Hops
<1>2. DrawerTypeOK /\ RulesSound => PathFollowed
  BY <1>1, Zenon DEF PathFollowed, Follows, Hops, Forward
<1> QED
  BY <1>2, DrawerTypeCorrect, RulesStaySound, PTL

-----------------------------------------------------------------------------
(* The path selector and its map. *)

\* A list of all nodes, each once, as the store gives it.
Listing(list) ==
  /\ list \in [1..Cardinality(Nodes) -> Nodes]
  /\ \A i, j \in 1..Cardinality(Nodes) : i # j => list[i] # list[j]

\* Every node is listed.
LEMMA AllListed ==
  ASSUME NEW list, Listing(list)
  PROVE  /\ Cardinality(Nodes) \in Nat /\ Len(list) = Cardinality(Nodes)
         /\ list \in Seq(Nodes)
         /\ ToSet(list) = Nodes
<1> DEFINE D == 1..Cardinality(Nodes)
<1>1. Cardinality(Nodes) \in Nat
  BY DrawerAssumption, FS_CardinalityType
<1>2. list \in Seq(Nodes) /\ Len(list) = Cardinality(Nodes)
  BY <1>1 DEF Listing
<1>3. list \in Injection(D, Nodes)
  BY DEF Listing, Injection, IsInjective
<1>4. Cardinality(D) = Cardinality(Nodes)
  BY <1>1, FS_Interval
<1>5. list \in Surjection(D, Nodes)
  BY <1>3, <1>4, DrawerAssumption, FS_Injection
<1>6. ToSet(list) = Nodes
  BY <1>2, <1>5 DEF ToSet, Surjection
<1> QED
  BY <1>1, <1>2, <1>6

\* Of two places on the circle, the one listed later has more before it.
LEMMA MoreBefore ==
  ASSUME NEW list, NEW X, NEW i \in Nat \ {0}, NEW k \in Nat \ {0}, i < k, list[i] \notin X
  PROVE  Cardinality({j \in 1..(i - 1) : list[j] \notin X})
           # Cardinality({j \in 1..(k - 1) : list[j] \notin X})
<1> DEFINE A == {j \in 1..(i - 1) : list[j] \notin X}
           B == {j \in 1..(k - 1) : list[j] \notin X}
<1>1. A \subseteq B /\ B \subseteq 1..(k - 1)
  OBVIOUS
<1>2. i \in B /\ i \notin A
  OBVIOUS
<1>3. IsFiniteSet(B)
  <2>1. IsFiniteSet(1..(k - 1))
    BY FS_Interval
  <2> HIDE DEF B
  <2> QED
    BY <1>1, <2>1, FS_Subset
<1> HIDE DEF A, B
<1>4. Cardinality(B) # Cardinality(A)
  BY <1>1, <1>2, <1>3, FS_Subset
<1> QED
  BY <1>4 DEF A, B

\* Every node is drawn, and no two without a location at one place (MeshMap).
LEMMA DrawnApart ==
  ASSUME NEW list, Listing(list), NEW location
  PROVE  /\ DOMAIN Positions(list, location) = Nodes
         /\ \A m, n \in Nodes \ DOMAIN location :
              m # n => Positions(list, location)[m] # Positions(list, location)[n]
<1> DEFINE index(n) == CHOOSE i \in DOMAIN list : list[i] = n
           before(i) == {j \in 1..(i - 1) : list[j] \notin DOMAIN location}
           place(n) == IF n \in DOMAIN location
                         THEN <<"at", location[n]>>
                         ELSE <<"circle", Cardinality(before(index(n)))>>
<1>1. ToSet(list) = Nodes /\ Cardinality(Nodes) \in Nat /\ DOMAIN list = 1..Cardinality(Nodes)
  BY AllListed DEF Listing
<1>2. Positions(list, location) = [n \in Nodes |-> place(n)]
  BY <1>1 DEF Positions
<1>3. \A n \in Nodes : index(n) \in DOMAIN list /\ list[index(n)] = n
  BY <1>1 DEF ToSet
<1> HIDE DEF index
<1>4. ASSUME NEW m \in Nodes, NEW n \in Nodes, index(m) < index(n),
             m \notin DOMAIN location
      PROVE  Cardinality(before(index(m))) # Cardinality(before(index(n)))
  <2>1. /\ index(m) \in Nat \ {0} /\ index(n) \in Nat \ {0}
        /\ list[index(m)] \notin DOMAIN location
    BY <1>1, <1>3, <1>4
  <2> QED
    BY <1>4, <2>1, MoreBefore
<1> HIDE DEF before
<1>5. ASSUME NEW m \in Nodes \ DOMAIN location, NEW n \in Nodes \ DOMAIN location,
             m # n
      PROVE  place(m) # place(n)
  <2>1. index(m) < index(n) \/ index(n) < index(m)
    BY <1>1, <1>3, <1>5
  <2> QED
    BY <1>4, <1>5, <2>1
<1> QED
  BY <1>2, <1>5

\* The segments listed as broken are the red links in bold (PathSelectorModal,
\* MeshMap), if both ends of each link are drawn.
LEMMA BrokenDrawn ==
  ASSUME NEW links, NEW positions, NEW hops,
         \A l \in links : {l.from, l.to} \subseteq DOMAIN positions
  PROVE  {{s[1], s[2]} : s \in DownSegments(links, hops)} =
           Ends({l \in Bold(links, positions, hops) : ~l.ok})
<1> DEFINE segments == 1..(Len(hops) - 1)
           broken == {{s[1], s[2]} : s \in DownSegments(links, hops)}
           red == {l \in Bold(links, positions, hops) : ~l.ok}
<1>1. \A x : x \in broken <=>
               \E i \in segments : Broken(links, hops[i], hops[i + 1])
                                     /\ x = {hops[i], hops[i + 1]}
  <2>1. \A s : s \in DownSegments(links, hops) <=>
                 \E i \in segments : Broken(links, hops[i], hops[i + 1])
                                       /\ s = <<hops[i], hops[i + 1]>>
    BY DEF DownSegments
  <2>2. \A s, a, b : s = <<a, b>> => {s[1], s[2]} = {a, b}
    OBVIOUS
  <2>3. \A x : x \in broken <=> \E s \in DownSegments(links, hops) : x = {s[1], s[2]}
    OBVIOUS
  <2> HIDE DEF broken
  <2>4. ASSUME NEW x, x \in broken
        PROVE  \E i \in segments : Broken(links, hops[i], hops[i + 1])
                                     /\ x = {hops[i], hops[i + 1]}
    <3>1. PICK s \in DownSegments(links, hops) : x = {s[1], s[2]}
      BY <2>3, <2>4
    <3>2. PICK i \in segments : Broken(links, hops[i], hops[i + 1])
                                  /\ s = <<hops[i], hops[i + 1]>>
      BY <2>1
    <3> QED
      BY <2>2, <3>1, <3>2
  <2>5. ASSUME NEW i \in segments, Broken(links, hops[i], hops[i + 1])
        PROVE  {hops[i], hops[i + 1]} \in broken
    <3>1. <<hops[i], hops[i + 1]>> \in DownSegments(links, hops)
      BY <2>1, <2>5
    <3> QED
      BY <2>2, <2>3, <3>1
  <2> QED
    BY <2>4, <2>5
<1>2. \A l : l \in red <=>
               /\ l \in links /\ ~l.ok
               /\ \E i \in segments : \/ <<l.from, l.to>> = <<hops[i], hops[i + 1]>>
                                      \/ <<l.from, l.to>> = <<hops[i + 1], hops[i]>>
  <2>1. \A p : p \in PathSet(hops) <=>
                 \E i \in segments : p = <<hops[i], hops[i + 1]>> \/ p = <<hops[i + 1], hops[i]>>
    <3> DEFINE both(i) == {<<hops[i], hops[i + 1]>>, <<hops[i + 1], hops[i]>>}
    <3>1. PathSet(hops) = UNION {both(i) : i \in segments}
      BY DEF PathSet
    <3>2. \A p, i : p \in both(i) <=> p = <<hops[i], hops[i + 1]>> \/ p = <<hops[i + 1], hops[i]>>
      OBVIOUS
    <3> HIDE DEF segments, both
    <3>3. \A p : p \in UNION {both(i) : i \in segments} <=> \E i \in segments : p \in both(i)
      OBVIOUS
    <3> QED
      BY <3>1, <3>2, <3>3, Zenon
  <2>2. Drawn(links, positions) = links
    BY DEF Drawn
  <2>3. \A l : l \in red <=> l \in links /\ ~l.ok /\ <<l.from, l.to>> \in PathSet(hops)
    BY <2>2 DEF Bold
  <2> HIDE DEF segments, red
  <2> QED
    BY <2>1, <2>3
<1>3. \A l, i : Joins(l, hops[i], hops[i + 1]) <=>
                  \/ <<l.from, l.to>> = <<hops[i], hops[i + 1]>>
                  \/ <<l.from, l.to>> = <<hops[i + 1], hops[i]>>
  BY DEF Joins
<1> HIDE DEF segments, broken, red
<1>4. ASSUME NEW x \in broken PROVE x \in Ends(red)
  <2>1. PICK i \in segments : x = {hops[i], hops[i + 1]} /\ Broken(links, hops[i], hops[i + 1])
    BY <1>1, <1>4
  <2>2. PICK l \in links : Joins(l, hops[i], hops[i + 1]) /\ ~l.ok
    BY <2>1 DEF Broken
  <2>3. l \in red /\ {l.from, l.to} = x
    BY <1>2, <1>3, <2>1, <2>2 DEF Joins
  <2> QED
    BY <2>3 DEF Ends
<1>5. ASSUME NEW x \in Ends(red) PROVE x \in broken
  <2>1. PICK l \in red : x = {l.from, l.to}
    BY <1>5 DEF Ends
  <2>2. PICK i \in segments : l \in links /\ ~l.ok /\ Joins(l, hops[i], hops[i + 1])
    BY <1>2, <1>3, <2>1
  <2>3. Broken(links, hops[i], hops[i + 1]) /\ x = {hops[i], hops[i + 1]}
    BY <2>1, <2>2 DEF Broken, Joins
  <2> QED
    BY <1>1, <2>3
<1> QED
  BY <1>4, <1>5 DEF broken, red

\* What the selector and the map show of one mesh status.
Faithful(list, links) ==
  LET places == Map(list, {})
      hops == <<node>> \o path
      broken == {{s[1], s[2]} : s \in DownSegments(links, hops)}
  IN /\ broken = Ends({l \in Bold(links, places, hops) : ~l.ok})
     /\ broken \subseteq Ends(DownLinks(links))
     /\ \A n \in UNION broken : Critical(links, n)

\* The path selector and the map above it agree on what is broken, for any list
\* of the nodes, any telemetry and any path, and on the map every node is drawn
\* and no two nodes without a location at one place (PathSelectorModal, MeshMap).
THEOREM SelectorIsFaithful == Spec => []SelectorFaithful
<1>1. ASSUME NEW list, Listing(list), NEW up
      PROVE  Faithful(list, MeshLinks(list, up))
  <2> DEFINE links == MeshLinks(list, up)
             places == Map(list, {})
             hops == <<node>> \o path
             broken == {{s[1], s[2]} : s \in DownSegments(links, hops)}
             red == {l \in Bold(links, places, hops) : ~l.ok}
  <2>1. \A l \in links : {l.from, l.to} \subseteq Nodes
    <3> SUFFICES ASSUME NEW l \in links PROVE l.from \in Nodes /\ l.to \in Nodes
      OBVIOUS
    <3>1. PICK i, k \in 1..Len(list) :
            l = Link(list[i], list[k], {list[i], list[k]} \in up)
      BY DEF MeshLinks
    <3>2. l.from = list[i] /\ l.to = list[k]
      BY <3>1 DEF Link
    <3> QED
      BY <1>1, <3>2, AllListed
  <2> HIDE DEF links, hops
  <2>3. DOMAIN places = Nodes
    BY <1>1, DrawnApart DEF Map
  <2> HIDE DEF places
  <2>4. broken = Ends(red)
    BY <2>1, <2>3, BrokenDrawn
  <2>5. red \subseteq DownLinks(links)
    BY DEF Bold, Drawn, DownLinks
  <2> HIDE DEF broken, red
  <2>6. broken \subseteq Ends(DownLinks(links))
    BY <2>4, <2>5 DEF Ends
  <2>7. ASSUME NEW n \in UNION broken PROVE Critical(links, n)
    <3>1. PICK l \in DownLinks(links) : n \in {l.from, l.to}
      BY <2>6, <2>7 DEF Ends
    <3> QED
      BY <3>1 DEF DownLinks, Critical
  <2> QED
    BY <2>4, <2>6, <2>7, Zenon DEF Faithful, broken, red, links, places, hops
<1>2. \A list \in SetToSeqs(Nodes) : Listing(list)
  BY DEF SetToSeqs, Listing
<1>3. ASSUME NEW mesh \in Meshes PROVE Faithful(mesh.list, mesh.links)
  <2>1. PICK list \in SetToSeqs(Nodes), up \in SUBSET kSubset(2, Nodes) :
          mesh = [list |-> list, links |-> MeshLinks(list, up)]
    BY DEF Meshes
  <2>2. mesh.list = list /\ mesh.links = MeshLinks(list, up)
    BY <2>1
  <2> QED
    BY <1>1, <1>2, <2>1, <2>2
<1>4. AllDrawn
  <2> SUFFICES ASSUME NEW list \in SetToSeqs(Nodes), NEW known \in SUBSET Nodes
               PROVE  /\ DOMAIN Map(list, known) = Nodes
                      /\ \A m, n \in Nodes \ known :
                           m # n => Map(list, known)[m] # Map(list, known)[n]
    BY DEF AllDrawn
  <2> DEFINE location == [n \in known |-> "city"]
  <2>1. Listing(list) /\ DOMAIN location = known /\ Map(list, known) = Positions(list, location)
    BY <1>2 DEF Map
  <2> HIDE DEF location
  <2> QED BY <2>1, DrawnApart
<1>5. SelectorFaithful
  BY <1>3, <1>4, Zenon DEF SelectorFaithful, Faithful
<1> QED
  BY <1>5, PTL
=============================================================================
