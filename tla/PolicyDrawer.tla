----------------------------- MODULE PolicyDrawer -----------------------------
(***************************************************************************)
(* The policy drawer of the web console (components/PolicyDrawer.jsx): it  *)
(* loads a node's policy, lets the user edit it, pick paths on the mesh    *)
(* map, and submits it; the controller's policy handlers answer.           *)
(*                                                                         *)
(* The drawer is one component for all nodes: it is opened for a node and  *)
(* closed, its state stays.  A call is in flight from the click until its  *)
(* continuation runs; calls are served, lost and answered in any order.    *)
(*                                                                         *)
(* What a rule or the settings say is abstracted to whose they are: home   *)
(* is the node in whose drawer a rule was added, and settings are the node *)
(* in whose drawer they were entered, or None when they are empty.  Data   *)
(* of the feeds (status, tasks, diagnosis) is in module Console.           *)
(***************************************************************************)
EXTENDS PlanRules, FiniteSets, SequencesExt, MeshView

CONSTANTS
  Local,            \* "local", the choice of a rule that leaves at the node
  Opened,           \* the nodes whose drawers are opened
  MaxMade,          \* calls made of each kind, paths picked, rules added
  Vias,             \* what the via field of a rule is given, None: nothing
  Paths             \* the paths picked on the map and their beginnings

Kinds == {"load", "submit"}

Acts == Kinds \cup {"path", "rule"}

ASSUME DrawerAssumption ==
  /\ IsFiniteSet(Nodes)
  /\ Opened \subseteq Nodes
  /\ Local \notin Nodes \cup {None}
  /\ Vias \subseteq Nodes \cup {Local, None}
  /\ Paths \subseteq Seq(Nodes)
  /\ MaxMade \in [Acts -> Nat]

VARIABLES
  stored,           \* the policy each stored node has at the controller
  calls,            \* calls in flight
  made,             \* how often each of Acts was done so far
  node,             \* policyNode, the node whose drawer is open, or None
  settings,         \* the form: egress peer, default route, bypass, next hop
  rules,            \* the rules shown
  currentPath,      \* the path chosen for the next rule
  pathModal,        \* the path selector is open
  path,             \* the nodes picked in it; the code clears it on opening
  slips             \* history: what may have gone wrong between load and save

shown == <<settings, rules>>
selector == <<currentPath, pathModal, path>>
vars == <<stored, calls, made, node, shown, selector, slips>>

DrawerRule == [dest : Dests \cup {None}, via : Nodes \cup {Local, None}, path : Seq(Nodes),
               home : Nodes]

Policy == [settings : Nodes \cup {None}, rules : Seq(DrawerRule)]

NoPolicy == [settings |-> None, rules |-> <<>>]

\* policy is the body of a submission, and the answer to a load.
Call == [id : Nat, kind : Kinds, node : Nodes,
         policy : Policy, state : {"sent", "answered", "failed"}]

Slips == {"load failed", "late answer", "early submit"}

DrawerTypeOK ==
  /\ stored \in [Nodes -> Policy]
  /\ made \in [Acts -> Nat]
  /\ calls \subseteq Call
  /\ \A c, d \in calls : c.id = d.id /\ c.kind = d.kind => c = d
  /\ \A c \in calls : c.id <= made[c.kind]
  /\ node \in Nodes \cup {None}
  /\ settings \in Nodes \cup {None}
  /\ rules \in Seq(DrawerRule)
  /\ currentPath \in Seq(Nodes)
  /\ pathModal \in BOOLEAN
  /\ path \in Seq(Nodes)
  /\ slips \subseteq Slips

-----------------------------------------------------------------------------
(* Each node's policy is its own at first: what its drawer or nothing gave. *)

OwnRule(n, r) == r.home = n

\* All of a policy was entered in the drawer of n.
Own(n, p) ==
  /\ p.settings \in {n, None}
  /\ \A i \in DOMAIN p.rules : OwnRule(n, p.rules[i])

LocalRule(n, d) == [dest |-> d, via |-> Local, path |-> <<>>, home |-> n]

Init ==
  /\ \E configured \in SUBSET Opened, d \in Dests :
       stored = [n \in Nodes |->
                   IF n \in configured
                     THEN [settings |-> n, rules |-> <<LocalRule(n, d)>>]
                     ELSE NoPolicy]
  /\ calls = {} /\ made = [k \in Acts |-> 0]
  /\ node = None
  /\ settings = None /\ rules = <<>>
  /\ currentPath = <<>> /\ pathModal = FALSE /\ path = <<>>
  /\ slips = {}

\* The drawer itself is in front: the path selector is not open over it.
InFront == node # None /\ ~pathModal

\* api(...): a call about node n is sent.
Ask(kind, n, p) ==
  /\ made[kind] < MaxMade[kind]
  /\ made' = [made EXCEPT ![kind] = @ + 1]
  /\ calls' = calls \cup {[id |-> made[kind] + 1, kind |-> kind, node |-> n,
                           policy |-> p, state |-> "sent"]}

Loading(n, cs) == \E c \in cs : c.kind = "load" /\ c.node = n

-----------------------------------------------------------------------------
(* What the user does. *)

\* mutant: the drawer loads only when it has nothing to show
Open_Once(n) ==
  /\ node = None
  /\ node' = n
  /\ IF rules = <<>> /\ settings = None
       THEN Ask("load", n, NoPolicy)
       ELSE UNCHANGED <<calls, made>>
  /\ UNCHANGED <<stored, shown, selector, slips>>

\* The button in the node table; the effect on [node, open] loads.
Open(n) ==
  /\ node = None
  /\ node' = n
  /\ Ask("load", n, NoPolicy)
  /\ UNCHANGED <<stored, shown, selector, slips>>

\* Everything but the node stays as it is.
Close ==
  /\ InFront
  /\ node' = None
  /\ UNCHANGED <<stored, calls, made, shown, selector, slips>>

EditSettings ==
  /\ InFront
  /\ settings' \in {node, None}
  /\ UNCHANGED <<stored, calls, made, node, rules, selector, slips>>

\* mutant: the exit is what the via field says although a path is chosen
NewRule_FormVia(d, via) ==
  [dest |-> d, via |-> via, path |-> currentPath, home |-> node]

\* mutant: the exit is the path itself
NewRule_WholePath(d, via) ==
  [dest |-> d, via |-> IF currentPath = <<>> THEN via ELSE currentPath,
   path |-> currentPath, home |-> node]

\* The exit is the last node of the path, if one is chosen, or the via field.
NewRule(d, via) ==
  [dest |-> d, via |-> IF currentPath = <<>> THEN via ELSE Last(currentPath),
   path |-> currentPath, home |-> node]

\* mutant: the via field is never required
ViaGiven_Never(via) == TRUE

\* The via field is required unless a path is chosen.
ViaGiven(via) == currentPath # <<>> \/ via # None

\* A destination is not required.
AddRule ==
  /\ InFront
  /\ made["rule"] < MaxMade["rule"]
  /\ made' = [made EXCEPT !["rule"] = @ + 1]
  /\ \E d \in Dests \cup {None}, via \in Vias :
       /\ ViaGiven(via)
       /\ rules' = Append(rules, NewRule(d, via))
  /\ currentPath' = <<>>
  /\ UNCHANGED <<stored, calls, node, settings, pathModal, path, slips>>

DeleteRule ==
  /\ InFront
  /\ \E i \in DOMAIN rules : rules' = RemoveAt(rules, i)
  /\ UNCHANGED <<stored, calls, made, node, settings, selector, slips>>

OpenSelector ==
  /\ InFront
  /\ made["path"] < MaxMade["path"]
  /\ made' = [made EXCEPT !["path"] = @ + 1]
  /\ pathModal' = TRUE
  /\ UNCHANGED <<stored, calls, node, shown, currentPath, path, slips>>

\* A click on a node of the map; one on the drawer's own node does nothing.
PickNode ==
  /\ pathModal
  /\ \E n \in Nodes \ {node} : path' = Append(path, n)
  /\ path' \in Paths
  /\ UNCHANGED <<stored, calls, made, node, shown, currentPath, pathModal, slips>>

FinishPath ==
  /\ pathModal
  /\ pathModal' = FALSE
  /\ currentPath' = path
  /\ path' = <<>>
  /\ UNCHANGED <<stored, calls, made, node, shown, slips>>

CancelPath ==
  /\ pathModal
  /\ pathModal' = FALSE
  /\ path' = <<>>
  /\ UNCHANGED <<stored, calls, made, node, shown, currentPath, slips>>

\* The form and the rules go out together, under the node now shown.
Submit ==
  /\ InFront
  /\ Ask("submit", node, [settings |-> settings, rules |-> rules])
  /\ slips' = slips \cup {x \in {"early submit"} : Loading(node, calls)}
  /\ UNCHANGED <<stored, node, shown, selector>>

-----------------------------------------------------------------------------
(* What the controller and the network do with a call. *)

Become(c, state, p) ==
  calls' = (calls \ {c}) \cup {[c EXCEPT !.state = state, !.policy = p]}

ServeGet ==
  /\ \E c \in calls :
       /\ c.state = "sent" /\ c.kind \in {"load"}
       /\ Become(c, "answered", stored[c.node])
  /\ UNCHANGED <<stored, made, node, shown, selector, slips>>

\* A list of rules without a valid one is refused; otherwise the policy is
\* replaced as a whole, rules that are not valid among it.
Accepted(p) == p.rules = <<>> \/ \E i \in DOMAIN p.rules : Valid(Normal(p.rules[i]))

ServePost ==
  /\ \E c \in calls :
       LET p == [c.policy EXCEPT !.rules = [i \in DOMAIN @ |-> Normal(@[i])]]
       IN /\ c.state = "sent" /\ c.kind = "submit"
          /\ IF Accepted(c.policy)
               THEN Become(c, "answered", p) /\ stored' = [stored EXCEPT ![c.node] = p]
               ELSE Become(c, "failed", c.policy) /\ UNCHANGED stored
  /\ UNCHANGED <<made, node, shown, selector, slips>>

\* The request is lost or refused: the token is no longer good, the controller
\* fails.  An answer that is lost leaves what a lost request leaves, or, to a
\* submission, what any answer leaves.
Lose ==
  /\ \E c \in calls : c.state = "sent" /\ Become(c, "failed", c.policy)
  /\ UNCHANGED <<stored, made, node, shown, selector, slips>>

-----------------------------------------------------------------------------
(* The continuations of the calls. *)

\* What can leave the drawer without its node's policy once nothing is loading.
SlipsOf(c) ==
  IF node = None \/ Loading(node, calls \ {c})
    THEN {}
    ELSE {x \in {"load failed"} : c.state = "failed" /\ c.node = node}
           \cup {x \in {"late answer"} : c.state = "answered" /\ c.node # node}

\* mutant: an answer without rules leaves the rules shown
LoadDone_KeepRules(c) ==
  /\ c.kind = "load" /\ c.state = "answered"
  /\ settings' = c.policy.settings
  /\ rules' = IF c.policy.rules = <<>> THEN rules ELSE c.policy.rules
  /\ slips' = slips \cup SlipsOf(c)

\* load: the form and the rules are set, whatever the drawer shows by now.
LoadDone(c) ==
  /\ c.kind = "load" /\ c.state = "answered"
  /\ settings' = c.policy.settings
  /\ rules' = c.policy.rules
  /\ slips' = slips \cup SlipsOf(c)

\* load: an error is reported and nothing is set.
LoadFailed(c) ==
  /\ c.kind = "load" /\ c.state = "failed"
  /\ slips' = slips \cup SlipsOf(c)
  /\ UNCHANGED shown

\* submit: the outcome is reported; the node table reloads (module Console).
SubmitDone(c) ==
  /\ c.kind = "submit" /\ c.state # "sent"
  /\ UNCHANGED <<shown, slips>>

Continue ==
  /\ \E c \in calls :
       /\ LoadDone(c) \/ LoadFailed(c) \/ SubmitDone(c)
       /\ calls' = calls \ {c}
  /\ UNCHANGED <<stored, made, node, selector>>

Next ==
  \/ \E n \in Opened : Open(n)
  \/ Close
  \/ EditSettings \/ AddRule \/ DeleteRule
  \/ OpenSelector \/ PickNode \/ FinishPath \/ CancelPath
  \/ Submit
  \/ ServeGet \/ ServePost \/ Lose
  \/ Continue

Spec == Init /\ [][Next]_vars

-----------------------------------------------------------------------------
(* Properties. *)

\* The drawer titled with a node saves that node's policy: no node is ever
\* stored with settings or rules entered in the drawer of another one.
OwnPolicies == \A n \in Nodes : Own(n, stored[n])

\* It takes one of three things for a policy to be stored under another node:
\* a load of the node shown that failed, an answer for an earlier node that
\* came last, or a submission before the node's own policy was loaded.  With
\* none of them every save is right, however often the drawer was closed and
\* opened for another node, calls were lost or answered in another order.
OwnUnlessSlip == slips = {} => OwnPolicies

\* The controller stores every rule of a list that has one valid rule, so it is
\* the drawer alone that keeps rules without an exit out of the store.
UsableRules ==
  \A n \in Nodes : \A i \in DOMAIN stored[n].rules :
    LET r == stored[n].rules[i] IN r.via # None \/ r.path # <<>>

Repeats(hops) == \E i, j \in DOMAIN hops : i # j /\ hops[i] = hops[j]

\* A path picked in the drawer without a repeated node becomes, after the
\* controller has spread it, one rule at each hop to the next one, none at the
\* exit or elsewhere, and the exit shown in the list is where it ends.
PathFollowed ==
  \A n \in Nodes : \A i \in DOMAIN stored[n].rules :
    LET r == stored[n].rules[i]
        hops == <<n>> \o r.path
    IN r.path # <<>> /\ ~Repeats(hops) =>
         /\ r.via = Last(hops)
         /\ \A k \in 1..Len(r.path) :
              RulesAt(hops[k], n, r) = {[r EXCEPT !.via = hops[k + 1], !.path = <<>>]}
         /\ \A m \in Nodes \ {hops[k] : k \in 1..Len(r.path)} : RulesAt(m, n, r) = {}

\* The statuses of the mesh the controller may answer, with its node list.
Meshes == {[list |-> list, links |-> MeshLinks(list, up)] :
             list \in SetToSeqs(Nodes), up \in SUBSET kSubset(2, Nodes)}

\* The map of a node list when the nodes in known have a location, all of them
\* in one city, and the others none.
Map(list, known) == Positions(list, [n \in known |-> "city"])

\* Whichever locations are known, every node is drawn, and those without one are
\* drawn apart (nodes of one city do share a place).
AllDrawn ==
  \A list \in SetToSeqs(Nodes), known \in SUBSET Nodes :
    /\ DOMAIN Map(list, known) = Nodes
    /\ \A m, n \in Nodes \ known : m # n => Map(list, known)[m] # Map(list, known)[n]

Ends(links) == {{l.from, l.to} : l \in links}

\* Whatever the mesh status, the segments listed as broken in the path selector
\* are the red ones in bold on the map above the list, on which every node is
\* drawn, and they are among the alarms of the mesh card; both their ends are
\* shown as critical.
SelectorFaithful ==
  path # <<>> =>
    /\ AllDrawn
    /\ \A mesh \in Meshes :
         LET hops == <<node>> \o path
             places == Map(mesh.list, {})
             broken == {{s[1], s[2]} : s \in DownSegments(mesh.links, hops)}
         IN /\ broken = Ends({l \in Bold(mesh.links, places, hops) : ~l.ok})
            /\ broken \subseteq Ends(DownLinks(mesh.links))
            /\ \A n \in UNION broken : Critical(mesh.links, n)
=============================================================================
