------------------------------ MODULE PlanRules ------------------------------
(***************************************************************************)
(* The pure functions of the peer-wan controller: who is whose peer, how a *)
(* policy path is spread over its hops, how a registration is merged with  *)
(* the stored node, and which overlay address the next node gets.          *)
(*                                                                         *)
(* A Go map from node IDs is a function whose domain is the set of its     *)
(* keys; an empty Go string, slice or number is None (or 0 for the fields  *)
(* that are numbered), and a missing node is ZeroNode, as in the code.     *)
(***************************************************************************)
EXTENDS Integers, Sequences

CONSTANTS
  Nodes,            \* node IDs
  Values,           \* opaque contents of a field (endpoints, CIDRs, ...)
  Dests,            \* what a policy rule matches: a prefix or domain list
  None,             \* the empty value of a field
  LastOverlay,      \* 10.10.1.1/32 .. 10.10.<LastOverlay>.1/32 are handed out
  FallbackOverlay   \* handed out when all of them are used

ASSUME ConstantsAssumption ==
  /\ None \notin Nodes \cup Values
  /\ LastOverlay \in Nat \ {0}
  /\ FallbackOverlay \in 1..LastOverlay

Optional == Values \cup {None}

Status == {"unknown", "up", "down"}     \* "unknown": no report was stored

\* dest is a prefix or a list of domains, None when both are left empty.
Rule == [dest : Dests \cup {None}, via : Nodes \cup {None}, path : Seq(Nodes)]

(***************************************************************************)
(* A stored node.  link stands for the fields that are merged and compared *)
(* alike (endpoints, listen port, ASN, router ID); None is none of them, or *)
(* the defaults prepare sets.  route stands for the egress settings (egress *)
(* peer, default route, bypass CIDRs, next hop).  Keys and tokens are      *)
(* numbered: the pair pub = priv = k is one key pair.                      *)
(***************************************************************************)
Node == [pub : Nat, priv : Nat, token : Nat, overlay : Nat, link : Optional,
         cidrs : Optional, peps : Optional, rules : SUBSET Rule,
         route : Optional, cv : Nat]

ZeroNode == [pub |-> 0, priv |-> 0, token |-> 0, overlay |-> 0, link |-> None,
             cidrs |-> None, peps |-> None, rules |-> {}, route |-> None,
             cv |-> 0]

\* What a registration request carries (its token is chosen apart).
Form == [pub : Nat, overlay : Nat, link : Optional, cidrs : Optional,
         peps : Optional, force : BOOLEAN]

Peer == [id : Nodes, pub : Nat, link : Optional, overlay : Nat,
         cidrs : Optional]

\* What a plan says to its node, its version apart.
Body == [peers : SUBSET Peer, routes : Optional, peps : Optional,
         route : Optional, rules : SUBSET Rule]

\* f is a Go map with keys in K and values in V.
IsMap(f, K, V) == DOMAIN f \subseteq K /\ f \in [DOMAIN f -> V]

Put(f, k, v) == [x \in DOMAIN f \cup {k} |-> IF x = k THEN v ELSE f[x]]

-----------------------------------------------------------------------------
(* Peer plans. *)

PeerOf(n, r) == [id |-> n, pub |-> r.pub, link |-> r.link,
                 overlay |-> r.overlay, cidrs |-> r.cidrs]

Reachable(r, status) == r.cidrs # None /\ r.pub # 0 /\ status # "down"

\* The full mesh: every other node that has CIDRs and a key and is not down.
\* Latency and FRR state order the peers of a plan and select none: left out.
BuildPeerPlan(target, list, status) ==
  {PeerOf(n, list[n]) :
     n \in {m \in DOMAIN list \ {target} : Reachable(list[m], status[m])}}

-----------------------------------------------------------------------------
(* Policy rules. *)

Valid(r) == r.dest # None /\ (r.via # None \/ r.path # <<>>)

Normal(r) == IF r.via = None /\ r.path # <<>>
               THEN [r EXCEPT !.via = r.path[Len(r.path)]] ELSE r

\* The rules that rule r of node src puts on node n: each hop of
\* src -> path[1] -> ... -> path[Len] but the last forwards to the next.
RulesAt(n, src, r) ==
  LET hop == <<src>> \o r.path
  IN IF r.path = <<>>
       THEN {x \in {r} : n = src}
       ELSE {[r EXCEPT !.via = hop[i + 1], !.path = <<>>] :
               i \in {j \in 1..Len(r.path) : hop[j] = n}}

ExpandPolicyRules(list, n) ==
  UNION {UNION {RulesAt(n, m, r) : r \in list[m].rules} : m \in DOMAIN list}

-----------------------------------------------------------------------------
(* Plan bodies. *)

BodyOf(r, peers, rules) ==
  [peers |-> peers, routes |-> r.cidrs, peps |-> r.peps, route |-> r.route,
   rules |-> rules]

\* What RecomputeAllPlans and GET /plan save for node n.
PlanBody(n, list, status) ==
  BodyOf(list[n], BuildPeerPlan(n, list, status), ExpandPolicyRules(list, n))

-----------------------------------------------------------------------------
(* Registration. *)

\* mutant: a field left empty clears the stored one
Or_Clear(new, old, empty) == new

Or(new, old, empty) == IF new = empty THEN old ELSE new

\* Both paths of the handler merge alike: a field left empty keeps its stored
\* value, a stored overlay address and token always win, and the policy
\* fields are not carried over.  old is ZeroNode for a node not yet stored.
Merge(form, old) ==
  [ZeroNode EXCEPT !.pub = Or(form.pub, old.pub, 0), !.priv = old.priv,
     !.token = old.token,
     !.overlay = Or(old.overlay, form.overlay, 0),
     !.link = Or(form.link, old.link, None),
     !.cidrs = Or(form.cidrs, old.cidrs, None),
     !.peps = Or(form.peps, old.peps, None)]

\* mutant: keys and CIDRs are not compared
NodeEqual_AddressOnly(a, b) == a.overlay = b.overlay /\ a.link = b.link

\* Peer endpoints, keys' private halves, tokens and policies are not compared.
NodeEqual(a, b) ==
  /\ a.pub = b.pub
  /\ a.overlay = b.overlay
  /\ a.link = b.link
  /\ a.cidrs = b.cidrs

-----------------------------------------------------------------------------
(* Overlay addresses. *)

\* mutant: the addresses in use are not looked at
AssignOverlay_Blind(list) == 1

\* The lowest free address, or the fallback when there is none.
AssignOverlay(list) ==
  LET free == (1..LastOverlay) \ {list[n].overlay : n \in DOMAIN list}
  IN IF free = {} THEN FallbackOverlay
                  ELSE CHOOSE i \in free : \A j \in free : i <= j
=============================================================================
