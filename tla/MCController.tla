----------------------------- MODULE MCController -----------------------------
(***************************************************************************)
(* Values of the constants of Controller for TLC.                          *)
(***************************************************************************)
EXTENDS ControllerProperties, TLC

CONSTANTS n1, n2, t1, t2, v1, d1

MCNodes == {n1, n2}
OneNode == {n1}
ThreadsSymmetric == Permutations({t1, t2})
TwoThreads == {t1, t2}
Symmetric == Permutations(MCNodes) \cup Permutations(TwoThreads)

Blank == [pub |-> 0, overlay |-> 0, link |-> None, cidrs |-> None,
          peps |-> None, force |-> FALSE]

\* An agent that brings its CIDRs, the same with a public key of its own, and
\* an edit of the peer endpoints.
AgentForm == [Blank EXCEPT !.cidrs = v1]
KeyedForm == [AgentForm EXCEPT !.pub = 9]
EndpointForm == [Blank EXCEPT !.peps = v1]

KeyedForms == {KeyedForm}
EditForms == {AgentForm, EndpointForm}

NoPolicies == {}
RoutePolicy == [rules |-> {}, route |-> v1]
PathPolicies ==
  {RoutePolicy} \cup
  {[rules |-> {[dest |-> d1, via |-> None, path |-> <<a, b>>]}, route |-> None] :
     a, b \in MCNodes}
=============================================================================
