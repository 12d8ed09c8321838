------------------------------ MODULE MCAgentPlan ------------------------------
(***************************************************************************)
(* Values of the constants of AgentPlan for TLC.                           *)
(***************************************************************************)
EXTENDS AgentPlan, TLC

Up(x, n) == [y \in Happenings |-> IF y = x THEN n ELSE 0]

Sum3(f, g, h) == [x \in Happenings |-> f[x] + g[x] + h[x]]

Nothing == Up("plan", 0)

\* Three plans pushed; two beside a policy, a command, a crash, a failure or
\* something deleted; one beside two of these.
Others == {"install", "drift", "fault", "crash"}

SomeBudgets ==
  {Up("plan", 3)}
    \cup {Sum3(Up("plan", 2), Up(x, 1), Nothing) : x \in Others \cup {"policy"}}
    \cup {Sum3(Up("plan", 1), Up(x, 1), Up(y, 1)) : x, y \in Others}

OnePolicy == {Sum3(Up("plan", 1), Up("policy", 1), Nothing)}
=============================================================================
