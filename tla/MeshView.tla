------------------------------- MODULE MeshView -------------------------------
(***************************************************************************)
(* What the web console draws of the mesh: the map of nodes and links      *)
(* (components/MeshStatus.jsx), the path picked on it and the list of its  *)
(* broken segments (PolicyDrawer.jsx, PathSelectorModal).  Pure functions  *)
(* of the mesh status the controller answers and of the picked path.       *)
(***************************************************************************)
EXTENDS Integers, Sequences, FiniteSets, SequencesExt

\* A link of the mesh status; its telemetry and its reason are left out.
Link(from, to, ok) == [from |-> from, to |-> to, ok |-> ok]

\* What the controller answers: one link for each pair of its node list, from
\* the node listed first; up holds the pairs whose telemetry is good.
MeshLinks(list, up) ==
  {Link(list[p[1]], list[p[2]], {list[p[1]], list[p[2]]} \in up) :
     p \in {q \in (1..Len(list)) \X (1..Len(list)) : q[1] < q[2]}}

-----------------------------------------------------------------------------
(* The map. *)

\* A node whose location is known is drawn there; the others are spread on a
\* circle, each at the angle of how many unknown ones are listed before it.
Positions(list, location) ==
  LET index(n) == CHOOSE i \in DOMAIN list : list[i] = n
      before(i) == {j \in 1..(i - 1) : list[j] \notin DOMAIN location}
  IN [n \in ToSet(list) |->
        IF n \in DOMAIN location
          THEN <<"at", location[n]>>
          ELSE <<"circle", Cardinality(before(index(n)))>>]

\* The directed pairs of a path to highlight, both ways.
PathSet(hops) ==
  UNION {{<<hops[i], hops[i + 1]>>, <<hops[i + 1], hops[i]>>} :
           i \in 1..(Len(hops) - 1)}

\* A link is drawn when both its ends are, red when it is not ok, and in bold
\* when it is on the highlighted path.
Drawn(links, positions) ==
  {l \in links : {l.from, l.to} \subseteq DOMAIN positions}

Bold(links, positions, hops) ==
  LET highlighted == PathSet(hops)
  IN {l \in Drawn(links, positions) : <<l.from, l.to>> \in highlighted}

\* The links listed as broken below the map, and the nodes shown as critical.
DownLinks(links) == {l \in links : ~l.ok}

Critical(links, n) == \E l \in links : ~l.ok /\ n \in {l.from, l.to}

-----------------------------------------------------------------------------
(* The broken segments of a path. *)

\* mutant: a link is found in the direction of the path only
Joins_OneWay(l, a, b) == l.from = a /\ l.to = b

Joins(l, a, b) == {l.from, l.to} = {a, b}

\* The code takes the first link that joins the two: there is at most one.
Broken(links, a, b) == \E l \in links : Joins(l, a, b) /\ ~l.ok

DownSegments(links, hops) ==
  {<<hops[i], hops[i + 1]>> :
     i \in {j \in 1..(Len(hops) - 1) : Broken(links, hops[j], hops[j + 1])}}
=============================================================================
