------------------------------- MODULE MCConsole -------------------------------
(***************************************************************************)
(* Values of the constants of Console for TLC.                             *)
(***************************************************************************)
EXTENDS Console, TLC

CONSTANTS n1, n2, n3, b1, b2

Two == {n1, n2}
Three == {n1, n2, n3}

Plays(u, slots, stored) == [uses |-> u, slots |-> 1..slots, stored |-> stored]

\* Three calls in flight where late answers of other nodes matter most; a third
\* node where a choice for it is made for two others; two nodes elsewhere.
SomeScenarios ==
  {Plays({"auth"}, 2, {{n1}}), Plays({"auth", "inputs"}, 2, {{n1}}),
   Plays({"history"}, 3, {Two}), Plays({"diagnose"}, 3, {Two}),
   Plays({"endpoints"}, 2, {Two}), Plays({"endpoints", "patient"}, 2, {Three}),
   Plays({"newnode"}, 2, {{n1}}), Plays({"settings"}, 2, {{n1}}),
   Plays({"install"}, 3, {Two}),
   Plays({"policy"}, 3, {Two}), Plays({"policy", "probes"}, 2, {Two})}
=============================================================================
