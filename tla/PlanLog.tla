------------------------------- MODULE PlanLog -------------------------------
(***************************************************************************)
(* What the controller promises about plans, without handlers, nodes or    *)
(* requests: publishers draw version numbers from one counter, commit      *)
(* plans under them to the log of a key, and the plan a key has now is one *)
(* the log still holds.  A restore makes a logged plan current again and   *)
(* may then set the counter back, after which versions are drawn twice.    *)
(***************************************************************************)
EXTENDS Integers, Sequences

CONSTANTS
  Keys,             \* what plans are saved under
  Publishers,       \* what may publish at the same time
  Contents,         \* what a plan says
  Blank,            \* the content of a plan that was never saved
  Limit,            \* plans a log keeps
  Restores          \* BOOLEAN: may plans be restored?

VARIABLES
  counter,          \* the last version drawn
  claim,            \* claim[p]: version publisher p drew and has not committed
  current,          \* current[k]: the plan of key k
  log               \* log[k]: the last plans committed for k, oldest first

logVars == <<counter, claim, current, log>>

Entry == [version : Nat, body : Contents]
NoEntry == [version |-> 0, body |-> Blank]

Init ==
  /\ counter = 0
  /\ claim = [p \in Publishers |-> 0]
  /\ current = [k \in Keys |-> NoEntry]
  /\ log = [k \in Keys |-> <<>>]

Last(s) == IF Len(s) > Limit THEN SubSeq(s, Len(s) - Limit + 1, Len(s)) ELSE s

Tick ==
  /\ counter' = counter + 1
  /\ UNCHANGED <<claim, current, log>>

Claim(p) ==
  /\ claim[p] = 0
  /\ counter' = counter + 1
  /\ claim' = [claim EXCEPT ![p] = counter + 1]
  /\ UNCHANGED <<current, log>>

\* The plan committed is whatever current'[k] holds, of the version drawn.
Commit(p, k) ==
  LET e == current'[k]
  IN /\ claim[p] # 0
     /\ e \in Entry
     /\ e.version = claim[p]
     /\ claim' = [claim EXCEPT ![p] = 0]
     /\ current' = [current EXCEPT ![k] = e]
     /\ log' = [log EXCEPT ![k] = Last(Append(@, e))]
     /\ UNCHANGED counter

Restore(k) ==
  \E i \in DOMAIN log[k] :
    /\ Restores
    /\ current' = [current EXCEPT ![k] = log[k][i]]
    /\ UNCHANGED <<counter, claim, log>>

SetBack ==
  /\ Restores
  /\ counter' \in Nat
  /\ UNCHANGED <<claim, current, log>>

Next ==
  \/ Tick
  \/ \E p \in Publishers : Claim(p)
  \/ \E p \in Publishers, k \in Keys : Commit(p, k)
  \/ \E k \in Keys : Restore(k)
  \/ SetBack

Spec == Init /\ [][Next]_logVars

-----------------------------------------------------------------------------

TypeOK ==
  /\ counter \in Nat
  /\ claim \in [Publishers -> Nat]
  /\ current \in [Keys -> Entry]
  /\ log \in [Keys -> Seq(Entry)]

\* The plan a key has is one its log still holds (SavePlan, RollbackPlan).
CurrentInLog ==
  \A k \in Keys :
    current[k].version # 0 => \E i \in DOMAIN log[k] : log[k][i] = current[k]

\* No two logged plans bear one version (savePlanWithRules draws a new one).
VersionsUnique ==
  \A k, l \in Keys : \A i \in DOMAIN log[k], j \in DOMAIN log[l] :
    log[k][i].version = log[l][j].version => k = l /\ i = j

\* A version drawn and not committed is drawn once and logged nowhere, and the
\* counter is at or past every version in use.
ClaimsFresh ==
  /\ \A p, q \in Publishers : claim[p] # 0 /\ claim[p] = claim[q] => p = q
  /\ \A p \in Publishers : claim[p] <= counter
  /\ \A k \in Keys : \A i \in DOMAIN log[k] :
       /\ log[k][i].version \in 1..counter
       /\ \A p \in Publishers : claim[p] # log[k][i].version
=============================================================================
