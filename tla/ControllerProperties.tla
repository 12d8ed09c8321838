------------------------- MODULE ControllerProperties -------------------------
(***************************************************************************)
(* What the controller's handlers should guarantee, or were meant to.      *)
(* Each property says under which requests (Ops) it is meant; README.md    *)
(* names the run that checks it.                                           *)
(***************************************************************************)
EXTENDS Controller

\* The store, the counters and every handler's locals have the types their
\* comments give: the shape the other properties rely on.
TypeOK ==
  /\ StoreTypeOK
  /\ planVersion \in Nat
  /\ minted \in Nat
  /\ pushed \in [Nodes -> Plan]
  /\ requests \in Nat
  /\ pc \in [Threads -> PCs]
  /\ call \in [Threads -> Call]
  /\ record \in [Threads -> Node]
  /\ DOMAIN listed = Threads /\ DOMAIN drafts = Threads
  /\ \A t \in Threads : /\ IsMap(listed[t], Nodes, Node)
                        /\ IsMap(drafts[t], PlanKeys, Body)
  /\ work \in [Threads -> Work]

-----------------------------------------------------------------------------
(* Plans and their versions: any requests, any number of handlers. *)

HasPlan(k) == plans[k].version # 0

\* The current plan of a key is one its history still holds, whole and under
\* its own version, though histories are trimmed and plans are rolled back
\* while others are being saved (SavePlan, RollbackPlan).
CurrentPlanInHistory ==
  \A k \in PlanKeys :
    HasPlan(k) => \E i \in DOMAIN history[k] : history[k][i] = plans[k]

\* Without rollbacks no two plans in the histories bear one version, however
\* handlers interleave between drawing a version and saving the plan: so a
\* version names one plan when it is rolled back to (RollbackPlan takes the
\* first that matches).
VersionsUnique ==
  \A k, l \in PlanKeys : \A i \in DOMAIN history[k], j \in DOMAIN history[l] :
    history[k][i].version = history[l][j].version => k = l /\ i = j

\* The version in work of a thread that has not saved its plan yet.
InFlight(t) == IF pc[t] = "store" THEN work[t].plan.version ELSE 0

\* Without rollbacks a version drawn and not yet saved is in no history and is
\* drawn by no other handler, and the counter is ahead of every version in
\* use: what makes VersionsUnique inductive.
DrawnVersionsFresh ==
  /\ \A t, u \in Threads :
       InFlight(t) # 0 /\ InFlight(t) = InFlight(u) => t = u
  /\ \A t \in Threads : InFlight(t) <= planVersion
  /\ \A k \in PlanKeys : \A i \in DOMAIN history[k] :
       /\ history[k][i].version \in 1..planVersion
       /\ \A t \in Threads : InFlight(t) # history[k][i].version

\* The handlers implement the abstract plan log: however requests interleave,
\* what happens to counter, plans and histories is a behaviour of PlanLog.
Log == INSTANCE PlanLog WITH
  Keys <- PlanKeys, Publishers <- Threads, Contents <- Body,
  Blank <- EmptyBody, Limit <- HistoryLimit, Restores <- "rollback" \in Ops,
  counter <- planVersion, claim <- [t \in Threads |-> InFlight(t)],
  current <- plans, log <- history

ImplementsPlanLog == Log!Spec

-----------------------------------------------------------------------------
(* Node records. *)

\* When no client submits a key of its own, the two halves of a stored key
\* pair and the token come from one prepare, though registrations write back
\* records they read long before (the whole record is merged and saved).
ProvisionedTogether ==
  \A n \in DOMAIN nodes :
    nodes[n].pub = nodes[n].priv /\ nodes[n].priv = nodes[n].token

\* A node's record changes, its policy apart, only under a higher config
\* version, though handlers overwrite each other's records
\* (model/node.go: "monotonically increasing").
ConfigVersionGrows ==
  [][\A n \in DOMAIN nodes :
       \/ nodes'[n].cv > nodes[n].cv
       \/ nodes'[n] = [nodes[n] EXCEPT !.rules = nodes'[n].rules,
                                      !.route = nodes'[n].route]]_vars

\* The value of a field after a form is merged with what was stored.
Field(new, old, empty) == IF new = empty THEN old ELSE new

\* Record r is record old with the edits of form f, the peer endpoints apart;
\* an overlay address that old has stays.
Edited(r, old, f) ==
  /\ r.pub = Field(f.pub, old.pub, 0)
  /\ r.overlay = Field(old.overlay, f.overlay, 0)
  /\ r.link = Field(f.link, old.link, None)
  /\ r.cidrs = Field(f.cidrs, old.cidrs, None)

\* A registration leaves in the store what its form brings and, for what the
\* form leaves empty, what it read.  Its edit of the peer endpoints is dropped
\* only if it is not forced and the form brings nothing else that is new; and
\* what it leaves is another handler's record only if the form brought nothing
\* new to the record it read and that record has been replaced since.
SubmissionStored ==
  [][\A t \in Threads : RegisterSave(t) =>
       LET n == call[t].node
           f == call[t].form
           read == record[t]
           r == nodes'[n]
           news == f.force \/ read.cv = 0 \/ ~Edited(read, read, f)
       IN \/ /\ Edited(r, read, f)
             /\ r.peps = IF news THEN Field(f.peps, read.peps, None) ELSE read.peps
          \/ ~news /\ read # GetNode(n) /\ r = GetNode(n)]_vars

-----------------------------------------------------------------------------
(* Plans and node records. *)

\* The plan of node n says what the stored nodes and reports say now.
PlanFresh(n) == plans[n].body = PlanBody(n, nodes, health)

\* "recompute plans for all nodes to propagate new peer" (controller.go): when
\* all registrations have been answered, the plan of every node follows from the
\* stored nodes, policies and reports.
PlansSettle ==
  Quiescent => \A n \in DOMAIN nodes : PlanFresh(n)

-----------------------------------------------------------------------------
(* Progress, under fairness of the handlers that run (HFairSpec). *)

=============================================================================
