--------------------------- MODULE ControllerHistory ---------------------------
(***************************************************************************)
(* Which interleavings of handlers do damage.  A handler reads, goes on    *)
(* without a lock and saves what it made of it; the history variables      *)
(* below are kept beside the state of Controller, whose steps they do not  *)
(* restrict, and say which handlers others have overtaken in between.  The *)
(* properties are about any number of handlers: only the handlers named    *)
(* can lose a token, repeat an address or leave an old plan.               *)
(***************************************************************************)
EXTENDS ControllerProperties

VARIABLES
  overtaken,  \* handlers that hold a record and whose node has been given
              \* keys and token by another handler since they read it
  crowded,    \* prepares since whose choice of an address others were given
  behind,     \* handlers that make plans of nodes or reports since changed
  displaced,  \* nodes whose current plan was not made of all that was stored
  unsent      \* nodes whose current plan need not be the one pushed last

slipVars == <<overtaken, crowded, behind, displaced, unsent>>
hvars == <<vars, slipVars>>

HInit ==
  /\ Init
  /\ overtaken = {} /\ crowded = {} /\ behind = {}
  /\ displaced = {} /\ unsent = {}

-----------------------------------------------------------------------------
(* Records. *)

\* Between reading a node's record and saving it.
Holding(t) ==
  \/ Serving(t, "register") /\ pc[t] = "save"
  \/ Serving(t, "prepare") /\ pc[t] \in {"assign", "save"}

\* Between choosing an overlay address and saving it.
Chosen(t) == Serving(t, "prepare") /\ pc[t] = "save"

\* Handler t gives its node keys, token and address: a prepare does, and so
\* does a registration that writes back those it read before it was overtaken.
Provides(t) == PrepareSave(t) \/ (t \in overtaken /\ RegisterSave(t))

TrackRecords ==
  /\ overtaken' = {u \in Threads :
       /\ Holding(u)'
       /\ \/ u \in overtaken
          \/ Holding(u) /\ \E t \in Threads \ {u} :
                             Provides(t) /\ call[t].node = call[u].node}
  /\ crowded' = {u \in Threads :
       /\ Chosen(u)'
       /\ \/ u \in crowded
          \/ Chosen(u) /\ \E t \in Threads \ {u} : Provides(t)}

-----------------------------------------------------------------------------
(* Plans. *)

Planning(t) == Serving(t, "register") \/ Serving(t, "getPlan")

HasNodes(t) ==
  /\ Planning(t)
  /\ pc[t] \in {"listHealth", "claim", "store", "global", "push", "bump"}

HasReports(t) == HasNodes(t) /\ pc[t] # "listHealth"

StoresPlan(t, n) == StorePlan(t) /\ work[t].key = n

RollsBack(t, n) == RollbackSave(t) /\ call[t].node = n /\ pc'[t] = "reset"

\* Between saving a plan of node n and pushing it.
Publishing(t, n) == pc[t] \in {"global", "push"} /\ work[t].key = n

\* The plan a health report makes knows neither the record of its node nor the
\* reports of others.
TrackPlans ==
  /\ behind' = {u \in Threads :
       /\ HasNodes(u)'
       /\ \/ u \in behind
          \/ HasNodes(u) /\ nodes' # nodes
          \/ HasReports(u) /\ health' # health}
  /\ displaced' = {n \in Nodes :
       \/ n \in displaced /\ ~\E t \in Threads : StoresPlan(t, n)
       \/ \E t \in Threads :
            StoresPlan(t, n) /\ (t \in behind \/ Serving(t, "health"))
       \/ \E t \in Threads : RollsBack(t, n)}
  /\ unsent' = {n \in Nodes :
       \/ n \in unsent /\ ~\E t \in Threads : StoresPlan(t, n)
       \/ \E t, u \in Threads : StoresPlan(t, n) /\ Publishing(u, n)
       \/ \E t \in Threads : RollsBack(t, n)}

HNext == Next /\ TrackRecords /\ TrackPlans

HSpec == HInit /\ [][HNext]_hvars

\* A handler that has been started runs; clients need not send anything.
HFairSpec == HSpec /\ \A t \in Threads : WF_vars(Serve(t))

-----------------------------------------------------------------------------
(* What a handler that was not overtaken does to the records. *)

Saves(t) == PrepareSave(t) \/ RegisterSave(t)

\* "always keep existing token once assigned" (controller.go): a token that a
\* node has is replaced or lost only by a handler that, between reading the
\* node's record and saving it, was overtaken by a prepare of the same node, or
\* by a handler overtaken in this way.  Registrations alone never lose one,
\* though each writes back the whole record it read.
TokenKept ==
  [][\A n \in DOMAIN nodes :
       \/ nodes[n].token = 0
       \/ nodes'[n].token = nodes[n].token
       \/ \E t \in overtaken : Saves(t) /\ call[t].node = n]_hvars

ShareAddress(m, n) ==
  m # n /\ nodes[m].overlay # 0 /\ nodes[m].overlay = nodes[n].overlay

\* Two nodes come to share an overlay address (tutorial.md: overlay IPs are
\* unique) only when a handler saves that was overtaken, or a prepare that chose
\* its address from a node list to which another prepare has added one since,
\* as long as addresses are left and clients submit none.
OverlayUnique ==
  [][\A m, n \in DOMAIN nodes' :
       \/ ~ShareAddress(m, n)'
       \/ {m, n} \subseteq DOMAIN nodes /\ ShareAddress(m, n)
       \/ \E t \in overtaken \cup crowded : Saves(t)]_hvars

-----------------------------------------------------------------------------
(* What handlers that were not overtaken leave in the plans. *)

\* "recompute plans for all nodes to propagate new peer" (controller.go): when
\* a registration has saved its plans, and nothing it made them of has changed,
\* every node's plan follows from the stored nodes, policies and reports, unless
\* that node's plan was saved since by a handler that had read the store before
\* its last change, by a health report or by a rollback.
RegistrationsPropagate ==
  \A t \in Threads \ behind :
    Serving(t, "register") /\ pc[t] = "bump"
      => \A n \in DOMAIN nodes \ displaced : PlanFresh(n)

\* The plan a node was sent last is its current one, or is about to be sent,
\* unless two handlers were publishing the node's plan at the same time or it
\* was rolled back; the next plan that is published alone mends this.
PushedIsCurrent ==
  \A n \in Nodes \ unsent :
    pushed[n] = plans[n] \/ \E t \in Threads : Publishing(t, n)
=============================================================================
