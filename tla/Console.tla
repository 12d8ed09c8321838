-------------------------------- MODULE Console --------------------------------
(***************************************************************************)
(* The web console around the policy editor (src/frontend/src): signing in *)
(* (App, Login, Register, api.js), the tables of the admin page (useAsync),*)
(* and its panels, each a component that lives on when it is closed: ping  *)
(* history, diagnosis, endpoints, new node, settings, install command, and *)
(* the feeds of the policy drawer (status, tasks, diagnosis, verification).*)
(*                                                                         *)
(* JavaScript runs one handler or continuation at a time; between the call *)
(* and the continuation of an await anything else may run, and calls are   *)
(* served and answered in any order.  What a panel shows is abstracted to  *)
(* the node it is about.  Calls are not bounded in number, only in flight. *)
(***************************************************************************)
EXTENDS Integers, FiniteSets, Functions

CONSTANTS
  Nodes,            \* node IDs
  Bases,            \* base URLs: one for each controller
  None,
  Hooks,            \* tables loaded by useAsync: info, nodes, mesh
  Chosen,           \* the nodes to which endpoints are chosen
  Scenarios         \* what the user of a behaviour does, see Scenario

Features == {"auth", "inputs", "history", "diagnose", "endpoints", "newnode",
             "settings", "install", "policy", "probes", "patient"}

\* A behaviour's user uses the features in uses, waiting for every answer and
\* meeting no failure if "patient" is among them; its calls in flight have IDs
\* in slots; stored is a set of nodes that may be stored when the page loads.
Scenario == [uses : SUBSET Features, slots : SUBSET Nat, stored : SUBSET SUBSET Nodes]

Modals == {"history", "diagnose", "endpoints", "policy"}      \* of one node

Flags == {"form", "history", "diagnose", "endpoints", "newnode",
          "geoip", "status", "report", "verify"}

Spinners == Hooks \cup Flags

\* The calls that are made for a node, and those that are not.
NodeKinds == {"history", "diagnose", "endpoints", "saveEndpoints", "newnode",
              "install", "status", "tasks", "command", "report", "verify"}

OtherKinds == {"login", "register", "geoip", "saveGeoip", "diag", "saveDiag"}

Kinds == Hooks \cup NodeKinds \cup OtherKinds

ASSUME ConsoleAssumption ==
  /\ None \notin Nodes \cup Bases
  /\ Chosen \subseteq Nodes
  /\ Hooks \cap (Flags \cup NodeKinds \cup OtherKinds) = {}
  /\ "nodes" \in Hooks /\ IsFiniteSet(Hooks)
  /\ Scenarios \subseteq Scenario
  /\ \A s \in Scenarios : /\ IsFiniteSet(s.slots)
                         /\ Cardinality(Hooks) <= Cardinality(s.slots)

VARIABLES
  scene,            \* the scenario of this behaviour
  base, token,      \* storage: a token is the base whose controller gave it
  adminSet,         \* storage: somebody has signed in from this browser
  view,             \* the page: login, register or app
  seen,             \* the token of the last run of the effects on [token]
  at,               \* the modal that is open and its node, or the page alone
  busy,             \* the loading flags
  failed,           \* the error of each hook is set
  data,             \* what each hook shows: the nodes listed, or None
  about,            \* whose data each panel shows
  form,             \* the endpoint form: whose choice it holds for each node
  mounted,          \* the settings modal has been opened: its cards exist
  calls,            \* calls in flight
  admins,           \* the controllers with a registered user
  store,            \* the nodes stored
  peps              \* the endpoint choices stored for each node, by whom

storage == <<base, token, adminSet>>
page == <<view, seen, at, busy, failed, data, about, form, mounted>>
server == <<admins, store, peps>>
vars == <<scene, storage, page, calls, server>>

uses == scene.uses

NoChoice == [m \in Nodes |-> None]

Closed == <<"none", None>>

Slots == UNION {s.slots : s \in Scenarios}

Call ==
  {c \in [id : Slots, kind : Kinds, node : Nodes \cup {None}, base : Bases,
          good : BOOLEAN,                           \* the token is the base's
          shown : BOOLEAN,                          \* its form is still shown
          choices : [Nodes -> Nodes \cup {None}],
          list : SUBSET Nodes,
          state : {"sent", "counted", "ok", "failed"}] :
     c.node \in Nodes <=> c.kind \in NodeKinds}

Panels == {"history", "diagnose", "status", "tasks", "report", "install"}

ConsoleTypeOK ==
  /\ scene \in Scenarios
  /\ base \in Bases /\ token \in Bases \cup {None} /\ adminSet \in BOOLEAN
  /\ view \in {"login", "register", "app"}
  /\ seen \in Bases \cup {None}
  /\ at \in {Closed} \cup (Modals \X Nodes)
               \cup ({"newnode", "settings", "install"} \X {None})
  /\ busy \in [Spinners -> BOOLEAN]
  /\ failed \in [Hooks -> BOOLEAN]
  /\ data \in [Hooks -> (SUBSET Nodes) \cup {{None}}]
  /\ about \in [Panels -> Nodes \cup {None}]
  /\ form \in [Nodes -> Nodes \cup {None}]
  /\ mounted \in BOOLEAN
  /\ calls \subseteq Call
  /\ \A c, d \in calls : c.id = d.id => c = d
  /\ admins \subseteq Bases
  /\ store \subseteq Nodes
  /\ peps \in [Nodes -> [Nodes -> Nodes \cup {None}]]

-----------------------------------------------------------------------------
(* Calls. *)

\* A call about node n to base b with token t; those about no node say None.
To(kind, n, b, t) ==
  [id |-> 0, kind |-> kind, node |-> n, base |-> b, good |-> t = b,
   shown |-> TRUE, choices |-> NoChoice, list |-> {}, state |-> "sent"]

\* api(): the base and the token are those in storage when the call is made.
Api(kind, n) == To(kind, n, base, token)

Free(cs) == scene.slots \ {c.id : c \in cs}

\* The calls K are in flight beside cs, each with an ID that is free.
Sent(cs, K) ==
  LET id == CHOOSE f \in [K -> Free(cs)] : IsInjective(f)
  IN cs \cup {[k EXCEPT !.id = id[k]] : k \in K}

Room(cs, K) == Cardinality(K) <= Cardinality(Free(cs))

Send(cs, K) == Room(cs, K) /\ calls' = Sent(cs, K)

HookCalls(b, t) == {To(h, None, b, t) : h \in Hooks}

\* The flags in S become v.
Set(f, S, v) == [x \in DOMAIN f |-> IF x \in S THEN v ELSE f[x]]

-----------------------------------------------------------------------------
(* Signing in. *)

\* App: where a loaded page begins.
InitialView(t, set) == IF t # None THEN "app" ELSE IF set THEN "login" ELSE "register"

\* A page is loaded with t in storage: every component is new, and if it is the
\* admin page the effects of its hooks run.
FreshPage(b, t, set) ==
  LET v == InitialView(t, set)
      loading == IF v = "app" THEN Hooks ELSE {}
  IN [view |-> v, busy |-> [s \in Spinners |-> s \in loading],
      calls |-> Sent({}, {To(h, None, b, t) : h \in loading})]

\* The endpoints of some nodes have been chosen.
Init ==
  /\ scene \in Scenarios
  /\ base \in Bases
  /\ token \in IF "auth" \in uses THEN {None} ELSE {base}
  /\ adminSet \in IF "auth" \in uses THEN BOOLEAN ELSE {TRUE}
  /\ view = FreshPage(base, token, adminSet).view
  /\ busy = FreshPage(base, token, adminSet).busy
  /\ calls = FreshPage(base, token, adminSet).calls
  /\ seen = token
  /\ at = Closed
  /\ failed = [h \in Hooks |-> FALSE]
  /\ data = [h \in Hooks |-> {None}]
  /\ about = [p \in Panels |-> None]
  /\ form = NoChoice
  /\ mounted = FALSE
  /\ admins \in IF "auth" \in uses THEN SUBSET Bases ELSE {Bases}
  /\ store \in scene.stored
  /\ \E S \in SUBSET (Nodes \ Chosen), m \in Chosen :
       /\ "endpoints" \notin uses => S = {}
       /\ peps = [n \in Nodes |-> IF n \in S THEN [NoChoice EXCEPT ![m] = n] ELSE NoChoice]

\* A user who uses f does something; a patient one waits until all is answered.
User(f) == f \in uses /\ ("patient" \in uses => calls = {})

panels == <<at, failed, data, about, form, mounted>>

\* The link to the other form: the form shown is unmounted, its call goes on.
SwitchForm ==
  /\ User("auth")
  /\ view \in {"login", "register"}
  /\ view' = IF view = "login" THEN "register" ELSE "login"
  /\ busy' = [busy EXCEPT !["form"] = FALSE]
  /\ calls' = {[c EXCEPT !.shown = FALSE] : c \in calls}
  /\ UNCHANGED <<scene, storage, seen, panels, server>>

\* The button of a form does nothing while its call is in flight.
SubmitForm(kind) ==
  /\ User("auth")
  /\ view = kind /\ ~busy["form"]
  /\ busy' = [busy EXCEPT !["form"] = TRUE]
  /\ \E b \in Bases : Send(calls, {To(kind, None, b, None)})
  /\ UNCHANGED <<scene, storage, view, seen, panels, server>>

SubmitLogin == SubmitForm("login")

SubmitRegister == SubmitForm("register")

\* storage and the view change; a page that shows a form becomes the admin
\* page, whose effects run; one that is the admin page already stays as it is.
SignedIn(c) ==
  /\ c.state = "ok"
  /\ base' = c.base /\ token' = c.base /\ adminSet' = TRUE
  /\ view' = "app"
  /\ IF view = "app"
       THEN calls' = calls \ {c} /\ UNCHANGED <<seen, busy>>
       ELSE /\ seen' = token'
            /\ busy' = Set([busy EXCEPT !["form"] = FALSE], Hooks, TRUE)
            /\ Send(calls \ {c}, HookCalls(base', token'))
  /\ UNCHANGED panels

\* mutant: the base is stored before the call is answered
NotSignedIn_BaseStored(c) ==
  /\ c.state = "failed"
  /\ base' = c.base
  /\ busy' = [busy EXCEPT !["form"] = @ /\ ~c.shown]
  /\ calls' = calls \ {c}
  /\ UNCHANGED <<token, adminSet, view, seen, panels>>

\* The button of the form is given back, if it is still that form.
NotSignedIn(c) ==
  /\ c.state = "failed"
  /\ busy' = [busy EXCEPT !["form"] = @ /\ ~c.shown]
  /\ calls' = calls \ {c}
  /\ UNCHANGED <<storage, view, seen, panels>>

LoginDone(c) == c.kind = "login" /\ (SignedIn(c) \/ NotSignedIn(c))

RegisterDone(c) == c.kind = "register" /\ (SignedIn(c) \/ NotSignedIn(c))

\* The two fields of the page's head are stored when they are left.
EditStorage ==
  /\ User("inputs")
  /\ view = "app"
  /\ \/ base' \in Bases /\ UNCHANGED token
     \/ token' \in Bases \cup {None} /\ UNCHANGED base
  /\ UNCHANGED <<scene, adminSet, page, calls, server>>

\* The token is forgotten and the page loaded again: calls in flight are gone.
Logout ==
  /\ User("auth")
  /\ view = "app" /\ at = Closed
  /\ token' = None
  /\ view' = FreshPage(base, None, adminSet).view
  /\ busy' = FreshPage(base, None, adminSet).busy
  /\ calls' = FreshPage(base, None, adminSet).calls
  /\ seen' = None
  /\ at' = Closed
  /\ failed' = [h \in Hooks |-> FALSE]
  /\ data' = [h \in Hooks |-> {None}]
  /\ about' = [p \in Panels |-> None]
  /\ form' = NoChoice
  /\ mounted' = FALSE
  /\ UNCHANGED <<scene, base, adminSet, server>>

-----------------------------------------------------------------------------
(* The tables of the admin page: useAsync. *)

\* run() of the hooks in H, beside the calls cs.
Run(H, cs) ==
  /\ busy' = Set(busy, H, TRUE)
  /\ failed' = Set(failed, H, FALSE)
  /\ Send(cs, {Api(h, None) : h \in H})

\* A render finds another token than the effects ran with: they run again.
Rerender ==
  /\ view = "app"
  /\ seen # token
  /\ seen' = token
  /\ Run(Hooks, calls)
  /\ UNCHANGED <<scene, storage, view, at, data, about, form, mounted, server>>

Idle == view = "app" /\ at = Closed /\ about["install"] = None

\* The button that reloads all tables.
Refresh ==
  /\ User("settings")
  /\ Idle
  /\ Run(Hooks, calls)
  /\ UNCHANGED <<scene, storage, view, seen, at, data, about, form, mounted, server>>

\* mutant: the error of a run is not set
HookDone_ErrorLost(c) ==
  /\ c.kind \in Hooks
  /\ data' = IF c.state = "ok" THEN [data EXCEPT ![c.kind] = c.list] ELSE data
  /\ busy' = [busy EXCEPT ![c.kind] = FALSE]
  /\ calls' = calls \ {c}
  /\ UNCHANGED <<storage, view, seen, at, failed, about, form, mounted>>

\* The answer is shown or the error set, whichever run it belongs to.
HookDone(c) ==
  /\ c.kind \in Hooks
  /\ data' = IF c.state = "ok" THEN [data EXCEPT ![c.kind] = c.list] ELSE data
  /\ failed' = [failed EXCEPT ![c.kind] = @ \/ c.state = "failed"]
  /\ busy' = [busy EXCEPT ![c.kind] = FALSE]
  /\ calls' = calls \ {c}
  /\ UNCHANGED <<storage, view, seen, at, about, form, mounted>>

-----------------------------------------------------------------------------
(* Panels that show something of one node. *)

inner == <<view, seen, failed, data, form, mounted>>

\* The nodes in the tables, whose rows carry the buttons.
Listed == (UNION {data[h] : h \in Hooks}) \ {None}

\* A click in a table opens panel m for node n; its effects make the calls K.
Open(m, n, K) ==
  /\ User(m)
  /\ Idle /\ n \in Listed
  /\ at' = <<m, n>>
  /\ busy' = Set(busy, K \cap Spinners, TRUE)
  /\ Send(calls, {Api(k, n) : k \in K})
  /\ UNCHANGED <<scene, storage, inner, about, server>>

OpenHistory(n) == Open("history", n, {"history"})

OpenDiagnose(n) == Open("diagnose", n, {"diagnose"})

\* The endpoint drawer has no flag for its load.
OpenEndpoints(n) ==
  /\ User("endpoints")
  /\ Idle /\ n \in Listed
  /\ at' = <<"endpoints", n>>
  /\ Send(calls, {Api("endpoints", n)})
  /\ UNCHANGED <<scene, storage, inner, busy, about, server>>

\* The policy drawer polls the status and the tasks at once and every 4 s;
\* what it loads besides is in module PolicyDrawer.
OpenPolicy(n) == Open("policy", n, {"status", "tasks"})

\* mutant: the node is forgotten and the panel left open
Close_NodeOnly ==
  /\ "patient" \in uses => calls = {}
  /\ at # Closed
  /\ at' = <<at[1], None>>
  /\ UNCHANGED <<scene, storage, inner, busy, about, calls, server>>

\* What a panel shows and loads goes on.
Close ==
  /\ "patient" \in uses => calls = {}
  /\ at # Closed
  /\ at' = Closed
  /\ UNCHANGED <<scene, storage, inner, busy, about, calls, server>>

\* mutant: the flag is given back only when the call succeeds
Shown_NoFinally(c, kind) ==
  /\ c.kind = kind
  /\ about' = IF c.state = "ok" THEN [about EXCEPT ![kind] = c.node] ELSE about
  /\ busy' = Set(busy, {kind} \cap Spinners, c.state = "failed")
  /\ calls' = calls \ {c}
  /\ UNCHANGED <<storage, at, inner>>

\* An answer is shown whatever the panel is open for by now; a failure leaves
\* what was shown before; the flag, if there is one, is given back.
Shown(c, kind) ==
  /\ c.kind = kind
  /\ about' = IF c.state = "ok" THEN [about EXCEPT ![kind] = c.node] ELSE about
  /\ busy' = Set(busy, {kind} \cap Spinners, FALSE)
  /\ calls' = calls \ {c}
  /\ UNCHANGED <<storage, at, inner>>

HistoryDone(c) == Shown(c, "history")

DiagnoseDone(c) == Shown(c, "diagnose")

StatusDone(c) == Shown(c, "status")

TasksDone(c) == Shown(c, "tasks")

ReportDone(c) == Shown(c, "report")

\* mutant: the timers of a node looked at before are not cleared
Poll_TimersKept(k) ==
  /\ k \in {"status", "tasks"}
  /\ at[1] = "policy"
  /\ busy' = Set(busy, {k} \cap Spinners, TRUE)
  /\ \E n \in {at[2], about[k]} \ {None} : Send(calls, {Api(k, n)})
  /\ UNCHANGED <<scene, storage, at, inner, about, server>>

\* A timer of the policy drawer, or its button for the status.
Poll(k) ==
  /\ k \in {"status", "tasks"}
  /\ at[1] = "policy"
  /\ busy' = Set(busy, {k} \cap Spinners, TRUE)
  /\ Send(calls, {Api(k, at[2])})
  /\ UNCHANGED <<scene, storage, at, inner, about, server>>

\* loadDiag: the agent is told to report, then, told or not, the last report is
\* asked for; the flag is set in between only.
LoadDiag ==
  /\ User("probes")
  /\ at[1] = "policy" /\ ~busy["report"]
  /\ Send(calls, {Api("command", at[2])})
  /\ UNCHANGED <<scene, storage, at, inner, busy, about, server>>

CommandDone(c) ==
  /\ c.kind = "command"
  /\ busy' = [busy EXCEPT !["report"] = TRUE]
  /\ Send(calls \ {c}, {Api("report", c.node)})
  /\ UNCHANGED <<storage, at, inner, about>>

RunVerify ==
  /\ User("probes")
  /\ at[1] = "policy" /\ ~busy["verify"]
  /\ busy' = [busy EXCEPT !["verify"] = TRUE]
  /\ Send(calls, {Api("verify", at[2])})
  /\ UNCHANGED <<scene, storage, at, inner, about, server>>

\* The tasks are loaded for the node that was verified.
VerifyDone(c) ==
  /\ c.kind = "verify"
  /\ busy' = [busy EXCEPT !["verify"] = FALSE]
  /\ Send(calls \ {c}, {Api("tasks", c.node) : x \in {y \in {1} : c.state = "ok"}})
  /\ UNCHANGED <<storage, at, inner, about>>

-----------------------------------------------------------------------------
(* Panels that change something. *)

ChooseEndpoint ==
  /\ User("endpoints")
  /\ at[1] = "endpoints"
  /\ \E m \in (Listed \cap Chosen) \ {at[2]}, v \in {at[2], None} : form' = [form EXCEPT ![m] = v]
  /\ UNCHANGED <<scene, storage, view, seen, at, busy, failed, data, about, mounted,
                 calls, server>>

\* mutant: the form's fields are set to what another node has where it has some
EndpointsLoaded_Reversed(c) ==
  /\ c.kind = "endpoints"
  /\ form' = [m \in Nodes |->
                IF c.state = "ok" /\ form[m] = None THEN c.choices[m] ELSE form[m]]
  /\ calls' = calls \ {c}
  /\ UNCHANGED <<storage, view, seen, at, busy, failed, data, about, mounted>>

\* setFieldsValue merges: a choice the loaded node does not have is kept.
EndpointsLoaded(c) ==
  /\ c.kind = "endpoints"
  /\ form' = [m \in Nodes |->
                IF c.state = "ok" /\ c.choices[m] # None THEN c.choices[m] ELSE form[m]]
  /\ calls' = calls \ {c}
  /\ UNCHANGED <<storage, view, seen, at, busy, failed, data, about, mounted>>

\* mutant: the button is not held while a save is in flight
SubmitEndpoints_Unguarded ==
  /\ User("endpoints")
  /\ at[1] = "endpoints"
  /\ busy' = [busy EXCEPT !["endpoints"] = TRUE]
  /\ LET fields == Listed \ {at[2]}
     IN Send(calls, {[Api("saveEndpoints", at[2]) EXCEPT !.choices =
                        [m \in Nodes |-> IF m \in fields THEN form[m] ELSE None]]})
  /\ UNCHANGED <<scene, storage, at, inner, about, server>>

\* The form has a field for each listed node but the drawer's own.
SubmitEndpoints ==
  /\ User("endpoints")
  /\ at[1] = "endpoints" /\ ~busy["endpoints"]
  /\ busy' = [busy EXCEPT !["endpoints"] = TRUE]
  /\ LET fields == Listed \ {at[2]}
     IN Send(calls, {[Api("saveEndpoints", at[2]) EXCEPT !.choices =
                        [m \in Nodes |-> IF m \in fields THEN form[m] ELSE None]]})
  /\ UNCHANGED <<scene, storage, at, inner, about, server>>

\* A success closes the drawer, for whichever node it is open by now.
EndpointsSaved(c) ==
  /\ c.kind = "saveEndpoints"
  /\ at' = IF c.state = "ok" /\ at[1] = "endpoints" THEN Closed ELSE at
  /\ busy' = [busy EXCEPT !["endpoints"] = FALSE]
  /\ calls' = calls \ {c}
  /\ UNCHANGED <<storage, inner, about>>

OpenNode ==
  /\ User("newnode")
  /\ Idle
  /\ at' = <<"newnode", None>>
  /\ UNCHANGED <<scene, storage, inner, busy, about, calls, server>>

SubmitNode(n) ==
  /\ User("newnode")
  /\ at[1] = "newnode" /\ ~busy["newnode"]
  /\ busy' = [busy EXCEPT !["newnode"] = TRUE]
  /\ Send(calls, {Api("newnode", n)})
  /\ UNCHANGED <<scene, storage, at, inner, about, server>>

\* The node table reloads and the modal is closed; or the error is reported.
NodeDone(c) ==
  /\ c.kind = "newnode"
  /\ IF c.state = "ok"
       THEN /\ at' = IF at[1] = "newnode" THEN Closed ELSE at
            /\ busy' = [busy EXCEPT !["newnode"] = FALSE, !["nodes"] = TRUE]
            /\ failed' = [failed EXCEPT !["nodes"] = FALSE]
            /\ Send(calls \ {c}, {Api("nodes", None)})
       ELSE /\ busy' = [busy EXCEPT !["newnode"] = FALSE]
            /\ calls' = calls \ {c}
            /\ UNCHANGED <<at, failed>>
  /\ UNCHANGED <<storage, view, seen, data, about, form, mounted>>

\* The cards load when they are mounted: the first time the modal is opened.
OpenSettings ==
  /\ User("settings")
  /\ Idle
  /\ at' = <<"settings", None>>
  /\ mounted' = TRUE
  /\ Send(calls, {Api(k, None) : k \in IF mounted THEN {} ELSE {"geoip", "diag"}})
  /\ UNCHANGED <<scene, storage, view, seen, busy, failed, data, about, form, server>>

\* The GeoIP card's buttons load and save; its saves are held by a flag.
LoadGeoip ==
  /\ User("settings")
  /\ at[1] = "settings"
  /\ Send(calls, {Api("geoip", None)})
  /\ UNCHANGED <<scene, storage, at, inner, busy, about, server>>

SaveGeoip ==
  /\ User("settings")
  /\ at[1] = "settings" /\ ~busy["geoip"]
  /\ busy' = [busy EXCEPT !["geoip"] = TRUE]
  /\ Send(calls, {Api("saveGeoip", None)})
  /\ UNCHANGED <<scene, storage, at, inner, about, server>>

SaveDiag ==
  /\ User("settings")
  /\ at[1] = "settings"
  /\ Send(calls, {Api("saveDiag", None)})
  /\ UNCHANGED <<scene, storage, at, inner, busy, about, server>>

\* What a card's form holds is left out: its load changes nothing else.
GeoipLoaded(c) ==
  /\ c.kind = "geoip"
  /\ calls' = calls \ {c}
  /\ UNCHANGED <<storage, page>>

DiagLoaded(c) ==
  /\ c.kind = "diag"
  /\ calls' = calls \ {c}
  /\ UNCHANGED <<storage, page>>

\* After a success all tables reload (onChanged), with flag s given back.
SavedSettings(c, S) ==
  /\ IF c.state = "ok"
       THEN /\ busy' = Set(Set(busy, Hooks, TRUE), S, FALSE)
            /\ failed' = Set(failed, Hooks, FALSE)
            /\ Send(calls \ {c}, {Api(h, None) : h \in Hooks})
       ELSE /\ busy' = Set(busy, S, FALSE)
            /\ calls' = calls \ {c}
            /\ UNCHANGED failed
  /\ UNCHANGED <<storage, view, seen, at, data, about, form, mounted>>

GeoipSaved(c) == c.kind = "saveGeoip" /\ SavedSettings(c, {"geoip"})

DiagSaved(c) == c.kind = "saveDiag" /\ SavedSettings(c, {})

\* showInstall: the node is prepared and the command shown when it comes.
ShowInstall(n) ==
  /\ User("install")
  /\ Idle /\ n \in Listed
  /\ Send(calls, {Api("install", n)})
  /\ UNCHANGED <<scene, storage, page, server>>

InstallDone(c) ==
  /\ c.kind = "install"
  /\ about' = IF c.state = "ok" THEN [about EXCEPT !["install"] = c.node] ELSE about
  /\ calls' = calls \ {c}
  /\ UNCHANGED <<storage, at, inner, busy>>

CloseInstall ==
  /\ User("install")
  /\ about["install"] # None
  /\ about' = [about EXCEPT !["install"] = None]
  /\ UNCHANGED <<scene, storage, at, inner, busy, calls, server>>

-----------------------------------------------------------------------------
(* What the network and the controllers do with a call. *)

Become(c, d) == calls' = (calls \ {c}) \cup {d}

Answer(c) == Become(c, [c EXCEPT !.state = "ok"])

Refuse(c) == Become(c, [c EXCEPT !.state = "failed"])

\* Users are counted, and one is created later, when its password is hashed.
ServeAuth(c) ==
  \/ /\ c.kind = "login" /\ c.state = "sent"
     /\ IF c.base \in admins THEN Answer(c) ELSE Refuse(c)
     /\ UNCHANGED server
  \/ /\ c.kind = "register" /\ c.state = "sent"
     /\ IF c.base \in admins THEN Refuse(c) ELSE Become(c, [c EXCEPT !.state = "counted"])
     /\ UNCHANGED server
  \/ /\ c.state = "counted"
     /\ admins' = admins \cup {c.base}
     /\ Answer(c)
     /\ UNCHANGED <<store, peps>>

\* Tables and endpoint choices are answered as they are stored now.
ServeLists(c) ==
  /\ c.state = "sent" /\ c.good
  /\ \/ c.kind \in Hooks /\ Become(c, [c EXCEPT !.state = "ok", !.list = store])
     \/ c.kind = "endpoints" /\ Become(c, [c EXCEPT !.state = "ok", !.choices = peps[c.node]])
  /\ UNCHANGED server

\* A registration without endpoint choices keeps those stored.
ServeEndpoints(c) ==
  /\ c.state = "sent" /\ c.good
  /\ c.kind = "saveEndpoints"
  /\ peps' = IF c.choices = NoChoice THEN peps ELSE [peps EXCEPT ![c.node] = c.choices]
  /\ Answer(c)
  /\ UNCHANGED <<admins, store>>

\* A new node's registration and the preparation of an installation store it;
\* the latter stores a node that has no token yet as a new one.
ServeNode(c) ==
  /\ c.state = "sent" /\ c.good
  /\ c.kind \in {"newnode", "install"}
  /\ store' = store \cup {c.node}
  /\ \/ UNCHANGED peps
     \/ c.kind = "install" /\ peps' = [peps EXCEPT ![c.node] = NoChoice]
  /\ Answer(c)
  /\ UNCHANGED admins

\* The other calls change nothing that is modelled here.
ServeRest(c) ==
  /\ c.state = "sent" /\ c.good
  /\ c.kind \in {"history", "diagnose", "status", "tasks", "command", "report", "verify",
                 "geoip", "saveGeoip", "diag", "saveDiag"}
  /\ Answer(c)
  /\ UNCHANGED server

\* A call whose token is not the base's is refused (401); any other request or
\* answer may be lost, or the controller fail.
Fail(c) ==
  /\ c.state # "failed"
  /\ "patient" \in uses => ~c.good
  /\ Refuse(c)
  /\ UNCHANGED server

Settle(c) ==
  /\ \/ ServeAuth(c) \/ ServeLists(c) \/ ServeEndpoints(c) \/ ServeNode(c)
     \/ ServeRest(c) \/ Fail(c)
  /\ UNCHANGED <<scene, storage, page>>

\* The continuation of the call runs.
Continue(c) ==
  /\ c.state \in {"ok", "failed"}
  /\ \/ LoginDone(c) \/ RegisterDone(c) \/ HookDone(c)
     \/ HistoryDone(c) \/ DiagnoseDone(c)
     \/ StatusDone(c) \/ TasksDone(c) \/ CommandDone(c) \/ ReportDone(c) \/ VerifyDone(c)
     \/ EndpointsLoaded(c) \/ EndpointsSaved(c) \/ NodeDone(c)
     \/ GeoipLoaded(c) \/ GeoipSaved(c) \/ DiagLoaded(c) \/ DiagSaved(c) \/ InstallDone(c)
  /\ UNCHANGED <<scene, server>>

UserStep ==
  \/ SwitchForm \/ SubmitLogin \/ SubmitRegister \/ EditStorage \/ Logout \/ Refresh
  \/ \E n \in Nodes : OpenHistory(n) \/ OpenDiagnose(n) \/ OpenEndpoints(n) \/ OpenPolicy(n)
  \/ Close
  \/ LoadDiag \/ RunVerify
  \/ ChooseEndpoint \/ SubmitEndpoints
  \/ OpenNode \/ \E n \in Nodes : SubmitNode(n)
  \/ OpenSettings \/ LoadGeoip \/ SaveGeoip \/ SaveDiag
  \/ \E n \in Nodes : ShowInstall(n)
  \/ CloseInstall

Numbered(i, Step(_)) == \E c \in calls : c.id = i /\ Step(c)

Next ==
  \/ UserStep
  \/ Rerender
  \/ \E k \in {"status", "tasks"} : Poll(k)
  \/ \E i \in Slots : Numbered(i, Settle) \/ Numbered(i, Continue)

Spec == Init /\ [][Next]_vars

\* A call is answered or fails in the end, and its continuation runs: the
\* browser's event loop is fair and its network gives up.  The user need not
\* do anything, and nothing says the controllers answer well.
FairSpec ==
  /\ Spec
  /\ \A i \in Slots : WF_vars(Numbered(i, Settle) \/ Numbered(i, Continue))

-----------------------------------------------------------------------------
(* Properties. *)

\* Unless the user edits them, token and base in storage belong together, also
\* when several sign-ins at several controllers, begun in forms left since, end
\* in any order or fail (Login, Register, App).
TokenOfBase == "inputs" \notin uses /\ token # None => token = base

\* A call that holds flag s: a save where there is one, or the load.
Holds(c, s) ==
  \/ c.kind = s /\ s \notin {"endpoints", "geoip"}
  \/ s = "form" /\ c.kind \in {"login", "register"} /\ c.shown
  \/ s = "endpoints" /\ c.kind = "saveEndpoints"
  \/ s = "geoip" /\ c.kind = "saveGeoip"

\* A panel that says it is loading or saving has a call in flight: no flag is
\* left set by a failure, by a closed panel, by a form that was switched away
\* from or by a run overtaken by another one.
LoadingHonest == \A s \in Spinners : busy[s] => \E c \in calls : Holds(c, s)

Saves == {"saveEndpoints", "newnode", "saveGeoip", "verify"}

\* What is guarded by a flag is in flight once, also when the panel was closed
\* and opened for another node in the meantime; so is a form's sign-in.
SavedOnce ==
  \A c, d \in calls : c # d /\ c.kind = d.kind =>
    /\ c.kind \notin Saves
    /\ c.kind \in {"login", "register"} => ~(c.shown /\ d.shown)

\* A table that is not loading and shows no error shows an answer, however its
\* runs overlapped (useAsync).
QuietMeansData ==
  \A h \in Hooks :
    view = "app" /\ (\A c \in calls : c.kind # h) /\ ~failed[h] => data[h] # {None}

\* A user who waits for each answer, when no call fails, never replaces a choice
\* made in a node's own endpoint drawer by one made for another node, although
\* the form keeps choices of the nodes it was opened for before.
OwnChoiceKept ==
  [][\A n, m \in Nodes :
       "patient" \in uses /\ peps[n][m] = n => peps'[n][m] \in {n, None}]_vars

\* No flag stays set for ever.
SpinnerEnds == \A s \in Spinners : []<>~busy[s]

\* The policy drawer stays open on a node and its polls are answered now and
\* then: late answers for other nodes give out, and its status and its tasks
\* are that node's from some time on.
FeedSettles ==
  \A n \in Nodes, f \in {"status", "tasks"} :
    <>[](at = <<"policy", n>>) /\ []<>(about[f] = n) => <>[](about[f] = n)
=============================================================================
