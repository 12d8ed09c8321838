-------------------------------- MODULE WSHub --------------------------------
(***************************************************************************)
(* The controller's WebSocket hub (pkg/api/ws.go) and the agents' client   *)
(* loops (pkg/agent/ws_client.go).  An agent dials a new connection when   *)
(* its last one has failed; the hub registers it, closes the one it had    *)
(* registered before and starts a read loop, which removes the node's      *)
(* entry when its own connection fails.  The two ends notice a failure at  *)
(* different times.                                                        *)
(***************************************************************************)
EXTENDS Integers, Sequences

CONSTANTS
  Agents,           \* node IDs of the agents
  Senders,          \* handler goroutines that call Send
  MaxDials,         \* bound: connections dialled in a behaviour
  MaxSends          \* bound: messages sent in a behaviour

ASSUME HubAssumption == MaxDials \in Nat /\ MaxSends \in Nat

Conns == 1..MaxDials          \* connections, in the order they are dialled
NoConn == 0

\* Messages are numbered as their Sends begin; after is a history variable: the
\* messages whose Send had returned by then.
Message == [to : Agents, number : 1..MaxSends, after : SUBSET (1..MaxSends)]

VARIABLES
  agents,           \* h.agents: the connection registered for each node
  owner,            \* owner[c]: the node that dialled connection c
  link,             \* link[c]: "open", or "broken" (closed, lost)
  loop,             \* loop[c]: what the hub's goroutine of c does
  attached,         \* attached[n]: the connection node n's client reads
  inbox,            \* inbox[c]: messages written to c and not yet read
  sending,          \* sending[s]: what sender s looked up, or Nothing
  sent,             \* messages sent so far
  handled           \* handled[n]: messages node n's client has read

connVars == <<owner, link, loop>>
hubVars == <<agents, connVars, attached, inbox, sending, sent, handled>>

LoopStates == {"accepted", "reading", "closing", "ended"}
Nothing == [conn |-> NoConn]

HubInit ==
  /\ agents = [n \in Agents |-> NoConn]
  /\ owner = <<>> /\ link = <<>> /\ loop = <<>>
  /\ attached = [n \in Agents |-> NoConn]
  /\ inbox = [c \in Conns |-> <<>>]
  /\ sending = [s \in Senders |-> Nothing]
  /\ sent = 0
  /\ handled = [n \in Agents |-> <<>>]

HubTypeOK ==
  /\ agents \in [Agents -> DOMAIN owner \cup {NoConn}]
  /\ owner \in Seq(Agents) /\ Len(owner) <= MaxDials
  /\ link \in [DOMAIN owner -> {"open", "broken"}]
  /\ loop \in [DOMAIN owner -> LoopStates]
  /\ attached \in [Agents -> DOMAIN owner \cup {NoConn}]
  /\ inbox \in [Conns -> Seq(Message)]
  /\ sending \in [Senders -> {Nothing} \cup [conn : Conns, message : Message]]
  /\ sent \in 0..MaxSends
  /\ handled \in [Agents -> Seq(Message)]

-----------------------------------------------------------------------------
(* Connections. *)

\* The agent's client has no connection: it dials.  The answer to the upgrade
\* reaches it before the hub registers the connection.
Dial(n) ==
  /\ attached[n] = NoConn
  /\ Len(owner) < MaxDials
  /\ owner' = Append(owner, n)
  /\ link' = Append(link, "open")
  /\ loop' = Append(loop, "accepted")
  /\ attached' = [attached EXCEPT ![n] = Len(owner')]
  /\ UNCHANGED <<agents, inbox, sending, sent, handled>>

\* mutant: the connection registered before stays open
Superseded_Kept(n) == NoConn

\* The connection that a new one of node n replaces.
Superseded(n) == agents[n]

\* HandleAgentWS, under the lock: close the old connection, register c.
Register(c) ==
  LET n == owner[c]
  IN /\ loop[c] = "accepted"
     /\ link' = [x \in DOMAIN link |->
                   IF x = Superseded(n) THEN "broken" ELSE link[x]]
     /\ agents' = [agents EXCEPT ![n] = c]
     /\ loop' = [loop EXCEPT ![c] = "reading"]
     /\ UNCHANGED <<owner, attached, inbox, sending, sent, handled>>

\* The network, or a restart of the agent, ends the connection.
Break(c) ==
  /\ link[c] = "open"
  /\ link' = [link EXCEPT ![c] = "broken"]
  /\ UNCHANGED <<agents, owner, loop, attached, inbox, sending, sent, handled>>

\* The agent is restarted without the hub being told: its connection stays
\* half open, and it dials another.
Restart(n) ==
  /\ attached[n] # NoConn
  /\ attached' = [attached EXCEPT ![n] = NoConn]
  /\ UNCHANGED <<agents, connVars, inbox, sending, sent, handled>>

\* The client's ReadJSON fails: it sleeps, then dials again.
ClientReadFails(n) ==
  /\ attached[n] # NoConn
  /\ link[attached[n]] = "broken"
  /\ attached' = [attached EXCEPT ![n] = NoConn]
  /\ UNCHANGED <<agents, connVars, inbox, sending, sent, handled>>

\* The hub's ReadJSON fails: the deferred function closes the connection ...
ReadFails(c) ==
  /\ loop[c] = "reading"
  /\ link[c] = "broken"
  /\ loop' = [loop EXCEPT ![c] = "closing"]
  /\ UNCHANGED <<agents, owner, link, attached, inbox, sending, sent, handled>>

\* mutant: no entry is removed
Removed_None(c, n) == FALSE

\* delete(h.agents, nodeID): whatever connection the node has by now.
Removed(c, n) == n = owner[c]

\* ... and removes the node's entry under the lock.
RemoveEntry(c) ==
  /\ loop[c] = "closing"
  /\ loop' = [loop EXCEPT ![c] = "ended"]
  /\ agents' = [n \in Agents |-> IF Removed(c, n) THEN NoConn ELSE agents[n]]
  /\ UNCHANGED <<owner, link, attached, inbox, sending, sent, handled>>

-----------------------------------------------------------------------------
(* Messages. *)

\* mutant: a missing entry is not noticed
Connected_Unchecked(c) == TRUE

Connected(c) == c # NoConn

\* The Sends that have returned: no sender has their message in hand.
Returned ==
  {k \in 1..sent :
     \A s \in Senders : sending[s] # Nothing => sending[s].message.number # k}

NewMessage(n) == [to |-> n, number |-> sent + 1, after |-> Returned]

\* mutant: the write is left to a goroutine of its own, Send returns at once
SendLookup_Async(s, n) ==
  /\ sent < MaxSends
  /\ sent' = sent + 1
  /\ \E writer \in Senders :
       /\ sending[writer] = Nothing
       /\ sending' = IF Connected(agents[n])
            THEN [sending EXCEPT ![writer] =
                    [conn |-> agents[n],
                     message |-> [to |-> n, number |-> sent', after |-> 1..sent]]]
            ELSE sending
  /\ UNCHANGED <<agents, connVars, attached, inbox, handled>>

\* Send reads the entry under the lock; without one the message is skipped.
SendLookup(s, n) ==
  /\ sending[s] = Nothing
  /\ sent < MaxSends
  /\ sent' = sent + 1
  /\ sending' = IF Connected(agents[n])
                  THEN [sending EXCEPT ![s] =
                          [conn |-> agents[n], message |-> NewMessage(n)]]
                  ELSE sending
  /\ UNCHANGED <<agents, connVars, attached, inbox, handled>>

\* It writes to that connection after the lock is released: on a broken one
\* the message is lost and the error logged.
SendWrite(s) ==
  LET c == sending[s].conn
  IN /\ sending[s] # Nothing
     /\ inbox' = IF link[c] = "open"
                   THEN [inbox EXCEPT ![c] = Append(@, sending[s].message)]
                   ELSE inbox
     /\ sending' = [sending EXCEPT ![s] = Nothing]
     /\ UNCHANGED <<agents, connVars, attached, sent, handled>>

\* The client reads the next message and starts its handler.  What is left in
\* a connection when the client notices its failure is lost.
ClientRead(n) ==
  LET c == attached[n]
  IN /\ c # NoConn
     /\ inbox[c] # <<>>
     /\ handled' = [handled EXCEPT ![n] = Append(@, Head(inbox[c]))]
     /\ inbox' = [inbox EXCEPT ![c] = Tail(@)]
     /\ UNCHANGED <<agents, connVars, attached, sending, sent>>

-----------------------------------------------------------------------------

HubStep(c) == Register(c) \/ ReadFails(c) \/ RemoveEntry(c)

ClientStep(n) == Dial(n) \/ ClientReadFails(n) \/ ClientRead(n)

\* No client dials any more and every connection is over.
HubIdle ==
  /\ Len(owner) = MaxDials
  /\ \A c \in DOMAIN owner : link[c] = "broken" /\ loop[c] = "ended"
  /\ UNCHANGED hubVars

HubNext ==
  \/ \E c \in DOMAIN owner : HubStep(c) \/ Break(c)
  \/ \E n \in Agents : ClientStep(n) \/ Restart(n)
  \/ \E s \in Senders, n \in Agents : SendLookup(s, n)
  \/ \E s \in Senders : SendWrite(s)
  \/ HubIdle

HubSpec == HubInit /\ [][HubNext]_hubVars

\* Goroutines that can run do; dials, failures and messages need not happen.
HubFairSpec ==
  HubSpec /\ \A c \in Conns : WF_hubVars(c \in DOMAIN owner /\ HubStep(c))

-----------------------------------------------------------------------------

\* The connection registered for a node is that node's and has a read loop
\* that will remove the entry: no entry outlives its connection for good,
\* however registrations, failures and removals of a node interleave.
EntryServed ==
  \A n \in Agents : agents[n] # NoConn =>
    owner[agents[n]] = n /\ loop[agents[n]] \in {"reading", "closing"}

\* Until a read loop of the node ends, its only open connection that is read
\* is the registered one: the ones before were closed (old.Close()).
OpenIsRegistered ==
  \A c \in DOMAIN owner :
    /\ link[c] = "open" /\ loop[c] = "reading"
    /\ \A d \in DOMAIN owner : owner[d] = owner[c] => loop[d] # "ended"
    => agents[owner[c]] = c

\* "Send sends a message to a node if connected" (ws.go): a node whose client
\* reads an open connection that the hub reads too, no goroutine of an older
\* connection being still at work, is the one Send finds.
ConnectedIsFound ==
  \A n \in Agents :
    LET c == attached[n]
    IN /\ c # NoConn
       /\ link[c] = "open" /\ loop[c] = "reading"
       /\ \A d \in DOMAIN owner :
            owner[d] = n /\ d # c => loop[d] \notin {"accepted", "closing"}
       => agents[n] = c

\* A message read after another one is another message, and its Send had not
\* returned before that one's began.
MayFollow(m, earlier) ==
  m.number # earlier.number /\ m.number \notin earlier.after

\* A node reads each message at most once, and what Send has written before
\* another Send begins is read before it or not at all, though handlers write
\* to connections they looked up before reconnects and half-open connections
\* replaced them: only Sends that overlap may be read in either order.
InOrder ==
  \A n \in Agents : \A i, j \in DOMAIN handled[n] :
    i < j => MayFollow(handled[n][j], handled[n][i])

\* An entry whose connection has failed does not stay (readLoop's defer).
FailedEntryLeaves ==
  \A n \in Agents :
    agents[n] # NoConn /\ link[agents[n]] = "broken"
      ~> agents[n] = NoConn \/ link[agents[n]] # "broken"
=============================================================================
