----------------------------- MODULE WSHubProofs -----------------------------
(***************************************************************************)
(* Proofs about the hub and its clients, for any agents, senders and       *)
(* bounds: types, the two facts about entries that do not depend on        *)
(* fairness, and the order in which messages are read.                     *)
(***************************************************************************)
EXTENDS WSHub, SequenceTheorems, TLAPS

\* What a dial does to the three sequences of connections (ws_client.go).
LEMMA AppendDomain ==
  ASSUME NEW S, NEW s \in Seq(S), NEW e \in S
  PROVE  /\ Append(s, e) \in Seq(S)
         /\ Len(Append(s, e)) = Len(s) + 1
         /\ DOMAIN Append(s, e) = 1..(Len(s) + 1)
         /\ \A i \in 1..Len(s) : Append(s, e)[i] = s[i]
         /\ Append(s, e)[Len(s) + 1] = e
  OBVIOUS

\* A function on 1..n, such as link and loop, is a sequence (ws_client.go).
LEMMA FunctionIsSeq ==
  ASSUME NEW S, NEW n \in Nat, NEW f \in [1..n -> S]
  PROVE  f \in Seq(S) /\ Len(f) = n
<1>1. f \in Seq(S)
  OBVIOUS
<1> QED
  BY <1>1, LenProperties

\* The type invariant of the hub and its clients holds throughout (ws.go).
THEOREM HubTypeCorrect == HubSpec => []HubTypeOK
<1> USE HubAssumption DEF Conns, NoConn
<1>1. HubInit => HubTypeOK
  BY DEF HubInit, HubTypeOK, Nothing
<1>2. ASSUME HubTypeOK, [HubNext]_hubVars
      PROVE  HubTypeOK'
  <2> USE <1>2 DEF HubTypeOK
  <2> DEFINE L == Len(owner)
  <2>0. L \in Nat /\ DOMAIN owner = 1..L
    OBVIOUS
  <2>1. ASSUME NEW c \in DOMAIN owner, Register(c)
        PROVE  HubTypeOK'
    BY <2>1, <2>0 DEF Register, LoopStates
  <2>2. ASSUME NEW c \in DOMAIN owner, ReadFails(c)
        PROVE  HubTypeOK'
    BY <2>2 DEF ReadFails, LoopStates
  <2>3. ASSUME NEW c \in DOMAIN owner, RemoveEntry(c)
        PROVE  HubTypeOK'
    BY <2>3 DEF RemoveEntry, LoopStates
  <2>4. ASSUME NEW c \in DOMAIN owner, Break(c)
        PROVE  HubTypeOK'
    BY <2>4 DEF Break
  <2>5. ASSUME NEW n \in Agents, Dial(n)
        PROVE  HubTypeOK'
    <3>1. owner' \in Seq(Agents) /\ Len(owner') = L + 1 /\ DOMAIN owner' = 1..(L + 1)
      BY <2>5 DEF Dial
    <3>2. link \in Seq({"open", "broken"}) /\ Len(link) = L
      BY <2>0, FunctionIsSeq
    <3>3. loop \in Seq(LoopStates) /\ Len(loop) = L
      BY <2>0, FunctionIsSeq
    <3>4. link' \in [1..(L + 1) -> {"open", "broken"}]
      <4>1. link' \in Seq({"open", "broken"}) /\ Len(link') = L + 1
        BY <2>5, <3>2, AppendDomain DEF Dial
      <4> QED
        BY <4>1, LenProperties
    <3>5. loop' \in [1..(L + 1) -> LoopStates]
      <4>1. loop' \in Seq(LoopStates) /\ Len(loop') = L + 1
        BY <2>5, <3>3, AppendDomain DEF Dial, LoopStates
      <4> QED
        BY <4>1, LenProperties
    <3>6. attached' \in [Agents -> DOMAIN owner' \cup {NoConn}]
      BY <2>5, <2>0, <3>1 DEF Dial
    <3> QED
      BY <2>5, <2>0, <3>1, <3>4, <3>5, <3>6 DEF Dial
  <2>6. ASSUME NEW n \in Agents, ClientReadFails(n)
        PROVE  HubTypeOK'
    BY <2>6 DEF ClientReadFails, connVars
  <2>7. ASSUME NEW n \in Agents, ClientRead(n)
        PROVE  HubTypeOK'
    <3> DEFINE c == attached[n]
    <3>1. c \in Conns /\ inbox[c] \in Seq(Message) /\ inbox[c] # <<>>
      BY <2>7, <2>0 DEF ClientRead
    <3>2. Head(inbox[c]) \in Message /\ Tail(inbox[c]) \in Seq(Message)
      BY <3>1
    <3>3. handled' \in [Agents -> Seq(Message)]
      BY <2>7, <3>2 DEF ClientRead
    <3>4. inbox' \in [Conns -> Seq(Message)]
      BY <2>7, <3>2 DEF ClientRead
    <3> QED
      BY <2>7, <3>3, <3>4 DEF ClientRead, connVars
  <2>8. ASSUME NEW n \in Agents, Restart(n)
        PROVE  HubTypeOK'
    BY <2>8 DEF Restart, connVars
  <2>9. ASSUME NEW s \in Senders, NEW n \in Agents, SendLookup(s, n)
        PROVE  HubTypeOK'
    <3>1. sent' \in 1..MaxSends
      BY <2>9 DEF SendLookup
    <3>2. Connected(agents[n]) =>
            [conn |-> agents[n], message |-> NewMessage(n)]
              \in [conn : Conns, message : Message]
      <4>1. sent' = sent + 1 /\ Returned \in SUBSET (1..MaxSends)
        BY <2>9 DEF SendLookup, Returned
      <4>2. NewMessage(n) \in Message
        BY <3>1, <4>1 DEF NewMessage, Message
      <4> QED BY <4>2 DEF Connected
    <3>3. sending' \in [Senders -> {Nothing} \cup [conn : Conns, message : Message]]
      BY <2>9, <3>2 DEF SendLookup
    <3> QED
      BY <2>9, <3>1, <3>3 DEF SendLookup, connVars
  <2>10. ASSUME NEW s \in Senders, SendWrite(s)
         PROVE  HubTypeOK'
    <3> DEFINE c == sending[s].conn
    <3>1. c \in Conns /\ sending[s].message \in Message
      BY <2>10 DEF SendWrite
    <3>2. Append(inbox[c], sending[s].message) \in Seq(Message)
      BY <3>1
    <3>3. inbox' \in [Conns -> Seq(Message)]
      BY <2>10, <3>2 DEF SendWrite
    <3> QED
      BY <2>10, <3>3 DEF SendWrite, connVars
  <2>11. ASSUME UNCHANGED hubVars
         PROVE  HubTypeOK'
    BY <2>11 DEF hubVars, connVars
  <2> QED
    BY <1>2, <2>1, <2>2, <2>3, <2>4, <2>5, <2>6, <2>7, <2>8, <2>9, <2>10, <2>11
       DEF HubNext, HubStep, ClientStep, HubIdle
<1> QED
  BY <1>1, <1>2, PTL DEF HubSpec

-----------------------------------------------------------------------------
(* Entries. *)

\* What both invariants below start from: a connection dialled last is new,
\* and the ones before keep owner, state and loop (ws_client.go).
LEMMA DialKeeps ==
  ASSUME HubTypeOK, NEW n \in Agents, Dial(n)
  PROVE  /\ DOMAIN owner' = DOMAIN owner \cup {Len(owner) + 1}
         /\ Len(owner) + 1 \notin DOMAIN owner
         /\ \A c \in DOMAIN owner : /\ owner'[c] = owner[c]
                                    /\ link'[c] = link[c]
                                    /\ loop'[c] = loop[c]
         /\ loop'[Len(owner) + 1] = "accepted"
<1> USE DEF HubTypeOK
<1>1. /\ link \in Seq({"open", "broken"}) /\ Len(link) = Len(owner)
      /\ loop \in Seq(LoopStates) /\ Len(loop) = Len(owner)
  BY FunctionIsSeq
<1>2. DOMAIN owner = 1..Len(owner) /\ Len(owner) \in Nat
  OBVIOUS
<1>3. /\ owner' = Append(owner, n)
      /\ link' = Append(link, "open")
      /\ loop' = Append(loop, "accepted")
  BY DEF Dial
<1>4. /\ DOMAIN owner' = 1..(Len(owner) + 1)
      /\ \A c \in 1..Len(owner) : owner'[c] = owner[c]
  BY <1>3, AppendDomain
<1>5. \A c \in 1..Len(owner) : link'[c] = link[c]
  BY <1>1, <1>3, AppendDomain
<1>6. /\ \A c \in 1..Len(owner) : loop'[c] = loop[c]
      /\ loop'[Len(owner) + 1] = "accepted"
  BY <1>1, <1>3, AppendDomain DEF LoopStates
<1> HIDE DEF HubTypeOK
<1> QED
  BY <1>2, <1>4, <1>5, <1>6

\* Every entry of the hub is its node's connection and has a read loop that
\* will remove it (HandleAgentWS, readLoop), however they interleave.
THEOREM EntriesServed == HubSpec => []EntryServed
<1>1. HubInit => EntryServed
  BY DEF HubInit, EntryServed
<1>2. ASSUME HubTypeOK, EntryServed, [HubNext]_hubVars
      PROVE  EntryServed'
  <2> USE <1>2 DEF EntryServed, HubTypeOK
  <2>1. ASSUME NEW c \in DOMAIN owner, Register(c)
        PROVE  EntryServed'
    BY <2>1 DEF Register
  <2>2. ASSUME NEW c \in DOMAIN owner, ReadFails(c)
        PROVE  EntryServed'
    BY <2>2 DEF ReadFails
  <2>3. ASSUME NEW c \in DOMAIN owner, RemoveEntry(c)
        PROVE  EntryServed'
    BY <2>3 DEF RemoveEntry, Removed
  <2>4. ASSUME NEW n \in Agents, Dial(n)
        PROVE  EntryServed'
    <3>1. agents' = agents
      BY <2>4 DEF Dial
    <3> QED
      BY <2>4, <3>1, DialKeeps
  <2>5. ASSUME UNCHANGED <<agents, owner, loop>>
        PROVE  EntryServed'
    BY <2>5
  <2> QED
    BY <1>2, <2>1, <2>2, <2>3, <2>4, <2>5
       DEF HubNext, HubStep, ClientStep, HubIdle, hubVars, connVars, Break,
           Restart, ClientReadFails, ClientRead, SendLookup, SendWrite
<1> QED
  BY <1>1, <1>2, HubTypeCorrect, PTL DEF HubSpec

\* As long as no read loop of a node has ended, its registered connection is
\* the only open one that is read (HandleAgentWS closes the one before).
THEOREM OpenOnesRegistered == HubSpec => []OpenIsRegistered
<1>1. HubInit => OpenIsRegistered
  BY DEF HubInit, OpenIsRegistered
<1>2. ASSUME HubTypeOK, OpenIsRegistered, [HubNext]_hubVars
      PROVE  OpenIsRegistered'
  <2> USE <1>2 DEF OpenIsRegistered, HubTypeOK
  <2>1. ASSUME NEW c \in DOMAIN owner, Register(c)
        PROVE  OpenIsRegistered'
    <3>a. owner' = owner
      BY <2>1 DEF Register
    <3> SUFFICES ASSUME NEW d \in DOMAIN owner, link'[d] = "open",
                        loop'[d] = "reading",
                        \A e \in DOMAIN owner : owner[e] = owner[d] => loop'[e] # "ended"
                 PROVE  agents'[owner[d]] = d
      BY <3>a
    <3>0. owner[c] \in Agents
      OBVIOUS
    <3>1. CASE d = c
      <4>1. agents' = [agents EXCEPT ![owner[c]] = c]
        BY <2>1 DEF Register
      <4> QED
        BY <3>0, <3>1, <4>1
    <3>2. CASE d # c
      <4>1. link[d] = "open" /\ loop[d] = "reading"
        BY <2>1, <3>2 DEF Register
      <4>2. \A e \in DOMAIN owner : owner[e] = owner[d] => loop[e] # "ended"
        BY <2>1 DEF Register
      <4>3. agents[owner[d]] = d
        BY <4>1, <4>2
      <4>4. owner[d] # owner[c]
        BY <2>1, <4>3 DEF Register, Superseded
      <4> QED
        BY <2>1, <4>3, <4>4 DEF Register
    <3> QED
      BY <3>1, <3>2
  <2>2. ASSUME NEW c \in DOMAIN owner, ReadFails(c)
        PROVE  OpenIsRegistered'
    BY <2>2 DEF ReadFails
  <2>3. ASSUME NEW c \in DOMAIN owner, RemoveEntry(c)
        PROVE  OpenIsRegistered'
    <3>0. owner' = owner /\ link' = link
      BY <2>3 DEF RemoveEntry
    <3> SUFFICES ASSUME NEW d \in DOMAIN owner, link[d] = "open",
                        loop'[d] = "reading",
                        \A e \in DOMAIN owner : owner[e] = owner[d] => loop'[e] # "ended"
                 PROVE  agents'[owner[d]] = d
      BY <3>0
    <3>1. owner[d] # owner[c] /\ d # c
      BY <2>3 DEF RemoveEntry
    <3>2. loop[d] = "reading"
      BY <2>3, <3>1 DEF RemoveEntry
    <3>3. \A e \in DOMAIN owner : owner[e] = owner[d] => loop[e] # "ended"
      BY <2>3, <3>1 DEF RemoveEntry
    <3>4. owner[d] \in Agents
      OBVIOUS
    <3> QED
      BY <2>3, <3>1, <3>2, <3>3, <3>4 DEF RemoveEntry, Removed
  <2>4. ASSUME NEW n \in Agents, Dial(n)
        PROVE  OpenIsRegistered'
    <3> SUFFICES ASSUME NEW d \in DOMAIN owner', link'[d] = "open",
                        loop'[d] = "reading",
                        \A e \in DOMAIN owner' : owner'[e] = owner'[d] => loop'[e] # "ended"
                 PROVE  agents'[owner'[d]] = d
      OBVIOUS
    <3> HIDE DEF HubTypeOK, OpenIsRegistered
    <3>1. agents' = agents
      BY <2>4 DEF Dial
    <3>2. d \in DOMAIN owner
      BY <2>4, DialKeeps
    <3>3. link[d] = "open" /\ loop[d] = "reading" /\ owner'[d] = owner[d]
      BY <2>4, <3>2, DialKeeps
    <3>4. \A e \in DOMAIN owner : owner[e] = owner[d] => loop[e] # "ended"
      BY <2>4, <3>3, DialKeeps
    <3> QED
      BY <3>1, <3>2, <3>3, <3>4 DEF OpenIsRegistered
  <2>5. ASSUME NEW c \in DOMAIN owner, Break(c)
        PROVE  OpenIsRegistered'
    BY <2>5 DEF Break
  <2>6. ASSUME UNCHANGED <<agents, connVars>>
        PROVE  OpenIsRegistered'
    BY <2>6 DEF connVars
  <2> QED
    BY <1>2, <2>1, <2>2, <2>3, <2>4, <2>5, <2>6
       DEF HubNext, HubStep, ClientStep, HubIdle, hubVars,
           Restart, ClientReadFails, ClientRead, SendLookup, SendWrite
<1> QED
  BY <1>1, <1>2, HubTypeCorrect, PTL DEF HubSpec

-----------------------------------------------------------------------------
(* The order of messages. *)

\* The messages of q, none begun after number last, are in an order that Send
\* allows.
Ordered(q, last) ==
  /\ \A i \in DOMAIN q : q[i].number <= last /\ q[i].after \subseteq 1..last
  /\ \A i, j \in DOMAIN q : i < j => MayFollow(q[j], q[i])

\* Every message of q may be read after those of p.
Precedes(p, q) ==
  \A i \in DOMAIN p, j \in DOMAIN q : MayFollow(q[j], p[i])

\* What sender s has in hand may be read after all that has been written, and
\* before or after what any other sender has in hand.
MessageInHand(s) ==
  LET m == sending[s].message
  IN /\ sending[s].conn \in DOMAIN owner
     /\ m.number <= sent /\ m.after \subseteq 1..sent
     /\ \A c \in Conns : Precedes(inbox[c], <<m>>)
     /\ \A n \in Agents : Precedes(handled[n], <<m>>)
     /\ \A u \in Senders \ {s} :
          sending[u] # Nothing => MayFollow(sending[u].message, m)

\* The messages of a connection are in order, those of the connection a client
\* reads come after all it has read, a connection not yet dialled has none, and
\* a message in a sender's hand may come after every other.
MessagesOrdered ==
  /\ \A c \in Conns : Ordered(inbox[c], sent) /\ (c \notin DOMAIN owner => inbox[c] = <<>>)
  /\ \A n \in Agents : Ordered(handled[n], sent)
  /\ \A n \in Agents :
       attached[n] # NoConn => Precedes(handled[n], inbox[attached[n]])
  /\ \A s \in Senders : sending[s] # Nothing => MessageInHand(s)

\* What appending a message and taking the first one do to the order.
LEMMA PrecedesAppend ==
  ASSUME NEW p \in Seq(Message), NEW q \in Seq(Message), NEW m \in Message,
         Precedes(p, q)
  PROVE  /\ Precedes(p, <<m>>) => Precedes(p, Append(q, m))
         /\ Precedes(<<m>>, q) => Precedes(Append(p, m), q)
<1>1. ASSUME NEW r \in Seq(Message)
      PROVE  /\ DOMAIN r = 1..Len(r) /\ Len(r) \in Nat
             /\ DOMAIN Append(r, m) = 1..(Len(r) + 1)
             /\ \A i \in 1..Len(r) : Append(r, m)[i] = r[i]
             /\ Append(r, m)[Len(r) + 1] = m
  BY <1>1
<1>2. DOMAIN <<m>> = {1} /\ <<m>>[1] = m
  OBVIOUS
<1>3. ASSUME Precedes(p, <<m>>) PROVE Precedes(p, Append(q, m))
  <2>1. \A i \in DOMAIN p : MayFollow(m, p[i])
    BY <1>2, <1>3 DEF Precedes
  <2>2. \A j \in DOMAIN Append(q, m) :
          Append(q, m)[j] = m \/ (j \in DOMAIN q /\ Append(q, m)[j] = q[j])
    BY <1>1
  <2> QED BY <2>1, <2>2 DEF Precedes
<1>4. ASSUME Precedes(<<m>>, q) PROVE Precedes(Append(p, m), q)
  <2>1. \A j \in DOMAIN q : MayFollow(q[j], m)
    BY <1>2, <1>4 DEF Precedes
  <2>2. \A i \in DOMAIN Append(p, m) :
          Append(p, m)[i] = m \/ (i \in DOMAIN p /\ Append(p, m)[i] = p[i])
    BY <1>1
  <2> QED BY <2>1, <2>2 DEF Precedes
<1> QED BY <1>3, <1>4

\* Tail and head of a sequence keep what the sequence precedes or follows.
LEMMA PrecedesTail ==
  ASSUME NEW p \in Seq(Message), NEW q \in Seq(Message), q # <<>>
  PROVE  /\ Head(q) \in Message
         /\ Precedes(p, q) => Precedes(p, Tail(q)) /\ Precedes(p, <<Head(q)>>)
         /\ Precedes(q, p) => Precedes(Tail(q), p)
<1>1. /\ Head(q) = q[1] /\ 1 \in DOMAIN q /\ Head(q) \in Message
      /\ \A i \in DOMAIN Tail(q) : i + 1 \in DOMAIN q /\ Tail(q)[i] = q[i + 1]
  OBVIOUS
<1>2. DOMAIN <<Head(q)>> = {1} /\ <<Head(q)>>[1] = Head(q)
  OBVIOUS
<1>3. ASSUME Precedes(p, q) PROVE Precedes(p, Tail(q)) /\ Precedes(p, <<Head(q)>>)
  <2>1. Precedes(p, Tail(q))
    BY <1>1, <1>3 DEF Precedes
  <2>2. Precedes(p, <<Head(q)>>)
    BY <1>1, <1>2, <1>3 DEF Precedes
  <2> QED BY <2>1, <2>2
<1>4. ASSUME Precedes(q, p) PROVE Precedes(Tail(q), p)
  BY <1>1, <1>4 DEF Precedes
<1> QED BY <1>1, <1>3, <1>4

\* A message that may follow all of a sequence keeps it in order.
LEMMA OrderedAppend ==
  ASSUME NEW q \in Seq(Message), NEW m \in Message, NEW last \in Nat,
         Ordered(q, last), m.number <= last, m.after \subseteq 1..last,
         Precedes(q, <<m>>)
  PROVE  Ordered(Append(q, m), last)
<1>1. /\ DOMAIN q = 1..Len(q) /\ Len(q) \in Nat
      /\ DOMAIN Append(q, m) = 1..(Len(q) + 1)
      /\ \A i \in 1..Len(q) : Append(q, m)[i] = q[i]
      /\ Append(q, m)[Len(q) + 1] = m
  OBVIOUS
<1>2. \A i \in 1..Len(q) : MayFollow(m, q[i])
  BY <1>1 DEF Precedes
<1> QED BY <1>1, <1>2 DEF Ordered

\* The rest of a sequence is in order and may follow its head.
LEMMA OrderedTail ==
  ASSUME NEW q \in Seq(Message), NEW last, q # <<>>, Ordered(q, last)
  PROVE  /\ Ordered(Tail(q), last)
         /\ Head(q).number <= last /\ Head(q).after \subseteq 1..last
         /\ Precedes(<<Head(q)>>, Tail(q))
<1>1. /\ DOMAIN q = 1..Len(q) /\ Len(q) \in Nat /\ Len(q) >= 1
      /\ DOMAIN Tail(q) = 1..(Len(q) - 1)
      /\ \A i \in 1..(Len(q) - 1) : Tail(q)[i] = q[i + 1]
      /\ Head(q) = q[1] /\ Head(q) \in Message
  OBVIOUS
<1> QED BY <1>1 DEF Ordered, Precedes

\* Every step of the hub, the clients and the senders keeps messages in order.
LEMMA MessagesOrderedStep ==
  ASSUME HubTypeOK, MessagesOrdered, [HubNext]_hubVars
  PROVE  MessagesOrdered'
<1> USE HubAssumption DEF NoConn
<1>0. /\ inbox \in [Conns -> Seq(Message)] /\ handled \in [Agents -> Seq(Message)]
      /\ sent \in Nat /\ sending \in [Senders -> {Nothing} \cup [conn : Conns, message : Message]]
      /\ DOMAIN owner = 1..Len(owner) /\ Len(owner) \in Nat /\ Len(owner) <= MaxDials
      /\ attached \in [Agents -> DOMAIN owner \cup {NoConn}]
      /\ agents \in [Agents -> DOMAIN owner \cup {NoConn}]
      /\ DOMAIN owner \subseteq Conns
      /\ \A m \in Message : m.number \in Nat
  <2>1. DOMAIN owner = 1..Len(owner) /\ Len(owner) \in Nat /\ Len(owner) <= MaxDials
    BY DEF HubTypeOK
  <2>2. DOMAIN owner \subseteq Conns
    BY <2>1 DEF Conns
  <2>3. sent \in Nat /\ \A m \in Message : m.number \in Nat
    BY DEF HubTypeOK, Message
  <2> QED BY <2>1, <2>2, <2>3 DEF HubTypeOK
<1>1. ASSUME UNCHANGED <<inbox, handled, sent, sending>>,
             DOMAIN owner \subseteq DOMAIN owner',
             \A n \in Agents : \/ attached'[n] = attached[n]
                               \/ attached'[n] = NoConn
                               \/ attached'[n] \in Conns \ DOMAIN owner
      PROVE  MessagesOrdered'
  <2>1. \A c \in Conns : Ordered(inbox'[c], sent') /\ (c \notin DOMAIN owner' => inbox'[c] = <<>>)
    BY <1>1 DEF MessagesOrdered
  <2>2. \A n \in Agents : Ordered(handled'[n], sent')
    BY <1>1 DEF MessagesOrdered
  <2>3. ASSUME NEW n \in Agents, attached'[n] # NoConn
        PROVE  Precedes(handled'[n], inbox'[attached'[n]])
    <3>1. CASE attached'[n] = attached[n]
      BY <1>1, <2>3, <3>1 DEF MessagesOrdered
    <3>2. CASE attached'[n] \in Conns \ DOMAIN owner
      <4>1. inbox'[attached'[n]] = <<>>
        BY <1>1, <3>2 DEF MessagesOrdered
      <4> QED BY <4>1 DEF Precedes
    <3> QED BY <1>1, <2>3, <3>1, <3>2
  <2>4. \A s \in Senders : sending'[s] # Nothing => MessageInHand(s)'
    BY <1>1 DEF MessagesOrdered, MessageInHand
  <2> QED BY <2>1, <2>2, <2>3, <2>4 DEF MessagesOrdered
<1>2. ASSUME NEW n \in Agents, Dial(n) PROVE MessagesOrdered'
  <2>1. DOMAIN owner \subseteq DOMAIN owner'
    BY <1>2, DialKeeps
  <2>2. attached'[n] = Len(owner) + 1 /\ Len(owner) + 1 \in Conns \ DOMAIN owner
    <3>1. Len(owner') = Len(owner) + 1
      BY <1>2 DEF Dial, HubTypeOK
    <3> QED BY <1>0, <1>2, <3>1 DEF Dial, Conns
  <2>3. \A m \in Agents : attached'[m] = attached[m] \/ m = n
    BY <1>0, <1>2 DEF Dial
  <2> QED BY <1>1, <1>2, <2>1, <2>2, <2>3 DEF Dial
<1>3. ASSUME NEW n \in Agents, ClientRead(n) PROVE MessagesOrdered'
  <2> DEFINE c == attached[n]
             m == Head(inbox[c])
             rest == Tail(inbox[c])
  <2>1. /\ c \in DOMAIN owner /\ c \in Conns /\ inbox[c] # <<>> /\ c # NoConn
        /\ inbox[c] \in Seq(Message) /\ handled[n] \in Seq(Message)
        /\ handled' = [handled EXCEPT ![n] = Append(handled[n], m)]
        /\ inbox' = [inbox EXCEPT ![c] = rest]
        /\ UNCHANGED <<owner, attached, sending, sent>>
    BY <1>0, <1>3 DEF ClientRead, connVars
  <2>2. /\ m \in Message /\ rest \in Seq(Message)
        /\ Ordered(rest, sent) /\ m.number <= sent /\ m.after \subseteq 1..sent
        /\ Precedes(<<m>>, rest)
        /\ Precedes(handled[n], inbox[c])
    <3>1. m \in Message /\ rest \in Seq(Message)
      BY <2>1
    <3>2. Ordered(inbox[c], sent) /\ Precedes(handled[n], inbox[c])
      BY <2>1 DEF MessagesOrdered
    <3>3. /\ Ordered(rest, sent) /\ m.number <= sent /\ m.after \subseteq 1..sent
          /\ Precedes(<<m>>, rest)
      BY <2>1, <3>2, OrderedTail
    <3> QED BY <3>1, <3>2, <3>3
  <2>3. Precedes(handled[n], <<m>>) /\ Precedes(handled[n], rest)
    BY <2>1, <2>2, PrecedesTail
  <2>a. /\ \A x \in Conns : inbox'[x] = IF x = c THEN rest ELSE inbox[x]
        /\ \A x \in Agents :
             handled'[x] = IF x = n THEN Append(handled[n], m) ELSE handled[x]
    BY <1>0, <2>1
  <2>b. \A q \in Seq(Message) :
          /\ Precedes(q, inbox[c]) => Precedes(q, rest)
          /\ Precedes(inbox[c], q) => Precedes(rest, q)
    BY <2>1, PrecedesTail
  <2>c. attached[n] = c
    OBVIOUS
  <2> HIDE DEF c, m, rest
  <2>4. Ordered(Append(handled[n], m), sent)
    BY <1>0, <2>1, <2>2, <2>3, OrderedAppend DEF MessagesOrdered
  <2>5. Precedes(Append(handled[n], m), rest)
    BY <2>1, <2>2, <2>3, PrecedesAppend
  <2>6. \A x \in Conns : Ordered(inbox'[x], sent') /\ (x \notin DOMAIN owner' => inbox'[x] = <<>>)
    BY <2>1, <2>2, <2>a DEF MessagesOrdered
  <2>7. \A x \in Agents : Ordered(handled'[x], sent')
    BY <2>1, <2>4, <2>a DEF MessagesOrdered
  <2>8. ASSUME NEW x \in Agents, attached[x] # NoConn
        PROVE  Precedes(handled'[x], inbox'[attached[x]])
    <3>1. /\ attached[x] \in Conns /\ handled[x] \in Seq(Message)
          /\ Precedes(handled[x], inbox[attached[x]])
      BY <1>0, <2>8 DEF MessagesOrdered
    <3>2. CASE x = n
      BY <2>5, <2>a, <2>c, <3>1, <3>2
    <3>3. CASE x # n
      BY <2>a, <2>b, <3>1, <3>3
    <3> QED BY <3>2, <3>3
  <2>9. ASSUME NEW s \in Senders, sending[s] # Nothing PROVE MessageInHand(s)'
    <3> DEFINE late == <<sending[s].message>>
    <3>0. MessageInHand(s)
      BY <2>9 DEF MessagesOrdered
    <3>1. /\ \A x \in Conns : Precedes(inbox[x], late)
          /\ \A x \in Agents : Precedes(handled[x], late)
      BY <3>0 DEF MessageInHand
    <3>a. late \in Seq(Message)
      <4>1. sending[s].message \in Message
        BY <1>0, <2>9
      <4> QED BY <4>1
    <3> HIDE DEF late
    <3>2. Precedes(rest, late)
      BY <2>1, <2>b, <3>1, <3>a
    <3>3. MayFollow(sending[s].message, m)
      BY <2>1, <3>1 DEF Precedes, late, m
    <3>4. Precedes(<<m>>, late)
      BY <3>3 DEF Precedes, late
    <3>5. Precedes(Append(handled[n], m), late)
      BY <2>1, <2>2, <3>1, <3>a, <3>4, PrecedesAppend
    <3>6. /\ \A x \in Conns : Precedes(inbox'[x], late)
          /\ \A x \in Agents : Precedes(handled'[x], late)
      BY <2>a, <3>1, <3>2, <3>5
    <3> QED BY <2>1, <3>0, <3>6 DEF late, MessageInHand
  <2> QED BY <2>1, <2>6, <2>7, <2>8, <2>9 DEF MessagesOrdered
<1>4. ASSUME NEW s \in Senders, NEW n \in Agents, SendLookup(s, n)
      PROVE  MessagesOrdered'
  <2> DEFINE new == NewMessage(n)
  <2>1. /\ sending[s] = Nothing /\ sent' = sent + 1
        /\ sending' = IF Connected(agents[n])
                        THEN [sending EXCEPT ![s] =
                                [conn |-> agents[n], message |-> new]]
                        ELSE sending
        /\ UNCHANGED <<owner, attached, inbox, handled>>
    BY <1>4 DEF SendLookup, connVars
  <2>2. /\ new.number = sent + 1 /\ new.after = Returned
        /\ Returned \subseteq 1..sent
    BY DEF NewMessage, Returned
  <2> HIDE DEF new
  <2>3. ASSUME NEW q \in Seq(Message), Ordered(q, sent)
        PROVE  Ordered(q, sent') /\ Precedes(q, <<new>>)
    <3>1. \A i \in DOMAIN q : q[i] \in Message /\ q[i].number \in Nat
      BY <1>0, ElementOfSeq, LenProperties
    <3>2. \A i \in DOMAIN <<new>> : <<new>>[i] = new
      OBVIOUS
    <3>3. Ordered(q, sent')
      BY <1>0, <2>1, <2>3, <3>1 DEF Ordered
    <3>4. \A i \in DOMAIN q : MayFollow(new, q[i])
      BY <1>0, <2>2, <2>3, <3>1 DEF Ordered, MayFollow
    <3> QED BY <3>2, <3>3, <3>4 DEF Precedes
  <2>4. /\ \A c \in Conns : Ordered(inbox'[c], sent') /\ Precedes(inbox'[c], <<new>>)
        /\ \A x \in Agents : Ordered(handled'[x], sent') /\ Precedes(handled'[x], <<new>>)
    BY <1>0, <2>1, <2>3 DEF MessagesOrdered
  <2>5. ASSUME NEW u \in Senders, sending[u] # Nothing
        PROVE  /\ MessageInHand(u)
               /\ MayFollow(new, sending[u].message)
               /\ MayFollow(sending[u].message, new)
    <3>1. MessageInHand(u) /\ sending[u].message \in Message
      BY <1>0, <2>5 DEF MessagesOrdered
    <3>2. /\ sending[u].message.number \in Nat
          /\ sending[u].message.number <= sent
          /\ sending[u].message.after \subseteq 1..sent
      BY <1>0, <3>1 DEF MessageInHand
    <3>3. sending[u].message.number \notin Returned
      BY <2>5 DEF Returned
    <3> QED BY <1>0, <2>2, <3>1, <3>2, <3>3 DEF MayFollow
  <2>6. ASSUME NEW u \in Senders, sending'[u] # Nothing
        PROVE  MessageInHand(u)'
    <3>1. CASE sending' = sending
      <4>1. MessageInHand(u)
        BY <2>5, <2>6, <3>1
      <4>2. /\ sending[u].message.number <= sent'
            /\ sending[u].message.after \subseteq 1..sent'
        <5>1. sending[u].message.number \in Nat
          BY <1>0, <2>6, <3>1
        <5> QED BY <1>0, <2>1, <4>1, <5>1 DEF MessageInHand
      <4> QED BY <2>1, <3>1, <4>1, <4>2 DEF MessageInHand
    <3>2. CASE sending' # sending
      <4>1. /\ sending' = [sending EXCEPT ![s] = [conn |-> agents[n], message |-> new]]
            /\ Connected(agents[n])
        BY <2>1, <3>2
      <4>2. /\ sending'[s].conn \in DOMAIN owner /\ sending'[s].message = new
            /\ \A v \in Senders \ {s} : sending'[v] = sending[v]
        BY <1>0, <4>1 DEF Connected
      <4>3. CASE u = s
        <5>1. new.number <= sent' /\ new.after \subseteq 1..sent'
          BY <1>0, <2>1, <2>2
        <5>2. \A v \in Senders \ {s} :
                sending'[v] # Nothing => MayFollow(sending'[v].message, new)
          BY <2>5, <4>2
        <5> QED BY <2>1, <2>4, <4>2, <4>3, <5>1, <5>2 DEF MessageInHand
      <4>4. CASE u # s
        <5>1. /\ MessageInHand(u) /\ MayFollow(new, sending[u].message)
              /\ sending'[u] = sending[u] /\ sending[u].message \in Message
          BY <1>0, <2>5, <2>6, <4>2, <4>4
        <5>2. /\ sending[u].message.number <= sent'
              /\ sending[u].message.after \subseteq 1..sent'
          BY <1>0, <2>1, <5>1 DEF MessageInHand
        <5>3. \A v \in Senders \ {u} :
                sending'[v] # Nothing => MayFollow(sending'[v].message, sending[u].message)
          BY <4>2, <5>1 DEF MessageInHand
        <5> QED BY <2>1, <5>1, <5>2, <5>3 DEF MessageInHand
      <4> QED BY <4>3, <4>4
    <3> QED BY <3>1, <3>2
  <2> QED BY <2>1, <2>4, <2>6 DEF MessagesOrdered
<1>5. ASSUME NEW s \in Senders, SendWrite(s) PROVE MessagesOrdered'
  <2> DEFINE c == sending[s].conn
             m == sending[s].message
  <2>1. /\ sending[s] # Nothing
        /\ inbox' = IF link[c] = "open"
                      THEN [inbox EXCEPT ![c] = Append(inbox[c], m)] ELSE inbox
        /\ sending' = [sending EXCEPT ![s] = Nothing]
        /\ UNCHANGED <<owner, attached, sent, handled>>
    BY <1>5 DEF SendWrite, connVars
  <2>2. /\ c \in DOMAIN owner /\ c \in Conns /\ m \in Message
        /\ m.number <= sent /\ m.after \subseteq 1..sent
        /\ \A x \in Conns : Precedes(inbox[x], <<m>>)
        /\ \A x \in Agents : Precedes(handled[x], <<m>>)
    BY <1>0, <2>1 DEF MessagesOrdered, MessageInHand
  <2>3. \A u \in Senders \ {s} :
          sending[u] # Nothing => MayFollow(sending[u].message, m)
    BY <2>1 DEF MessagesOrdered, MessageInHand
  <2> HIDE DEF c, m
  <2>4. Ordered(Append(inbox[c], m), sent)
    BY <1>0, <2>2, OrderedAppend DEF MessagesOrdered
  <2>5. \A x \in Conns : \/ inbox'[x] = inbox[x]
                         \/ x = c /\ inbox'[x] = Append(inbox[c], m)
    BY <1>0, <2>1, <2>2
  <2>6. \A x \in Conns :
          Ordered(inbox'[x], sent) /\ (x \notin DOMAIN owner => inbox'[x] = <<>>)
    BY <2>2, <2>4, <2>5 DEF MessagesOrdered
  <2>7. ASSUME NEW n \in Agents, attached[n] # NoConn
        PROVE  Precedes(handled[n], inbox'[attached[n]])
    <3>1. attached[n] \in Conns /\ Precedes(handled[n], inbox[attached[n]])
      BY <1>0, <2>7 DEF MessagesOrdered
    <3>2. Precedes(handled[n], Append(inbox[c], m)) \/ attached[n] # c
      BY <1>0, <2>2, <3>1, PrecedesAppend
    <3> QED BY <2>5, <3>1, <3>2
  <2>8. ASSUME NEW u \in Senders, sending'[u] # Nothing PROVE MessageInHand(u)'
    <3> DEFINE late == sending[u].message
    <3>1. /\ u # s /\ sending'[u] = sending[u] /\ sending[u] # Nothing
          /\ \A v \in Senders : sending'[v] = sending[v] \/ sending'[v] = Nothing
      BY <1>0, <2>1, <2>8
    <3>2. MessageInHand(u) /\ late \in Message /\ MayFollow(late, m)
      BY <1>0, <2>3, <3>1 DEF MessagesOrdered
    <3>3. Precedes(<<m>>, <<late>>)
      BY <3>2 DEF Precedes
    <3>4. /\ Precedes(inbox[c], <<late>>) /\ inbox[c] \in Seq(Message)
          /\ <<late>> \in Seq(Message)
      BY <1>0, <2>2, <3>2 DEF MessageInHand
    <3>5. Precedes(Append(inbox[c], m), <<late>>)
      BY <2>2, <3>3, <3>4, PrecedesAppend
    <3>6. \A x \in Conns : Precedes(inbox'[x], <<late>>)
      BY <2>5, <3>2, <3>5 DEF MessageInHand
    <3> QED BY <2>1, <3>1, <3>2, <3>6 DEF MessageInHand
  <2> QED BY <2>1, <2>6, <2>7, <2>8 DEF MessagesOrdered
<1>6. ASSUME UNCHANGED <<owner, inbox, handled, sent, sending>>,
             UNCHANGED attached
               \/ \E n \in Agents : attached' = [attached EXCEPT ![n] = NoConn]
      PROVE  MessagesOrdered'
  BY <1>0, <1>1, <1>6
<1>7. ASSUME NEW c \in DOMAIN owner, HubStep(c) \/ Break(c) PROVE MessagesOrdered'
  BY <1>6, <1>7 DEF HubStep, Register, ReadFails, RemoveEntry, Break
<1>8. ASSUME NEW n \in Agents, Restart(n) \/ ClientReadFails(n)
      PROVE  MessagesOrdered'
  BY <1>6, <1>8 DEF Restart, ClientReadFails, connVars
<1>9. ASSUME UNCHANGED hubVars PROVE MessagesOrdered'
  BY <1>6, <1>9 DEF hubVars, connVars
<1> QED
  BY <1>2, <1>3, <1>4, <1>5, <1>7, <1>8, <1>9 DEF HubNext, ClientStep, HubIdle

\* A node reads a message at most once, and never one whose Send had returned
\* before the Send of one it has read began, over reconnects and half-open
\* connections and with any number of handlers that send: a client never goes
\* back to a connection it has left, and only Sends that overlap may be
\* written in either order.
THEOREM MessagesInOrder == HubSpec => []InOrder
<1>1. HubInit => MessagesOrdered
  BY DEF HubInit, MessagesOrdered, Ordered, Precedes, Conns
<1>2. HubTypeOK /\ MessagesOrdered /\ [HubNext]_hubVars => MessagesOrdered'
  BY MessagesOrderedStep
<1>3. MessagesOrdered => InOrder
  BY DEF MessagesOrdered, Ordered, InOrder
<1> QED
  BY <1>1, <1>2, <1>3, HubTypeCorrect, PTL DEF HubSpec
=============================================================================
