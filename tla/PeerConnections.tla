-------------------------- MODULE PeerConnections --------------------------
(***************************************************************************)
(* The connections between hubs (graffiti/hub/replication_endpoint.go) on  *)
(* top of the WebSocket client and server (websocket/client.go, server.go, *)
(* pool.go).                                                               *)
(*                                                                         *)
(* A link is a configured peer address: a client of the hub From[l] that   *)
(* dials the hub To[l].  Two hubs that list each other dial each other, a  *)
(* hub that lists itself dials itself, and a hub known under two addresses *)
(* is dialled twice.  Each hub counts its connections with each host, both *)
(* incoming and outgoing ones, and stops the ones in excess.               *)
(***************************************************************************)
EXTENDS Integers, FiniteSets, SequencesExt

CONSTANTS Hubs,       \* the host ids
          Links,      \* the peer addresses of all the hubs
          From, To,   \* the hub that dials and the hub that is dialled
          MaxBreaks,  \* bound on the number of network failures
          MaxDials    \* bound on the number of dials of each client

ASSUME LinksAssumption == From \in [Links -> Hubs] /\ To \in [Links -> Hubs]
ASSUME BoundsAssumption == MaxBreaks \in Nat /\ MaxDials \in Nat

VARIABLES
    running,   \* Conn.running of each client: cleared for good by Stop
    cl,        \* the goroutine of each client
    sv,        \* the goroutine serving each link on the dialled hub
    open,      \* the TCP connection of each link
    cnt,       \* peerStates[host].cnt of each hub (0 when there is no entry)
    in,        \* the speakers of the incoming pool of each hub
    out,       \* the speakers of the outgoing pool of each hub
    breaks,    \* the number of network failures
    dials      \* the number of dials of each client

vars == <<running, cl, sv, open, cnt, in, out, breaks, dials>>

Init == /\ running = [l \in Links |-> TRUE]
        /\ cl = [l \in Links |-> "down"]
        /\ sv = [l \in Links |-> "none"]
        /\ open = [l \in Links |-> FALSE]
        /\ cnt = [h \in Hubs |-> [g \in Hubs |-> 0]]
        /\ in = [h \in Hubs |-> <<>>]
        /\ out = [h \in Hubs |-> <<>>]
        /\ breaks = 0
        /\ dials = [l \in Links |-> 0]

\* A request passes the check of serveMessages: no speaker of the incoming
\* pool has its host id.  A refused client tries again later.
Dial(l) ==
    /\ cl[l] = "down"
    /\ running[l]
    /\ \A i \in DOMAIN in[To[l]] : From[in[To[l]][i]] # From[l]
    /\ dials[l] < MaxDials
    /\ dials' = [dials EXCEPT ![l] = @ + 1]
    /\ cl' = [cl EXCEPT ![l] = "dialing"]
    /\ UNCHANGED <<running, sv, open, cnt, in, out, breaks>>

\* serveMessages upgrades the connection, which makes Client.Connect return,
\* and newIncomingClient adds the speaker to the pool.
Accept(l) ==
    /\ cl[l] = "dialing"
    /\ cl' = [cl EXCEPT ![l] = "connected"]
    /\ sv' = [sv EXCEPT ![l] = "connected"]
    /\ open' = [open EXCEPT ![l] = TRUE]
    /\ in' = [in EXCEPT ![To[l]] = Append(@, l)]
    /\ UNCHANGED <<running, cnt, out, breaks, dials>>

\* Mutant: a connection in excess is not counted.
MutCounted(h, g) == cnt' = [cnt EXCEPT ![h][g] = 1]

\* A connection between h and g is counted by h.
Counted(h, g) == cnt' = [cnt EXCEPT ![h][g] = @ + 1]

\* Mutant: a peer that is already connected is not refused.
MutPeerConnected(l) ==
    LET h == From[l]  g == To[l] IN
    /\ cl[l] = "connected"
    /\ Counted(h, g)
    /\ IF g = h
       THEN /\ running' = [running EXCEPT ![l] = FALSE]
            /\ cl' = [cl EXCEPT ![l] = "stopping"]
            /\ UNCHANGED out
       ELSE /\ cl' = [cl EXCEPT ![l] = "up"]
            /\ out' = [out EXCEPT ![h] = Append(@, l)]
            /\ UNCHANGED running
    /\ UNCHANGED <<sv, open, in, breaks, dials>>

\* ReplicatorPeer.OnConnected: the client is stopped when the peer is the hub
\* itself or is already connected; otherwise it joins the outgoing pool.
PeerConnected(l) ==
    LET h == From[l]  g == To[l] IN
    /\ cl[l] = "connected"
    /\ Counted(h, g)
    /\ IF g = h \/ cnt'[h][g] > 1
       THEN /\ running' = [running EXCEPT ![l] = FALSE]
            /\ cl' = [cl EXCEPT ![l] = "stopping"]
            /\ UNCHANGED out
       ELSE /\ cl' = [cl EXCEPT ![l] = "up"]
            /\ out' = [out EXCEPT ![h] = Append(@, l)]
            /\ UNCHANGED running
    /\ UNCHANGED <<sv, open, in, breaks, dials>>

\* ReplicationEndpoint.OnConnected: an incoming connection is stopped when the
\* peer is already connected.
IncomerConnected(l) ==
    LET h == To[l]  g == From[l] IN
    /\ sv[l] = "connected"
    /\ Counted(h, g)
    /\ sv' = [sv EXCEPT ![l] = IF cnt'[h][g] > 1 THEN "stopping" ELSE "up"]
    /\ UNCHANGED <<running, cl, open, in, out, breaks, dials>>

\* The network fails.
Break(l) ==
    /\ open[l]
    /\ breaks < MaxBreaks
    /\ breaks' = breaks + 1
    /\ open' = [open EXCEPT ![l] = FALSE]
    /\ UNCHANGED <<running, cl, sv, cnt, in, out, dials>>

\* Mutant: a lost connection ends the client.
MutPeerClosed(l) ==
    /\ cl[l] = "stopping" \/ (cl[l] = "up" /\ ~open[l])
    /\ cl' = [cl EXCEPT ![l] = "closed"]
    /\ open' = [open EXCEPT ![l] = FALSE]
    /\ running' = [running EXCEPT ![l] = FALSE]
    /\ UNCHANGED <<sv, cnt, in, out, breaks, dials>>

\* The main loop of Conn.run returns, on a stop or because the other side is
\* gone, and closes the connection.
PeerClosed(l) ==
    /\ cl[l] = "stopping" \/ (cl[l] = "up" /\ ~open[l])
    /\ cl' = [cl EXCEPT ![l] = "closed"]
    /\ open' = [open EXCEPT ![l] = FALSE]
    /\ UNCHANGED <<running, sv, cnt, in, out, breaks, dials>>

IncomerClosed(l) ==
    /\ sv[l] = "stopping" \/ (sv[l] = "up" /\ ~open[l])
    /\ sv' = [sv EXCEPT ![l] = "closed"]
    /\ open' = [open EXCEPT ![l] = FALSE]
    /\ UNCHANGED <<running, cl, cnt, in, out, breaks, dials>>

\* Pool.RemoveClient: the first speaker with the given remote host leaves.
RemoveIncomer(s, g) == RemoveFirstMatch(s, LAMBDA l : From[l] = g)
RemoveClient(s, g) == RemoveFirstMatch(s, LAMBDA l : To[l] = g)

\* ReplicatorPeer.OnDisconnected: with the last connection of the peer its
\* resources are deleted and it leaves the outgoing pool.
PeerDisconnected(l) ==
    LET h == From[l]  g == To[l] IN
    /\ cl[l] = "closed"
    /\ cnt' = [cnt EXCEPT ![h][g] = @ - 1]
    /\ out' = IF cnt'[h][g] > 0 \/ g = h THEN out
              ELSE [out EXCEPT ![h] = RemoveClient(@, g)]
    /\ cl' = [cl EXCEPT ![l] = "down"]
    /\ UNCHANGED <<running, sv, open, in, breaks, dials>>

\* Mutant: the speaker leaves the pool with the last connection of its host.
MutIncomerDisconnected(l) ==
    LET h == To[l]  g == From[l] IN
    /\ sv[l] = "closed"
    /\ cnt' = [cnt EXCEPT ![h][g] = @ - 1]
    /\ in' = IF cnt'[h][g] > 0 THEN in ELSE [in EXCEPT ![h] = RemoveIncomer(@, g)]
    /\ sv' = [sv EXCEPT ![l] = "none"]
    /\ UNCHANGED <<running, cl, open, out, breaks, dials>>

\* incomerPool.OnDisconnected: ReplicationEndpoint.OnDisconnected, then the
\* speaker leaves the pool.
IncomerDisconnected(l) ==
    LET h == To[l]  g == From[l] IN
    /\ sv[l] = "closed"
    /\ cnt' = [cnt EXCEPT ![h][g] = @ - 1]
    /\ in' = [in EXCEPT ![h] = RemoveIncomer(@, g)]
    /\ sv' = [sv EXCEPT ![l] = "none"]
    /\ UNCHANGED <<running, cl, open, out, breaks, dials>>

ClientStep(l) == \/ Dial(l)
                 \/ Accept(l)
                 \/ PeerConnected(l)
                 \/ PeerClosed(l)
                 \/ PeerDisconnected(l)

ServerStep(l) == \/ IncomerConnected(l)
                 \/ IncomerClosed(l)
                 \/ IncomerDisconnected(l)

Next == \E l \in Links : ClientStep(l) \/ ServerStep(l) \/ Break(l)

\* Client.Start retries every second and the goroutines are scheduled fairly;
\* the network need not fail.
Fairness == \A l \in Links : SF_vars(ClientStep(l)) /\ WF_vars(ServerStep(l))

Spec == Init /\ [][Next]_vars /\ Fairness

-----------------------------------------------------------------------------

\* Every variable has its type.
TypeOK ==
    /\ running \in [Links -> BOOLEAN]
    /\ cl \in [Links -> {"down", "dialing", "connected", "up", "stopping", "closed"}]
    /\ sv \in [Links -> {"none", "connected", "up", "stopping", "closed"}]
    /\ open \in [Links -> BOOLEAN]
    /\ cnt \in [Hubs -> [Hubs -> Nat]]
    /\ in \in [Hubs -> Seq(Links)]
    /\ out \in [Hubs -> Seq(Links)]
    /\ breaks \in 0..MaxBreaks
    /\ dials \in [Links -> 0..MaxDials]

Counting == {"up", "stopping", "closed"}

\* The connections of h with g whose OnConnected ran and whose OnDisconnected
\* is to come.
Connections(h, g) ==
    {l \in Links : From[l] = h /\ To[l] = g /\ cl[l] \in Counting}
        \X {"out"}
    \cup {l \in Links : To[l] = h /\ From[l] = g /\ sv[l] \in Counting}
        \X {"in"}

\* peerStates counts the connections of every host exactly, whatever the order
\* of the callbacks: OnDisconnected never finds the entry of its host missing,
\* which would be a nil dereference (replication_endpoint.go, On*Connected).
CountExact == \A h, g \in Hubs : cnt[h][g] = Cardinality(Connections(h, g))

\* A hub replicates over at most one connection with each peer
\* (replication_endpoint.go, "as already connected").
OneServing ==
    \A h, g \in Hubs :
        Cardinality({l \in Links : From[l] = h /\ To[l] = g /\ cl[l] = "up"})
        + Cardinality({l \in Links : To[l] = h /\ From[l] = g /\ sv[l] = "up"})
            <= 1

Settled == \A l \in Links : cl[l] \in {"down", "up"} /\ sv[l] \in {"none", "up"}

\* Between two callbacks the incoming pool holds the live connections, each
\* once, and no other: a broadcast reaches every connected peer, and no dead
\* speaker blocks the host id of its peer for ever (pool.go, AddClient and
\* RemoveClient; server.go, serveMessages).
SettledPools ==
    Settled => \A h \in Hubs :
        /\ ToSet(in[h]) = {l \in Links : To[l] = h /\ sv[l] = "up"}
        /\ IsInjective(in[h])
        /\ {l \in Links : From[l] = h /\ cl[l] = "up"} \subseteq ToSet(out[h])

Connected(h, g) ==
    \E l \in Links : {From[l], To[l]} = {h, g} /\ cl[l] = "up" /\ sv[l] = "up"

Alone(l) == \A m \in Links : {From[m], To[m]} = {From[l], To[l]} => m = l

\* A hub that lists another one, under one address and without being listed by
\* it, ends up connected to it for good once the network stops failing
\* ("ConnectPeers starts a goroutine connecting all the peers",
\* replication_endpoint.go).
EventuallyPeered ==
    \A l \in Links :
        From[l] # To[l] /\ Alone(l) => <>[]Connected(From[l], To[l])

\* "disconnect as can be connected to the same host from different addresses"
\* (replication_endpoint.go): a client is given up for another connection with
\* the same peer, so that one client of every pair of hubs goes on dialling.
PeerKept ==
    \A l \in Links : From[l] # To[l] =>
        \E m \in Links : {From[m], To[m]} = {From[l], To[l]} /\ running[m]

\* "if X-Host-ID specified avoid having twice the same ID" (server.go): the
\* incoming pool never holds two speakers of the same host.
NoTwinSpeakers ==
    \A h \in Hubs : \A i, j \in DOMAIN in[h] :
        From[in[h][i]] = From[in[h][j]] => i = j
=============================================================================
