------------------------ MODULE MasterElectionProofs ------------------------
(***************************************************************************)
(* For any set of hubs and any number of lost connections: the pod never   *)
(* keeps a dead master, never misses an election, and every master that    *)
(* outlives its notifications got the whole graph.                         *)
(***************************************************************************)
EXTENDS MasterElection, TLAPS

\* The state of a connection as seen from its goroutine.
ConnAtPC ==
    \A c \in Clients :
        /\ pc[c] \in {"connected", "up"} => conn[c]
        /\ pc[c] \in {"down", "dropped", "elected"} => ~conn[c]

\* Without a master every connected client has OnConnected ahead of it.
NoMasterYet ==
    master = NoMaster => \A c \in Clients : conn[c] => pc[c] = "connected"

\* The goroutine d is going to send the whole graph to the master m.
WillSync(d, m) ==
    \/ pc[d] = "elected"
    \/ pc[d] = "notify" /\ arg[d] # NoMaster
    \/ pc[d] = "syncing" /\ tgt[d] = m

\* A connected master that was not sent the graph will be.
SyncPending ==
    \A m \in Clients : master = m /\ conn[m] /\ ~synced[m] =>
        \E d \in Clients : WillSync(d, m)

IInv == TypeOK /\ ConnAtPC /\ NoDeadMaster /\ NoMasterYet /\ SyncPending

\* A goroutine that does not move keeps its promise to synchronise the master.
LEMMA Kept ==
    ASSUME NEW c \in Clients, NEW d \in Clients, d # c, NEW m,
           TypeOK, WillSync(d, m),
           NEW l, Goto(c, l),
           arg' = arg \/ \E v : arg' = [arg EXCEPT ![c] = v],
           tgt' = tgt \/ \E v : tgt' = [tgt EXCEPT ![c] = v]
    PROVE  WillSync(d, m)'
  BY DEF TypeOK, WillSync, Goto

\* The invariant holds initially and is kept by every step.
THEOREM Invariance == Spec => []IInv
<1> USE NoMasterAssumption, MaxDropsAssumption
<1>1. Init => IInv
  <2> SUFFICES ASSUME Init PROVE IInv
    OBVIOUS
  <2> USE DEF Init
  <2>0. drops \in 0..MaxDrops /\ registered \in Nat
    OBVIOUS
  <2>1. TypeOK BY <2>0, Zenon DEF TypeOK, Speakers
  <2>2. ConnAtPC BY DEF ConnAtPC
  <2>3. NoDeadMaster BY DEF NoDeadMaster
  <2>4. NoMasterYet BY DEF NoMasterYet
  <2>5. SyncPending BY DEF SyncPending
  <2> QED BY <2>1, <2>2, <2>3, <2>4, <2>5 DEF IInv
<1>2. IInv /\ [Next]_vars => IInv'
  <2> SUFFICES ASSUME IInv, [Next]_vars PROVE IInv'
    OBVIOUS
  <2> USE DEF IInv
  <2>1. ASSUME NEW c \in Clients, Connect(c) PROVE IInv'
    <3> USE <2>1 DEF Connect, Goto
    <3>1. TypeOK' BY DEF TypeOK, Speakers
    <3>2. ConnAtPC' BY DEF TypeOK, ConnAtPC
    <3>3. NoDeadMaster' BY DEF TypeOK, NoDeadMaster, ConnAtPC
    <3>4. NoMasterYet' BY DEF TypeOK, NoMasterYet
    <3>5. master # c BY DEF NoDeadMaster, ConnAtPC
    <3>6. SyncPending'
      <4> SUFFICES ASSUME NEW m \in Clients, (master = m /\ conn[m] /\ ~synced[m])'
                   PROVE  \E d \in Clients : WillSync(d, m)'
        BY DEF SyncPending
      <4>1. master = m /\ conn[m] /\ ~synced[m]
        BY <3>5 DEF TypeOK
      <4>2. PICK d \in Clients : WillSync(d, m)
        BY <4>1 DEF SyncPending
      <4>3. d # c
        BY <4>2 DEF WillSync
      <4> QED BY <4>2, <4>3, Kept, ZenonT(30)
    <3> QED BY <3>1, <3>2, <3>3, <3>4, <3>6
  <2>2. ASSUME NEW c \in Clients, Drop(c) PROVE IInv'
    <3> USE <2>2 DEF Drop, Goto
    <3>1. TypeOK' BY DEF TypeOK, Speakers
    <3>2. ConnAtPC' BY DEF TypeOK, ConnAtPC
    <3>3. NoDeadMaster' BY DEF TypeOK, NoDeadMaster
    <3>4. NoMasterYet' BY DEF TypeOK, NoMasterYet
    <3>6. SyncPending'
      <4> SUFFICES ASSUME NEW m \in Clients, (master = m /\ conn[m] /\ ~synced[m])'
                   PROVE  \E d \in Clients : WillSync(d, m)'
        BY DEF SyncPending
      <4>1. master = m /\ conn[m] /\ ~synced[m]
        BY DEF TypeOK
      <4>2. PICK d \in Clients : WillSync(d, m)
        BY <4>1 DEF SyncPending
      <4>3. d # c
        BY <4>2 DEF WillSync
      <4> QED BY <4>2, <4>3, Kept, ZenonT(30)
    <3> QED BY <3>1, <3>2, <3>3, <3>4, <3>6
  <2>3. ASSUME NEW c \in Clients, OnConnected(c) PROVE IInv'
    <3> USE <2>3 DEF OnConnected, Goto
    <3>1. TypeOK' BY DEF TypeOK, Speakers
    <3>2. ConnAtPC' BY DEF TypeOK, ConnAtPC
    <3>3. NoDeadMaster' BY DEF TypeOK, NoDeadMaster, ConnAtPC
    <3>4. NoMasterYet' BY DEF TypeOK, NoMasterYet
    <3>6. SyncPending'
      <4> SUFFICES ASSUME NEW m \in Clients, (master = m /\ conn[m] /\ ~synced[m])'
                   PROVE  \E d \in Clients : WillSync(d, m)'
        BY DEF SyncPending
      <4>1. CASE master = NoMaster
        BY <4>1 DEF TypeOK, WillSync
      <4>2. CASE master # NoMaster
        <5>1. PICK d \in Clients : WillSync(d, m)
          BY <4>2 DEF SyncPending
        <5>2. d # c
          BY <5>1 DEF WillSync
        <5> QED BY <5>1, <5>2, <4>2, Kept
      <4> QED BY <4>1, <4>2
    <3> QED BY <3>1, <3>2, <3>3, <3>4, <3>6
  <2>4. ASSUME NEW c \in Clients, OnDisconnected(c) PROVE IInv'
    <3> USE <2>4 DEF OnDisconnected, Goto
    <3>1. TypeOK' BY DEF TypeOK, Speakers, PickConnectedSpeaker
    <3>2. ConnAtPC' BY DEF TypeOK, ConnAtPC
    <3>3. NoDeadMaster' BY DEF TypeOK, NoDeadMaster, PickConnectedSpeaker
    <3>4. NoMasterYet' BY DEF TypeOK, NoMasterYet, PickConnectedSpeaker, ConnAtPC
    <3>6. SyncPending'
      <4> SUFFICES ASSUME NEW m \in Clients, (master = m /\ conn[m] /\ ~synced[m])'
                   PROVE  \E d \in Clients : WillSync(d, m)'
        BY DEF SyncPending
      <4>1. CASE master = c
        BY <4>1 DEF TypeOK, WillSync
      <4>2. CASE master # c
        <5>1. PICK d \in Clients : WillSync(d, m)
          BY <4>2 DEF SyncPending
        <5>2. d # c
          BY <5>1 DEF WillSync
        <5> QED BY <5>1, <5>2, <4>2, Kept
      <4> QED BY <4>1, <4>2
    <3> QED BY <3>1, <3>2, <3>3, <3>4, <3>6
  <2>5. ASSUME NEW c \in Clients, ReadMaster(c) PROVE IInv'
    <3> USE <2>5 DEF ReadMaster, Goto
    <3>1. TypeOK' BY DEF TypeOK, Speakers
    <3>2. ConnAtPC' BY DEF TypeOK, ConnAtPC
    <3>3. NoDeadMaster' BY DEF TypeOK, NoDeadMaster
    <3>4. NoMasterYet' BY DEF TypeOK, NoMasterYet
    <3>6. SyncPending' BY DEF TypeOK, SyncPending, WillSync
    <3> QED BY <3>1, <3>2, <3>3, <3>4, <3>6
  <2>6. ASSUME NEW c \in Clients, LostMaster(c) PROVE IInv'
    <3> USE <2>6 DEF LostMaster, Back, Goto
    <3>1. TypeOK' BY DEF TypeOK, Speakers
    <3>2. ConnAtPC' BY DEF TypeOK, ConnAtPC
    <3>3. NoDeadMaster' BY DEF TypeOK, NoDeadMaster
    <3>4. NoMasterYet' BY DEF TypeOK, NoMasterYet
    <3>6. SyncPending'
      <4> SUFFICES ASSUME NEW m \in Clients, (master = m /\ conn[m] /\ ~synced[m])'
                   PROVE  \E d \in Clients : WillSync(d, m)'
        BY DEF SyncPending
      <4>1. PICK d \in Clients : WillSync(d, m)
        BY DEF SyncPending
      <4>2. d # c
        BY <4>1 DEF WillSync
      <4> QED BY <4>1, <4>2, Kept, ZenonT(30)
    <3> QED BY <3>1, <3>2, <3>3, <3>4, <3>6
  <2>7. ASSUME NEW c \in Clients, Resync(c) PROVE IInv'
    <3> USE <2>7 DEF Resync, Goto
    <3>1. TypeOK' BY DEF TypeOK, Speakers
    <3>2. ConnAtPC' BY DEF TypeOK, ConnAtPC
    <3>3. NoDeadMaster' BY DEF TypeOK, NoDeadMaster
    <3>4. NoMasterYet' BY DEF TypeOK, NoMasterYet
    <3>6. SyncPending' BY DEF TypeOK, SyncPending, WillSync
    <3> QED BY <3>1, <3>2, <3>3, <3>4, <3>6
  <2>8. ASSUME NEW c \in Clients, SyncSent(c) PROVE IInv'
    <3> USE <2>8 DEF SyncSent, Back, Goto
    <3>1. TypeOK' BY DEF TypeOK, Speakers
    <3>2. ConnAtPC' BY DEF TypeOK, ConnAtPC
    <3>3. NoDeadMaster' BY DEF TypeOK, NoDeadMaster
    <3>4. NoMasterYet' BY DEF TypeOK, NoMasterYet
    <3>6. SyncPending'
      <4> SUFFICES ASSUME NEW m \in Clients, (master = m /\ conn[m] /\ ~synced[m])'
                   PROVE  \E d \in Clients : WillSync(d, m)'
        BY DEF SyncPending
      <4>1. master = m /\ conn[m] /\ ~synced[m] /\ tgt[c] # m
        BY DEF TypeOK
      <4>2. PICK d \in Clients : WillSync(d, m)
        BY <4>1 DEF SyncPending
      <4>3. d # c
        BY <4>1, <4>2 DEF WillSync
      <4> QED BY <4>2, <4>3, Kept, ZenonT(30)
    <3> QED BY <3>1, <3>2, <3>3, <3>4, <3>6
  <2>9. CASE GraphEvent \/ EventSent
    <3> USE <2>9 DEF GraphEvent, EventSent, WriteLocked
    <3>1. TypeOK' BY DEF TypeOK, Speakers
    <3>2. ConnAtPC' BY DEF ConnAtPC
    <3>3. NoDeadMaster' BY DEF NoDeadMaster
    <3>4. NoMasterYet' BY DEF NoMasterYet
    <3>6. SyncPending' BY DEF SyncPending, WillSync
    <3> QED BY <3>1, <3>2, <3>3, <3>4, <3>6
  <2>10. CASE UNCHANGED vars
    BY <2>10 DEF vars, TypeOK, ConnAtPC, NoDeadMaster, NoMasterYet,
                 SyncPending, WillSync
  <2> QED BY <2>1, <2>2, <2>3, <2>4, <2>5, <2>6, <2>7, <2>8, <2>9, <2>10
          DEF Next, Handler
<1> QED BY <1>1, <1>2, PTL DEF Spec

\* No interleaving of the handlers leaves a lost connection as the master
\* (master.go, OnDisconnected).
THEOREM NoDead == Spec => []NoDeadMaster
<1>1. IInv => NoDeadMaster
  BY DEF IInv
<1> QED BY <1>1, Invariance, PTL

\* A hub that is up is never left without a master being chosen (master.go,
\* OnConnected and OnDisconnected).
THEOREM Elections == Spec => []ElectionNotLost
<1>1. IInv => ElectionNotLost
  BY DEF IInv, ElectionNotLost, NoMasterYet, ConnAtPC
<1> QED BY <1>1, Invariance, PTL

\* After its notifications a master was sent the whole graph of the pod during
\* its current connection (forwarder.go, OnNewMaster).
THEOREM Synced == Spec => []SettledSynced
<1>1. IInv => SettledSynced
  BY DEF IInv, TypeOK, Speakers, SettledSynced, Settled, SyncPending, WillSync,
         NoDeadMaster
<1> QED BY <1>1, Invariance, PTL
\* Every operation keeps the types of the state (master.go and forwarder.go).
THEOREM TypeCorrect == Spec => []TypeOK
BY Invariance, PTL DEF IInv
=============================================================================
