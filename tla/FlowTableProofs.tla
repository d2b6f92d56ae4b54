-------------------------- MODULE FlowTableProofs --------------------------
(***************************************************************************)
(* A flow table that a packet probe feeds loses no packet, for any number  *)
(* of flows, any size of the LRU and of the channel, and any periods.      *)
(*                                                                         *)
(* NothingLost is not inductive: an update moves the packets of a flow     *)
(* from Fresh to told, and only the flows whose version says that they     *)
(* were modified.  Settled says why that is enough: what lastMetric counts *)
(* was reported, and a flow that is not modified has nothing else.         *)
(***************************************************************************)
EXTENDS FlowTable, TLAPS

Typed == /\ flows \in [Keys -> Flow \cup {Absent}]
         /\ version \in Nat
         /\ channel \in Seq(Message)
         /\ clock \in 0..MaxTime /\ fed \in Nat

FlowSettled(f) == /\ f.lastMetric \subseteq told
                  /\ f.version <= version + 1
                  /\ ~Modified(f) => f.metric \subseteq f.lastMetric

Settled == \A k \in Live : FlowSettled(flows[k])

IInv == Typed /\ Settled /\ Accounted

\* What Append and Tail do to the packets that wait in a channel.
LEMMA AppendWaiting ==
  ASSUME NEW s \in Seq(Message), NEW m \in Message
  PROVE  /\ Append(s, m) \in Seq(Message)
         /\ \A i \in DOMAIN s : i \in DOMAIN Append(s, m) /\ Append(s, m)[i] = s[i]
         /\ Len(s) + 1 \in DOMAIN Append(s, m) /\ Append(s, m)[Len(s) + 1] = m
OBVIOUS

LEMMA TailWaiting ==
  ASSUME NEW s \in Seq(Message), s # <<>>
  PROVE  /\ Tail(s) \in Seq(Message) /\ Head(s) \in Message
         /\ \A i \in DOMAIN s : s[i] = Head(s) \/
               \E j \in DOMAIN Tail(s) : Tail(s)[j] = s[i]
<1>1. Tail(s) \in Seq(Message) /\ Head(s) \in Message
  OBVIOUS
<1>2. ASSUME NEW i \in DOMAIN s, i # 1
      PROVE  i - 1 \in DOMAIN Tail(s) /\ Tail(s)[i - 1] = s[i]
  BY <1>2
<1>3. Head(s) = s[1]
  OBVIOUS
<1> QED BY <1>1, <1>2, <1>3, ZenonT(30)

\* The flow a packet makes counts the packet, is modified and settled.
LEMMA PacketSettled ==
  ASSUME Typed, Settled, NEW m \in Message
  PROVE  LET f == PacketFlow(m) IN
         /\ f \in Flow /\ f # Absent
         /\ FlowSettled(f) /\ Modified(f)
         /\ m.id \in f.metric
         /\ m.key \in Live => /\ f.lastMetric = flows[m.key].lastMetric
                              /\ flows[m.key].metric \subseteq f.metric
<1> USE DEF Typed, PacketFlow, Flow, Message, Absent, Live
<1>1. CASE flows[m.key] = Absent
  BY <1>1 DEF FlowSettled, Modified
<1>2. CASE flows[m.key] # Absent
  <2>1. flows[m.key] \in Flow /\ FlowSettled(flows[m.key])
    BY <1>2 DEF Settled
  <2>2. PacketFlow(m) = [flows[m.key] EXCEPT !.last = m.time,
                             !.metric = flows[m.key].metric \cup {m.id},
                             !.version = version + 1]
    BY <1>2
  <2>3. /\ PacketFlow(m) \in Flow
        /\ PacketFlow(m).last = m.time /\ PacketFlow(m).version = version + 1
        /\ PacketFlow(m).metric = flows[m.key].metric \cup {m.id}
        /\ PacketFlow(m).lastMetric = flows[m.key].lastMetric
    <3>1. PICK M \in SUBSET Packets : M = flows[m.key].metric \cup {m.id}
      BY <2>1, ZenonT(30)
    <3>2. PICK t \in 0..MaxTime, v \in Nat : t = m.time /\ v = version + 1
      OBVIOUS
    <3>3. PICK g \in Flow : g = flows[m.key]
      BY <2>1
    <3> HIDE DEF PacketFlow, Flow, Message, Absent, Typed
    <3>4. PacketFlow(m) = [g EXCEPT !.last = t, !.metric = M, !.version = v]
      BY <2>2, <3>1, <3>2, <3>3
    <3>5. /\ PacketFlow(m) \in Flow
          /\ PacketFlow(m).last = t /\ PacketFlow(m).version = v
          /\ PacketFlow(m).metric = M /\ PacketFlow(m).lastMetric = g.lastMetric
      BY <3>4, ZenonT(30) DEF Flow
    <3> QED BY <3>1, <3>2, <3>3, <3>5
  <2> HIDE DEF PacketFlow
  <2>4. PacketFlow(m).last # -1
    BY <2>3
  <2> QED BY <1>2, <2>1, <2>3, <2>4 DEF FlowSettled, Modified
<1> QED BY <1>1, <1>2, SMTT(30)

\* Processing the head of the channel keeps its packet in the flow it goes to,
\* and the packets of the flow that makes room in evicted.
LEMMA ProcessKeeps ==
  ASSUME IInv, source = "packet", Process
  PROVE  IInv'
<1>1. PICK m \in Message :
        /\ channel # <<>> /\ channel' = Tail(channel) /\ m = Head(channel)
        /\ Add(m.key, PacketFlow(m))
        /\ UNCHANGED <<version, lastUpdate, lastExpire, source, clock, fed, told,
                       unsent, again>>
  BY TailWaiting, ZenonT(30) DEF Process, IInv, Typed, Message
<1>2. PICK f \in Flow :
        /\ f = PacketFlow(m)
        /\ f # Absent /\ FlowSettled(f) /\ Modified(f)
        /\ m.id \in f.metric
        /\ m.key \in Live => /\ f.lastMetric = flows[m.key].lastMetric
                             /\ flows[m.key].metric \subseteq f.metric
  BY PacketSettled DEF IInv
<1>3. m.key \in Keys
  BY DEF Message
<1> DEFINE Added(full, oldest) ==
        /\ flows' = [x \in Keys |-> IF x = m.key THEN f
                        ELSE IF full /\ x = oldest THEN Absent ELSE flows[x]]
        /\ evicted' = IF full THEN evicted \cup Unreported(flows[oldest]) ELSE evicted
<1>a. PICK full \in BOOLEAN : \E oldest : Added(full, oldest)
  <2> DEFINE order == Touch(m.key)
  <2>1. Added(Len(order) > MaxEntries, order[Len(order)])
    BY <1>1, <1>2, SMTT(30) DEF Add
  <2>2. CASE Len(order) > MaxEntries
    <3>1. Added(TRUE, order[Len(order)])
      BY <2>1, <2>2
    <3> HIDE DEF Added
    <3> QED BY <3>1
  <2>3. CASE ~(Len(order) > MaxEntries)
    <3>1. Added(FALSE, order[Len(order)])
      BY <2>1, <2>3
    <3> HIDE DEF Added
    <3> QED BY <3>1
  <2> HIDE DEF Added
  <2> QED BY <2>2, <2>3
<1>4. PICK oldest : Added(full, oldest)
  BY <1>a, ZenonT(30)
<1>5. Typed'
  BY <1>1, <1>2, <1>4, TailWaiting DEF IInv, Typed
<1>6. Settled'
  BY <1>1, <1>2, <1>4, SMTT(30) DEF IInv, Typed, Settled, Live, FlowSettled, Modified
<1>7. ASSUME NEW x \in Waiting PROVE x = m.id \/ x \in Waiting'
  BY <1>1, <1>7, TailWaiting, SMTT(30) DEF Waiting, IInv, Typed
<1>8. m.id \in told' \/ m.id \in Fresh'
  <2>1. f.lastMetric \subseteq told'
    BY <1>1, <1>2 DEF FlowSettled
  <2>2. m.key \in Live' /\ Modified(flows[m.key])' /\ flows'[m.key] = f
    BY <1>1, <1>2, <1>3, <1>4, SMTT(30) DEF Live, Modified
  <2> QED BY <1>2, <2>1, <2>2 DEF Fresh, Unreported, Live
<1>9. ASSUME NEW x \in Fresh PROVE x \in Fresh' \cup evicted'
  <2>1. PICK k \in Live : Modified(flows[k]) /\ x \in Unreported(flows[k])
    BY <1>9 DEF Fresh
  <2>2. CASE k = m.key
    <3>1. k \in Live' /\ Modified(flows[k])' /\ flows'[k] = f
      BY <1>1, <1>2, <1>3, <1>4, <2>2, SMTT(30) DEF Live, Modified
    <3> QED BY <1>2, <2>1, <2>2, <3>1 DEF Fresh, Unreported, Live
  <2>3. CASE k # m.key /\ flows'[k] = flows[k]
    <3>1. k \in Live' /\ Modified(flows[k])'
      BY <1>1, <2>1, <2>3 DEF Live, Modified
    <3> QED BY <2>1, <2>3, <3>1 DEF Fresh, Unreported, Live
  <2>4. CASE k # m.key /\ full /\ k = oldest
    BY <1>4, <2>1, <2>4
  <2> QED BY <1>4, <2>2, <2>3, <2>4, SMTT(30) DEF Live
<1>10. Accounted'
  <2>1. evicted \subseteq evicted'
    BY <1>4, SMTT(30)
  <2> QED BY <1>1, <1>7, <1>8, <1>9, <2>1 DEF IInv, Accounted
<1> QED BY <1>5, <1>6, <1>10 DEF IInv

\* Expiring flows reports what the modified ones had to report, or counts it
\* in unsent for those that have finished.
LEMMA ExpireKeeps ==
  ASSUME IInv, NEW old \in SUBSET Live, Expire(old), UNCHANGED input
  PROVE  IInv'
<1>1. /\ flows' = [k \in Keys |-> IF k \in old THEN Absent ELSE flows[k]]
      /\ told' = told \cup UNION {Expired(flows[k]) : k \in {x \in old : ~flows[x].finished}}
      /\ unsent' = unsent \cup
           UNION {Unreported(flows[k]) : k \in old \ {x \in old : ~flows[x].finished}}
      /\ UNCHANGED <<version, evicted, channel, clock, fed>>
  BY DEF Expire, input
<1>2. Typed'
  BY <1>1 DEF IInv, Typed
<1>3. Settled'
  BY <1>1 DEF IInv, Settled, Live, FlowSettled, Modified
<1>4. ASSUME NEW x \in Fresh PROVE x \in Fresh' \cup told' \cup unsent'
  <2>1. PICK k \in Live : Modified(flows[k]) /\ x \in Unreported(flows[k])
    BY <1>4 DEF Fresh
  <2>2. CASE k \notin old
    <3>1. k \in Live' /\ flows'[k] = flows[k] /\ Modified(flows[k])'
      BY <1>1, <2>1, <2>2 DEF Live, Modified
    <3> QED BY <2>1, <3>1 DEF Fresh, Unreported
  <2>3. CASE k \in old /\ flows[k].finished
    BY <1>1, <2>1, <2>3
  <2>4. CASE k \in old /\ ~flows[k].finished
    BY <1>1, <2>1, <2>4 DEF Expired
  <2> QED BY <2>2, <2>3, <2>4
<1>5. Accounted'
  <2>1. Waiting' = Waiting /\ told \subseteq told' /\ unsent \subseteq unsent'
    BY <1>1, SMTT(30) DEF Waiting
  <2> QED BY <1>1, <1>4, <2>1 DEF IInv, Accounted
<1> QED BY <1>2, <1>3, <1>5 DEF IInv

\* An update reports what every modified flow had to report.
LEMMA UpdateKeeps ==
  ASSUME IInv, UpdateAt
  PROVE  IInv'
<1> DEFINE kept == {k \in Live : ~TimedOut(k) /\ Held(k)}
           report(k) == IF TimedOut(k) THEN flows[k].lum ELSE Updated(flows[k]).lum
<1>1. /\ flows' = [k \in Keys |-> IF k \in kept THEN Updated(flows[k]) ELSE Absent]
      /\ told' = told \cup UNION {report(k) : k \in Advised}
      /\ version' = version + 1
      /\ UNCHANGED <<evicted, unsent, channel, clock, fed>>
  BY SMTT(30) DEF UpdateAt, input
<1>2. ASSUME NEW k \in Live
      PROVE  /\ flows[k] \in Flow /\ FlowSettled(flows[k])
             /\ Updated(flows[k]) \in Flow
             /\ Updated(flows[k]).lastMetric = flows[k].metric
             /\ Updated(flows[k]).metric = flows[k].metric
             /\ Updated(flows[k]).version = flows[k].version
             /\ Modified(flows[k]) => Updated(flows[k]).lum = Unreported(flows[k])
  <2>1. flows[k] \in Flow /\ FlowSettled(flows[k])
    BY SMTT(30) DEF IInv, Typed, Settled, Live
  <2>2. PICK g \in Flow : g = flows[k]
    BY <2>1
  <2>3. PICK L \in SUBSET Packets : L = IF Modified(g) THEN Unreported(g) ELSE {}
    BY ZenonT(30) DEF Flow, Unreported
  <2>4. Updated(g) = [g EXCEPT !.lum = L, !.lastMetric = g.metric]
    BY <2>3 DEF Updated
  <2>5. /\ Updated(g) \in Flow /\ Updated(g).lastMetric = g.metric
        /\ Updated(g).metric = g.metric /\ Updated(g).version = g.version
        /\ Updated(g).lum = L
    BY <2>4, ZenonT(30) DEF Flow
  <2> QED BY <2>1, <2>2, <2>3, <2>5
<1>3. ASSUME NEW k \in Live, Modified(flows[k])
      PROVE  Unreported(flows[k]) \subseteq told'
  <2>1. ~TimedOut(k) /\ k \in Advised
    BY <1>3 DEF TimedOut, Advised
  <2>2. report(k) = Unreported(flows[k])
    BY <1>2, <1>3, <2>1
  <2> HIDE DEF report
  <2> QED BY <1>1, <2>1, <2>2
<1>4. ASSUME NEW k \in Live PROVE flows[k].metric \subseteq told'
  <2>1. flows[k].lastMetric \subseteq told'
    BY <1>1, <1>2 DEF FlowSettled
  <2>2. CASE Modified(flows[k])
    BY <1>3, <2>1, <2>2 DEF Unreported
  <2>3. CASE ~Modified(flows[k])
    BY <1>2, <2>1, <2>3 DEF FlowSettled
  <2> QED BY <2>2, <2>3
<1>5. Typed'
  <2>1. ASSUME NEW k \in kept PROVE Updated(flows[k]) \in Flow
    BY <1>2
  <2> HIDE DEF kept
  <2> QED BY <1>1, <2>1 DEF IInv, Typed
<1>6. Settled'
  <2> SUFFICES ASSUME NEW k \in Live' PROVE FlowSettled(flows[k])'
    BY DEF Settled
  <2>1. k \in Live /\ flows'[k] = Updated(flows[k])
    BY <1>1 DEF Live
  <2>2. /\ flows'[k].lastMetric = flows[k].metric
        /\ flows'[k].metric = flows[k].metric
        /\ flows'[k].version <= version'
    BY <1>1, <1>2, <2>1 DEF FlowSettled
  <2>3. flows'[k].version \in Nat /\ version' \in Nat
    BY <1>1, <1>2, <2>1 DEF Flow, IInv, Typed
  <2>4. flows'[k].lastMetric \subseteq told'
    BY <1>4, <2>1, <2>2
  <2> QED BY <2>2, <2>3, <2>4 DEF FlowSettled, Modified
<1>7. Accounted'
  <2>1. Fresh \subseteq told'
    BY <1>3 DEF Fresh
  <2>2. Waiting' = Waiting /\ told \subseteq told'
    BY <1>1 DEF Waiting
  <2> QED BY <1>1, <2>1, <2>2 DEF IInv, Accounted
<1> QED BY <1>5, <1>6, <1>7 DEF IInv

\* A packet the probe feeds waits in the channel.
LEMMA FeedKeeps ==
  ASSUME IInv, NEW k \in Keys, NEW fin \in BOOLEAN, Feed(k, fin)
  PROVE  IInv'
<1>1. PICK m \in Message : /\ m.id = fed + 1
                           /\ channel' = Append(channel, m)
                           /\ fed' = fed + 1
                           /\ UNCHANGED <<table, ghosts, clock>>
  BY SizesAssumption, SMTT(30) DEF Feed, IInv, Typed, Message, Packets
<1>2. Typed'
  BY <1>1, AppendWaiting DEF IInv, Typed, table
<1>3. Settled'
  BY <1>1 DEF IInv, Settled, Live, FlowSettled, Modified, table, ghosts
<1>4. Waiting \subseteq Waiting' /\ fed + 1 \in Waiting'
  BY <1>1, AppendWaiting DEF Waiting, IInv, Typed
<1>5. Fresh' = Fresh
  BY <1>1 DEF Fresh, Live, Modified, Unreported, table
<1>6. 1..fed' = 1..fed \cup {fed + 1}
  BY <1>1 DEF IInv, Typed
<1>7. Accounted'
  BY <1>1, <1>4, <1>5, <1>6 DEF IInv, Accounted, ghosts
<1> QED BY <1>2, <1>3, <1>7 DEF IInv

\* The steps of the goroutines that leave the table and its input alone.
LEMMA ControlKeeps ==
  ASSUME IInv, UNCHANGED <<table, ghosts, channel, fed>>, clock' \in 0..MaxTime
  PROVE  IInv'
BY SMTT(30) DEF IInv, Typed, Settled, Accounted, Live, FlowSettled, Modified, Fresh, Waiting,
       Unreported, table, ghosts

\* The probe of a table does not change.
LEMMA SourceKept == ASSUME [Next]_vars PROVE UNCHANGED source
BY ZenonT(30) DEF Next, Start, RunStart, Receive, UpdateAt, ExpireAt, Feed, Query, Answer,
       QueryReturns, StopCalled, StopRunning, StopEarly, Quit, Drain, StopEnds, Time,
       Process, input, vars

\* The inductive invariant of a table that a packet probe feeds.
THEOREM Invariance == Spec => [](source = "packet" => IInv)
<1>1. Init => IInv
  BY SizesAssumption DEF Init, IInv, Typed, Settled, Accounted, Live
<1>2. (source = "packet" => IInv) /\ [Next]_vars => (source = "packet" => IInv)'
  <2> SUFFICES ASSUME source = "packet", IInv, [Next]_vars PROVE IInv'
    BY SourceKept, SMTT(30)
  <2>1. CASE Receive \/ Drain
    BY <2>1, ProcessKeeps DEF Receive, Drain
  <2>2. CASE UpdateAt
    BY <2>2, UpdateKeeps
  <2>3. CASE ExpireAt
    <3>1. {k \in Live : flows[k].last < lastExpire} \in SUBSET Live
      OBVIOUS
    <3> QED BY <2>3, <3>1, ExpireKeeps DEF ExpireAt
  <2>4. CASE StopEarly \/ StopEnds
    <3>1. Live \in SUBSET Live
      OBVIOUS
    <3> QED BY <2>4, <3>1, ExpireKeeps DEF StopEarly, StopEnds, ExpireNow
  <2>5. ASSUME NEW k \in Keys, NEW fin \in BOOLEAN, Feed(k, fin)
        PROVE  IInv'
    BY <2>5, FeedKeeps
  <2>6. CASE Start \/ RunStart \/ Query \/ Answer \/ QueryReturns \/ StopCalled
             \/ StopRunning \/ Quit
    BY <2>6, ControlKeeps, SMTT(30) DEF Start, RunStart, Query, Answer, QueryReturns, StopCalled,
       StopRunning, Quit, input, IInv, Typed
  <2>7. CASE Time
    BY <2>7, ControlKeeps, SizesAssumption DEF Time, IInv, Typed
  <2>8. CASE UNCHANGED vars
    BY <2>8, ControlKeeps, SMTT(30) DEF vars, input, IInv, Typed
  <2> QED BY <2>1, <2>2, <2>3, <2>4, <2>5, <2>6, <2>7, <2>8 DEF Next
<1> QED BY <1>1, <1>2, PTL DEF Spec

\* No interleaving of updates, expiries, evictions and Stop loses a packet of
\* a packet probe: it was reported, or is still to be, or was in a flow that
\* the LRU evicted or that expired once finished.
THEOREM NoPacketLost == Spec => []NothingLost
<1>1. (source = "packet" => IInv) => NothingLost
  BY DEF IInv, NothingLost
<1> QED BY <1>1, Invariance, PTL
============================================================================
