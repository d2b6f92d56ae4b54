----------------------------- MODULE FlowTable -----------------------------
(***************************************************************************)
(* The flow table of a capture (flow/table.go): the goroutine of Run, the  *)
(* probe that starts, feeds and stops the table, and a caller of Query.    *)
(*                                                                         *)
(* A counter of a flow is the set of the packets it counts, so that the    *)
(* subtraction of updateMetric is a set difference and a report tells      *)
(* which packets it is about.  The statistics of the table and the layers  *)
(* of a packet are left out.                                               *)
(***************************************************************************)
EXTENDS Integers, Sequences, SequencesExt

CONSTANTS Keys,          \* the keys of the flows
          Kinds,         \* the kinds of probes: "packet", "ebpf", "operation"
          AppTimeout,    \* appTimeout of the application of each flow
          MaxEntries,    \* flow.max_entries, the size of the LRU
          ChanSize,      \* the capacity of packetSeqChan and extFlowChan
          UpdateEvery, ExpireAfter, HoldTimeout,
          MaxTime, MaxPackets

ASSUME KindsAssumption == Kinds \subseteq {"packet", "ebpf", "operation"}
ASSUME TimesAssumption ==
    /\ AppTimeout \in [Keys -> Nat]
    /\ UpdateEvery \in Nat \ {0} /\ ExpireAfter \in Nat \ {0}
    /\ HoldTimeout \in Nat
ASSUME SizesAssumption ==
    /\ MaxEntries \in Nat \ {0} /\ ChanSize \in Nat \ {0}
    /\ MaxTime \in Nat /\ MaxPackets \in Nat

VARIABLES
    flows,       \* the content of the LRU
    lru,         \* its keys, the most recently used first
    version,     \* updateVersion
    lastUpdate, lastExpire,
    channel,     \* what the probe fed and the table did not process
    source,      \* the kind of probe that feeds the table
    clock, fed,
    state,       \* the state of the service
    run,         \* the goroutine of Run
    probe,       \* the goroutine that owns the table
    asker,       \* a caller of Query
    lock,        \* who holds lockState
    told,        \* the packets some report was about
    evicted,     \* the unreported packets of the flows the LRU evicted
    unsent,      \* the unreported packets of the finished flows that expired
    again        \* the packets an update reported although told before

table == <<flows, lru, version, lastUpdate, lastExpire>>
ghosts == <<told, evicted, unsent, again>>
input == <<channel, source, clock, fed>>
control == <<state, run, probe, asker, lock>>
vars == <<table, ghosts, input, control>>

Absent == [last |-> -1]
Packets == 1..MaxPackets
Flow == [last : 0..MaxTime, metric : SUBSET Packets,
         lastMetric : SUBSET Packets, lum : SUBSET Packets,
         version : Nat, finished : BOOLEAN]
Message == [id : Packets, key : Keys, time : 0..MaxTime, fin : BOOLEAN]

Live == {k \in Keys : flows[k] # Absent}
Modified(f) == f.version > version
Unreported(f) == f.metric \ f.lastMetric

Init == /\ flows = [k \in Keys |-> Absent]
        /\ lru = <<>>
        /\ version = 0 /\ lastUpdate = 0 /\ lastExpire = 0
        /\ channel = <<>> /\ source \in Kinds /\ clock = 0 /\ fed = 0
        /\ state = "stopped" /\ run = "none" /\ probe = "new"
        /\ asker = "idle" /\ lock = "free"
        /\ told = {} /\ evicted = {} /\ unsent = {} /\ again = {}

---------------------------------------------------------------------------
\* The table: what Run and Stop do with it.

\* Mutant: a packet of a known flow does not mark it as modified.
MutPacketFlow(m) ==
    IF flows[m.key] = Absent
    THEN [last |-> m.time, metric |-> {m.id}, lastMetric |-> {}, lum |-> {},
          version |-> version + 1, finished |-> m.fin]
    ELSE [flows[m.key] EXCEPT !.last = m.time, !.metric = @ \cup {m.id}]

\* packetToFlow: a FIN or RST counts in the first packet of a flow only.
PacketFlow(m) ==
    IF flows[m.key] = Absent
    THEN [last |-> m.time, metric |-> {m.id}, lastMetric |-> {}, lum |-> {},
          version |-> version + 1, finished |-> m.fin]
    ELSE [flows[m.key] EXCEPT !.last = m.time, !.metric = @ \cup {m.id},
                              !.version = version + 1]

\* processEBPFFlow: a new flow keeps the version 0 of NewFlow, and a record
\* with the same time as the previous one is ignored.
EBPFFlow(m) ==
    IF flows[m.key] = Absent
    THEN [last |-> m.time, metric |-> {m.id}, lastMetric |-> {}, lum |-> {},
          version |-> 0, finished |-> FALSE]
    ELSE IF flows[m.key].last = m.time THEN flows[m.key]
    ELSE [flows[m.key] EXCEPT !.last = m.time, !.metric = @ \cup {m.id},
                              !.version = version + 1]

\* ReplaceOperation of processFlowOP: the state of the previous flow is kept.
\* A record does not include the packets of the previous one, so that what an
\* update subtracts is not a part of it; no property is about such counters.
ReplacedFlow(m) ==
    IF flows[m.key] = Absent
    THEN [last |-> m.time, metric |-> {m.id}, lastMetric |-> {}, lum |-> {},
          version |-> 0, finished |-> FALSE]
    ELSE [flows[m.key] EXCEPT !.last = m.time, !.metric = {m.id},
                              !.version = version + 1, !.finished = FALSE]

\* UpdateOperation of processFlowOP, of a known flow.
UpdatedFlow(m) ==
    [flows[m.key] EXCEPT !.last = m.time, !.metric = @ \cup {m.id}]

\* The LRU order once the entry of k is used or added.
Touch(k) == <<k>> \o SelectSeq(lru, LAMBDA x : x # k)

\* LRU.Add: beyond its size, the LRU drops the entry used least recently.
Add(k, f) ==
    LET order == Touch(k)
        full == Len(order) > MaxEntries
        oldest == order[Len(order)]
    IN  /\ lru' = IF full THEN SubSeq(order, 1, MaxEntries) ELSE order
        /\ flows' = [x \in Keys |->
                        IF x = k THEN f
                        ELSE IF full /\ x = oldest THEN Absent ELSE flows[x]]
        /\ evicted' = IF full THEN evicted \cup Unreported(flows[oldest])
                      ELSE evicted

\* processPacketSeq and processExtFlow on the head of the channel.  Whether an
\* operation replaces or updates its flow is chosen here.
Process ==
    LET m == Head(channel) IN
    /\ channel # <<>>
    /\ channel' = Tail(channel)
    /\ \/ source = "packet" /\ Add(m.key, PacketFlow(m))
       \/ source = "ebpf" /\ Add(m.key, EBPFFlow(m))
       \/ source = "operation" /\ Add(m.key, ReplacedFlow(m))
       \/ source = "operation" /\ m.key \in Live /\ Add(m.key, UpdatedFlow(m))
       \/ source = "operation" /\ m.key \notin Live
          /\ UNCHANGED <<flows, lru, evicted>>
    /\ UNCHANGED <<version, lastUpdate, lastExpire, source, clock, fed, told,
                   unsent, again>>

\* What the report of an expired flow is about.
Expired(f) == IF Modified(f) THEN Unreported(f) ELSE f.lum

\* Mutant: the flows are removed under another key than that of the LRU.
MutExpire(old) ==
    LET sent == {k \in old : ~flows[k].finished}
    IN  /\ flows' = [k \in Keys |-> IF k \in old THEN Absent ELSE flows[k]]
        /\ told' = told \cup UNION {Expired(flows[k]) : k \in sent}
        /\ unsent' = unsent \cup UNION {Unreported(flows[k]) : k \in old \ sent}
        /\ UNCHANGED <<lru, version, lastUpdate, evicted, again>>

\* expire of the flows old: a flow that has finished is removed, and not sent.
Expire(old) ==
    LET sent == {k \in old : ~flows[k].finished}
    IN  /\ flows' = [k \in Keys |-> IF k \in old THEN Absent ELSE flows[k]]
        /\ lru' = SelectSeq(lru, LAMBDA k : k \notin old)
        /\ told' = told \cup UNION {Expired(flows[k]) : k \in sent}
        /\ unsent' = unsent \cup UNION {Unreported(flows[k]) : k \in old \ sent}
        /\ UNCHANGED <<version, lastUpdate, evicted, again>>

ExpireNow == Expire(Live) /\ UNCHANGED lastExpire

\* A tick of expireTicker: flows older than the previous tick expire.
ExpireAt ==
    /\ run = "loop"
    /\ clock >= lastExpire + ExpireAfter
    /\ Expire({k \in Live : flows[k].last < lastExpire})
    /\ lastExpire' = clock
    /\ UNCHANGED <<input, control>>

\* The application timeout of a flow that is not modified.
TimedOut(k) == /\ ~Modified(flows[k])
               /\ clock - flows[k].last > AppTimeout[k]
               /\ AppTimeout[k] > 0

\* A finished flow is held in the table for a while.
Held(k) == flows[k].finished => clock - flows[k].last < HoldTimeout

\* The flows an update sends.
Advised == {k \in Live : Modified(flows[k]) \/ TimedOut(k)}

Updated(f) == [f EXCEPT !.lum = IF Modified(f) THEN Unreported(f) ELSE {},
                        !.lastMetric = f.metric]

\* A tick of updateTicker: updateAt.
UpdateAt ==
    LET kept == {k \in Live : ~TimedOut(k) /\ Held(k)}
        report(k) == IF TimedOut(k) THEN flows[k].lum ELSE Updated(flows[k]).lum
        sent == UNION {report(k) : k \in Advised}
    IN  /\ run = "loop"
        /\ clock >= lastUpdate + UpdateEvery
        /\ flows' = [k \in Keys |-> IF k \in kept THEN Updated(flows[k])
                                    ELSE Absent]
        /\ lru' = SelectSeq(lru, LAMBDA k : k \in kept)
        /\ told' = told \cup sent
        /\ again' = again \cup (sent \cap told)
        /\ lastUpdate' = clock
        /\ version' = version + 1
        /\ UNCHANGED <<lastExpire, evicted, unsent, input, control>>

---------------------------------------------------------------------------
\* The goroutines.

\* Start by the probe; the goroutine of Run is scheduled later.
Start == /\ probe = "new"
         /\ probe' = "feeding" /\ run' = "created"
         /\ UNCHANGED <<table, ghosts, input, state, asker, lock>>

RunStart == /\ run = "created"
            /\ run' = "loop" /\ state' = "running"
            /\ UNCHANGED <<table, ghosts, input, probe, asker, lock>>

\* The probe writes to packetSeqChan or extFlowChan, and blocks when full.
Feed(k, fin) ==
    /\ probe = "feeding"
    /\ Len(channel) < ChanSize
    /\ fed < MaxPackets
    /\ fin => source = "packet"
    /\ fed' = fed + 1
    /\ channel' = Append(channel, [id |-> fed + 1, key |-> k,
                                   time |-> clock, fin |-> fin])
    /\ UNCHANGED <<table, ghosts, source, clock, control>>

Receive == run = "loop" /\ Process /\ UNCHANGED control

\* Query takes the lock, and returns at once unless the table runs.
Query == /\ asker = "idle" /\ lock = "free" /\ state = "running"
         /\ asker' = "asked" /\ lock' = "query"
         /\ UNCHANGED <<table, ghosts, input, state, run, probe>>

\* Mutant: a query with no flow is not answered.
MutAnswer == /\ run = "loop" /\ asker = "asked" /\ Live # {}
             /\ asker' = "answered"
             /\ UNCHANGED <<table, ghosts, input, state, run, probe, lock>>

\* Run handles the query and writes the reply.
Answer == /\ run = "loop" /\ asker = "asked"
          /\ asker' = "answered"
          /\ UNCHANGED <<table, ghosts, input, state, run, probe, lock>>

\* Mutant: the lock is kept.
MutQueryReturns == /\ asker = "answered"
                   /\ asker' = "idle"
                   /\ UNCHANGED <<table, ghosts, input, state, run, probe, lock>>

QueryReturns == /\ asker = "answered"
                /\ asker' = "idle" /\ lock' = "free"
                /\ UNCHANGED <<table, ghosts, input, state, run, probe>>

\* The probe calls Stop.
StopCalled == /\ probe = "feeding"
              /\ probe' = "stopping"
              /\ UNCHANGED <<table, ghosts, input, state, run, asker, lock>>

\* Stop of a running table holds the lock until its end.
StopRunning == /\ probe = "stopping" /\ lock = "free" /\ state = "running"
               /\ state' = "stopping" /\ lock' = "stop" /\ probe' = "quitting"
               /\ UNCHANGED <<table, ghosts, input, run, asker>>

\* Stop of a table whose state is not running yet.
StopEarly == /\ probe = "stopping" /\ lock = "free" /\ state # "running"
             /\ probe' = "stopped"
             /\ ExpireNow
             /\ UNCHANGED <<input, state, run, asker, lock>>

\* The rendezvous on quit, and the end of Run.
Quit == /\ probe = "quitting" /\ run = "loop"
        /\ run' = "done" /\ probe' = "draining"
        /\ UNCHANGED <<table, ghosts, input, state, asker, lock>>

Drain == probe = "draining" /\ Process /\ UNCHANGED control

\* Mutant: Stop does not process what is left in the channels.
MutStopEnds == /\ probe = "draining"
               /\ ExpireNow
               /\ probe' = "stopped" /\ lock' = "free"
               /\ UNCHANGED <<input, state, run, asker>>

StopEnds == /\ probe = "draining" /\ channel = <<>>
            /\ ExpireNow
            /\ probe' = "stopped" /\ lock' = "free"
            /\ UNCHANGED <<input, state, run, asker>>

Time == /\ clock < MaxTime
        /\ clock' = clock + 1
        /\ UNCHANGED <<table, ghosts, channel, source, fed, control>>

Next == \/ Start \/ RunStart \/ Receive \/ UpdateAt \/ ExpireAt
        \/ \E k \in Keys, fin \in BOOLEAN : Feed(k, fin)
        \/ Query \/ Answer \/ QueryReturns
        \/ StopCalled \/ StopRunning \/ StopEarly \/ Quit \/ Drain \/ StopEnds
        \/ Time

\* The select of Run picks one of the ready cases at random, so that none
\* waits forever, and the mutex of lockState does not starve a caller.
Fairness == /\ WF_vars(RunStart) /\ WF_vars(Receive) /\ WF_vars(Answer)
            /\ WF_vars(Quit) /\ WF_vars(QueryReturns)
            /\ SF_vars(StopRunning) /\ SF_vars(StopEarly)
            /\ WF_vars(Drain) /\ WF_vars(StopEnds)

Spec == Init /\ [][Next]_vars /\ Fairness

---------------------------------------------------------------------------
\* Every variable has its type.
TypeOK == /\ flows \in [Keys -> Flow \cup {Absent}]
          /\ lru \in Seq(Keys)
          /\ version \in Nat /\ lastUpdate \in 0..MaxTime
          /\ lastExpire \in 0..MaxTime
          /\ channel \in Seq(Message) /\ source \in Kinds
          /\ clock \in 0..MaxTime /\ fed \in 0..MaxPackets
          /\ state \in {"stopped", "running", "stopping"}
          /\ run \in {"none", "created", "loop", "done"}
          /\ probe \in {"new", "feeding", "stopping", "quitting", "draining",
                        "stopped"}
          /\ asker \in {"idle", "asked", "answered"}
          /\ lock \in {"free", "query", "stop"}
          /\ told \subseteq Packets /\ evicted \subseteq Packets
          /\ unsent \subseteq Packets /\ again \subseteq Packets

\* The LRU holds each live flow once and never more than max_entries flows,
\* whatever getOrCreateFlow, expire and update did.
LRUConsistent ==
    /\ ToSet(lru) = Live
    /\ \A i, j \in DOMAIN lru : lru[i] = lru[j] => i = j
    /\ Len(lru) <= MaxEntries

Fresh == UNION {Unreported(flows[k]) : k \in {x \in Live : Modified(flows[x])}}
Waiting == {channel[i].id : i \in DOMAIN channel}
Accounted == 1..fed \subseteq told \cup evicted \cup unsent \cup Fresh \cup Waiting

\* Every packet of a packet probe that left the channel was reported to the
\* sender, or waits in a live flow that the next update or expire reports, or
\* was in a flow that the LRU evicted or that had finished: no interleaving of
\* updates, expiries and Stop (which drains the channels) loses a packet.
NothingLost == source = "packet" => Accounted

\* Stop waits for Run and then processes what the probe fed before: once Stop
\* returned from a table that was running, nothing is left in it.
StopFlushes == (probe = "stopped" /\ run = "done") => channel = <<>> /\ Live = {}

\* A query to a table is answered, even when Stop is called meanwhile.
QueryAnswered == asker = "asked" ~> asker = "idle"

\* Stop returns, whatever queries and packets it races with.
StopReturns == probe = "stopping" ~> probe = "stopped"

\* "Stop the flow table": once Stop returned, Run is over.
StopStops == probe = "stopped" => run \in {"none", "done"}

\* "check that the handler sent all the flows": a flow that expires is sent.
ExpireSendsAll == unsent = {}

\* "should update everything between tableClock and clock": after an update,
\* every packet the table counts was reported.
UpdateReportsAll ==
    [][UpdateAt => \A k \in Live : flows[k].metric \subseteq told']_vars

\* "should update everything between previous updateAt and the new one": an
\* update does not report again what an earlier one reported.
UpdateReportsOnce == again = {}
============================================================================
