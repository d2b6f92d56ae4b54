------------------------------ MODULE Elector ------------------------------
(***************************************************************************)
(* The election of a master among the hubs through an etcd lock            *)
(* (etcd/election.go): the lock is a key with a time to live, created by   *)
(* the master, refreshed by its holdLock goroutine and watched by all.     *)
(*                                                                         *)
(* etcd is external: the key, its expiry, the atomic Set and Delete, and a *)
(* watch that delivers in order what happens once it is established.  The  *)
(* time to live is longer than two ticks of holdLock, so that the key of a *)
(* running holdLock does not expire.                                       *)
(***************************************************************************)
EXTENDS Naturals, Sequences

CONSTANTS Hosts,        \* the services that take part in the election
          NoHost,       \* the lock is free
          MaxEvents,    \* bound on the number of starts, stops and crashes
          MaxErrors,    \* bound on the number of failed etcd requests
          MaxWatch      \* bound on the events a watcher is behind an expiry

ASSUME NoHostAssumption == NoHost \notin Hosts
ASSUME BoundsAssumption ==
    MaxEvents \in Nat /\ MaxErrors \in Nat /\ MaxWatch \in Nat

VARIABLES
    lock,     \* the value of the key
    pc,       \* the goroutine of start, for each service
    master,   \* MasterElector.master
    hold,     \* whether the holdLock goroutine runs
    watch,    \* the events the watcher did not return yet
    late,     \* the watch was established while the lock was free, or the
              \* request that followed its release failed
    events, errors

vars == <<lock, pc, master, hold, watch, late, events, errors>>

Init == /\ lock = NoHost
        /\ pc = [h \in Hosts |-> "stopped"]
        /\ master = [h \in Hosts |-> FALSE]
        /\ hold = [h \in Hosts |-> FALSE]
        /\ watch = [h \in Hosts |-> <<>>]
        /\ late = [h \in Hosts |-> FALSE]
        /\ events = 0
        /\ errors = 0

Goto(h, l) == pc' = [pc EXCEPT ![h] = l]

Event == events < MaxEvents /\ events' = events + 1
Error == errors < MaxErrors /\ errors' = errors + 1

\* Every established watch gets an event on the key.
Notify(w, action) ==
    [h \in Hosts |-> IF pc[h] = "watching" THEN Append(w[h], action) ELSE w[h]]

\* Delete with PrevValue, and the event it raises ("delete" stands for the
\* actions delete, compareAndDelete and expire).
Release(h, w) ==
    /\ lock' = IF lock = h THEN NoHost ELSE lock
    /\ watch' = IF lock = h THEN Notify(w, "delete") ELSE w

\* A process starts: a new MasterElector.
Start(h) ==
    /\ pc[h] = "stopped"
    /\ Event
    /\ Goto(h, "start")
    /\ master' = [master EXCEPT ![h] = FALSE]
    /\ hold' = [hold EXCEPT ![h] = FALSE]
    /\ late' = [late EXCEPT ![h] = FALSE]
    /\ UNCHANGED <<lock, watch, errors>>

\* start deletes the lock of a previous run.
DeletePrevious(h) ==
    /\ pc[h] = "start"
    /\ Release(h, watch)
    /\ Goto(h, "deleted")
    /\ UNCHANGED <<master, hold, late, events, errors>>

\* The request fails and its error is ignored: the lock stays until it expires.
DeletePreviousFails(h) ==
    /\ pc[h] = "start"
    /\ Error
    /\ Goto(h, "deleted")
    /\ UNCHANGED <<lock, master, hold, watch, late, events>>

BecomeMaster(h) ==
    /\ master' = [master EXCEPT ![h] = TRUE]
    /\ hold' = [hold EXCEPT ![h] = TRUE]

\* Mutant: the first Set ignores whether the key exists.
MutTryLock(h) ==
    /\ pc[h] = "deleted"
    /\ lock' = h
    /\ watch' = Notify(watch, "create")
    /\ BecomeMaster(h)
    /\ Goto(h, "elected")
    /\ UNCHANGED <<late, events, errors>>

\* The first election: Set with PrevNoExist.
TryLock(h) ==
    /\ pc[h] = "deleted"
    /\ IF lock = NoHost
       THEN lock' = h /\ watch' = Notify(watch, "create") /\ BecomeMaster(h)
       ELSE UNCHANGED <<lock, watch, master, hold>>
    /\ Goto(h, "elected")
    /\ UNCHANGED <<late, events, errors>>

\* The request fails: the service starts as a follower.
TryLockFails(h) ==
    /\ pc[h] = "deleted"
    /\ Error
    /\ Goto(h, "elected")
    /\ UNCHANGED <<lock, master, hold, watch, late, events>>

\* The watch starts with the events that follow.
Watch(h) ==
    /\ pc[h] = "elected"
    /\ Goto(h, "watching")
    /\ watch' = [watch EXCEPT ![h] = <<>>]
    /\ late' = [late EXCEPT ![h] = (lock = NoHost)]
    /\ UNCHANGED <<lock, master, hold, events, errors>>

\* Mutant: the master does not try again.
MutHandle(h) ==
    LET rest == [watch EXCEPT ![h] = Tail(@)] IN
    /\ pc[h] = "watching"
    /\ watch[h] # <<>>
    /\ IF Head(watch[h]) = "delete" /\ lock = NoHost /\ ~master[h]
       THEN /\ lock' = h
            /\ watch' = Notify(rest, "create")
            /\ BecomeMaster(h)
       ELSE watch' = rest /\ UNCHANGED <<lock, master, hold>>
    /\ UNCHANGED <<pc, late, events, errors>>

\* The watcher returns an event.  When the lock was freed everybody tries to
\* take it; only the one that was not the master starts holdLock.
Handle(h) ==
    LET rest == [watch EXCEPT ![h] = Tail(@)] IN
    /\ pc[h] = "watching"
    /\ watch[h] # <<>>
    /\ IF Head(watch[h]) = "delete" /\ lock = NoHost
       THEN /\ lock' = h
            /\ watch' = Notify(rest, "create")
            /\ IF master[h] THEN UNCHANGED <<master, hold>> ELSE BecomeMaster(h)
       ELSE watch' = rest /\ UNCHANGED <<lock, master, hold>>
    /\ UNCHANGED <<pc, late, events, errors>>

\* The watcher returns that the lock was freed and the Set fails: the service
\* goes on watching and does not try again.
HandleFails(h) ==
    /\ pc[h] = "watching"
    /\ watch[h] # <<>> /\ Head(watch[h]) = "delete"
    /\ Error
    /\ watch' = [watch EXCEPT ![h] = Tail(@)]
    /\ late' = [late EXCEPT ![h] = TRUE]
    /\ UNCHANGED <<lock, pc, master, hold, events>>

\* A tick of holdLock: Set with PrevValue fails when the lock is not ours.
Tick(h) ==
    /\ hold[h]
    /\ lock # h
    /\ hold' = [hold EXCEPT ![h] = FALSE]
    /\ UNCHANGED <<lock, pc, master, watch, late, events, errors>>

\* A tick of holdLock fails for another reason: the goroutine ends.
TickFails(h) ==
    /\ hold[h]
    /\ Error
    /\ hold' = [hold EXCEPT ![h] = FALSE]
    /\ UNCHANGED <<lock, pc, master, watch, late, events>>

\* The key of a service that does not refresh it expires.
Expire ==
    /\ lock # NoHost
    /\ ~hold[lock]
    /\ \A h \in Hosts : Len(watch[h]) <= MaxWatch
    /\ lock' = NoHost
    /\ watch' = Notify(watch, "delete")
    /\ UNCHANGED <<pc, master, hold, late, events, errors>>

\* Stop ends the loop, and the lock is deleted before leaving.
Stop(h) ==
    /\ pc[h] = "watching"
    /\ Event
    /\ Release(h, [watch EXCEPT ![h] = <<>>])
    /\ Goto(h, "stopped")
    /\ UNCHANGED <<master, hold, late, errors>>

\* The last Delete fails; holdLock may go on as long as the process lives.
StopFails(h) ==
    /\ pc[h] = "watching"
    /\ Event /\ Error
    /\ watch' = [watch EXCEPT ![h] = <<>>]
    /\ Goto(h, "stopped")
    /\ UNCHANGED <<lock, master, hold, late>>

\* The process dies; its lock stays until it expires.
Crash(h) ==
    /\ pc[h] # "stopped"
    /\ Event
    /\ Goto(h, "stopped")
    /\ hold' = [hold EXCEPT ![h] = FALSE]
    /\ watch' = [watch EXCEPT ![h] = <<>>]
    /\ UNCHANGED <<lock, master, late, errors>>

Next == \/ \E h \in Hosts : \/ Start(h)
                            \/ DeletePrevious(h) \/ DeletePreviousFails(h)
                            \/ TryLock(h) \/ TryLockFails(h)
                            \/ Watch(h) \/ Handle(h) \/ HandleFails(h)
                            \/ Tick(h) \/ TickFails(h)
                            \/ Stop(h) \/ StopFails(h) \/ Crash(h)
        \/ Expire

\* A running service goes on, holdLock ticks and a key expires.
Fairness == /\ \A h \in Hosts : /\ WF_vars(DeletePrevious(h))
                                /\ WF_vars(TryLock(h))
                                /\ WF_vars(Watch(h))
                                /\ WF_vars(Handle(h))
                                /\ WF_vars(Tick(h))
            /\ WF_vars(Expire)

Spec == Init /\ [][Next]_vars /\ Fairness

-----------------------------------------------------------------------------

\* Every variable has its type.
TypeOK ==
    /\ lock \in Hosts \cup {NoHost}
    /\ pc \in [Hosts -> {"stopped", "start", "deleted", "elected", "watching"}]
    /\ master \in [Hosts -> BOOLEAN]
    /\ hold \in [Hosts -> BOOLEAN]
    /\ watch \in [Hosts -> Seq({"create", "delete"})]
    /\ late \in [Hosts -> BOOLEAN]
    /\ events \in 0..MaxEvents
    /\ errors \in 0..MaxErrors

IsMaster(h) == pc[h] # "stopped" /\ master[h]

\* As long as no etcd request fails, crashes, restarts and stops included, two
\* running services never both believe to be the master (election.go, start
\* and IsMaster).
ExclusiveWithoutErrors ==
    errors = 0 => \A h, g \in Hosts : IsMaster(h) /\ IsMaster(g) => h = g

\* "unlock before leaving so that another can take the lead" (election.go): a
\* service that watched the lock before it was freed takes part in the next
\* election, so that the lock is taken again, unless it leaves or its request
\* fails.
TakenOver ==
    \A h \in Hosts :
        (pc[h] = "watching" /\ ~late[h] /\ lock = NoHost)
            ~> (lock # NoHost \/ pc[h] # "watching" \/ late[h])

\* "unlock before leaving so that another can take the lead": the same of every
\* service that goes on watching, whenever it started to.
EventuallyLed ==
    \A h \in Hosts :
        (pc[h] = "watching" /\ lock = NoHost)
            ~> (lock # NoHost \/ pc[h] # "watching")

\* "IsMaster returns true if the current instance is master" (election.go): at
\* most one service is the master.
Exclusive == \A h, g \in Hosts : IsMaster(h) /\ IsMaster(g) => h = g
=============================================================================
