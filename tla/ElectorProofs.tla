--------------------------- MODULE ElectorProofs ---------------------------
(***************************************************************************)
(* For any number of services: as long as no etcd request fails, the etcd  *)
(* lock gives at most one master at a time, across stops, crashes and      *)
(* restarts.                                                               *)
(***************************************************************************)
EXTENDS Elector, TLAPS

\* What TypeOK says of everything but the watches, which play no part here.
Types ==
    /\ lock \in Hosts \cup {NoHost}
    /\ pc \in [Hosts -> {"stopped", "start", "deleted", "elected", "watching"}]
    /\ master \in [Hosts -> BOOLEAN]
    /\ hold \in [Hosts -> BOOLEAN]
    /\ errors \in Nat

\* A service is no master before its first election.
FollowerFirst == \A h \in Hosts : pc[h] \in {"start", "deleted"} => ~master[h]

\* Without errors a running master has the lock and refreshes it.
MasterHolds ==
    errors = 0 => \A h \in Hosts : IsMaster(h) => lock = h /\ hold[h]

IInv == Types /\ FollowerFirst /\ MasterHolds

\* The invariant holds initially and is kept by every step.
THEOREM Invariance == Spec => []IInv
<1> USE NoHostAssumption, BoundsAssumption
<1>1. Init => IInv
  BY DEF Init, IInv, Types, FollowerFirst, MasterHolds, IsMaster
<1>2. IInv /\ [Next]_vars => IInv'
  <2> SUFFICES ASSUME IInv, [Next]_vars PROVE IInv'
    OBVIOUS
  <2> USE DEF IInv, Types, FollowerFirst, MasterHolds, IsMaster, Goto
  <2>1. ASSUME NEW h \in Hosts, Start(h) PROVE IInv'
    BY <2>1 DEF Start, Event
  <2>2. ASSUME NEW h \in Hosts, DeletePrevious(h) PROVE IInv'
    <3>1. errors = 0 => \A g \in Hosts : IsMaster(g)' => g # h /\ IsMaster(g)
      BY <2>2 DEF DeletePrevious
    <3>2. Types'
      BY <2>2 DEF DeletePrevious, Release
    <3>3. FollowerFirst'
      BY <2>2 DEF DeletePrevious
    <3>4. MasterHolds'
      BY <2>2, <3>1 DEF DeletePrevious, Release
    <3> QED BY <3>2, <3>3, <3>4
  <2>3. ASSUME NEW h \in Hosts, TryLock(h) PROVE IInv'
    BY <2>3, ZenonT(30) DEF TryLock, BecomeMaster
  <2>4. ASSUME NEW h \in Hosts, TryLockFails(h) PROVE IInv'
    BY <2>4 DEF TryLockFails, Error
  <2>5. ASSUME NEW h \in Hosts, Watch(h) PROVE IInv'
    BY <2>5 DEF Watch
  <2>6. ASSUME NEW h \in Hosts, Handle(h) PROVE IInv'
    BY <2>6, ZenonT(30) DEF Handle, BecomeMaster
  <2>7. ASSUME NEW h \in Hosts, Tick(h) PROVE IInv'
    BY <2>7 DEF Tick
  <2>8. ASSUME NEW h \in Hosts, TickFails(h) PROVE IInv'
    BY <2>8 DEF TickFails, Error
  <2>9. ASSUME NEW h \in Hosts, Stop(h) PROVE IInv'
    BY <2>9 DEF Stop, Event, Release
  <2>10. ASSUME NEW h \in Hosts, Crash(h) PROVE IInv'
    BY <2>10 DEF Crash, Event
  <2>13. ASSUME NEW h \in Hosts, DeletePreviousFails(h) PROVE IInv'
    BY <2>13 DEF DeletePreviousFails, Error
  <2>14. ASSUME NEW h \in Hosts, HandleFails(h) PROVE IInv'
    BY <2>14 DEF HandleFails, Error
  <2>15. ASSUME NEW h \in Hosts, StopFails(h) PROVE IInv'
    BY <2>15 DEF StopFails, Event, Error
  <2>11. CASE Expire
    BY <2>11 DEF Expire
  <2>12. CASE UNCHANGED vars
    BY <2>12 DEF vars
  <2> QED BY <2>1, <2>2, <2>3, <2>4, <2>5, <2>6, <2>7, <2>8, <2>9, <2>10,
             <2>11, <2>12, <2>13, <2>14, <2>15 DEF Next
<1> QED BY <1>1, <1>2, PTL DEF Spec

\* Without a failed etcd request two services are never both the master
\* (election.go, start, holdLock and IsMaster).
THEOREM Exclusion == Spec => []ExclusiveWithoutErrors
<1>1. IInv => ExclusiveWithoutErrors
  BY DEF IInv, MasterHolds, ExclusiveWithoutErrors
<1> QED BY <1>1, Invariance, PTL
=============================================================================
