-------------------------- MODULE ServerLifeProofs --------------------------
(***************************************************************************)
(* Proofs about ServerLife: TypeOK for every value of the constants, and   *)
(* OneServer and Reachable when launches do not overlap (Serial).          *)
(***************************************************************************)
EXTENDS ServerLife, TLAPS

Launching == {"daemonize", "remove", "create"}
Owning == {"construct", "serve", "destroy", "exit"}

(* A command has no Client, and so no segment of its own, before Open: its *)
(* calls of IsServerRunning tell the truth.                                *)
NoClientYet ==
  \A p \in Procs :
    pc[p] \in {"begin", "spawn", "poll", "check", "open"} => conn[p] = None

(* A command that polls has not used up its polls. *)
PollBound == \A p \in Procs : pc[p] # "returned" => wait_cnt[p] \in 0..(MaxWait + 1)

(* The name belongs to the server that created the segment from its        *)
(* creation until it leaves, and to nobody while a server is launched;     *)
(* there is at most one launch.                                            *)
NameInv ==
  /\ \A s \in Procs : srv[s] \in Owning => shm = s
  /\ \A s \in Procs : srv[s] \in Launching => shm = None
  /\ \A s, t \in Procs : srv[s] \in Launching /\ srv[t] \in Launching => s = t

Typed == TypeOK /\ NoClientYet /\ PollBound

(* The counters of polls (wait_cnt) and of kills stay in their ranges. *)
LEMMA CountUp ==
  ASSUME NEW m \in Nat, NEW n
  PROVE  /\ n \in 0..(m + 1) => n + 1 \in 0..(m + 2)
         /\ n \in 0..(m + 1) /\ ~(n > m) => n + 1 \in 0..(m + 1)
         /\ n \in 0..m /\ n < m => n + 1 \in 0..m
  OBVIOUS

(* Typed holds initially and is kept by every step of commands and servers. *)
LEMMA TypedInductive == (Init => Typed) /\ (Typed /\ [Next]_vars => Typed')
<1> USE CommandAssumption DEF Typed, TypeOK, NoClientYet, PollBound
<1>1. Init => Typed
  BY DEF Init
<1>2. ASSUME Typed, [Next]_vars PROVE Typed'
  <2> USE <1>2 DEF Goto, Return, ServerGoto
  <2>1. CASE UNCHANGED vars
    BY <2>1 DEF vars
  <2>2. ASSUME NEW p \in Procs, StartServer(p) PROVE Typed'
    BY <2>2 DEF StartServer
  <2>3. ASSUME NEW p \in Procs, FindServer(p) PROVE Typed'
    BY <2>3 DEF FindServer
  <2>4. ASSUME NEW p \in Procs, SpawnServer(p) PROVE Typed'
    BY <2>4 DEF SpawnServer
  <2>5. ASSUME NEW p \in Procs, Poll(p) PROVE Typed'
    <3>1. CASE IsServerRunning(p)
      BY <2>5, <3>1 DEF Poll, IsServerRunning
    <3>2. CASE ~IsServerRunning(p)
      <4>1. pc[p] = "poll" /\ wait_cnt[p] \in 0..(MaxWait + 1) /\ MaxWait \in Nat
        BY <2>5, <3>2 DEF Poll, IsServerRunning
      <4>2. wait_cnt' = [wait_cnt EXCEPT ![p] = wait_cnt[p] + 1]
        BY <2>5, <3>2 DEF Poll, IsServerRunning
      <4>3. wait_cnt[p] + 1 \in 0..(MaxWait + 2)
        BY <4>1, CountUp, Zenon
      <4>4. wait_cnt' \in [Procs -> 0..(MaxWait + 2)]
        BY <4>2, <4>3
      <4>5. \/ pc' = [pc EXCEPT ![p] = "returned"]
            \/ pc' = [pc EXCEPT ![p] = "poll"] /\ wait_cnt[p] + 1 \in 0..(MaxWait + 1)
        <5>1. CASE wait_cnt[p] > MaxWait
          BY <2>5, <3>2, <5>1 DEF Poll, IsServerRunning
        <5>2. CASE ~(wait_cnt[p] > MaxWait)
          <6>1. wait_cnt[p] + 1 \in 0..(MaxWait + 1)
            BY <4>1, <5>2, CountUp, Zenon
          <6> QED
            BY <2>5, <3>2, <5>2, <6>1 DEF Poll, IsServerRunning
        <5> QED
          BY <5>1, <5>2
      <4>6. PollBound'
        BY <4>2, <4>5
      <4>7. TypeOK' /\ NoClientYet'
        BY <2>5, <3>2, <4>1, <4>4, <4>5 DEF Poll, IsServerRunning
      <4> QED
        BY <4>6, <4>7
    <3> QED
      BY <3>1, <3>2
  <2>6. ASSUME NEW p \in Procs, Check(p) PROVE Typed'
    BY <2>6 DEF Check
  <2>15. ASSUME NEW p \in Procs, Local(p) PROVE Typed'
    BY <2>15 DEF Local
  <2>7. ASSUME NEW p \in Procs, Open(p) PROVE Typed'
    BY <2>7 DEF Open
  <2>8. ASSUME NEW p \in Procs, NotifyGuest(p) PROVE Typed'
    BY <2>8 DEF NotifyGuest
  <2>9. ASSUME NEW p \in Procs, NotifyStop(p) PROVE Typed'
    BY <2>9 DEF NotifyStop
  <2>10. ASSUME NEW p \in Procs, NotifyFails(p) PROVE Typed'
    BY <2>10 DEF NotifyFails
  <2>11. ASSUME NEW p \in Procs, StopRecheck(p) PROVE Typed'
    BY <2>11 DEF StopRecheck
  <2>12. ASSUME NEW p \in Procs, ServerStep(p) PROVE Typed'
    BY <2>12 DEF ServerStep, Daemonize, Remove, Create, Construct, Destroy, Exit
  <2>13. ASSUME NEW p \in Procs, Signal(p) PROVE Typed'
    BY <2>13 DEF Signal
  <2>14. ASSUME NEW p \in Procs, Kill(p) PROVE Typed'
    <3>1. MaxKills \in Nat /\ kills' = kills + 1 /\ kills < MaxKills
      BY <2>14 DEF Kill
    <3>2. kills' \in 0..MaxKills
      <4>1. kills \in 0..MaxKills
        OBVIOUS
      <4> QED
        BY <3>1, <4>1, CountUp, Zenon
    <3> QED
      BY <2>14, <3>2 DEF Kill
  <2> HIDE DEF Typed
  <2> QED
    BY <2>1, <2>2, <2>3, <2>4, <2>5, <2>6, <2>7, <2>8, <2>9, <2>10, <2>11,
       <2>12, <2>13, <2>14, <2>15 DEF Next, CommandStep
<1> HIDE DEF Typed
<1> QED
  BY <1>1, <1>2

(* Every variable of ServerLife keeps its type, and no command polls more  *)
(* than MaxWait + 2 times, for any number of commands and servers.         *)
THEOREM TypeCorrect == Spec => []TypeOK
<1>1. Typed => TypeOK
  BY DEF Typed
<1> QED
  BY <1>1, TypedInductive, PTL DEF Spec

(* With Serial, a launch begins only when the name is free and no other    *)
(* launch is under way; every step keeps the name with its owner.          *)
LEMMA NameInductive ==
  ASSUME Serial
  PROVE  (Init => NameInv) /\ (Typed /\ NameInv /\ [Next]_vars => NameInv')
<1> USE CommandAssumption DEF NameInv, Launching, Owning
<1>1. Init => NameInv
  BY DEF Init
<1>2. ASSUME Typed, NameInv, [Next]_vars PROVE NameInv'
  <2> USE <1>2 DEF Goto, Return, ServerGoto, Typed, TypeOK
  <2>1. CASE UNCHANGED vars
    BY <2>1 DEF vars
  <2>2. ASSUME NEW p \in Procs, StartServer(p) PROVE NameInv'
    <3>1. \A s \in Procs : srv[s] \notin Launching
      BY <2>2, Serial, Zenon DEF StartServer, MayLaunch
    <3>2. CASE UNCHANGED srv
      BY <2>2, <3>2 DEF StartServer
    <3>3. CASE shm = None /\ srv' = [srv EXCEPT ![p] = "daemonize"]
      <4>1. shm' = None
        BY <2>2, <3>3 DEF StartServer
      <4> QED
        BY <3>1, <3>3, <4>1, ZenonT(40)
    <3> QED
      BY <2>2, <3>2, <3>3 DEF StartServer, IsServerRunning, NoClientYet
  <2>3. ASSUME NEW p \in Procs, SpawnServer(p) PROVE NameInv'
    <3>1. \A s \in Procs : srv[s] \notin Launching
      BY <2>3, Serial, Zenon DEF SpawnServer, MayLaunch
    <3>2. CASE UNCHANGED srv
      BY <2>3, <3>2 DEF SpawnServer
    <3>3. CASE shm = None /\ srv' = [srv EXCEPT ![p] = "daemonize"]
      <4>1. shm' = None
        BY <2>3, <3>3 DEF SpawnServer
      <4> QED
        BY <3>1, <3>3, <4>1
    <3> QED
      BY <2>3, <3>2, <3>3 DEF SpawnServer, IsServerRunning, NoClientYet
  <2>4. ASSUME NEW p \in Procs,
               FindServer(p) \/ Poll(p) \/ Local(p) \/ Check(p) \/ Open(p)
                 \/ NotifyGuest(p) \/ StopRecheck(p)
        PROVE NameInv'
    BY <2>4 DEF FindServer, Poll, Local, Check, Open, NotifyGuest, StopRecheck
  <2>5. ASSUME NEW p \in Procs, NotifyStop(p) \/ NotifyFails(p) PROVE NameInv'
    <3>1. UNCHANGED shm
      BY <2>5 DEF NotifyStop, NotifyFails
    <3>2. \/ UNCHANGED srv
          \/ Served(p) /\ srv' = [srv EXCEPT ![conn[p]] = "destroy"]
      BY <2>5 DEF NotifyStop, NotifyFails
    <3>3. CASE UNCHANGED srv
      BY <3>1, <3>3
    <3>4. CASE Served(p) /\ srv' = [srv EXCEPT ![conn[p]] = "destroy"]
      <4>1. PICK s \in Procs : s = conn[p] /\ srv[s] = "serve"
        BY <3>4 DEF Served
      <4>2. srv' = [srv EXCEPT ![s] = "destroy"]
        BY <3>4, <4>1
      <4> QED
        BY <3>1, <4>1, <4>2
    <3> QED
      BY <3>2, <3>3, <3>4
  <2>6. ASSUME NEW p \in Procs, Remove(p) PROVE NameInv'
    BY <2>6 DEF Remove
  <2>7. ASSUME NEW p \in Procs, Create(p) PROVE NameInv'
    BY <2>7 DEF Create
  <2>8. ASSUME NEW p \in Procs, Daemonize(p) \/ Construct(p) \/ Destroy(p) PROVE NameInv'
    BY <2>8, ZenonT(40) DEF Daemonize, Construct, Destroy
  <2>9. ASSUME NEW p \in Procs, Exit(p) PROVE NameInv'
    BY <2>9 DEF Exit
  <2>10. ASSUME NEW p \in Procs, Signal(p) \/ Kill(p) PROVE NameInv'
    BY <2>10, ZenonT(40) DEF Signal, Kill
  <2> HIDE DEF NameInv
  <2> QED
    BY <2>1, <2>2, <2>3, <2>4, <2>5, <2>6, <2>7, <2>8, <2>9, <2>10
    DEF Next, CommandStep, ServerStep
<1> HIDE DEF NameInv
<1> QED
  BY <1>1, <1>2

(* When launches do not overlap there is never a second server, for any    *)
(* number of commands, signals and kills.                                  *)
THEOREM SingleServer == ASSUME Serial PROVE Spec => []OneServer
<1>1. NameInv => OneServer
  BY DEF NameInv, OneServer, Owning
<1>2. (Init => NameInv) /\ (Typed /\ NameInv /\ [Next]_vars => NameInv')
  BY NameInductive, Serial
<1> QED
  BY <1>1, <1>2, TypedInductive, PTL DEF Spec

(* When launches do not overlap a server that serves keeps the name        *)
(* "CivServerShm", although every launch and every exit removes that name. *)
THEOREM ServerReachable == ASSUME Serial PROVE Spec => []Reachable
<1>1. NameInv => Reachable
  BY DEF NameInv, Reachable, Owning
<1>2. (Init => NameInv) /\ (Typed /\ NameInv /\ [Next]_vars => NameInv')
  BY NameInductive, Serial
<1> QED
  BY <1>1, <1>2, TypedInductive, PTL DEF Spec
=============================================================================
