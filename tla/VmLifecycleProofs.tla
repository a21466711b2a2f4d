------------------------- MODULE VmLifecycleProofs -------------------------
(***************************************************************************)
(* For every number of machines, names and identifiers: the latch of       *)
(* StartVm outlives its users, the registry belongs to the threads,        *)
(* identifiers are not lost, nor shared unless a stop request released     *)
(* them, a failed wait cleans up and the report of a guest is not lost.    *)
(***************************************************************************)
EXTENDS VmLifecycle, SequenceTheorems, WellFoundedInduction, TLAPS

-----------------------------------------------------------------------------
(* The helpers on sets and sequences *)

(* A set of naturals that is not empty has a least element. *)
LEMMA MinOfNats ==
  ASSUME NEW S, S \subseteq Nat, S # {}
  PROVE  Min(S) \in S /\ \A y \in S : Min(S) <= y
<1> DEFINE R == OpToRel(<, Nat)
<1>1. IsWellFoundedOn(R, Nat)
  BY NatLessThanWellFounded
<1>2. \A a, b \in Nat : a < b => <<a, b>> \in R
  BY DEF OpToRel
<1> HIDE DEF R
<1>3. PICK x \in S : \A y \in S : ~(<<y, x>> \in R)
  BY <1>1, WFMin
<1>4. ASSUME NEW y \in S PROVE x <= y
  <2>1. x \in Nat /\ y \in Nat
    OBVIOUS
  <2>2. ~(y < x)
    BY <1>2, <1>3, <2>1, Zenon
  <2> QED
    BY <2>1, <2>2
<1> QED
  BY <1>4 DEF Min

(* What a build gets from VsockCidPool, by either form of GetCid, is free  *)
(* and may be given to a guest.                                            *)
LEMMA AcquireFree ==
  ASSUME NEW free, free \subseteq AllFree, NEW s
  PROVE  Acquire(free, s) = 0 \/ (Acquire(free, s) \in free /\ Acquire(free, s) \in GuestCids)
<1> DEFINE above == {i \in free : i >= CidStart}
<1>0. AllFree \subseteq Nat
  BY CidAssumption DEF AllFree
<1>1. above \subseteq Nat
  BY <1>0, Zenon
<1>2. above # {} => Min(above) \in above
  BY <1>1, MinOfNats
<1>3. GetCid(free) = IF above = {} THEN 0 ELSE Min(above)
  BY DEF GetCid
<1>4. \A x \in above : x \in free /\ x \in GuestCids
  BY CidAssumption DEF AllFree, GuestCids
<1>5. GetCid(free) = 0 \/ GetCid(free) \in above
  BY <1>2, <1>3
<1>6. GetThisCid(free, Head(s)) = 0 \/
        (GetThisCid(free, Head(s)) \in free /\ GetThisCid(free, Head(s)) \in GuestCids)
  BY DEF GetThisCid
<1> HIDE DEF above
<1> QED
  BY <1>4, <1>5, <1>6 DEF Acquire

(* FindVmInstance finds the name or a null element, or there is neither. *)
LEMMA FindSound ==
  ASSUME vmis \in Seq(Pointers), NEW n
  PROVE  LET i == FindVmInstance(n)
         IN  \/ i = 0 /\ \A j \in 1..Len(vmis) : vmis[j] # Null /\ name[vmis[j]] # n
             \/ i \in 1..Len(vmis) /\ (vmis[i] = Null \/ name[vmis[i]] = n)
<1> DEFINE I == {i \in 1..Len(vmis) : vmis[i] = Null \/ name[vmis[i]] = n}
<1>1. FindVmInstance(n) = IF I # {} THEN Min(I) ELSE 0
  BY DEF FindVmInstance, SelectInSeq
<1>2. I \subseteq Nat
  OBVIOUS
<1>3. I # {} => Min(I) \in I
  BY <1>2, MinOfNats
<1> QED
  BY <1>1, <1>3

(* RemoveFirst takes out the first null element and moves the rest up. *)
LEMMA RemoveNull ==
  ASSUME NEW s \in Seq(Pointers), NEW k \in 1..Len(s), s[k] = Null,
         \A i \in 1..Len(s) : s[i] = Null => i = k
  PROVE  /\ RemoveFirst(s, Null) \in Seq(Pointers)
         /\ Len(RemoveFirst(s, Null)) = Len(s) - 1
         /\ \A i \in 1..(Len(s) - 1) :
              RemoveFirst(s, Null)[i] = IF i < k THEN s[i] ELSE s[i + 1]
<1> DEFINE I == {i \in 1..Len(s) : s[i] = Null}
<1>1. SelectInSeq(s, LAMBDA v : v = Null) = IF I # {} THEN Min(I) ELSE 0
  BY DEF SelectInSeq
<1>2. I = {k}
  OBVIOUS
<1>3. Min(I) = k
  BY <1>2 DEF Min
<1>4. RemoveFirst(s, Null) = SubSeq(s, 1, k - 1) \o SubSeq(s, k + 1, Len(s))
  BY <1>1, <1>2, <1>3 DEF RemoveFirst, RemoveAt
<1> DEFINE p == SubSeq(s, 1, k - 1)
           q == SubSeq(s, k + 1, Len(s))
<1>5. /\ p \in Seq(Pointers) /\ Len(p) = k - 1
      /\ q \in Seq(Pointers) /\ Len(q) = Len(s) - k
  OBVIOUS
<1>6. \A i \in 1..(k - 1) : p[i] = s[i]
  OBVIOUS
<1>7. \A i \in 1..(Len(s) - k) : q[i] = s[k + i]
  OBVIOUS
<1> HIDE DEF p, q
<1>8. /\ p \o q \in Seq(Pointers) /\ Len(p \o q) = Len(p) + Len(q)
      /\ \A i \in 1..(Len(p) + Len(q)) :
           (p \o q)[i] = IF i <= Len(p) THEN p[i] ELSE q[i - Len(p)]
  BY <1>5, ConcatProperties
<1>9. RemoveFirst(s, Null) = p \o q
  BY <1>4 DEF p, q
<1>10. Len(p) + Len(q) = Len(s) - 1
  BY <1>5
<1>11. ASSUME NEW i \in 1..(Len(s) - 1)
       PROVE  (p \o q)[i] = IF i < k THEN s[i] ELSE s[i + 1]
  <2>1. CASE i < k
    BY <2>1, <1>5, <1>6, <1>8, <1>10
  <2>2. CASE ~(i < k)
    <3>1. (p \o q)[i] = q[i - (k - 1)]
      BY <2>2, <1>5, <1>8, <1>10
    <3>2. i - (k - 1) \in 1..(Len(s) - k) /\ k + (i - (k - 1)) = i + 1
      BY <2>2
    <3> QED
      BY <2>2, <3>1, <3>2, <1>7
  <2> QED
    BY <2>1, <2>2
<1> QED
  BY <1>8, <1>9, <1>10, <1>11

-----------------------------------------------------------------------------
(* The inductive invariant *)

Typed ==
  /\ made \in 0..MaxBuilds
  /\ heap \in [Builders -> {"fresh", "alive", "dying", "freed"}]
  /\ name \in [Builders -> Names \cup {NoName}]
  /\ cid \in [Builders -> {0} \cup GuestCids]
  /\ vmis \in Seq(Pointers)
  /\ vmis_mutex \in Pointers
  /\ bs \subseteq AllFree
  /\ mpc \in MainPoint /\ mname \in Names \cup {NoName} /\ mvb \in Pointers
  /\ tpc \in [Builders -> ThreadPoint]
  /\ latch \in [Builders -> Int]

(* Builders above made are untouched, and the one being built is below the *)
(* bound.                                                                  *)
Unmade ==
  /\ \A b \in Builders : b > made => heap[b] = "fresh" /\ tpc[b] = "none"
  /\ mpc = "build" => made < MaxBuilds

Erasing == {"erase", "erase_fail", "free", "free_fail"}

(* A null element exists only while vmis_mutex_ is held, once; the holder  *)
(* erases its own builder; the name of the machine being built is not in   *)
(* vmis_.                                                                  *)
Registry ==
  /\ \A i \in 1..Len(vmis) : vmis[i] # Null => vmis[i] <= made /\ heap[vmis[i]] = "alive"
  /\ \A i \in 1..Len(vmis) : vmis[i] = Null =>
       vmis_mutex # Null /\ \A j \in 1..Len(vmis) : vmis[j] = Null => i = j
  /\ \A i, j \in 1..Len(vmis) :
       i # j /\ vmis[i] # Null /\ vmis[j] # Null => name[vmis[i]] # name[vmis[j]]
  /\ mpc = "build" =>
       \A i \in 1..Len(vmis) : vmis[i] # Null => name[vmis[i]] # mname
  /\ \A b \in Builders : tpc[b] \in Owning =>
       heap[b] = "alive" /\ \E i \in 1..Len(vmis) : vmis[i] = b
  /\ vmis_mutex = victim
  /\ \A b \in Builders :
       (tpc[b] \in Erasing <=> vmis_mutex = b) /\ (heap[b] = "dying" <=> vmis_mutex = b)

(* A machine in its destructor counts as well. *)
Cids ==
  /\ \A b \in Builders : Live(b) => cid[b] \in GuestCids
  /\ NoCidLeak
  /\ \A b \in Builders : Live(b) /\ cid[b] \notin stopped => SoleOwner(b)

IInv == Typed /\ Unmade /\ LatchInScope /\ Registry /\ Cids

-----------------------------------------------------------------------------
(* The invariant speaks of these variables only. *)
regVars == <<made, heap, name, vmis, vmis_mutex, victim>>
cidVars == <<cid, bs, stopped>>

(* A step that touches none of them keeps the invariant. *)
LEMMA Quiet ==
  ASSUME IInv, UNCHANGED <<regVars, cidVars, mpc, mname, mvb, tpc, latch>>
  PROVE  IInv'
  BY DEF IInv, regVars, cidVars, Typed, Unmade, LatchInScope, Registry, Cids, NoCidLeak,
         Live, SoleOwner

(* So does a step of the main thread alone, under what it must observe. *)
LEMMA MainMoves ==
  ASSUME IInv, UNCHANGED <<regVars, cidVars, tpc, latch>>,
         mpc # "crashed", mpc' \in MainPoint \ {"start_wait"},
         mname' \in Names \cup {NoName}, mvb' \in Pointers,
         mpc = "start_wait" => mpc' = "crashed" \/ latch[mvb] = 0,
         mpc' = "build" =>
           /\ made < MaxBuilds
           /\ \A i \in 1..Len(vmis) : vmis[i] # Null => name[vmis[i]] # mname'
  PROVE  IInv'
<1>1. Typed' /\ Unmade'
  BY DEF IInv, regVars, cidVars, Typed, Unmade
<1>2. LatchInScope'
  BY DEF IInv, Typed, LatchInScope
<1>3. Registry'
  BY DEF IInv, regVars, Registry
<1>4. Cids'
  BY DEF IInv, regVars, cidVars, Cids, NoCidLeak, Live, SoleOwner
<1> QED
  BY <1>1, <1>2, <1>3, <1>4 DEF IInv

(* And so does a step of one VmThread that counts the latch at most down   *)
(* to zero when it does not need it any more.                              *)
LEMMA ThreadMoves ==
  ASSUME IInv, UNCHANGED <<regVars, cidVars, mpc, mname, mvb>>,
         NEW b \in Builders, tpc[b] # "none",
         NEW to \in ThreadPoint, tpc' = [tpc EXCEPT ![b] = to],
         to \in Owning => tpc[b] \in Owning,
         to \in CountsLater => tpc[b] \in CountsLater,
         to \in Erasing <=> tpc[b] \in Erasing,
         \/ UNCHANGED latch
         \/ latch' = [latch EXCEPT ![b] = @ - 1] /\ (to \in CountsLater => latch[b] > 1)
  PROVE  IInv'
<1>1. Typed'
  BY DEF IInv, regVars, cidVars, Typed
<1>2. Unmade'
  BY DEF IInv, regVars, Typed, Unmade
<1>3. LatchInScope'
  BY DEF IInv, Typed, LatchInScope
<1>4. Registry'
  BY DEF IInv, regVars, Typed, Registry
<1>5. Cids'
  BY DEF IInv, regVars, cidVars, Cids, NoCidLeak, Live, SoleOwner
<1> QED
  BY <1>1, <1>2, <1>3, <1>4, <1>5 DEF IInv

-----------------------------------------------------------------------------
(* The steps *)

(* The bound on the builders alone, of the assumption on the constants. *)
LEMMA MaxNat == MaxBuilds \in Nat
  BY ConfigAssumption

(* Nothing is built or registered at first, and every identifier is free. *)
LEMMA InitIInv == Init => IInv
<1> SUFFICES ASSUME Init PROVE IInv
  OBVIOUS
<1>0. GuestCids \subseteq AllFree /\ 0 \in AllFree
  BY CidAssumption DEF GuestCids, AllFree
<1>b. MaxBuilds \in Nat /\ Null \notin Builders
  BY MaxNat DEF Builders, Null
<1>1. Typed /\ Unmade
  <2>1. vmis \in Seq(Pointers) /\ Null \in Pointers
    BY DEF Init, Pointers
  <2>2. made \in 0..MaxBuilds /\ \A b \in Builders : tpc[b] = "none" /\ heap[b] = "fresh"
    BY <1>b DEF Init
  <2>3. /\ heap \in [Builders -> {"fresh", "alive", "dying", "freed"}]
        /\ name \in [Builders -> Names \cup {NoName}]
        /\ cid \in [Builders -> {0} \cup GuestCids]
        /\ tpc \in [Builders -> ThreadPoint]
        /\ latch \in [Builders -> Int]
    BY DEF Init, ThreadPoint
  <2> QED
    BY <2>1, <2>2, <2>3 DEF Init, Typed, Unmade, MainPoint
<1>2. LatchInScope
  BY DEF Init, LatchInScope, CountsLater
<1>3. Registry
  <2>1. 1..Len(vmis) = {}
    BY DEF Init
  <2> QED
    BY <1>b, <2>1 DEF Init, Registry, Owning, Erasing
<1>4. Cids
  BY <1>0 DEF Init, Cids, NoCidLeak, Live
<1> QED
  BY <1>1, <1>2, <1>3, <1>4 DEF IInv

(* What the main thread does besides the insertion and the release of a    *)
(* stopped machine only moves it; StartVm builds a name that is not there. *)
LEMMA MainStepIInv ==
  ASSUME IInv, mpc # "crashed", MainStep, ~BuildAndInsert, ~StopRelease
  PROVE  IInv'
<1> USE DEF builderVars, readyVars, procVars, registryVars, listenerVars, mainLocals,
        threadVars, ghostVars, objectVars, notMain, regVars, cidVars, MainGoto, MainReturn
<1>0. /\ mname \in Names \cup {NoName} /\ mvb \in Pointers /\ mpc \in MainPoint
      /\ vmis \in Seq(Pointers) /\ Null \in Pointers
  BY DEF IInv, Typed, Pointers
<1>1. ASSUME NEW n \in Names, NEW str_cid \in StrCids, NEW wait_ready \in BOOLEAN,
             StartVm(n, str_cid, wait_ready)
      PROVE  IInv'
  <2>1. \A i \in 1..Len(vmis) : name[vmis[i]] # n
    BY <1>0, <1>1, FindSound DEF StartVm
  <2> QED
    BY <1>0, <1>1, <2>1, MainMoves DEF StartVm, MainPoint
<1>2. ASSUME NEW n \in Names, StopVm(n) \/ GetVmInfo(n) PROVE IInv'
  BY <1>0, <1>2, MainMoves DEF StopVm, GetVmInfo, MainPoint
<1>3. ASSUME NEW answer \in {"ok", "failed"}, StartReply(answer) PROVE IInv'
  BY <1>0, <1>3, MainMoves DEF StartReply, MainPoint
<1>4. CASE BuildFails \/ ShutdownAnswered \/ InfoReply
  BY <1>0, <1>4, MainMoves DEF BuildFails, ShutdownAnswered, InfoReply, MainPoint
<1>5. CASE InsertFaults \/ MainFaults
  BY <1>0, <1>5, MainMoves DEF InsertFaults, MainFaults, Fault, MainPoint
<1>6. CASE StartWait
  BY <1>0, <1>6, MainMoves DEF StartWait, MainPoint
<1>7. CASE StopAddress \/ ShutdownFails \/ InfoRead
  <2>1. vmis[midx] \in Pointers
    BY <1>0, <1>7 DEF StopAddress, ShutdownFails, InfoRead, Valid
  <2> QED
    BY <1>0, <1>7, <2>1, MainMoves DEF StopAddress, ShutdownFails, InfoRead, MainPoint
<1>8. CASE StopLock
  BY <1>0, <1>8, MainMoves DEF StopLock, MainPoint
<1> QED
  BY <1>1, <1>2, <1>3, <1>4, <1>5, <1>6, <1>7, <1>8 DEF MainStep

(* The stop request gives the identifier back and keeps a record of it. *)
LEMMA StopReleaseIInv ==
  ASSUME IInv, StopRelease
  PROVE  IInv'
<1> USE DEF builderVars, registryVars, threadVars
<1>1. /\ bs' = bs \/ (bs' = bs \cup {cid[mvb]} /\ cid[mvb] \in GuestCids)
      /\ stopped' = stopped \cup {cid[mvb]}
      /\ UNCHANGED <<made, heap, name, cid, vmis, vmis_mutex, victim, tpc, latch>>
      /\ mpc = "stop_release" /\ mpc' = "idle" /\ mname' = NoName /\ mvb' = Null
  BY DEF StopRelease, MainReturn, MainGoto, ReleaseCid
<1>0. GuestCids \subseteq AllFree
  BY CidAssumption DEF GuestCids, AllFree
<1>2. Typed'
  BY <1>0, <1>1 DEF IInv, Typed, MainPoint, Pointers
<1>3. Unmade'
  BY <1>1 DEF IInv, Unmade
<1>4. LatchInScope'
  BY <1>1 DEF IInv, LatchInScope
<1>5. Registry'
  BY <1>1 DEF IInv, Registry
<1>6. Cids'
  BY <1>1 DEF IInv, Cids, NoCidLeak, Live, SoleOwner
<1> QED
  BY <1>2, <1>3, <1>4, <1>5, <1>6 DEF IInv

(* A new machine gets a free identifier, a name of its own and a latch     *)
(* that the main thread waits on.                                          *)
LEMMA BuildIInv ==
  ASSUME IInv, BuildAndInsert
  PROVE  IInv'
<1> DEFINE b == made + 1
           c == Acquire(bs, mcfg.str_cid)
<1>0. /\ made \in Nat /\ MaxBuilds \in Nat /\ made < MaxBuilds
      /\ b \in Builders /\ b \in Pointers /\ b # Null /\ vmis \in Seq(Pointers)
  BY MaxNat DEF IInv, Typed, Unmade, BuildAndInsert, MainGoto, Builders, Pointers, Null
<1>1. c \in bs /\ c \in GuestCids
  BY AcquireFree DEF IInv, Typed, BuildAndInsert
<1>2. /\ mpc = "build" /\ mpc' = "start_wait" /\ mvb' = b /\ mname' = mname
      /\ bs' = bs \ {c} /\ made' = b
      /\ heap' = [heap EXCEPT ![b] = "alive"]
      /\ name' = [name EXCEPT ![b] = mname]
      /\ cid' = [cid EXCEPT ![b] = c]
      /\ vmis' = Append(vmis, b)
      /\ tpc' = [tpc EXCEPT ![b] = "start"]
      /\ \E k \in {1, 2} : latch' = [latch EXCEPT ![b] = k]
      /\ vmis_mutex' = vmis_mutex /\ victim' = victim /\ stopped' = stopped
  BY DEF BuildAndInsert, MainGoto, ghostVars
<1>3. \A i \in 1..Len(vmis) : vmis[i] # Null
  BY <1>0 DEF BuildAndInsert, ToSet
<1> HIDE DEF b, c
<1>4. /\ vmis' \in Seq(Pointers) /\ Len(vmis') = Len(vmis) + 1
      /\ vmis'[Len(vmis) + 1] = b
      /\ \A i \in 1..Len(vmis) : vmis'[i] = vmis[i]
      /\ Len(vmis) \in Nat
  BY <1>0, <1>2
<1>5. heap[b] = "fresh" /\ tpc[b] = "none" /\ made < b /\ made' = b /\ b <= MaxBuilds
  BY <1>0, <1>2 DEF IInv, Unmade, b
<1>6. Typed'
  BY <1>0, <1>1, <1>2, <1>4 DEF IInv, Typed, MainPoint, ThreadPoint, Builders
<1>7. Unmade'
  BY <1>0, <1>2, <1>5 DEF IInv, Unmade, Typed, Builders
<1>8. LatchInScope'
  BY <1>0, <1>2, <1>5 DEF IInv, LatchInScope, Typed
<1>9. Registry'
  <2>1. \A i \in 1..Len(vmis) :
          /\ vmis[i] \in Builders /\ vmis[i] <= made /\ heap[vmis[i]] = "alive"
          /\ vmis[i] # b /\ name[vmis[i]] # mname
    BY <1>0, <1>2, <1>3, <1>5 DEF IInv, Registry, Pointers
  <2>2. name' [b] = mname /\ heap'[b] = "alive"
        /\ \A a \in Builders \ {b} :
             name'[a] = name[a] /\ heap'[a] = heap[a] /\ tpc'[a] = tpc[a]
    BY <1>0, <1>2 DEF IInv, Typed
  <2>3. \A i \in 1..Len(vmis') : vmis'[i] # Null /\ vmis'[i] <= made' /\ heap'[vmis'[i]] = "alive"
    <3>1. ASSUME NEW i \in 1..Len(vmis)
          PROVE  vmis'[i] # Null /\ vmis'[i] <= made' /\ heap'[vmis'[i]] = "alive"
      <4>1. vmis'[i] = vmis[i] /\ vmis[i] \in Builders \ {b}
        BY <1>4, <2>1
      <4>2. vmis[i] <= made'
        BY <1>0, <1>2, <2>1, <4>1 DEF Builders, b
      <4> QED
        BY <1>3, <2>1, <2>2, <4>1, <4>2
    <3>2. vmis'[Len(vmis')] = b /\ b <= made' /\ b # Null
      BY <1>0, <1>2, <1>4 DEF Builders
    <3> QED
      BY <1>4, <2>2, <3>1, <3>2
  <2>4. \A i, j \in 1..Len(vmis') : i # j => name'[vmis'[i]] # name'[vmis'[j]]
    BY <1>0, <1>3, <1>4, <2>1, <2>2 DEF IInv, Registry
  <2>5. \A a \in Builders : tpc'[a] \in Owning =>
          heap'[a] = "alive" /\ \E i \in 1..Len(vmis') : vmis'[i] = a
    BY <1>0, <1>4, <2>2 DEF IInv, Registry
  <2>6. \A a \in Builders :
          (tpc'[a] \in Erasing <=> vmis_mutex' = a) /\ (heap'[a] = "dying" <=> vmis_mutex' = a)
    BY <1>0, <1>2, <1>5, <2>2 DEF IInv, Registry, Typed, Erasing
  <2> QED
    BY <1>2, <2>3, <2>4, <2>5, <2>6 DEF IInv, Registry
<1>10. Cids'
  BY <1>0, <1>1, <1>2, <1>5 DEF IInv, Typed, Cids, NoCidLeak, Live, SoleOwner
<1> QED
  BY <1>6, <1>7, <1>8, <1>9, <1>10 DEF IInv

-----------------------------------------------------------------------------
(* The steps of the threads *)

(* What a VmThread does besides the erase and its completion only moves it *)
(* and counts the latch.                                                   *)
LEMMA ThreadStepIInv ==
  ASSUME IInv, mpc # "crashed",
         NEW b \in Builders, ThreadStep(b), ~EraseBegin(b), ~DestroyRelease(b)
  PROVE  IInv'
<1> USE DEF builderVars, readyVars, procVars, registryVars, listenerVars, mainVars,
        ghostVars, objectVars, notThread, regVars, cidVars, Goto
<1>0. /\ tpc \in [Builders -> ThreadPoint] /\ latch \in [Builders -> Int]
      /\ tpc[b] \in CountsLater => latch[b] > 0
  BY DEF IInv, Typed, LatchInScope
<1> USE DEF ThreadPoint, Owning, CountsLater, Erasing
<1>1. CASE ThreadStart(b)
  BY <1>0, <1>1, ThreadMoves DEF ThreadStart
<1>2. CASE FirstCount(b)
  <2>1. CASE latch[b] = 1
    BY <1>0, <1>2, <2>1, ThreadMoves DEF FirstCount, CountDown
  <2>2. CASE latch[b] # 1
    <3>1. latch[b] > 1
      BY <1>0, <1>2, <2>2 DEF FirstCount
    <3> QED
      BY <1>0, <1>2, <2>2, <3>1, ThreadMoves DEF FirstCount, CountDown
  <2> QED
    BY <2>1, <2>2
<1>3. CASE SetReady(b) \/ AddPendingVM(b)
  BY <1>0, <1>3, ThreadMoves DEF SetReady, AddPendingVM
<1>4. CASE WaitCheck(b)
  BY <1>0, <1>4, ThreadMoves DEF WaitCheck
<1>5. CASE WaitLatch(b)
  BY <1>0, <1>5, ThreadMoves DEF WaitLatch
<1>6. CASE SecondCount(b)
  BY <1>0, <1>6, ThreadMoves DEF SecondCount, CountDown
<1>7. CASE Join(b) \/ Joined(b)
  BY <1>0, <1>7, ThreadMoves DEF Join, Joined
<1>8. CASE DestroyLock(b)
  BY <1>0, <1>8, ThreadMoves DEF DestroyLock
<1>9. CASE StartThrows(b)
  <2>1. mname \in Names \cup {NoName} /\ mvb \in Pointers
    BY DEF IInv, Typed
  <2> QED
    BY <1>9, <2>1, MainMoves DEF StartThrows, Fault, notMain, mainLocals, threadVars,
       MainPoint
<1> QED
  BY <1>1, <1>2, <1>3, <1>4, <1>5, <1>6, <1>7, <1>8, <1>9 DEF ThreadStep

(* DeleteVmInstance finds the builder of the calling thread: no null       *)
(* element is met, the name is there, and no other element has it.         *)
LEMMA FindsOwn ==
  ASSUME IInv, NEW b \in Builders, EraseBegin(b)
  PROVE  LET i == FindVmInstance(name[b]) IN i \in 1..Len(vmis) /\ vmis[i] = b
<1> DEFINE i == FindVmInstance(name[b])
<1>1. /\ vmis \in Seq(Pointers) /\ b # Null
      /\ \A k \in 1..Len(vmis) : vmis[k] # Null
  BY MaxNat DEF IInv, Typed, Registry, EraseBegin, Builders, Null
<1>2. PICK j \in 1..Len(vmis) : vmis[j] = b
  BY DEF IInv, Registry, EraseBegin, Owning
<1>3. i \in 1..Len(vmis) /\ name[vmis[i]] = name[b]
  BY <1>1, <1>2, FindSound
<1> HIDE DEF i
<1>4. i = j
  BY <1>1, <1>2, <1>3 DEF IInv, Registry
<1> QED
  BY <1>2, <1>3, <1>4 DEF i

(* The erase takes out this builder and leaves at most one null element. *)
LEMMA EraseBeginIInv ==
  ASSUME IInv, NEW b \in Builders, EraseBegin(b)
  PROVE  IInv'
<1> DEFINE i == FindVmInstance(name[b])
<1>1. i \in 1..Len(vmis) /\ vmis[i] = b
  BY FindsOwn
<1>2. /\ vmis_mutex = Null /\ vmis_mutex' = b /\ victim' = b
      /\ heap' = [heap EXCEPT ![b] = "dying"]
      /\ \/ tpc[b] = "del" /\ tpc' = [tpc EXCEPT ![b] = "erase"]
         \/ tpc[b] = "del_fail" /\ tpc' = [tpc EXCEPT ![b] = "erase_fail"]
      /\ vmis' = IF i < Len(vmis)
                   THEN [vmis EXCEPT ![i] = vmis[i + 1], ![i + 1] = Null]
                   ELSE SubSeq(vmis, 1, i - 1)
      /\ UNCHANGED <<made, name, cid, bs, stopped, mpc, mname, mvb, latch>>
  BY <1>1 DEF EraseBegin, mainVars, ghostVars
<1> HIDE DEF i
<1>3. /\ vmis \in Seq(Pointers) /\ b # Null /\ Null \in Pointers /\ b \in Pointers
      /\ heap[b] = "alive" /\ b <= made
      /\ \A k \in 1..Len(vmis) : vmis[k] # Null
  BY <1>1, <1>2, MaxNat DEF IInv, Typed, Registry, Builders, Pointers, Null
<1>4. vmis' \in Seq(Pointers)
  BY <1>1, <1>2, <1>3
<1>5. Typed'
  BY <1>2, <1>3, <1>4 DEF IInv, Typed, ThreadPoint
<1>6. Unmade'
  BY <1>2, <1>3 DEF IInv, Unmade, Typed
<1>7. LatchInScope'
  BY <1>2 DEF IInv, LatchInScope, Typed, CountsLater
<1>8. Cids'
  BY <1>2, <1>3 DEF IInv, Cids, Typed, NoCidLeak, Live, SoleOwner
<1>9. Registry'
  (* the place in vmis_ before the step of what stands at k after it *)
  <2> DEFINE old(k) == IF k = i THEN i + 1 ELSE k
  <2>1. \A k \in 1..Len(vmis') :
          \/ old(k) \in 1..Len(vmis) \ {i} /\ vmis'[k] = vmis[old(k)]
          \/ k = i + 1 /\ vmis'[k] = Null
    BY <1>1, <1>2, <1>3
  <2>2. \A k \in 1..Len(vmis) : k # i =>
          \E n \in 1..Len(vmis') : vmis'[n] = vmis[k]
    <3>1. CASE i < Len(vmis)
      <4>1. /\ Len(vmis') = Len(vmis) /\ vmis'[i] = vmis[i + 1]
            /\ \A k \in 1..Len(vmis) : k # i /\ k # i + 1 => vmis'[k] = vmis[k]
        BY <1>1, <1>2, <1>3, <3>1
      <4> QED
        BY <1>1, <4>1
    <3>2. CASE ~(i < Len(vmis))
      <4>1. /\ Len(vmis') = i - 1 /\ i = Len(vmis)
            /\ \A k \in 1..(i - 1) : vmis'[k] = vmis[k]
        BY <1>1, <1>2, <1>3, <3>2
      <4> QED
        BY <1>1, <4>1
    <3> QED
      BY <3>1, <3>2
  <2>3. \A k \in 1..Len(vmis) \ {i} :
          vmis[k] \in Builders \ {b} /\ vmis[k] <= made /\ heap[vmis[k]] = "alive"
    BY <1>1, <1>3 DEF IInv, Registry, Pointers
  <2>4. /\ \A a \in Builders \ {b} : heap'[a] = heap[a] /\ tpc'[a] = tpc[a]
        /\ heap'[b] = "dying" /\ tpc'[b] \in {"erase", "erase_fail"}
    BY <1>2 DEF IInv, Typed
  <2>0. \A k, n \in 1..Len(vmis') :
          vmis'[k] # Null /\ vmis'[n] # Null /\ k # n => old(k) # old(n)
    <3>1. Len(vmis') \in Nat /\ i \in Nat
      BY <1>1, <1>4
    <3>2. CASE i + 1 \in 1..Len(vmis')
      <4>1. vmis'[i + 1] = Null
        BY <1>1, <1>2, <1>3, <3>2
      <4> QED
        BY <3>1, <4>1
    <3>3. CASE i + 1 \notin 1..Len(vmis')
      BY <3>1, <3>3
    <3> QED
      BY <3>2, <3>3
  <2> HIDE DEF old
  <2>5. \A k \in 1..Len(vmis') : vmis'[k] # Null =>
          vmis'[k] <= made' /\ heap'[vmis'[k]] = "alive"
    <3> SUFFICES ASSUME NEW k \in 1..Len(vmis'), vmis'[k] # Null
                 PROVE  vmis'[k] <= made' /\ heap'[vmis'[k]] = "alive"
      OBVIOUS
    <3>1. old(k) \in 1..Len(vmis) \ {i} /\ vmis'[k] = vmis[old(k)]
      BY <2>1
    <3>2. vmis[old(k)] \in Builders \ {b} /\ vmis[old(k)] <= made /\ heap[vmis[old(k)]] = "alive"
      BY <2>3, <3>1
    <3>3. made' = made
      BY <1>2
    <3> QED
      BY <2>4, <3>1, <3>2, <3>3
  <2>6. \A k, n \in 1..Len(vmis') : vmis'[k] = Null /\ vmis'[n] = Null => k = n
    BY <1>3, <2>1
  <2>7. \A k, n \in 1..Len(vmis') : k # n /\ vmis'[k] # Null /\ vmis'[n] # Null =>
          name'[vmis'[k]] # name'[vmis'[n]]
    <3> SUFFICES ASSUME NEW k \in 1..Len(vmis'), NEW n \in 1..Len(vmis'), k # n,
                        vmis'[k] # Null, vmis'[n] # Null
                 PROVE  name'[vmis'[k]] # name'[vmis'[n]]
      OBVIOUS
    <3>1. /\ old(k) \in 1..Len(vmis) /\ vmis'[k] = vmis[old(k)]
          /\ old(n) \in 1..Len(vmis) /\ vmis'[n] = vmis[old(n)]
          /\ old(k) # old(n)
      BY <2>0, <2>1
    <3>2. \A u, v \in 1..Len(vmis) : u # v => name[vmis[u]] # name[vmis[v]]
      BY <1>3 DEF IInv, Registry
    <3>3. name' = name
      BY <1>2
    <3> QED
      BY <3>1, <3>2, <3>3, Zenon
  <2>8. mpc' = "build" =>
          \A k \in 1..Len(vmis') : vmis'[k] # Null => name'[vmis'[k]] # mname'
    <3> SUFFICES ASSUME mpc = "build", NEW k \in 1..Len(vmis'), vmis'[k] # Null
                 PROVE  name[vmis'[k]] # mname
      BY <1>2
    <3>1. old(k) \in 1..Len(vmis) /\ vmis'[k] = vmis[old(k)]
      BY <2>1
    <3> QED
      BY <1>3, <3>1 DEF IInv, Registry
  <2>9. \A a \in Builders : tpc'[a] \in Owning =>
          heap'[a] = "alive" /\ \E k \in 1..Len(vmis') : vmis'[k] = a
    BY <1>1, <2>2, <2>4 DEF IInv, Registry, Owning
  <2>10. \A a \in Builders :
          (tpc'[a] \in Erasing <=> vmis_mutex' = a) /\ (heap'[a] = "dying" <=> vmis_mutex' = a)
    <3>1. \A a \in Builders : tpc[a] \notin Erasing /\ heap[a] # "dying"
      BY <1>2, MaxNat DEF IInv, Registry, Builders, Null
    <3> QED
      BY <1>2, <2>4, <3>1 DEF Erasing
  <2>11. vmis_mutex' # Null /\ vmis_mutex' = victim'
    BY <1>2, <1>3
  <2> QED
    BY <2>5, <2>6, <2>7, <2>8, <2>9, <2>10, <2>11 DEF Registry
<1> QED
  BY <1>5, <1>6, <1>7, <1>8, <1>9 DEF IInv

(* The end of the erase closes the gap, frees the builder and gives its    *)
(* identifier back.                                                        *)
LEMMA DestroyReleaseIInv ==
  ASSUME IInv, NEW b \in Builders, DestroyRelease(b)
  PROVE  IInv'
<1>1. /\ vmis_mutex = b /\ victim = b /\ heap[b] = "dying" /\ cid[b] \in GuestCids
      /\ vmis \in Seq(Pointers) /\ Null \in Pointers /\ b # Null
      /\ \A i, j \in 1..Len(vmis) : vmis[i] = Null /\ vmis[j] = Null => i = j
      /\ \A i \in 1..Len(vmis) : vmis[i] # Null => vmis[i] \in Builders \ {b}
  BY MaxNat DEF IInv, Typed, Registry, Cids, Live, DestroyRelease, Builders, Pointers, Null
<1>2. /\ heap' = [heap EXCEPT ![b] = "freed"]
      /\ \/ tpc[b] = "free" /\ tpc' = [tpc EXCEPT ![b] = "done"]
         \/ tpc[b] = "free_fail" /\ tpc' = [tpc EXCEPT ![b] = "count_fail"]
      /\ bs' = bs \cup {cid[b]}
      /\ vmis_mutex' = Null /\ victim' = Null
      /\ UNCHANGED <<made, name, cid, stopped, mpc, mname, mvb, latch>>
  BY <1>1 DEF DestroyRelease, ReleaseCid, mainVars, ghostVars
<1>3. vmis' = RemoveFirst(vmis, Null)
  BY DEF DestroyRelease
<1>0. GuestCids \subseteq AllFree
  BY CidAssumption DEF GuestCids, AllFree
<1>4. PICK k \in 1..(Len(vmis) + 1) :
        /\ \A i \in 1..Len(vmis) : vmis[i] = Null <=> i = k
        /\ vmis' \in Seq(Pointers)
        /\ Len(vmis') = IF k = Len(vmis) + 1 THEN Len(vmis) ELSE Len(vmis) - 1
        /\ \A i \in 1..Len(vmis') : vmis'[i] = vmis[IF i < k THEN i ELSE i + 1]
  <2>1. CASE \A i \in 1..Len(vmis) : vmis[i] # Null
    <3>1. vmis' = vmis
      BY <1>3, <2>1 DEF RemoveFirst
    <3>2. Len(vmis) \in Nat
      BY <1>1
    <3>3. \A i \in 1..Len(vmis) : i < Len(vmis) + 1 /\ i # Len(vmis) + 1
      BY <3>2
    <3>4. vmis' \in Seq(Pointers) /\ Len(vmis') = Len(vmis)
      BY <1>1, <3>1
    <3>5. \A i \in 1..Len(vmis') : vmis'[i] = vmis[IF i < Len(vmis) + 1 THEN i ELSE i + 1]
      BY <3>1, <3>3
    <3>6. Len(vmis) + 1 \in 1..(Len(vmis) + 1)
      BY <3>2
    <3> WITNESS Len(vmis) + 1 \in 1..(Len(vmis) + 1)
    <3> QED
      BY <2>1, <3>3, <3>4, <3>5
  <2>2. CASE \E i \in 1..Len(vmis) : vmis[i] = Null
    <3>1. PICK k \in 1..Len(vmis) : vmis[k] = Null
      BY <2>2
    <3>2. \A i \in 1..Len(vmis) : vmis[i] = Null => i = k
      BY <1>1, <3>1
    <3>3. /\ vmis' \in Seq(Pointers) /\ Len(vmis') = Len(vmis) - 1
          /\ \A i \in 1..(Len(vmis) - 1) : vmis'[i] = IF i < k THEN vmis[i] ELSE vmis[i + 1]
      BY <1>1, <1>3, <3>1, <3>2, RemoveNull
    <3>4. Len(vmis) \in Nat /\ k # Len(vmis) + 1 /\ k \in 1..(Len(vmis) + 1)
      BY <1>1, <3>1
    <3> WITNESS k \in 1..(Len(vmis) + 1)
    <3> QED
      BY <3>1, <3>2, <3>3, <3>4
  <2> QED
    BY <2>1, <2>2
<1>5. Typed'
  <2>1. vmis' \in Seq(Pointers) /\ Null \in Pointers
    BY <1>1, <1>4
  <2>2. bs' \subseteq AllFree
    BY <1>0, <1>1, <1>2 DEF IInv, Typed
  <2> QED
    BY <1>2, <2>1, <2>2 DEF IInv, Typed, ThreadPoint
<1>6. Unmade'
  BY <1>1, <1>2 DEF IInv, Unmade, Typed
<1>7. LatchInScope'
  BY <1>2 DEF IInv, LatchInScope, Typed, CountsLater
<1>8. Cids'
  <2>1. \A a \in Builders : Live(a)' <=> Live(a) /\ a # b
    BY <1>2 DEF IInv, Typed, Live
  <2>2. cid' = cid /\ bs' = bs \cup {cid[b]} /\ stopped' = stopped
    BY <1>2
  <2>3. Live(b)
    BY <1>1 DEF Live
  <2>4. NoCidLeak'
    BY <2>1, <2>2 DEF IInv, Cids, NoCidLeak
  <2>5. \A a \in Builders : Live(a)' /\ cid'[a] \notin stopped' => SoleOwner(a)'
    BY <2>1, <2>2, <2>3 DEF IInv, Cids, SoleOwner
  <2>6. \A a \in Builders : Live(a)' => cid'[a] \in GuestCids
    BY <2>1, <2>2 DEF IInv, Cids
  <2> QED
    BY <2>4, <2>5, <2>6 DEF Cids
<1>9. Registry'
  (* the place in vmis_ before the step of what stands at i after it *)
  <2> DEFINE old(i) == IF i < k THEN i ELSE i + 1
  <2>0. /\ Len(vmis) \in Nat /\ k \in 1..(Len(vmis) + 1)
        /\ Len(vmis') = IF k = Len(vmis) + 1 THEN Len(vmis) ELSE Len(vmis) - 1
    <3>1. Len(vmis) \in Nat
      BY <1>1
    <3> QED
      BY <1>4, <3>1
  <2>1. \A i \in 1..Len(vmis') : old(i) \in 1..Len(vmis) /\ old(i) # k
    BY <2>0
  <2>2. \A i, j \in 1..Len(vmis') : i # j => old(i) # old(j)
    BY <2>0
  <2>3. \A i \in 1..Len(vmis) : i # k => \E j \in 1..Len(vmis') : old(j) = i
    <3> SUFFICES ASSUME NEW i \in 1..Len(vmis), i # k
                 PROVE  \E j \in 1..Len(vmis') : old(j) = i
      OBVIOUS
    <3>1. CASE i < k
      BY <2>0, <3>1
    <3>2. CASE i > k
      <4>1. i - 1 \in 1..Len(vmis') /\ old(i - 1) = i
        BY <2>0, <3>2
      <4> QED
        BY <4>1
    <3> QED
      BY <2>0, <3>1, <3>2
  <2>4. \A i \in 1..Len(vmis') : vmis'[i] = vmis[old(i)]
    BY <1>4
  <2> HIDE DEF old
  <2>5. \A i \in 1..Len(vmis) : i # k =>
          /\ vmis[i] # Null /\ vmis[i] \in Builders \ {b}
          /\ vmis[i] <= made /\ heap[vmis[i]] = "alive"
    BY <1>1, <1>4 DEF IInv, Registry
  <2>6. /\ \A a \in Builders \ {b} : heap'[a] = heap[a] /\ tpc'[a] = tpc[a]
        /\ heap'[b] = "freed" /\ tpc'[b] \in {"done", "count_fail"}
    BY <1>2 DEF IInv, Typed
  <2>7. /\ made' = made /\ name' = name /\ mpc' = mpc /\ mname' = mname
        /\ vmis_mutex' = Null /\ victim' = Null
    BY <1>2
  <2>8. \A i \in 1..Len(vmis') :
          vmis'[i] # Null /\ vmis'[i] <= made' /\ heap'[vmis'[i]] = "alive"
    <3> SUFFICES ASSUME NEW i \in 1..Len(vmis')
                 PROVE  vmis'[i] # Null /\ vmis'[i] <= made' /\ heap'[vmis'[i]] = "alive"
      OBVIOUS
    <3>1. old(i) \in 1..Len(vmis) /\ old(i) # k /\ vmis'[i] = vmis[old(i)]
      BY <2>1, <2>4
    <3>2. /\ vmis[old(i)] # Null /\ vmis[old(i)] \in Builders \ {b}
          /\ vmis[old(i)] <= made /\ heap[vmis[old(i)]] = "alive"
      BY <2>5, <3>1
    <3>3. made' = made
      BY <2>7
    <3> QED
      BY <2>6, <3>1, <3>2, <3>3
  <2>9. \A i, j \in 1..Len(vmis') : i # j => name'[vmis'[i]] # name'[vmis'[j]]
    <3> SUFFICES ASSUME NEW i \in 1..Len(vmis'), NEW j \in 1..Len(vmis'), i # j
                 PROVE  name[vmis'[i]] # name[vmis'[j]]
      BY <2>7
    <3>1. /\ old(i) \in 1..Len(vmis) /\ vmis'[i] = vmis[old(i)] /\ vmis[old(i)] # Null
          /\ old(j) \in 1..Len(vmis) /\ vmis'[j] = vmis[old(j)] /\ vmis[old(j)] # Null
          /\ old(i) # old(j)
      BY <2>1, <2>2, <2>4, <2>5
    <3> QED
      BY <3>1 DEF IInv, Registry
  <2>10. mpc' = "build" => \A i \in 1..Len(vmis') : name'[vmis'[i]] # mname'
    <3>1. mpc = "build" => \A u \in 1..Len(vmis) : u # k => name[vmis[u]] # mname
      BY <2>5 DEF IInv, Registry
    <3> QED
      BY <2>1, <2>4, <2>7, <3>1, Zenon
  <2>11. \A a \in Builders : tpc'[a] \in Owning =>
           heap'[a] = "alive" /\ \E i \in 1..Len(vmis') : vmis'[i] = a
    <3> SUFFICES ASSUME NEW a \in Builders, tpc'[a] \in Owning
                 PROVE  heap'[a] = "alive" /\ \E i \in 1..Len(vmis') : vmis'[i] = a
      OBVIOUS
    <3>1. a # b /\ tpc[a] \in Owning
      BY <2>6 DEF Owning
    <3>2. heap[a] = "alive" /\ \E i \in 1..Len(vmis) : vmis[i] = a
      BY <3>1 DEF IInv, Registry
    <3>3. PICK i \in 1..Len(vmis) : vmis[i] = a
      BY <3>2
    <3>4. i # k
      BY <1>4, <3>3, MaxNat DEF Builders, Null
    <3>5. PICK j \in 1..Len(vmis') : old(j) = i
      BY <2>3, <3>4
    <3> QED
      BY <2>4, <2>6, <3>1, <3>2, <3>3, <3>5
  <2>12. \A a \in Builders : tpc'[a] \notin Erasing /\ heap'[a] # "dying" /\ Null # a
    <3>1. \A a \in Builders \ {b} : tpc[a] \notin Erasing /\ heap[a] # "dying"
      BY <1>1 DEF IInv, Registry
    <3> QED
      BY <2>6, <3>1, MaxNat DEF Erasing, Builders, Null
  <2> QED
    BY <2>7, <2>8, <2>9, <2>10, <2>11, <2>12 DEF Registry
<1> QED
  BY <1>5, <1>6, <1>7, <1>8, <1>9 DEF IInv

-----------------------------------------------------------------------------
(* The theorems *)

(* The invariant holds in every reachable state. *)
THEOREM LifecycleInvariant == Spec => []IInv
<1>1. ASSUME IInv, [Next]_vars PROVE IInv'
  <2>1. CASE UNCHANGED vars
    BY <1>1, <2>1, Quiet DEF vars, builderVars, registryVars, mainVars, threadVars,
       ghostVars, regVars, cidVars
  <2>2. CASE MainStep /\ mpc # "crashed"
    BY <1>1, <2>2, MainStepIInv, BuildIInv, StopReleaseIInv
  <2>3. ASSUME NEW b \in Builders, ThreadStep(b), mpc # "crashed" PROVE IInv'
    BY <1>1, <2>3, ThreadStepIInv, EraseBeginIInv, DestroyReleaseIInv
  <2>4. ASSUME NEW b \in Builders, StoreChild(b) \/ Exit(b) PROVE IInv'
    BY <1>1, <2>4, Quiet DEF StoreChild, Exit, notProc, objectVars, builderVars,
       registryVars, mainVars, threadVars, ghostVars, regVars, cidVars
  <2>5. ASSUME NEW b \in Builders, VmReady(b) PROVE IInv'
    BY <1>1, <2>5, Quiet DEF VmReady, builderVars, registryVars, mainVars, threadVars,
       ghostVars, regVars, cidVars
  <2>6. CASE ListenerStep
    BY <1>1, <2>6, Quiet DEF ListenerStep, CallbackCount, CallbackState, ErasePending,
       builderVars, registryVars, mainVars, threadVars, ghostVars, regVars, cidVars
  <2> QED
    BY <1>1, <2>1, <2>2, <2>3, <2>4, <2>5, <2>6 DEF Next
<1> QED
  BY <1>1, InitIInv, PTL DEF Spec

(* No VmThread counts down a latch that StartVm has left behind on its     *)
(* stack, for every number of machines (Server::StartVm, VmThread).        *)
THEOREM LatchStaysInScope == Spec => []LatchInScope
<1>1. IInv => LatchInScope
  BY DEF IInv
<1> QED
  BY <1>1, LifecycleInvariant, PTL

(* DeleteVmInstance erases the machine of the thread that calls it, names  *)
(* in vmis_ are unique, and no thread loses its machine to another one.    *)
THEOREM RegistryStaysOwned == Spec => []RegistryOwned
<1>1. IInv => RegistryOwned
  <2> SUFFICES ASSUME IInv PROVE RegistryOwned
    OBVIOUS
  <2>1. DOMAIN vmis = 1..Len(vmis)
    BY DEF IInv, Typed
  <2> QED
    BY <2>1 DEF IInv, Registry, RegistryOwned, ToSet
<1> QED
  BY <1>1, LifecycleInvariant, PTL

(* No interleaving of builds, stops and exits loses an identifier. *)
THEOREM CidsNotLost == Spec => []NoCidLeak
<1>1. IInv => NoCidLeak
  BY DEF IInv, Cids
<1> QED
  BY <1>1, LifecycleInvariant, PTL

(* Only a stop request makes two machines share an identifier. *)
THEOREM CidsNotShared == Spec => []CidExclusiveUnlessStopped
<1>1. IInv => CidExclusiveUnlessStopped
  BY DEF IInv, Cids, CidExclusiveUnlessStopped, Live
<1> QED
  BY <1>1, LifecycleInvariant, PTL

-----------------------------------------------------------------------------
(* The threads, the latch and the listener *)

(* The types that the invariant above does not have. *)
Typed2 ==
  /\ waits \in [Builders -> BOOLEAN]
  /\ state \in [Builders -> {"Empty", "Created", "Booting", "Running"}]
  /\ ready \in [Builders -> BOOLEAN]
  /\ stopping \subseteq Builders
  /\ proc \in [Builders -> {"none", "running", "exited"}]
  /\ child \in [Builders -> BOOLEAN]
  /\ mon \in [Builders -> BOOLEAN]
  /\ said \in [Builders -> BOOLEAN]
  /\ pending \in [AllFree -> Pointers]
  /\ lpc \in {"idle", "count", "state", "erase"}
  /\ lcid \in AllFree /\ target \in Pointers
  /\ mcfg \in [str_cid : {<<>>} \cup StrCids, wait_ready : BOOLEAN]
  /\ midx \in Nat
  /\ rounds \in [Builders -> 0..MaxWait]
  /\ verdict \in [Builders -> {"none", "ok", "failed"}]
  /\ stopped \subseteq GuestCids

(* What each VmThread has done, by the place where it is: the rounds of    *)
(* WaitVmReady and the counts of the latch so far, the machine of a thread *)
(* that succeeded is running, that of a thread that ended is freed.        *)
Progress ==
  \A b \in Builders :
    /\ b > made => verdict[b] = "none"
    /\ b <= made => cid[b] \in GuestCids /\ tpc[b] # "none"
    /\ latch[b] = IF tpc[b] \in {"start", "count"} THEN IF waits[b] THEN 2 ELSE 1
                  ELSE IF tpc[b] \in CountsLater THEN 1 ELSE 0
    /\ tpc[b] \in {"none", "start", "count", "add_pending"} => rounds[b] = 0
    /\ tpc[b] \in {"wait_check", "wait_latch"} => rounds[b] < MaxWait
    /\ tpc[b] = "set_ready" => ~waits[b]
    /\ waits[b] /\ tpc[b] \in {"count_ok", "join", "joining", "del", "erase", "free"} =>
         state[b] = "Running"
    /\ tpc[b] \in {"count_fail", "done"} => heap[b] = "freed"
    /\ waits[b] /\ verdict[b] = "failed" => heap[b] = "freed"

(* The pointers that handlers and callbacks keep are those of builders     *)
(* that were made, and the latch is open once StartVm has waited on it.    *)
Pointing ==
  /\ mpc \in {"start_wait", "start_read", "stop_rpc", "stop_lock", "stop_release"} =>
       mvb \in 1..made
  /\ mpc = "start_read" => latch[mvb] = 0
  /\ \A c \in AllFree : pending[c] <= made
  /\ lpc \in {"count", "state"} => target \in 1..made

(* The report of the guest of a machine that a thread waits for, while     *)
(* VmReady is at work on it.                                               *)
Awaited ==
  \A b \in Builders : tpc[b] \in {"wait_check", "wait_latch"} /\ cid[b] \notin stopped =>
    \/ /\ pending[cid[b]] = b
       /\ lpc # "idle" /\ lcid = cid[b] =>
            /\ lpc \in {"count", "state"} => target = b
            /\ lpc \in {"state", "erase"} => ready[b]
            /\ lpc = "erase" => state[b] = "Running"
    \/ pending[cid[b]] = Null /\ ready[b] /\ state[b] = "Running"

RInv == Typed2 /\ Progress /\ Pointing /\ Awaited

(* The bound on the rounds alone. *)
LEMMA WaitNat == MaxWait \in Nat \ {0}
  BY ConfigAssumption

(* What a step leaves alone that only moves the main thread. *)
LEMMA MainRest ==
  ASSUME RInv, UNCHANGED <<notMain, ghostVars>>,
         mcfg' \in [str_cid : {<<>>} \cup StrCids, wait_ready : BOOLEAN], midx' \in Nat,
         mpc' \in {"start_wait", "start_read", "stop_rpc", "stop_lock", "stop_release"} =>
           mvb' \in 1..made,
         mpc' = "start_read" => latch[mvb'] = 0
  PROVE  RInv'
<1> USE DEF notMain, objectVars, builderVars, readyVars, procVars, registryVars,
        listenerVars, threadVars, ghostVars
<1>1. Typed2'
  BY DEF RInv, Typed2
<1>2. Progress'
  BY DEF RInv, Progress
<1>3. Pointing'
  BY DEF RInv, Pointing
<1>4. Awaited'
  BY DEF RInv, Awaited
<1> QED
  BY <1>1, <1>2, <1>3, <1>4 DEF RInv

(* Stop() of a process changes only the process. *)
LEMMA StopProcTyped ==
  ASSUME Typed2, NEW b, StopProc(b)
  PROVE  /\ proc' \in [Builders -> {"none", "running", "exited"}]
         /\ child' \in [Builders -> BOOLEAN] /\ mon' \in [Builders -> BOOLEAN]
<1>1. proc' \in [Builders -> {"none", "running", "exited"}]
  BY DEF Typed2, StopProc, procVars
<1>2. child' = child
  BY DEF StopProc, procVars
<1>3. mon' \in [Builders -> BOOLEAN]
  <2>1. mon' = mon \/ mon' = [mon EXCEPT ![b] = FALSE]
    BY DEF StopProc, procVars
  <2> QED
    BY <2>1 DEF Typed2
<1> QED
  BY <1>1, <1>2, <1>3 DEF Typed2

(* What StartVm, StopVm and GetVmInfo do besides the insertion, the stop   *)
(* of a process, the release and the reply.                                *)
LEMMA MainRInv ==
  ASSUME IInv, RInv, MainStep, ~BuildAndInsert, ~StopLock, ~StopRelease,
         \A answer \in {"ok", "failed"} : ~StartReply(answer)
  PROVE  RInv'
<1> USE DEF MainGoto, MainReturn
<1>0. /\ vmis \in Seq(Pointers) /\ made \in Nat /\ midx \in Nat
      /\ mcfg \in [str_cid : {<<>>} \cup StrCids, wait_ready : BOOLEAN]
      /\ NoConfig \in [str_cid : {<<>>} \cup StrCids, wait_ready : BOOLEAN]
  BY MaxNat DEF IInv, RInv, Typed, Typed2, NoConfig
<1>f. \A n : FindVmInstance(n) \in Nat
  <2> SUFFICES ASSUME NEW n PROVE FindVmInstance(n) \in Nat
    OBVIOUS
  <2>1. FindVmInstance(n) = 0 \/ FindVmInstance(n) \in 1..Len(vmis)
    BY <1>0, FindSound
  <2> QED
    BY <2>1
<1>v. Valid(midx) => vmis[midx] \in 1..made
  <2>1. DOMAIN vmis = 1..Len(vmis)
    BY <1>0
  <2>2. ASSUME Valid(midx) PROVE vmis[midx] \in Builders /\ vmis[midx] <= made
    BY <1>0, <2>1, <2>2 DEF Valid, IInv, Registry, Pointers
  <2> QED
    BY <1>0, <2>2, MaxNat DEF Builders
<1>1. ASSUME NEW n \in Names, NEW str_cid \in StrCids, NEW wait_ready \in BOOLEAN,
             StartVm(n, str_cid, wait_ready)
      PROVE  RInv'
  BY <1>0, <1>1, MainRest DEF StartVm
<1>2. ASSUME NEW n \in Names, StopVm(n) \/ GetVmInfo(n) PROVE RInv'
  BY <1>0, <1>f, <1>2, MainRest DEF StopVm, GetVmInfo
<1>3. CASE BuildFails \/ ShutdownAnswered \/ InfoReply
  BY <1>0, <1>3, MainRest DEF BuildFails, ShutdownAnswered, InfoReply
<1>4. CASE InsertFaults \/ MainFaults
  BY <1>0, <1>4, MainRest DEF InsertFaults, MainFaults, Fault, mainLocals
<1>5. CASE StartWait
  BY <1>0, <1>5, MainRest DEF StartWait, mainLocals, RInv, Pointing
<1>6. CASE StopAddress \/ ShutdownFails \/ InfoRead
  BY <1>0, <1>v, <1>6, MainRest DEF StopAddress, ShutdownFails, InfoRead
<1> QED
  BY <1>1, <1>2, <1>3, <1>4, <1>5, <1>6 DEF MainStep

(* StopVm: the process is stopped, then the identifier of a builder that   *)
(* was made is released.                                                   *)
LEMMA StopRInv ==
  ASSUME IInv, RInv, StopLock \/ StopRelease
  PROVE  RInv'
<1>m. mvb \in 1..made /\ mvb \in Builders /\ made \in Nat
  BY MaxNat DEF StopLock, StopRelease, MainGoto, MainReturn, RInv, Pointing, IInv, Typed,
                Builders
<1> USE DEF builderVars, readyVars, registryVars, listenerVars, mainLocals, threadVars,
        ghostVars, MainGoto, MainReturn
<1>1. CASE StopLock
  <2>1. Typed2'
    BY <1>1, <1>m, StopProcTyped DEF StopLock, RInv, Typed2
  <2>2. Progress' /\ Pointing' /\ Awaited'
    BY <1>1, <1>m DEF StopLock, RInv, Progress, Pointing, Awaited
  <2> QED
    BY <2>1, <2>2 DEF RInv
<1>2. CASE StopRelease
  <2>1. cid[mvb] \in GuestCids
    BY <1>m DEF RInv, Progress
  <2>2. Typed2'
    BY <1>2, <2>1 DEF StopRelease, procVars, NoConfig, RInv, Typed2
  <2>3. Progress' /\ Pointing' /\ Awaited'
    BY <1>2 DEF StopRelease, RInv, Progress, Pointing, Awaited
  <2> QED
    BY <2>2, <2>3 DEF RInv
<1> QED
  BY <1>1, <1>2

(* The reply: when the latch of a start with wait_ready is open, the       *)
(* machine runs or is freed.                                               *)
LEMMA ReplyRInv ==
  ASSUME IInv, RInv, NEW answer \in {"ok", "failed"}, StartReply(answer)
  PROVE  RInv'
<1> USE DEF notMain, objectVars, builderVars, readyVars, procVars, registryVars,
        listenerVars, threadVars, ghostVars, MainGoto, MainReturn
<1>m. mvb \in 1..made /\ mvb \in Builders /\ made \in Nat /\ latch[mvb] = 0
  BY MaxNat DEF StartReply, RInv, Pointing, IInv, Typed, Builders
<1>1. Typed2'
  BY <1>m DEF StartReply, NoConfig, RInv, Typed2
<1>2. waits[mvb] /\ answer = "failed" => heap[mvb] = "freed"
  <2> SUFFICES ASSUME waits[mvb], answer = "failed", heap[mvb] # "freed" PROVE FALSE
    OBVIOUS
  <2>1. state[mvb] # "Running"
    BY DEF StartReply
  <2>2. tpc[mvb] \in ThreadPoint /\ tpc[mvb] # "none"
    BY <1>m DEF IInv, Typed, RInv, Progress
  <2>3. tpc[mvb] \notin {"start", "count"} /\ tpc[mvb] \notin CountsLater
    BY <1>m DEF RInv, Progress
  <2> QED
    BY <1>m, <2>1, <2>2, <2>3 DEF ThreadPoint, CountsLater, RInv, Progress
<1>3. Progress'
  BY <1>m, <1>2 DEF StartReply, RInv, Progress, Typed2, Builders
<1>4. Pointing' /\ Awaited'
  BY DEF StartReply, RInv, Pointing, Awaited
<1> QED
  BY <1>1, <1>3, <1>4 DEF RInv

(* A new builder starts with nothing done, and no thread waits for it. *)
LEMMA BuildRInv ==
  ASSUME IInv, RInv, BuildAndInsert
  PROVE  RInv'
<1> DEFINE b == made + 1
           c == Acquire(bs, mcfg.str_cid)
<1> USE DEF procVars, listenerVars, ghostVars, MainGoto
<1>0. /\ made \in Nat /\ MaxBuilds \in Nat /\ b \in Builders /\ made < MaxBuilds
      /\ tpc[b] = "none"
  BY MaxNat DEF IInv, Typed, Unmade, BuildAndInsert, Builders
<1>1. c \in GuestCids
  BY AcquireFree DEF IInv, Typed, BuildAndInsert
<1>2. mcfg.wait_ready \in BOOLEAN
  BY DEF RInv, Typed2
<1>3. /\ mpc' = "start_wait" /\ made' = b /\ mvb' = b
      /\ cid' = [cid EXCEPT ![b] = c]
      /\ tpc' = [tpc EXCEPT ![b] = "start"]
      /\ waits' = [waits EXCEPT ![b] = mcfg.wait_ready]
      /\ heap' = [heap EXCEPT ![b] = "alive"]
      /\ state' = [state EXCEPT ![b] = "Created"]
      /\ latch' = [latch EXCEPT ![b] = IF mcfg.wait_ready THEN 2 ELSE 1]
      /\ UNCHANGED <<proc, child, mon, pending, lpc, lcid, target, ready, stopping, said,
                     mcfg, midx, rounds, verdict, stopped>>
  BY DEF BuildAndInsert
<1>4. Typed2'
  BY <1>2, <1>3 DEF RInv, Typed2
<1>k. /\ cid \in [Builders -> {0} \cup GuestCids] /\ tpc \in [Builders -> ThreadPoint]
      /\ waits \in [Builders -> BOOLEAN] /\ latch \in [Builders -> Int]
      /\ heap \in [Builders -> {"fresh", "alive", "dying", "freed"}]
      /\ state \in [Builders -> {"Empty", "Created", "Booting", "Running"}]
  BY DEF IInv, Typed, RInv, Typed2
<1> HIDE DEF c
<1>5. Progress'
  <2>1. /\ verdict[b] = "none" /\ rounds[b] = 0
    BY <1>0 DEF RInv, Progress
  <2> SUFFICES ASSUME NEW a \in Builders
               PROVE  /\ a > made' => verdict'[a] = "none"
                      /\ a <= made' => cid'[a] \in GuestCids /\ tpc'[a] # "none"
                      /\ latch'[a] = IF tpc'[a] \in {"start", "count"}
                                       THEN IF waits'[a] THEN 2 ELSE 1
                                     ELSE IF tpc'[a] \in CountsLater THEN 1 ELSE 0
                      /\ tpc'[a] \in {"none", "start", "count", "add_pending"} => rounds'[a] = 0
                      /\ tpc'[a] \in {"wait_check", "wait_latch"} => rounds'[a] < MaxWait
                      /\ tpc'[a] = "set_ready" => ~waits'[a]
                      /\ waits'[a] /\ tpc'[a] \in {"count_ok", "join", "joining", "del", "erase", "free"} =>
                           state'[a] = "Running"
                      /\ tpc'[a] \in {"count_fail", "done"} => heap'[a] = "freed"
                      /\ waits'[a] /\ verdict'[a] = "failed" => heap'[a] = "freed"
    BY DEF Progress
  <2>2. CASE a = b
    BY <1>0, <1>1, <1>2, <1>3, <1>k, <2>1, <2>2
  <2>3. CASE a # b
    <3>1. /\ cid'[a] = cid[a] /\ tpc'[a] = tpc[a] /\ waits'[a] = waits[a]
          /\ heap'[a] = heap[a] /\ state'[a] = state[a] /\ latch'[a] = latch[a]
      BY <1>3, <1>k, <2>3
    <3>2. (a > made' => a > made) /\ (a <= made' => a <= made)
      BY <1>0, <1>3, <2>3 DEF Builders
    <3> QED
      BY <1>3, <3>1, <3>2 DEF RInv, Progress
  <2> QED
    BY <2>2, <2>3
<1>6. Pointing'
  <2>1. \A d \in AllFree : pending[d] <= made /\ pending[d] \in Nat
    BY MaxNat DEF RInv, Pointing, Typed2, Pointers, Builders, Null
  <2> QED
    BY <1>0, <1>3, <2>1 DEF RInv, Pointing
<1>7. Awaited'
  BY <1>0, <1>3, <1>k DEF RInv, Awaited
<1> QED
  BY <1>4, <1>5, <1>6, <1>7 DEF RInv

(* A step of one VmThread that leaves the objects alone. *)
LEMMA ThreadRest ==
  ASSUME IInv, RInv, UNCHANGED notThread, NEW b \in Builders, tpc[b] # "none",
         NEW to \in ThreadPoint, tpc' = [tpc EXCEPT ![b] = to],
         rounds' \in [Builders -> 0..MaxWait], \A a \in Builders \ {b} : rounds'[a] = rounds[a],
         latch' \in [Builders -> Int], \A a \in Builders \ {b} : latch'[a] = latch[a],
         latch[b] = 0 => latch'[b] = 0,
         to # "none",
         latch'[b] = IF to \in {"start", "count"} THEN IF waits[b] THEN 2 ELSE 1
                     ELSE IF to \in CountsLater THEN 1 ELSE 0,
         to \in {"start", "count", "add_pending"} => rounds'[b] = 0,
         to \in {"wait_check", "wait_latch"} =>
           rounds'[b] < MaxWait /\ tpc[b] \in {"wait_check", "wait_latch"},
         to = "set_ready" => ~waits[b],
         waits[b] /\ to \in {"count_ok", "join", "joining", "del", "erase", "free"} =>
           state[b] = "Running",
         to \in {"count_fail", "done"} => heap[b] = "freed"
  PROVE  RInv'
<1> USE DEF notThread, objectVars, builderVars, readyVars, procVars, registryVars,
        listenerVars, mainVars, ghostVars
<1>0. tpc'[b] = to /\ \A a \in Builders \ {b} : tpc'[a] = tpc[a]
  BY DEF IInv, Typed
<1>1. Typed2'
  BY DEF RInv, Typed2
<1>2. Progress'
  BY <1>0 DEF RInv, Progress
<1>3. Pointing'
  <2>1. mpc = "start_read" => mvb \in Builders /\ latch[mvb] = 0
    BY MaxNat DEF RInv, Pointing, IInv, Typed, Builders
  <2>2. mpc' = "start_read" => latch'[mvb'] = 0
    BY <2>1
  <2> QED
    BY <2>2 DEF RInv, Pointing
<1>4. Awaited'
  BY <1>0 DEF RInv, Awaited
<1> QED
  BY <1>1, <1>2, <1>3, <1>4 DEF RInv

(* The steps of a VmThread that only count, wait and join. *)
LEMMA CountRInv ==
  ASSUME IInv, RInv, NEW b \in Builders,
         \/ FirstCount(b) \/ WaitCheck(b) \/ WaitLatch(b) \/ SecondCount(b)
         \/ Join(b) \/ Joined(b)
  PROVE  RInv'
<1>0. /\ tpc \in [Builders -> ThreadPoint] /\ latch \in [Builders -> Int]
      /\ rounds \in [Builders -> 0..MaxWait] /\ MaxWait \in Nat \ {0}
      /\ waits[b] \in BOOLEAN
  BY WaitNat DEF IInv, Typed, RInv, Typed2
<1>p. /\ latch[b] = IF tpc[b] \in {"start", "count"} THEN IF waits[b] THEN 2 ELSE 1
                    ELSE IF tpc[b] \in CountsLater THEN 1 ELSE 0
      /\ tpc[b] \in {"none", "start", "count", "add_pending"} => rounds[b] = 0
      /\ tpc[b] \in {"wait_check", "wait_latch"} => rounds[b] < MaxWait
      /\ tpc[b] = "set_ready" => ~waits[b]
      /\ waits[b] /\ tpc[b] \in {"count_ok", "join", "joining", "del", "erase", "free"} =>
           state[b] = "Running"
      /\ tpc[b] \in {"count_fail", "done"} => heap[b] = "freed"
  BY DEF RInv, Progress
<1> USE DEF Goto, ThreadPoint, CountsLater
<1>1. CASE FirstCount(b)
  <2>1. PICK to \in {"add_pending", "set_ready"} :
          tpc' = [tpc EXCEPT ![b] = to] /\ (to = "set_ready" <=> latch[b] = 1)
    BY <1>1 DEF FirstCount
  <2>2. /\ tpc[b] = "count" /\ latch' = [latch EXCEPT ![b] = latch[b] - 1]
        /\ rounds' = rounds /\ UNCHANGED notThread
    BY <1>1 DEF FirstCount, CountDown
  <2>3. /\ latch' \in [Builders -> Int] /\ rounds'[b] = 0
        /\ latch'[b] = (IF to = "set_ready" THEN 0 ELSE 1)
        /\ latch[b] # 0 /\ (to = "set_ready" => ~waits[b])
    BY <1>0, <1>p, <2>1, <2>2
  <2>4. \A a \in Builders \ {b} : latch'[a] = latch[a]
    BY <1>0, <2>2
  <2> QED
    BY <1>0, <2>1, <2>2, <2>3, <2>4, ThreadRest
<1>2. CASE WaitCheck(b)
  BY <1>0, <1>p, <1>2, ThreadRest DEF WaitCheck
<1>3. CASE WaitLatch(b)
  <2>1. PICK to \in {"count_ok", "wait_check", "del_fail"} :
          /\ tpc' = [tpc EXCEPT ![b] = to]
          /\ to = "count_ok" => state[b] = "Running"
          /\ to = "wait_check" => rounds[b] + 1 < MaxWait
    BY <1>3 DEF WaitLatch
  <2>2. /\ tpc[b] = "wait_latch" /\ rounds[b] < MaxWait /\ rounds[b] \in Nat
        /\ rounds' = [rounds EXCEPT ![b] = rounds[b] + 1]
        /\ latch' = latch /\ latch[b] = 1 /\ UNCHANGED notThread
    <3>1. /\ tpc[b] = "wait_latch" /\ latch' = latch /\ UNCHANGED notThread
          /\ rounds' = [rounds EXCEPT ![b] = rounds[b] + 1]
      BY <1>3 DEF WaitLatch
    <3>2. rounds[b] < MaxWait /\ latch[b] = 1
      BY <1>p, <3>1
    <3>3. rounds[b] \in Nat
      BY <1>0
    <3> QED
      BY <3>1, <3>2, <3>3
  <2>3. rounds' \in [Builders -> 0..MaxWait] /\ rounds'[b] = rounds[b] + 1
    BY <1>0, <2>2
  <2> QED
    BY <1>0, <2>1, <2>2, <2>3, ThreadRest
<1>4. CASE SecondCount(b)
  <2>1. PICK to \in {"join", "done"} :
          /\ tpc' = [tpc EXCEPT ![b] = to]
          /\ tpc[b] = IF to = "join" THEN "count_ok" ELSE "count_fail"
    BY <1>4 DEF SecondCount
  <2>2. /\ latch' = [latch EXCEPT ![b] = latch[b] - 1] /\ rounds' = rounds
        /\ UNCHANGED notThread
    BY <1>4 DEF SecondCount, CountDown
  <2>3. /\ latch' \in [Builders -> Int] /\ latch'[b] = 0 /\ latch[b] = 1
        /\ \A a \in Builders \ {b} : latch'[a] = latch[a]
    <3>1. tpc[b] \in {"count_ok", "count_fail"}
      BY <2>1
    <3>2. latch[b] = 1
      BY <1>p, <3>1
    <3> QED
      BY <1>0, <2>2, <3>2
  <2>4. (waits[b] /\ to = "join" => state[b] = "Running") /\ (to = "done" => heap[b] = "freed")
    BY <1>p, <2>1
  <2> QED
    BY <1>0, <2>1, <2>2, <2>3, <2>4, ThreadRest
<1>5. CASE Join(b) \/ Joined(b)
  <2>1. PICK to \in {"joining", "del"} : tpc' = [tpc EXCEPT ![b] = to]
    BY <1>5 DEF Join, Joined
  <2>2. /\ tpc[b] \in {"join", "joining"} /\ latch' = latch /\ rounds' = rounds
        /\ UNCHANGED notThread
    BY <1>5 DEF Join, Joined
  <2>3. latch[b] = 0 /\ (waits[b] => state[b] = "Running")
    BY <1>p, <2>2
  <2> QED
    BY <1>0, <2>1, <2>2, <2>3, ThreadRest
<1> QED
  BY <1>1, <1>2, <1>3, <1>4, <1>5

(* A VmThread that starts its machine, or sets a promise nobody waits for. *)
LEMMA ThreadStartRInv ==
  ASSUME IInv, RInv, NEW b \in Builders, ThreadStart(b) \/ SetReady(b)
  PROVE  RInv'
<1> USE DEF builderVars, procVars, registryVars, listenerVars, mainVars, ghostVars, Goto
<1>k. /\ tpc \in [Builders -> ThreadPoint] /\ latch \in [Builders -> Int]
      /\ state \in [Builders -> {"Empty", "Created", "Booting", "Running"}]
  BY DEF IInv, Typed, RInv, Typed2
<1>1. CASE ThreadStart(b)
  <2>1. Typed2'
    <3>1. mon' = [mon EXCEPT ![b] = TRUE]
      BY <1>1 DEF ThreadStart
    <3>2. mon' \in [Builders -> BOOLEAN]
      BY <3>1 DEF RInv, Typed2
    <3> QED
      BY <1>1, <3>2 DEF ThreadStart, RInv, Typed2
  <2>2. Progress'
    BY <1>1, <1>k DEF ThreadStart, RInv, Progress, CountsLater
  <2>3. Pointing'
    BY <1>1 DEF ThreadStart, RInv, Pointing
  <2>4. Awaited'
    BY <1>1, <1>k DEF ThreadStart, RInv, Awaited
  <2> QED
    BY <2>1, <2>2, <2>3, <2>4 DEF RInv
<1>2. CASE SetReady(b)
  <2>1. Typed2'
    <3>1. ready' = [ready EXCEPT ![b] = TRUE]
      BY <1>2 DEF SetReady
    <3>2. ready' \in [Builders -> BOOLEAN]
      BY <3>1 DEF RInv, Typed2
    <3> QED
      BY <1>2, <3>2 DEF SetReady, RInv, Typed2
  <2>2. Progress'
    BY <1>2, <1>k DEF SetReady, RInv, Progress, CountsLater
  <2>3. Pointing'
    BY <1>2 DEF SetReady, RInv, Pointing
  <2>4. Awaited'
    BY <1>2, <1>k DEF SetReady, RInv, Awaited, Typed2
  <2> QED
    BY <2>1, <2>2, <2>3, <2>4 DEF RInv
<1> QED
  BY <1>1, <1>2

(* AddPendingVM: the entry it may replace is not one that a thread still   *)
(* waits for, because no two machines share an identifier that no stop     *)
(* request released.                                                       *)
LEMMA AddPendingRInv ==
  ASSUME IInv, RInv, NEW b \in Builders, AddPendingVM(b)
  PROVE  RInv'
<1> USE DEF builderVars, readyVars, procVars, registryVars, mainVars, ghostVars, Goto
<1>k. /\ tpc \in [Builders -> ThreadPoint] /\ tpc[b] = "add_pending"
      /\ pending \in [AllFree -> Pointers]
  BY DEF IInv, Typed, RInv, Typed2, AddPendingVM
<1>n. made \in Nat /\ MaxWait \in Nat \ {0}
  BY MaxNat, WaitNat DEF IInv, Typed
<1>b. b <= made /\ b \in Pointers
  BY MaxNat, <1>k, <1>n DEF IInv, Unmade, Builders, Pointers
<1>c. \A a \in Builders : tpc[a] \in Owning => Live(a) /\ cid[a] \in GuestCids
  BY DEF IInv, Registry, Cids, Live
<1>d. GuestCids \subseteq AllFree
  BY CidAssumption DEF GuestCids, AllFree
<1>1. Typed2'
  BY <1>b DEF AddPendingVM, RInv, Typed2
<1>2. Progress'
  BY <1>k, <1>n DEF AddPendingVM, RInv, Progress, CountsLater
<1>3. Pointing'
  BY <1>b, <1>k, <1>n DEF AddPendingVM, RInv, Pointing
<1>4. Awaited'
  <2> SUFFICES ASSUME NEW a \in Builders, tpc'[a] \in {"wait_check", "wait_latch"},
                      cid[a] \notin stopped
               PROVE  \/ pending'[cid[a]] = a /\ lpc' = "idle"
                      \/ pending'[cid[a]] = Null /\ ready[a] /\ state[a] = "Running"
    BY DEF AddPendingVM, Awaited
  <2>1. CASE a = b
    BY <1>c, <1>d, <1>k, <2>1 DEF AddPendingVM, Owning
  <2>2. CASE a # b
    <3>1. tpc[a] \in {"wait_check", "wait_latch"}
      BY <1>k, <2>2 DEF AddPendingVM
    <3>2. Live(a) /\ Live(b) /\ cid[a] \in AllFree
      BY <1>c, <1>d, <1>k, <3>1 DEF Owning
    <3>3. cid[b] # cid[a]
      BY <2>2, <3>2 DEF IInv, Cids, SoleOwner
    <3>4. pending'[cid[a]] = pending[cid[a]]
      BY <1>k, <3>2, <3>3 DEF AddPendingVM
    <3> QED
      BY <3>1, <3>4 DEF AddPendingVM, RInv, Awaited
  <2> QED
    BY <2>1, <2>2
<1> QED
  BY <1>1, <1>2, <1>3, <1>4 DEF RInv

(* The erase and the destructor. *)
LEMMA EraseRInv ==
  ASSUME IInv, RInv, NEW b \in Builders,
         EraseBegin(b) \/ DestroyLock(b) \/ DestroyRelease(b)
  PROVE  RInv'
<1> USE DEF builderVars, readyVars, registryVars, listenerVars, mainVars, ghostVars
<1>k. /\ tpc \in [Builders -> ThreadPoint]
      /\ heap \in [Builders -> {"fresh", "alive", "dying", "freed"}]
  BY DEF IInv, Typed
<1>1. CASE EraseBegin(b)
  <2>1. LET i == FindVmInstance(name[b]) IN i \in 1..Len(vmis) /\ vmis[i] = b
    BY <1>1, FindsOwn
  <2>2. /\ heap' = [heap EXCEPT ![b] = "dying"] /\ heap[b] = "alive"
        /\ \/ tpc[b] = "del" /\ tpc' = [tpc EXCEPT ![b] = "erase"]
           \/ tpc[b] = "del_fail" /\ tpc' = [tpc EXCEPT ![b] = "erase_fail"]
        /\ UNCHANGED <<readyVars, procVars, listenerVars, mainVars, made, cid, waits,
                       stopping, said, rounds, latch, ghostVars>>
    BY <1>1, <2>1 DEF EraseBegin, IInv, Registry, Owning
  <2>3. Typed2'
    BY <2>2 DEF RInv, Typed2, procVars
  <2>4. Progress'
    BY <1>k, <2>2 DEF RInv, Progress, CountsLater
  <2>5. Pointing' /\ Awaited'
    BY <1>k, <2>2 DEF RInv, Pointing, Awaited
  <2> QED
    BY <2>3, <2>4, <2>5 DEF RInv
<1>2. CASE DestroyLock(b)
  <2>1. victim \in Builders
    BY <1>2 DEF DestroyLock, IInv, Registry
  <2>2. Typed2'
    BY <1>2, <2>1, StopProcTyped DEF DestroyLock, RInv, Typed2
  <2>3. Progress'
    BY <1>k, <1>2 DEF DestroyLock, RInv, Progress, CountsLater
  <2>4. Pointing' /\ Awaited'
    BY <1>k, <1>2 DEF DestroyLock, RInv, Pointing, Awaited
  <2> QED
    BY <2>2, <2>3, <2>4 DEF RInv
<1>3. CASE DestroyRelease(b)
  <2>1. victim = b
    BY <1>3 DEF DestroyRelease, IInv, Registry
  <2>2. Typed2'
    BY <1>3, <2>1, StopProcTyped DEF DestroyRelease, RInv, Typed2
  <2>3. Progress'
    BY <1>k, <1>3, <2>1 DEF DestroyRelease, RInv, Progress, CountsLater
  <2>4. Pointing' /\ Awaited'
    BY <1>k, <1>3 DEF DestroyRelease, RInv, Pointing, Awaited
  <2> QED
    BY <2>2, <2>3, <2>4 DEF RInv
<1> QED
  BY <1>1, <1>2, <1>3

(* The process of a machine, which none of the facts speaks of. *)
LEMMA ProcRInv ==
  ASSUME IInv, RInv, NEW b \in Builders, StoreChild(b) \/ Exit(b)
  PROVE  RInv'
<1> USE DEF notProc, objectVars, builderVars, readyVars, registryVars, listenerVars,
        mainVars, threadVars, ghostVars
<1>1. /\ child' = child \/ child' = [child EXCEPT ![b] = TRUE]
      /\ proc' = proc \/ proc' = [proc EXCEPT ![b] = "exited"]
      /\ mon' = mon /\ UNCHANGED notProc
  BY DEF StoreChild, Exit
<1>2. child' \in [Builders -> BOOLEAN]
  BY <1>1 DEF RInv, Typed2
<1>3. Typed2'
  BY <1>1, <1>2 DEF RInv, Typed2
<1>4. Progress' /\ Pointing' /\ Awaited'
  BY <1>1 DEF RInv, Progress, Pointing, Awaited
<1> QED
  BY <1>3, <1>4 DEF RInv

(* VmReady takes the builder of the entry, and keeps vm_lock_. *)
LEMMA VmReadyRInv ==
  ASSUME IInv, RInv, NEW b \in Builders, VmReady(b)
  PROVE  RInv'
<1> USE DEF builderVars, readyVars, procVars, registryVars, listenerVars, mainVars,
        threadVars, ghostVars
<1>0. cid[b] \in AllFree
  BY CidAssumption DEF IInv, Typed, GuestCids, AllFree
<1>1. said' \in [Builders -> BOOLEAN]
  <2>1. said' = [said EXCEPT ![b] = TRUE]
    BY DEF VmReady
  <2> QED
    BY <2>1 DEF RInv, Typed2
<1>2. Typed2'
  BY <1>0, <1>1 DEF VmReady, RInv, Typed2
<1>3. Progress'
  BY DEF VmReady, RInv, Progress
<1>4. Pointing'
  <2>1. pending[cid[b]] # Null => pending[cid[b]] \in 1..made
    <3>1. pending[cid[b]] \in Pointers /\ pending[cid[b]] <= made /\ made \in Nat
      BY <1>0, MaxNat DEF RInv, Typed2, Pointing, IInv, Typed
    <3> QED
      BY <3>1, MaxNat DEF Pointers, Builders
  <2> QED
    BY <2>1 DEF VmReady, RInv, Pointing
<1>5. Awaited'
  BY DEF VmReady, RInv, Awaited, Null
<1> QED
  BY <1>2, <1>3, <1>4, <1>5 DEF RInv

(* The callback: a machine that a thread waits for is not freed, so it is  *)
(* the one that the callback writes.                                       *)
LEMMA CallbackRInv ==
  ASSUME IInv, RInv, CallbackCount
  PROVE  RInv'
<1> USE DEF builderVars, procVars, registryVars, mainVars, threadVars, ghostVars
<1>1. PICK w \in Written :
        /\ target' = w
        /\ ready' = IF w = Null THEN ready ELSE [ready EXCEPT ![w] = TRUE]
        /\ lpc' = IF w = Null THEN "erase" ELSE "state"
  BY DEF CallbackCount
<1>n. made \in Nat /\ Builders \subseteq Nat /\ target \in 1..made /\ Null \notin Builders
  BY MaxNat DEF IInv, Typed, RInv, Pointing, CallbackCount, Builders, Null
<1>2. /\ w = Null \/ (w \in Builders /\ w \in 1..made)
      /\ heap[target] # "freed" => w = target
  <2>1. target \in Builders
    BY <1>n, MaxNat DEF IInv, Typed, Builders
  <2>2. \A a \in Builders : heap[a] = "alive" => a \in 1..made
    BY <1>n DEF IInv, Unmade, Builders
  <2> QED
    BY <1>1, <1>n, <2>1, <2>2 DEF Written
<1>3. ready' \in [Builders -> BOOLEAN]
  BY <1>1 DEF RInv, Typed2
<1>4. Typed2'
  BY <1>1, <1>2, <1>3 DEF CallbackCount, RInv, Typed2, Pointers
<1>5. Progress'
  BY DEF CallbackCount, RInv, Progress
<1>6. Pointing'
  BY <1>1, <1>2 DEF CallbackCount, RInv, Pointing
<1>7. Awaited'
  <2> SUFFICES ASSUME NEW a \in Builders, tpc[a] \in {"wait_check", "wait_latch"},
                      cid[a] \notin stopped
               PROVE  \/ /\ pending[cid[a]] = a
                         /\ lcid = cid[a] => lpc' = "state" /\ target' = a /\ ready'[a]
                      \/ pending[cid[a]] = Null /\ ready'[a] /\ state[a] = "Running"
    BY DEF CallbackCount, Awaited
  <2>1. ready[a] => ready'[a]
    BY <1>1 DEF RInv, Typed2
  <2>2. heap[a] # "freed"
    BY DEF IInv, Registry, Owning
  <2>3. CASE pending[cid[a]] = a /\ lcid = cid[a]
    <3>1. \/ target = a
          \/ pending[cid[a]] = Null
      BY <2>3 DEF CallbackCount, RInv, Awaited
    <3>2. w = a
      BY <1>2, <1>n, <2>2, <2>3, <3>1
    <3> QED
      BY <1>1, <1>n, <2>3, <3>2 DEF RInv, Typed2
  <2> QED
    BY <2>1, <2>3 DEF RInv, Awaited
<1> QED
  BY <1>4, <1>5, <1>6, <1>7 DEF RInv

(* The rest of VmReady: the state, and the erased entry. *)
LEMMA ReadyEndRInv ==
  ASSUME IInv, RInv, CallbackState \/ ErasePending
  PROVE  RInv'
<1> USE DEF builderVars, readyVars, procVars, registryVars, mainVars, threadVars, ghostVars
<1>0. 0 \in AllFree /\ Null \in Pointers /\ made \in Nat /\ GuestCids \subseteq AllFree
  BY MaxNat, CidAssumption DEF AllFree, GuestCids, Pointers, IInv, Typed
<1>1. CASE CallbackState
  <2>1. Typed2'
    BY <1>1 DEF CallbackState, RInv, Typed2
  <2>2. Progress'
    BY <1>1 DEF CallbackState, RInv, Progress, Typed2
  <2>3. Pointing'
    BY <1>1 DEF CallbackState, RInv, Pointing
  <2>4. Awaited'
    BY <1>1 DEF CallbackState, RInv, Awaited, Typed2
  <2> QED
    BY <2>1, <2>2, <2>3, <2>4 DEF RInv
<1>2. CASE ErasePending
  <2>1. Typed2'
    BY <1>0, <1>2 DEF ErasePending, RInv, Typed2
  <2>2. Progress'
    BY <1>2 DEF ErasePending, RInv, Progress
  <2>3. Pointing'
    BY <1>0, <1>2 DEF ErasePending, RInv, Pointing, Typed2, Null
  <2>4. Awaited'
    <3>1. \A a \in Builders : tpc[a] \in {"wait_check", "wait_latch"} => cid[a] \in AllFree
      BY <1>0 DEF IInv, Registry, Cids, Owning, Live
    <3> QED
      BY <1>2, <3>1 DEF ErasePending, RInv, Awaited, Typed2
  <2> QED
    BY <2>1, <2>2, <2>3, <2>4 DEF RInv
<1> QED
  BY <1>1, <1>2

(* Nothing has been done at first. *)
LEMMA InitRInv == Init => RInv
<1> SUFFICES ASSUME Init PROVE RInv
  OBVIOUS
<1>0. /\ 0 \in AllFree /\ Null \in Pointers /\ MaxWait \in Nat \ {0}
      /\ \A b \in Builders : b > 0 /\ ~(b <= 0)
      /\ Null <= 0
  BY MaxNat, CidAssumption, WaitNat DEF AllFree, Pointers, Builders, Null
<1>1. Typed2
  <2>1. /\ waits \in [Builders -> BOOLEAN] /\ ready \in [Builders -> BOOLEAN]
        /\ child \in [Builders -> BOOLEAN] /\ mon \in [Builders -> BOOLEAN]
        /\ said \in [Builders -> BOOLEAN]
    BY DEF Init
  <2>2. /\ state \in [Builders -> {"Empty", "Created", "Booting", "Running"}]
        /\ proc \in [Builders -> {"none", "running", "exited"}]
        /\ pending \in [AllFree -> Pointers]
        /\ rounds \in [Builders -> 0..MaxWait]
        /\ verdict \in [Builders -> {"none", "ok", "failed"}]
    BY <1>0 DEF Init
  <2>3. mcfg \in [str_cid : {<<>>} \cup StrCids, wait_ready : BOOLEAN]
    BY DEF Init, NoConfig
  <2> QED
    BY <1>0, <2>1, <2>2, <2>3 DEF Init, Typed2
<1>2. Progress
  BY <1>0 DEF Init, Progress, CountsLater
<1>3. Pointing /\ Awaited
  BY <1>0 DEF Init, Pointing, Awaited
<1> QED
  BY <1>1, <1>2, <1>3 DEF RInv

(* The two invariants hold together in every reachable state. *)
THEOREM ThreadsInvariant == Spec => []RInv
<1>1. ASSUME IInv, RInv, [Next]_vars PROVE RInv'
  <2>1. CASE UNCHANGED vars
    <3> USE DEF vars, builderVars, readyVars, procVars, registryVars, listenerVars,
            mainVars, threadVars, ghostVars
    <3>1. Typed2'
      BY <1>1, <2>1 DEF RInv, Typed2
    <3>2. Progress'
      BY <1>1, <2>1 DEF RInv, Progress
    <3>3. Pointing' /\ Awaited'
      BY <1>1, <2>1 DEF RInv, Pointing, Awaited
    <3> QED
      BY <3>1, <3>2, <3>3 DEF RInv
  <2>2. CASE MainStep
    BY <1>1, <2>2, MainRInv, StopRInv, ReplyRInv, BuildRInv
  <2>3. ASSUME NEW b \in Builders, ThreadStep(b) PROVE RInv'
    <3>1. CASE StartThrows(b)
      BY <1>1, <3>1, MainRest DEF StartThrows, Fault, mainLocals, RInv, Typed2
    <3> QED
      BY <1>1, <2>3, <3>1, ThreadStartRInv, CountRInv, AddPendingRInv, EraseRInv
         DEF ThreadStep
  <2>4. ASSUME NEW b \in Builders, StoreChild(b) \/ Exit(b) \/ VmReady(b) PROVE RInv'
    BY <1>1, <2>4, ProcRInv, VmReadyRInv
  <2>5. CASE ListenerStep
    BY <1>1, <2>5, CallbackRInv, ReadyEndRInv DEF ListenerStep
  <2> QED
    BY <1>1, <2>1, <2>2, <2>3, <2>4, <2>5 DEF Next
<1> QED
  BY <1>1, InitRInv, LifecycleInvariant, PTL DEF Spec

(* Every variable keeps its type; no thread makes more than MaxWait rounds *)
(* of WaitVmReady or counts the latch of StartVm below zero.               *)
THEOREM LifecycleTypes == Spec => []TypeOK
<1>1. IInv /\ RInv => TypeOK
  <2> SUFFICES ASSUME IInv, RInv PROVE TypeOK
    OBVIOUS
  <2>1. latch \in [Builders -> 0..2]
    <3>1. \A b \in Builders : latch[b] \in 0..2
      BY DEF RInv, Progress
    <3> QED
      BY <3>1 DEF IInv, Typed
  <2> QED
    BY <2>1 DEF IInv, Typed, Registry, RInv, Typed2, TypeOK
<1> QED
  BY <1>1, LifecycleInvariant, ThreadsInvariant, PTL

(* A start with wait_ready that is reported as failed leaves nothing       *)
(* behind: the machine is destroyed and out of vmis_ before the client is  *)
(* told (Server::VmThread, DeleteVmInstance).                              *)
THEOREM FailedWaitsCleanUp == Spec => []WaitFailureCleansUp
<1>1. IInv /\ RInv => WaitFailureCleansUp
  <2> SUFFICES ASSUME IInv, RInv, NEW b \in Builders, waits[b], verdict[b] = "failed"
               PROVE  heap[b] = "freed" /\ b \notin ToSet(vmis)
    BY DEF WaitFailureCleansUp
  <2>1. heap[b] = "freed"
    BY DEF RInv, Progress
  <2>2. DOMAIN vmis = 1..Len(vmis) /\ b # Null
    BY MaxNat DEF IInv, Typed, Builders, Null
  <2> QED
    BY <2>1, <2>2 DEF IInv, Registry, ToSet
<1> QED
  BY <1>1, LifecycleInvariant, ThreadsInvariant, PTL

(* While a thread waits for its guest, the listener has the entry of this  *)
(* very machine or has made it ready, unless a stop request released its   *)
(* identifier (AddPendingVM, StartupListenerImpl::VmReady).                *)
THEOREM ReadyStaysFound == Spec => []ReadyNotLost
<1>1. RInv => ReadyNotLost
  BY DEF RInv, Awaited, ReadyNotLost
<1> QED
  BY <1>1, ThreadsInvariant, PTL
=============================================================================
