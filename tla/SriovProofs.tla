---------------------------- MODULE SriovProofs ----------------------------
(***************************************************************************)
(* Proofs about Sriov, for any number of machines, sizes, pages and VFs: a *)
(* machine that is built and started without another build in between      *)
(* finds its huge pages and its virtual function, and the pool of pages    *)
(* stays bounded.                                                          *)
(***************************************************************************)
EXTENDS Sriov, TotalsTheorems, WellFoundedInduction

Points == {"idle", "memory", "grow", "poll", "modules", "create", "newid", "search"}

Typed ==
  /\ capable \in BOOLEAN /\ known \in BOOLEAN /\ id \in BOOLEAN
  /\ nr \in Int /\ free \in Int /\ numvfs \in 0..TotalVfs
  /\ driver \in [Vfs -> {"vfio", "i915", "none"}]
  /\ pc \in Points /\ (pc # "idle" => vm \in Vms)
  /\ free_hp \in Int /\ required_hp \in Int /\ wait_cnt \in Int
  /\ totalvfs \in Int /\ i \in Int
  /\ st \in [Vms -> {"off", "built", "run"}]
  /\ mem_mb \in [Vms -> Nat] /\ vf \in [Vms -> Int]
  /\ alone \in [Vms -> BOOLEAN]

(* Machine m is being built, or its qemu has not opened its resources yet. *)
Window(m) == (pc # "idle" /\ vm = m) \/ st[m] = "built"

(* The main thread builds machines that are off, and the window of a       *)
(* machine that is alone overlaps no other.                                *)
Windows ==
  /\ pc # "idle" => st[vm] = "off"
  /\ \A m \in Vms : Window(m) /\ alone[m] => \A o \in Vms \ {m} : ~Window(o)

(* What SetupHugePages may count on at each point when nobody else waits   *)
(* for pages: they can only become more.                                   *)
PagesKept ==
  pc # "idle" /\ alone[vm] =>
    /\ pc = "grow" => free >= free_hp
    /\ pc = "poll" => free - Pages(vm) >= nr - required_hp
    /\ pc \in {"modules", "create", "newid", "search"} => free >= Pages(vm)

(* What SetAvailableVf has established at each point.                      *)
VfsReady ==
  /\ pc \in {"create", "newid", "search"} /\ capable => totalvfs = TotalVfs
  /\ pc \in {"newid", "search"} /\ capable => numvfs > 0
  /\ pc = "search" => i >= 1 /\ id
  /\ capable /\ ~known /\ id =>
       numvfs > 0 /\ \A v \in 1..numvfs : driver[v] # "none"

(* The size that SetupHugePages reads is a number of megabytes.            *)
LEMMA MemMbType == \A size \in Sizes : MemMb(size) \in Nat
<1> SUFFICES ASSUME NEW size \in Sizes PROVE MemMb(size) \in Nat
  OBVIOUS
<1>1. size.num \in Int /\ size.unit \in {"digit", "M", "G", "other"}
  BY SriovAssumption
<1>2. GbMb \in Nat /\ IntMax \in Nat
  BY SriovAssumption
<1>3. \A x \in Int : x > 0 => x * GbMb \in Nat
  BY <1>2
<1> QED BY <1>1, <1>2, <1>3 DEF MemMb

(* Half of a natural number is one.                                        *)
LEMMA HalfType == \A x \in Nat : x \div 2 \in Nat
  OBVIOUS

(* Every step of Sriov keeps the types.                                    *)
LEMMA TypedStep == Typed /\ [Next]_vars => Typed'
<1> SUFFICES ASSUME Typed, [Next]_vars PROVE Typed'
  OBVIOUS
<1> USE DEF Typed, Points, Vfs, hostVars, fixedVars, hugeVars, vfVars, vmVars
<1>c. {HostPages, TotalVfs, MaxWait} \subseteq Nat /\ Garbage \subseteq Int /\ TotalVfs > 0
  BY SriovAssumption
<1>1. CASE BadSize \/ LoadKernelModuleFails \/ SearchFails
  BY <1>1 DEF BadSize, LoadKernelModuleFails, SearchFails, Refuse
<1>2. ASSUME NEW m \in Vms, NEW size \in Sizes, BuildBegin(m, size) PROVE Typed'
  <2>1. alone' \in [Vms -> BOOLEAN]
    BY <1>2, Zenon DEF BuildBegin
  <2>2. mem_mb' \in [Vms -> Nat] /\ vf' \in [Vms -> Int]
    BY <1>2, MemMbType DEF BuildBegin
  <2>3. pc' = "memory" /\ vm' = m
        /\ UNCHANGED <<capable, known, nr, free, numvfs, driver, id, free_hp,
                       required_hp, wait_cnt, totalvfs, i, st>>
    BY <1>2 DEF BuildBegin
  <2> QED BY <2>1, <2>2, <2>3
<1>3. CASE ReadFree
  BY <1>3 DEF ReadFree
<1>4. CASE GrowPool
  <2>1. vm \in Vms /\ Pages(vm) \in Int
    BY <1>4, HalfType DEF GrowPool, GrowPoolTo, Pages
  <2> QED BY <1>4, <2>1, <1>c DEF GrowPool, GrowPoolTo
<1>5. CASE Poll
  BY <1>5, <1>c DEF Poll, PollWith
<1>6. CASE ReadTotal
  <2>1. PICK t \in ReadSysFile(capable, TotalVfs) :
          /\ totalvfs' = t
          /\ pc' = IF t <= 0 THEN "idle" ELSE "create"
          /\ vm' = IF t <= 0 THEN NoVm ELSE vm
    BY <1>6 DEF ReadTotal
  <2>2. t \in Int
    <3>1. TotalVfs \in Int
      BY <1>c
    <3> QED BY <3>1, <1>c, Zenon DEF ReadSysFile
  <2>3. vm \in Vms /\ UNCHANGED <<hostVars, hugeVars, i, vmVars>>
    BY <1>6 DEF ReadTotal
  <2> QED BY <2>1, <2>2, <2>3
<1>7. CASE CreateVfs
  BY <1>7, <1>c DEF CreateVfs, CreateVfsAs
<1>8. CASE NewId
  BY <1>8 DEF NewId
<1>9. CASE Search
  BY <1>9 DEF Search, SearchTaking
<1>10. ASSUME NEW m \in Vms, Abandon(m) \/ OpenFails(m) PROVE Typed'
  BY <1>10 DEF Abandon, OpenFails
<1>11. ASSUME NEW m \in Vms, Open(m) \/ Exit(m) PROVE Typed'
  <2>1. Pages(m) \in Int
    BY HalfType DEF Pages
  <2>2. CASE Open(m)
    BY <2>1, <2>2 DEF Open
  <2>3. CASE Exit(m)
    BY <2>1, <2>3 DEF Exit
  <2> QED BY <1>11, <2>2, <2>3
<1>12. CASE UNCHANGED vars
  BY <1>12 DEF vars
<1> HIDE DEF Typed
<1> QED BY <1>1, <1>2, <1>3, <1>4, <1>5, <1>6, <1>7, <1>8, <1>9, <1>10, <1>11, <1>12
       DEF Next, SetupSriov

(* Steps other than the first of a build open no window.                   *)
LEMMA WindowsStep == Typed /\ Windows /\ [Next]_vars => Windows'
<1> SUFFICES ASSUME Typed, Windows, [Next]_vars PROVE Windows'
  OBVIOUS
<1> USE DEF Windows, Window
<1>t. pc \in Points /\ (pc # "idle" => vm \in Vms)
      /\ st \in [Vms -> {"off", "built", "run"}]
  BY DEF Typed
<1>1. CASE BadSize \/ LoadKernelModuleFails \/ SearchFails
  BY <1>1 DEF BadSize, LoadKernelModuleFails, SearchFails, Refuse, vmVars
<1>2. ASSUME NEW m \in Vms, NEW size \in Sizes, BuildBegin(m, size) PROVE Windows'
  <2>1. pc = "idle" /\ st[m] = "off" /\ vm' = m /\ st' = st
    BY <1>2 DEF BuildBegin
  <2>2. alone' = [o \in Vms |-> IF o = m THEN \A b \in Vms : st[b] # "built"
                                        ELSE alone[o] /\ st[o] # "built"]
    BY <1>2 DEF BuildBegin
  <2>3. \A o \in Vms : alone'[o] /\ o = m => \A b \in Vms : st[b] # "built"
    BY <2>2, Zenon
  <2>4. \A o \in Vms : alone'[o] /\ o # m => st[o] # "built"
    BY <2>2, Zenon
  <2> QED BY <2>1, <2>3, <2>4, Zenon
<1>3. CASE ReadFree \/ GrowPool \/ ReadTotal \/ CreateVfs \/ NewId \/ Poll
  <2>1. pc # "idle" /\ UNCHANGED <<st, alone>> /\ (pc' # "idle" => vm' = vm)
    BY <1>3 DEF ReadFree, GrowPool, GrowPoolTo, ReadTotal, CreateVfs, CreateVfsAs,
                NewId, Poll, PollWith, vmVars
  <2> QED BY <2>1, Zenon
<1>4. CASE Search
  <2>1. CASE UNCHANGED <<st, vf, pc, vm>>
    BY <1>4, <2>1 DEF Search, SearchTaking
  <2>2. CASE st' = [st EXCEPT ![vm] = "built"] /\ pc' = "idle"
    <3>1. pc # "idle" /\ alone' = alone /\ vm \in Vms
      BY <1>4, <1>t DEF Search, SearchTaking
    <3>2. \A o \in Vms : st'[o] = IF o = vm THEN "built" ELSE st[o]
      BY <2>2, <1>t
    <3>3. \A o \in Vms : st'[o] = "built" => o = vm \/ st[o] = "built"
      BY <3>2
    <3> QED BY <2>2, <3>1, <3>3, Zenon
  <2> QED BY <1>4, <2>1, <2>2 DEF Search, SearchTaking
<1>5. ASSUME NEW m \in Vms, Abandon(m) \/ OpenFails(m) \/ Open(m) \/ Exit(m)
      PROVE  Windows'
  <2>1. st[m] # "off" /\ UNCHANGED <<pc, vm, alone>>
    BY <1>5 DEF Abandon, OpenFails, Open, Exit
  <2>2. \A o \in Vms : (st'[o] = "built" => st[o] = "built") /\ (st[o] = "off" => st'[o] = "off")
    BY <1>5, <1>t DEF Abandon, OpenFails, Open, Exit
  <2> QED BY <2>1, <2>2, <1>t, Zenon
<1>6. CASE UNCHANGED vars
  BY <1>6 DEF vars, vmVars
<1> HIDE DEF Windows
<1> QED BY <1>1, <1>2, <1>3, <1>4, <1>5, <1>6 DEF Next, SetupSriov

(* The pages a machine counts on are not taken by others while it is alone.*)
LEMMA PagesStep ==
  Typed /\ Windows /\ PagesKept /\ SoloPages /\ [Next]_vars => PagesKept' /\ SoloPages'
<1> SUFFICES ASSUME Typed, Windows, PagesKept, SoloPages, [Next]_vars
             PROVE  PagesKept' /\ SoloPages'
  OBVIOUS
<1>t. /\ nr \in Int /\ free \in Int /\ free_hp \in Int /\ required_hp \in Int
      /\ pc \in Points /\ (pc # "idle" => vm \in Vms)
      /\ st \in [Vms -> {"off", "built", "run"}]
  BY DEF Typed
<1>p. \A m \in Vms : Pages(m) \in Nat
  BY HalfType DEF Typed, Pages
<1>1. CASE BadSize \/ LoadKernelModuleFails \/ SearchFails
  BY <1>1 DEF BadSize, LoadKernelModuleFails, SearchFails, Refuse, vmVars, hostVars,
              PagesKept, SoloPages, Pages
<1>2. ASSUME NEW m \in Vms, NEW size \in Sizes, BuildBegin(m, size)
      PROVE  PagesKept' /\ SoloPages'
  <2>1. PagesKept'
    BY <1>2 DEF BuildBegin, PagesKept
  <2>2. pc = "idle" /\ st[m] = "off" /\ UNCHANGED <<free, st>>
    BY <1>2 DEF BuildBegin, hostVars
  <2>3. \A o \in Vms : alone'[o] /\ st'[o] = "built" => alone[o] /\ o # m
    BY <1>2, <2>2, Zenon DEF BuildBegin
  <2>4. \A o \in Vms : o # m => Pages(o)' = Pages(o)
    BY <1>2 DEF BuildBegin, Pages, Typed
  <2> QED BY <2>1, <2>2, <2>3, <2>4 DEF SoloPages
<1>3. ASSUME UNCHANGED <<st, mem_mb, alone>>, vm' = vm \/ pc' = "idle",
             free' >= free, free' \in Int
      PROVE  SoloPages'
  BY <1>3, <1>t, <1>p DEF SoloPages, Pages
<1>4. CASE ReadFree
  <2>1. PagesKept'
    BY <1>4, <1>t DEF ReadFree, PagesKept, Pages, hostVars, vmVars
  <2> QED BY <1>3, <1>4, <1>t, <2>1 DEF ReadFree, hostVars, vmVars
<1>5. CASE GrowPool
  <2>1. pc = "grow" /\ pc' = "poll" /\ required_hp' = nr - free_hp + Pages(vm)
        /\ UNCHANGED <<st, mem_mb, alone, vm, free_hp>> /\ Pages(vm)' = Pages(vm)
    BY <1>5 DEF GrowPool, GrowPoolTo, vmVars, Pages
  <2>2. PICK n \in nr..HostPages : nr' = n /\ free' = free + (n - nr)
    BY <1>5 DEF GrowPool, GrowPoolTo
  <2>3. n \in Int /\ n >= nr
    BY <2>2, <1>t, SriovAssumption
  <2>4. alone[vm] => free >= free_hp
    BY <2>1 DEF PagesKept
  <2>5. alone[vm] => free' - Pages(vm) >= nr' - required_hp'
    <3> HAVE alone[vm]
    <3>1. Pages(vm) \in Int
      BY <2>1, <1>t, <1>p
    <3> QED BY <2>1, <2>2, <2>3, <2>4, <3>1, <1>t
  <2> QED BY <1>3, <2>1, <2>2, <2>3, <2>5, <1>t DEF PagesKept
<1>6. CASE Poll
  <2>1. pc = "poll" /\ UNCHANGED <<st, mem_mb, alone, free, nr, required_hp>>
    BY <1>6 DEF Poll, PollWith, vmVars, hostVars
  <2>2. \/ pc' = "idle"
        \/ vm' = vm /\ (pc' = "poll" \/ (pc' = "modules" /\ nr = required_hp))
    BY <1>6 DEF Poll, PollWith
  <2>3. vm' = vm \/ pc' = "idle"
    BY <2>2
  <2>4. vm' = vm => Pages(vm)' = Pages(vm)
    BY <2>1 DEF Pages
  <2>5. alone[vm] => free - Pages(vm) >= nr - required_hp
    BY <2>1 DEF PagesKept
  <2>6. Pages(vm) \in Int
    BY <2>1, <1>t, <1>p
  <2>7. PagesKept'
    BY <2>1, <2>2, <2>4, <2>5, <2>6, <1>t DEF PagesKept
  <2> QED BY <1>3, <2>1, <2>3, <2>7, <1>t
<1>7. CASE ReadTotal \/ CreateVfs \/ NewId
  <2>1. /\ pc \in {"modules", "create", "newid", "search"}
        /\ UNCHANGED <<st, mem_mb, alone, free>>
        /\ \/ vm' = vm /\ pc' \in {"create", "newid", "search"}
           \/ pc' = "idle"
    BY <1>7 DEF ReadTotal, CreateVfs, CreateVfsAs, NewId, vmVars, hostVars
  <2>2. PagesKept'
    BY <2>1 DEF PagesKept, Pages
  <2> QED BY <1>3, <2>1, <2>2, <1>t
<1>8. CASE Search
  <2>1. pc = "search" /\ vm \in Vms /\ UNCHANGED <<mem_mb, alone, free>>
    BY <1>8, <1>t DEF Search, SearchTaking, hostVars
  <2>2. \A o \in Vms : Pages(o)' = Pages(o)
    BY <2>1 DEF Pages
  <2>3. alone[vm] => free >= Pages(vm)
    BY <2>1 DEF PagesKept
  <2>4. CASE st' = [st EXCEPT ![vm] = "built"] /\ pc' = "idle"
    <3>1. \A o \in Vms : st'[o] = "built" => o = vm \/ st[o] = "built"
      BY <2>1, <2>4, <1>t
    <3> QED BY <2>1, <2>2, <2>3, <2>4, <3>1 DEF SoloPages, PagesKept
  <2>5. CASE UNCHANGED <<st, vf, pc, vm>>
    BY <2>1, <2>2, <2>3, <2>5 DEF SoloPages, PagesKept
  <2> QED BY <1>8, <2>4, <2>5 DEF Search, SearchTaking
<1>9. ASSUME NEW m \in Vms, Abandon(m) \/ OpenFails(m) \/ Exit(m) \/ Open(m)
      PROVE  PagesKept' /\ SoloPages'
  <2>1. UNCHANGED <<pc, vm, mem_mb, alone, free_hp, required_hp, nr>>
    BY <1>9 DEF Abandon, OpenFails, Exit, Open, hostVars, hugeVars
  <2>2. \A o \in Vms : Pages(o)' = Pages(o)
    BY <2>1 DEF Pages
  <2>3. \A o \in Vms : st'[o] = "built" => st[o] = "built" /\ o # m
    BY <1>9, <1>t DEF Abandon, OpenFails, Exit, Open
  <2>4. CASE Abandon(m) \/ OpenFails(m) \/ Exit(m)
    <3>1. free' \in Int /\ free' >= free
      BY <2>4, <1>t, <1>p DEF Abandon, OpenFails, Exit, hostVars
    <3>2. SoloPages'
      BY <2>1, <2>2, <2>3, <3>1, <1>t, <1>p DEF SoloPages
    <3>3. pc # "idle" => Pages(vm)' = Pages(vm) /\ Pages(vm) \in Int
      BY <2>1, <2>2, <1>t, <1>p
    <3>4. PagesKept'
      BY <2>1, <3>1, <3>3, <1>t DEF PagesKept
    <3> QED BY <3>2, <3>4
  <2>5. CASE Open(m)
    <3>1. st[m] = "built"
      BY <2>5 DEF Open
    <3>2. \A o \in Vms : o # m /\ Window(o) => ~alone[o]
      BY <3>1, Zenon DEF Windows, Window
    <3>3. SoloPages'
      BY <2>1, <2>3, <3>2 DEF SoloPages, Window
    <3>4. pc # "idle" => vm # m
      BY <3>1 DEF Windows
    <3>5. pc # "idle" => ~alone[vm]
      BY <3>2, <3>4, <1>t DEF Window
    <3>6. PagesKept'
      BY <2>1, <3>5 DEF PagesKept
    <3> QED BY <3>3, <3>6
  <2> QED BY <1>9, <2>4, <2>5
<1>10. CASE UNCHANGED vars
  BY <1>10 DEF vars, vmVars, hostVars, hugeVars, PagesKept, SoloPages, Pages
<1> QED BY <1>1, <1>2, <1>4, <1>5, <1>6, <1>7, <1>8, <1>9, <1>10 DEF Next, SetupSriov

(* In the initial states nothing is being built.                           *)
LEMMA InitHolds == Init => Typed /\ Windows /\ PagesKept /\ SoloPages
<1> SUFFICES ASSUME Init PROVE Typed /\ Windows /\ PagesKept /\ SoloPages
  OBVIOUS
<1> USE SriovAssumption DEF Init
<1>1. Typed
  BY DEF Typed, Points, Vfs
<1>2. Windows /\ PagesKept /\ SoloPages
  BY DEF Windows, Window, PagesKept, SoloPages
<1> QED BY <1>1, <1>2

(* A machine whose build and start overlap no other finds the huge pages   *)
(* SetupHugePages made sure of.                                            *)
THEOREM PagesFound == Spec => []SoloPages
<1> DEFINE IInv == Typed /\ Windows /\ PagesKept /\ SoloPages
<1>1. Init => IInv
  BY InitHolds
<1>2. IInv /\ [Next]_vars => IInv'
  BY TypedStep, WindowsStep, PagesStep
<1> QED BY <1>1, <1>2, PTL DEF Spec

(* Only the main thread changes the VFs, in the order of SetAvailableVf.   *)
LEMMA VfsReadyStep == Typed /\ VfsReady /\ [Next]_vars => VfsReady'
<1> SUFFICES ASSUME Typed, VfsReady, [Next]_vars PROVE VfsReady'
  OBVIOUS
<1> USE DEF VfsReady
<1>t. /\ numvfs \in 0..TotalVfs /\ TotalVfs \in Nat /\ TotalVfs > 0
      /\ driver \in [Vfs -> {"vfio", "i915", "none"}]
      /\ totalvfs \in Int /\ i \in Int
  BY SriovAssumption DEF Typed
<1>1. ASSUME UNCHANGED <<capable, known, id, numvfs, driver, totalvfs>>,
             pc' \notin {"create", "newid", "search"} \/ (pc' = pc /\ i' = i)
      PROVE  VfsReady'
  BY <1>1
<1>2. CASE BadSize \/ LoadKernelModuleFails \/ SearchFails
  BY <1>1, <1>2 DEF BadSize, LoadKernelModuleFails, SearchFails, Refuse,
                    hostVars, fixedVars, vfVars
<1>3. CASE ReadFree \/ GrowPool \/ Poll
  <2>1. UNCHANGED <<capable, known, id, numvfs, driver, totalvfs>>
    BY <1>3 DEF ReadFree, GrowPool, GrowPoolTo, Poll, PollWith, hostVars, fixedVars, vfVars
  <2>2. pc' \notin {"create", "newid", "search"}
    BY <1>3 DEF ReadFree, GrowPool, GrowPoolTo, Poll, PollWith
  <2> QED BY <1>1, <2>1, <2>2
<1>4. CASE ReadTotal
  <2>1. UNCHANGED <<capable, known, id, numvfs, driver, i>> /\ pc' \in {"idle", "create"}
    BY <1>4 DEF ReadTotal, hostVars, fixedVars
  <2>2. capable => totalvfs' = TotalVfs
    BY <1>4 DEF ReadTotal, ReadSysFile
  <2> QED BY <2>1, <2>2
<1>5. CASE CreateVfs
  <2>1. /\ pc = "create" /\ pc' \in {"idle", "newid"}
        /\ UNCHANGED <<capable, known, id, totalvfs, i>>
    BY <1>5 DEF CreateVfs, CreateVfsAs, fixedVars, vfVars
  <2>2. CASE capable /\ numvfs = 0
    <3>1. numvfs' = TotalVfs
      BY <1>5, <2>2 DEF CreateVfs, CreateVfsAs, ReadSysFile
    <3>2. known \/ ~id
      BY <2>2
    <3> QED BY <2>1, <2>2, <3>1, <3>2, <1>t
  <2>3. CASE capable /\ numvfs # 0
    <3>1. UNCHANGED <<numvfs, driver>>
      BY <1>5, <2>3 DEF CreateVfs, CreateVfsAs, ReadSysFile
    <3> QED BY <2>1, <2>3, <3>1, <1>t
  <2>4. CASE ~capable
    BY <2>1, <2>4
  <2> QED BY <2>2, <2>3, <2>4
<1>6. CASE NewId
  <2>1. /\ pc = "newid" /\ pc' = "search" /\ i' = 1 /\ id'
        /\ UNCHANGED <<capable, known, numvfs, totalvfs>>
    BY <1>6 DEF NewId, fixedVars
  <2>2. CASE id
    BY <1>6, <2>1, <2>2 DEF NewId
  <2>3. CASE ~id
    <3>1. driver' = [v \in Vfs |-> IF Exists(v) /\ driver[v] = "none"
                                     THEN "vfio" ELSE driver[v]]
      BY <1>6, <2>3 DEF NewId
    <3>2. \A v \in 1..numvfs : v \in Vfs /\ Exists(v)
      BY <1>t DEF Vfs, Exists
    <3>3. \A v \in 1..numvfs : driver'[v] # "none"
      BY <3>1, <3>2
    <3> QED BY <2>1, <3>3
  <2> QED BY <2>2, <2>3
<1>7. CASE Search
  <2>1. /\ pc = "search" /\ UNCHANGED <<capable, known, id, numvfs, driver, totalvfs>>
        /\ pc' = "idle" \/ (pc' = "search" /\ i' = i + 1)
    BY <1>7 DEF Search, SearchTaking, hostVars, fixedVars
  <2> QED BY <2>1, <1>t
<1>8. ASSUME NEW m \in Vms, NEW size \in Sizes, BuildBegin(m, size) PROVE VfsReady'
  BY <1>1, <1>8 DEF BuildBegin, hostVars, fixedVars, vfVars
<1>9. ASSUME NEW m \in Vms, Abandon(m) \/ OpenFails(m) \/ Exit(m) \/ Open(m)
      PROVE  VfsReady'
  BY <1>1, <1>9 DEF Abandon, OpenFails, Exit, Open, hostVars, fixedVars, vfVars
<1>10. CASE UNCHANGED vars
  BY <1>1, <1>10 DEF vars, hostVars, fixedVars, vfVars
<1> HIDE DEF VfsReady
<1> QED BY <1>2, <1>3, <1>4, <1>5, <1>6, <1>7, <1>8, <1>9, <1>10 DEF Next, SetupSriov

(* While a machine is alone no other qemu opens the VF it was given.       *)
LEMMA SoloVfStep ==
  Typed /\ Windows /\ VfsReady /\ SoloVf /\ [Next]_vars => SoloVf'
<1> SUFFICES ASSUME Typed, Windows, VfsReady, SoloVf, [Next]_vars,
                    NEW m \in Vms, (st[m] = "built")', alone'[m],
                    capable', ~known', (numvfs = TotalVfs)'
             PROVE  (Exists(vf[m]) /\ driver[vf[m]] = "vfio" /\ ~Enabled(vf[m]))'
  BY DEF SoloVf
<1>t. /\ pc \in Points /\ (pc # "idle" => vm \in Vms) /\ TotalVfs \in Nat
      /\ driver \in [Vfs -> {"vfio", "i915", "none"}]
      /\ st \in [Vms -> {"off", "built", "run"}] /\ vf \in [Vms -> Int]
      /\ totalvfs \in Int /\ i \in Int
  BY SriovAssumption DEF Typed
<1>1. ASSUME st[m] = "built", alone[m], vf'[m] = vf[m],
             UNCHANGED <<capable, known, numvfs, driver>>,
             \A o \in Vms : Holds(o, vf[m])' => Holds(o, vf[m])
      PROVE  (Exists(vf[m]) /\ driver[vf[m]] = "vfio" /\ ~Enabled(vf[m]))'
  <2>1. Exists(vf[m]) /\ driver[vf[m]] = "vfio" /\ ~Enabled(vf[m])
    BY <1>1, Zenon DEF SoloVf
  <2> QED BY <1>1, <2>1, Zenon DEF Enabled, Exists, Holds
<1>2. CASE BadSize \/ LoadKernelModuleFails \/ SearchFails \/ ReadFree \/ GrowPool
           \/ Poll \/ ReadTotal
  <2>1. UNCHANGED <<st, vf, alone, capable, known, numvfs, driver>>
    BY <1>2 DEF BadSize, LoadKernelModuleFails, SearchFails, Refuse, ReadFree, GrowPool,
                GrowPoolTo, Poll, PollWith, ReadTotal, hostVars, fixedVars, vmVars
  <2> QED BY <1>1, <2>1 DEF Holds
<1>3. CASE CreateVfs \/ NewId
  <2>1. pc # "idle" /\ UNCHANGED <<st, alone>>
    BY <1>3 DEF CreateVfs, CreateVfsAs, NewId, vmVars
  <2>2. vm # m
    BY <2>1 DEF Windows
  <2> QED BY <2>1, <2>2, <1>t, Zenon DEF Windows, Window
<1>4. CASE Search
  <2>1. /\ pc = "search" /\ vm \in Vms /\ st[vm] = "off"
        /\ UNCHANGED <<alone, capable, known, numvfs, driver>>
    BY <1>4, <1>t DEF Search, SearchTaking, hostVars, fixedVars, Windows
  <2>2. m = vm
    <3>1. m # vm => st[m] = "built"
      BY <1>4, <1>t DEF Search, SearchTaking
    <3> QED BY <2>1, <3>1, Zenon DEF Windows, Window
  <2>3. i \in 1..numvfs /\ i \in Vfs
    BY <1>4, <2>1, <1>t DEF Search, SearchTaking, VfsReady, Vfs
  <2>4. driver[i] # "none"
    BY <2>1, <2>3 DEF VfsReady
  <2>5. /\ st' = [st EXCEPT ![vm] = "built"] /\ vf' = [vf EXCEPT ![vm] = i] /\ i' = i
        /\ ~Enabled(i)
    BY <1>4, <2>1, <2>2, <2>3 DEF Search, SearchTaking, ReadSysFile, Exists
  <2>6. vf'[m] = i /\ driver[i] = "vfio"
    BY <2>2, <2>3, <2>4, <2>5, <1>t DEF Enabled
  <2>7. \A o \in Vms : Holds(o, i)' => Holds(o, i)
    BY <2>1, <2>5, <1>t DEF Holds
  <2>8. ~Enabled(i)'
    BY <2>1, <2>5, <2>7 DEF Enabled
  <2>9. Enabled(vf[m])' <=> Enabled(i)'
    BY <2>6, <2>1, <2>5 DEF Enabled, Holds
  <2> QED BY <2>1, <2>3, <2>6, <2>8, <2>9 DEF Exists
<1>5. ASSUME NEW b \in Vms, NEW size \in Sizes, BuildBegin(b, size)
      PROVE  (Exists(vf[m]) /\ driver[vf[m]] = "vfio" /\ ~Enabled(vf[m]))'
  <2>1. UNCHANGED <<st, capable, known, numvfs, driver>> /\ st[b] = "off"
    BY <1>5 DEF BuildBegin, hostVars, fixedVars
  <2>2. alone[m]
    BY <1>5, <2>1, Zenon DEF BuildBegin
  <2>3. \A o \in Vms : o # b => vf'[o] = vf[o]
    BY <1>5, <1>t DEF BuildBegin
  <2>4. \A o \in Vms : Holds(o, vf[m])' => Holds(o, vf[m])
    BY <2>1, <2>3 DEF Holds
  <2> QED BY <1>1, <2>1, <2>2, <2>3, <2>4
<1>6. ASSUME NEW b \in Vms, Abandon(b) \/ OpenFails(b) \/ Exit(b) \/ Open(b)
      PROVE  (Exists(vf[m]) /\ driver[vf[m]] = "vfio" /\ ~Enabled(vf[m]))'
  <2>1. UNCHANGED <<vf, alone, capable, known, numvfs, driver>>
    BY <1>6 DEF Abandon, OpenFails, Exit, Open, hostVars, fixedVars
  <2>2. st[m] = "built" /\ m # b
    BY <1>6, <1>t DEF Abandon, OpenFails, Exit, Open
  <2>3. ~Open(b)
    BY <2>1, <2>2, Zenon DEF Open, Windows, Window
  <2>4. \A o \in Vms : st'[o] = "run" => st[o] = "run"
    BY <1>6, <2>3, <1>t DEF Abandon, OpenFails, Exit
  <2> QED BY <1>1, <2>1, <2>2, <2>4 DEF Holds
<1>7. CASE UNCHANGED vars
  BY <1>1, <1>7 DEF vars, vmVars, hostVars, fixedVars, Holds
<1> QED BY <1>2, <1>3, <1>4, <1>5, <1>6, <1>7 DEF Next, SetupSriov

(* A machine whose build and start overlap no other finds the VF that      *)
(* SetAvailableVf chose unused and in the hands of vfio-pci, on a GPU with *)
(* SR-IOV whose VFs all exist, if vfio-pci did not know its identifier.    *)
THEOREM VfFound == Spec => []SoloVf
<1> DEFINE IInv == Typed /\ Windows /\ VfsReady /\ SoloVf
<1>1. Init => IInv
  <2>1. Init => VfsReady /\ SoloVf
    BY DEF Init, VfsReady, SoloVf
  <2> QED BY <2>1, InitHolds
<1>2. IInv /\ [Next]_vars => IInv'
  BY TypedStep, WindowsStep, VfsReadyStep, SoloVfStep
<1> QED BY <1>1, <1>2, PTL DEF Spec

-----------------------------------------------------------------------------
(* The pages that are not free are those of the machines that run.         *)
Running == {m \in Vms : st[m] = "run"}
PagesOf == [m \in Vms |-> Pages(m)]

Counted ==
  /\ nr \in 0..HostPages /\ free = nr - Total(Running, PagesOf) /\ free >= 0
  /\ free_hp \in Nat /\ required_hp \in Nat /\ wait_cnt \in 0..MaxWait
  /\ i \in Nat /\ vf \in [Vms -> Nat]
  /\ vm = NoVm <=> pc = "idle"
  /\ pc = "grow" => free_hp < Pages(vm)

(* While SetupHugePages is about to ask for pages, the pages it counted as *)
(* taken are at most those of all machines but the one it builds.          *)
Bounded(most) ==
  /\ \A m \in Vms : Pages(m) <= most
  /\ pc = "grow" => nr - free_hp <= (Cardinality(Vms) - 1) * most
  /\ nr <= InitNr \/ nr <= Cardinality(Vms) * most

(* The megabytes of a size fit in an int.                                  *)
LEMMA MemMbBound == \A size \in Sizes : MemMb(size) <= IntMax
<1> SUFFICES ASSUME NEW size \in Sizes PROVE MemMb(size) <= IntMax
  OBVIOUS
<1>1. size.num \in Int /\ size.unit \in {"digit", "M", "G", "other"}
  BY SriovAssumption
<1>2. GbMb \in Nat /\ IntMax \in Nat /\ GbMb > 0
  BY SriovAssumption
<1>3. \A x \in Int : x <= IntMax \div GbMb => x * GbMb <= IntMax
  BY <1>2, Z3
<1> QED BY <1>1, <1>2, <1>3 DEF MemMb

(* Some size takes the most pages.                                         *)
LEMMA MostExists ==
  \E most \in {MemMb(size) \div 2 : size \in Sizes} :
    most \in Nat /\ \A size \in Sizes : MemMb(size) \div 2 <= most
<1> DEFINE S == {MemMb(size) \div 2 : size \in Sizes}
<1>1. IntMax \in Nat /\ Sizes # {}
  BY SriovAssumption
<1>2. \A x \in Nat : x <= IntMax => x \div 2 \in 0..IntMax
  BY <1>1
<1>3. \A size \in Sizes : MemMb(size) \div 2 \in 0..IntMax
  BY <1>2, MemMbType, MemMbBound
<1>4. S \in SUBSET (0..IntMax) /\ S # {}
  BY <1>1, <1>3, Zenon
<1> HIDE DEF S
<1>5. PICK most \in S : \A y \in S : y <= most
  BY <1>1, <1>4, Greatest
<1>6. most \in Nat
  BY <1>4
<1> QED BY <1>5, <1>6 DEF S

(* What the machines that run hold, and at most how much it is.            *)
LEMMA HeldType ==
  ASSUME Typed
  PROVE  /\ IsFiniteSet(Running) /\ \A m \in Vms : Pages(m) \in Nat /\ PagesOf[m] = Pages(m)
         /\ \A m \in Running : m \in Vms /\ PagesOf[m] \in Nat
         /\ Total(Running, PagesOf) \in Nat
<1>1. \A m \in Vms : Pages(m) \in Nat /\ PagesOf[m] = Pages(m)
  BY HalfType DEF Typed, Pages, PagesOf
<1>2. \A m \in Running : m \in Vms /\ PagesOf[m] \in Nat
  BY <1>1 DEF Running
<1>3. IsFiniteSet(Running)
  BY SriovAssumption, FS_Subset DEF Running
<1> QED BY <1>1, <1>2, <1>3, UnitsFinite

(* A step that starts or ends no qemu and changes no memory of a running   *)
(* machine leaves what is held as it is.                                   *)
LEMMA HeldSame ==
  ASSUME Typed, Typed', Running' = Running, \A m \in Running : mem_mb'[m] = mem_mb[m]
  PROVE  Total(Running, PagesOf)' = Total(Running, PagesOf)
<1>1. \A m \in Running : PagesOf'[m] = PagesOf[m]
  BY DEF PagesOf, Pages, Running
<1>2. Total(Running, PagesOf') = Total(Running, PagesOf)
  BY <1>1, TotalSame
<1> QED BY <1>2

(* Every step keeps the count of the pages; the pool grows, and qemu takes *)
(* and gives back exactly the pages of its machine.                        *)
LEMMA CountedStep == Typed /\ Windows /\ Counted /\ Typed' /\ [Next]_vars => Counted'
<1> SUFFICES ASSUME Typed, Windows, Counted, Typed', [Next]_vars PROVE Counted'
  OBVIOUS
<1>c. HostPages \in Nat /\ MaxWait \in Nat /\ NoVm \notin Vms
  BY SriovAssumption
<1>t. /\ nr \in 0..HostPages /\ free \in Int /\ nr \in Int
      /\ pc \in Points /\ (pc # "idle" => vm \in Vms)
      /\ st \in [Vms -> {"off", "built", "run"}] /\ mem_mb \in [Vms -> Nat]
      /\ Total(Running, PagesOf) \in Nat /\ \A m \in Vms : Pages(m) \in Nat
  BY HeldType DEF Typed, Counted
<1>k. ASSUME UNCHANGED <<st, mem_mb>> PROVE Total(Running, PagesOf)' = Total(Running, PagesOf)
  BY <1>k, HeldSame DEF Running
<1>1. CASE BadSize \/ LoadKernelModuleFails \/ SearchFails
  <2>1. UNCHANGED <<nr, free, free_hp, required_hp, wait_cnt, i, vf, st, mem_mb>>
        /\ pc' = "idle" /\ vm' = NoVm
    BY <1>1 DEF BadSize, LoadKernelModuleFails, SearchFails, Refuse, hostVars, hugeVars,
                vfVars, vmVars
  <2> QED BY <1>k, <2>1 DEF Counted
<1>2. ASSUME NEW m \in Vms, NEW size \in Sizes, BuildBegin(m, size) PROVE Counted'
  <2>1. /\ UNCHANGED <<nr, free, free_hp, required_hp, wait_cnt, i, st>>
        /\ st[m] = "off" /\ pc' = "memory" /\ vm' = m
        /\ mem_mb' = [mem_mb EXCEPT ![m] = MemMb(size)] /\ vf' = [vf EXCEPT ![m] = 0]
    BY <1>2 DEF BuildBegin, hostVars, hugeVars, vfVars
  <2>2. Total(Running, PagesOf)' = Total(Running, PagesOf)
    BY <2>1, <1>t, HeldSame DEF Running
  <2> QED BY <2>1, <2>2, <1>c DEF Counted
<1>3. CASE ReadFree
  <2>1. /\ UNCHANGED <<nr, free, required_hp, wait_cnt, i, vf, st, mem_mb, vm>>
        /\ pc = "memory" /\ free_hp' = free
        /\ pc' = IF free >= Pages(vm) THEN "modules" ELSE "grow"
    BY <1>3 DEF ReadFree, hostVars, vfVars, vmVars
  <2>2. Pages(vm)' = Pages(vm) /\ Pages(vm) \in Nat
    BY <2>1, <1>t DEF Pages
  <2>3. vm # NoVm
    BY <2>1 DEF Counted
  <2> QED BY <1>k, <2>1, <2>2, <2>3, <1>t DEF Counted
<1>4. CASE GrowPool
  <2>1. /\ pc = "grow" /\ pc' = "poll" /\ required_hp' = nr - free_hp + Pages(vm)
        /\ wait_cnt' = 0 /\ UNCHANGED <<st, mem_mb, vm, free_hp, i, vf>>
    BY <1>4 DEF GrowPool, GrowPoolTo, vfVars, vmVars
  <2>2. PICK n \in nr..HostPages : nr' = n /\ free' = free + (n - nr)
    BY <1>4 DEF GrowPool, GrowPoolTo
  <2>3. required_hp' \in Nat
    BY <2>1, <1>t DEF Counted
  <2>4. Total(Running, PagesOf)' = Total(Running, PagesOf)
    BY <2>1, <1>k
  <2>5. nr' \in 0..HostPages /\ free' = nr' - Total(Running, PagesOf)' /\ free' >= 0
    BY <2>2, <2>4, <1>t, <1>c DEF Counted
  <2> QED BY <2>1, <2>3, <2>5, <1>c DEF Counted
<1>5. CASE Poll
  <2>1. /\ UNCHANGED <<nr, free, free_hp, required_hp, i, vf, st, mem_mb>> /\ pc = "poll"
        /\ \/ wait_cnt' = wait_cnt + 1 /\ wait_cnt < MaxWait /\ vm' = vm /\ pc' \in {"modules", "poll"}
           \/ wait_cnt' = wait_cnt /\ pc' = "idle" /\ vm' = NoVm
    BY <1>5 DEF Poll, PollWith, hostVars, vfVars, vmVars
  <2>2. wait_cnt' \in 0..MaxWait
    BY <2>1, <1>c DEF Counted
  <2> QED BY <1>k, <2>1, <2>2 DEF Counted
<1>6. CASE ReadTotal \/ CreateVfs \/ NewId
  <2>1. /\ UNCHANGED <<nr, free, free_hp, required_hp, wait_cnt, vf, st, mem_mb>>
        /\ pc # "idle" /\ i' \in {i, 1}
        /\ \/ vm' = vm /\ pc' \in {"create", "newid", "search"}
           \/ pc' = "idle" /\ vm' = NoVm
    BY <1>6 DEF ReadTotal, CreateVfs, CreateVfsAs, NewId, hostVars, hugeVars, vfVars, vmVars
  <2> QED BY <1>k, <2>1 DEF Counted
<1>7. CASE Search
  <2>1. /\ UNCHANGED <<nr, free, free_hp, required_hp, wait_cnt, mem_mb>>
        /\ pc = "search" /\ vm \in Vms
        /\ \/ i' = i + 1 /\ UNCHANGED <<st, vf, pc, vm>>
           \/ /\ st' = [st EXCEPT ![vm] = "built"] /\ vf' = [vf EXCEPT ![vm] = i]
              /\ pc' = "idle" /\ vm' = NoVm /\ i' = i
    BY <1>7, <1>t DEF Search, SearchTaking, hostVars, hugeVars
  <2>2. Running' = Running
    BY <2>1, <1>t DEF Running, Windows
  <2>3. Total(Running, PagesOf)' = Total(Running, PagesOf)
    BY <2>1, <2>2, HeldSame
  <2> QED BY <2>1, <2>3 DEF Counted
<1>8. ASSUME NEW m \in Vms, Abandon(m) \/ OpenFails(m) PROVE Counted'
  <2>1. /\ UNCHANGED <<nr, free, free_hp, required_hp, wait_cnt, i, vf, mem_mb, pc, vm>>
        /\ st[m] = "built" /\ st' = [st EXCEPT ![m] = "off"]
    BY <1>8 DEF Abandon, OpenFails, hostVars, hugeVars, vfVars
  <2>2. Running' = Running
    BY <2>1, <1>t DEF Running
  <2>3. Total(Running, PagesOf)' = Total(Running, PagesOf)
    BY <2>1, <2>2, HeldSame
  <2> QED BY <2>1, <2>3 DEF Counted, Pages
<1>9. ASSUME NEW m \in Vms, Open(m) \/ Exit(m) PROVE Counted'
  <2>1. /\ UNCHANGED <<nr, free_hp, required_hp, wait_cnt, i, vf, mem_mb, pc, vm>>
        /\ PagesOf' = PagesOf
    BY <1>9 DEF Open, Exit, hugeVars, vfVars, PagesOf, Pages
  <2>2. free' = nr - Total(Running, PagesOf)' /\ free' >= 0
    <3>1. CASE Open(m)
      <4>1. m \notin Running /\ Running' = Running \cup {m}
        BY <3>1, <1>t DEF Open, Running
      <4>2. Total(Running \cup {m}, PagesOf) = Total(Running, PagesOf) + PagesOf[m]
        BY <4>1, HeldType, TotalAdd
      <4>3. free' = free - Pages(m) /\ Pages(m) <= free /\ PagesOf[m] = Pages(m)
        BY <3>1, HeldType DEF Open, CanOpen
      <4> QED BY <4>1, <4>2, <4>3, <2>1, <1>t DEF Counted
    <3>2. CASE Exit(m)
      <4>1. m \in Running /\ Running' = Running \ {m}
        BY <3>2, <1>t DEF Exit, Running
      <4>2. Total(Running, PagesOf) = Total(Running \ {m}, PagesOf) + PagesOf[m]
        BY <4>1, HeldType, TotalRemove
      <4>3. free' = free + Pages(m) /\ PagesOf[m] = Pages(m)
        BY <3>2, HeldType DEF Exit
      <4>4. Total(Running, PagesOf)' = Total(Running \ {m}, PagesOf)
        BY <4>1, <2>1
      <4>5. IsFiniteSet(Running \ {m})
        BY HeldType, FS_RemoveElement
      <4>6. Total(Running \ {m}, PagesOf) \in Nat
        BY <4>5, HeldType, UnitsFinite
      <4> QED BY <4>2, <4>3, <4>4, <4>6, <2>1, <1>t DEF Counted
    <3> QED BY <1>9, <3>1, <3>2
  <2> QED BY <2>1, <2>2 DEF Counted, Pages
<1>10. CASE UNCHANGED vars
  BY <1>k, <1>10 DEF vars, vmVars, hostVars, hugeVars, vfVars, Counted, Pages
<1> QED BY <1>1, <1>2, <1>3, <1>4, <1>5, <1>6, <1>7, <1>8, <1>9, <1>10 DEF Next, SetupSriov

(* At the start no qemu runs.                                              *)
LEMMA InitCounted == Init => Counted
<1> SUFFICES ASSUME Init PROVE Counted
  OBVIOUS
<1>1. Running = {}
  BY DEF Init, Running
<1>2. Units({}, PagesOf) = {}
  BY DEF Units
<1>3. Total({}, PagesOf) = 0
  BY <1>2, FS_EmptySet DEF Total
<1>4. /\ InitNr \in 0..HostPages /\ MaxWait \in Nat
      /\ nr = InitNr /\ free = InitNr /\ free_hp = 0 /\ required_hp = 0 /\ wait_cnt = 0
      /\ i = 0 /\ vf = [m \in Vms |-> 0] /\ vm = NoVm /\ pc = "idle"
  BY SriovAssumption DEF Init
<1> QED BY <1>1, <1>3, <1>4 DEF Counted

(* Types; no more pages are ever free than exist, SetupHugePages waits at  *)
(* most its limit and a machine is named exactly while it is being built.  *)
THEOREM TypesKept == Spec => []TypeOK
<1> DEFINE IInv == Typed /\ Windows /\ Counted
<1>1. Init => IInv
  BY InitHolds, InitCounted
<1>2. IInv /\ [Next]_vars => IInv'
  BY TypedStep, WindowsStep, CountedStep
<1>3. IInv => TypeOK
  <2> SUFFICES ASSUME IInv PROVE TypeOK
    OBVIOUS
  <2>1. free \in 0..nr
    BY HeldType DEF Counted, Typed
  <2>2. vm \in Vms \cup {NoVm}
    BY DEF Typed, Counted
  <2> QED BY <2>1, <2>2 DEF Typed, Points, Counted, TypeOK
<1> QED BY <1>1, <1>2, <1>3, PTL DEF Spec

(* The pool is asked to grow by what the machine being built lacks, over   *)
(* what the others held when SetupHugePages counted.                       *)
LEMMA BoundedStep ==
  ASSUME NEW most \in Nat, \A size \in Sizes : MemMb(size) \div 2 <= most
  PROVE  Typed /\ Windows /\ Counted /\ Bounded(most) /\ [Next]_vars => Bounded(most)'
<1> SUFFICES ASSUME Typed, Windows, Counted, Bounded(most), [Next]_vars
             PROVE  Bounded(most)'
  OBVIOUS
<1>t. /\ nr \in Int /\ free \in Int /\ free_hp \in Int /\ InitNr \in Int
      /\ pc \in Points /\ (pc # "idle" => vm \in Vms)
      /\ mem_mb \in [Vms -> Nat] /\ \A m \in Vms : Pages(m) \in Nat
      /\ IsFiniteSet(Vms) /\ Cardinality(Vms) \in Nat
  BY HeldType, SriovAssumption, FS_CardinalityType DEF Typed
<1>k. ASSUME UNCHANGED <<mem_mb, nr>>, pc' = "grow" => pc = "grow" /\ UNCHANGED <<free_hp, vm>>
      PROVE  Bounded(most)'
  BY <1>k DEF Bounded, Pages
<1>1. CASE BadSize \/ LoadKernelModuleFails \/ SearchFails \/ Poll \/ ReadTotal
           \/ CreateVfs \/ NewId \/ Search
  <2>1. UNCHANGED <<mem_mb, nr>> /\ pc' # "grow"
    BY <1>1 DEF BadSize, LoadKernelModuleFails, SearchFails, Refuse, Poll, PollWith,
                ReadTotal, CreateVfs, CreateVfsAs, NewId, Search, SearchTaking, hostVars, vmVars
  <2> QED BY <1>k, <2>1
<1>2. ASSUME NEW m \in Vms, NEW size \in Sizes, BuildBegin(m, size) PROVE Bounded(most)'
  <2>1. /\ nr' = nr /\ pc' = "memory"
        /\ mem_mb' = [mem_mb EXCEPT ![m] = MemMb(size)]
    BY <1>2 DEF BuildBegin, hostVars
  <2>2. \A o \in Vms : Pages(o)' <= most
    BY <2>1, <1>t DEF Pages, Bounded
  <2> QED BY <2>1, <2>2 DEF Bounded
<1>3. CASE ReadFree
  <2>1. UNCHANGED <<nr, mem_mb, st, vm>> /\ pc = "memory" /\ free_hp' = free /\ vm \in Vms
    BY <1>3, <1>t DEF ReadFree, hostVars, vmVars
  <2>2. vm \notin Running /\ IsFiniteSet(Running)
    BY <2>1, HeldType DEF Windows, Running
  <2>3. Cardinality(Running) <= Cardinality(Vms) - 1 /\ Cardinality(Running) \in Nat
    <3>1. Running \subseteq Vms \ {vm}
      BY <2>2 DEF Running
    <3>2. IsFiniteSet(Vms \ {vm}) /\ Cardinality(Vms \ {vm}) = Cardinality(Vms) - 1
      BY <2>1, <1>t, FS_RemoveElement
    <3> QED BY <3>1, <3>2, FS_Subset, FS_CardinalityType
  <2>4. Total(Running, PagesOf) <= Cardinality(Running) * most
    <3>1. \A m \in Running : PagesOf[m] \in 0..most
      BY HeldType DEF Bounded
    <3> QED BY <2>2, <3>1, TotalBound
  <2>5. \A a, b \in Int : a <= b => a * most <= b * most
    BY Z3
  <2>6. Cardinality(Running) * most <= (Cardinality(Vms) - 1) * most
    BY <2>3, <2>5, <1>t
  <2>7. Total(Running, PagesOf) \in Nat /\ nr - free = Total(Running, PagesOf)
    BY HeldType, <1>t DEF Counted
  <2>8. Cardinality(Running) * most \in Int /\ (Cardinality(Vms) - 1) * most \in Int
    BY <2>3, <1>t
  <2>9. nr - free <= (Cardinality(Vms) - 1) * most
    BY <2>4, <2>6, <2>7, <2>8
  <2> QED BY <2>1, <2>9 DEF Bounded, Pages
<1>4. CASE GrowPool
  <2>1. pc = "grow" /\ pc' = "poll" /\ mem_mb' = mem_mb
    BY <1>4 DEF GrowPool, GrowPoolTo, vmVars
  <2>2. PICK n \in nr..HostPages : nr' = n /\ (n <= nr - free_hp + Pages(vm) \/ n = nr)
    BY <1>4 DEF GrowPool, GrowPoolTo
  <2>3. n \in Int
    BY <2>2, <1>t
  <2>4. nr - free_hp + Pages(vm) <= Cardinality(Vms) * most
    <3>1. nr - free_hp <= (Cardinality(Vms) - 1) * most /\ Pages(vm) <= most /\ Pages(vm) \in Nat
      BY <2>1, <1>t DEF Bounded
    <3>2. (Cardinality(Vms) - 1) * most + most = Cardinality(Vms) * most
      BY <1>t
    <3>3. (Cardinality(Vms) - 1) * most \in Int
      BY <1>t
    <3> QED BY <3>1, <3>2, <3>3, <1>t
  <2>5. Cardinality(Vms) * most \in Int /\ nr - free_hp + Pages(vm) \in Int
    BY <2>1, <1>t
  <2>6. nr' <= InitNr \/ nr' <= Cardinality(Vms) * most
    BY <2>2, <2>3, <2>4, <2>5 DEF Bounded
  <2> QED BY <2>1, <2>6 DEF Bounded, Pages
<1>5. ASSUME NEW m \in Vms, Abandon(m) \/ OpenFails(m) \/ Exit(m) \/ Open(m)
      PROVE  Bounded(most)'
  BY <1>k, <1>5 DEF Abandon, OpenFails, Exit, Open, hostVars, hugeVars
<1>6. CASE UNCHANGED vars
  BY <1>k, <1>6 DEF vars, vmVars, hostVars, hugeVars
<1> QED BY <1>1, <1>2, <1>3, <1>4, <1>5, <1>6 DEF Next, SetupSriov

(* The pool of huge pages never grows beyond what all machines of the      *)
(* largest size need at once, although SetupHugePages gives no page back   *)
(* and writes nr_hugepages from counts that are old.                       *)
THEOREM PoolStaysBounded == Spec => []PoolBounded
<1>1. PICK most \in {MemMb(size) \div 2 : size \in Sizes} :
        most \in Nat /\ \A size \in Sizes : MemMb(size) \div 2 <= most
  BY MostExists
<1> DEFINE IInv == Typed /\ Windows /\ Counted /\ Bounded(most)
<1>2. Init => IInv
  <2>1. Init => Bounded(most)
    <3> SUFFICES ASSUME Init PROVE Bounded(most)
      OBVIOUS
    <3>1. InitNr \in Nat /\ nr = InitNr /\ pc = "idle" /\ mem_mb = [m \in Vms |-> 0]
      BY SriovAssumption DEF Init
    <3>2. 0 \div 2 = 0
      OBVIOUS
    <3> QED BY <1>1, <3>1, <3>2 DEF Bounded, Pages
  <2> QED BY <2>1, InitHolds, InitCounted
<1>3. IInv /\ [Next]_vars => IInv'
  BY <1>1, TypedStep, WindowsStep, CountedStep, BoundedStep
<1>4. IInv => PoolBounded
  BY <1>1 DEF Bounded, PoolBounded
<1> QED BY <1>2, <1>3, <1>4, PTL DEF Spec
=============================================================================
