------------------------------- MODULE Sriov -------------------------------
(***************************************************************************)
(* A machine with an SR-IOV virtual GPU: SetupSriov, SetupHugePages and    *)
(* SetAvailableVf of guest/vm_builder_qemu.cc.  The main thread builds one *)
(* machine at a time and only reads and writes sysfs; the huge pages and   *)
(* the virtual function (VF) it counts on are taken later, by qemu, and    *)
(* given back when qemu ends, both while another machine may be built.     *)
(***************************************************************************)
EXTENDS Integers, FiniteSets

CONSTANTS
  Vms,         \* the machines
  Sizes,       \* the texts of option size, as [num, unit]
  GbMb,        \* megabytes in a gigabyte, 1024
  IntMax,      \* INT32_MAX
  InitNr,      \* huge pages the administrator configured
  HostPages,   \* huge pages that the memory of the host has room for
  MaxWait,     \* polls of nr_hugepages, 200
  TotalVfs,    \* sriov_totalvfs of a GPU that has it
  Garbage      \* what an int left uninitialized may hold

NoVm == "no machine"

ASSUME SriovAssumption ==
  /\ IsFiniteSet(Vms) /\ NoVm \notin Vms
  /\ Sizes \subseteq [num : Int, unit : {"digit", "M", "G", "other"}] /\ Sizes # {}
  /\ {GbMb, IntMax, InitNr, HostPages, MaxWait, TotalVfs} \subseteq Nat
  /\ GbMb > 0 /\ TotalVfs > 0 /\ InitNr <= HostPages
  /\ Garbage \subseteq Int

Vfs == 1..TotalVfs

VARIABLES
  (* the host *)
  capable,     \* the GPU has SR-IOV: its sriov_* files exist
  nr,          \* nr_hugepages
  free,        \* free_hugepages
  numvfs,      \* sriov_numvfs
  driver,      \* the driver of each VF: "vfio", "i915" or "none"
  id,          \* vfio-pci has the dynamic identifier of the GPU
  known,       \* it had it before the server started
  (* the server *)
  pc,          \* where the main thread stands in SetupSriov
  vm,          \* the machine it builds
  free_hp, required_hp, wait_cnt,  \* variables of SetupHugePages
  totalvfs, i,                     \* variables of SetAvailableVf
  (* the machines *)
  st,          \* "off", "built" (emul_cmd_ is complete) or "run"
  mem_mb,      \* memory of each machine
  vf,          \* the VF named in emul_cmd_
  alone        \* no other build began before this one was over and opened

fixedVars == <<capable, known>>
hostVars == <<fixedVars, nr, free, numvfs, driver, id>>
hugeVars == <<free_hp, required_hp, wait_cnt>>
vfVars == <<totalvfs, i>>
vmVars == <<st, mem_mb, vf, alone>>
vars == <<hostVars, pc, vm, hugeVars, vfVars, vmVars>>

(* The administrator may have created VFs, for the host or for vfio-pci,   *)
(* and vfio-pci may know the identifier from an earlier server.            *)
Init ==
  /\ capable \in BOOLEAN
  /\ nr = InitNr /\ free = InitNr
  /\ numvfs \in (IF capable THEN 0..TotalVfs ELSE {0})
  /\ \E d \in {"vfio", "i915", "none"} :
       driver = [v \in Vfs |-> IF v <= numvfs THEN d ELSE "none"]
  /\ id \in BOOLEAN /\ known = id
  /\ (\E v \in Vfs : driver[v] = "vfio") => id
  /\ pc = "idle" /\ vm = NoVm
  /\ free_hp = 0 /\ required_hp = 0 /\ wait_cnt = 0
  /\ totalvfs = 0 /\ i = 0
  /\ st = [m \in Vms |-> "off"]
  /\ mem_mb = [m \in Vms |-> 0]
  /\ vf = [m \in Vms |-> 0]
  /\ alone = [m \in Vms |-> TRUE]

-----------------------------------------------------------------------------
(* No stream throws: a read of a file that does not exist leaves the       *)
(* result uninitialized and a write that fails is reported as a success.   *)
ReadSysFile(exists, content) == IF exists THEN {content} ELSE Garbage

(* Megabytes in the text of option size; 0 where SetupHugePages refuses.   *)
(* A last character A to F is accepted as a digit even in decimal.         *)
MemMb(size) ==
  CASE size.num \notin 1..IntMax \/ size.unit = "other" -> 0
    [] size.num \in 1..IntMax /\ size.unit \in {"digit", "M"} -> size.num
    [] size.num \in 1..IntMax /\ size.unit = "G" ->
         IF size.num > IntMax \div GbMb THEN 0 ELSE size.num * GbMb

Pages(m) == mem_mb[m] \div 2

Exists(v) == v \in 1..numvfs
Holds(m, v) == st[m] = "run" /\ vf[m] = v
Enabled(v) == driver[v] = "i915" \/ \E m \in Vms : Holds(m, v)

(* BuildVmArgs returns false: StartVm drops the builder.                   *)
Refuse ==
  /\ pc' = "idle" /\ vm' = NoVm
  /\ UNCHANGED <<hostVars, hugeVars, vfVars, vmVars>>

(* The main thread begins to build machine m, with the memory of its file. *)
BuildBegin(m, size) ==
  /\ pc = "idle" /\ st[m] = "off"
  /\ pc' = "memory" /\ vm' = m
  /\ mem_mb' = [mem_mb EXCEPT ![m] = MemMb(size)]
  /\ vf' = [vf EXCEPT ![m] = 0]
  /\ alone' = [o \in Vms |-> IF o = m THEN \A b \in Vms : st[b] # "built"
                                      ELSE alone[o] /\ st[o] # "built"]
  /\ UNCHANGED <<hostVars, hugeVars, vfVars, st>>

(* The size is not accepted.                                               *)
BadSize == pc = "memory" /\ mem_mb[vm] <= 0 /\ Refuse

(* SetupHugePages reads free_hugepages; enough of them are free, or not.   *)
ReadFree ==
  /\ pc = "memory" /\ mem_mb[vm] > 0
  /\ free_hp' = free
  /\ pc' = IF free >= Pages(vm) THEN "modules" ELSE "grow"
  /\ UNCHANGED <<hostVars, vm, required_hp, wait_cnt, vfVars, vmVars>>

(* It reads nr_hugepages and asks the kernel for more, which allocates as  *)
(* many as it finds memory for.                                            *)
GrowPoolTo(required) ==
  /\ pc = "grow"
  /\ required_hp' = required /\ wait_cnt' = 0
  /\ \E n \in nr..HostPages :
       /\ n <= required \/ n = nr
       /\ nr' = n /\ free' = free + (n - nr)
  /\ pc' = "poll"
  /\ UNCHANGED <<fixedVars, numvfs, driver, id, vm, free_hp, vfVars, vmVars>>

(* A plausible slip: the free pages are not deducted.                      *)
GrowPoolIgnoresFree == GrowPoolTo(nr + Pages(vm))

GrowPool == GrowPoolTo(nr - free_hp + Pages(vm))

(* One turn of the polling loop.  Its first test sees the old nr_hp, which *)
(* differs from required_hp.  At the limit it gives up, even if the value  *)
(* just read is the one it waits for; the pool is left as it is.           *)
PollWith(limit, step, late) ==
  /\ pc = "poll"
  /\ IF wait_cnt < limit
       THEN /\ wait_cnt' = wait_cnt + step
            /\ pc' = IF nr = required_hp THEN "modules" ELSE "poll"
            /\ vm' = vm
       ELSE /\ wait_cnt' = wait_cnt
            /\ pc' = late
            /\ vm' = IF late = "idle" THEN NoVm ELSE vm
  /\ UNCHANGED <<hostVars, free_hp, required_hp, vfVars, vmVars>>

(* Plausible slips: one poll too many, a forgotten count, and a timeout    *)
(* that is not an error.                                                   *)
PollOneMore == PollWith(MaxWait + 1, 1, "idle")
PollUncounted == PollWith(MaxWait, 0, "idle")
PollGoesOn == PollWith(MaxWait, 1, "modules")

Poll == PollWith(MaxWait, 1, "idle")

(* modprobe of vfio or of vfio-pci fails.                                  *)
LoadKernelModuleFails == pc = "modules" /\ Refuse

(* SetAvailableVf reads sriov_totalvfs.                                    *)
ReadTotal ==
  /\ pc = "modules"
  /\ \E t \in ReadSysFile(capable, TotalVfs) :
       /\ totalvfs' = t
       /\ pc' = IF t <= 0 THEN "idle" ELSE "create"
       /\ vm' = IF t <= 0 THEN NoVm ELSE vm
  /\ UNCHANGED <<hostVars, hugeVars, i, vmVars>>

(* It reads sriov_numvfs and creates all VFs if there is none, keeping the *)
(* drivers of the host away from them.  The writes fail unnoticed when the *)
(* files do not exist.                                                     *)
CreateVfsAs(d) ==
  /\ pc = "create"
  /\ \E current \in ReadSysFile(capable, numvfs) :
       /\ pc' = IF current < 0 THEN "idle" ELSE "newid"
       /\ vm' = IF current < 0 THEN NoVm ELSE vm
       /\ IF current = 0 /\ capable
            THEN numvfs' = TotalVfs /\ driver' = [v \in Vfs |-> d]
            ELSE UNCHANGED <<numvfs, driver>>
  /\ UNCHANGED <<fixedVars, nr, free, id, hugeVars, vfVars, vmVars>>

CreateVfs == CreateVfsAs("none")

(* It writes the identifier of the GPU to new_id.  vfio-pci then takes the *)
(* VFs without a driver, unless it knows the identifier already: that      *)
(* write fails with EEXIST, which WriteSysFile does not report, so the     *)
(* branch that would remove the identifier first is never taken.           *)
NewId ==
  /\ pc = "newid"
  /\ id' = TRUE
  /\ driver' = IF id THEN driver
               ELSE [v \in Vfs |-> IF Exists(v) /\ driver[v] = "none"
                                     THEN "vfio" ELSE driver[v]]
  /\ pc' = "search" /\ i' = 1
  /\ UNCHANGED <<fixedVars, nr, free, numvfs, vm, hugeVars, totalvfs, vmVars>>

(* One turn of the search for a VF that nobody has enabled.  A VF that     *)
(* does not exist has no file enable.                                      *)
SearchTaking(unused) ==
  /\ pc = "search" /\ i < totalvfs
  /\ \E status \in ReadSysFile(Exists(i), IF i \in Vfs /\ Enabled(i) THEN 1 ELSE 0) :
       IF status \in unused
         THEN /\ st' = [st EXCEPT ![vm] = "built"]
              /\ vf' = [vf EXCEPT ![vm] = i]
              /\ pc' = "idle" /\ vm' = NoVm /\ i' = i
         ELSE /\ i' = i + 1
              /\ UNCHANGED <<st, vf, pc, vm>>
  /\ UNCHANGED <<hostVars, hugeVars, totalvfs, mem_mb, alone>>

(* A plausible slip: the test of the status read is lost.                  *)
SearchTakesAny == SearchTaking({0, 1})

Search == SearchTaking({0})

(* No VF is left; the last one, number totalvfs, is never looked at.       *)
SearchFails == pc = "search" /\ i >= totalvfs /\ Refuse

-----------------------------------------------------------------------------
(* A later step of BuildVmArgs, or the start of a process, fails.          *)
Abandon(m) ==
  /\ st[m] = "built"
  /\ st' = [st EXCEPT ![m] = "off"]
  /\ UNCHANGED <<hostVars, pc, vm, hugeVars, vfVars, mem_mb, vf, alone>>

(* qemu maps its memory, in whole huge pages, and opens the VF, which must *)
(* exist, belong to vfio-pci and be open nowhere else; or it ends.         *)
CanOpen(m) ==
  /\ mem_mb[m] % 2 = 0 /\ Pages(m) <= free
  /\ Exists(vf[m]) /\ driver[vf[m]] = "vfio" /\ ~Enabled(vf[m])

Open(m) ==
  /\ st[m] = "built" /\ CanOpen(m)
  /\ st' = [st EXCEPT ![m] = "run"]
  /\ free' = free - Pages(m)
  /\ UNCHANGED <<fixedVars, nr, numvfs, driver, id, pc, vm, hugeVars, vfVars,
                 mem_mb, vf, alone>>

OpenFails(m) ==
  /\ st[m] = "built" /\ ~CanOpen(m)
  /\ st' = [st EXCEPT ![m] = "off"]
  /\ UNCHANGED <<hostVars, pc, vm, hugeVars, vfVars, mem_mb, vf, alone>>

(* qemu ends.                                                              *)
Exit(m) ==
  /\ st[m] = "run"
  /\ st' = [st EXCEPT ![m] = "off"]
  /\ free' = free + Pages(m)
  /\ UNCHANGED <<fixedVars, nr, numvfs, driver, id, pc, vm, hugeVars, vfVars,
                 mem_mb, vf, alone>>

SetupSriov ==
  \/ BadSize \/ ReadFree \/ GrowPool \/ Poll
  \/ LoadKernelModuleFails \/ ReadTotal \/ CreateVfs \/ NewId
  \/ Search \/ SearchFails

Next ==
  \/ SetupSriov
  \/ \E m \in Vms, size \in Sizes : BuildBegin(m, size)
  \/ \E m \in Vms : Abandon(m) \/ Open(m) \/ OpenFails(m) \/ Exit(m)

Spec == Init /\ [][Next]_vars

(* The main thread is scheduled; nothing is assumed of the machines.       *)
FairSpec == Spec /\ WF_vars(SetupSriov)

-----------------------------------------------------------------------------
(* Types; no more pages are free than exist, the wait of SetupHugePages    *)
(* stays within its limit and a machine is named while it is being built.  *)
TypeOK ==
  /\ capable \in BOOLEAN /\ known \in BOOLEAN /\ id \in BOOLEAN
  /\ nr \in 0..HostPages /\ free \in 0..nr
  /\ numvfs \in 0..TotalVfs
  /\ driver \in [Vfs -> {"vfio", "i915", "none"}]
  /\ pc \in {"idle", "memory", "grow", "poll", "modules", "create", "newid", "search"}
  /\ vm \in Vms \cup {NoVm} /\ (vm = NoVm <=> pc = "idle")
  /\ free_hp \in Nat /\ required_hp \in Nat /\ wait_cnt \in 0..MaxWait
  /\ totalvfs \in Int /\ i \in Nat
  /\ st \in [Vms -> {"off", "built", "run"}]
  /\ mem_mb \in [Vms -> Nat] /\ vf \in [Vms -> Nat]
  /\ alone \in [Vms -> BOOLEAN]

(* Restarting machines for ever does not eat the memory of the host: the   *)
(* pool never grows beyond what all machines need at once, although        *)
(* SetupHugePages never gives a page back, uses a count of free pages that *)
(* is old by the time it writes nr_hugepages, and leaves the pages of a    *)
(* build that failed.                                                      *)
PoolBounded ==
  \E most \in {MemMb(size) \div 2 : size \in Sizes} :
    /\ \A size \in Sizes : MemMb(size) \div 2 <= most
    /\ nr <= InitNr \/ nr <= Cardinality(Vms) * most

(* A machine built while no other build was waiting for its qemu finds its *)
(* huge pages: machines that end, or that run, between the reads and the   *)
(* write of SetupHugePages do not take them away.                          *)
SoloPages ==
  \A m \in Vms : st[m] = "built" /\ alone[m] => free >= Pages(m)

(* Such a machine also finds its VF: the VF that SetAvailableVf saw unused *)
(* is still unused when qemu opens it, and vfio-pci has it, provided the   *)
(* GPU has SR-IOV, all VFs exist and the write to new_id was not in vain.  *)
SoloVf ==
  \A m \in Vms :
    st[m] = "built" /\ alone[m] /\ capable /\ ~known /\ numvfs = TotalVfs
      => Exists(vf[m]) /\ driver[vf[m]] = "vfio" /\ ~Enabled(vf[m])

(* SetupSriov returns: the wait for huge pages and the search end.         *)
SetupReturns == pc # "idle" ~> pc = "idle"
=============================================================================
