---------------------------- MODULE QemuBuilder ----------------------------
(***************************************************************************)
(* What VmBuilderQemu (guest/vm_builder_qemu.cc) takes from the host while *)
(* BuildVmArgs runs, and gives back through the callbacks of end_call_     *)
(* when StopVm runs: PCI devices moved to vfio-pci, the sound module and   *)
(* the power control socket; and what it writes to the adaptation file.    *)
(* The main thread builds one machine at a time; machines end in their own *)
(* threads, while another one is built; the server may be killed, and the  *)
(* next one finds the host as it was left.                                 *)
(***************************************************************************)
EXTENDS Aaf

CONSTANTS
  Vms,         \* the machines, one builder each
  Devs,        \* PCI devices
  Gpu,         \* kIntelGpuBdf
  Group,       \* the devices in the IOMMU group of each device, in order
  Id,          \* "vendor device" of each device
  Config,      \* the configuration of each machine
  MaxGuest     \* MAX_NUM_GUEST, the number of power control sockets

(* graphics: the type; pci: the devices listed for passthrough; power:     *)
(* pwr_ctrl_multios is "true"; aaf: there is a path; suspend and audio:    *)
(* the values for the adaptation file, or empty.                           *)
ConfigType ==
  [graphics : {"GVT-d", "virtio", "ramfb"}, pci : Seq(Devs), power : BOOLEAN,
   aaf : BOOLEAN, suspend : {NoValue, "true", "false"}, audio : STRING]

NoOne == "no machine"

ASSUME HostAssumption ==
  /\ NoOne \notin Vms
  /\ Gpu \in Devs
  /\ Group \in [Devs -> Seq(Devs)]
  /\ \A d \in Devs : d \in ToSet(Group[d])
  /\ Id \in [Devs -> Nat]
  /\ Config \in [Vms -> ConfigType]
  /\ MaxGuest \in Nat \ {0}

Slots == 0..(MaxGuest - 1)
NoSlot == MaxGuest

VARIABLES
  (* the host *)
  drv,         \* the driver of each device: "host", "vfio" or "none"
  ids,         \* the dynamic identifiers of vfio-pci
  sound,       \* snd-sof-pci-intel-tgl is loaded
  sockets,     \* the power control sockets that exist
  (* the server *)
  building,    \* the machine the main thread is building
  bpc,         \* where each builder stands
  list,        \* devices that PassthroughOnePciDev still has to be called on
  todo,        \* what the call in progress has left of its group
  pt,          \* pci_pt_dev_set_
  end_call,    \* end_call_
  slot,        \* the socket named in emul_cmd_
  socketPath,  \* the static variable of BuildExtraGuestPmCtrlCmd
  restore,     \* what the callback in progress has left to restore
  early        \* the sound module was loaded with the GPU away

hostVars == <<drv, ids, sound, sockets>>
vars == <<hostVars, building, bpc, list, todo, pt, end_call, slot, socketPath,
          restore, early, aafVars>>

Init ==
  /\ AafInit
  /\ drv = [d \in Devs |-> "host"]
  /\ ids = {}
  /\ sound = TRUE
  /\ sockets = {}
  /\ building = NoOne
  /\ bpc = [b \in Vms |-> "new"]
  /\ list = <<>> /\ todo = <<>>
  /\ pt = [b \in Vms |-> {}]
  /\ end_call = [b \in Vms |-> <<>>]
  /\ slot = [b \in Vms |-> NoSlot]
  /\ socketPath = NoSlot
  /\ restore = [b \in Vms |-> <<>>]
  /\ early = FALSE

Goto(b, from, to) ==
  /\ bpc[b] = from
  /\ bpc' = [bpc EXCEPT ![b] = to]

-----------------------------------------------------------------------------
(* The PCI bus, as the sysfs files show it.  A write that the kernel       *)
(* refuses is not noticed: WriteSysFile never throws and returns 0.        *)

Unbound(drivers, d) == [drivers EXCEPT ![d] = "none"]

(* vfio-pci/new_id: an identifier that is there already is refused; a new  *)
(* one attaches vfio-pci to every device without a driver that has it.     *)
Attached(drivers, known, d) ==
  IF Id[d] \in known THEN drivers
  ELSE [x \in Devs |-> IF Id[x] = Id[d] /\ drivers[x] = "none"
                         THEN "vfio" ELSE drivers[x]]

(* The identifier is removed while the device belongs to vfio-pci. *)
Removed(d) == IF drv[d] = "vfio" THEN ids \ {Id[d]} ELSE ids

(* Mutant: the identifier of a device of vfio-pci is not removed first. *)
MoveToVfioKeepsId(d) ==
  /\ drv' = Attached(Unbound(drv, d), ids, d)
  /\ ids' = ids \cup {Id[d]}

(* One device of the group in PassthroughOnePciDev(_, kPciPassthrough). *)
MoveToVfio(d) ==
  /\ drv' = Attached(Unbound(drv, d), Removed(d), d)
  /\ ids' = Removed(d) \cup {Id[d]}

(* One device of the group in PassthroughOnePciDev(_, kPciRestore): it is  *)
(* unbound if it belongs to vfio-pci, and drivers_probe finds a driver.    *)
GiveBack(d) ==
  /\ ids' = Removed(d)
  /\ \E found \in IF Id[d] \in Removed(d) THEN {"vfio", "host"} ELSE {"host"} :
       drv' = IF drv[d] = "host" THEN drv ELSE [drv EXCEPT ![d] = found]

-----------------------------------------------------------------------------
(* BuildVmArgs *)

BuildBegin(b) ==
  /\ building = NoOne
  /\ Goto(b, "new", IF Config[b].graphics = "GVT-d" THEN "sound" ELSE "checks")
  /\ building' = b
  /\ UNCHANGED <<hostVars, list, todo, pt, end_call, slot, socketPath,
                 restore, early>>

(* Mutant: the callback is left to SetPciDevicesCallback. *)
SoundCardHookOnly(b) ==
  /\ Goto(b, "sound", "gpu")
  /\ sound' \in {sound, FALSE}
  /\ list' = <<Gpu>>
  /\ todo' = Group[Gpu]
  /\ UNCHANGED <<drv, ids, sockets, building, pt, end_call, slot, socketPath,
                 restore, early>>

(* SoundCardHook: with a sof-hda card whose module can be removed, the     *)
(* module is loaded again by the first callback.                           *)
SoundCardHook(b) ==
  /\ Goto(b, "sound", "gpu")
  /\ \/ /\ sound
        /\ sound' = FALSE
        /\ end_call' = [end_call EXCEPT ![b] = Append(@, "sound")]
     \/ UNCHANGED <<sound, end_call>>
  /\ list' = <<Gpu>>
  /\ todo' = Group[Gpu]
  /\ UNCHANGED <<drv, ids, sockets, building, pt, slot, socketPath, restore,
                 early>>

(* PassthroughGpu and BuildPtPciDevicesCmd: one device of the group ... *)
PassDevice(b) ==
  /\ bpc[b] \in {"gpu", "pci"} /\ todo # <<>>
  /\ MoveToVfio(Head(todo))
  /\ todo' = Tail(todo)
  /\ UNCHANGED <<sound, sockets, building, bpc, list, pt, end_call, slot,
                 socketPath, restore, early>>

NextInList ==
  /\ list' = Tail(list)
  /\ todo' = IF Len(list) > 1 THEN Group[list[2]] ELSE <<>>

(* ... until the whole group is moved, and the device is remembered; *)
PassDone(b) ==
  /\ bpc[b] \in {"gpu", "pci"} /\ list # <<>> /\ todo = <<>>
  /\ pt' = [pt EXCEPT ![b] = @ \cup {Head(list)}]
  /\ NextInList
  /\ UNCHANGED <<hostVars, building, bpc, end_call, slot, socketPath,
                 restore, early>>

(* or the call returns false.  A GPU that fails ends the build, another    *)
(* device is skipped.                                                      *)
PassFalse(b) ==
  /\ bpc[b] \in {"gpu", "pci"} /\ todo # <<>>
  /\ NextInList
  /\ bpc' = IF bpc[b] = "gpu" THEN [bpc EXCEPT ![b] = "ending"] ELSE bpc
  /\ UNCHANGED <<drv, sound, sockets, building, pt, end_call, slot,
                 socketPath, restore, early>>

(* The modules cannot be loaded or the device has no IOMMU group. *)
PassRefused(b) ==
  /\ PassFalse(b)
  /\ todo = Group[Head(list)]
  /\ UNCHANGED ids

(* The driver still has the device after kCheckUnbindRepeatCount looks. *)
UnbindTimeout(b) ==
  /\ PassFalse(b)
  /\ drv[Head(todo)] # "none"
  /\ ids' = Removed(Head(todo))

GpuDone(b) ==
  /\ list = <<>>
  /\ Goto(b, "gpu", "checks")
  /\ UNCHANGED <<hostVars, building, list, todo, pt, end_call, slot,
                 socketPath, restore, early>>

(* BuildAafCfg, BuildVsockCmd and BuildFirmwareCmd accept the              *)
(* configuration, or one of them returns false and the main thread         *)
(* destroys the builder.                                                   *)
ChecksPass(b) ==
  /\ Goto(b, "checks", "pci")
  /\ list' = Config[b].pci
  /\ todo' = IF list' = <<>> THEN <<>> ELSE Group[Head(list')]
  /\ UNCHANGED <<hostVars, building, pt, end_call, slot, socketPath, restore,
                 early>>

ChecksFail(b) ==
  /\ Goto(b, "checks", "ending")
  /\ UNCHANGED <<hostVars, building, list, todo, pt, end_call, slot, socketPath,
                 restore, early>>

(* Mutant: the devices are not restored. *)
SetPciDevicesCallbackForgotten(b) ==
  /\ list = <<>>
  /\ Goto(b, "pci", IF Config[b].power THEN "power" ELSE "flush")
  /\ UNCHANGED <<hostVars, building, list, todo, slot, pt, end_call,
                 socketPath, restore, early>>

(* SetPciDevicesCallback, when anything was passed through. *)
SetPciDevicesCallback(b) ==
  /\ list = <<>>
  /\ Goto(b, "pci", IF Config[b].power THEN "power" ELSE "flush")
  /\ end_call' = IF pt[b] = {} THEN end_call
                 ELSE [end_call EXCEPT ![b] = Append(@, "pci")]
  /\ UNCHANGED <<hostVars, building, list, todo, slot, pt, socketPath,
                 restore, early>>

(* BuildExtraGuestPmCtrlCmd: the first path that does not exist is the     *)
(* socket of the machine; the static socketPath keeps the last one tried.  *)
BuildExtraGuestPmCtrlCmd(b) ==
  LET unused == {s \in Slots : s \notin sockets}
      first == IF unused = {} THEN NoSlot ELSE Min(unused)
  IN  /\ Goto(b, "power", "flush")
      /\ slot' = [slot EXCEPT ![b] = first]
      /\ socketPath' = IF first = NoSlot THEN MaxGuest - 1 ELSE first
      /\ end_call' = [end_call EXCEPT ![b] = Append(@, "socket")]
      /\ UNCHANGED <<hostVars, building, list, todo, pt, restore, early>>

(* InitAafCfg with what BuildVgpuCmd and BuildAafCfg set, which nobody     *)
(* sees before the flush: ramfb sets no gpu-type.                          *)
AafValues(b) ==
  [NoData EXCEPT !["gpu-type"] = IF Config[b].graphics = "GVT-d" THEN "gvtd"
                                 ELSE IF Config[b].graphics = "virtio" THEN "virtio" ELSE @,
                 !["suspend"] = Config[b].suspend,
                 !["audio-type"] = Config[b].audio]

FlushBegin(b) ==
  /\ Config[b].aaf
  /\ Goto(b, "flush", "flushing")
  /\ apc' = "flush" /\ data' = AafValues(b)
  /\ UNCHANGED <<target, hidden, out, before, hostVars, building, list, todo, pt, end_call,
                 slot, socketPath, restore, early>>

FlushStep(b) ==
  /\ bpc[b] = "flushing"
  /\ Flush
  /\ UNCHANGED <<hostVars, building, bpc, list, todo, pt, end_call, slot, socketPath,
                 restore, early>>

Built(b) ==
  /\ \/ ~Config[b].aaf /\ Goto(b, "flush", "built")
     \/ apc = "done" /\ Goto(b, "flushing", "built")
  /\ UNCHANGED <<hostVars, building, list, todo, pt, end_call, slot, socketPath,
                 restore, early>>

(* StartVm has been answered, the main thread takes the next request. *)
Start(b) ==
  /\ Goto(b, "built", "started")
  /\ building' = NoOne
  /\ UNCHANGED <<hostVars, list, todo, pt, end_call, slot, socketPath,
                 restore, early>>

(* Qemu listens on its socket, some time after it was started. *)
Listen(b) ==
  /\ Goto(b, "started", "up")
  /\ sockets' = sockets \cup ({slot[b]} \ {NoSlot})
  /\ UNCHANGED <<drv, ids, sound, building, list, todo, pt, end_call, slot,
                 socketPath, restore, early>>

-----------------------------------------------------------------------------
(* StopVm: after the process, one callback after the other.  Qemu unlinks  *)
(* its socket when it quits, and leaves it when it is killed.              *)
Exit(b) ==
  /\ bpc[b] \in {"started", "up"}
  /\ bpc' = [bpc EXCEPT ![b] = "ending"]
  /\ sockets' \in {sockets, sockets \ {slot[b]}}
  /\ UNCHANGED <<drv, ids, sound, building, list, todo, pt, end_call, slot,
                 socketPath, restore, early>>

NextCall(b, call) ==
  /\ bpc[b] = "ending" /\ restore[b] = <<>>
  /\ end_call[b] # <<>> /\ Head(end_call[b]) = call
  /\ end_call' = [end_call EXCEPT ![b] = Tail(@)]
  /\ UNCHANGED <<building, bpc, list, todo, pt, slot, socketPath>>

ProbeSound(b) ==
  /\ NextCall(b, "sound")
  /\ sound' = TRUE
  /\ early' = (early \/ drv[Gpu] = "vfio")
  /\ UNCHANGED <<drv, ids, sockets, restore>>

RemoveSocket(b) ==
  /\ NextCall(b, "socket")
  /\ sockets' = sockets \ {socketPath}
  /\ UNCHANGED <<drv, ids, sound, restore, early>>

RestoreBegin(b) ==
  /\ NextCall(b, "pci")
  /\ LET devs == SetToSeq(pt[b])
     IN  restore' = [restore EXCEPT ![b] =
                       FlattenSeq([i \in DOMAIN devs |-> Group[devs[i]]])]
  /\ UNCHANGED <<hostVars, early>>

RestoreDevice(b) ==
  /\ restore[b] # <<>>
  /\ GiveBack(Head(restore[b]))
  /\ restore' = [restore EXCEPT ![b] = Tail(@)]
  /\ UNCHANGED <<sound, sockets, building, bpc, list, todo, pt, end_call,
                 slot, socketPath, early>>

Gone(b) ==
  /\ restore[b] = <<>> /\ end_call[b] = <<>>
  /\ Goto(b, "ending", IF building = b THEN "failed" ELSE "gone")
  /\ building' = IF building = b THEN NoOne ELSE building
  /\ UNCHANGED <<hostVars, list, todo, pt, end_call, slot,
                 socketPath, restore, early>>

-----------------------------------------------------------------------------
(* The server is killed; the machines that run are on their own, and those *)
(* that were being built or ended stay where they were.                    *)
Killed ==
  /\ bpc' = [b \in Vms |-> IF bpc[b] \in {"new", "gone", "failed"} THEN bpc[b] ELSE "killed"]
  /\ building' = NoOne
  /\ list' = <<>> /\ todo' = <<>>
  /\ end_call' = [b \in Vms |-> <<>>]
  /\ socketPath' = NoSlot
  /\ restore' = [b \in Vms |-> <<>>]
  /\ AafKilled
  /\ UNCHANGED <<hostVars, pt, slot, early>>

VmStep(b) ==
  \/ BuildBegin(b) \/ SoundCardHook(b) \/ PassDevice(b) \/ PassDone(b)
  \/ PassRefused(b) \/ UnbindTimeout(b) \/ GpuDone(b) \/ ChecksPass(b) \/ ChecksFail(b)
  \/ SetPciDevicesCallback(b) \/ BuildExtraGuestPmCtrlCmd(b) \/ Built(b) \/ Start(b)
  \/ Listen(b) \/ Exit(b) \/ ProbeSound(b) \/ RemoveSocket(b)
  \/ RestoreBegin(b) \/ RestoreDevice(b) \/ Gone(b)

Next ==
  \/ \E b \in Vms : VmStep(b) /\ UNCHANGED aafVars
  \/ \E b \in Vms : FlushBegin(b) \/ FlushStep(b)
  \/ Killed

Spec == Init /\ [][Next]_vars

-----------------------------------------------------------------------------
(* The devices that may be passed through to a machine, and all that moves *)
(* with them.                                                              *)
Mine(b) == ToSet(Config[b].pci) \cup (IF Config[b].graphics = "GVT-d" THEN {Gpu} ELSE {})
Taken(b) == UNION {ToSet(Group[d]) : d \in Mine(b)}

(* What PassthroughOnePciDev needs and never checks: no two devices have   *)
(* one identifier, and no IOMMU group is shared by two machines.           *)
Apart ==
  /\ \A d, e \in Devs : Id[d] = Id[e] => d = e
  /\ \A b, c \in Vms : b # c => Taken(b) \cap Taken(c) = {}

(* A device that a running machine was given stays with vfio-pci for as    *)
(* long as the machine runs, whatever is built, fails or is given back     *)
(* meanwhile (PassthroughOnePciDev of any builder).                        *)
PtBound ==
  \A b \in Vms : bpc[b] \in {"started", "up"} =>
    \A d \in pt[b] : drv[d] = "vfio"

(* When a machine that was built has ended, its devices and the rest of    *)
(* their groups are back with the drivers of the host (end_call_, StopVm). *)
RestoredAtEnd ==
  \A b \in Vms : bpc[b] = "gone" =>
    \A d \in pt[b] : \A x \in ToSet(Group[d]) : drv[x] = "host"

(* The sound module that SoundCardHook removed is loaded again once the    *)
(* builder is gone, whether its build succeeded or failed at any point.    *)
SoundBack ==
  (\A b \in Vms : bpc[b] \in {"new", "gone", "failed"}) => sound

(* The sound module is loaded again only when the GPU is back with i915:   *)
(* what the comment in SoundCardHook asks for.                             *)
SoundAfterGpu == ~early
=============================================================================
