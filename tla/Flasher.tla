------------------------------ MODULE Flasher ------------------------------
(***************************************************************************)
(* "vm-manager --flash" (guest/vm_flash.cc) with the co-processes that it  *)
(* runs (VmCoProcRpmb and VmCoProcVtpm of guest/vm_process.cc), on         *)
(* configurations that were written by hand or by the form of GuestConfig. *)
(* Flashes follow one another; each may fail at any of the programs it     *)
(* calls, or be killed, and leaves its files to the next one.              *)
(***************************************************************************)
EXTENDS GuestConfig, Totals

CONSTANTS
  HandWritten,   \* configurations that were not written by the form
  Flashfiles,    \* what option flashfiles may name: [kind, files]
  OneGB, FourGB, \* 1_GB and k4GB
  DdBs           \* kDdBs, the block size of dd

(* A flash file is "missing", a "raw" disk image or a "zip" of files. *)
ASSUME FlashAssumption ==
  /\ \A z \in Flashfiles :
       /\ z.kind \in {"missing", "raw", "zip"}
       /\ z.files \subseteq [name : STRING, part : {0}, size : Nat, new : {TRUE}]
       /\ IsFiniteSet(z.files)
  /\ {OneGB, FourGB, DdBs} \subseteq Nat /\ FourGB > 1 /\ DdBs > 0

CoProcs == {"rpmb", "vtpm"}

VARIABLES
  fpc,      \* program point of the flash, "idle" between two of them
  cfg,      \* cfg_
  zip,      \* the file that option flashfiles names
  o_dir,    \* the files in /tmp/<stem>; empty when it does not exist
  todo,     \* the files that a directory_iterator has not visited yet
  total,    \* total_image_size_
  vfat,     \* /tmp/flash.vfat: its size and its files
  virtual_disk, \* virtual_disk_
  rdata,    \* the file RPMB_DATA: "absent", "old" or "new" in this flash
  sock,     \* the socket of rpmb_dev exists
  made,     \* the co-processes constructed
  mon, counted, child, proc, \* their mon_, child_latch_, c_ and process
  left,     \* those that Stop did not see to their end
  touched,  \* the disk image of the guest has been recreated
  result    \* what FlashGuest returned, "config" for a refused configuration

fileVars == <<o_dir, vfat>>
loopVars == <<todo, total>>
coVars == <<made, mon, counted, child, proc, left>>
rpmbVars == <<rdata, sock>>
flashVars == <<fpc, cfg, zip, fileVars, loopVars, virtual_disk, rpmbVars, coVars,
               touched, result>>
vars == <<tuiVars, flashVars>>

NoZip == [kind |-> "missing", files |-> {}]
NoFat == [size |-> 0, files |-> {}]

Init ==
  /\ TuiInit
  /\ fpc = "idle" /\ result = "none" /\ touched = FALSE
  /\ cfg = EmptyTree
  /\ zip = NoZip
  /\ o_dir = {} /\ vfat = NoFat
  /\ todo = {} /\ total = 0
  /\ virtual_disk = "none"
  /\ rdata \in {"absent", "old"} /\ sock = FALSE
  /\ made = {} /\ left = {}
  /\ mon = [c \in CoProcs |-> FALSE]
  /\ counted = [c \in CoProcs |-> FALSE]
  /\ child = [c \in CoProcs |-> FALSE]
  /\ proc = [c \in CoProcs |-> "none"]

Step(from, to) == fpc = from /\ fpc' = to

(* FlashWithQemu returns: at once, or through the destructors of the       *)
(* co-processes it has constructed.                                        *)
Return(from, value) ==
  /\ Step(from, IF made = {} THEN "idle" ELSE "stop_vtpm")
  /\ result' = value

Set(group, keys) == \A k \in keys : GetValue(cfg, group, k) # <<>>

-----------------------------------------------------------------------------
(* FlashGuest: the files of earlier flashes are old now.  The disk that    *)
(* they made is not looked at before dd overwrites it.                     *)
Aged(files) == {[f EXCEPT !.new = FALSE] : f \in files}

FlashGuest(file, z) ==
  /\ ReadConfigFile(file)
  /\ GetValue(file.tree, "emulator", "type") \in {<<>>, <<"QEMU">>}
  /\ Step("idle", "emulator")
  /\ cfg' = file.tree
  /\ zip' = z
  /\ o_dir' = Aged(o_dir) /\ vfat' = NoFat
  /\ todo' = {} /\ total' = 0 /\ virtual_disk' = "none"
  /\ rdata' = IF rdata = "new" THEN "old" ELSE rdata
  /\ sock' = FALSE             \* a new name, made from the time
  /\ made' = {} /\ left' = {}
  /\ mon' = [c \in CoProcs |-> FALSE]
  /\ counted' = [c \in CoProcs |-> FALSE]
  /\ child' = [c \in CoProcs |-> FALSE]
  /\ proc' = [c \in CoProcs |-> "none"]
  /\ touched' = FALSE /\ result' = "none"

keepFiles == <<cfg, zip, fileVars, loopVars, virtual_disk, rpmbVars, coVars, touched>>

(* FlashWithQemu without an emulator, and QemuCreateVirtUsbDisk on a file  *)
(* that is not there.                                                      *)
EmulPath ==
  /\ \/ Set("emulator", {"path"}) /\ Step("emulator", "file") /\ UNCHANGED result
     \/ ~Set("emulator", {"path"}) /\ Return("emulator", "config")
  /\ UNCHANGED keepFiles

(* A file without the extension .zip is the disk itself. *)
Flashfile ==
  /\ \/ /\ ~Set("global", {"flashfiles"}) \/ zip.kind = "missing"
        /\ Return("file", "config")
        /\ UNCHANGED virtual_disk
     \/ /\ Set("global", {"flashfiles"}) /\ zip.kind = "raw"
        /\ Step("file", "image")
        /\ virtual_disk' = "raw"
        /\ UNCHANGED result
     \/ /\ Set("global", {"flashfiles"}) /\ zip.kind = "zip"
        /\ Step("file", "rmdir")
        /\ UNCHANGED <<virtual_disk, result>>
  /\ UNCHANGED <<cfg, zip, fileVars, loopVars, rpmbVars, coVars, touched>>

(* A program that FlashWithQemu cannot do without fails. *)
ToolFails(at) ==
  /\ Return(at, "tool")
  /\ UNCHANGED <<cfg, zip, loopVars, virtual_disk, rpmbVars, coVars, touched>>

ToolRuns(at, next) ==
  /\ Step(at, next)
  /\ UNCHANGED <<cfg, zip, rpmbVars, coVars, touched, result>>

(* Mutant: an existing directory is used as it is. *)
RemoveOldDirNever ==
  /\ ToolRuns("rmdir", "unzip")
  /\ UNCHANGED <<fileVars, loopVars, virtual_disk>>

(* rm -rf of a directory that exists *)
RemoveOldDir ==
  \/ /\ ToolRuns("rmdir", "unzip")
     /\ o_dir' = {}
     /\ UNCHANGED <<vfat, loopVars, virtual_disk>>
  \/ /\ o_dir # {} /\ ToolFails("rmdir")
     /\ \E kept \in SUBSET o_dir : o_dir' = kept
     /\ UNCHANGED vfat

(* unzip -o, then the test for boot.img; without it the archive must hold  *)
(* one file, the disk itself.                                              *)
HasBoot(files) == \E f \in files : f.name = "boot.img" /\ f.part = 0

Unzip ==
  \/ LET files == zip.files \cup
                    {f \in o_dir : \A g \in zip.files : <<f.name, f.part>> # <<g.name, 0>>}
     IN  /\ o_dir' = files
         /\ \/ /\ HasBoot(files)
               /\ ToolRuns("unzip", "check")
               /\ todo' = files
               /\ UNCHANGED virtual_disk
            \/ /\ ~HasBoot(files) /\ Cardinality(files) = 1
               /\ ToolRuns("unzip", "image")
               /\ virtual_disk' = "unzipped"
               /\ UNCHANGED todo
            \/ /\ ~HasBoot(files) /\ Cardinality(files) # 1
               /\ Return("unzip", "config")
               /\ UNCHANGED <<todo, cfg, zip, virtual_disk, rpmbVars, coVars, touched>>
         /\ UNCHANGED <<vfat, total>>
  \/ /\ ToolFails("unzip")
     /\ \E some \in SUBSET zip.files : o_dir' = o_dir \cup some
     /\ UNCHANGED vfat

-----------------------------------------------------------------------------
(* CheckImages: the sizes are added up and files of 4 GB or more split     *)
(* into parts of at most 4 GB - 1.  The iterator may or may not visit the  *)
(* parts that appear in the directory meanwhile.                           *)
Parts(f) ==
  LET max == FourGB - 1
      n == (f.size + max - 1) \div max
  IN  {[f EXCEPT !.part = i, !.size = IF i < n THEN max ELSE f.size - (n - 1) * max] :
         i \in 1..n}

(* Mutant: a file of exactly 4 GB is left as it is. *)
CheckImageAbove(f) ==
  /\ f \in todo
  /\ ToolRuns("check", "check")
  /\ total' = total + f.size
  /\ IF f.size > FourGB
       THEN /\ o_dir' = (o_dir \ {f}) \cup Parts(f)
            /\ \E seen \in SUBSET Parts(f) : todo' = (todo \ {f}) \cup seen
       ELSE /\ todo' = todo \ {f}
            /\ UNCHANGED o_dir
  /\ UNCHANGED <<vfat, virtual_disk>>

CheckImage(f) ==
  /\ f \in todo
  /\ ToolRuns("check", "check")
  /\ total' = total + f.size
  /\ IF f.size >= FourGB
       THEN /\ o_dir' = (o_dir \ {f}) \cup Parts(f)
            /\ \E seen \in SUBSET Parts(f) : todo' = (todo \ {f}) \cup seen
       ELSE /\ todo' = todo \ {f}
            /\ UNCHANGED o_dir
  /\ UNCHANGED <<vfat, virtual_disk>>

(* split is not installed, or fails on a file and leaves some parts. *)
SplitFails ==
  /\ ToolFails("check")
  /\ \/ UNCHANGED o_dir
     \/ \E f \in todo : f.size >= FourGB /\ o_dir' = o_dir \cup Parts(f)
  /\ UNCHANGED vfat

(* The size of the file that dd writes. *)
Blocks == ((total + OneGB + DdBs - 1) \div DdBs) * DdBs

(* dd writes zeros over what was there. *)
MakeDisk ==
  /\ todo = {}
  /\ \/ /\ ToolRuns("check", "mkfs")
        /\ vfat' = [size |-> Blocks, files |-> {}]
        /\ UNCHANGED <<o_dir, loopVars, virtual_disk>>
     \/ /\ ToolFails("check")
        /\ vfat' = NoFat
        /\ UNCHANGED o_dir

(* mkfs.vfat, and the loop over the directory begins. *)
MakeFs ==
  \/ /\ ToolRuns("mkfs", "copy")
     /\ todo' = o_dir
     /\ UNCHANGED <<fileVars, total, virtual_disk>>
  \/ ToolFails("mkfs") /\ UNCHANGED fileVars

SizeOf(files) == Total(files, [f \in files |-> f.size])

(* mcopy of one file, which needs room on the disk. *)
CopyImage(f) ==
  /\ f \in todo
  /\ SizeOf(vfat.files \cup {f}) <= vfat.size
  /\ ToolRuns("copy", "copy")
  /\ vfat' = [vfat EXCEPT !.files = @ \cup {f}]
  /\ todo' = todo \ {f}
  /\ UNCHANGED <<o_dir, total, virtual_disk>>

CopyFails ==
  /\ todo # {}
  /\ ToolFails("copy")
  /\ UNCHANGED fileVars

(* rm -r of the directory; a failure is only logged. *)
RemoveDir ==
  /\ todo = {}
  /\ ToolRuns("copy", "image")
  /\ virtual_disk' = "vfat"
  /\ \E kept \in {{}, o_dir} : o_dir' = kept
  /\ todo' = {} /\ total' = 0        \* not used again
  /\ UNCHANGED vfat

-----------------------------------------------------------------------------
(* QemuCreateVirtualDisk: the disk image of the guest is a new one. *)
CreateDisk ==
  /\ \/ Step("image", "rpmb") /\ touched' = TRUE /\ UNCHANGED result
     \/ Return("image", "tool") /\ UNCHANGED touched
  /\ UNCHANGED <<cfg, zip, fileVars, loopVars, virtual_disk, rpmbVars, coVars>>

keepDisk == <<cfg, zip, fileVars, loopVars, virtual_disk, touched>>
keepProcs == <<mon, counted, child, proc, left>>

(* Mutant: old RPMB data are kept. *)
RpmbDataKept ==
  /\ Step("rpmb", "vtpm")
  /\ made' = IF Set("rpmb", {"bin_path", "data_dir"}) THEN {"rpmb"} ELSE made
  /\ UNCHANGED <<keepDisk, keepProcs, rpmbVars, result>>

(* With rpmb configured, old data are removed and the co-process made. *)
RpmbData ==
  /\ IF Set("rpmb", {"bin_path", "data_dir"})
       THEN \/ /\ Step("rpmb", "vtpm")
               /\ made' = {"rpmb"} /\ rdata' = "absent"
               /\ UNCHANGED result
            \/ /\ rdata # "absent" /\ Return("rpmb", "tool")
               /\ UNCHANGED <<made, rdata>>
       ELSE Step("rpmb", "vtpm") /\ UNCHANGED <<made, rdata, result>>
  /\ UNCHANGED <<keepDisk, keepProcs, sock>>

MakeVtpm ==
  /\ Step("vtpm", "firmware")
  /\ made' = IF Set("vtpm", {"bin_path", "data_dir"}) THEN made \cup {"vtpm"} ELSE made
  /\ UNCHANGED <<keepDisk, keepProcs, rpmbVars, result>>

(* Mutant: one of the types is misspelt. *)
FirmwareTypoed ==
  /\ IF GetValue(cfg, "firmware", "type") \in {<<"unified">>, <<"split">>}
       THEN Step("firmware", "run_rpmb") /\ UNCHANGED result
       ELSE Return("firmware", "config")
  /\ UNCHANGED <<keepDisk, coVars, rpmbVars>>

(* The type of the firmware is only looked at now. *)
Firmware ==
  /\ IF GetValue(cfg, "firmware", "type") \in {<<"unified">>, <<"splited">>}
       THEN Step("firmware", "run_rpmb") /\ UNCHANGED result
       ELSE Return("firmware", "config")
  /\ UNCHANGED <<keepDisk, coVars, rpmbVars>>

-----------------------------------------------------------------------------
(* The co-processes *)

(* VmProcSimple::Run starts the monitor thread and waits for its latch. *)
Run(c) == mon' = [mon EXCEPT ![c] = TRUE]

(* VmCoProcRpmb::Run initializes the data first; a binary that cannot be   *)
(* executed makes that throw.                                              *)
RunRpmb ==
  /\ \/ /\ "rpmb" \in made
        /\ \/ /\ Step("run_rpmb", "wait_rpmb") /\ Run("rpmb")
              /\ rdata' \in IF rdata = "absent" THEN {"new", "absent"} ELSE {rdata}
              /\ UNCHANGED result
           \/ rdata = "absent" /\ Return("run_rpmb", "tool") /\ UNCHANGED <<mon, rdata>>
     \/ "rpmb" \notin made /\ Step("run_rpmb", "run_vtpm") /\ UNCHANGED <<mon, rdata, result>>
  /\ UNCHANGED <<keepDisk, made, counted, child, proc, left, sock>>

(* VmCoProcVtpm::Run does nothing without its data directory. *)
RunVtpm ==
  /\ \/ "vtpm" \in made /\ Step("run_vtpm", "wait_vtpm") /\ Run("vtpm")
     \/ Step("run_vtpm", "qemu") /\ UNCHANGED mon
  /\ UNCHANGED <<keepDisk, made, counted, child, proc, left, rpmbVars, result>>

(* The latch is open and Run returns. *)
Started(c, at, next) ==
  /\ counted[c]
  /\ Step(at, next)
  /\ UNCHANGED <<keepDisk, coVars, rpmbVars, result>>

(* Mutant: a child that cannot be started leaves the latch alone. *)
SpawnCountsSuccess(c) ==
  /\ mon[c] /\ proc[c] = "none"
  /\ \E outcome \in {"running", "exited"} :
       /\ proc' = [proc EXCEPT ![c] = outcome]
       /\ counted' = [counted EXCEPT ![c] = (outcome = "running")]
  /\ UNCHANGED <<keepDisk, fpc, made, mon, child, left, rpmbVars, result>>

(* The monitor thread starts the child; on_success and on_error count      *)
(* child_latch_ down.                                                      *)
Spawn(c) ==
  /\ mon[c] /\ proc[c] = "none"
  /\ \E outcome \in {"running", "exited"} :
       proc' = [proc EXCEPT ![c] = outcome]
  /\ counted' = [counted EXCEPT ![c] = TRUE]
  /\ UNCHANGED <<keepDisk, fpc, made, mon, child, left, rpmbVars, result>>

(* c_ is assigned after that. *)
StoreChild(c) ==
  /\ fpc # "idle" /\ proc[c] # "none" /\ ~child[c]
  /\ child' = [child EXCEPT ![c] = TRUE]
  /\ UNCHANGED <<keepDisk, fpc, made, mon, counted, proc, left, rpmbVars, result>>

(* A co-process ends by itself, and rpmb_dev creates its socket. *)
Ends(c) ==
  /\ proc[c] = "running"
  /\ proc' = [proc EXCEPT ![c] = "exited"]
  /\ UNCHANGED <<keepDisk, fpc, made, mon, counted, child, left, rpmbVars, result>>

CreateSock ==
  /\ proc["rpmb"] = "running" /\ ~sock
  /\ sock' = TRUE
  /\ UNCHANGED <<keepDisk, fpc, coVars, rdata, result>>

(* The flashing qemu ends; its exit code is only logged.  An emulator that *)
(* cannot be executed makes boost::process::system throw.                  *)
Qemu ==
  /\ \E value \in {"true", "tool"} : Return("qemu", value)
  /\ UNCHANGED <<keepDisk, coVars, rpmbVars>>

(* VmProcSimple::Stop.  SIGTERM may have no effect within ten seconds, and *)
(* a child that is not stored yet is not found.                            *)
Stop(c, at, next) ==
  /\ Step(at, next)
  /\ IF mon[c] /\ child[c] /\ proc[c] = "running"
       THEN /\ mon' = [mon EXCEPT ![c] = FALSE]
            /\ \/ proc' = [proc EXCEPT ![c] = "exited"] /\ UNCHANGED left
               \/ left' = left \cup {c} /\ UNCHANGED proc
       ELSE /\ left' = IF mon[c] /\ ~child[c] THEN left \cup {c} ELSE left
            /\ UNCHANGED <<mon, proc>>
  /\ UNCHANGED <<keepDisk, made, counted, child, rpmbVars, result>>

(* The destructors of VmCoProcVtpm and VmCoProcRpmb, each followed by the  *)
(* one of VmProcSimple, which calls Stop again.                            *)
DestroyVtpm ==
  \/ Stop("vtpm", "stop_vtpm", "base_vtpm")
  \/ Stop("vtpm", "base_vtpm", "stop_rpmb")

(* Mutant: rpmb_dev is stopped by the base class, after its socket went. *)
DestroyRpmbLate ==
  \/ /\ Step("stop_rpmb", "base_rpmb")
     /\ sock' = FALSE
     /\ UNCHANGED <<keepDisk, coVars, rdata, result>>
  \/ Stop("rpmb", "base_rpmb", "idle")

DestroyRpmb ==
  \/ Stop("rpmb", "stop_rpmb", "sock")
  \/ /\ Step("sock", "base_rpmb")     \* rpmb_dev leaves its socket behind
     /\ sock' = FALSE
     /\ UNCHANGED <<keepDisk, coVars, rdata, result>>
  \/ Stop("rpmb", "base_rpmb", "idle")

(* The flash is killed; its programs are killed or end with it. *)
Killed ==
  /\ fpc # "idle"
  /\ fpc' = "idle" /\ result' = "killed"
  /\ made' = {} /\ left' = CoProcs
  /\ UNCHANGED <<keepDisk, mon, counted, child, proc, rpmbVars>>

-----------------------------------------------------------------------------
(* The steps of the flash itself. *)
FlashStep ==
  \/ EmulPath \/ Flashfile \/ RemoveOldDir \/ Unzip \/ SplitFails \/ MakeDisk
  \/ MakeFs \/ CopyFails \/ RemoveDir \/ CreateDisk \/ RpmbData \/ MakeVtpm
  \/ Firmware \/ RunRpmb \/ RunVtpm \/ Qemu \/ DestroyVtpm \/ DestroyRpmb
  \/ Started("rpmb", "wait_rpmb", "run_vtpm") \/ Started("vtpm", "wait_vtpm", "qemu")
  \/ \E f \in todo : CheckImage(f) \/ CopyImage(f)

FlashBegins ==
  \E file \in {ini} \cup {File(t) : t \in HandWritten}, z \in Flashfiles :
    FlashGuest(file, z)

Next ==
  \/ /\ \/ FlashBegins \/ FlashStep \/ CreateSock \/ Killed
        \/ \E c \in CoProcs : Spawn(c) \/ StoreChild(c) \/ Ends(c)
     /\ UNCHANGED tuiVars
  \/ (\E p \in Tuis : TuiStep(p)) /\ UNCHANGED flashVars

Spec == Init /\ [][Next]_vars

(* The programs that the flash waits for end, and its threads run. *)
Fairness ==
  /\ WF_vars(FlashStep /\ UNCHANGED tuiVars)
  /\ \A c \in CoProcs : WF_vars(Spawn(c) /\ UNCHANGED tuiVars)

-----------------------------------------------------------------------------
(* Every mcopy can succeed: the files to copy are below the 4 GB that vfat *)
(* allows, and the disk that dd made holds them all together, whatever     *)
(* was split and whether or not the iterator met the parts.                *)
DiskFits ==
  fpc = "copy" =>
    /\ \A f \in o_dir : f.size < FourGB
    /\ SizeOf(o_dir) <= vfat.size

(* The disk that is handed to the flashing qemu has exactly the images of  *)
(* this flash file, those of 4 GB or more in all their parts: no file of   *)
(* an earlier flash that failed or was killed.                             *)
FreshImages ==
  virtual_disk = "vfat" =>
    vfat.files = UNION {IF f.size < FourGB THEN {f} ELSE Parts(f) : f \in zip.files}

(* The flashed guest never meets RPMB data of the guest it replaces. *)
FreshRpmb ==
  fpc = "qemu" /\ "rpmb" \in made => rdata # "old"

(* A configuration that the form saved, or that was read while the form    *)
(* was saving it, is not refused after the disk image of the guest has     *)
(* been recreated.  (One written by hand without a type of firmware is.)   *)
FormFlashSafe ==
  result = "config" /\ touched => cfg \in HandWritten

(* After FlashGuest has returned, by whichever way, its co-processes are   *)
(* gone with the socket of rpmb_dev, except those that ignored SIGTERM or  *)
(* whose c_ was not stored when Stop looked for it.                        *)
CoProcsGone ==
  fpc = "idle" /\ result \notin {"none", "killed"} =>
    /\ \A c \in CoProcs \ left : proc[c] # "running"
    /\ "rpmb" \notin left => ~sock

(* FlashGuest returns: Run does not wait for ever for a co-process, also   *)
(* for one that cannot be started, and the loops over the files end.       *)
FlashReturns == fpc # "idle" ~> fpc = "idle"
=============================================================================
