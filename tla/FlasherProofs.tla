--------------------------- MODULE FlasherProofs ---------------------------
(***************************************************************************)
(* For every number of forms, every text typed into them, every list of    *)
(* devices and every flash file: what the forms save is accepted and       *)
(* whole, and a flash neither meets old RPMB data nor leaves a co-process  *)
(* behind that Stop could see.                                             *)
(***************************************************************************)
EXTENDS Flasher, TLAPS

-----------------------------------------------------------------------------
(* Property trees *)

(* An entry goes to a group and a key of kConfigMap. *)
InMap(e) == e[1] \in DOMAIN kConfigMap /\ e[2] \in kConfigMap[e[1]]

(* Every field of the form goes to a group and a key of kConfigMap. *)
LEMMA FieldsInMap ==
  ASSUME NEW x \in DOMAIN Always
  PROVE  Always[x][1] \in DOMAIN kConfigMap /\ Always[x][2] \in kConfigMap[Always[x][1]]
  BY DEF Always, kConfigMap

(* So does everything that SetConfToPtree puts, whatever is selected. *)
LEMMA EntriesInMap ==
  ASSUME NEW p
  PROVE  /\ \A e \in SetConfToPtree(p) : InMap(e)
         /\ <<"global", "name", <<"name">> >> \in SetConfToPtree(p)
<1> DEFINE f == form[p]
           text == f.text
           E1 == {<<Always[x][1], Always[x][2], text[x]>> : x \in DOMAIN Always}
           E2 == {<<"global", "name", <<"name">> >>,
                  <<"firmware", "type", <<FirmwareType[f.firm + 1]>> >>,
                  <<"graphics", "type", <<VgpuType[f.vgpu + 1]>> >>,
                  <<"passthrough", "passthrough_pci", disp[p]>>}
           E3 == IF f.firm = 0
                   THEN {<<"firmware", "path", text.firm_unified>>}
                   ELSE {<<"firmware", "code", text.firm_splited_code>>,
                         <<"firmware", "vars", text.firm_splited_data>>}
           E4 == IF f.vgpu # 3 THEN {}
                   ELSE {<<"graphics", "gvtg_version", <<GvtgVer[f.ver + 1]>> >>,
                         <<"graphics", "vgpu_uuid", text.gvtg_uuid>>}
<1>1. SetConfToPtree(p) = E1 \cup E2 \cup E3 \cup E4
  BY DEF SetConfToPtree
<1>2. \A e \in E1 : InMap(e)
  BY FieldsInMap DEF InMap
<1>3. \A v : /\ InMap(<<"global", "name", v>>) /\ InMap(<<"firmware", "type", v>>)
             /\ InMap(<<"graphics", "type", v>>)
             /\ InMap(<<"passthrough", "passthrough_pci", v>>)
             /\ InMap(<<"firmware", "path", v>>) /\ InMap(<<"firmware", "code", v>>)
             /\ InMap(<<"firmware", "vars", v>>)
             /\ InMap(<<"graphics", "gvtg_version", v>>)
             /\ InMap(<<"graphics", "vgpu_uuid", v>>)
  BY DEF InMap, kConfigMap
<1>4. \A e \in E2 : InMap(e)
  BY <1>3
<1>5. \A e \in E3 : InMap(e)
  BY <1>3
<1>6. \A e \in E4 : InMap(e)
  BY <1>3
<1>7. <<"global", "name", <<"name">> >> \in E2
  OBVIOUS
<1> HIDE DEF E1, E2, E3, E4
<1> QED
  BY <1>1, <1>2, <1>4, <1>5, <1>6, <1>7, Zenon

(* SetValue with entries of kConfigMap keeps a tree acceptable, and the    *)
(* group of an entry that is not empty is there afterwards.                *)
LEMMA SetAccepted ==
  ASSUME NEW t, SanitizeOpts(t), NEW entries, \A e \in entries : InMap(e)
  PROVE  /\ SanitizeOpts(SetValues(t, entries))
         /\ \A e \in entries : e[3] # <<>> => e[1] \in DOMAIN SetValues(t, entries)
<1> DEFINE puts == {e \in entries : e[3] # <<>>}
           keys(g) == {e[2] : e \in {x \in puts : x[1] = g}}
           value(g, k) == (CHOOSE e \in puts : e[1] = g /\ e[2] = k)[3]
           old(g) == IF g \in DOMAIN t THEN DOMAIN t[g] ELSE {}
           dom == DOMAIN t \cup {e[1] : e \in puts}
           s == [g \in dom |->
                   [k \in keys(g) \cup old(g) |-> IF k \in keys(g) THEN value(g, k) ELSE t[g][k]]]
<1>1. SetValues(t, entries) = s
  BY DEF SetValues
<1>2. DOMAIN s = dom
  OBVIOUS
<1>3. \A g \in dom : g \in DOMAIN kConfigMap
  BY DEF SanitizeOpts, InMap
<1>4. ASSUME NEW g \in dom PROVE DOMAIN s[g] \subseteq kConfigMap[g]
  <2>1. \A k \in keys(g) : k \in kConfigMap[g]
    BY DEF InMap
  <2>2. \A k \in old(g) : k \in kConfigMap[g]
    BY DEF SanitizeOpts
  <2>3. DOMAIN s[g] = keys(g) \cup old(g)
    OBVIOUS
  <2> HIDE DEF s, keys, old
  <2> QED
    BY <2>1, <2>2, <2>3, Zenon
<1>5. \A e \in entries : e[3] # <<>> => e[1] \in dom
  OBVIOUS
<1> HIDE DEF s, dom
<1> QED
  BY <1>1, <1>2, <1>3, <1>4, <1>5 DEF SanitizeOpts

-----------------------------------------------------------------------------
(* The forms *)

(* Every tree in memory and in the file is acceptable; a form that writes  *)
(* has something to write; a file that is there belongs to a saved form,   *)
(* or to one that is about to write it or died there.                      *)
FormInv ==
  /\ upc \in [Tuis -> {"form", "create", "write", "saved", "closed", "killed"}]
  /\ tree = [p \in Tuis |-> tree[p]]
  /\ \A p \in Tuis : SanitizeOpts(tree[p])
  /\ SanitizeOpts(ini.tree)
  /\ \A p \in Tuis : upc[p] = "write" => tree[p] # EmptyTree
  /\ \A p \in Tuis : upc[p] = "saved" => ini.there
  /\ ini.there => \/ \E p \in Tuis : upc[p] \in {"write", "killed"}
                  \/ \E p \in Tuis : upc[p] = "saved" /\ ini.tree = tree[p]

(* The empty tree is acceptable. *)
LEMMA EmptyAccepted == SanitizeOpts(EmptyTree) /\ DOMAIN EmptyTree = {}
  BY DEF SanitizeOpts, EmptyTree

(* No form has saved anything at first. *)
LEMMA FormInit == TuiInit => FormInv
  BY EmptyAccepted DEF TuiInit, FormInv, NoFile

(* A step that leaves the trees alone and does not touch the file keeps    *)
(* the invariant, if it neither saves nor leaves a write.                  *)
LEMMA FormMoves ==
  ASSUME FormInv, UNCHANGED <<ini, tree>>, NEW p \in Tuis,
         NEW to \in {"form", "create", "closed"}, upc[p] \in {"form", "create"},
         UNCHANGED upc \/ upc' = [upc EXCEPT ![p] = to]
  PROVE  FormInv'
  BY DEF FormInv

(* Each step of a form keeps it. *)
LEMMA FormStep ==
  ASSUME FormInv, NEW p \in Tuis, TuiStep(p)
  PROVE  FormInv'
<1>1. CASE Type(p) \/ Select(p) \/ Check(p) \/ PtPciClickButton(p)
  BY <1>1, FormMoves DEF Type, Select, Check, PtPciClickButton
<1>2. CASE SaveExists(p)
  BY <1>2, FormMoves DEF SaveExists, Goto
<1>3. CASE SaveCreate(p)
  <2>1. /\ upc' = [upc EXCEPT ![p] = "write"] /\ upc[p] = "create"
        /\ tree' = [tree EXCEPT ![p] = SetValues(tree[p], SetConfToPtree(p))]
        /\ ini' = ini \/ ini' = File(EmptyTree)
    BY <1>3 DEF SaveCreate, Goto, FormInv
  <2>2. SanitizeOpts(tree[p])
    BY DEF FormInv
  <2>3. /\ SanitizeOpts(SetValues(tree[p], SetConfToPtree(p)))
        /\ "global" \in DOMAIN SetValues(tree[p], SetConfToPtree(p))
    <3>1. <<"global", "name", <<"name">> >>[3] # <<>>
      OBVIOUS
    <3> QED
      BY <2>2, <3>1, EntriesInMap, SetAccepted
  <2>4. SetValues(tree[p], SetConfToPtree(p)) # EmptyTree
    BY <2>3, EmptyAccepted
  <2>5. SanitizeOpts(ini'.tree) /\ (ini.there => ini'.there)
    BY <2>1, EmptyAccepted DEF FormInv, File
  <2> QED
    BY <2>1, <2>3, <2>4, <2>5 DEF FormInv
<1>4. CASE SaveWrite(p)
  <2>1. SanitizeOpts(tree[p]) /\ (upc[p] = "write" => tree[p] # EmptyTree)
    BY DEF FormInv
  <2>2. CASE ini.there
    <3>1. /\ upc' = [upc EXCEPT ![p] = "saved"] /\ tree' = tree
          /\ ini'.there /\ ini'.tree = tree[p]
      BY <1>4, <2>1, <2>2 DEF SaveWrite, WriteConfigFile, Written, File, Goto
    <3> QED
      BY <2>1, <3>1 DEF FormInv
  <2>3. CASE ~ini.there
    <3>1. upc' = [upc EXCEPT ![p] = "form"] /\ UNCHANGED <<ini, tree>>
      BY <1>4, <2>1, <2>3 DEF SaveWrite, WriteConfigFile, Goto
    <3> QED
      BY <2>3, <3>1 DEF FormInv
  <2> QED
    BY <2>2, <2>3
<1>5. CASE Leave(p)
  <2>1. /\ upc[p] # "saved" /\ ini' = ini /\ tree' = [tree EXCEPT ![p] = EmptyTree]
        /\ \/ upc[p] = "form" /\ upc' = [upc EXCEPT ![p] = "closed"]
           \/ upc[p] # "form" /\ upc' = [upc EXCEPT ![p] = "killed"]
    BY <1>5 DEF Leave, FormInv
  <2> QED
    BY <2>1, EmptyAccepted DEF FormInv
<1> QED
  BY <1>1, <1>2, <1>3, <1>4, <1>5 DEF TuiStep

(* The forms do not depend on the flash. *)
THEOREM FormInvariant == Spec => []FormInv
<1>1. ASSUME FormInv, UNCHANGED tuiVars PROVE FormInv'
  BY <1>1 DEF FormInv, tuiVars
<1>2. ASSUME FormInv, [Next]_vars PROVE FormInv'
  BY <1>1, <1>2, FormStep DEF Next, vars
<1> QED
  BY <1>2, FormInit, PTL DEF Spec, Init

(* What a form writes has only groups and keys of kConfigMap, for every    *)
(* text typed, and no reader refuses a saved file (SetConfToPtree,         *)
(* SanitizeOpts).                                                          *)
THEOREM FormsAccepted == Spec => []FormAccepted
<1>1. FormInv => FormAccepted
  BY DEF FormInv, FormAccepted, ReadConfigFile
<1> QED
  BY <1>1, FormInvariant, PTL

(* A file is the whole configuration of one form, for every number of      *)
(* forms that race through SaveOn.                                         *)
THEOREM FormsSavedWhole == Spec => []SavedWhole
<1>1. FormInv => SavedWhole
  BY DEF FormInv, SavedWhole
<1> QED
  BY <1>1, FormInvariant, PTL

-----------------------------------------------------------------------------
(* The co-processes of a flash *)

(* Program points before the co-processes are made, from the removal of    *)
(* the old RPMB data to qemu, and after the first Stop of a co-process.    *)
Before == {"emulator", "file", "rmdir", "unzip", "check", "mkfs", "copy", "image", "rpmb"}
Prepared == {"vtpm", "firmware", "run_rpmb", "wait_rpmb", "run_vtpm", "wait_vtpm", "qemu"}
Past(c) == IF c = "rpmb" THEN {"sock", "base_rpmb", "idle"}
           ELSE {"base_vtpm", "stop_rpmb", "sock", "base_rpmb", "idle"}
WaitPoint(c) == IF c = "rpmb" THEN "wait_rpmb" ELSE "wait_vtpm"

(* A running co-process is monitored or was given up; a monitored one was  *)
(* started before Run returned; after its Stop it does not run unless it   *)
(* was given up.  A killed flash leaves behind what it leaves behind.      *)
ProcInv(c) ==
  /\ proc[c] = "running" => mon[c] \/ c \in left
  /\ counted[c] => proc[c] # "none"
  /\ result # "killed" =>
       /\ mon[c] \/ c \in left => c \in made
       /\ mon[c] /\ fpc # WaitPoint(c) => proc[c] # "none"
       /\ fpc \in Past(c) /\ c \notin left => proc[c] # "running"

SockInv ==
  result # "killed" =>
    /\ sock => "rpmb" \in made
    /\ fpc \in {"base_rpmb", "idle"} /\ "rpmb" \notin left => ~sock

FlashInv ==
  /\ mon \in [CoProcs -> BOOLEAN] /\ counted \in [CoProcs -> BOOLEAN]
  /\ proc \in [CoProcs -> {"none", "running", "exited"}]
  /\ sock \in BOOLEAN
  /\ result = "killed" => fpc = "idle"
  /\ fpc \in Before => made = {}
  /\ fpc \in Prepared /\ "rpmb" \in made => rdata # "old"
  /\ \A c \in CoProcs : ProcInv(c)
  /\ SockInv

(* No co-process exists before the first flash. *)
LEMMA FlashInit == Init => FlashInv
  BY DEF Init, FlashInv, ProcInv, SockInv, CoProcs, Before, Prepared

(* A step of the flash that leaves the co-processes alone goes on, once    *)
(* the one it waits for is counted, or returns.                            *)
LEMMA FlashMoves ==
  ASSUME FlashInv, fpc \in Before \cup Prepared, UNCHANGED <<coVars, rpmbVars>>,
         \A c \in CoProcs : fpc = WaitPoint(c) => counted[c],
         \/ /\ fpc' \in Before \cup Prepared /\ (fpc \in Before <=> fpc' \in Before)
            /\ result' = result
         \/ fpc' = (IF made = {} THEN "idle" ELSE "stop_vtpm") /\ result' # "killed"
  PROVE  FlashInv'
<1>1. /\ result # "killed" /\ result' # "killed"
      /\ UNCHANGED <<made, mon, counted, proc, left, rdata, sock>>
  BY DEF FlashInv, coVars, rpmbVars, Before, Prepared
<1>2. ASSUME NEW c \in CoProcs PROVE ProcInv(c)'
  <2>1. ProcInv(c)
    BY DEF FlashInv
  <2>2. fpc' \in Past(c) => made = {}
    BY DEF Past, Before, Prepared
  <2> QED
    BY <1>1, <2>1, <2>2 DEF ProcInv
<1>3. SockInv'
  <2>1. fpc' \in {"base_rpmb", "idle"} => made = {}
    BY DEF Before, Prepared
  <2> QED
    BY <1>1, <2>1 DEF FlashInv, SockInv
<1>4. fpc' \in Before => made' = {}
  BY <1>1 DEF FlashInv, Before, Prepared
<1>5. fpc' \in Prepared /\ "rpmb" \in made' => rdata' # "old"
  BY <1>1 DEF FlashInv, Before, Prepared
<1> QED
  BY <1>1, <1>2, <1>3, <1>4, <1>5 DEF FlashInv

(* Every step up to the disk image, the firmware and the return of Run.    *)
LEMMA FlashMovesAll ==
  ASSUME FlashInv,
         \/ EmulPath \/ Flashfile \/ RemoveOldDir \/ Unzip \/ SplitFails \/ MakeDisk
         \/ MakeFs \/ CopyFails \/ RemoveDir \/ CreateDisk \/ Firmware \/ Qemu
         \/ Started("rpmb", "wait_rpmb", "run_vtpm") \/ Started("vtpm", "wait_vtpm", "qemu")
         \/ \E f \in todo : CheckImage(f) \/ CopyImage(f)
  PROVE  FlashInv'
<1> USE DEF Before, Prepared, WaitPoint, CoProcs, Step, Return, ToolRuns, ToolFails,
        keepFiles, keepDisk
<1>1. CASE EmulPath
  BY <1>1, FlashMoves DEF EmulPath
<1>2. CASE Flashfile
  BY <1>2, FlashMoves DEF Flashfile
<1>3. CASE RemoveOldDir
  BY <1>3, FlashMoves DEF RemoveOldDir
<1>4. CASE Unzip
  BY <1>4, FlashMoves DEF Unzip
<1>5. CASE SplitFails
  BY <1>5, FlashMoves DEF SplitFails
<1>6. CASE MakeDisk
  BY <1>6, FlashMoves DEF MakeDisk
<1>7. CASE MakeFs
  BY <1>7, FlashMoves DEF MakeFs
<1>8. CASE CopyFails
  BY <1>8, FlashMoves DEF CopyFails
<1>9. CASE RemoveDir
  BY <1>9, FlashMoves DEF RemoveDir
<1>10. CASE CreateDisk
  BY <1>10, FlashMoves DEF CreateDisk
<1>11. CASE Firmware
  BY <1>11, FlashMoves DEF Firmware
<1>12. CASE Qemu
  BY <1>12, FlashMoves DEF Qemu
<1>13. CASE Started("rpmb", "wait_rpmb", "run_vtpm")
  BY <1>13, FlashMoves DEF Started
<1>14. CASE Started("vtpm", "wait_vtpm", "qemu")
  BY <1>14, FlashMoves DEF Started
<1>15. CASE \E f \in todo : CheckImage(f) \/ CopyImage(f)
  BY <1>15, FlashMoves DEF CheckImage, CopyImage
<1> QED
  BY <1>1, <1>2, <1>3, <1>4, <1>5, <1>6, <1>7, <1>8, <1>9, <1>10, <1>11, <1>12, <1>13,
     <1>14, <1>15

(* A new flash has no co-process, socket or result of an earlier one. *)
LEMMA BeginStep ==
  ASSUME NEW file, NEW z, FlashGuest(file, z)
  PROVE  FlashInv'
  BY DEF FlashGuest, Step, FlashInv, ProcInv, SockInv, CoProcs, Before, Prepared

(* The co-processes are made after the old data are gone. *)
LEMMA MakeStep ==
  ASSUME FlashInv, RpmbData \/ MakeVtpm
  PROVE  FlashInv'
<1> USE DEF Step, keepProcs, keepDisk
<1>1. /\ fpc \in {"rpmb", "vtpm"} /\ result # "killed" /\ result' # "killed"
      /\ UNCHANGED <<mon, counted, proc, left, sock>>
      /\ made \subseteq made'
  BY DEF RpmbData, MakeVtpm, Return, FlashInv, Before, rpmbVars
<1>2. \/ fpc' \in {"vtpm", "firmware"}
      \/ fpc' = "idle" /\ made' = {}
  BY DEF RpmbData, MakeVtpm, Return, FlashInv, Before
<1>3. fpc' \in {"vtpm", "firmware"} /\ "rpmb" \in made' => rdata' # "old"
  BY DEF RpmbData, MakeVtpm, Return, FlashInv, Before, Prepared, rpmbVars
<1>4. ASSUME NEW c \in CoProcs PROVE ProcInv(c)'
  <2>1. ProcInv(c)
    BY DEF FlashInv
  <2>2. fpc' \in Past(c) => made' = {}
    BY <1>2 DEF Past
  <2>3. fpc # WaitPoint(c)
    BY <1>1 DEF WaitPoint
  <2> QED
    BY <1>1, <2>1, <2>2, <2>3 DEF ProcInv
<1>5. SockInv'
  BY <1>1, <1>2 DEF FlashInv, SockInv
<1> QED
  BY <1>1, <1>2, <1>3, <1>4, <1>5 DEF FlashInv, Before, Prepared

(* Run waits at the point of its co-process until the child is counted. *)
LEMMA RunStep ==
  ASSUME FlashInv, RunRpmb \/ RunVtpm
  PROVE  FlashInv'
<1> USE DEF Step, keepDisk
<1>1. CASE \E c \in made : /\ fpc' = WaitPoint(c) /\ mon' = [mon EXCEPT ![c] = TRUE]
                           /\ c \in CoProcs /\ UNCHANGED result
  <2>1. PICK c \in made : /\ fpc' = WaitPoint(c) /\ mon' = [mon EXCEPT ![c] = TRUE]
                          /\ c \in CoProcs /\ UNCHANGED result
    BY <1>1
  <2>2. /\ fpc \in {"run_rpmb", "run_vtpm"} /\ result # "killed"
        /\ fpc' \in {"wait_rpmb", "wait_vtpm"}
        /\ UNCHANGED <<made, counted, proc, left, sock>>
        /\ "rpmb" \in made => rdata' # "old"
    BY <2>1 DEF RunRpmb, RunVtpm, Return, FlashInv, Prepared, WaitPoint, rpmbVars, CoProcs
  <2>3. ASSUME NEW d \in CoProcs PROVE ProcInv(d)'
    <3>1. ProcInv(d) /\ fpc # WaitPoint(d) /\ fpc' \notin Past(d)
      BY <2>2 DEF FlashInv, WaitPoint, Past
    <3>2. mon' [d] = (mon[d] \/ d = c)
      BY <2>1 DEF FlashInv
    <3> QED
      BY <2>1, <2>2, <3>1, <3>2 DEF ProcInv
  <2>4. SockInv'
    BY <2>1, <2>2 DEF FlashInv, SockInv
  <2> QED
    BY <2>1, <2>2, <2>3, <2>4 DEF FlashInv, Before, Prepared
<1>2. CASE UNCHANGED <<coVars, rpmbVars>>
  BY <1>2, FlashMoves DEF RunRpmb, RunVtpm, Return, Before, Prepared, WaitPoint, CoProcs, Run,
     coVars, rpmbVars
<1> QED
  BY <1>1, <1>2 DEF RunRpmb, RunVtpm, Run, coVars, rpmbVars, CoProcs, WaitPoint

(* The monitor thread, and the co-processes themselves. *)
LEMMA ChildStep ==
  ASSUME FlashInv, NEW c \in CoProcs, Spawn(c) \/ StoreChild(c) \/ Ends(c)
  PROVE  FlashInv'
<1>0. UNCHANGED <<fpc, made, mon, left, rdata, sock, result>>
  BY DEF Spawn, StoreChild, Ends, rpmbVars
<1>1. CASE Spawn(c)
  <2>1. /\ mon[c] /\ proc[c] = "none"
        /\ proc'[c] \in {"running", "exited"}
        /\ \A d \in CoProcs \ {c} : proc'[d] = proc[d] /\ counted'[d] = counted[d]
        /\ proc' \in [CoProcs -> {"none", "running", "exited"}]
        /\ counted' \in [CoProcs -> BOOLEAN]
    BY <1>1 DEF Spawn, FlashInv
  <2>2. ASSUME NEW d \in CoProcs PROVE ProcInv(d)'
    <3>1. ProcInv(d)
      BY DEF FlashInv
    <3>2. WaitPoint(d) \notin Past(d)
      BY DEF WaitPoint, Past
    <3>3. CASE d = c
      BY <1>0, <2>1, <3>1, <3>2, <3>3 DEF ProcInv
    <3>4. CASE d # c
      BY <1>0, <2>1, <3>1, <3>4 DEF ProcInv
    <3> QED
      BY <3>3, <3>4
  <2> QED
    BY <1>0, <2>1, <2>2 DEF FlashInv, SockInv
<1>2. CASE StoreChild(c)
  BY <1>0, <1>2 DEF StoreChild, FlashInv, ProcInv, SockInv
<1>3. CASE Ends(c)
  BY <1>0, <1>3 DEF Ends, FlashInv, ProcInv, SockInv
<1> QED
  BY <1>1, <1>2, <1>3

(* rpmb_dev makes its socket while it runs. *)
LEMMA SockStep ==
  ASSUME FlashInv, CreateSock
  PROVE  FlashInv'
<1>1. /\ proc["rpmb"] = "running" /\ sock' = TRUE
      /\ UNCHANGED <<fpc, made, mon, counted, proc, left, rdata, result>>
  BY DEF CreateSock, coVars
<1>2. ProcInv("rpmb") /\ Past("rpmb") = {"sock", "base_rpmb", "idle"}
  BY DEF FlashInv, CoProcs, Past
<1>3. SockInv'
  BY <1>1, <1>2 DEF ProcInv, SockInv
<1> QED
  BY <1>1, <1>3 DEF FlashInv, ProcInv

(* Stop ends the co-process, or gives it up: SIGTERM was ignored, or c_    *)
(* not stored yet.                                                         *)
LEMMA StopStep ==
  ASSUME FlashInv, NEW c \in CoProcs, NEW at, NEW next, Stop(c, at, next),
         fpc \notin {"idle", "wait_rpmb", "wait_vtpm"},
         next \notin Before \cup Prepared,
         \A d \in CoProcs \ {c} : next \in Past(d) => at \in Past(d),
         next # "base_rpmb",
         next = "idle" => at = "base_rpmb" /\ c = "rpmb"
  PROVE  FlashInv'
<1> USE DEF Step, keepDisk
<1>1. /\ fpc = at /\ fpc' = next /\ result # "killed" /\ result' = result
      /\ UNCHANGED <<made, counted, rdata, sock>>
  BY DEF Stop, FlashInv, rpmbVars
<1>2. /\ \A d \in CoProcs \ {c} :
           mon'[d] = mon[d] /\ proc'[d] = proc[d] /\ (d \in left' <=> d \in left)
      /\ mon' \in [CoProcs -> BOOLEAN]
      /\ proc' \in [CoProcs -> {"none", "running", "exited"}]
  BY DEF Stop, FlashInv
<1>3. ProcInv(c) /\ fpc # WaitPoint(c)
  BY DEF FlashInv, WaitPoint
<1>4. /\ (proc'[c] = "running" => c \in left') /\ (c \in left => c \in left')
      /\ (mon'[c] => mon[c]) /\ (c \in left' => c \in left \/ mon[c])
      /\ proc'[c] = "none" => proc[c] = "none"
  <2>1. CASE mon[c] /\ child[c] /\ proc[c] = "running"
    BY <1>3, <2>1 DEF Stop, FlashInv, ProcInv
  <2>2. CASE ~(mon[c] /\ child[c] /\ proc[c] = "running")
    <3>1. /\ left' = IF mon[c] /\ ~child[c] THEN left \cup {c} ELSE left
          /\ mon' = mon /\ proc' = proc
      BY <2>2 DEF Stop
    <3> QED
      BY <1>3, <2>2, <3>1 DEF FlashInv, ProcInv
  <2> QED
    BY <2>1, <2>2
<1>5. ProcInv(c)'
  BY <1>1, <1>3, <1>4 DEF ProcInv
<1>6. ASSUME NEW d \in CoProcs \ {c} PROVE ProcInv(d)'
  <2>1. ProcInv(d) /\ fpc # WaitPoint(d)
    BY DEF FlashInv, WaitPoint
  <2> QED
    BY <1>1, <1>2, <2>1 DEF ProcInv
<1>7. SockInv'
  BY <1>1, <1>4 DEF FlashInv, SockInv
<1> QED
  BY <1>1, <1>2, <1>5, <1>6, <1>7 DEF FlashInv

(* The destructors stop the vtpm, then rpmb_dev, and remove its socket     *)
(* between the two calls of Stop.                                          *)
LEMMA DestroyStep ==
  ASSUME FlashInv, DestroyVtpm \/ DestroyRpmb
  PROVE  FlashInv'
<1> USE DEF CoProcs, Before, Prepared, Past
<1>1. CASE Stop("vtpm", "stop_vtpm", "base_vtpm")
  <2>1. fpc = "stop_vtpm"
    BY <1>1 DEF Stop, Step
  <2> QED
    BY <1>1, <2>1, StopStep
<1>2. CASE Stop("vtpm", "base_vtpm", "stop_rpmb")
  <2>1. fpc = "base_vtpm"
    BY <1>2 DEF Stop, Step
  <2> QED
    BY <1>2, <2>1, StopStep
<1>3. CASE Stop("rpmb", "stop_rpmb", "sock")
  <2>1. fpc = "stop_rpmb"
    BY <1>3 DEF Stop, Step
  <2> QED
    BY <1>3, <2>1, StopStep
<1>4. CASE Stop("rpmb", "base_rpmb", "idle")
  <2>1. fpc = "base_rpmb"
    BY <1>4 DEF Stop, Step
  <2> QED
    BY <1>4, <2>1, StopStep
<1>5. CASE fpc = "sock" /\ fpc' = "base_rpmb" /\ sock' = FALSE /\ UNCHANGED <<coVars, rdata, result>>
  <2>1. ASSUME NEW c \in CoProcs PROVE ProcInv(c)'
    BY <1>5 DEF FlashInv, ProcInv, WaitPoint, coVars
  <2> QED
    BY <1>5, <2>1 DEF FlashInv, SockInv, coVars
<1> QED
  BY <1>1, <1>2, <1>3, <1>4, <1>5 DEF DestroyVtpm, DestroyRpmb, Step

(* The invariant of the flash holds in every reachable state. *)
THEOREM FlashInvariant == Spec => []FlashInv
<1>1. ASSUME FlashInv, UNCHANGED flashVars PROVE FlashInv'
  BY <1>1 DEF FlashInv, ProcInv, SockInv, flashVars, coVars, rpmbVars
<1>2. ASSUME FlashInv, FlashStep PROVE FlashInv'
  BY <1>2, FlashMovesAll, MakeStep, RunStep, DestroyStep DEF FlashStep
<1>3. ASSUME FlashInv, Killed PROVE FlashInv'
  BY <1>3 DEF Killed, FlashInv, ProcInv, SockInv, Before, Prepared, rpmbVars
<1>4. ASSUME FlashInv, FlashBegins PROVE FlashInv'
  BY <1>4, BeginStep DEF FlashBegins
<1>5. ASSUME FlashInv, [Next]_vars PROVE FlashInv'
  BY <1>1, <1>2, <1>3, <1>4, <1>5, ChildStep, SockStep DEF Next, vars
<1> QED
  BY <1>5, FlashInit, PTL DEF Spec

(* The flashed guest never meets RPMB data of the guest it replaces,       *)
(* whatever the configuration and however earlier flashes ended            *)
(* (FlashWithQemu).                                                        *)
THEOREM RpmbIsFresh == Spec => []FreshRpmb
<1>1. FlashInv => FreshRpmb
  BY DEF FlashInv, FreshRpmb, Prepared
<1> QED
  BY <1>1, FlashInvariant, PTL

(* After FlashGuest has returned on any path, no co-process that Stop could*)
(* see and end is running, and the socket is gone (the destructors of      *)
(* VmCoProcVtpm, VmCoProcRpmb and VmProcSimple).                           *)
THEOREM CoProcsAreGone == Spec => []CoProcsGone
<1>1. FlashInv => CoProcsGone
  BY DEF FlashInv, ProcInv, SockInv, CoProcsGone, Past, CoProcs
<1> QED
  BY <1>1, FlashInvariant, PTL

=============================================================================
