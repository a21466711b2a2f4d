----------------------------- MODULE MCFlasher -----------------------------
(* Flasher for TLC, with 4 GB as 4 units. *)
EXTENDS Flasher

VARIABLE scene   \* which of two parts of the behaviours is explored

CONSTANTS p1, p2

MCTuis == {p1, p2}
MCEditors == {p1}
MCPciLines == <<"dev1", "dev2">>

(* All fields filled; no co-processes, and a path of blanks. *)
Full == [x \in TextFields |-> <<"text">>]
Sparse == [Full EXCEPT !.rpmb_bin = <<>>, !.swtpm_data = <<" ">>, !.gvtg_uuid = <<>>]
MCTexts == {Full, Sparse}

(* By hand: without a type of firmware, and without a vtpm. *)
NoFirmware == [g \in {"global", "emulator", "rpmb"} |->
                 [k \in kConfigMap[g] \ {"type"} |-> <<"text">>]]
MCHandWritten == {NoFirmware}

Image(name, size) == [name |-> name, part |-> 0, size |-> size, new |-> TRUE]
MCFlashfiles ==
  {NoZip, [kind |-> "raw", files |-> {}],
   [kind |-> "zip", files |-> {Image("boot.img", 1), Image("super.img", 4)}],
   [kind |-> "zip", files |-> {Image("boot.img", 7)}],
   [kind |-> "zip", files |-> {Image("disk.img", 5)}]}

(* Either p1 and p2 are edited and no flash begins, or flashes run beside  *)
(* p1, of which only the texts and the firmware change.  Edits are only    *)
(* seen by SAVE: in the second scene, p1 is edited before the first flash  *)
(* begins; in the first, p2 is used when p1 is not edited any more.        *)
(* Only p2 tries again after a failure, beside a p1 that nobody fills.     *)
Edited(p) == upc'[p] = "form" /\ form'[p] # Fresh

MCInit == Init /\ scene \in {"forms", "flash"}
MCNext ==
  /\ Next
  /\ UNCHANGED scene
  /\ ~retried'[p1] /\ (retried'[p2] => form'[p1] = Fresh)
  /\ scene = "forms" =>
       /\ UNCHANGED fpc
       /\ upc[p1] = "form" => upc'[p2] = "form" /\ ~Edited(p2)
  /\ scene = "flash" =>
       /\ upc'[p2] = "form" /\ ~Edited(p2)
       /\ form'[p1].vgpu = 1 /\ tab'[p1] = 0
       /\ <<fpc', result'>> # <<"idle", "none">> => ~Edited(p1)

MCSpec == MCInit /\ [][MCNext]_<<vars, scene>> /\ Fairness
=============================================================================
