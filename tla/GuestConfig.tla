---------------------------- MODULE GuestConfig ----------------------------
(***************************************************************************)
(* The configuration file of a guest: class CivConfig                      *)
(* (guest/config_parser.cc) and the form of "vm-manager --create", class   *)
(* CivTui (guest/tui.cc), which writes the file that the flasher and the   *)
(* server read.  Several forms may be open for one name.                   *)
(*                                                                         *)
(* A property tree is a function from groups to functions from keys to     *)
(* values.  A value is a sequence of tokens: empty for an empty text, one  *)
(* token for a text, one for each device in a comma separated list.        *)
(***************************************************************************)
EXTENDS Naturals, Sequences, TLC

CONSTANTS
  Tuis,       \* the forms opened for one name of a guest
  Editors,    \* those whose user changes the defaults of the choices
  Texts,      \* the ways to fill the text fields
  PciLines    \* the devices that lspci lists, in its order

(* The input fields of the form and where SetConfToPtree puts them. *)
Always ==
  [flashfiles |-> <<"global", "flashfiles">>, emulator |-> <<"emulator", "path">>,
   memory     |-> <<"memory", "size">>,       vcpu |-> <<"vcpu", "num">>,
   disk_size  |-> <<"disk", "size">>,         disk_path |-> <<"disk", "path">>,
   swtpm_bin  |-> <<"vtpm", "bin_path">>,     swtpm_data |-> <<"vtpm", "data_dir">>,
   rpmb_bin   |-> <<"rpmb", "bin_path">>,     rpmb_data |-> <<"rpmb", "data_dir">>,
   adb_port   |-> <<"net", "adb_port">>,      fastboot_port |-> <<"net", "fastboot_port">>,
   batt_med   |-> <<"mediation", "battery_med">>,
   therm_med  |-> <<"mediation", "thermal_med">>,
   aaf        |-> <<"aaf", "path">>,          tkeep |-> <<"guest_control", "time_keep">>,
   pmctl      |-> <<"guest_control", "pm_control">>,
   extra      |-> <<"extra", "cmd">>]

TextFields ==
  DOMAIN Always \cup {"firm_unified", "firm_splited_code", "firm_splited_data",
                      "gvtg_uuid"}

ASSUME FormAssumption ==
  /\ Editors \subseteq Tuis
  /\ Texts \subseteq [TextFields -> Seq(STRING)]
  /\ PciLines \in Seq(STRING)

(* firmware_type_, vgpu_type_ and gvtg_ver_, which the selections index. *)
FirmwareType == <<"unified", "splited">>
VgpuType == <<"headless", "virtio", "ramfb", "GVT-g", "GVT-d">>
GvtgVer == <<"i915-GVTg_V5_1", "i915-GVTg_V5_2", "i915-GVTg_V5_4", "i915-GVTg_V5_8">>

-----------------------------------------------------------------------------
(* CivConfig *)

kConfigMap ==
  [global   |-> {"name", "flashfiles", "vsock_cid", "wait_ready"},
   emulator |-> {"type", "path"},
   memory   |-> {"size"},
   vcpu     |-> {"num"},
   firmware |-> {"type", "path", "code", "vars"},
   disk     |-> {"size", "path"},
   graphics |-> {"type", "gvtg_version", "vgpu_uuid", "monitor", "outputs"},
   display  |-> {"options"},
   net      |-> {"model", "adb_port", "fastboot_port"},
   vtpm     |-> {"bin_path", "data_dir"},
   rpmb     |-> {"bin_path", "data_dir"},
   aaf      |-> {"path", "support_suspend", "audio_type"},
   passthrough |-> {"passthrough_pci"},
   bluetooth |-> {"hci_down"},
   audio    |-> {"disable_emulation"},
   mediation |-> {"battery_med", "thermal_med", "camera_med"},
   guest_control |-> {"time_keep", "pm_control", "vinput"},
   extra    |-> {"cmd", "service", "pwr_ctrl_multios"}]

EmptyTree == [g \in {} |-> [k \in {} |-> <<>>]]

(* Mutant: one key of the form is not in the table. *)
SanitizeOptsStrict(t) ==
  \A g \in DOMAIN t :
    g \in DOMAIN kConfigMap /\ DOMAIN t[g] \subseteq kConfigMap[g] \ {"gvtg_version"}

SanitizeOpts(t) ==
  \A g \in DOMAIN t : g \in DOMAIN kConfigMap /\ DOMAIN t[g] \subseteq kConfigMap[g]

(* A text of blanks only is empty once it is trimmed. *)
Trim(v) == IF v = <<" ">> THEN <<>> ELSE v

GetValue(t, g, k) ==
  IF g \in DOMAIN t /\ k \in DOMAIN t[g] THEN Trim(t[g][k]) ELSE <<>>

(* SetValue for each <<group, key, value>> of a set of entries: an empty   *)
(* value leaves what the tree has.                                         *)
SetValues(t, entries) ==
  LET puts == {e \in entries : e[3] # <<>>}
      keys(g) == {e[2] : e \in {x \in puts : x[1] = g}}
      value(g, k) == (CHOOSE e \in puts : e[1] = g /\ e[2] = k)[3]
      old(g) == IF g \in DOMAIN t THEN DOMAIN t[g] ELSE {}
  IN  [g \in DOMAIN t \cup {e[1] : e \in puts} |->
         [k \in keys(g) \cup old(g) |-> IF k \in keys(g) THEN value(g, k) ELSE t[g][k]]]

NoFile == [there |-> FALSE, tree |-> EmptyTree]
File(t) == [there |-> TRUE, tree |-> t]

(* ReadConfigFile returns true, and the tree it leaves in cfg_data_. *)
ReadConfigFile(file) == file.there /\ SanitizeOpts(file.tree)

(* WriteConfigFile returns true.  An empty tree is not written. *)
WriteConfigFile(file, t) == file.there /\ (t = EmptyTree \/ SanitizeOpts(t))

(* Mutant: the groups that the file has already are kept. *)
WrittenMerged(file, t) == File(t @@ file.tree)

Written(file, t) == IF t = EmptyTree THEN file ELSE File(t)

-----------------------------------------------------------------------------
VARIABLES
  ini,       \* the file <name>.ini
  upc,       \* program point of each form
  form,      \* its text fields and selections
  checked,   \* the devices ticked in its editor
  disp,      \* pt_pci_disp_, the devices it displays as selected
  tab,       \* pt_pci_tab_id_: 0 shows the selection, 1 the editor
  tree,      \* civ_config_
  retried    \* an earlier SAVE of this form wrote nothing

formVars == <<form, checked, disp, tab>>
tuiVars == <<ini, upc, formVars, tree, retried>>

Blank == [x \in TextFields |-> <<>>]
Fresh == [text |-> Blank, firm |-> 0, vgpu |-> 1, ver |-> 1]

TuiInit ==
  /\ ini = NoFile
  /\ upc = [p \in Tuis |-> "form"]
  /\ form = [p \in Tuis |-> Fresh]
  /\ checked = [p \in Tuis |-> {}]
  /\ disp = [p \in Tuis |-> <<>>]
  /\ tab = [p \in Tuis |-> 0]
  /\ tree = [p \in Tuis |-> EmptyTree]
  /\ retried = [p \in Tuis |-> FALSE]

Goto(p, from, to) ==
  /\ upc[p] = from
  /\ upc' = [upc EXCEPT ![p] = to]

(* The user fills the text fields and turns a selector.  (The version of   *)
(* GVT-g only counts while that type is selected.)                         *)
Type(p) ==
  /\ upc[p] = "form"
  /\ \E t \in Texts : form' = [form EXCEPT ![p].text = t]
  /\ UNCHANGED <<ini, upc, checked, disp, tab, tree, retried>>

Select(p) ==
  /\ upc[p] = "form" /\ p \in Editors
  /\ \/ \E i \in 1..Len(FirmwareType) : form' = [form EXCEPT ![p].firm = i - 1]
     \/ \E i \in 1..Len(VgpuType) : form' = [form EXCEPT ![p].vgpu = i - 1, ![p].ver = 1]
     \/ /\ form[p].vgpu = 3       \* the versions are shown for GVT-g only
        /\ \E i \in 1..Len(GvtgVer) : form' = [form EXCEPT ![p].ver = i - 1]
  /\ UNCHANGED <<ini, upc, checked, disp, tab, tree, retried>>

(* A check box of the list of devices, which only the editor shows. *)
Check(p) ==
  /\ upc[p] = "form" /\ p \in Editors /\ tab[p] = 1
  /\ \E i \in DOMAIN PciLines :
       LET d == PciLines[i]
       IN  checked' = [checked EXCEPT ![p] =
                         IF d \in @ THEN @ \ {d} ELSE @ \cup {d}]
  /\ UNCHANGED <<ini, upc, form, disp, tab, tree, retried>>

(* The devices of a set in the order of the list. *)
Ticked(S) ==
  LET F[i \in 0..Len(PciLines)] ==
        IF i = 0 THEN <<>>
        ELSE IF PciLines[i] \in S THEN Append(F[i - 1], PciLines[i]) ELSE F[i - 1]
  IN  F[Len(PciLines)]

(* Mutant: the list is taken over when the editor opens. *)
ClickOnEdit(p) ==
  /\ upc[p] = "form" /\ p \in Editors
  /\ disp' = IF tab[p] = 1 THEN disp
             ELSE [disp EXCEPT ![p] = Ticked(checked[p])]
  /\ tab' = [tab EXCEPT ![p] = 1 - @]
  /\ UNCHANGED <<ini, upc, form, checked, tree, retried>>

(* The button "Edit" or "Done". *)
PtPciClickButton(p) ==
  /\ upc[p] = "form" /\ p \in Editors
  /\ disp' = [disp EXCEPT ![p] = Ticked(checked[p])]
  /\ tab' = [tab EXCEPT ![p] = 1 - @]
  /\ UNCHANGED <<ini, upc, form, checked, tree, retried>>

(* SetConfToPtree: every text field, the firmware of the selected type,    *)
(* the graphics with the version and the identifier of GVT-g, and the      *)
(* displayed devices.                                                      *)
SetConfToPtree(p) ==
  LET f == form[p]
      text == f.text
  IN  {<<Always[x][1], Always[x][2], text[x]>> : x \in DOMAIN Always}
      \cup {<<"global", "name", <<"name">> >>,
            <<"firmware", "type", <<FirmwareType[f.firm + 1]>> >>,
            <<"graphics", "type", <<VgpuType[f.vgpu + 1]>> >>,
            <<"passthrough", "passthrough_pci", disp[p]>>}
      \cup (IF f.firm = 0
              THEN {<<"firmware", "path", text.firm_unified>>}
              ELSE {<<"firmware", "code", text.firm_splited_code>>,
                    <<"firmware", "vars", text.firm_splited_data>>})
      \cup (IF f.vgpu # 3 THEN {}
             ELSE {<<"graphics", "gvtg_version", <<GvtgVer[f.ver + 1]>> >>,
                   <<"graphics", "vgpu_uuid", text.gvtg_uuid>>})

(* SaveOn: the file must not exist (otherwise only the status bar changes) *)
SaveExists(p) ==
  /\ ~ini.there
  /\ Goto(p, "form", "create")
  /\ UNCHANGED <<ini, formVars, tree, retried>>

(* it is created empty, which may fail unnoticed; civ_config_ is filled;   *)
SaveCreate(p) ==
  /\ Goto(p, "create", "write")
  /\ ini' \in {File(EmptyTree), ini}
  /\ tree' = [tree EXCEPT ![p] = SetValues(@, SetConfToPtree(p))]
  /\ UNCHANGED <<formVars, retried>>

(* and WriteConfigFile replaces the file.  The form is left, unless it     *)
(* returned false.                                                         *)
SaveWrite(p) ==
  /\ IF WriteConfigFile(ini, tree[p])
       THEN /\ Goto(p, "write", "saved")
            /\ ini' = Written(ini, tree[p])
            /\ UNCHANGED retried
       ELSE /\ Goto(p, "write", "form")
            /\ retried' = [retried EXCEPT ![p] = TRUE]
            /\ UNCHANGED ini
  /\ UNCHANGED <<formVars, tree>>

(* The button "EXIT", or the terminal is closed, also during SaveOn. *)
Leave(p) ==
  /\ upc[p] \in {"form", "create", "write"}
  /\ upc' = [upc EXCEPT ![p] = IF @ = "form" THEN "closed" ELSE "killed"]
  /\ form' = [form EXCEPT ![p] = Fresh]
  /\ checked' = [checked EXCEPT ![p] = {}]
  /\ disp' = [disp EXCEPT ![p] = <<>>]
  /\ tab' = [tab EXCEPT ![p] = 0]
  /\ tree' = [tree EXCEPT ![p] = EmptyTree]
  /\ UNCHANGED <<ini, retried>>

TuiStep(p) ==
  \/ Type(p) \/ Select(p) \/ Check(p) \/ PtPciClickButton(p)
  \/ SaveExists(p) \/ SaveCreate(p) \/ SaveWrite(p) \/ Leave(p)

-----------------------------------------------------------------------------
(* The configuration that a form writes has only groups and keys of        *)
(* kConfigMap, whatever was typed, selected or tried before: SAVE does not *)
(* fail on the table, and no reader refuses the file.                      *)
FormAccepted ==
  /\ \A p \in Tuis : upc[p] = "write" => SanitizeOpts(tree[p])
  /\ \A p \in Tuis : upc[p] = "saved" => ReadConfigFile(ini)

(* When no form is in SaveOn and none died in it, a file that exists is    *)
(* the whole configuration of one saved form, also when two forms have     *)
(* passed the test for the file together.                                  *)
SavedWhole ==
  ini.there /\ (\A p \in Tuis : upc[p] \in {"form", "saved", "closed"}) =>
    \E p \in Tuis : upc[p] = "saved" /\ ini.tree = tree[p]

(* What the readers of a saved file get is what the screen showed: every   *)
(* text without its blanks, the paths of the selected kind of firmware     *)
(* only, and exactly the ticked devices, provided that their editor was    *)
(* closed.  A SAVE that failed before is excluded: fields cleared since    *)
(* then keep their old value in civ_config_.                               *)
SavedAsShown ==
  \A p \in Tuis : upc[p] = "saved" /\ ~retried[p] =>
    LET text == form[p].text
        Get(g, k) == GetValue(tree[p], g, k)
        Given(here, x) == IF here THEN Trim(text[x]) ELSE <<>>
    IN  /\ \A x \in DOMAIN Always : Get(Always[x][1], Always[x][2]) = Trim(text[x])
        /\ Get("firmware", "path") = Given(form[p].firm = 0, "firm_unified")
        /\ Get("firmware", "code") = Given(form[p].firm = 1, "firm_splited_code")
        /\ Get("firmware", "vars") = Given(form[p].firm = 1, "firm_splited_data")
        /\ Get("graphics", "vgpu_uuid") =
             Given(Get("graphics", "type") = <<"GVT-g">>, "gvtg_uuid")
        /\ tab[p] = 0 => Get("passthrough", "passthrough_pci") =
             Trim(Ticked(checked[p]))
=============================================================================
