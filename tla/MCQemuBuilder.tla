--------------------------- MODULE MCQemuBuilder ---------------------------
(* Small hosts for QemuBuilder: a GPU, two devices that share an IOMMU     *)
(* group, and a device on its own.                                         *)
EXTENDS QemuBuilder

Groups == [d \in Devs |-> IF d \in {"nic", "usb"} THEN <<"nic", "usb">> ELSE <<d>>]

(* Every device has its own identifier. *)
IdsDistinct == [d \in Devs |-> CASE d = "gpu" -> 0 [] d = "nic" -> 1
                                 [] d = "usb" -> 2 [] d = "nvme" -> 3]

(* One machine has the GPU and a device of its own, one both devices of a  *)
(* group, and one nothing.                                                 *)
GpuAndGroup ==
  [b \in Vms |->
     CASE b = "vm1" ->
            [graphics |-> "GVT-d", pci |-> <<"nvme">>, power |-> TRUE,
             aaf |-> TRUE, suspend |-> "true", audio |-> ""]
       [] b = "vm2" ->
            [graphics |-> "virtio", pci |-> <<"nic", "usb">>, power |-> TRUE,
             aaf |-> TRUE, suspend |-> "", audio |-> "sof-hda"]
       [] b = "vm3" ->
            [graphics |-> "ramfb", pci |-> <<>>, power |-> FALSE,
             aaf |-> FALSE, suspend |-> "", audio |-> ""]]

(* The devices and configurations keep the machines apart. *)
ASSUME MachinesApart == Apart

(* The adaptation file is not there, or has a key of ours twice, and others. *)
NoneOrOne ==
  {NoAaf, AafFile(<< <<"camera", "usb">>, <<"gpu-type", "auto">>, <<"touch", "on">>,
                     <<"gpu-type", "none">> >>)}
=============================================================================
