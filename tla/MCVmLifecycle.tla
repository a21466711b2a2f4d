--------------------------- MODULE MCVmLifecycle ---------------------------
(* Model of VmLifecycle for TLC: the options vsock_cid of the models. *)
EXTENDS VmLifecycle

NameSymmetry == Permutations(Names)

AutoOnly == {<<>>}

(* 12 is narrowed to 4, the first identifier of the automatic choice. *)
AutoOrWide == {<<>>, <<12>>}
=============================================================================
