------------------------------ MODULE CidPool ------------------------------
(***************************************************************************)
(* VsockCidPool (guest/vsock_cid_pool.cc) and its use by                   *)
(* VmBuilderQemu::BuildVsockCmd.  The bitset bs_ is the set of the indices *)
(* whose bit is set, which are the free context identifiers.               *)
(***************************************************************************)
EXTENDS Naturals, Sequences, FiniteSetsExt

CONSTANTS
  CidStart,     \* kCiVCidStart, 1000 in the code
  MaxCidNum,    \* kCivMaxCidNum, 10000 in the code
  UintModulus   \* 2^32, the width of the uint32_t parameter cid

ASSUME CidAssumption ==
  /\ CidStart \in Nat /\ MaxCidNum \in Nat /\ UintModulus \in Nat
  /\ 3 <= CidStart /\ CidStart < MaxCidNum /\ MaxCidNum <= UintModulus

(* 0, 1 and 2 are never given to a guest; 0 also means "no cid". *)
GuestCids == 3..(MaxCidNum - 1)

AllFree == 0..(MaxCidNum - 1)

(* GetCid(): the first free identifier from kCiVCidStart on. *)
GetCid(bs) ==
  LET above == {i \in bs : i >= CidStart}
  IN  IF above = {} THEN 0 ELSE Min(above)

(* Mutant: an identifier in use is given out again. *)
GetThisCidUnchecked(bs, value) ==
  LET cid == value % UintModulus
  IN  IF cid \in GuestCids THEN cid ELSE 0

(* GetCid(cid): this identifier, narrowed to 32 bits by the call. *)
GetThisCid(bs, value) ==
  LET cid == value % UintModulus
  IN  IF cid \in GuestCids /\ cid \in bs THEN cid ELSE 0

(* BuildVsockCmd: str_cid is the option vsock_cid, <<>> when it is empty.  *)
(* The result 0 makes the build fail.                                      *)
Acquire(bs, str_cid) ==
  IF str_cid = <<>> THEN GetCid(bs) ELSE GetThisCid(bs, Head(str_cid))

(* ReleaseCid: whoever calls it, and however often. *)
ReleaseCid(bs, cid) ==
  IF cid \in GuestCids THEN bs \cup {cid} ELSE bs
=============================================================================
