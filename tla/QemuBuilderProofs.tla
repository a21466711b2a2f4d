------------------------- MODULE QemuBuilderProofs -------------------------
(***************************************************************************)
(* For every set of machines, configurations and host devices: the sound   *)
(* module that a builder removed is loaded again, and the adaptation file  *)
(* has what the builder set.  On hosts that keep the machines apart, the   *)
(* devices of a running machine stay with vfio-pci, and come back when it  *)
(* has ended.                                                              *)
(***************************************************************************)
EXTENDS QemuBuilder, TotalsTheorems

Calls == {"sound", "pci", "socket"}
Owes(b) == \E i \in 1..Len(end_call[b]) : end_call[b][i] = "sound"

(* While the sound module is away, some builder still has the callback     *)
(* that loads it, or a killed server took the callback with it.            *)
SoundInv ==
  /\ bpc = [b \in Vms |-> bpc[b]]
  /\ end_call \in [Vms -> Seq(Calls)]
  /\ \A b \in Vms : bpc[b] \in {"new", "gone", "failed"} => end_call[b] = <<>>
  /\ sound \/ \E b \in Vms : bpc[b] = "killed" \/ Owes(b)

(* The module is loaded at first. *)
LEMMA SoundInit == Init => SoundInv
  BY DEF Init, SoundInv

(* A builder that neither starts, ends nor touches its callbacks. *)
LEMMA SoundMoves ==
  ASSUME SoundInv, UNCHANGED <<sound, end_call>>, NEW b \in Vms,
         \/ UNCHANGED bpc
         \/ \E to : /\ bpc' = [bpc EXCEPT ![b] = to]
                    /\ to \in {"new", "gone", "failed"} => end_call[b] = <<>>
                    /\ bpc[b] # "killed"
  PROVE  SoundInv'
  BY DEF SoundInv, Owes

(* A builder appends a callback. *)
LEMMA SoundAppends ==
  ASSUME SoundInv, NEW b \in Vms, NEW call \in Calls,
         end_call' = [end_call EXCEPT ![b] = Append(@, call)],
         sound' = sound \/ (call = "sound" /\ sound' = FALSE),
         NEW to, bpc' = [bpc EXCEPT ![b] = to], to \notin {"new", "gone", "failed"},
         bpc[b] # "killed"
  PROVE  SoundInv'
<1>1. /\ end_call[b] \in Seq(Calls) /\ end_call'[b] = Append(end_call[b], call)
      /\ \A a \in Vms \ {b} : end_call'[a] = end_call[a] /\ bpc'[a] = bpc[a]
      /\ bpc'[b] = to
  BY DEF SoundInv
<1>2. /\ Len(end_call'[b]) = Len(end_call[b]) + 1 /\ end_call'[b] \in Seq(Calls)
      /\ end_call'[b][Len(end_call[b]) + 1] = call
      /\ \A i \in 1..Len(end_call[b]) : end_call'[b][i] = end_call[b][i]
      /\ Len(end_call[b]) \in Nat
  BY <1>1
<1>3. (call = "sound" => Owes(b)') /\ (Owes(b) => Owes(b)')
  BY <1>2 DEF Owes
<1>4. \A a \in Vms \ {b} : Owes(a) => Owes(a)'
  BY <1>1 DEF Owes
<1>5. sound' \/ \E a \in Vms : bpc'[a] = "killed" \/ Owes(a)'
  BY <1>1, <1>3, <1>4 DEF SoundInv
<1> QED
  BY <1>1, <1>2, <1>5 DEF SoundInv

(* What Head and Tail make of a list that is not empty. *)
LEMMA TailOf ==
  ASSUME NEW s \in Seq(Calls), s # <<>>
  PROVE  /\ Len(s) \in Nat \ {0} /\ Head(s) = s[1]
         /\ Len(Tail(s)) = Len(s) - 1
         /\ \A i \in 1..(Len(s) - 1) : Tail(s)[i] = s[i + 1]
  OBVIOUS

(* A callback is taken from the front; only the one for the module loads it. *)
LEMMA SoundCalls ==
  ASSUME SoundInv, NEW b \in Vms, NEW call \in Calls, NextCall(b, call),
         call = "sound" => sound' = TRUE,
         call # "sound" => sound' = sound
  PROVE  SoundInv'
<1>1. /\ end_call[b] \in Seq(Calls) /\ end_call[b] # <<>> /\ Head(end_call[b]) = call
      /\ end_call' = [end_call EXCEPT ![b] = Tail(end_call[b])]
      /\ bpc' = bpc /\ bpc[b] = "ending"
  BY DEF SoundInv, NextCall
<1>2. /\ \A a \in Vms \ {b} : end_call'[a] = end_call[a]
      /\ end_call'[b] = Tail(end_call[b])
  BY <1>1 DEF SoundInv
<1>3. end_call' \in [Vms -> Seq(Calls)]
  BY <1>1 DEF SoundInv
<1>4. CASE call # "sound"
  <2>1. /\ Len(end_call[b]) \in Nat \ {0} /\ end_call[b][1] = call
        /\ Len(end_call'[b]) = Len(end_call[b]) - 1
        /\ \A i \in 1..(Len(end_call[b]) - 1) : end_call'[b][i] = end_call[b][i + 1]
    BY <1>1, <1>2, TailOf
  <2>2. Owes(b) => Owes(b)'
    <3> SUFFICES ASSUME NEW i \in 1..Len(end_call[b]), end_call[b][i] = "sound"
                 PROVE  Owes(b)'
      BY DEF Owes
    <3>1. i # 1 /\ i - 1 \in 1..(Len(end_call[b]) - 1) /\ (i - 1) + 1 = i
      BY <1>4, <2>1
    <3>2. end_call'[b][i - 1] = "sound"
      BY <2>1, <3>1
    <3> QED
      BY <2>1, <3>1, <3>2 DEF Owes
  <2>3. \A a \in Vms \ {b} : Owes(a) => Owes(a)'
    BY <1>2 DEF Owes
  <2>4. sound' \/ \E a \in Vms : bpc'[a] = "killed" \/ Owes(a)'
    BY <1>1, <1>4, <2>2, <2>3 DEF SoundInv
  <2> QED
    BY <1>1, <1>2, <1>3, <2>4 DEF SoundInv
<1>5. CASE call = "sound"
  BY <1>1, <1>2, <1>3, <1>5 DEF SoundInv
<1> QED
  BY <1>4, <1>5

(* Every step of a machine. *)
LEMMA SoundStep ==
  ASSUME SoundInv, NEW b \in Vms, VmStep(b)
  PROVE  SoundInv'
<1> USE DEF Goto, hostVars, Calls
<1>1. CASE BuildBegin(b) \/ GpuDone(b) \/ ChecksPass(b) \/ ChecksFail(b)
  BY <1>1, SoundMoves DEF BuildBegin, GpuDone, ChecksPass, ChecksFail
<1>2. CASE PassDevice(b) \/ PassDone(b) \/ RestoreDevice(b)
  BY <1>2, SoundMoves DEF PassDevice, PassDone, RestoreDevice
<1>3. CASE PassRefused(b) \/ UnbindTimeout(b)
  BY <1>3, SoundMoves DEF PassRefused, UnbindTimeout, PassFalse
<1>4. CASE Built(b) \/ Start(b) \/ Listen(b) \/ Exit(b) \/ Gone(b)
  BY <1>4, SoundMoves DEF Built, Start, Listen, Exit, Gone
<1>5. CASE SoundCardHook(b)
  <2>1. CASE UNCHANGED <<sound, end_call>>
    BY <1>5, <2>1, SoundMoves DEF SoundCardHook
  <2>2. CASE sound' = FALSE /\ end_call' = [end_call EXCEPT ![b] = Append(@, "sound")]
    BY <1>5, <2>2, SoundAppends DEF SoundCardHook
  <2> QED
    BY <1>5, <2>1, <2>2 DEF SoundCardHook
<1>6. CASE SetPciDevicesCallback(b)
  <2>1. CASE pt[b] = {}
    BY <1>6, <2>1, SoundMoves DEF SetPciDevicesCallback
  <2>2. CASE pt[b] # {}
    BY <1>6, <2>2, SoundAppends DEF SetPciDevicesCallback
  <2> QED
    BY <2>1, <2>2
<1>7. CASE BuildExtraGuestPmCtrlCmd(b)
  BY <1>7, SoundAppends DEF BuildExtraGuestPmCtrlCmd
<1>8. CASE ProbeSound(b)
  BY <1>8, SoundCalls DEF ProbeSound
<1>9. CASE RemoveSocket(b)
  BY <1>9, SoundCalls DEF RemoveSocket
<1>10. CASE RestoreBegin(b)
  BY <1>10, SoundCalls DEF RestoreBegin
<1> QED
  BY <1>1, <1>2, <1>3, <1>4, <1>5, <1>6, <1>7, <1>8, <1>9, <1>10 DEF VmStep

(* Whatever is built, fails, ends or is killed, the sound module that      *)
(* SoundCardHook removed is loaded again when all builders are gone: for   *)
(* every number of machines and every configuration.                       *)
THEOREM SoundComesBack == Spec => []SoundBack
<1>1. ASSUME SoundInv, UNCHANGED vars PROVE SoundInv'
  BY <1>1 DEF SoundInv, Owes, vars, hostVars
<1>2. ASSUME SoundInv, NEW b \in Vms, FlushBegin(b) \/ FlushStep(b) PROVE SoundInv'
  BY <1>2, SoundMoves DEF FlushBegin, FlushStep, Goto, hostVars
<1>3. ASSUME SoundInv, Killed PROVE SoundInv'
  <2>1. /\ \A b \in Vms : bpc[b] \notin {"new", "gone", "failed"} => bpc'[b] = "killed"
        /\ \A b \in Vms : end_call'[b] = <<>>
        /\ bpc' = [b \in Vms |-> bpc'[b]]
        /\ end_call' \in [Vms -> Seq(Calls)] /\ sound' = sound
    BY <1>3 DEF Killed, hostVars
  <2>2. \A b \in Vms : Owes(b) \/ bpc[b] = "killed" => bpc[b] \notin {"new", "gone", "failed"}
    BY <1>3 DEF SoundInv, Owes
  <2> QED
    BY <1>3, <2>1, <2>2 DEF SoundInv
<1>4. ASSUME SoundInv, [Next]_vars PROVE SoundInv'
  BY <1>1, <1>2, <1>3, <1>4, SoundStep DEF Next
<1>5. SoundInv => SoundBack
  BY DEF SoundInv, SoundBack, Owes
<1> QED
  BY <1>4, <1>5, SoundInit, PTL DEF Spec
-----------------------------------------------------------------------------
(* The adaptation file *)

OurKeys == {"audio-type", "gpu-type", "suspend"}

(* The strings, with the ones of the code by name. *)
Words == STRING \cup OurKeys \cup {NoValue, "gvtd", "virtio", "true", "false"}
Lines == Seq(Words \X Words)

(* Line i is the first one with its key, which the builder set. *)
FirstOf(old, values, i) ==
  /\ old[i][1] \in OurKeys /\ values[old[i][1]] # NoValue
  /\ \A j \in 1..(i - 1) : old[j][1] # old[i][1]

(* What the loop over the lines makes of them and of data_. *)
CopiedTo(old, values, o, d) ==
  /\ Len(o) = Len(old)
  /\ \A i \in 1..Len(old) :
       o[i] = IF FirstOf(old, values, i) THEN <<old[i][1], values[old[i][1]]>> ELSE old[i]
  /\ \A k \in OurKeys :
       d[k] = IF \E i \in 1..Len(old) : FirstOf(old, values, i) /\ old[i][1] = k
                THEN NoValue ELSE values[k]

(* What Flush has at each of its points of the lines and data_ that it was *)
(* called with.                                                            *)
AafInv ==
  /\ data \in [OurKeys -> Words] /\ before.data \in [OurKeys -> Words]
  /\ before.lines \in Lines /\ out \in Lines
  /\ target.lines \in Lines /\ hidden.lines \in Lines
  /\ ~target.there => target.lines = <<>>
  /\ apc \in {"open", "copy"} => hidden.lines = before.lines /\ data = before.data
  /\ apc = "create" => before.lines = <<>> /\ data = before.data /\ out = <<>>
  /\ apc \in {"remove", "append"} => CopiedTo(before.lines, before.data, out, data)
  /\ AafFlushed

(* The keys are the three of the code. *)
LEMMA KeysAre == ToSet(Keys) = OurKeys /\ Keys[1] = "audio-type" /\ Keys[2] = "gpu-type"
                 /\ Keys[3] = "suspend"
<1>1. DOMAIN Keys = 1..3
  BY DEF Keys
<1>2. 1..3 = {1, 2, 3}
  OBVIOUS
<1>3. Keys[1] = "audio-type" /\ Keys[2] = "gpu-type" /\ Keys[3] = "suspend"
  BY DEF Keys
<1> QED
  BY <1>1, <1>2, <1>3 DEF ToSet, OurKeys

(* A file, any file, before the server starts. *)
LEMMA AafStarts == AafInit => AafInv
<1> SUFFICES ASSUME AafInit PROVE AafInv
  OBVIOUS
<1>0. /\ target.lines \in Seq(STRING \X STRING) /\ (~target.there => target = NoAaf)
      /\ NoAaf.lines = <<>>
  BY FilesAssumption DEF AafInit, NoAaf
<1>1. target.lines \in Lines /\ <<>> \in Lines
  BY <1>0 DEF Lines, Words
<1>2. NoData \in [OurKeys -> Words]
  BY KeysAre DEF NoData, Words
<1> QED
  BY <1>0, <1>1, <1>2 DEF AafInit, AafInv, AafFlushed

(* A step of the builders outside Flush. *)
LEMMA AafRest ==
  ASSUME AafInv, UNCHANGED aafVars
  PROVE  AafInv'
<1>1. /\ apc' = apc /\ data' = data /\ target' = target /\ hidden' = hidden
      /\ out' = out /\ before' = before
  BY DEF aafVars
<1>2. AafFlushed'
  BY <1>1 DEF AafInv, AafFlushed
<1> QED
  BY <1>1, <1>2 DEF AafInv

(* The value that a builder sets for each key. *)
LEMMA ValuesTyped ==
  ASSUME NEW b \in Vms
  PROVE  AafValues(b) \in [OurKeys -> Words]
<1>1. Config[b] \in ConfigType
  BY HostAssumption
<1>2. Config[b].suspend \in {NoValue, "true", "false"} /\ Config[b].audio \in STRING
  BY <1>1 DEF ConfigType
<1>3. Config[b].suspend \in Words /\ Config[b].audio \in Words
  BY <1>2 DEF Words
<1>4. NoData \in [OurKeys -> Words]
  BY KeysAre DEF NoData, Words
<1> QED
  BY <1>3, <1>4 DEF AafValues, Words

(* A line more. *)
LEMMA AddedIs ==
  ASSUME NEW s \in Lines, NEW k \in OurKeys, data \in [OurKeys -> Words]
  PROVE  /\ Added(s, k) \in Lines
         /\ Len(s) \in Nat
         /\ Len(Added(s, k)) = IF data[k] = NoValue THEN Len(s) ELSE Len(s) + 1
         /\ \A i \in 1..Len(s) : Added(s, k)[i] = s[i]
         /\ data[k] # NoValue => Added(s, k)[Len(s) + 1] = <<k, data[k]>>
<1>0. k \in Words /\ data[k] \in Words /\ Len(s) \in Nat
  BY DEF Lines, Words
<1>1. <<k, data[k]>> \in Words \X Words /\ Len(s) \in Nat
  BY <1>0
<1>2. CASE data[k] = NoValue
  BY <1>1, <1>2 DEF Added
<1>3. CASE data[k] # NoValue
  <2> DEFINE e == <<k, data[k]>>
  <2>1. Added(s, k) = Append(s, e)
    BY <1>3 DEF Added
  <2>2. e \in Words \X Words
    BY <1>1
  <2> HIDE DEF e
  <2>3. /\ Append(s, e) \in Lines /\ Len(Append(s, e)) = Len(s) + 1
        /\ \A i \in 1..Len(s) : Append(s, e)[i] = s[i]
        /\ Append(s, e)[Len(s) + 1] = e
    BY <2>2 DEF Lines
  <2> QED
    BY <1>1, <1>3, <2>1, <2>3 DEF e
<1> QED
  BY <1>2, <1>3

(* The lines that are appended for a set D of keys: one for each key that  *)
(* has a value left, behind what was copied.                               *)
Grown(s, D) ==
  /\ s \in Lines /\ Len(s) >= Len(out)
  /\ \A i \in 1..Len(out) : s[i] = out[i]
  /\ \A i \in (Len(out) + 1)..Len(s) : s[i][1] \in D /\ data[s[i][1]] # NoValue
  /\ \A k \in D : data[k] # NoValue =>
       \E i \in (Len(out) + 1)..Len(s) :
         s[i] = <<k, data[k]>> /\ \A j \in (Len(out) + 1)..Len(s) : s[j][1] = k => j = i

(* One more key leaves that so. *)
LEMMA GrownMore ==
  ASSUME data \in [OurKeys -> Words], out \in Lines,
         NEW D \in SUBSET OurKeys, NEW s, Grown(s, D), NEW k \in OurKeys \ D
  PROVE  Grown(Added(s, k), D \cup {k})
<1> DEFINE t == Added(s, k)
<1>1. /\ t \in Lines /\ Len(s) \in Nat /\ Len(out) \in Nat
      /\ Len(t) = IF data[k] = NoValue THEN Len(s) ELSE Len(s) + 1
      /\ \A i \in 1..Len(s) : t[i] = s[i]
      /\ data[k] # NoValue => t[Len(s) + 1] = <<k, data[k]>>
  BY AddedIs DEF Grown, Lines
<1> HIDE DEF t
<1>2. CASE data[k] = NoValue
  <2>1. Added(s, k) = s
    BY <1>2 DEF Added
  <2>2. Grown(s, D \cup {k})
    BY <1>2 DEF Grown
  <2> QED
    BY <2>1, <2>2
<1>3. CASE data[k] # NoValue
  <2>1. Len(t) = Len(s) + 1 /\ t[Len(s) + 1] = <<k, data[k]>>
    BY <1>1, <1>3
  <2>2. Len(t) >= Len(out) /\ \A i \in 1..Len(out) : t[i] = out[i]
    BY <1>1, <2>1 DEF Grown
  <2>3. \A i \in (Len(out) + 1)..Len(s) : i \in 1..Len(s) /\ t[i] = s[i]
    BY <1>1
  <2>4. \A i \in (Len(out) + 1)..Len(t) :
          i = Len(s) + 1 \/ i \in (Len(out) + 1)..Len(s)
    BY <1>1, <2>1
  <2>5. \A i \in (Len(out) + 1)..Len(t) : t[i][1] \in D \cup {k} /\ data[t[i][1]] # NoValue
    BY <1>3, <2>1, <2>3, <2>4 DEF Grown
  <2>6. ASSUME NEW m \in D \cup {k}, data[m] # NoValue
        PROVE  \E i \in (Len(out) + 1)..Len(t) :
                 t[i] = <<m, data[m]>> /\ \A j \in (Len(out) + 1)..Len(t) : t[j][1] = m => j = i
    <3>1. CASE m = k
      <4>1. \A j \in (Len(out) + 1)..Len(s) : t[j][1] # k
        BY <2>3 DEF Grown
      <4>2. Len(s) + 1 \in (Len(out) + 1)..Len(t)
        BY <1>1, <2>1 DEF Grown
      <4> QED
        BY <2>1, <2>4, <3>1, <4>1, <4>2
    <3>2. CASE m # k
      <4>1. PICK i \in (Len(out) + 1)..Len(s) :
              s[i] = <<m, data[m]>> /\ \A j \in (Len(out) + 1)..Len(s) : s[j][1] = m => j = i
        BY <2>6, <3>2 DEF Grown
      <4>2. i \in (Len(out) + 1)..Len(t)
        BY <1>1, <2>1
      <4>3. \A j \in (Len(out) + 1)..Len(t) : t[j][1] = m => j = i
        BY <2>1, <2>3, <2>4, <3>2, <4>1
      <4> QED
        BY <2>3, <4>1, <4>2, <4>3
    <3> QED
      BY <3>1, <3>2
  <2> QED
    BY <1>1, <2>2, <2>5, <2>6 DEF Grown, t
<1> QED
  BY <1>2, <1>3

(* A function on an initial segment of the numbers is a sequence. *)
LEMMA FcnIsSeq ==
  ASSUME NEW S, NEW n \in Nat, NEW f \in [1..n -> S]
  PROVE  f \in Seq(S) /\ Len(f) = n
  OBVIOUS

(* The loop over the lines. *)
LEMMA CopyStep ==
  ASSUME AafInv, Copy
  PROVE  AafInv'
<1> DEFINE old == before.lines
           used == {old[i][1] : i \in {j \in DOMAIN old : Replaced(old, j)}}
<1>1. /\ hidden.lines = old /\ data = before.data /\ old \in Lines /\ data \in [OurKeys -> Words]
      /\ DOMAIN old = 1..Len(old) /\ Len(old) \in Nat
      /\ apc = "copy" /\ apc' = "remove" /\ UNCHANGED <<target, hidden, before>>
  BY DEF Copy, AafStep, AafInv, Lines
<1>2. /\ out' = [i \in 1..Len(old) |-> IF Replaced(old, i) THEN <<old[i][1], data[old[i][1]]>>
                                       ELSE old[i]]
      /\ data' = [k \in OurKeys |-> IF k \in used THEN NoValue ELSE data[k]]
  BY <1>1 DEF Copy
<1>3. \A i \in 1..Len(old) : Replaced(old, i) <=> FirstOf(old, before.data, i)
  BY <1>1 DEF Replaced, FirstOf
<1>4. \A i \in 1..Len(old) : old[i] \in Words \X Words
  BY <1>1 DEF Lines
<1>5. ASSUME NEW i \in 1..Len(old), FirstOf(old, before.data, i)
      PROVE  <<old[i][1], data[old[i][1]]>> \in Words \X Words
  <2>1. old[i][1] \in OurKeys
    BY <1>5 DEF FirstOf
  <2>2. old[i][1] \in Words /\ data[old[i][1]] \in Words
    BY <1>1, <2>1 DEF Words
  <2> QED
    BY <2>2
<1>6. out' \in Lines /\ Len(out') = Len(old)
  <2>1. \A i \in 1..Len(old) : out'[i] \in Words \X Words
    BY <1>2, <1>3, <1>4, <1>5
  <2>2. out' \in [1..Len(old) -> Words \X Words]
    BY <1>2, <2>1
  <2> QED
    BY <1>1, <2>2, FcnIsSeq DEF Lines
<1>7. data' \in [OurKeys -> Words]
  BY <1>1, <1>2 DEF Words
<1>8. CopiedTo(old, before.data, out', data')
  <2>1. \A i \in 1..Len(old) :
          out'[i] = IF FirstOf(old, before.data, i) THEN <<old[i][1], before.data[old[i][1]]>>
                    ELSE old[i]
    BY <1>1, <1>2, <1>3
  <2>2. \A k \in OurKeys :
          k \in used <=> \E i \in 1..Len(old) : FirstOf(old, before.data, i) /\ old[i][1] = k
    BY <1>1, <1>3
  <2> QED
    BY <1>1, <1>2, <1>6, <2>1, <2>2 DEF CopiedTo
<1> QED
  BY <1>1, <1>6, <1>7, <1>8 DEF AafInv, AafFlushed

(* The values that are left, and the end. *)
LEMMA CloseStep ==
  ASSUME AafInv, Append_Close
  PROVE  AafInv'
<1> DEFINE old == before.lines
           values == before.data
           new == Added(Added(Added(out, Keys[1]), Keys[2]), Keys[3])
<1>1. /\ old \in Lines /\ out \in Lines /\ values \in [OurKeys -> Words]
      /\ data \in [OurKeys -> Words] /\ CopiedTo(old, values, out, data)
      /\ apc = "append" /\ apc' = "done" /\ target' = AafFile(new)
      /\ data' = NoData /\ out' = <<>> /\ UNCHANGED <<hidden, before>>
  BY DEF Append_Close, AafStep, AafInv
<1>2. Grown(new, OurKeys)
  <2>1. Grown(out, {})
    BY <1>1 DEF Grown, Lines
  <2>2. Grown(Added(out, "audio-type"), {"audio-type"})
    BY <1>1, <2>1, GrownMore DEF OurKeys
  <2>3. Grown(Added(Added(out, "audio-type"), "gpu-type"), {"audio-type", "gpu-type"})
    <3>1. {"audio-type"} \cup {"gpu-type"} = {"audio-type", "gpu-type"}
      OBVIOUS
    <3> QED
      BY <1>1, <2>2, <3>1, GrownMore DEF OurKeys
  <2>4. {"audio-type", "gpu-type"} \cup {"suspend"} = OurKeys
    BY DEF OurKeys
  <2>5. Grown(Added(Added(Added(out, "audio-type"), "gpu-type"), "suspend"), OurKeys)
    BY <1>1, <2>3, <2>4, GrownMore DEF OurKeys
  <2> QED
    BY <2>5, KeysAre
<1> HIDE DEF new
<1>3. /\ new \in Lines /\ Len(new) \in Nat /\ Len(old) \in Nat /\ Len(out) = Len(old)
      /\ DOMAIN new = 1..Len(new) /\ DOMAIN old = 1..Len(old) /\ Len(new) >= Len(old)
      /\ DOMAIN values = OurKeys
  BY <1>1, <1>2 DEF Grown, CopiedTo, Lines
<1>4. \A i \in 1..Len(old) :
        new[i] = IF FirstOf(old, values, i) THEN <<old[i][1], values[old[i][1]]>> ELSE old[i]
  BY <1>1, <1>2, <1>3 DEF Grown, CopiedTo
<1> HIDE DEF old, values
<1>a. \A i \in 1..Len(old) : i \in DOMAIN new /\ i \in DOMAIN old /\ new[i][1] = old[i][1]
  <2> SUFFICES ASSUME NEW i \in 1..Len(old)
               PROVE  i \in DOMAIN new /\ i \in DOMAIN old /\ new[i][1] = old[i][1]
    OBVIOUS
  <2>1. i \in DOMAIN new /\ i \in DOMAIN old
    BY <1>3
  <2>2. CASE FirstOf(old, values, i)
    <3>1. new[i] = <<old[i][1], values[old[i][1]]>>
      BY <1>4, <2>2
    <3> QED
      BY <2>1, <3>1
  <2>3. CASE ~FirstOf(old, values, i)
    BY <1>4, <2>1, <2>3
  <2> QED
    BY <2>2, <2>3
<1>5. \A i \in (Len(old) + 1)..Len(new) : new[i][1] \in OurKeys /\ data[new[i][1]] # NoValue
  BY <1>2, <1>3 DEF Grown
<1>6. \A k \in OurKeys : data[k] # NoValue => values[k] # NoValue /\ data[k] = values[k]
  BY <1>1 DEF CopiedTo
<1>7. \A i \in DOMAIN new \ DOMAIN old : i \in (Len(old) + 1)..Len(new)
  BY <1>3
<1>8. ASSUME NEW k \in OurKeys, values[k] # NoValue
      PROVE  \E i \in DOMAIN new :
               /\ new[i] = <<k, values[k]>>
               /\ \A j \in DOMAIN new \ {i} :
                    new[j][1] = k => i < j /\ j \in DOMAIN old /\ new[j] = old[j]
  <2>1. CASE \E i \in 1..Len(old) : FirstOf(old, values, i) /\ old[i][1] = k
    <3>1. PICK i \in 1..Len(old) : FirstOf(old, values, i) /\ old[i][1] = k
      BY <2>1
    <3>2. data[k] = NoValue
      BY <1>1, <2>1 DEF CopiedTo
    <3>3. new[i] = <<k, values[k]>> /\ i \in DOMAIN new
      BY <1>4, <1>a, <3>1
    <3>4. ASSUME NEW j \in DOMAIN new \ {i}, new[j][1] = k
          PROVE  i < j /\ j \in DOMAIN old /\ new[j] = old[j]
      <4>1. j \in 1..Len(old)
        BY <1>3, <1>5, <1>7, <3>2, <3>4
      <4>2. old[j][1] = k
        BY <1>a, <3>4, <4>1
      <4>3. ~(j < i)
        BY <3>1, <4>1, <4>2 DEF FirstOf
      <4>4. i < j
        BY <4>1, <4>3
      <4>5. ~FirstOf(old, values, j)
        <5>1. i \in 1..(j - 1)
          BY <4>1, <4>4
        <5> QED
          BY <3>1, <4>2, <5>1 DEF FirstOf
      <4> QED
        BY <1>3, <1>4, <4>1, <4>4, <4>5
    <3> QED
      BY <3>3, <3>4
  <2>2. CASE ~\E i \in 1..Len(old) : FirstOf(old, values, i) /\ old[i][1] = k
    <3>1. \A j \in 1..Len(old) : old[j][1] # k
      <4> SUFFICES ASSUME NEW j \in 1..Len(old), old[j][1] = k PROVE FALSE
        OBVIOUS
      <4> DEFINE S == {m \in 1..Len(old) : old[m][1] = k}
      <4>1. PICK m \in S : \A n \in S : m <= n
        <5>1. S \subseteq Nat /\ S # {}
          OBVIOUS
        <5> QED
          BY <5>1, Least
      <4>2. \A n \in 1..(m - 1) : old[n][1] # k
        BY <4>1
      <4> QED
        BY <1>8, <2>2, <4>1, <4>2 DEF FirstOf
    <3>2. data[k] = values[k]
      BY <1>1, <2>2 DEF CopiedTo
    <3>3. PICK i \in (Len(out) + 1)..Len(new) :
            new[i] = <<k, data[k]>> /\ \A j \in (Len(out) + 1)..Len(new) : new[j][1] = k => j = i
      BY <1>2, <1>8, <3>2 DEF Grown
    <3>4. \A j \in DOMAIN new : new[j][1] = k => j = i
      <4>1. \A j \in 1..Len(old) : new[j][1] = old[j][1]
        BY <1>a
      <4>2. \A j \in DOMAIN new : j \in 1..Len(old) \/ j \in (Len(out) + 1)..Len(new)
        BY <1>3
      <4> QED
        BY <3>1, <3>3, <4>1, <4>2
    <3>5. i \in DOMAIN new
      BY <1>3
    <3> QED
      BY <3>2, <3>3, <3>4, <3>5
  <2> QED
    BY <2>1, <2>2
<1>9. With(old, values, new)
  <2>1. \A i \in DOMAIN old : i \in DOMAIN new /\ new[i][1] = old[i][1]
    BY <1>3, <1>a
  <2>2. ASSUME NEW i \in DOMAIN old, new[i] # old[i]
        PROVE  old[i][1] \in OurKeys /\ values[old[i][1]] # NoValue
    BY <1>3, <1>4, <2>2 DEF FirstOf
  <2>3. \A i \in DOMAIN new \ DOMAIN old : new[i][1] \in OurKeys /\ values[new[i][1]] # NoValue
    BY <1>5, <1>6, <1>7
  <2> QED
    BY <1>3, <1>8, <2>1, <2>2, <2>3 DEF With
<1>10. target'.lines = new /\ target'.there
  BY <1>1 DEF AafFile
<1>11. data' \in [OurKeys -> Words] /\ <<>> \in Lines
  BY <1>1, KeysAre DEF NoData, Words, Lines
<1> QED
  BY <1>1, <1>3, <1>9, <1>10, <1>11 DEF AafInv, AafFlushed, old, values

(* The other steps of Flush, its call and the kill. *)
LEMMA FlushKeeps ==
  ASSUME AafInv, Flush \/ AafKilled \/ \E b \in Vms : FlushBegin(b)
  PROVE  AafInv'
<1>0. <<>> \in Lines /\ NoAaf.lines = <<>> /\ AafFile(<<>>).lines = <<>> /\ AafFile(<<>>).there
  BY DEF Lines, NoAaf, AafFile
<1>1. CASE Rename
  BY <1>0, <1>1 DEF Rename, AafStep, AafInv, AafFlushed
<1>2. CASE Open
  <2>1. apc = "create" => CopiedTo(before.lines, before.data, out, data)
    BY DEF AafInv, CopiedTo
  <2> QED
    BY <1>0, <1>2, <2>1 DEF Open, AafStep, AafInv, AafFlushed
<1>3. CASE RemoveHidden
  BY <1>0, <1>3 DEF RemoveHidden, AafStep, AafInv, AafFlushed
<1>4. CASE AafKilled
  <2>1. NoData \in [OurKeys -> Words]
    BY KeysAre DEF NoData, Words
  <2>2. target'.lines \in Lines /\ (~target'.there => target'.lines = <<>>)
    <3>1. ASSUME NEW n \in 1..Len(out), target' = AafFile(SubSeq(out, 1, n))
          PROVE  target'.lines \in Lines /\ target'.there
      BY <3>1 DEF AafFile, AafInv, Lines
    <3> QED
      BY <1>4, <3>1 DEF AafKilled, AafInv
  <2> QED
    BY <1>0, <1>4, <2>1, <2>2 DEF AafKilled, AafInv, AafFlushed
<1>5. ASSUME NEW b \in Vms, FlushBegin(b) PROVE AafInv'
  BY <1>5, ValuesTyped DEF FlushBegin, AafInv, AafFlushed
<1> QED
  BY <1>1, <1>2, <1>3, <1>4, <1>5, CopyStep, CloseStep DEF Flush

(* For every adaptation file, every configuration and every kill: when     *)
(* Flush returns, the file has the values of the builder and the lines     *)
(* that were there (Aaf::Flush).                                           *)
THEOREM AafIsFlushed == Spec => []AafFlushed
<1>1. Init => AafInv
  BY AafStarts DEF Init
<1>2. AafInv /\ [Next]_vars => AafInv'
  <2>1. ASSUME AafInv, UNCHANGED vars PROVE AafInv'
    BY <2>1, AafRest DEF vars
  <2>2. ASSUME AafInv, Next PROVE AafInv'
    BY <2>2, AafRest, FlushKeeps DEF Next, FlushStep, Killed
  <2> QED
    BY <2>1, <2>2
<1>3. AafInv => AafFlushed
  BY DEF AafInv
<1> QED
  BY <1>1, <1>2, <1>3, PTL DEF Spec
-----------------------------------------------------------------------------
(* The devices *)

Making == {"sound", "gpu", "checks", "pci", "power", "flush", "flushing", "built"}
Running == {"started", "up"}

(* What a machine was given, with the groups. *)
Held(b) == UNION {ToSet(Group[d]) : d \in pt[b]}
Within(s, x) == \E i \in 1..Len(s) : s[i] = x

BoundTypes ==
  /\ drv \in [Devs -> {"host", "vfio", "none"}]
  /\ bpc = [b \in Vms |-> bpc[b]]
  /\ end_call \in [Vms -> Seq(Calls)]
  /\ restore \in [Vms -> Seq(Devs)]
  /\ pt \in [Vms -> SUBSET Devs]
  /\ list \in Seq(Devs) /\ todo \in Seq(Devs)

(* vfio-pci has an identifier only while it has the device. *)
IdsBound == \A d \in Devs : drv[d] # "vfio" => Id[d] \notin ids

(* One machine is built at a time, and takes what is its own. *)
OneBuild(b) ==
  /\ bpc[b] \in Making => building = b
  /\ bpc[b] \in Running => building # b
  /\ bpc[b] = "sound" => Gpu \in Mine(b)
  /\ bpc[b] = "new" => pt[b] = {}
  /\ pt[b] \subseteq Mine(b)
  /\ \A x \in Devs : Within(restore[b], x) => x \in Taken(b)
  /\ restore[b] # <<>> => bpc[b] = "ending"

(* The call in progress has moved the part of the group that is not in     *)
(* todo.                                                                   *)
GroupMoved(b) ==
  /\ \A x \in Devs : Within(list, x) => x \in Mine(b)
  /\ list = <<>> => todo = <<>>
  /\ list # <<>> => \A x \in Devs :
       /\ Within(todo, x) => x \in ToSet(Group[Head(list)])
       /\ x \in ToSet(Group[Head(list)]) => Within(todo, x) \/ drv[x] = "vfio"

(* What a machine holds is with vfio-pci until its callbacks run ... *)
HeldBound(b) == bpc[b] \in Making \cup Running => \A x \in Held(b) : drv[x] = "vfio"

(* ... and from SetPciDevicesCallback on there is a callback for it, or    *)
(* the callback has in restore what is left.                               *)
HeldOwed(b) ==
  /\ bpc[b] \in {"power", "flush", "flushing", "built"} \cup Running =>
       pt[b] = {} \/ Within(end_call[b], "pci")
  /\ bpc[b] = "ending" /\ building # b =>
       \/ Within(end_call[b], "pci")
       \/ \A x \in Held(b) : Within(restore[b], x) \/ drv[x] = "host"
  /\ bpc[b] = "gone" => \A x \in Held(b) : drv[x] = "host"

VmInv(b) ==
  /\ OneBuild(b)
  /\ bpc[b] \in {"gpu", "pci"} => GroupMoved(b)
  /\ HeldBound(b)
  /\ HeldOwed(b)

BoundInv == BoundTypes /\ IdsBound /\ \A b \in Vms : VmInv(b)

(* A sequence that lists the elements of a finite set. *)
LEMMA Listed ==
  ASSUME NEW S, IsFiniteSet(S)
  PROVE  /\ SetToSeq(S) \in [1..Cardinality(S) -> S] /\ Cardinality(S) \in Nat
         /\ \A x \in S : \E i \in 1..Cardinality(S) : SetToSeq(S)[i] = x
<1> DEFINE n == Cardinality(S)
           s == SetToSeq(S)
<1>1. n \in Nat /\ ExistsBijection(1..n, S)
  BY FS_CardinalityType
<1>2. PICK f \in Bijection(1..n, S) : TRUE
  BY <1>1 DEF ExistsBijection
<1>3. f \in [1..n -> S] /\ IsInjective(f)
  BY <1>2 DEF Bijection, Injection
<1>4. s \in [1..n -> S] /\ IsInjective(s)
  BY <1>3 DEF SetToSeq
<1> HIDE DEF s
<1>5. s \in Injection(1..n, S)
  BY <1>4 DEF Injection
<1>6. Cardinality(1..n) = n
  BY <1>1, FS_Interval
<1>7. s \in Surjection(1..n, S)
  BY <1>5, <1>6, FS_Injection
<1>8. \A x \in S : \E i \in 1..n : s[i] = x
  BY <1>7 DEF Surjection
<1> QED
  BY <1>1, <1>4, <1>8 DEF s

(* What two sequences have together. *)
LEMMA Joined ==
  ASSUME NEW D, NEW s \in Seq(D), NEW t \in Seq(D)
  PROVE  s \o t \in Seq(D) /\ \A x : Within(s \o t, x) <=> Within(s, x) \/ Within(t, x)
<1>1. /\ s \o t \in Seq(D) /\ Len(s) \in Nat /\ Len(t) \in Nat
      /\ Len(s \o t) = Len(s) + Len(t)
      /\ \A i \in 1..Len(s) : (s \o t)[i] = s[i]
      /\ \A i \in 1..Len(t) : (s \o t)[Len(s) + i] = t[i]
  OBVIOUS
<1>2. ASSUME NEW x, Within(s \o t, x) PROVE Within(s, x) \/ Within(t, x)
  <2>1. PICK i \in 1..Len(s \o t) : (s \o t)[i] = x
    BY <1>2 DEF Within
  <2>2. CASE i <= Len(s)
    BY <1>1, <2>1, <2>2 DEF Within
  <2>3. CASE i > Len(s)
    <3>1. i - Len(s) \in 1..Len(t) /\ Len(s) + (i - Len(s)) = i
      BY <1>1, <2>3
    <3> QED
      BY <1>1, <2>1, <3>1 DEF Within
  <2> QED
    BY <1>1, <2>2, <2>3
<1>3. ASSUME NEW x, Within(s, x) PROVE Within(s \o t, x)
  <2>1. PICK i \in 1..Len(s) : s[i] = x
    BY <1>3 DEF Within
  <2>2. i \in 1..Len(s \o t)
    BY <1>1
  <2> QED
    BY <1>1, <2>1, <2>2 DEF Within
<1>4. ASSUME NEW x, Within(t, x) PROVE Within(s \o t, x)
  <2>1. PICK i \in 1..Len(t) : t[i] = x
    BY <1>4 DEF Within
  <2>2. Len(s) + i \in 1..Len(s \o t)
    BY <1>1
  <2> QED
    BY <1>1, <2>1, <2>2 DEF Within
<1> QED
  BY <1>1, <1>2, <1>3, <1>4

(* The recursive function of FlattenSeq, and that there is one. *)
Flat(ss, f) ==
  [i \in 1..Len(ss) |-> IF i = 1 THEN ss[i] ELSE f[i - 1] \o ss[i]]

(* It exists: it can be continued by one sequence after the other. *)
LEMMA FlatExists ==
  ASSUME NEW D, NEW ss \in Seq(Seq(D))
  PROVE  \E f : f = Flat(ss, f)
<1> DEFINE P(n, f) == f = [i \in 1..n |-> IF i = 1 THEN ss[i] ELSE f[i - 1] \o ss[i]]
           bad == {n \in Nat : ~ \E f : P(n, f)}
<1>1. bad = {}
  <2> SUFFICES ASSUME bad # {} PROVE FALSE
    OBVIOUS
  <2>1. PICK n \in bad : \A m \in bad : n <= m
    <3>1. bad \subseteq Nat
      OBVIOUS
    <3> HIDE DEF bad
    <3> QED
      BY <3>1, Least
  <2>2. CASE n = 0
    <3>1. P(0, [i \in 1..0 |-> <<>>])
      OBVIOUS
    <3> QED
      BY <2>2, <3>1
  <2>3. CASE n # 0
    <3>1. n \in Nat /\ n - 1 \in Nat /\ n - 1 \notin bad
      <4>1. n \in Nat /\ n - 1 \in Nat /\ ~(n <= n - 1)
        BY <2>3
      <4> HIDE DEF bad
      <4> QED
        BY <2>1, <4>1
    <3>2. PICK g : P(n - 1, g)
      BY <3>1
    <3> DEFINE f == [i \in 1..n |-> IF i < n THEN g[i]
                                    ELSE IF i = 1 THEN ss[i] ELSE g[i - 1] \o ss[i]]
    <3>3. \A i \in 1..(n - 1) : g[i] = IF i = 1 THEN ss[i] ELSE g[i - 1] \o ss[i]
      BY <3>2
    <3>4. ASSUME NEW i \in 1..n
          PROVE  f[i] = IF i = 1 THEN ss[i] ELSE f[i - 1] \o ss[i]
      <4>1. CASE i < n
        <5>1. f[i] = g[i] /\ i \in 1..(n - 1)
          BY <3>1, <4>1
        <5>2. i # 1 => f[i - 1] = g[i - 1]
          BY <3>1, <4>1
        <5> HIDE DEF f
        <5> QED
          BY <3>3, <5>1, <5>2
      <4>2. CASE i = n
        <5>1. f[i] = IF i = 1 THEN ss[i] ELSE g[i - 1] \o ss[i]
          BY <3>1, <4>2
        <5>2. i # 1 => f[i - 1] = g[i - 1]
          BY <3>1, <4>2
        <5> HIDE DEF f
        <5> QED
          BY <5>1, <5>2
      <4> QED
        BY <3>1, <4>1, <4>2
    <3>5. f = [i \in 1..n |-> f[i]]
      OBVIOUS
    <3> HIDE DEF f
    <3>6. P(n, f)
      BY <3>4, <3>5
    <3> HIDE DEF P
    <3> QED
      BY <2>1, <3>6
  <2> QED
    BY <2>2, <2>3
<1>2. Len(ss) \in Nat
  OBVIOUS
<1>3. \E f : P(Len(ss), f)
  BY <1>1, <1>2
<1> QED
  BY <1>3 DEF Flat

(* FlattenSeq has what the sequences have. *)
LEMMA Flattened ==
  ASSUME NEW D, NEW ss \in Seq(Seq(D))
  PROVE  /\ FlattenSeq(ss) \in Seq(D)
         /\ \A x : Within(FlattenSeq(ss), x) <=> \E i \in 1..Len(ss) : Within(ss[i], x)
<1> DEFINE n == Len(ss)
           F == CHOOSE f : f = Flat(ss, f)
           Good(i) == /\ F[i] \in Seq(D)
                      /\ \A x : Within(F[i], x) <=> \E j \in 1..i : Within(ss[j], x)
           bad == {i \in 1..n : ~Good(i)}
<1>1. n \in Nat /\ \A i \in 1..n : ss[i] \in Seq(D)
  OBVIOUS
<1>2. CASE n = 0
  <2>1. FlattenSeq(ss) = <<>> /\ ss = <<>>
    BY <1>2 DEF FlattenSeq
  <2> QED
    BY <1>2, <2>1 DEF Within
<1>3. CASE n # 0
  <2>1. FlattenSeq(ss) = F[n]
    BY <1>3 DEF FlattenSeq, Flat
  <2>2. F = Flat(ss, F)
    <3>1. \E f : f = Flat(ss, f)
      BY FlatExists
    <3> QED
      BY <3>1
  <2> HIDE DEF F
  <2>3. \A i \in 1..n : F[i] = IF i = 1 THEN ss[i] ELSE F[i - 1] \o ss[i]
    BY <2>2 DEF Flat
  <2>4. bad = {}
    <3> SUFFICES ASSUME bad # {} PROVE FALSE
      OBVIOUS
    <3>1. bad \subseteq Nat
      OBVIOUS
    <3>2. PICK i \in bad : \A j \in bad : i <= j
      <4> HIDE DEF bad
      <4> QED
        BY <3>1, Least
    <3>3. i \in 1..n /\ ~Good(i)
      OBVIOUS
    <3>4. CASE i = 1
      <4>1. F[i] = ss[1] /\ ss[1] \in Seq(D) /\ 1..1 = {1}
        BY <1>1, <2>3, <3>3, <3>4
      <4>2. Good(i)
        BY <3>4, <4>1
      <4> QED
        BY <3>3, <4>2
    <3>5. CASE i # 1
      <4>1. i - 1 \in 1..n /\ ~(i <= i - 1) /\ i - 1 \notin bad
        <5>1. i - 1 \in 1..n /\ ~(i <= i - 1)
          BY <1>1, <3>3, <3>5
        <5> HIDE DEF bad
        <5> QED
          BY <3>2, <5>1
      <4>2. Good(i - 1)
        BY <4>1
      <4>3. F[i] = F[i - 1] \o ss[i] /\ ss[i] \in Seq(D)
        BY <1>1, <2>3, <3>3, <3>5
      <4>4. F[i - 1] \in Seq(D)
        BY <4>2
      <4>5. /\ F[i] \in Seq(D)
            /\ \A x : Within(F[i], x) <=> Within(F[i - 1], x) \/ Within(ss[i], x)
        BY <4>3, <4>4, Joined
      <4>6. \A j : j \in 1..i <=> j \in 1..(i - 1) \/ j = i
        BY <1>1, <3>3, <3>5
      <4>7. Good(i)
        BY <4>2, <4>5, <4>6
      <4> QED
        BY <3>3, <4>7
    <3> QED
      BY <3>4, <3>5
  <2>5. Good(n)
    <3>1. n \in 1..n
      BY <1>1, <1>3
    <3>2. n \notin bad
      BY <2>4
    <3> HIDE DEF Good, n
    <3> QED
      BY <3>1, <3>2
  <2> QED
    BY <2>1, <2>5
<1> QED
  BY <1>2, <1>3

(* RestoreBegin takes the groups of the devices that were passed through. *)
LEMMA RestoreIs ==
  ASSUME NEW S, IsFiniteSet(S), S \subseteq Devs
  PROVE  LET devs == SetToSeq(S)
             r == FlattenSeq([i \in DOMAIN devs |-> Group[devs[i]]])
         IN  r \in Seq(Devs) /\ \A x : Within(r, x) <=> \E d \in S : x \in ToSet(Group[d])
<1> DEFINE devs == SetToSeq(S)
           n == Cardinality(S)
           ss == [i \in DOMAIN devs |-> Group[devs[i]]]
<1>1. /\ n \in Nat /\ devs \in [1..n -> S]
      /\ \A x \in S : \E i \in 1..n : devs[i] = x
  BY Listed
<1> HIDE DEF devs, n
<1>2. /\ ss \in [1..n -> Seq(Devs)]
      /\ \A i \in 1..n : ss[i] = Group[devs[i]]
  BY <1>1, HostAssumption
<1> HIDE DEF ss
<1>3. ss \in Seq(Seq(Devs)) /\ Len(ss) = n
  BY <1>1, <1>2, FcnIsSeq
<1>4. /\ FlattenSeq(ss) \in Seq(Devs)
      /\ \A x : Within(FlattenSeq(ss), x) <=> \E i \in 1..n : Within(ss[i], x)
  BY <1>3, Flattened
<1>5. ASSUME NEW x, NEW d \in S PROVE Within(Group[d], x) <=> x \in ToSet(Group[d])
  <2>1. Group[d] \in Seq(Devs)
    BY HostAssumption
  <2> QED
    BY <2>1 DEF Within, ToSet
<1>6. \A x : (\E i \in 1..n : Within(ss[i], x)) <=> \E d \in S : x \in ToSet(Group[d])
  BY <1>1, <1>2, <1>5
<1> QED
  BY <1>4, <1>6 DEF ss, devs

(* The front of a sequence, and the rest. *)
LEMMA FrontOf ==
  ASSUME NEW D, NEW s \in Seq(D), s # <<>>
  PROVE  /\ Head(s) \in D /\ Tail(s) \in Seq(D) /\ Head(s) = s[1]
         /\ \A x : Within(s, x) <=> x = Head(s) \/ Within(Tail(s), x)
<1>1. /\ Len(s) \in Nat \ {0} /\ Head(s) = s[1] /\ s[1] \in D
      /\ Tail(s) \in Seq(D) /\ Len(Tail(s)) = Len(s) - 1
      /\ \A i \in 1..(Len(s) - 1) : Tail(s)[i] = s[i + 1]
  OBVIOUS
<1>2. ASSUME NEW x, Within(s, x), x # Head(s) PROVE Within(Tail(s), x)
  <2>1. PICK i \in 1..Len(s) : s[i] = x
    BY <1>2 DEF Within
  <2>2. i - 1 \in 1..(Len(s) - 1) /\ (i - 1) + 1 = i
    BY <1>1, <1>2, <2>1
  <2> QED
    BY <1>1, <2>1, <2>2 DEF Within
<1>3. ASSUME NEW x, Within(Tail(s), x) PROVE Within(s, x)
  <2>1. PICK i \in 1..(Len(s) - 1) : Tail(s)[i] = x
    BY <1>1, <1>3 DEF Within
  <2>2. i + 1 \in 1..Len(s)
    BY <1>1
  <2> QED
    BY <1>1, <2>1, <2>2 DEF Within
<1>4. Within(s, Head(s))
  BY <1>1 DEF Within
<1> QED
  BY <1>1, <1>2, <1>3, <1>4

(* One more callback. *)
LEMMA OneMore ==
  ASSUME NEW s \in Seq(Calls), NEW c \in Calls
  PROVE  /\ Append(s, c) \in Seq(Calls) /\ Within(Append(s, c), c)
         /\ \A x : Within(s, x) => Within(Append(s, c), x)
<1>1. /\ Len(s) \in Nat /\ Len(Append(s, c)) = Len(s) + 1
      /\ Append(s, c) \in Seq(Calls) /\ Append(s, c)[Len(s) + 1] = c
      /\ \A i \in 1..Len(s) : Append(s, c)[i] = s[i]
  OBVIOUS
<1> QED
  BY <1>1 DEF Within

(* Nothing is within the empty sequence. *)
LEMMA NoneWithin == \A x : ~Within(<<>>, x)
  BY DEF Within

(* The elements of a group. *)
LEMMA InGroup ==
  ASSUME NEW d \in Devs
  PROVE  /\ Group[d] \in Seq(Devs) /\ d \in ToSet(Group[d])
         /\ \A x : Within(Group[d], x) <=> x \in ToSet(Group[d])
         /\ ToSet(Group[d]) \subseteq Devs
<1>1. Group[d] \in Seq(Devs) /\ d \in ToSet(Group[d])
  BY HostAssumption
<1>2. DOMAIN Group[d] = 1..Len(Group[d]) /\ \A i \in 1..Len(Group[d]) : Group[d][i] \in Devs
  BY <1>1
<1> QED
  BY <1>1, <1>2 DEF Within, ToSet

(* The devices of a machine. *)
LEMMA MineAre ==
  ASSUME NEW b \in Vms
  PROVE  /\ Mine(b) \subseteq Devs /\ IsFiniteSet(Mine(b))
         /\ Config[b].pci \in Seq(Devs)
         /\ \A x : Within(Config[b].pci, x) => x \in Mine(b)
         /\ Config[b].graphics = "GVT-d" => Gpu \in Mine(b)
         /\ \A d \in Mine(b) : ToSet(Group[d]) \subseteq Taken(b)
<1> DEFINE p == Config[b].pci
<1>1. p \in Seq(Devs) /\ Gpu \in Devs
  BY HostAssumption DEF ConfigType
<1> HIDE DEF p
<1>2. Len(p) \in Nat /\ DOMAIN p = 1..Len(p) /\ \A i \in 1..Len(p) : p[i] \in Devs
  BY <1>1
<1>3. IsFiniteSet(ToSet(p))
  <2>1. IsFiniteSet(1..Len(p))
    BY <1>2, FS_Interval
  <2> DEFINE f == [i \in 1..Len(p) |-> p[i]]
  <2>2. f \in Surjection(1..Len(p), ToSet(p))
    BY <1>2 DEF Surjection, ToSet
  <2> QED
    BY <2>1, <2>2, FS_Surjection
<1>4. IsFiniteSet({Gpu}) /\ IsFiniteSet({})
  BY FS_Singleton, FS_EmptySet
<1>5. IsFiniteSet(Mine(b))
  BY <1>3, <1>4, FS_Union DEF Mine, p
<1>6. \A x : Within(p, x) => x \in ToSet(p)
  BY <1>2 DEF Within, ToSet
<1>7. ToSet(p) \subseteq Devs
  BY <1>2 DEF ToSet
<1>8. Mine(b) = ToSet(p) \cup (IF Config[b].graphics = "GVT-d" THEN {Gpu} ELSE {})
  BY DEF Mine, p
<1>9. \A d \in Mine(b) : ToSet(Group[d]) \subseteq Taken(b)
  BY DEF Taken
<1> QED
  BY <1>1, <1>5, <1>6, <1>7, <1>8, <1>9 DEF p

(* MoveToVfio gives one device to vfio-pci. *)
LEMMA MovesOne ==
  ASSUME Apart, BoundTypes, IdsBound, NEW d \in Devs, MoveToVfio(d)
  PROVE  /\ drv' \in [Devs -> {"host", "vfio", "none"}] /\ IdsBound'
         /\ drv'[d] = "vfio" /\ \A x \in Devs \ {d} : drv'[x] = drv[x]
<1>1. \A x, y \in Devs : Id[x] = Id[y] => x = y
  BY DEF Apart
<1>2. Id[d] \notin Removed(d) /\ Removed(d) \subseteq ids
  BY DEF Removed, IdsBound
<1>3. /\ \A x \in Devs : Unbound(drv, d)[x] = IF x = d THEN "none" ELSE drv[x]
  BY DEF Unbound, BoundTypes
<1>4. drv' = [x \in Devs |-> IF Id[x] = Id[d] /\ Unbound(drv, d)[x] = "none"
                               THEN "vfio" ELSE Unbound(drv, d)[x]]
  BY <1>2 DEF MoveToVfio, Attached
<1>5. drv' = [x \in Devs |-> IF x = d THEN "vfio" ELSE drv[x]]
  BY <1>1, <1>3, <1>4
<1>6. ids' \subseteq ids \cup {Id[d]}
  BY <1>2 DEF MoveToVfio
<1> QED
  BY <1>1, <1>5, <1>6 DEF BoundTypes, IdsBound

(* GiveBack gives one device to the host. *)
LEMMA GivesOne ==
  ASSUME Apart, BoundTypes, IdsBound, NEW d \in Devs, GiveBack(d)
  PROVE  /\ drv' \in [Devs -> {"host", "vfio", "none"}] /\ IdsBound'
         /\ drv'[d] = "host" /\ \A x \in Devs \ {d} : drv'[x] = drv[x]
<1>1. \A x, y \in Devs : Id[x] = Id[y] => x = y
  BY DEF Apart
<1>2. Id[d] \notin Removed(d) /\ Removed(d) \subseteq ids
  BY DEF Removed, IdsBound
<1>3. drv' = IF drv[d] = "host" THEN drv ELSE [drv EXCEPT ![d] = "host"]
  BY <1>2 DEF GiveBack
<1>4. ids' \subseteq ids /\ Id[d] \notin ids'
  BY <1>2 DEF GiveBack
<1> QED
  BY <1>1, <1>3, <1>4 DEF BoundTypes, IdsBound

(* A step of b leaves the other builders alone, and the devices of others. *)
Alone(b) ==
  /\ \A a \in Vms \ {b} : /\ bpc'[a] = bpc[a] /\ pt'[a] = pt[a]
                          /\ end_call'[a] = end_call[a] /\ restore'[a] = restore[a]
  /\ \A x \in Devs : drv'[x] = drv[x] \/ x \in Taken(b)
  /\ \/ building' = building
     \/ building = NoOne /\ building' = b
     \/ building = b /\ building' = NoOne
  /\ UNCHANGED <<list, todo>> \/ building = b

(* They keep their part of the invariant. *)
LEMMA OthersKeep ==
  ASSUME Apart, BoundInv, NEW b \in Vms, Alone(b), NEW a \in Vms \ {b}
  PROVE  VmInv(a)'
<1>1. /\ bpc'[a] = bpc[a] /\ pt'[a] = pt[a]
      /\ end_call'[a] = end_call[a] /\ restore'[a] = restore[a]
  BY DEF Alone
<1>2. /\ a # b /\ NoOne # a /\ VmInv(a) /\ OneBuild(a)
  BY HostAssumption DEF BoundInv, VmInv
<1>3. \A x \in Taken(a) : x \in Devs => drv'[x] = drv[x]
  BY <1>2 DEF Apart, Alone
<1>4. \A d \in Mine(a) : d \in Devs /\ ToSet(Group[d]) \subseteq Taken(a) \cap Devs
  BY <1>2, MineAre, InGroup
<1>5. Held(a)' = Held(a) /\ Held(a) \subseteq Taken(a) \cap Devs
  <2>1. pt[a] \subseteq Mine(a)
    BY <1>2 DEF OneBuild
  <2> QED
    BY <1>1, <1>4, <2>1 DEF Held
<1>6. \A x \in Held(a) : drv'[x] = drv[x]
  BY <1>3, <1>5
<1>7. OneBuild(a)'
  <2>1. bpc[a] \in Making => building' = a
    BY <1>2 DEF OneBuild, Alone
  <2>2. bpc[a] \in Running => building' # a
    BY <1>2 DEF OneBuild, Alone
  <2> QED
    BY <1>1, <1>2, <2>1, <2>2 DEF OneBuild
<1>8. ASSUME bpc[a] \in {"gpu", "pci"} PROVE GroupMoved(a)'
  <2>1. GroupMoved(a) /\ building = a
    BY <1>2, <1>8 DEF VmInv, OneBuild, Making
  <2>2. list' = list /\ todo' = todo
    BY <1>2, <2>1 DEF Alone
  <2>3. list # <<>> => Head(list) \in Mine(a)
    <3>1. list \in Seq(Devs)
      BY DEF BoundInv, BoundTypes
    <3> QED
      BY <2>1, <3>1, FrontOf DEF GroupMoved
  <2>4. list # <<>> => \A x \in ToSet(Group[Head(list)]) : drv'[x] = drv[x]
    BY <1>3, <1>4, <2>3
  <2> QED
    BY <2>1, <2>2, <2>4 DEF GroupMoved
<1>9. HeldBound(a)'
  BY <1>1, <1>2, <1>5, <1>6 DEF HeldBound, VmInv
<1>10. HeldOwed(a)'
  <2>1. HeldOwed(a)
    BY <1>2 DEF VmInv
  <2>2. building' # a => building # a
    BY <1>2 DEF Alone
  <2> QED
    BY <1>1, <1>5, <1>6, <2>1, <2>2 DEF HeldOwed
<1> QED
  BY <1>1, <1>7, <1>8, <1>9, <1>10 DEF VmInv

(* A step of b that keeps the types, the identifiers and b is enough. *)
LEMMA StepOf ==
  ASSUME Apart, BoundInv, NEW b \in Vms, Alone(b), BoundTypes', IdsBound', VmInv(b)'
  PROVE  BoundInv'
<1>1. \A a \in Vms \ {b} : VmInv(a)'
  BY OthersKeep
<1> QED
  BY <1>1 DEF BoundInv

(* A builder that moves on, with the devices as they are. *)
Moves(b, from, to) ==
  /\ bpc[b] \in from /\ bpc' = [bpc EXCEPT ![b] = to]
  /\ UNCHANGED <<drv, ids, list, todo, pt, end_call, restore>>

(* Such a step keeps the invariant, between any two points where the code  *)
(* takes one.                                                              *)
LEMMA MovesKeep ==
  ASSUME Apart, BoundInv, NEW b \in Vms, NEW from, NEW to, Moves(b, from, to),
         \/ /\ from = {"new"} /\ to \in {"sound", "checks"}
            /\ building = NoOne /\ building' = b
            /\ to = "sound" => Gpu \in Mine(b)
         \/ from = {"gpu"} /\ to = "checks" /\ building' = building
         \/ from = {"checks"} /\ to = "ending" /\ building' = building
         \/ from \subseteq {"flush", "flushing"} /\ to \in {"flushing", "built"}
            /\ building' = building
         \/ from = {"built"} /\ to = "started" /\ building' = NoOne
         \/ from = {"started"} /\ to = "up" /\ building' = building
         \/ from = Running /\ to = "ending" /\ building' = building
         \/ /\ from = {"ending"} /\ restore[b] = <<>> /\ end_call[b] = <<>>
            /\ to = IF building = b THEN "failed" ELSE "gone"
            /\ building' = IF building = b THEN NoOne ELSE building
  PROVE  BoundInv'
<1>1. /\ bpc'[b] = to /\ bpc[b] \in from /\ \A a \in Vms \ {b} : bpc'[a] = bpc[a]
      /\ drv' = drv /\ ids' = ids /\ list' = list /\ todo' = todo /\ pt' = pt
      /\ end_call' = end_call /\ restore' = restore
      /\ bpc' = [a \in Vms |-> bpc'[a]]
  BY DEF Moves, BoundInv, BoundTypes
<1>2. VmInv(b) /\ NoOne # b
  BY HostAssumption DEF BoundInv
<1>3. Alone(b)
  BY <1>1, <1>2 DEF Alone, VmInv, OneBuild, Making
<1>4. BoundTypes' /\ IdsBound'
  BY <1>1 DEF BoundInv, BoundTypes, IdsBound
<1>5. Held(b)' = Held(b) /\ (pt[b] = {} => Held(b) = {})
  BY <1>1 DEF Held
<1>6. OneBuild(b)'
  <2>1. to = "sound" => Gpu \in Mine(b)
    OBVIOUS
  <2>2. to # "new" /\ (bpc[b] = "ending" => restore[b] = <<>>)
    BY <1>1 DEF Running
  <2>3. (to \in Making => building' = b) /\ (to \in Running => building' # b)
    BY <1>1, <1>2 DEF VmInv, OneBuild, Making, Running
  <2> QED
    BY <1>1, <1>2, <2>1, <2>2, <2>3 DEF VmInv, OneBuild
<1>7. HeldBound(b)'
  <2>1. bpc[b] \in Making \cup Running \cup {"new", "ending"}
    BY <1>1 DEF Making, Running
  <2>2. bpc[b] = "ending" => to \notin Making \cup Running
    BY <1>1 DEF Making, Running
  <2>3. bpc[b] = "new" => Held(b) = {}
    BY <1>2, <1>5 DEF VmInv, OneBuild
  <2> QED
    BY <1>1, <1>2, <1>5, <2>1, <2>2, <2>3 DEF VmInv, HeldBound
<1>8. HeldOwed(b)'
  <2>1. HeldOwed(b) /\ OneBuild(b)
    BY <1>2 DEF VmInv
  <2>2. to \in {"power", "flush", "flushing", "built"} \cup Running =>
          pt[b] = {} \/ Within(end_call[b], "pci")
    BY <1>1, <2>1 DEF HeldOwed, Running
  <2>3. to = "ending" /\ building' # b => pt[b] = {} \/ Within(end_call[b], "pci")
    BY <1>1, <2>1 DEF HeldOwed, OneBuild, Running, Making
  <2>4. to = "gone" => \A x \in Held(b) : drv[x] = "host"
    BY <1>1, <2>1, NoneWithin DEF HeldOwed
  <2> QED
    BY <1>1, <1>5, <2>2, <2>3, <2>4 DEF HeldOwed
<1>9. VmInv(b)'
  BY <1>1, <1>6, <1>7, <1>8 DEF VmInv
<1> QED
  BY <1>3, <1>4, <1>9, StepOf

(* The next device of the list. *)
LEMMA NextGroup ==
  ASSUME NEW b \in Vms, list \in Seq(Devs), list # <<>>, NextInList,
         \A x \in Devs : Within(list, x) => x \in Mine(b)
  PROVE  list' \in Seq(Devs) /\ todo' \in Seq(Devs) /\ GroupMoved(b)'
<1>1. /\ list' \in Seq(Devs)
      /\ \A x : Within(list', x) => Within(list, x)
  BY FrontOf DEF NextInList
<1>2. /\ Len(list) \in Nat \ {0} /\ Len(list') = Len(list) - 1
      /\ Len(list) > 1 => list' # <<>> /\ Head(list') = list[2] /\ list[2] \in Devs
      /\ Len(list) <= 1 => list' = <<>>
  <2>1. list' = Tail(list)
    BY DEF NextInList
  <2>2. /\ Len(list) \in Nat \ {0} /\ Len(Tail(list)) = Len(list) - 1
        /\ Tail(list) \in Seq(Devs)
        /\ \A i \in 1..(Len(list) - 1) : Tail(list)[i] = list[i + 1]
        /\ \A i \in 1..Len(list) : list[i] \in Devs
    OBVIOUS
  <2>3. ASSUME Len(list) > 1
        PROVE  Tail(list) # <<>> /\ Head(Tail(list)) = list[2] /\ list[2] \in Devs
    <3>1. Tail(list) # <<>>
      <4>1. Len(Tail(list)) # 0
        BY <2>2, <2>3
      <4>2. Len(<<>>) = 0
        OBVIOUS
      <4> QED
        BY <4>1, <4>2, Zenon
    <3>2. Head(Tail(list)) = Tail(list)[1]
      BY <2>2, <3>1, FrontOf
    <3>3. 1 \in 1..(Len(list) - 1) /\ 2 \in 1..Len(list) /\ 1 + 1 = 2
      BY <2>2, <2>3
    <3>4. Tail(list)[1] = list[2] /\ list[2] \in Devs
      BY <2>2, <3>3
    <3> QED
      BY <3>1, <3>2, <3>4
  <2>4. ASSUME Len(list) <= 1 PROVE Tail(list) = <<>>
    BY <2>2, <2>4
  <2> QED
    BY <2>1, <2>2, <2>3, <2>4
<1>3. CASE Len(list) > 1
  <2>1. todo' = Group[Head(list')] /\ Head(list') \in Devs
    BY <1>2, <1>3 DEF NextInList
  <2>2. todo' \in Seq(Devs) /\ \A x : Within(todo', x) <=> x \in ToSet(Group[Head(list')])
    BY <2>1, InGroup
  <2> QED
    BY <1>1, <1>2, <1>3, <2>2 DEF GroupMoved
<1>4. CASE Len(list) <= 1
  <2>1. todo' = <<>> /\ list' = <<>>
    BY <1>2, <1>4 DEF NextInList
  <2> QED
    BY <1>1, <2>1 DEF GroupMoved
<1> QED
  BY <1>2, <1>3, <1>4

(* The list of devices is set up. *)
LEMMA ListBegins ==
  ASSUME Apart, BoundInv, NEW b \in Vms, SoundCardHook(b) \/ ChecksPass(b)
  PROVE  BoundInv'
<1>1. /\ VmInv(b) /\ bpc[b] \in {"sound", "checks"} /\ bpc'[b] \in {"gpu", "pci"}
      /\ \A a \in Vms \ {b} : bpc'[a] = bpc[a]
      /\ bpc' = [a \in Vms |-> bpc'[a]]
      /\ drv' = drv /\ ids' = ids /\ pt' = pt /\ restore' = restore
      /\ building' = building
  BY DEF SoundCardHook, ChecksPass, Goto, hostVars, BoundInv, BoundTypes
<1>2. /\ end_call' \in [Vms -> Seq(Calls)]
      /\ \A a \in Vms \ {b} : end_call'[a] = end_call[a]
  <2>1. end_call \in [Vms -> Seq(Calls)]
    BY DEF BoundInv, BoundTypes
  <2>2. Append(end_call[b], "sound") \in Seq(Calls)
    BY <2>1, OneMore DEF Calls
  <2>3. \/ end_call' = end_call
        \/ end_call' = [end_call EXCEPT ![b] = Append(end_call[b], "sound")]
    BY DEF SoundCardHook, ChecksPass
  <2> QED
    BY <2>1, <2>2, <2>3
<1>3. building = b /\ restore[b] = <<>> /\ OneBuild(b)'
  BY <1>1 DEF VmInv, OneBuild, Making, Running
<1>4. Alone(b)
  BY <1>1, <1>2, <1>3 DEF Alone
<1>5. list' \in Seq(Devs) /\ todo' \in Seq(Devs) /\ GroupMoved(b)'
  <2>1. CASE SoundCardHook(b)
    <3>1. list' = <<Gpu>> /\ todo' = Group[Gpu] /\ bpc[b] = "sound"
      BY <2>1 DEF SoundCardHook, Goto
    <3>2. Gpu \in Mine(b) /\ Gpu \in Devs
      BY <1>1, <3>1, MineAre DEF VmInv, OneBuild
    <3>3. /\ list' \in Seq(Devs) /\ Head(list') = Gpu /\ list' # <<>>
          /\ \A x : Within(list', x) => x = Gpu
      BY <3>1, <3>2 DEF Within
    <3>4. todo' \in Seq(Devs) /\ \A x : Within(todo', x) <=> x \in ToSet(Group[Gpu])
      BY <3>1, <3>2, InGroup
    <3> QED
      BY <3>2, <3>3, <3>4 DEF GroupMoved
  <2>2. CASE ChecksPass(b)
    <3>1. /\ list' = Config[b].pci /\ list' \in Seq(Devs)
          /\ \A x : Within(list', x) => x \in Mine(b)
          /\ todo' = IF list' = <<>> THEN <<>> ELSE Group[Head(list')]
      BY <2>2, MineAre DEF ChecksPass
    <3>2. CASE list' = <<>>
      <4>1. todo' = <<>>
        BY <3>1, <3>2
      <4> QED
        BY <3>1, <3>2, <4>1 DEF GroupMoved
    <3>3. CASE list' # <<>>
      <4>1. Head(list') \in Devs /\ todo' = Group[Head(list')]
        BY <3>1, <3>3
      <4>2. todo' \in Seq(Devs)
            /\ \A x : Within(todo', x) <=> x \in ToSet(Group[Head(list')])
        BY <4>1, InGroup
      <4> QED
        BY <3>1, <3>3, <4>2 DEF GroupMoved
    <3> QED
      BY <3>2, <3>3
  <2> QED
    BY <2>1, <2>2
<1>6. BoundTypes' /\ IdsBound'
  BY <1>1, <1>2, <1>5 DEF BoundInv, BoundTypes, IdsBound
<1>7. HeldBound(b)' /\ HeldOwed(b)'
  <2>1. Held(b)' = Held(b)
    BY <1>1 DEF Held
  <2> QED
    BY <1>1, <2>1 DEF VmInv, HeldBound, HeldOwed, Making, Running
<1>8. VmInv(b)'
  BY <1>3, <1>5, <1>7 DEF VmInv
<1> QED
  BY <1>4, <1>6, <1>8, StepOf

(* The loop over a group, and the one over the list. *)
LEMMA PassKeeps ==
  ASSUME Apart, BoundInv, NEW b \in Vms,
         PassDevice(b) \/ PassDone(b) \/ PassRefused(b) \/ UnbindTimeout(b)
  PROVE  BoundInv'
<1>1. /\ VmInv(b) /\ OneBuild(b) /\ GroupMoved(b) /\ HeldBound(b) /\ building = b
      /\ bpc[b] \in {"gpu", "pci"} /\ BoundTypes /\ IdsBound
      /\ restore[b] = <<>>
  BY DEF PassDevice, PassDone, PassRefused, UnbindTimeout, PassFalse, BoundInv, VmInv,
         OneBuild, Making
<1>2. end_call' = end_call /\ restore' = restore /\ building' = building
  BY DEF PassDevice, PassDone, PassRefused, UnbindTimeout, PassFalse
<1>3. list # <<>> /\ list \in Seq(Devs) /\ todo \in Seq(Devs)
  BY <1>1 DEF GroupMoved, BoundTypes, PassDevice, PassDone, PassRefused, UnbindTimeout, PassFalse
<1>4. /\ Head(list) \in Mine(b) /\ Head(list) \in Devs
      /\ ToSet(Group[Head(list)]) \subseteq Taken(b) \cap Devs
  <2>1. Head(list) \in Devs /\ Within(list, Head(list))
    BY <1>3, FrontOf
  <2> QED
    BY <1>1, <2>1, InGroup, MineAre DEF GroupMoved
<1>5. CASE PassDevice(b)
  <2> DEFINE d == Head(todo)
  <2>1. /\ todo # <<>> /\ MoveToVfio(d) /\ todo' = Tail(todo)
        /\ bpc' = bpc /\ list' = list /\ pt' = pt
    BY <1>5 DEF PassDevice
  <2>2. /\ d \in Devs /\ Tail(todo) \in Seq(Devs)
        /\ \A x : Within(todo, x) <=> x = d \/ Within(Tail(todo), x)
    BY <1>3, <2>1, FrontOf
  <2>3. d \in ToSet(Group[Head(list)])
    BY <1>1, <1>3, <2>2 DEF GroupMoved
  <2> HIDE DEF d
  <2>4. /\ drv' \in [Devs -> {"host", "vfio", "none"}] /\ IdsBound'
        /\ drv'[d] = "vfio" /\ \A x \in Devs \ {d} : drv'[x] = drv[x]
    BY <1>1, <2>1, <2>2, MovesOne
  <2>5. Alone(b)
    BY <1>1, <1>2, <1>4, <2>1, <2>3, <2>4 DEF Alone
  <2>6. BoundTypes'
    BY <1>1, <1>2, <2>1, <2>2, <2>4 DEF BoundTypes
  <2>7. GroupMoved(b)'
    <3>1. \A x \in Devs : Within(todo', x) => Within(todo, x)
      BY <2>1, <2>2
    <3>2. \A x \in Devs : Within(todo, x) => Within(todo', x) \/ drv'[x] = "vfio"
      BY <2>1, <2>2, <2>4
    <3>3. \A x \in Devs : drv[x] = "vfio" => drv'[x] = "vfio"
      BY <2>4
    <3> QED
      BY <1>1, <1>3, <2>1, <3>1, <3>2, <3>3 DEF GroupMoved
  <2>8. OneBuild(b)' /\ HeldOwed(b)'
    BY <1>1, <1>2, <2>1 DEF OneBuild, HeldOwed, Making, Running
  <2>9. HeldBound(b)'
    <3>1. Held(b)' = Held(b) /\ Held(b) \subseteq Devs
      BY <1>1, <2>1, InGroup DEF Held, BoundTypes
    <3> QED
      BY <1>1, <2>1, <2>4, <3>1 DEF HeldBound
  <2>10. VmInv(b)'
    BY <2>7, <2>8, <2>9 DEF VmInv
  <2> QED
    BY <2>4, <2>5, <2>6, <2>10, StepOf
<1>6. CASE PassDone(b) \/ PassRefused(b) \/ UnbindTimeout(b)
  <2>1. NextInList /\ drv' = drv
    BY <1>6 DEF PassDone, PassRefused, UnbindTimeout, PassFalse, hostVars
  <2>2. ids' \subseteq ids
    BY <1>6 DEF PassDone, PassRefused, UnbindTimeout, hostVars, Removed
  <2>3. /\ list' \in Seq(Devs) /\ todo' \in Seq(Devs) /\ GroupMoved(b)'
    BY <1>1, <1>3, <2>1, NextGroup DEF GroupMoved
  <2>4. /\ bpc'[b] \in {"gpu", "pci", "ending"}
        /\ \A a \in Vms \ {b} : bpc'[a] = bpc[a]
        /\ bpc' = [a \in Vms |-> bpc'[a]]
    <3>1. bpc' = bpc \/ bpc' = [bpc EXCEPT ![b] = "ending"]
      BY <1>6 DEF PassDone, PassRefused, UnbindTimeout, PassFalse
    <3>2. bpc = [a \in Vms |-> bpc[a]]
      BY <1>1 DEF BoundTypes
    <3> QED
      BY <1>1, <3>1, <3>2
  <2>5. /\ pt' \in [Vms -> SUBSET Devs] /\ \A a \in Vms \ {b} : pt'[a] = pt[a]
        /\ pt'[b] \subseteq pt[b] \cup {Head(list)}
        /\ pt'[b] = pt[b] \/ todo = <<>>
    <3>1. pt \in [Vms -> SUBSET Devs]
      BY <1>1 DEF BoundTypes
    <3>2. CASE PassDone(b)
      <4>1. todo = <<>> /\ pt' = [pt EXCEPT ![b] = pt[b] \cup {Head(list)}]
        BY <3>2 DEF PassDone
      <4> QED
        BY <1>4, <3>1, <4>1
    <3>3. CASE PassRefused(b) \/ UnbindTimeout(b)
      <4>1. pt' = pt
        BY <3>3 DEF PassRefused, UnbindTimeout, PassFalse
      <4> QED
        BY <3>1, <4>1
    <3> QED
      BY <1>6, <3>2, <3>3
  <2>6. Alone(b)
    BY <1>1, <1>2, <2>1, <2>4, <2>5 DEF Alone
  <2>7. BoundTypes' /\ IdsBound'
    BY <1>1, <1>2, <2>1, <2>2, <2>3, <2>4, <2>5 DEF BoundTypes, IdsBound
  <2>8. OneBuild(b)' /\ HeldOwed(b)'
    <3>1. pt'[b] \subseteq Mine(b)
      BY <1>1, <1>4, <2>5 DEF OneBuild
    <3> QED
      BY <1>1, <1>2, <2>4, <3>1 DEF OneBuild, HeldOwed, Making, Running
  <2>9. HeldBound(b)'
    <3>1. \A x \in Held(b) : drv[x] = "vfio"
      BY <1>1 DEF HeldBound, Making
    <3>2. CASE pt'[b] = pt[b]
      BY <2>1, <3>1, <3>2 DEF HeldBound, Held
    <3>3. CASE todo = <<>>
      <4>1. \A x \in ToSet(Group[Head(list)]) : drv[x] = "vfio"
        BY <1>1, <1>3, <1>4, <3>3, NoneWithin DEF GroupMoved
      <4>2. \A x \in Held(b)' : x \in Held(b) \/ x \in ToSet(Group[Head(list)])
        BY <2>5 DEF Held
      <4> QED
        BY <2>1, <3>1, <4>1, <4>2 DEF HeldBound
    <3> QED
      BY <2>5, <3>2, <3>3
  <2>10. VmInv(b)'
    BY <2>3, <2>8, <2>9 DEF VmInv
  <2> QED
    BY <2>6, <2>7, <2>10, StepOf
<1> QED
  BY <1>5, <1>6

(* A callback is added after the devices are passed through. *)
LEMMA CallAdded ==
  ASSUME Apart, BoundInv, NEW b \in Vms,
         SetPciDevicesCallback(b) \/ BuildExtraGuestPmCtrlCmd(b)
  PROVE  BoundInv'
<1>1. /\ VmInv(b) /\ bpc[b] \in {"pci", "power"} /\ bpc'[b] \in {"power", "flush"}
      /\ \A a \in Vms \ {b} : bpc'[a] = bpc[a]
      /\ bpc' = [a \in Vms |-> bpc'[a]]
      /\ UNCHANGED drv /\ UNCHANGED ids /\ UNCHANGED pt /\ UNCHANGED restore
      /\ UNCHANGED building /\ UNCHANGED list /\ UNCHANGED todo
  BY DEF SetPciDevicesCallback, BuildExtraGuestPmCtrlCmd, Goto, hostVars, BoundInv, BoundTypes
<1>2. /\ end_call \in [Vms -> Seq(Calls)] /\ end_call[b] \in Seq(Calls)
      /\ {"pci", "socket"} \subseteq Calls
  BY DEF BoundInv, BoundTypes, Calls
<1>3. /\ \/ end_call' = end_call
         \/ end_call' = [end_call EXCEPT ![b] = Append(end_call[b], "pci")]
         \/ end_call' = [end_call EXCEPT ![b] = Append(end_call[b], "socket")]
  BY DEF SetPciDevicesCallback, BuildExtraGuestPmCtrlCmd
<1>4. /\ end_call' \in [Vms -> Seq(Calls)]
      /\ \A a \in Vms \ {b} : end_call'[a] = end_call[a]
      /\ Within(end_call[b], "pci") => Within(end_call'[b], "pci")
  BY <1>2, <1>3, OneMore
<1>5. pt[b] = {} \/ Within(end_call'[b], "pci")
  <2>1. CASE SetPciDevicesCallback(b)
    BY <1>2, <2>1, OneMore DEF SetPciDevicesCallback
  <2>2. CASE BuildExtraGuestPmCtrlCmd(b)
    BY <1>1, <1>4, <2>2 DEF BuildExtraGuestPmCtrlCmd, Goto, VmInv, HeldOwed
  <2> QED
    BY <2>1, <2>2
<1>6. Alone(b)
  BY <1>1, <1>4 DEF Alone
<1>7. BoundTypes' /\ IdsBound'
  BY <1>1, <1>4 DEF BoundInv, BoundTypes, IdsBound
<1>8. OneBuild(b)'
  BY <1>1 DEF VmInv, OneBuild, Making, Running
<1>9. HeldBound(b)' /\ HeldOwed(b)'
  <2>1. Held(b)' = Held(b)
    BY <1>1 DEF Held
  <2> QED
    BY <1>1, <1>5, <2>1 DEF VmInv, HeldBound, HeldOwed, Making, Running
<1>10. VmInv(b)'
  BY <1>1, <1>8, <1>9 DEF VmInv
<1> QED
  BY <1>6, <1>7, <1>10, StepOf

(* One callback after the other, and one device after the other. *)
LEMMA EndKeeps ==
  ASSUME Apart, BoundInv, NEW b \in Vms,
         ProbeSound(b) \/ RemoveSocket(b) \/ RestoreBegin(b) \/ RestoreDevice(b)
  PROVE  BoundInv'
<1>1. /\ BoundTypes /\ IdsBound /\ OneBuild(b) /\ HeldOwed(b) /\ bpc[b] = "ending"
      /\ pt[b] \subseteq Mine(b) /\ restore[b] \in Seq(Devs) /\ end_call[b] \in Seq(Calls)
  BY DEF ProbeSound, RemoveSocket, RestoreBegin, RestoreDevice, NextCall, BoundInv, VmInv,
         BoundTypes, OneBuild
<1>2. UNCHANGED bpc /\ UNCHANGED building /\ UNCHANGED list /\ UNCHANGED todo /\ UNCHANGED pt
  BY DEF ProbeSound, RemoveSocket, RestoreBegin, RestoreDevice, NextCall
<1>3. Held(b)' = Held(b) /\ Held(b) \subseteq Taken(b) \cap Devs
  <2>1. \A d \in Mine(b) : d \in Devs /\ ToSet(Group[d]) \subseteq Taken(b) \cap Devs
    BY MineAre, InGroup
  <2> QED
    BY <1>1, <1>2, <2>1 DEF Held
<1>4. ASSUME Alone(b), BoundTypes', IdsBound',
             \A x \in Devs : Within(restore'[b], x) => x \in Taken(b),
             building # b =>
               \/ Within(end_call'[b], "pci")
               \/ \A x \in Held(b) : Within(restore'[b], x) \/ drv'[x] = "host"
      PROVE  BoundInv'
  <2>1. OneBuild(b)'
    BY <1>1, <1>2, <1>4 DEF OneBuild, Making, Running
  <2>2. HeldBound(b)' /\ HeldOwed(b)'
    BY <1>1, <1>2, <1>3, <1>4 DEF HeldBound, HeldOwed, Making, Running
  <2>3. VmInv(b)'
    BY <1>1, <1>2, <2>1, <2>2 DEF VmInv
  <2> QED
    BY <1>4, <2>3, StepOf
<1>5. ASSUME NEW call \in Calls, NextCall(b, call)
      PROVE  /\ end_call' \in [Vms -> Seq(Calls)]
             /\ \A a \in Vms \ {b} : end_call'[a] = end_call[a]
             /\ call # "pci" /\ Within(end_call[b], "pci") => Within(end_call'[b], "pci")
  <2>1. /\ end_call[b] # <<>> /\ Head(end_call[b]) = call
        /\ end_call' = [end_call EXCEPT ![b] = Tail(end_call[b])]
    BY <1>5 DEF NextCall
  <2>2. Tail(end_call[b]) \in Seq(Calls)
    BY <1>1, <2>1
  <2>3. call # "pci" /\ Within(end_call[b], "pci") => Within(Tail(end_call[b]), "pci")
    BY <1>1, <2>1, FrontOf
  <2> QED
    BY <1>1, <2>1, <2>2, <2>3 DEF BoundTypes
<1>6. CASE ProbeSound(b) \/ RemoveSocket(b)
  <2>1. /\ UNCHANGED drv /\ UNCHANGED ids /\ UNCHANGED restore
        /\ NextCall(b, "sound") \/ NextCall(b, "socket")
    BY <1>6 DEF ProbeSound, RemoveSocket
  <2>2. /\ end_call' \in [Vms -> Seq(Calls)]
        /\ \A a \in Vms \ {b} : end_call'[a] = end_call[a]
        /\ Within(end_call[b], "pci") => Within(end_call'[b], "pci")
    <3>1. CASE NextCall(b, "sound")
      <4>1. "sound" \in Calls /\ "sound" # "pci"
        BY DEF Calls
      <4> QED
        BY <1>5, <3>1, <4>1
    <3>2. CASE NextCall(b, "socket")
      <4>1. "socket" \in Calls /\ "socket" # "pci"
        BY DEF Calls
      <4> QED
        BY <1>5, <3>2, <4>1
    <3> QED
      BY <2>1, <3>1, <3>2
  <2>3. Alone(b)
    BY <1>2, <2>1, <2>2 DEF Alone
  <2>4. BoundTypes' /\ IdsBound'
    BY <1>1, <1>2, <2>1, <2>2 DEF BoundTypes, IdsBound
  <2>5. /\ \A x \in Devs : Within(restore'[b], x) => x \in Taken(b)
        /\ building # b =>
             \/ Within(end_call'[b], "pci")
             \/ \A x \in Held(b) : Within(restore'[b], x) \/ drv'[x] = "host"
    BY <1>1, <2>1, <2>2 DEF OneBuild, HeldOwed
  <2> QED
    BY <1>4, <2>3, <2>4, <2>5
<1>7. CASE RestoreBegin(b)
  <2> DEFINE devs == SetToSeq(pt[b])
             r == FlattenSeq([i \in DOMAIN devs |-> Group[devs[i]]])
  <2>1. /\ UNCHANGED drv /\ UNCHANGED ids /\ NextCall(b, "pci")
        /\ restore' = [restore EXCEPT ![b] = r]
    BY <1>7 DEF RestoreBegin, hostVars
  <2>2. IsFiniteSet(pt[b]) /\ pt[b] \subseteq Devs
    BY <1>1, MineAre, FS_Subset
  <2>3. r \in Seq(Devs) /\ \A x : Within(r, x) <=> \E d \in pt[b] : x \in ToSet(Group[d])
    BY <2>2, RestoreIs
  <2> HIDE DEF r
  <2>4. \A x : Within(r, x) <=> x \in Held(b)
    BY <2>3 DEF Held
  <2>5. /\ restore' \in [Vms -> Seq(Devs)] /\ restore'[b] = r
        /\ \A a \in Vms \ {b} : restore'[a] = restore[a]
    BY <1>1, <2>1, <2>3 DEF BoundTypes
  <2>6. /\ end_call' \in [Vms -> Seq(Calls)]
        /\ \A a \in Vms \ {b} : end_call'[a] = end_call[a]
    <3>1. "pci" \in Calls
      BY DEF Calls
    <3> QED
      BY <1>5, <2>1, <3>1
  <2>7. Alone(b)
    BY <1>2, <2>1, <2>5, <2>6 DEF Alone
  <2>8. BoundTypes' /\ IdsBound'
    BY <1>1, <1>2, <2>1, <2>5, <2>6 DEF BoundTypes, IdsBound
  <2> QED
    BY <1>3, <1>4, <2>4, <2>5, <2>7, <2>8
<1>8. CASE RestoreDevice(b)
  <2> DEFINE d == Head(restore[b])
  <2>1. /\ restore[b] # <<>> /\ GiveBack(d) /\ end_call' = end_call
        /\ restore' = [restore EXCEPT ![b] = Tail(restore[b])]
    BY <1>8 DEF RestoreDevice
  <2>2. /\ d \in Devs /\ Tail(restore[b]) \in Seq(Devs)
        /\ \A x : Within(restore[b], x) <=> x = d \/ Within(Tail(restore[b]), x)
    BY <1>1, <2>1, FrontOf
  <2> HIDE DEF d
  <2>3. d \in Taken(b)
    BY <1>1, <2>2 DEF OneBuild
  <2>4. /\ drv' \in [Devs -> {"host", "vfio", "none"}] /\ IdsBound'
        /\ drv'[d] = "host" /\ \A x \in Devs \ {d} : drv'[x] = drv[x]
    BY <1>1, <2>1, <2>2, GivesOne
  <2>5. /\ restore' \in [Vms -> Seq(Devs)] /\ restore'[b] = Tail(restore[b])
        /\ \A a \in Vms \ {b} : restore'[a] = restore[a]
    BY <1>1, <2>1, <2>2 DEF BoundTypes
  <2>6. Alone(b)
    BY <1>2, <2>1, <2>3, <2>4, <2>5 DEF Alone
  <2>7. BoundTypes'
    BY <1>1, <1>2, <2>1, <2>4, <2>5 DEF BoundTypes
  <2>8. \A x \in Devs : Within(restore'[b], x) => x \in Taken(b)
    BY <1>1, <2>2, <2>5 DEF OneBuild
  <2>9. building # b =>
          \/ Within(end_call'[b], "pci")
          \/ \A x \in Held(b) : Within(restore'[b], x) \/ drv'[x] = "host"
    <3>1. ASSUME NEW x \in Held(b), Within(restore[b], x) \/ drv[x] = "host"
          PROVE  Within(restore'[b], x) \/ drv'[x] = "host"
      BY <1>3, <2>2, <2>4, <2>5, <3>1
    <3> QED
      BY <1>1, <2>1, <3>1 DEF HeldOwed
  <2> QED
    BY <1>4, <2>4, <2>6, <2>7, <2>8, <2>9
<1> QED
  BY <1>6, <1>7, <1>8

(* A kill leaves the devices where they are, and nobody to run a callback. *)
LEMMA KillKeeps ==
  ASSUME BoundInv, Killed
  PROVE  BoundInv'
<1>1. /\ \A b \in Vms : /\ \/ bpc'[b] = bpc[b] /\ bpc[b] \in {"new", "gone", "failed"}
                           \/ bpc'[b] = "killed"
                        /\ restore'[b] = <<>> /\ end_call'[b] = <<>>
      /\ bpc' = [b \in Vms |-> bpc'[b]]
      /\ restore' = [b \in Vms |-> <<>>] /\ end_call' = [b \in Vms |-> <<>>]
      /\ list' = <<>> /\ todo' = <<>>
      /\ UNCHANGED drv /\ UNCHANGED ids /\ UNCHANGED pt
  BY DEF Killed, hostVars
<1>2. BoundTypes' /\ IdsBound'
  BY <1>1 DEF BoundInv, BoundTypes, IdsBound
<1>3. ASSUME NEW b \in Vms PROVE VmInv(b)'
  <2>1. VmInv(b) /\ Held(b)' = Held(b)
    BY <1>1 DEF BoundInv, Held
  <2>2. OneBuild(b)'
    BY <1>1, <2>1, NoneWithin DEF VmInv, OneBuild, Making, Running
  <2>3. HeldBound(b)' /\ HeldOwed(b)'
    BY <1>1, <2>1 DEF VmInv, HeldBound, HeldOwed, Making, Running
  <2> QED
    BY <1>1, <2>2, <2>3 DEF VmInv
<1> QED
  BY <1>2, <1>3 DEF BoundInv

(* Every step. *)
LEMMA BoundStep ==
  ASSUME Apart, BoundInv, [Next]_vars
  PROVE  BoundInv'
<1>1. CASE UNCHANGED vars
  BY <1>1 DEF vars, hostVars, BoundInv, BoundTypes, IdsBound, VmInv, OneBuild, GroupMoved,
              HeldBound, HeldOwed, Held
<1>2. ASSUME NEW b \in Vms, FlushBegin(b) \/ FlushStep(b) PROVE BoundInv'
  <2>1. CASE FlushBegin(b)
    <3>1. Moves(b, {"flush"}, "flushing") /\ building' = building
      BY <2>1 DEF FlushBegin, Goto, Moves, hostVars
    <3> QED
      BY <3>1, MovesKeep
  <2>2. CASE FlushStep(b)
    BY <2>2 DEF FlushStep, hostVars, BoundInv, BoundTypes, IdsBound, VmInv, OneBuild,
                GroupMoved, HeldBound, HeldOwed, Held
  <2> QED
    BY <1>2, <2>1, <2>2
<1>3. ASSUME NEW b \in Vms, VmStep(b) PROVE BoundInv'
  <2> USE DEF Goto, Moves, hostVars
  <2>1. CASE BuildBegin(b)
    <3>1. PICK to \in {"sound", "checks"} :
            Moves(b, {"new"}, to) /\ (to = "sound" => Config[b].graphics = "GVT-d")
      BY <2>1 DEF BuildBegin
    <3>2. building = NoOne /\ building' = b /\ (to = "sound" => Gpu \in Mine(b))
      BY <2>1, <3>1, MineAre DEF BuildBegin
    <3> QED
      BY <3>1, <3>2, MovesKeep
  <2>2. CASE GpuDone(b)
    <3>1. Moves(b, {"gpu"}, "checks") /\ building' = building
      BY <2>2 DEF GpuDone
    <3> QED
      BY <3>1, MovesKeep
  <2>3. CASE ChecksFail(b)
    <3>1. Moves(b, {"checks"}, "ending") /\ building' = building
      BY <2>3 DEF ChecksFail
    <3> QED
      BY <3>1, MovesKeep
  <2>4. CASE Built(b)
    <3>1. Moves(b, {"flush", "flushing"}, "built") /\ building' = building
      BY <2>4 DEF Built
    <3> QED
      BY <3>1, MovesKeep
  <2>5. CASE Start(b)
    <3>1. Moves(b, {"built"}, "started") /\ building' = NoOne
      BY <2>5 DEF Start
    <3> QED
      BY <3>1, MovesKeep
  <2>6. CASE Listen(b)
    <3>1. Moves(b, {"started"}, "up") /\ building' = building
      BY <2>6 DEF Listen
    <3> QED
      BY <3>1, MovesKeep
  <2>7. CASE Exit(b)
    <3>1. Moves(b, Running, "ending") /\ building' = building
      BY <2>7 DEF Exit, Running
    <3> QED
      BY <3>1, MovesKeep
  <2>8. CASE Gone(b)
    <3>1. /\ Moves(b, {"ending"}, IF building = b THEN "failed" ELSE "gone")
          /\ restore[b] = <<>> /\ end_call[b] = <<>>
          /\ building' = IF building = b THEN NoOne ELSE building
      BY <2>8 DEF Gone
    <3> HIDE DEF Moves
    <3> QED
      BY <3>1, MovesKeep
  <2> QED
    BY <1>3, <2>1, <2>2, <2>3, <2>4, <2>5, <2>6, <2>7, <2>8, ListBegins, PassKeeps, CallAdded,
       EndKeeps DEF VmStep
<1> QED
  BY <1>1, <1>2, <1>3, KillKeeps DEF Next

(* A fresh server. *)
LEMMA BoundStarts == Init => BoundInv
<1> SUFFICES ASSUME Init PROVE BoundInv
  OBVIOUS
<1>1. BoundTypes /\ IdsBound
  BY DEF Init, BoundTypes, IdsBound
<1>2. ASSUME NEW b \in Vms PROVE VmInv(b)
  BY NoneWithin DEF Init, VmInv, OneBuild, HeldBound, HeldOwed, Held, Making, Running
<1> QED
  BY <1>1, <1>2 DEF BoundInv

(* On a host whose devices have identifiers of their own, and with no      *)
(* IOMMU group shared by two machines, the invariant holds for every       *)
(* number of machines, devices and groups.                                 *)
THEOREM DevicesInvariant == Apart => (Spec => []BoundInv)
<1> SUFFICES ASSUME Apart PROVE Spec => []BoundInv
  OBVIOUS
<1>1. BoundInv /\ [Next]_vars => BoundInv'
  BY BoundStep
<1> QED
  BY <1>1, BoundStarts, PTL DEF Spec

(* There, a device that a running machine was given stays with vfio-pci,   *)
(* whatever other builders move, fail to move or give back meanwhile       *)
(* (PassthroughOnePciDev).                                                 *)
THEOREM DevicesStayBound == Apart => (Spec => []PtBound)
<1> SUFFICES ASSUME Apart PROVE Spec => []PtBound
  OBVIOUS
<1>1. ASSUME BoundInv PROVE PtBound
  <2> SUFFICES ASSUME NEW b \in Vms, bpc[b] \in {"started", "up"}, NEW d \in pt[b]
               PROVE  drv[d] = "vfio"
    BY DEF PtBound
  <2>1. d \in Devs /\ HeldBound(b)
    BY <1>1 DEF BoundInv, BoundTypes, VmInv
  <2>2. d \in Held(b)
    BY <2>1, InGroup DEF Held
  <2> QED
    BY <2>1, <2>2 DEF HeldBound, Running
<1> QED
  BY <1>1, DevicesInvariant, PTL

(* There, the devices of a machine that was built and has ended are back   *)
(* with the host, and so is all that moved with them (end_call_, StopVm).  *)
THEOREM DevicesComeBack == Apart => (Spec => []RestoredAtEnd)
<1> SUFFICES ASSUME Apart PROVE Spec => []RestoredAtEnd
  OBVIOUS
<1>1. ASSUME BoundInv PROVE RestoredAtEnd
  BY <1>1 DEF BoundInv, VmInv, HeldOwed, Held, RestoredAtEnd
<1> QED
  BY <1>1, DevicesInvariant, PTL
=============================================================================
