-------------------------------- MODULE Aaf --------------------------------
(***************************************************************************)
(* The Android adaptation file mixins.spec: class Aaf (guest/aaf.cc),      *)
(* which a builder fills and flushes at the end of BuildVmArgs.  A line is *)
(* a key and a value; lines of other programs have keys that are not in    *)
(* data_.  Empty lines, which Flush drops, are left out.  The files of the *)
(* directory can be renamed and created.                                   *)
(***************************************************************************)
EXTENDS Sequences, SequencesExt, Naturals

CONSTANT FirstFiles   \* what the directory may hold before the server starts

VARIABLES
  apc,      \* program point of Flush
  data,     \* data_ of the builder at work
  target,   \* the file mixins.spec
  hidden,   \* the file .mixins.spec~
  out,      \* what has been written to out and is not on the disk yet
  before    \* history: the lines and data_ at the call of Flush

aafVars == <<apc, data, target, hidden, out, before>>

Keys == <<"audio-type", "gpu-type", "suspend">>   \* in the order of the map
NoValue == ""
NoData == [k \in ToSet(Keys) |-> NoValue]
NoAaf == [there |-> FALSE, lines |-> <<>>]
AafFile(lines) == [there |-> TRUE, lines |-> lines]

ASSUME FilesAssumption ==
  /\ FirstFiles \subseteq [there : BOOLEAN, lines : Seq(STRING \X STRING)]
  /\ \A f \in FirstFiles : ~f.there => f = NoAaf

AafInit ==
  /\ apc = "none" /\ data = NoData /\ out = <<>>
  /\ target \in FirstFiles
  /\ hidden = NoAaf
  /\ before = [lines |-> <<>>, data |-> NoData]

AafStep(from, to) == apc = from /\ apc' = to

(* Flush: an existing file is renamed, *)
Rename ==
  /\ before' = [lines |-> target.lines, data |-> data]
  /\ out' = <<>>
  /\ IF target.there
       THEN AafStep("flush", "open") /\ hidden' = target /\ target' = NoAaf
       ELSE AafStep("flush", "create") /\ UNCHANGED <<hidden, target>>
  /\ UNCHANGED data

(* a new one opened, also when there was none, *)
Open ==
  /\ AafStep("open", "copy") \/ AafStep("create", "append")
  /\ target' = AafFile(<<>>)
  /\ UNCHANGED <<data, hidden, out, before>>

(* and every line copied.  The first one with a key that has a value gets  *)
(* the new value, which is cleared then.                                   *)
Replaced(lines, i) ==
  LET k == lines[i][1]
  IN  /\ k \in DOMAIN data /\ data[k] # NoValue
      /\ \A j \in 1..(i - 1) : lines[j][1] # k

(* Mutant: the value stays in data_ after it was written. *)
CopyKeepsData ==
  /\ AafStep("copy", "remove")
  /\ out' = [i \in DOMAIN hidden.lines |->
               IF Replaced(hidden.lines, i)
                 THEN <<hidden.lines[i][1], data[hidden.lines[i][1]]>>
                 ELSE hidden.lines[i]]
  /\ UNCHANGED <<data, target, hidden, before>>

Copy ==
  LET lines == hidden.lines
      used == {lines[i][1] : i \in {j \in DOMAIN lines : Replaced(lines, j)}}
  IN  /\ AafStep("copy", "remove")
      /\ out' = [i \in DOMAIN lines |->
                   IF Replaced(lines, i) THEN <<lines[i][1], data[lines[i][1]]>>
                   ELSE lines[i]]
      /\ data' = [k \in DOMAIN data |-> IF k \in used THEN NoValue ELSE data[k]]
      /\ UNCHANGED <<target, hidden, before>>

(* The old file is removed while the new lines are still in the buffer. *)
RemoveHidden ==
  /\ AafStep("remove", "append")
  /\ hidden' = NoAaf
  /\ UNCHANGED <<data, target, out, before>>

(* The values that are left are appended, and the file is closed. *)
Added(lines, k) == IF data[k] = NoValue THEN lines ELSE Append(lines, <<k, data[k]>>)

Append_Close ==
  /\ AafStep("append", "done")
  /\ target' = AafFile(Added(Added(Added(out, Keys[1]), Keys[2]), Keys[3]))
  /\ data' = NoData /\ out' = <<>>
  /\ UNCHANGED <<hidden, before>>

Flush == Rename \/ Open \/ Copy \/ RemoveHidden \/ Append_Close

(* The server is killed: a new file that is open has the part of the lines *)
(* that had left the buffer.                                               *)
AafKilled ==
  /\ apc' = "none" /\ data' = NoData /\ out' = <<>>
  /\ \/ UNCHANGED target
     \/ /\ apc \in {"remove", "append"}
        /\ \E n \in 1..Len(out) : target' = AafFile(SubSeq(out, 1, n))
  /\ UNCHANGED <<hidden, before>>

-----------------------------------------------------------------------------
(* The lines old with the values in: the first line of each key that has   *)
(* one holds it, no key got a second line, and every other line is what    *)
(* and where it was.                                                       *)
With(old, values, new) ==
  LET set == {k \in DOMAIN values : values[k] # NoValue}
  IN  /\ \A i \in DOMAIN old :
           i \in DOMAIN new /\ new[i][1] = old[i][1] /\ (old[i][1] \notin set => new[i] = old[i])
      /\ \A i \in DOMAIN new \ DOMAIN old : new[i][1] \in set
      /\ \A k \in set : \E i \in DOMAIN new :
           /\ new[i] = <<k, values[k]>>
           /\ \A j \in DOMAIN new \ {i} :
                new[j][1] = k => i < j /\ j \in DOMAIN old /\ new[j] = old[j]

(* When Flush returns, the file has the lines that were there with the     *)
(* values that the builder set, whichever earlier flush was cut off by a   *)
(* kill, and where.                                                        *)
AafFlushed == apc = "done" => With(before.lines, before.data, target.lines)
=============================================================================
