-------------------------- MODULE FlashDiskProofs --------------------------
(***************************************************************************)
(* For every flash file and every configuration: the disk that a flash     *)
(* makes has room for all its images and holds exactly those, what the     *)
(* form saved is what the screen showed, and no saved configuration is     *)
(* refused once the disk image of the guest is gone.                       *)
(***************************************************************************)
EXTENDS FlasherProofs, TotalsTheorems

-----------------------------------------------------------------------------
(* Sizes of files *)

FileRec == [name : STRING, part : Nat, size : Nat, new : {TRUE}]

(* Division rounds up as CheckImages and dd need it. *)
LEMMA RoundsUp ==
  ASSUME NEW s \in Nat, NEW m \in Nat, m > 0
  PROVE  LET n == (s + m - 1) \div m
         IN  n \in Nat /\ s <= n * m /\ (s > 0 => n > 0 /\ (n - 1) * m < s)
<1> DEFINE n == (s + m - 1) \div m
<1>1. s + m - 1 \in Nat
  OBVIOUS
<1>2. n \in Nat /\ n * m <= s + m - 1 /\ s + m - 1 < n * m + m
  BY <1>1, Z3
<1> HIDE DEF n
<1>3. n * m \in Nat /\ (n - 1) * m = n * m - m
  BY <1>2, Z3
<1>4. s > 0 => n > 0
  BY <1>2, Z3
<1> QED
  BY <1>2, <1>3, <1>4 DEF n

(* Sizes add up over any set that contains the files. *)
LEMMA SizeOfIs ==
  ASSUME NEW U, NEW S \in SUBSET U
  PROVE  SizeOf(S) = Total(S, [f \in U |-> f.size])
  BY TotalSame DEF SizeOf

(* The size of a set of files is a natural number, *)
LEMMA SizeOfType ==
  ASSUME NEW S \in SUBSET FileRec, IsFiniteSet(S)
  PROVE  SizeOf(S) \in Nat
<1>1. \A x \in S : [f \in S |-> f.size][x] \in Nat
  BY DEF FileRec
<1> QED
  BY <1>1, UnitsFinite DEF SizeOf

(* no smaller than that of a part of it, *)
LEMMA SizeOfPart ==
  ASSUME NEW S \in SUBSET FileRec, IsFiniteSet(S), NEW T \in SUBSET S
  PROVE  SizeOf(T) <= SizeOf(S)
<1> DEFINE w == [f \in S |-> f.size]
<1>1. \A x \in S : w[x] \in Nat
  BY DEF FileRec
<1>2. SizeOf(T) = Total(T, w) /\ SizeOf(S) = Total(S, w)
  BY SizeOfIs
<1> HIDE DEF w
<1> QED
  BY <1>1, <1>2, TotalPart

(* at most the sum of the sizes of two sets that make it up, *)
LEMMA SizeOfUnion ==
  ASSUME NEW S \in SUBSET FileRec, IsFiniteSet(S), NEW T \in SUBSET FileRec, IsFiniteSet(T)
  PROVE  SizeOf(S \cup T) <= SizeOf(S) + SizeOf(T)
<1> DEFINE w == [f \in S \cup T |-> f.size]
<1>1. \A x \in S \cup T : w[x] \in Nat
  BY DEF FileRec
<1>2. SizeOf(T) = Total(T, w) /\ SizeOf(S) = Total(S, w) /\ SizeOf(S \cup T) = Total(S \cup T, w)
  BY SizeOfIs
<1> HIDE DEF w
<1> QED
  BY <1>1, <1>2, TotalUnion

(* that of its file when there is one, *)
LEMMA SizeOfOne ==
  ASSUME NEW f \in FileRec
  PROVE  IsFiniteSet({f}) /\ SizeOf({f}) = f.size
<1> DEFINE w == [g \in {f} |-> g.size]
<1>1. w[f] = f.size /\ f.size \in Nat
  BY DEF FileRec
<1>2. Units({f}, w) = {f} \X (1..w[f])
  BY DEF Units
<1> HIDE DEF w
<1>3. Cardinality({f} \X (1..w[f])) = f.size
  BY <1>1, OneWeight
<1> QED
  BY <1>2, <1>3, FS_Singleton DEF SizeOf, Total, w

(* The parts of a file that split makes are small enough for vfat and are  *)
(* not larger than the file, together.                                     *)
LEMMA PartsFit ==
  ASSUME NEW f \in FileRec, f.size >= FourGB
  PROVE  /\ Parts(f) \subseteq FileRec /\ IsFiniteSet(Parts(f))
         /\ \A g \in Parts(f) : g.size < FourGB
         /\ SizeOf(Parts(f)) <= f.size
<1> DEFINE max == FourGB - 1
           s == f.size
           n == (s + max - 1) \div max
           Size(i) == IF i < n THEN max ELSE s - (n - 1) * max
           Part(i) == [f EXCEPT !.part = i, !.size = Size(i)]
<1>1. s \in Nat /\ s > 0 /\ max \in Nat /\ max > 0 /\ FourGB \in Nat
  BY FlashAssumption DEF FileRec
<1>2. n \in Nat /\ n > 0 /\ s <= n * max /\ (n - 1) * max < s
  <2> HIDE DEF max, s
  <2> QED
    BY <1>1, RoundsUp
<1>3. Parts(f) = {Part(i) : i \in 1..n}
  BY DEF Parts
<1> HIDE DEF n
<1>4. \A i \in 1..n : Size(i) \in 1..max
  <2>1. (n - 1) * max \in Int /\ n * max = (n - 1) * max + max
    BY <1>1, <1>2
  <2> HIDE DEF max, s
  <2> QED
    BY <1>1, <1>2, <2>1
<1>5. ASSUME NEW i \in 1..n
      PROVE  /\ Part(i) \in FileRec /\ Part(i).part = i
             /\ Part(i).size = Size(i) /\ Part(i).size \in 1..max
  <2>1. i \in Nat /\ Size(i) \in Nat /\ Size(i) \in 1..max
    BY <1>2, <1>4
  <2> HIDE DEF Size, max
  <2> QED
    BY <2>1 DEF FileRec
<1> HIDE DEF Part
<1>6. \A g \in Parts(f) : \E i \in 1..n : g = Part(i)
  BY <1>3
<1>7. IsFiniteSet(Parts(f))
  <2> DEFINE F == [i \in 1..n |-> Part(i)]
  <2>1. F \in Surjection(1..n, Parts(f))
    BY <1>3 DEF Surjection
  <2>2. IsFiniteSet(1..n)
    BY <1>2, FS_Interval
  <2> QED
    BY <2>1, <2>2, FS_Surjection
<1>8. SizeOf(Parts(f)) <= s
  <2> DEFINE w == [g \in Parts(f) |-> g.size]
             U == Units(Parts(f), w)
             At == [u \in U |-> (u[1].part - 1) * max + u[2]]
  <2>1. ASSUME NEW u \in U
        PROVE  \E i \in 1..n, j \in 1..max : /\ u = <<Part(i), j>> /\ At[u] = (i - 1) * max + j
                                            /\ j <= Size(i)
    <3>1. PICK g \in Parts(f) : \E j \in 1..w[g] : u = <<g, j>>
      BY UnitsAre
    <3>2. PICK j \in 1..w[g] : u = <<g, j>>
      BY <3>1
    <3>3. PICK i \in 1..n : g = Part(i)
      BY <1>6
    <3>4. w[g] = Size(i) /\ Size(i) \in 1..max /\ g.part = i
      BY <1>5, <3>3
    <3>5. j \in 1..max /\ j <= Size(i)
      BY <3>2, <3>4, <1>1
    <3> HIDE DEF w
    <3> QED
      BY <3>2, <3>3, <3>4, <3>5
  <2> HIDE DEF U, At
  <2>2. ASSUME NEW i \in 1..n, NEW j \in 1..max, j <= Size(i)
        PROVE  (i - 1) * max + j \in 1..s
    <3>1. i - 1 \in Nat /\ (i - 1) * max \in Nat
      BY <1>1, <1>2
    <3>2. CASE i = n
      BY <1>1, <1>2, <2>2, <3>1, <3>2
    <3>3. CASE i < n
      <4>1. (i - 1) * max + max = i * max
        BY <1>1, <1>2
      <4>2. i * max <= (n - 1) * max
        <5>1. i <= n - 1 /\ i \in Nat
          BY <1>2, <3>3
        <5> HIDE DEF max, s
        <5> QED
          BY <1>1, <1>2, <5>1, Z3
      <4>3. (n - 1) * max \in Int /\ i * max \in Int /\ j \in Int /\ j <= max
        BY <1>1, <1>2
      <4> HIDE DEF max, s
      <4> QED
        BY <1>1, <1>2, <3>1, <4>1, <4>2, <4>3
    <3> QED
      BY <1>2, <3>2, <3>3
  <2>3. ASSUME NEW i \in 1..n, NEW k \in 1..n, NEW j \in 1..max, NEW l \in 1..max,
               (i - 1) * max + j = (k - 1) * max + l
        PROVE  i = k /\ j = l
    <3> HIDE DEF max, s
    <3>1. \A a, b \in Nat : a < b => (a + 1) * max <= b * max
      BY <1>1, Z3
    <3>2. \A a \in Nat : (a + 1) * max = a * max + max /\ a * max \in Nat
      BY <1>1, Z3
    <3>3. i - 1 \in Nat /\ k - 1 \in Nat
      BY <1>2
    <3>4. ~(i - 1 < k - 1) /\ ~(k - 1 < i - 1)
      BY <1>1, <2>3, <3>1, <3>2, <3>3
    <3> QED
      BY <1>1, <1>2, <2>3, <3>2, <3>3, <3>4
  <2>4. At \in Injection(U, 1..s)
    <3>1. At = [u \in U |-> At[u]]
      BY DEF At
    <3>2. \A u \in U : At[u] \in 1..s
      BY <2>1, <2>2
    <3>3. ASSUME NEW u \in U, NEW v \in U, At[u] = At[v] PROVE u = v
      <4>1. PICK i \in 1..n, j \in 1..max : u = <<Part(i), j>> /\ At[u] = (i - 1) * max + j
        BY <2>1
      <4>2. PICK k \in 1..n, l \in 1..max : v = <<Part(k), l>> /\ At[v] = (k - 1) * max + l
        BY <2>1
      <4> QED
        BY <2>3, <3>3, <4>1, <4>2
    <3> QED
      BY <3>1, <3>2, <3>3 DEF Injection, IsInjective
  <2>5. IsFiniteSet(1..s) /\ Cardinality(1..s) = s
    <3> HIDE DEF s
    <3> QED
      BY <1>1, FS_Interval
  <2>6. Cardinality(U) <= s
    BY <2>4, <2>5, FS_Injection
  <2> QED
    BY <2>6 DEF U, SizeOf, Total
<1>9. \A g \in Parts(f) : g \in FileRec /\ g.size < FourGB
  BY <1>1, <1>5, <1>6
<1> QED
  BY <1>7, <1>8, <1>9

-----------------------------------------------------------------------------
(* The disk *)

(* The points at which the flash works on the images of a zip file. *)
Disk == {"check", "mkfs", "copy"}
Early == {"emulator", "file", "rmdir", "unzip"}

Large == {f \in zip.files : f.size >= FourGB}
AllParts == UNION {Parts(f) : f \in Large}

(* From unzip on the directory has each image of this flash file, whole or *)
(* in all its parts, and nothing else.                                     *)
ImagesInv ==
  /\ zip \in Flashfiles \cup {NoZip}
  /\ fpc \in Early \cup Disk => virtual_disk = "none"
  /\ fpc = "unzip" => o_dir = {}
  /\ fpc \in Disk =>
       /\ IsFiniteSet(o_dir)
       /\ o_dir \subseteq zip.files \cup AllParts
       /\ \A f \in zip.files : f \in o_dir \/ (f.size >= FourGB /\ Parts(f) \subseteq o_dir)
       /\ todo \subseteq o_dir
  /\ vfat \in [size : Nat, files : {vfat.files}]
  /\ fpc = "mkfs" => vfat.files = {}
  /\ fpc = "copy" => vfat.files = o_dir \ todo

(* What the loop of CheckImages has visited is small enough for vfat, and  *)
(* counted; then the disk has room for all of it.                          *)
RoomInv ==
  /\ fpc \in Early => total = 0
  /\ fpc = "check" =>
       /\ total \in Nat
       /\ \A f \in o_dir \ todo : f.size < FourGB
       /\ SizeOf(o_dir \ todo) <= total
  /\ fpc \in {"mkfs", "copy"} =>
       /\ \A f \in o_dir : f.size < FourGB
       /\ SizeOf(o_dir) <= vfat.size

DiskInv == ImagesInv /\ RoomInv /\ FreshImages

(* The files of a flash file, and the parts of its large ones. *)
LEMMA ZipFiles ==
  ASSUME zip \in Flashfiles \cup {NoZip}
  PROVE  /\ zip.files \subseteq FileRec /\ IsFiniteSet(zip.files)
         /\ AllParts \subseteq FileRec
         /\ \A f \in AllParts : f.size < FourGB
<1>1. zip.files \subseteq FileRec /\ IsFiniteSet(zip.files)
  <2>1. CASE zip \in Flashfiles
    <3>1. /\ zip.files \subseteq [name : STRING, part : {0}, size : Nat, new : {TRUE}]
          /\ IsFiniteSet(zip.files)
      BY <2>1, FlashAssumption
    <3>2. ASSUME NEW f \in [name : STRING, part : {0}, size : Nat, new : {TRUE}]
          PROVE  f \in FileRec
      <4>1. /\ f = [name |-> f.name, part |-> f.part, size |-> f.size, new |-> f.new]
            /\ f.name \in STRING /\ f.size \in Nat /\ f.new \in {TRUE} /\ f.part \in {0}
        OBVIOUS
      <4>2. f.part \in Nat
        BY <4>1
      <4> QED
        BY <4>1, <4>2, Zenon DEF FileRec
    <3> QED
      BY <3>1, <3>2, Zenon
  <2>2. CASE zip = NoZip
    BY <2>2, FS_EmptySet DEF NoZip
  <2> QED
    BY <2>1, <2>2
<1>2. \A f \in Large : f \in FileRec /\ f.size >= FourGB
  BY <1>1 DEF Large
<1>3. \A g \in AllParts : g \in FileRec /\ g.size < FourGB
  BY <1>2, PartsFit DEF AllParts
<1> QED
  BY <1>1, <1>3

(* and zero when there is none. *)
LEMMA EmptySize == SizeOf({}) = 0
<1>1. Units({}, [f \in {} |-> f.size]) = {}
  BY DEF Units
<1> QED
  BY <1>1, FS_EmptySet DEF SizeOf, Total

(* A step outside the work on the images leaves the disk as it is. *)
LEMMA DiskMoves ==
  ASSUME DiskInv, UNCHANGED <<zip, vfat, virtual_disk>>,
         fpc' \notin {"emulator", "unzip"} \cup Disk,
         fpc' \in {"file", "rmdir"} => fpc \in Early /\ total' = total
  PROVE  DiskInv'
  BY DEF DiskInv, ImagesInv, RoomInv, FreshImages, Disk, Early

(* The directory that unzip fills is empty. *)
LEMMA UnzipStep ==
  ASSUME DiskInv, RemoveOldDir \/ Unzip
  PROVE  DiskInv'
<1> USE DEF Disk, Early
<1>1. CASE RemoveOldDir
  <2>1. CASE ToolRuns("rmdir", "unzip") /\ o_dir' = {} /\ UNCHANGED <<vfat, loopVars, virtual_disk>>
    BY <2>1 DEF ToolRuns, Step, loopVars, DiskInv, ImagesInv, RoomInv, FreshImages
  <2>2. CASE ToolFails("rmdir") /\ UNCHANGED vfat
    BY <2>2, DiskMoves DEF ToolFails, Return, Step
  <2> QED
    BY <1>1, <2>1, <2>2 DEF RemoveOldDir
<1>2. CASE ToolFails("unzip") /\ UNCHANGED vfat
  BY <1>2, DiskMoves DEF ToolFails, Return, Step
<1>3. CASE Unzip /\ ~ToolFails("unzip")
  <2> DEFINE files == zip.files \cup
                        {f \in o_dir : \A g \in zip.files : <<f.name, f.part>> # <<g.name, 0>>}
  <2>1. /\ fpc = "unzip" /\ o_dir' = files /\ UNCHANGED <<zip, vfat, total>>
        /\ \/ fpc' = "check" /\ todo' = files /\ UNCHANGED virtual_disk
           \/ fpc' = "image" /\ virtual_disk' = "unzipped"
           \/ fpc' = (IF made = {} THEN "idle" ELSE "stop_vtpm") /\ UNCHANGED virtual_disk
    BY <1>3 DEF Unzip, ToolRuns, Return, Step
  <2>2. files = zip.files /\ total = 0
    BY <2>1 DEF DiskInv, ImagesInv, RoomInv
  <2> HIDE DEF files
  <2>3. CASE fpc' = "check" /\ todo' = files /\ UNCHANGED virtual_disk
    <3>1. IsFiniteSet(zip.files)
      BY ZipFiles DEF DiskInv, ImagesInv
    <3>2. ImagesInv'
      BY <2>1, <2>2, <2>3, <3>1 DEF DiskInv, ImagesInv
    <3>3. o_dir' \ todo' = {}
      BY <2>1, <2>3
    <3>4. RoomInv'
      BY <2>1, <2>2, <2>3, <3>3, EmptySize DEF RoomInv
    <3>5. FreshImages'
      BY <2>1, <2>3 DEF DiskInv, ImagesInv, FreshImages
    <3> QED
      BY <3>2, <3>4, <3>5 DEF DiskInv
  <2>4. CASE fpc' = "image" /\ virtual_disk' = "unzipped"
    BY <2>1, <2>4 DEF DiskInv, ImagesInv, RoomInv, FreshImages
  <2>5. CASE fpc' = (IF made = {} THEN "idle" ELSE "stop_vtpm") /\ UNCHANGED virtual_disk
    BY <2>1, <2>5, DiskMoves
  <2> QED
    BY <2>1, <2>3, <2>4, <2>5
<1> QED
  BY <1>1, <1>2, <1>3 DEF Unzip

(* A file is counted, and replaced by its parts if it is too large. *)
LEMMA CheckStep ==
  ASSUME DiskInv, NEW f \in todo, CheckImage(f)
  PROVE  DiskInv'
<1> USE DEF Disk, Early
<1>1. /\ fpc = "check" /\ fpc' = "check" /\ total' = total + f.size
      /\ UNCHANGED <<zip, vfat, virtual_disk>>
  BY DEF CheckImage, ToolRuns, Step
<1>2. /\ zip \in Flashfiles \cup {NoZip} /\ IsFiniteSet(o_dir)
      /\ o_dir \subseteq zip.files \cup AllParts
      /\ \A g \in zip.files : g \in o_dir \/ (g.size >= FourGB /\ Parts(g) \subseteq o_dir)
      /\ todo \subseteq o_dir /\ virtual_disk = "none"
      /\ vfat \in [size : Nat, files : {vfat.files}]
      /\ total \in Nat /\ (\A g \in o_dir \ todo : g.size < FourGB)
      /\ SizeOf(o_dir \ todo) <= total
  BY <1>1 DEF DiskInv, ImagesInv, RoomInv
<1>3. /\ zip.files \subseteq FileRec /\ AllParts \subseteq FileRec
      /\ \A g \in AllParts : g.size < FourGB
  BY <1>2, ZipFiles
<1>4. /\ f \in FileRec /\ f.size \in Nat /\ o_dir \ todo \subseteq FileRec
      /\ \A g \in o_dir : g.size \in Nat
  BY <1>2, <1>3 DEF FileRec
<1>5. IsFiniteSet(o_dir \ todo) /\ SizeOf(o_dir \ todo) \in Nat /\ FourGB \in Nat
  BY <1>2, <1>4, FS_Difference, SizeOfType, FlashAssumption
<1>6. CASE f.size < FourGB
  <2>1. todo' = todo \ {f} /\ o_dir' = o_dir
    BY <1>4, <1>5, <1>6 DEF CheckImage
  <2>2. o_dir' \ todo' = (o_dir \ todo) \cup {f}
    BY <1>2, <2>1
  <2>3. SizeOf(o_dir' \ todo') <= total'
    <3>1. IsFiniteSet({f}) /\ SizeOf({f}) = f.size
      BY <1>4, SizeOfOne
    <3>2. SizeOf((o_dir \ todo) \cup {f}) <= SizeOf(o_dir \ todo) + f.size
      BY <1>4, <1>5, <3>1, SizeOfUnion
    <3>3. IsFiniteSet((o_dir \ todo) \cup {f}) /\ (o_dir \ todo) \cup {f} \subseteq FileRec
      BY <1>4, <1>5, FS_AddElement
    <3>4. SizeOf((o_dir \ todo) \cup {f}) \in Nat
      BY <3>3, SizeOfType
    <3>5. SizeOf(o_dir' \ todo') = SizeOf((o_dir \ todo) \cup {f})
      BY <2>2
    <3> QED
      BY <1>1, <1>2, <1>4, <1>5, <3>2, <3>4, <3>5
  <2>4. ImagesInv'
    BY <1>1, <1>2, <2>1 DEF ImagesInv, AllParts, Large
  <2>5. RoomInv'
    BY <1>1, <1>2, <1>4, <1>6, <2>2, <2>3 DEF RoomInv
  <2> QED
    BY <1>1, <1>2, <2>4, <2>5 DEF DiskInv, FreshImages
<1>7. CASE f.size >= FourGB
  <2>1. PICK seen \in SUBSET Parts(f) :
          todo' = (todo \ {f}) \cup seen /\ o_dir' = (o_dir \ {f}) \cup Parts(f)
    BY <1>7 DEF CheckImage
  <2>2. f \in Large
    BY <1>2, <1>3, <1>4, <1>5, <1>7 DEF Large
  <2>3. /\ Parts(f) \subseteq FileRec /\ IsFiniteSet(Parts(f))
        /\ \A g \in Parts(f) : g.size < FourGB
        /\ SizeOf(Parts(f)) <= f.size /\ SizeOf(Parts(f)) \in Nat
    BY <1>4, <1>7, PartsFit, SizeOfType
  <2>4. o_dir' \ todo' \subseteq (o_dir \ todo) \cup Parts(f)
    BY <2>1
  <2>5. SizeOf(o_dir' \ todo') <= total'
    <3> DEFINE both == (o_dir \ todo) \cup Parts(f)
    <3>1. IsFiniteSet(both) /\ both \subseteq FileRec
      BY <1>4, <1>5, <2>3, FS_Union
    <3>2. SizeOf(both) <= SizeOf(o_dir \ todo) + SizeOf(Parts(f))
      BY <1>4, <1>5, <2>3, SizeOfUnion
    <3>3. SizeOf(both) \in Nat
      BY <3>1, SizeOfType
    <3>4. IsFiniteSet(o_dir' \ todo') /\ o_dir' \ todo' \subseteq FileRec
      BY <2>4, <3>1, FS_Subset
    <3>5. SizeOf(o_dir' \ todo') \in Nat /\ SizeOf(o_dir' \ todo') <= SizeOf(both)
      BY <2>4, <3>1, <3>4, SizeOfType, SizeOfPart
    <3> HIDE DEF both
    <3> QED
      BY <1>1, <1>2, <1>4, <1>5, <2>3, <3>2, <3>3, <3>5
  <2>6. IsFiniteSet(o_dir')
    BY <1>2, <2>1, <2>3, FS_RemoveElement, FS_Union
  <2>7. Parts(f) \subseteq AllParts
    BY <2>2 DEF AllParts
  <2>8. o_dir' \subseteq zip.files \cup AllParts /\ todo' \subseteq o_dir'
    BY <1>2, <2>1, <2>7
  <2>9. ASSUME NEW g \in zip.files
        PROVE  g \in o_dir' \/ (g.size >= FourGB /\ Parts(g) \subseteq o_dir')
    <3>1. CASE g = f
      BY <1>7, <2>1, <3>1
    <3>2. CASE g # f
      <4>1. \A h : h \in Large => f \notin Parts(h)
        BY <1>3, <1>4, <1>5, <1>7 DEF AllParts
      <4>2. g.size >= FourGB => f \notin Parts(g)
        BY <4>1 DEF Large
      <4> QED
        BY <1>2, <2>1, <3>2, <4>2
    <3> QED
      BY <3>1, <3>2
  <2>10. ImagesInv'
    BY <1>1, <1>2, <2>6, <2>8, <2>9 DEF ImagesInv, AllParts, Large
  <2>11. \A g \in o_dir' \ todo' : g.size < FourGB
    BY <1>2, <2>3, <2>4
  <2>12. RoomInv'
    BY <1>1, <1>2, <1>4, <2>5, <2>11 DEF RoomInv
  <2> QED
    BY <1>1, <1>2, <2>10, <2>12 DEF DiskInv, FreshImages
<1> QED
  BY <1>4, <1>5, <1>6, <1>7

(* The file system is as large as all that CheckImages has counted. *)
LEMMA MakeDiskStep ==
  ASSUME DiskInv, MakeDisk \/ MakeFs
  PROVE  DiskInv'
<1> USE DEF Disk, Early
<1>1. CASE ToolFails("check") /\ MakeDisk
  <2>1. fpc = "check" /\ virtual_disk = "none" /\ zip \in Flashfiles \cup {NoZip}
    BY <1>1 DEF ToolFails, Return, Step, DiskInv, ImagesInv
  <2>2. fpc' \in {"idle", "stop_vtpm"} /\ UNCHANGED <<zip, virtual_disk>>
    BY <1>1 DEF ToolFails, Return, Step
  <2>3. vfat' = NoFat
    BY <1>1, <2>2 DEF MakeDisk, ToolRuns, Step
  <2> QED
    BY <2>1, <2>2, <2>3 DEF NoFat, DiskInv, ImagesInv, RoomInv, FreshImages
<1>2. CASE MakeDisk /\ ~ToolFails("check")
  <2>1. /\ fpc = "check" /\ fpc' = "mkfs" /\ todo = {}
        /\ vfat' = [size |-> Blocks, files |-> {}]
        /\ UNCHANGED <<zip, o_dir, todo, total, virtual_disk>>
    BY <1>2 DEF MakeDisk, ToolRuns, Step, loopVars
  <2>2. /\ virtual_disk = "none" /\ o_dir \ todo = o_dir
        /\ total \in Nat /\ (\A g \in o_dir : g.size < FourGB) /\ SizeOf(o_dir) <= total
    BY <2>1 DEF DiskInv, ImagesInv, RoomInv
  <2>3. total <= Blocks /\ Blocks \in Nat
    <3>1. total + OneGB \in Nat /\ DdBs \in Nat /\ DdBs > 0 /\ OneGB \in Nat
      BY <2>2, FlashAssumption
    <3> DEFINE n == (total + OneGB + DdBs - 1) \div DdBs
    <3>2. n \in Nat /\ total + OneGB <= n * DdBs
      BY <3>1, RoundsUp
    <3> HIDE DEF n
    <3>3. n * DdBs \in Nat
      BY <3>1, <3>2
    <3>4. Blocks = n * DdBs
      BY DEF Blocks, n
    <3> QED
      BY <2>2, <3>1, <3>2, <3>3, <3>4
  <2>4. SizeOf(o_dir) \in Nat
    <3>1. o_dir \subseteq FileRec /\ IsFiniteSet(o_dir)
      BY <2>1, ZipFiles DEF DiskInv, ImagesInv
    <3> QED
      BY <3>1, SizeOfType
  <2>5. SizeOf(o_dir) <= Blocks
    BY <2>2, <2>3, <2>4
  <2>6. ImagesInv'
    BY <2>1, <2>3 DEF DiskInv, ImagesInv, AllParts, Large
  <2>7. RoomInv'
    BY <2>1, <2>2, <2>5 DEF RoomInv
  <2> QED
    BY <2>1, <2>2, <2>6, <2>7 DEF DiskInv, FreshImages
<1>3. CASE MakeFs
  <2>1. CASE ToolFails("mkfs") /\ UNCHANGED fileVars
    BY <2>1, DiskMoves DEF ToolFails, Return, Step, fileVars
  <2>2. CASE /\ ToolRuns("mkfs", "copy") /\ todo' = o_dir
             /\ UNCHANGED <<fileVars, total, virtual_disk>>
    <3>1. /\ fpc = "mkfs" /\ fpc' = "copy" /\ todo' = o_dir
          /\ UNCHANGED <<zip, o_dir, vfat, virtual_disk>>
      BY <2>2 DEF ToolRuns, Step, fileVars
    <3>2. ImagesInv'
      BY <3>1 DEF DiskInv, ImagesInv, AllParts, Large
    <3> QED
      BY <3>1, <3>2 DEF DiskInv, ImagesInv, RoomInv, FreshImages
  <2> QED
    BY <1>3, <2>1, <2>2 DEF MakeFs
<1> QED
  BY <1>1, <1>2, <1>3

(* The images are copied one by one. *)
LEMMA CopyStep ==
  ASSUME DiskInv, CopyFails \/ RemoveDir \/ \E f \in todo : CopyImage(f)
  PROVE  DiskInv'
<1> USE DEF Disk, Early
<1>1. CASE CopyFails
  BY <1>1, DiskMoves DEF CopyFails, ToolFails, Return, Step, fileVars
<1>2. ASSUME NEW f \in todo, CopyImage(f) PROVE DiskInv'
  <2>1. /\ fpc = "copy" /\ fpc' = "copy" /\ todo' = todo \ {f}
        /\ vfat' = [vfat EXCEPT !.files = @ \cup {f}]
        /\ UNCHANGED <<zip, o_dir, virtual_disk>>
    BY <1>2 DEF CopyImage, ToolRuns, Step
  <2>2. vfat.files = o_dir \ todo /\ todo \subseteq o_dir /\ virtual_disk = "none"
    BY <2>1 DEF DiskInv, ImagesInv
  <2>3. "files" \in DOMAIN vfat /\ "size" \in DOMAIN vfat
    BY DEF DiskInv, ImagesInv
  <2>4. vfat'.files = vfat.files \cup {f} /\ vfat'.size = vfat.size
    BY <2>1, <2>3
  <2>5. ImagesInv'
    BY <2>1, <2>2, <2>4 DEF DiskInv, ImagesInv, AllParts, Large
  <2> QED
    BY <2>1, <2>2, <2>4, <2>5 DEF DiskInv, RoomInv, FreshImages
<1>3. CASE RemoveDir
  <2>1. /\ fpc = "copy" /\ fpc' = "image" /\ todo = {} /\ virtual_disk' = "vfat"
        /\ UNCHANGED <<zip, vfat>>
    BY <1>3 DEF RemoveDir, ToolRuns, Step
  <2>2. /\ vfat.files = o_dir /\ (\A g \in o_dir : g.size < FourGB)
        /\ zip \in Flashfiles \cup {NoZip}
        /\ o_dir \subseteq zip.files \cup AllParts
        /\ \A f \in zip.files : f \in o_dir \/ (f.size >= FourGB /\ Parts(f) \subseteq o_dir)
    BY <2>1 DEF DiskInv, ImagesInv, RoomInv
  <2>3. \A f \in zip.files : f.size \in Nat /\ FourGB \in Nat
    BY <2>2, ZipFiles, FlashAssumption DEF FileRec
  <2> DEFINE Images(f) == IF f.size < FourGB THEN {f} ELSE Parts(f)
  <2>4. ASSUME NEW g \in o_dir PROVE \E f \in zip.files : g \in Images(f)
    <3>1. CASE g \in zip.files
      BY <2>2, <3>1
    <3>2. CASE g \in AllParts
      <4>1. PICK f \in Large : g \in Parts(f)
        BY <3>2 DEF AllParts
      <4> QED
        BY <2>3, <4>1 DEF Large
    <3> QED
      BY <2>2, <3>1, <3>2
  <2>5. ASSUME NEW f \in zip.files PROVE Images(f) \subseteq o_dir
    <3>1. CASE f.size < FourGB
      BY <2>2, <2>3, <3>1
    <3>2. CASE ~(f.size < FourGB)
      BY <2>2, <3>2
    <3> QED
      BY <3>1, <3>2
  <2>6. o_dir = UNION {Images(f) : f \in zip.files}
    <3> HIDE DEF Images
    <3> QED
      BY <2>4, <2>5
  <2>7. FreshImages'
    BY <2>1, <2>2, <2>6 DEF FreshImages
  <2> QED
    BY <2>1, <2>2, <2>7 DEF DiskInv, ImagesInv, RoomInv
<1> QED
  BY <1>1, <1>2, <1>3

(* Every step keeps the invariant of the disk. *)
LEMMA DiskStep ==
  ASSUME DiskInv, Next \/ UNCHANGED vars
  PROVE  DiskInv'
<1> USE DEF Disk, Early
<1>1. ASSUME UNCHANGED <<fpc, zip, o_dir, todo, total, vfat, virtual_disk>> PROVE DiskInv'
  BY <1>1 DEF DiskInv, ImagesInv, RoomInv, FreshImages, AllParts, Large
<1>2. CASE UNCHANGED flashVars
  BY <1>1, <1>2 DEF flashVars, fileVars, loopVars
<1>3. CASE CreateSock \/ \E c \in CoProcs : Spawn(c) \/ StoreChild(c) \/ Ends(c)
  BY <1>1, <1>3 DEF CreateSock, Spawn, StoreChild, Ends, keepDisk, fileVars, loopVars
<1>4. CASE Killed
  BY <1>4, DiskMoves DEF Killed, keepDisk, fileVars
<1>5. ASSUME NEW file, NEW z \in Flashfiles, FlashGuest(file, z) PROVE DiskInv'
  BY <1>5 DEF FlashGuest, Step, NoFat, DiskInv, ImagesInv, RoomInv, FreshImages
<1>6. CASE EmulPath
  BY <1>6, DiskMoves DEF EmulPath, Step, Return, keepFiles, fileVars, loopVars
<1>7. CASE Flashfile
  <2>1. CASE virtual_disk' = virtual_disk
    BY <1>7, <2>1, DiskMoves DEF Flashfile, Step, Return, fileVars, loopVars
  <2>2. CASE virtual_disk' # virtual_disk
    BY <1>7, <2>2 DEF Flashfile, Step, fileVars, DiskInv, ImagesInv, RoomInv, FreshImages
  <2> QED
    BY <2>1, <2>2
<1>8. CASE SplitFails
  BY <1>8, DiskMoves DEF SplitFails, ToolFails, Return, Step
<1>9. CASE CreateDisk \/ RpmbData \/ MakeVtpm \/ Firmware \/ RunRpmb \/ RunVtpm \/ Qemu
  <2>1. UNCHANGED <<zip, vfat, virtual_disk>>
    BY <1>9 DEF CreateDisk, RpmbData, MakeVtpm, Firmware, RunRpmb, RunVtpm, Qemu, keepDisk,
                fileVars
  <2>2. fpc' \notin Early \cup Disk
    BY <1>9 DEF CreateDisk, RpmbData, MakeVtpm, Firmware, RunRpmb, RunVtpm, Qemu, Step, Return
  <2> QED
    BY <2>1, <2>2, DiskMoves
<1>10. CASE DestroyVtpm \/ DestroyRpmb \/ Started("rpmb", "wait_rpmb", "run_vtpm")
            \/ Started("vtpm", "wait_vtpm", "qemu")
  <2>1. UNCHANGED <<zip, vfat, virtual_disk>>
    BY <1>10 DEF DestroyVtpm, DestroyRpmb, Stop, Started, keepDisk, fileVars
  <2>2. fpc' \notin Early \cup Disk
    BY <1>10 DEF DestroyVtpm, DestroyRpmb, Stop, Started, Step
  <2> QED
    BY <2>1, <2>2, DiskMoves
<1>11. CASE FlashStep
  BY <1>6, <1>7, <1>8, <1>9, <1>10, <1>11, UnzipStep, CheckStep, MakeDiskStep, CopyStep
     DEF FlashStep
<1> QED
  BY <1>2, <1>3, <1>4, <1>5, <1>11 DEF Next, FlashBegins, vars

(* The invariant of the disk holds in every reachable state. *)
THEOREM DiskInvariant == Spec => []DiskInv
<1>1. Init => DiskInv
  BY DEF Init, DiskInv, ImagesInv, RoomInv, FreshImages, Disk, Early, NoFat
<1>2. DiskInv /\ [Next]_vars => DiskInv'
  BY DiskStep
<1> QED
  BY <1>1, <1>2, PTL DEF Spec

(* Every mcopy has room: the disk that dd made is large enough for all     *)
(* images and none reaches 4 GB, whatever CheckImages split and whether or *)
(* not its iterator met the parts.                                         *)
THEOREM DiskIsLargeEnough == Spec => []DiskFits
<1>1. DiskInv => DiskFits
  BY DEF DiskInv, RoomInv, DiskFits
<1> QED
  BY <1>1, DiskInvariant, PTL

(* The disk that qemu gets holds exactly the images of this flash file,    *)
(* however earlier flashes ended (QemuCreateVirtUsbDisk).                  *)
THEOREM ImagesAreFresh == Spec => []FreshImages
<1>1. DiskInv => FreshImages
  BY DEF DiskInv
<1> QED
  BY <1>1, DiskInvariant, PTL

-----------------------------------------------------------------------------
(* What the form saves *)

(* No two fields of the form go to one key, and none to a key that the     *)
(* selections set.                                                         *)
LEMMA FieldsApart ==
  /\ \A x, y \in DOMAIN Always :
       Always[x][1] = Always[y][1] /\ Always[x][2] = Always[y][2] => x = y
  /\ \A x \in DOMAIN Always :
       /\ Always[x][1] \notin {"firmware", "graphics", "passthrough"}
       /\ Always[x][1] = "global" => Always[x][2] # "name"
<1>1. \A x, y \in DOMAIN Always :
       Always[x][1] = Always[y][1] /\ Always[x][2] = Always[y][2] => x = y
  BY DEF Always
<1>2. \A x \in DOMAIN Always :
       /\ Always[x][1] \notin {"firmware", "graphics", "passthrough"}
       /\ Always[x][1] = "global" => Always[x][2] # "name"
  BY DEF Always
<1> QED
  BY <1>1, <1>2

(* A key that one entry sets to a value that is not empty has it after     *)
(* SetValue.                                                               *)
LEMMA SetGet ==
  ASSUME NEW t, NEW entries, NEW g, NEW k, NEW v, <<g, k, v>> \in entries, v # <<>>,
         \A e \in entries : e[1] = g /\ e[2] = k => e[3] = v
  PROVE  GetValue(SetValues(t, entries), g, k) = Trim(v)
<1> DEFINE puts == {e \in entries : e[3] # <<>>}
           keys(h) == {e[2] : e \in {x \in puts : x[1] = h}}
           value(h, j) == (CHOOSE e \in puts : e[1] = h /\ e[2] = j)[3]
           old(h) == IF h \in DOMAIN t THEN DOMAIN t[h] ELSE {}
           dom == DOMAIN t \cup {e[1] : e \in puts}
           s == [h \in dom |->
                   [j \in keys(h) \cup old(h) |-> IF j \in keys(h) THEN value(h, j) ELSE t[h][j]]]
<1>1. SetValues(t, entries) = s
  BY DEF SetValues
<1>2. <<g, k, v>> \in puts
  OBVIOUS
<1>3. g \in dom
  BY <1>2
<1>4. k \in keys(g)
  BY <1>2
<1>5. value(g, k) = v
  <2>1. \E e \in puts : e[1] = g /\ e[2] = k
    BY <1>2
  <2> QED
    BY <2>1
<1> HIDE DEF puts, keys, value, old, dom
<1>6. g \in DOMAIN s /\ k \in DOMAIN s[g] /\ s[g][k] = v
  BY <1>3, <1>4, <1>5
<1> HIDE DEF s
<1> QED
  BY <1>1, <1>6 DEF GetValue

(* A key that no entry sets is not in a new tree. *)
LEMMA SetGetNone ==
  ASSUME NEW entries, NEW g, NEW k, \A e \in entries : e[1] = g /\ e[2] = k => e[3] = <<>>
  PROVE  GetValue(SetValues(EmptyTree, entries), g, k) = <<>>
<1> DEFINE t == EmptyTree
           puts == {e \in entries : e[3] # <<>>}
           keys(h) == {e[2] : e \in {x \in puts : x[1] = h}}
           value(h, j) == (CHOOSE e \in puts : e[1] = h /\ e[2] = j)[3]
           old(h) == IF h \in DOMAIN t THEN DOMAIN t[h] ELSE {}
           dom == DOMAIN t \cup {e[1] : e \in puts}
           s == [h \in dom |->
                   [j \in keys(h) \cup old(h) |-> IF j \in keys(h) THEN value(h, j) ELSE t[h][j]]]
<1>1. SetValues(EmptyTree, entries) = s
  BY DEF SetValues
<1>2. k \notin keys(g)
  OBVIOUS
<1>3. old(g) = {}
  BY EmptyAccepted
<1> HIDE DEF puts, keys, value, old, dom
<1>4. g \in DOMAIN s => DOMAIN s[g] = keys(g) \cup old(g)
  OBVIOUS
<1> HIDE DEF s
<1> QED
  BY <1>1, <1>2, <1>3, <1>4 DEF GetValue

(* So a new tree gives back the text of a key that one entry sets. *)
LEMMA SetGetNew ==
  ASSUME NEW entries, NEW g, NEW k, NEW v, <<g, k, v>> \in entries,
         \A e \in entries : e[1] = g /\ e[2] = k => e[3] = v
  PROVE  GetValue(SetValues(EmptyTree, entries), g, k) = Trim(v)
<1>1. CASE v = <<>>
  BY <1>1, SetGetNone DEF Trim
<1>2. CASE v # <<>>
  BY <1>2, SetGet
<1> QED
  BY <1>1, <1>2

FormRec == [text : [TextFields -> Seq(STRING)], firm : 0..1, vgpu : 0..4, ver : 0..3]

(* What SetConfToPtree puts, key by key. *)
LEMMA EntriesAre ==
  ASSUME NEW p
  PROVE  LET f == form[p]
             text == f.text
             E == SetConfToPtree(p)
             Only(g, k, v) == /\ <<g, k, v>> \in E
                              /\ \A e \in E : e[1] = g /\ e[2] = k => e[3] = v
             None(g, k) == \A e \in E : ~(e[1] = g /\ e[2] = k)
         IN  /\ \A x \in DOMAIN Always : Only(Always[x][1], Always[x][2], text[x])
             /\ Only("firmware", "type", <<FirmwareType[f.firm + 1]>>)
             /\ Only("graphics", "type", <<VgpuType[f.vgpu + 1]>>)
             /\ Only("passthrough", "passthrough_pci", disp[p])
             /\ IF f.firm = 0
                  THEN /\ Only("firmware", "path", text.firm_unified)
                       /\ None("firmware", "code") /\ None("firmware", "vars")
                  ELSE /\ Only("firmware", "code", text.firm_splited_code)
                       /\ Only("firmware", "vars", text.firm_splited_data)
                       /\ None("firmware", "path")
             /\ IF f.vgpu = 3 THEN Only("graphics", "vgpu_uuid", text.gvtg_uuid)
                ELSE None("graphics", "vgpu_uuid")
<1> DEFINE f == form[p]
           text == f.text
           E == SetConfToPtree(p)
           E1 == {<<Always[x][1], Always[x][2], text[x]>> : x \in DOMAIN Always}
           E2 == {<<"global", "name", <<"name">> >>,
                  <<"firmware", "type", <<FirmwareType[f.firm + 1]>> >>,
                  <<"graphics", "type", <<VgpuType[f.vgpu + 1]>> >>,
                  <<"passthrough", "passthrough_pci", disp[p]>>}
           E3 == IF f.firm = 0
                   THEN {<<"firmware", "path", text.firm_unified>>}
                   ELSE {<<"firmware", "code", text.firm_splited_code>>,
                         <<"firmware", "vars", text.firm_splited_data>>}
           E4 == IF f.vgpu # 3 THEN {}
                   ELSE {<<"graphics", "gvtg_version", <<GvtgVer[f.ver + 1]>> >>,
                         <<"graphics", "vgpu_uuid", text.gvtg_uuid>>}
           Only(g, k, v) == /\ <<g, k, v>> \in E
                            /\ \A e \in E : e[1] = g /\ e[2] = k => e[3] = v
           None(g, k) == \A e \in E : ~(e[1] = g /\ e[2] = k)
<1>1. E = E1 \cup E2 \cup E3 \cup E4
  BY DEF SetConfToPtree
<1>2. \A e \in E1 : /\ e[1] \notin {"firmware", "graphics", "passthrough"}
                    /\ e[1] = "global" => e[2] # "name"
  BY FieldsApart
<1>3. \A e \in E2 : \/ e[1] = "global" /\ e[2] = "name"
                    \/ e[1] = "firmware" /\ e[2] = "type" /\ e[3] = <<FirmwareType[f.firm + 1]>>
                    \/ e[1] = "graphics" /\ e[2] = "type" /\ e[3] = <<VgpuType[f.vgpu + 1]>>
                    \/ e[1] = "passthrough" /\ e[3] = disp[p]
  OBVIOUS
<1>4. \A e \in E3 : \/ f.firm = 0 /\ e = <<"firmware", "path", text.firm_unified>>
                    \/ f.firm # 0 /\ e = <<"firmware", "code", text.firm_splited_code>>
                    \/ f.firm # 0 /\ e = <<"firmware", "vars", text.firm_splited_data>>
  OBVIOUS
<1>5. \A e \in E4 : /\ f.vgpu = 3 /\ e[1] = "graphics" /\ e[2] \in {"gvtg_version", "vgpu_uuid"}
                    /\ e[2] = "vgpu_uuid" => e[3] = text.gvtg_uuid
  OBVIOUS
<1>6. ASSUME NEW x \in DOMAIN Always PROVE Only(Always[x][1], Always[x][2], text[x])
  <2>1. <<Always[x][1], Always[x][2], text[x]>> \in E1
    OBVIOUS
  <2>2. \A e \in E1 : e[1] = Always[x][1] /\ e[2] = Always[x][2] => e[3] = text[x]
    BY FieldsApart
  <2>3. /\ Always[x][1] \notin {"firmware", "graphics", "passthrough"}
        /\ Always[x][1] = "global" => Always[x][2] # "name"
    BY FieldsApart
  <2> HIDE DEF E1, E2, E3, E4, E
  <2>4. ASSUME NEW e \in E2 \cup E3 \cup E4 PROVE ~(e[1] = Always[x][1] /\ e[2] = Always[x][2])
    BY <1>3, <1>4, <1>5, <2>3
  <2> QED
    BY <1>1, <2>1, <2>2, <2>4
<1>7. /\ <<"firmware", "type", <<FirmwareType[f.firm + 1]>> >> \in E2
      /\ <<"graphics", "type", <<VgpuType[f.vgpu + 1]>> >> \in E2
      /\ <<"passthrough", "passthrough_pci", disp[p]>> \in E2
      /\ IF f.firm = 0 THEN <<"firmware", "path", text.firm_unified>> \in E3
         ELSE /\ <<"firmware", "code", text.firm_splited_code>> \in E3
              /\ <<"firmware", "vars", text.firm_splited_data>> \in E3
      /\ f.vgpu = 3 => <<"graphics", "vgpu_uuid", text.gvtg_uuid>> \in E4
  OBVIOUS
<1> HIDE DEF E1, E2, E3, E4, E, f, text
<1>8. Only("firmware", "type", <<FirmwareType[f.firm + 1]>>)
  BY <1>1, <1>2, <1>3, <1>4, <1>5, <1>7
<1>9. Only("graphics", "type", <<VgpuType[f.vgpu + 1]>>)
  BY <1>1, <1>2, <1>3, <1>4, <1>5, <1>7
<1>10. Only("passthrough", "passthrough_pci", disp[p])
  BY <1>1, <1>2, <1>3, <1>4, <1>5, <1>7
<1>11. f.firm = 0 => /\ Only("firmware", "path", text.firm_unified)
                     /\ None("firmware", "code") /\ None("firmware", "vars")
  BY <1>1, <1>2, <1>3, <1>4, <1>5, <1>7
<1>12. f.firm # 0 => /\ Only("firmware", "code", text.firm_splited_code)
                     /\ Only("firmware", "vars", text.firm_splited_data)
                     /\ None("firmware", "path")
  BY <1>1, <1>2, <1>3, <1>4, <1>5, <1>7
<1>13. f.vgpu = 3 => Only("graphics", "vgpu_uuid", text.gvtg_uuid)
  BY <1>1, <1>2, <1>3, <1>4, <1>5, <1>7
<1>14. f.vgpu # 3 => None("graphics", "vgpu_uuid")
  BY <1>1, <1>2, <1>3, <1>4, <1>5, <1>7
<1> HIDE DEF Only, None
<1> QED
  BY <1>6, <1>8, <1>9, <1>10, <1>11, <1>12, <1>13, <1>14 DEF Only, None, E, f, text

(* Nothing is ticked, nothing displayed. *)
LEMMA NoneTicked == Ticked({}) = <<>>
<1> DEFINE n == Len(PciLines)
           G(f) == [i \in 0..n |->
                      IF i = 0 THEN <<>>
                      ELSE IF PciLines[i] \in {} THEN Append(f[i - 1], PciLines[i])
                           ELSE f[i - 1]]
           F == CHOOSE f : f = G(f)
           bad == {i \in 0..n : F[i] # <<>>}
<1>1. Ticked({}) = F[n]
  BY DEF Ticked
<1>2. n \in Nat
  BY FormAssumption
<1>3. F = G(F)
  <2> DEFINE f == [i \in 0..n |-> <<>>]
  <2>1. f = G(f)
    BY <1>2
  <2>2. \E h : h = G(h)
    BY <2>1
  <2> HIDE DEF G
  <2> QED
    BY <2>2
<1> HIDE DEF F
<1>4. \A i \in 0..n : F[i] = IF i = 0 THEN <<>> ELSE F[i - 1]
  BY <1>3
<1>5. bad = {}
  <2> SUFFICES ASSUME bad # {} PROVE FALSE
    OBVIOUS
  <2>1. bad \subseteq Nat
    BY <1>2
  <2> HIDE DEF bad
  <2>2. PICK i \in bad : \A j \in bad : i <= j
    BY <2>1, Least
  <2>3. i \in 0..n /\ F[i] # <<>>
    BY DEF bad
  <2>4. i - 1 \in 0..n /\ F[i - 1] # <<>>
    BY <1>2, <1>4, <2>3
  <2>5. i - 1 \in bad
    BY <2>4 DEF bad
  <2> QED
    BY <1>2, <2>2, <2>3, <2>5
<1> QED
  BY <1>1, <1>2, <1>5

(* A configuration with a type of firmware that FlashWithQemu knows. *)
KnownFirmware(t) == GetValue(t, "firmware", "type") \in {<<"unified">>, <<"splited">>}

(* Until a SAVE failed, the tree is made of what the form shows; a tree    *)
(* that is not empty names a known type of firmware.                       *)
ShownInv ==
  /\ upc \in [Tuis -> {"form", "create", "write", "saved", "closed", "killed"}]
  /\ form \in [Tuis -> FormRec]
  /\ checked = [p \in Tuis |-> checked[p]] /\ disp = [p \in Tuis |-> disp[p]]
  /\ tab \in [Tuis -> 0..1] /\ retried = [p \in Tuis |-> retried[p]]
  /\ tree = [p \in Tuis |-> tree[p]]
  /\ \A p \in Tuis :
       /\ tree[p] = EmptyTree \/ KnownFirmware(tree[p])
       /\ tab[p] = 0 => disp[p] = Ticked(checked[p])
       /\ ~retried[p] /\ upc[p] \in {"form", "create"} => tree[p] = EmptyTree
       /\ ~retried[p] /\ upc[p] \in {"write", "saved"} =>
            tree[p] = SetValues(EmptyTree, SetConfToPtree(p))
  /\ ini.tree = EmptyTree \/ KnownFirmware(ini.tree)

(* SetConfToPtree sets the type of the firmware. *)
LEMMA TypeSet ==
  ASSUME NEW p, form[p] \in FormRec, NEW t
  PROVE  KnownFirmware(SetValues(t, SetConfToPtree(p)))
<1> DEFINE v == <<FirmwareType[form[p].firm + 1]>>
<1>1. v \in {<<"unified">>, <<"splited">>}
  BY DEF FormRec, FirmwareType
<1>2. v # <<>> /\ Trim(v) = v
  BY <1>1 DEF Trim
<1>3. /\ <<"firmware", "type", v>> \in SetConfToPtree(p)
      /\ \A e \in SetConfToPtree(p) : e[1] = "firmware" /\ e[2] = "type" => e[3] = v
  BY EntriesAre
<1> HIDE DEF v
<1>4. GetValue(SetValues(t, SetConfToPtree(p)), "firmware", "type") = Trim(v)
  BY <1>2, <1>3, SetGet
<1> QED
  BY <1>1, <1>2, <1>4 DEF KnownFirmware

(* The fields of a form that nobody has filled. *)
LEMMA FreshForm == Fresh \in FormRec
<1>1. <<>> \in Seq(STRING)
  OBVIOUS
<1>2. Blank \in [TextFields -> Seq(STRING)]
  BY <1>1 DEF Blank
<1> QED
  BY <1>2 DEF Fresh, FormRec

(* The forms at first. *)
LEMMA ShownInit == TuiInit => ShownInv
  BY FreshForm, NoneTicked DEF TuiInit, ShownInv, NoFile

(* An edit of a form that is not being saved. *)
LEMMA ShownEdit ==
  ASSUME ShownInv, NEW p \in Tuis, upc[p] = "form",
         UNCHANGED <<ini, upc, tree, retried>>,
         form' \in [Tuis -> FormRec],
         \A q \in Tuis \ {p} : /\ form'[q] = form[q] /\ checked'[q] = checked[q]
                               /\ disp'[q] = disp[q] /\ tab'[q] = tab[q],
         checked' = [q \in Tuis |-> checked'[q]], disp' = [q \in Tuis |-> disp'[q]],
         tab' \in [Tuis -> 0..1],
         tab'[p] = 0 => disp'[p] = Ticked(checked'[p])
  PROVE  ShownInv'
<1>1. ASSUME NEW q \in Tuis
      PROVE  /\ tree'[q] = EmptyTree \/ KnownFirmware(tree'[q])
             /\ tab'[q] = 0 => disp'[q] = Ticked(checked'[q])
             /\ ~retried'[q] /\ upc'[q] \in {"form", "create"} => tree'[q] = EmptyTree
             /\ ~retried'[q] /\ upc'[q] \in {"write", "saved"} =>
                  tree'[q] = SetValues(EmptyTree, SetConfToPtree(q)')
  <2>1. CASE q = p
    BY <2>1 DEF ShownInv
  <2>2. CASE q # p
    <3>1. SetConfToPtree(q)' = SetConfToPtree(q)
      BY <2>2 DEF SetConfToPtree
    <3> QED
      BY <2>2, <3>1 DEF ShownInv
  <2> QED
    BY <2>1, <2>2
<1> QED
  BY <1>1 DEF ShownInv

(* Each step of a form keeps its tree in accord with the screen. *)
LEMMA ShownStep ==
  ASSUME ShownInv, NEW p \in Tuis, TuiStep(p)
  PROVE  ShownInv'
<1>t. /\ form \in [Tuis -> FormRec] /\ tab \in [Tuis -> 0..1]
      /\ upc \in [Tuis -> {"form", "create", "write", "saved", "closed", "killed"}]
      /\ checked = [q \in Tuis |-> checked[q]] /\ disp = [q \in Tuis |-> disp[q]]
      /\ tree = [q \in Tuis |-> tree[q]] /\ retried = [q \in Tuis |-> retried[q]]
      /\ tab[p] = 0 => disp[p] = Ticked(checked[p])
  BY DEF ShownInv
<1>f. form[p] \in FormRec
  BY <1>t
<1>1. CASE Type(p)
  <2>1. PICK t \in Texts : form' = [form EXCEPT ![p].text = t]
    BY <1>1 DEF Type
  <2>2. t \in [TextFields -> Seq(STRING)]
    BY FormAssumption
  <2>3. [form[p] EXCEPT !.text = t] \in FormRec
    BY <1>f, <2>2 DEF FormRec
  <2>4. form' = [form EXCEPT ![p] = [form[p] EXCEPT !.text = t]]
    BY <1>t, <2>1
  <2>5. form' \in [Tuis -> FormRec] /\ \A q \in Tuis \ {p} : form'[q] = form[q]
    BY <1>t, <2>3, <2>4
  <2> QED
    BY <1>1, <1>t, <2>5, ShownEdit DEF Type
<1>2. CASE Select(p)
  <2>1. \E r \in FormRec : form' = [form EXCEPT ![p] = r]
    <3>1. CASE \E i \in 1..Len(FirmwareType) : form' = [form EXCEPT ![p].firm = i - 1]
      <4>1. PICK i \in 1..2 : form' = [form EXCEPT ![p].firm = i - 1]
        BY <3>1 DEF FirmwareType
      <4>2. [form[p] EXCEPT !.firm = i - 1] \in FormRec
        BY <1>f DEF FormRec
      <4> QED
        BY <1>t, <4>1, <4>2
    <3>2. CASE \E i \in 1..Len(VgpuType) : form' = [form EXCEPT ![p].vgpu = i - 1, ![p].ver = 1]
      <4>1. PICK i \in 1..5 : form' = [form EXCEPT ![p].vgpu = i - 1, ![p].ver = 1]
        BY <3>2 DEF VgpuType
      <4>2. [form[p] EXCEPT !.vgpu = i - 1, !.ver = 1] \in FormRec
        <5> DEFINE r == [form[p] EXCEPT !.vgpu = i - 1]
        <5>1. r \in FormRec
          BY <1>f DEF FormRec
        <5>2. [r EXCEPT !.ver = 1] \in FormRec
          <6> HIDE DEF r
          <6> QED
            BY <5>1 DEF FormRec
        <5> QED
          BY <5>2
      <4>3. form' = [form EXCEPT ![p] = [form[p] EXCEPT !.vgpu = i - 1, !.ver = 1]]
        BY <1>t, <4>1
      <4> QED
        BY <4>2, <4>3
    <3>3. CASE \E i \in 1..Len(GvtgVer) : form' = [form EXCEPT ![p].ver = i - 1]
      <4>1. PICK i \in 1..4 : form' = [form EXCEPT ![p].ver = i - 1]
        BY <3>3 DEF GvtgVer
      <4>2. [form[p] EXCEPT !.ver = i - 1] \in FormRec
        BY <1>f DEF FormRec
      <4> QED
        BY <1>t, <4>1, <4>2
    <3> QED
      BY <1>2, <3>1, <3>2, <3>3 DEF Select
  <2>2. form' \in [Tuis -> FormRec] /\ \A q \in Tuis \ {p} : form'[q] = form[q]
    BY <1>t, <2>1
  <2> QED
    BY <1>2, <1>t, <2>2, ShownEdit DEF Select
<1>3. CASE Check(p)
  <2>1. \E c : checked' = [checked EXCEPT ![p] = c]
    BY <1>3 DEF Check
  <2>2. /\ checked' = [q \in Tuis |-> checked'[q]]
        /\ \A q \in Tuis \ {p} : checked'[q] = checked[q]
    BY <1>t, <2>1
  <2>3. tab[p] = 1 /\ UNCHANGED <<form, disp, tab, ini, upc, tree, retried>> /\ upc[p] = "form"
    BY <1>3 DEF Check
  <2> QED
    BY <1>t, <2>2, <2>3, ShownEdit
<1>4. CASE PtPciClickButton(p)
  <2>1. /\ disp' = [disp EXCEPT ![p] = Ticked(checked[p])]
        /\ tab' = [tab EXCEPT ![p] = 1 - tab[p]] /\ upc[p] = "form"
        /\ UNCHANGED <<form, checked, ini, upc, tree, retried>>
    BY <1>4 DEF PtPciClickButton
  <2>2. /\ disp' = [q \in Tuis |-> disp'[q]] /\ disp'[p] = Ticked(checked[p])
        /\ \A q \in Tuis \ {p} : disp'[q] = disp[q] /\ tab'[q] = tab[q]
    BY <1>t, <2>1
  <2>3. tab' \in [Tuis -> 0..1]
    BY <1>t, <2>1
  <2> QED
    BY <1>t, <2>1, <2>2, <2>3, ShownEdit
<1>5. CASE SaveExists(p) \/ SaveCreate(p) \/ SaveWrite(p)
  <2>1. UNCHANGED <<form, checked, disp, tab>>
    BY <1>5 DEF SaveExists, SaveCreate, SaveWrite, formVars
  <2>2. \A q : SetConfToPtree(q)' = SetConfToPtree(q)
    BY <2>1 DEF SetConfToPtree
  <2>3. CASE SaveExists(p)
    <3>1. UNCHANGED <<ini, tree, retried>> /\ upc[p] = "form" /\ upc' = [upc EXCEPT ![p] = "create"]
      BY <2>3 DEF SaveExists, Goto
    <3> QED
      BY <2>1, <2>2, <3>1 DEF ShownInv
  <2>4. CASE SaveCreate(p)
    <3> DEFINE new == SetValues(tree[p], SetConfToPtree(p))
    <3>1. /\ upc[p] = "create" /\ upc' = [upc EXCEPT ![p] = "write"] /\ retried' = retried
          /\ tree' = [tree EXCEPT ![p] = new]
          /\ ini' \in {File(EmptyTree), ini}
      BY <2>4 DEF SaveCreate, Goto
    <3>2. KnownFirmware(new)
      BY <1>f, TypeSet
    <3>3. ~retried[p] => new = SetValues(EmptyTree, SetConfToPtree(p))
      BY <3>1 DEF ShownInv
    <3>4. ini'.tree = EmptyTree \/ KnownFirmware(ini'.tree)
      BY <3>1 DEF ShownInv, File
    <3> HIDE DEF new
    <3>5. \A q \in Tuis : /\ tree'[q] = IF q = p THEN new ELSE tree[q]
                          /\ upc'[q] = IF q = p THEN "write" ELSE upc[q]
      BY <1>t, <3>1
    <3>6. /\ tree' = [q \in Tuis |-> tree'[q]]
          /\ upc' \in [Tuis -> {"form", "create", "write", "saved", "closed", "killed"}]
      BY <1>t, <3>1
    <3> QED
      BY <2>1, <2>2, <3>1, <3>2, <3>3, <3>4, <3>5, <3>6 DEF ShownInv
  <2>5. CASE SaveWrite(p)
    <3>1. /\ upc[p] = "write" /\ tree' = tree
          /\ \/ /\ upc' = [upc EXCEPT ![p] = "saved"] /\ retried' = retried
                /\ ini' = Written(ini, tree[p])
             \/ /\ upc' = [upc EXCEPT ![p] = "form"] /\ retried' = [retried EXCEPT ![p] = TRUE]
                /\ ini' = ini
      BY <2>5 DEF SaveWrite, Goto
    <3>2. ini'.tree = EmptyTree \/ KnownFirmware(ini'.tree)
      BY <3>1 DEF ShownInv, Written, File
    <3>3. CASE retried' = retried /\ upc' = [upc EXCEPT ![p] = "saved"]
      BY <2>1, <2>2, <3>1, <3>2, <3>3 DEF ShownInv
    <3>4. CASE /\ upc' = [upc EXCEPT ![p] = "form"] /\ retried' = [retried EXCEPT ![p] = TRUE]
      <4>1. \A q \in Tuis : /\ upc'[q] = IF q = p THEN "form" ELSE upc[q]
                            /\ q = p => retried'[q]
                            /\ q # p => retried'[q] = retried[q]
        BY <1>t, <3>4
      <4>2. /\ retried' = [q \in Tuis |-> retried'[q]]
            /\ upc' \in [Tuis -> {"form", "create", "write", "saved", "closed", "killed"}]
        BY <1>t, <3>4
      <4> QED
        BY <2>1, <2>2, <3>1, <3>2, <4>1, <4>2 DEF ShownInv
    <3> QED
      BY <3>1, <3>3, <3>4
  <2> QED
    BY <1>5, <2>3, <2>4, <2>5
<1>6. CASE Leave(p)
  <2>1. /\ upc' = [upc EXCEPT ![p] = IF upc[p] = "form" THEN "closed" ELSE "killed"]
        /\ form' = [form EXCEPT ![p] = Fresh] /\ checked' = [checked EXCEPT ![p] = {}]
        /\ disp' = [disp EXCEPT ![p] = <<>>] /\ tab' = [tab EXCEPT ![p] = 0]
        /\ tree' = [tree EXCEPT ![p] = EmptyTree] /\ UNCHANGED <<ini, retried>>
    BY <1>6 DEF Leave
  <2>2. /\ form' \in [Tuis -> FormRec] /\ tab' \in [Tuis -> 0..1]
        /\ upc' \in [Tuis -> {"form", "create", "write", "saved", "closed", "killed"}]
        /\ checked' = [q \in Tuis |-> checked'[q]] /\ disp' = [q \in Tuis |-> disp'[q]]
        /\ tree' = [q \in Tuis |-> tree'[q]]
    <3>1. form' \in [Tuis -> FormRec]
      BY <1>t, <2>1, FreshForm
    <3>2. tab' \in [Tuis -> 0..1]
      BY <1>t, <2>1
    <3>3. upc' \in [Tuis -> {"form", "create", "write", "saved", "closed", "killed"}]
      BY <1>t, <2>1
    <3>4. checked' = [q \in Tuis |-> checked'[q]] /\ disp' = [q \in Tuis |-> disp'[q]]
      BY <1>t, <2>1
    <3>5. tree' = [q \in Tuis |-> tree'[q]]
      BY <1>t, <2>1
    <3> QED
      BY <3>1, <3>2, <3>3, <3>4, <3>5
  <2>3. /\ upc'[p] \in {"closed", "killed"} /\ tree'[p] = EmptyTree
        /\ disp'[p] = <<>> /\ checked'[p] = {}
    BY <1>t, <2>1
  <2>4. ASSUME NEW q \in Tuis \ {p}
        PROVE  /\ upc'[q] = upc[q] /\ tree'[q] = tree[q] /\ disp'[q] = disp[q]
               /\ checked'[q] = checked[q] /\ tab'[q] = tab[q]
               /\ SetConfToPtree(q)' = SetConfToPtree(q)
    <3>1. /\ upc'[q] = upc[q] /\ tree'[q] = tree[q] /\ disp'[q] = disp[q]
          /\ checked'[q] = checked[q] /\ tab'[q] = tab[q] /\ form'[q] = form[q]
      BY <1>t, <2>1
    <3>2. SetConfToPtree(q)' = SetConfToPtree(q)
      BY <3>1 DEF SetConfToPtree
    <3> QED
      BY <3>1, <3>2
  <2> QED
    BY <2>1, <2>2, <2>3, <2>4, NoneTicked DEF ShownInv
<1> QED
  BY <1>1, <1>2, <1>3, <1>4, <1>5, <1>6 DEF TuiStep

(* The forms do not depend on the flash. *)
THEOREM ShownInvariant == Spec => []ShownInv
<1>1. ASSUME ShownInv, UNCHANGED tuiVars PROVE ShownInv'
  <2>1. \A q : SetConfToPtree(q)' = SetConfToPtree(q)
    BY <1>1 DEF tuiVars, formVars, SetConfToPtree
  <2> QED
    BY <1>1, <2>1 DEF ShownInv, tuiVars, formVars
<1>2. ASSUME ShownInv, [Next]_vars PROVE ShownInv'
  BY <1>1, <1>2, ShownStep DEF Next, vars
<1> QED
  BY <1>2, ShownInit, PTL DEF Spec, Init

(* What the readers of a saved file get is what the screen showed, for     *)
(* every text, every list of devices and every number of forms, unless an  *)
(* earlier SAVE of the form failed (SetConfToPtree, GetValue).             *)
THEOREM FormsSavedAsShown == Spec => []SavedAsShown
<1>1. ShownInv => SavedAsShown
  <2> SUFFICES ASSUME ShownInv, NEW p \in Tuis, upc[p] = "saved", ~retried[p]
               PROVE  LET text == form[p].text
                          Get(g, k) == GetValue(tree[p], g, k)
                          Given(here, x) == IF here THEN Trim(text[x]) ELSE <<>>
                      IN  /\ \A x \in DOMAIN Always :
                               Get(Always[x][1], Always[x][2]) = Trim(text[x])
                          /\ Get("firmware", "path") = Given(form[p].firm = 0, "firm_unified")
                          /\ Get("firmware", "code") = Given(form[p].firm = 1, "firm_splited_code")
                          /\ Get("firmware", "vars") = Given(form[p].firm = 1, "firm_splited_data")
                          /\ Get("graphics", "vgpu_uuid") =
                               Given(Get("graphics", "type") = <<"GVT-g">>, "gvtg_uuid")
                          /\ tab[p] = 0 => Get("passthrough", "passthrough_pci") =
                                             Trim(Ticked(checked[p]))
    BY DEF SavedAsShown
  <2> DEFINE f == form[p]
             text == f.text
             E == SetConfToPtree(p)
             Get(g, k) == GetValue(SetValues(EmptyTree, E), g, k)
             Only(g, k, v) == /\ <<g, k, v>> \in E
                              /\ \A e \in E : e[1] = g /\ e[2] = k => e[3] = v
             None(g, k) == \A e \in E : ~(e[1] = g /\ e[2] = k)
  <2>1. tree[p] = SetValues(EmptyTree, E) /\ (tab[p] = 0 => disp[p] = Ticked(checked[p]))
    BY DEF ShownInv
  <2>2. f.firm \in 0..1 /\ f.vgpu \in 0..4
    BY DEF ShownInv, FormRec
  <2>a. \A g, k, v : Only(g, k, v) => Get(g, k) = Trim(v)
    <3> HIDE DEF E
    <3> QED
      BY SetGetNew
  <2>b. \A g, k : None(g, k) => Get(g, k) = <<>>
    <3> HIDE DEF E
    <3> QED
      BY SetGetNone
  <2>c. /\ \A x \in DOMAIN Always : Only(Always[x][1], Always[x][2], text[x])
        /\ Only("graphics", "type", <<VgpuType[f.vgpu + 1]>>)
        /\ Only("passthrough", "passthrough_pci", disp[p])
        /\ IF f.firm = 0
             THEN /\ Only("firmware", "path", text.firm_unified)
                  /\ None("firmware", "code") /\ None("firmware", "vars")
             ELSE /\ Only("firmware", "code", text.firm_splited_code)
                  /\ Only("firmware", "vars", text.firm_splited_data)
                  /\ None("firmware", "path")
        /\ IF f.vgpu = 3 THEN Only("graphics", "vgpu_uuid", text.gvtg_uuid)
           ELSE None("graphics", "vgpu_uuid")
    BY EntriesAre
  <2> HIDE DEF Get, Only, None
  <2>3. \A x \in DOMAIN Always : Get(Always[x][1], Always[x][2]) = Trim(text[x])
    BY <2>a, <2>c
  <2>4. Get("passthrough", "passthrough_pci") = Trim(disp[p])
    BY <2>a, <2>c
  <2>5. f.firm = 0 => /\ Get("firmware", "path") = Trim(text.firm_unified)
                      /\ Get("firmware", "code") = <<>> /\ Get("firmware", "vars") = <<>>
    BY <2>a, <2>b, <2>c
  <2>6. f.firm # 0 => /\ Get("firmware", "code") = Trim(text.firm_splited_code)
                      /\ Get("firmware", "vars") = Trim(text.firm_splited_data)
                      /\ Get("firmware", "path") = <<>>
    BY <2>a, <2>b, <2>c
  <2>7. Get("graphics", "type") = <<VgpuType[f.vgpu + 1]>>
    <3>1. Get("graphics", "type") = Trim(<<VgpuType[f.vgpu + 1]>>)
      BY <2>a, <2>c
    <3>2. VgpuType[f.vgpu + 1] \in {"headless", "virtio", "ramfb", "GVT-g", "GVT-d"}
      BY <2>2 DEF VgpuType
    <3>3. VgpuType[f.vgpu + 1] # " "
      BY <3>2, Zenon
    <3> QED
      BY <3>1, <3>3 DEF Trim
  <2>8. Get("graphics", "type") = <<"GVT-g">> <=> f.vgpu = 3
    <3>1. VgpuType[f.vgpu + 1] = "GVT-g" <=> f.vgpu = 3
      BY <2>2 DEF VgpuType
    <3> QED
      BY <2>7, <3>1
  <2>9. Get("graphics", "vgpu_uuid") = IF f.vgpu = 3 THEN Trim(text.gvtg_uuid) ELSE <<>>
    BY <2>a, <2>b, <2>c
  <2>10. \A g, k : GetValue(tree[p], g, k) = Get(g, k)
    BY <2>1 DEF Get
  <2> QED
    BY <2>1, <2>2, <2>3, <2>4, <2>5, <2>6, <2>8, <2>9, <2>10
<1> QED
  BY <1>1, ShownInvariant, PTL

-----------------------------------------------------------------------------
(* Refused configurations *)

(* A flash that goes on has a configuration that is not empty, and nothing *)
(* is refused between the new disk image and the look at the firmware.     *)
CfgInv ==
  /\ cfg \in HandWritten \/ cfg = EmptyTree \/ KnownFirmware(cfg)
  /\ fpc \in (Before \ {"emulator"}) \cup Prepared => cfg # EmptyTree
  /\ fpc \in Before \ {"rpmb"} => ~touched
  /\ fpc \in Before \cup Prepared => result = "none"
  /\ FormFlashSafe

(* A step of the flash other than the new disk image and the look at the   *)
(* firmware goes on or returns, and refuses only before the former.        *)
LEMMA CfgMoves ==
  ASSUME CfgInv, UNCHANGED <<cfg, touched>>,
         fpc' \in (Before \ {"emulator"}) \cup Prepared => fpc \in Before \cup Prepared,
         fpc' \in Before \cup Prepared /\ fpc = "emulator" => cfg # EmptyTree,
         fpc' \in Before \ {"rpmb"} => fpc \in Before \ {"rpmb"},
         fpc' = "emulator" => fpc = "emulator",
         \/ result' = result
         \/ fpc' \notin Before \cup Prepared /\ (result' = "config" => fpc \in Before \ {"rpmb"})
  PROVE  CfgInv'
  BY DEF CfgInv, FormFlashSafe, Before, Prepared

(* Every step keeps it. *)
LEMMA CfgStep ==
  ASSUME ShownInv, CfgInv, Next \/ UNCHANGED vars
  PROVE  CfgInv'
<1>p. "emulator" \notin Prepared /\ Before \cap Prepared = {}
  BY DEF Before, Prepared
<1>1. ASSUME UNCHANGED <<fpc, cfg, touched, result>> PROVE CfgInv'
  BY <1>1 DEF CfgInv, FormFlashSafe
<1>2. CASE UNCHANGED flashVars
  BY <1>1, <1>2 DEF flashVars
<1>3. CASE CreateSock \/ \E c \in CoProcs : Spawn(c) \/ StoreChild(c) \/ Ends(c)
  BY <1>1, <1>3 DEF CreateSock, Spawn, StoreChild, Ends, keepDisk
<1>4. CASE Killed
  BY <1>4 DEF Killed, keepDisk, CfgInv, FormFlashSafe, Before, Prepared
<1>5. ASSUME NEW file \in {ini} \cup {File(t) : t \in HandWritten}, NEW z, FlashGuest(file, z)
      PROVE  CfgInv'
  <2>1. file.tree \in HandWritten \/ file.tree = EmptyTree \/ KnownFirmware(file.tree)
    BY DEF ShownInv, File
  <2> QED
    BY <1>5, <2>1 DEF FlashGuest, Step, CfgInv, FormFlashSafe, Before, Prepared
<1>6. CASE EmulPath
  <2>1. Set("emulator", {"path"}) => cfg # EmptyTree
    BY EmptyAccepted DEF Set, GetValue
  <2> QED
    BY <1>6, <2>1, CfgMoves DEF EmulPath, Step, Return, keepFiles, Before, Prepared
<1>7. CASE Flashfile \/ RemoveOldDir \/ Unzip
  <2>1. /\ UNCHANGED <<cfg, touched>> /\ fpc \in {"file", "rmdir", "unzip"}
        /\ \/ result' = result /\ fpc' \in {"image", "rmdir", "unzip", "check"}
           \/ fpc' \in {"idle", "stop_vtpm"}
    BY <1>7 DEF Flashfile, RemoveOldDir, Unzip, ToolRuns, ToolFails, Step, Return
  <2> QED
    BY <2>1, CfgMoves DEF Before, Prepared
<1>8. CASE SplitFails \/ MakeDisk \/ MakeFs \/ CopyFails \/ RemoveDir
           \/ \E f \in todo : CheckImage(f) \/ CopyImage(f)
  <2>1. /\ UNCHANGED <<cfg, touched>> /\ fpc \in {"check", "mkfs", "copy"}
        /\ \/ result' = result /\ fpc' \in {"check", "mkfs", "copy", "image"}
           \/ fpc' \in {"idle", "stop_vtpm"}
    BY <1>8 DEF SplitFails, MakeDisk, MakeFs, CopyFails, RemoveDir, CheckImage, CopyImage,
                ToolRuns, ToolFails, Step, Return
  <2> QED
    BY <2>1, CfgMoves DEF Before, Prepared
<1>9. CASE CreateDisk
  BY <1>9 DEF CreateDisk, Step, Return, CfgInv, FormFlashSafe, Before, Prepared
<1>10. CASE Firmware
  <2>1. CASE KnownFirmware(cfg)
    BY <1>10, <2>1, CfgMoves DEF Firmware, KnownFirmware, Step, keepDisk, Before, Prepared
  <2>2. CASE ~KnownFirmware(cfg)
    <3>1. fpc = "firmware" /\ fpc' \in {"idle", "stop_vtpm"} /\ UNCHANGED <<cfg, touched>>
      BY <1>10, <2>2 DEF Firmware, KnownFirmware, Return, Step, keepDisk
    <3>2. cfg \in HandWritten
      BY <2>2, <3>1 DEF CfgInv, Prepared
    <3> QED
      BY <3>1, <3>2 DEF CfgInv, FormFlashSafe, Before, Prepared
  <2> QED
    BY <2>1, <2>2
<1>11. CASE RpmbData \/ MakeVtpm \/ RunRpmb \/ RunVtpm \/ Qemu
  <2>1. UNCHANGED <<cfg, touched>>
    BY <1>11 DEF RpmbData, MakeVtpm, RunRpmb, RunVtpm, Qemu, keepDisk
  <2>2. /\ fpc \in {"rpmb"} \cup Prepared
        /\ \/ fpc' \in Prepared /\ result' = result
           \/ fpc' \in {"idle", "stop_vtpm"} /\ result' \in {"true", "tool"}
    BY <1>11 DEF RpmbData, MakeVtpm, RunRpmb, RunVtpm, Qemu, Step, Return, Prepared
  <2> QED
    BY <2>1, <2>2, CfgMoves DEF Before, Prepared
<1>12. CASE DestroyVtpm \/ DestroyRpmb \/ Started("rpmb", "wait_rpmb", "run_vtpm")
            \/ Started("vtpm", "wait_vtpm", "qemu")
  <2>1. UNCHANGED <<cfg, touched, result>>
    BY <1>12 DEF DestroyVtpm, DestroyRpmb, Stop, Started, keepDisk
  <2>2. \/ fpc' \notin Before \cup Prepared
        \/ fpc \in Prepared /\ fpc' \in Prepared
    BY <1>12 DEF DestroyVtpm, DestroyRpmb, Stop, Started, Step, Before, Prepared
  <2> QED
    BY <2>1, <2>2, CfgMoves DEF Before, Prepared
<1>13. CASE FlashStep
  BY <1>6, <1>7, <1>8, <1>9, <1>10, <1>11, <1>12, <1>13 DEF FlashStep
<1> QED
  BY <1>2, <1>3, <1>4, <1>5, <1>13 DEF Next, FlashBegins, vars

(* A configuration that the form saved, or was saving, is not refused once *)
(* the disk image of the guest has been recreated (FlashWithQemu).         *)
THEOREM FormFlashIsSafe == Spec => []FormFlashSafe
<1>1. Init => CfgInv
  BY DEF Init, CfgInv, FormFlashSafe, Before, Prepared
<1>2. ShownInv /\ CfgInv /\ [Next]_vars => CfgInv'
  BY CfgStep
<1>3. CfgInv => FormFlashSafe
  BY DEF CfgInv
<1> QED
  BY <1>1, <1>2, <1>3, ShownInvariant, PTL DEF Spec
=============================================================================
