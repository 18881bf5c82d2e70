-------------------------- MODULE RingMediumProofs --------------------------
(***************************************************************************)
(* The facts that the proofs about RingStore share: the regions of a slot, *)
(* the generations that belong in it, what holds at the steps of a call;   *)
(* what the medium holds under PInv, what a power cut may leave of its     *)
(* unflushed writes, and what a write, a flush and a power cut make of it. *)
(***************************************************************************)
EXTENDS RingInvariant, TLAPS

-----------------------------------------------------------------------------
(* Regions, numbers, generations *)

LEMMA Regions ==
  ASSUME NEW s \in Slot
  PROVE  /\ H(s) \in Region /\ I(s) \in Region /\ F(s) \in Region
         /\ \A i \in Pos : B(s, i) \in Region
  BY DEF Region

LEMMA RegionContents ==
  ASSUME NEW s \in Slot
  PROVE  /\ Contents(H(s)) = Damage \cup HeaderSet
         /\ Contents(I(s)) = Damage \cup IndexSet
         /\ Contents(F(s)) = Damage \cup FooterSet
         /\ \A i \in Pos : Contents(B(s, i)) = Damage \cup BlockSet
  BY DEF Contents, H, I, F, B

\* An element of a sequence.
LEMMA Element == ASSUME NEW S, NEW q \in Seq(S), NEW k \in 1 .. Len(q) PROVE q[k] \in S
  OBVIOUS

\* A set of naturals that is not empty has a least element. It is proved where
\* it is first used to the end, as Least of RingStoreProofs; the lemmas before
\* that need it name it.
WellOrdered == \A S \in SUBSET Nat : S # {} => \E m \in S : \A n \in S : m <= n

\* The remainder of a division is unique.
LEMMA Remainder ==
  ASSUME NEW n \in Nat \ {0}, NEW q \in Nat, NEW r \in 0 .. n - 1
  PROVE  (q * n + r) % n = r
  <1> DEFINE x == q * n + r
             p == x \div n
             t == x % n
  <1>1. x \in Nat  OBVIOUS
  <1>2. p \in Nat /\ t \in 0 .. n - 1 /\ x = p * n + t  BY <1>1
  <1> HIDE DEF p, t
  <1>3. (q - p) * n = t - r  BY <1>2
  <1>4. CASE q = p  BY <1>2, <1>3, <1>4 DEF t
  <1>5. CASE q > p
    <2>1. (q - p) * n >= n  BY <1>2, <1>5
    <2> QED  BY <1>2, <1>3, <2>1
  <1>6. CASE q < p
    <2>1. (p - q) * n >= n  BY <1>2, <1>6
    <2>2. (p - q) * n = r - t  BY <1>2
    <2> QED  BY <1>2, <2>1, <2>2
  <1> QED  BY <1>2, <1>4, <1>5, <1>6

\* The next generation belongs in the next slot.
LEMMA NextInPlace ==
  ASSUME NEW s \in Slot, NEW g \in Nat \ {0}, InPlace(s, g)
  PROVE  (s + 1) % NSlots \in Slot /\ InPlace((s + 1) % NSlots, g + 1)
  <1> DEFINE q == (g - 1) \div NSlots
  <1>1. q \in Nat /\ g - 1 = q * NSlots + s  BY SlotAssumption DEF InPlace
  <1> HIDE DEF q
  <1>2. CASE s + 1 < NSlots
    <2>1. (s + 1) % NSlots = s + 1  BY <1>2, SlotAssumption
    <2>2. g % NSlots = s + 1
      <3>1. g = q * NSlots + (s + 1)  BY <1>1, SlotAssumption
      <3>2. NSlots \in Nat \ {0} /\ s + 1 \in 0 .. NSlots - 1  BY <1>2, SlotAssumption
      <3>3. (q * NSlots + (s + 1)) % NSlots = s + 1  BY <1>1, <3>2, Remainder
      <3> QED  BY <3>1, <3>3
    <2> QED  BY <1>2, <2>1, <2>2, SlotAssumption DEF InPlace
  <1>3. CASE s + 1 = NSlots
    <2>1. (s + 1) % NSlots = 0  BY <1>3, SlotAssumption
    <2>2. g % NSlots = 0
      <3>1. g = (q + 1) * NSlots + 0  BY <1>1, <1>3, SlotAssumption
      <3>2. NSlots \in Nat \ {0} /\ q + 1 \in Nat /\ 0 \in 0 .. NSlots - 1
        BY <1>1, SlotAssumption
      <3>3. ((q + 1) * NSlots + 0) % NSlots = 0  BY <3>2, Remainder
      <3> QED  BY <3>1, <3>3
    <2> QED  BY <1>3, <2>1, <2>2, SlotAssumption DEF InPlace
  <1> QED  BY <1>2, <1>3, SlotAssumption

LEMMA FirstInPlace == 0 \in Slot /\ InPlace(0, 1)
  BY SlotAssumption DEF InPlace

-----------------------------------------------------------------------------
(* What holds at the steps of a call *)

\* The active partition has a generation while a call other than open() runs.
LEMMA ActiveGen ==
  ASSUME RInv, up, op.kind # "open"
  PROVE  cat[act].gen \in 1 .. MaxGen /\ cat[act] \in PartSet
  BY DEF RInv, SessionOK, ActiveInv, PartSet

\* What holds at the steps that seal a partition.
LEMMA AtSealing ==
  ASSUME RInv, pc \in {"rotate"} \cup Sealing
  PROVE  /\ up /\ ~ faulted /\ op.kind \in {"append", "rotate"} /\ builder = <<>>
         /\ act \in Slot /\ cat[act] \in PartSet /\ cat[act].gen \in 1 .. MaxGen
         /\ ~ cat[act].sealed /\ ~ Empty /\ nextOpts \in Options
  <1>1. up /\ ~ faulted /\ op.kind \in {"append", "rotate"} /\ builder = <<>>
    BY DEF RInv, ControlInv, CallersOf, Rotating, Sealing, Creating
  <1>2. cat[act].gen \in 1 .. MaxGen /\ cat[act] \in PartSet  BY <1>1, ActiveGen
  <1> QED  BY <1>1, <1>2
           DEF RInv, SessionOK, ControlInv, ActiveInv, Empty, Sealing, Creating

\* Where a partition is created, and that its generation belongs there.
LEMMA AtCreating ==
  ASSUME RInv, pc \in Creating
  PROVE  /\ TargetSlot \in Slot /\ TargetGen \in 1 .. MaxGen /\ InPlace(TargetSlot, TargetGen)
         /\ up /\ ~ faulted /\ builder = <<>> /\ nextOpts \in Options
         /\ op.kind \in {"append", "rotate", "open"}
  <1>1. /\ up /\ ~ faulted /\ builder = <<>> /\ nextOpts \in Options
        /\ op.kind \in {"append", "rotate", "open"}
    BY DEF RInv, ControlInv, CallersOf, Rotating, Sealing, Creating
  <1>2. CASE Empty
    BY <1>1, <1>2, FirstInPlace, BoundsAssumption DEF TargetSlot, TargetGen
  <1>3. CASE ~ Empty
    <2>1. act \in Slot /\ cat[act].gen \in 1 .. MaxGen - 1
      BY <1>1, <1>3, BoundsAssumption DEF RInv, SessionOK, ActiveInv, PartSet
    <2>2. InPlace(act, cat[act].gen)  BY <2>1 DEF RInv, CatInPlace
    <2> QED  BY <1>1, <1>3, <2>1, <2>2, NextInPlace, BoundsAssumption DEF TargetSlot, TargetGen
  <1> QED  BY <1>2, <1>3

-----------------------------------------------------------------------------
(* Regions, values and scans *)

LEMMA Apart ==
  ASSUME NEW s, NEW t
  PROVE  /\ H(s) # I(t) /\ H(s) # F(t) /\ I(s) # F(t)
         /\ \A i : H(s) # B(t, i) /\ I(s) # B(t, i) /\ F(s) # B(t, i)
         /\ s # t => H(s) # H(t) /\ I(s) # I(t) /\ F(s) # F(t)
         /\ \A i, j : B(s, i) = B(t, j) => s = t /\ i = j
  BY DEF H, I, F, B

LEMMA HeadValues ==
  ASSUME MediaInv, NEW s \in Slot, NEW v \in {cache[H(s)]} \cup Vals(H(s))
  PROVE  /\ v.kind \in {"blank", "torn", "blot", "hdr"}
         /\ v.kind = "hdr" => v.gen \in 1 .. MaxGen /\ v.opts \in Options /\ InPlace(s, v.gen)
  <1>1. v \in Sound(H(s))  BY Regions DEF MediaInv, Vals
  <1>2. v \in Damage \cup HeaderSet  BY <1>1, RegionContents DEF Sound
  <1>3. v.kind = "hdr" => InPlace(s, v.gen)  BY <1>1 DEF Sound, H
  <1> QED  BY <1>2, <1>3 DEF Damage, Blank, Torn, Blot, HeaderSet

LEMMA UsedGen ==
  ASSUME MediaInv, NEW s \in Slot, Used(s)
  PROVE  disk[H(s)].gen \in 1 .. MaxGen /\ disk[H(s)].gen \in Nat
  BY HeadValues, BoundsAssumption DEF Vals, Used, HeaderValid

LEMMA BlockValues ==
  ASSUME MediaInv, NEW s \in Slot, NEW i \in Pos,
         NEW v \in {cache[B(s, i)]} \cup Vals(B(s, i)), v.kind = "blk"
  PROVE  v \in BlockSet
  <1>1. v \in Sound(B(s, i))  BY Regions DEF MediaInv, Vals
  <1>2. v \in Damage \cup BlockSet  BY <1>1, RegionContents DEF Sound
  <1> QED  BY <1>2 DEF Damage, Blank, Torn, Blot

LEMMA FooterValues ==
  ASSUME MediaInv, NEW s \in Slot, NEW v \in {cache[F(s)]} \cup Vals(F(s)), v.kind = "ftr"
  PROVE  v \in FooterSet
  <1>1. v \in Sound(F(s))  BY Regions DEF MediaInv, Vals
  <1>2. v \in Damage \cup FooterSet  BY <1>1, RegionContents DEF Sound
  <1> QED  BY <1>2 DEF Damage, Blank, Torn, Blot

\* A scan admits a frame if it admits those before and the frame follows them.
LEMMA ScanStep ==
  ASSUME NEW img, NEW s, NEW i \in Pos
  PROVE  i \in Scanned(img, s) <=>
           FrameFollows(img, s, i) /\ (i = 0 \/ i - 1 \in Scanned(img, s))
  <1>2. CASE i = 0  BY <1>2 DEF Scanned
  <1>3. CASE i # 0  BY CapAssumption DEF Scanned
  <1> QED  BY <1>2, <1>3

LEMMA ScanDown ==
  ASSUME NEW img, NEW s, NEW i \in Scanned(img, s), NEW j \in 0 .. i
  PROVE  j \in Scanned(img, s)
  <1>1. i \in Pos  BY DEF Scanned
  <1>2. j \in Pos /\ 0 .. j \subseteq 0 .. i  BY <1>1, CapAssumption
  <1> QED  BY <1>2 DEF Scanned

\* Scans of two images agree as far as the images do.
LEMMA ScanAgrees ==
  ASSUME NEW img, NEW jmg, NEW s, img[H(s)] = jmg[H(s)], NEW n \in Pos,
         \A j \in 0 .. n : img[B(s, j)] = jmg[B(s, j)]
  PROVE  n \in Scanned(img, s) <=> n \in Scanned(jmg, s)
  <1>1. ASSUME NEW i \in 0 .. n PROVE FrameFollows(img, s, i) = FrameFollows(jmg, s, i)
    BY CapAssumption DEF FrameFollows
  <1> QED  BY <1>1 DEF Scanned

LEMMA ScanSame ==
  ASSUME NEW img, NEW jmg, NEW s, img[H(s)] = jmg[H(s)],
         \A j \in Pos : img[B(s, j)] = jmg[B(s, j)]
  PROVE  Scanned(img, s) = Scanned(jmg, s)
  <1>1. ASSUME NEW n \in Pos PROVE n \in Scanned(img, s) <=> n \in Scanned(jmg, s)
    BY CapAssumption, ScanAgrees
  <1> QED  BY <1>1 DEF Scanned

\* With no frame of its generation, a partition has no frames.
LEMMA ScanNothing ==
  ASSUME NEW img, NEW s,
         img[B(s, 0)].kind = "blk" => img[B(s, 0)].gen # img[H(s)].gen
  PROVE  Scanned(img, s) = {}
  <1>1. ASSUME NEW i \in Scanned(img, s) PROVE FALSE
    BY CapAssumption DEF Scanned, FrameFollows
  <1> QED  BY <1>1

\* The frames that are admitted are blocks of the partition.
LEMMA ScanFrames ==
  ASSUME NEW img, NEW s, NEW i \in Scanned(img, s)
  PROVE  /\ i \in Pos /\ i \in Nat
         /\ FrameFollows(img, s, i)
         /\ img[B(s, i)].kind = "blk" /\ img[B(s, i)].gen = img[H(s)].gen
         /\ img[B(s, i)].seq = i
  <1>1. i \in Pos /\ i \in Nat /\ i \in 0 .. i  BY CapAssumption DEF Scanned
  <1>2. FrameFollows(img, s, i)  BY <1>1 DEF Scanned
  <1> QED  BY <1>1, <1>2 DEF FrameFollows

-----------------------------------------------------------------------------
(* What a power cut may leave *)

\* An image of the medium that a power cut may leave.
Possible(img) == \A r \in Region : img[r] \in AfterPowerLoss(r)

LEMMA PossibleValues ==
  ASSUME NEW img, Possible(img), NEW s \in Slot
  PROVE  /\ HeadQuiet(s) => img[H(s)] = disk[H(s)]
         /\ SealQuiet(s) => img[I(s)] = disk[I(s)] /\ img[F(s)] = disk[F(s)]
         /\ BlocksQuiet(s) => \A i \in Pos : img[B(s, i)] = disk[B(s, i)]
         /\ \A i \in Pos : pending[B(s, i)] = {} => img[B(s, i)] = disk[B(s, i)]
         /\ \A i \in Pos : img[B(s, i)] \in Vals(B(s, i)) \cup {Torn}
         /\ img[F(s)] \in Vals(F(s)) \cup {Torn}
         /\ img[H(s)] \in Vals(H(s)) \cup {Torn, Blot}
         /\ img[H(s)] = Blot => img[H(s)] \in Vals(H(s)) \/ Unused(s)
  <1>1. \A r \in Region : pending[r] = {} => img[r] = disk[r]
    BY DEF Possible, AfterPowerLoss
  <1>2. \A r \in Region : r[1] # "hdr" => img[r] \in Vals(r) \cup {Torn}
    BY DEF Possible, AfterPowerLoss, TornOver, Vals
  <1>3. /\ img[H(s)] \in Vals(H(s)) \cup {Torn, Blot}
        /\ img[H(s)] = Blot => img[H(s)] \in Vals(H(s)) \/ Unused(s)
    BY Regions DEF Torn, Blot, Possible, AfterPowerLoss, TornOver, Vals, Unused
  <1>4. F(s)[1] # "hdr" /\ \A i : B(s, i)[1] # "hdr"  BY DEF F, B
  <1>5. /\ HeadQuiet(s) => img[H(s)] = disk[H(s)]
        /\ SealQuiet(s) => img[I(s)] = disk[I(s)] /\ img[F(s)] = disk[F(s)]
        /\ BlocksQuiet(s) => \A i \in Pos : img[B(s, i)] = disk[B(s, i)]
        /\ \A i \in Pos : pending[B(s, i)] = {} => img[B(s, i)] = disk[B(s, i)]
    BY <1>1, Regions DEF HeadQuiet, SealQuiet, BlocksQuiet
  <1> QED  BY <1>2, <1>3, <1>4, <1>5, Regions

\* Reading is reading a possible image.
LEMMA CachePossible == ASSUME CacheInv PROVE Possible(cache)
  BY DEF CacheInv, Possible, AfterPowerLoss

LEMMA DiskPossible == Possible(disk)
  BY DEF Possible, AfterPowerLoss

\* The frames a power cut leaves are the first of those there were.
LEMMA ImageScan ==
  ASSUME WellOrdered, CacheInv, FrameInv, NEW s \in Slot, Used(s), HeadQuiet(s),
         NEW img, Possible(img)
  PROVE  \A i \in Scanned(img, s) : i \in Scanned(cache, s) /\ img[B(s, i)] = cache[B(s, i)]
  <1>1. img[H(s)] = cache[H(s)]
    BY PossibleValues, Regions DEF CacheInv, HeadQuiet
  <1> DEFINE T == {j \in Scanned(img, s) : img[B(s, j)] # cache[B(s, j)]}
  <1>2. T = {}
    <2> SUFFICES ASSUME T # {} PROVE FALSE  OBVIOUS
    <2>1. T \in SUBSET Nat  BY ScanFrames
    <2>2. PICK m \in T : \A j \in T : m <= j  BY <2>1 DEF WellOrdered
    <2>3. m \in Pos /\ m \in Nat /\ FrameFollows(img, s, m)  BY <2>2, ScanFrames
    <2>4. ASSUME NEW j \in 0 .. m - 1 PROVE img[B(s, j)] = cache[B(s, j)]
      <3>1. j \in 0 .. m /\ ~ (m <= j)  BY <2>3
      <3>2. j \in Scanned(img, s)  BY <2>2, <3>1, ScanDown
      <3> QED  BY <2>2, <3>1, <3>2
    <2>5. m # 0 => m - 1 \in Scanned(cache, s)
      <3> HAVE m # 0
      <3>1. m - 1 \in Pos /\ m - 1 \in 0 .. m  BY <2>3, CapAssumption
      <3>2. m - 1 \in Scanned(img, s)  BY <2>2, <3>1, ScanDown
      <3> QED  BY <1>1, <2>4, <3>1, <3>2, ScanAgrees
    <2>6. img[B(s, m)] \in Vals(B(s, m))
      <3>1. img[B(s, m)].kind = "blk"  BY <2>3 DEF FrameFollows
      <3> QED  BY <2>3, <3>1, PossibleValues DEF Torn
    <2>7. ~ Follows(cache, img[B(s, m)], s, m)  BY <2>2, <2>3, <2>5, <2>6 DEF FrameInv
    <2>8. m # 0 => img[B(s, m - 1)] = cache[B(s, m - 1)]  BY <2>3, <2>4
    <2> QED  BY <1>1, <2>3, <2>7, <2>8 DEF FrameFollows, Follows
  <1>3. ASSUME NEW i \in Scanned(img, s) PROVE i \in Scanned(cache, s)
    <2>1. i \in Pos  BY ScanFrames
    <2>2. \A j \in 0 .. i : img[B(s, j)] = cache[B(s, j)]  BY <1>2, ScanDown
    <2> QED  BY <1>1, <2>1, <2>2, ScanAgrees
  <1> QED  BY <1>2, <1>3

\* The frames that are flushed stay.
LEMMA DiskScan ==
  ASSUME FrameInv, NEW s \in Slot, Used(s), HeadQuiet(s), NEW img, Possible(img)
  PROVE  \A i \in Scanned(disk, s) : i \in Scanned(img, s) /\ img[B(s, i)] = disk[B(s, i)]
  <1>1. img[H(s)] = disk[H(s)]  BY PossibleValues
  <1>2. ASSUME NEW i \in Scanned(disk, s) PROVE img[B(s, i)] = disk[B(s, i)]
    BY ScanFrames, PossibleValues DEF FrameInv
  <1>3. ASSUME NEW i \in Scanned(disk, s) PROVE i \in Scanned(img, s)
    BY ScanFrames, <1>2, ScanDown, <1>1, ScanAgrees
  <1> QED  BY <1>2, <1>3

\* The partition a power cut leaves in slot s.
LEMMA ImageFrames ==
  ASSUME WellOrdered, MediaInv, MediumInv, NEW s \in Slot, NEW img, Possible(img)
  PROVE  /\ HeadQuiet(s) =>
              /\ img[H(s)] = cache[H(s)] /\ img[H(s)] = disk[H(s)]
              /\ \A i \in Frames(img, s) : i \in Frames(cache, s) /\ img[B(s, i)] = cache[B(s, i)]
              /\ \A i \in Frames(disk, s) : i \in Frames(img, s) /\ img[B(s, i)] = disk[B(s, i)]
         /\ (~ HeadQuiet(s) \/ Quiet(s)) =>
              \A i \in Frames(img, s) : /\ i \in Frames(disk, s) /\ img[B(s, i)] = disk[B(s, i)]
                                        /\ img[H(s)] = disk[H(s)]
  <1>1. CASE HeadQuiet(s)
    <2>1. img[H(s)] = disk[H(s)]  BY <1>1, PossibleValues
    <2>2. CacheInv /\ FrameInv  BY DEF MediumInv
    <2>3. cache[H(s)] = disk[H(s)]  BY <1>1, <2>2, Regions DEF CacheInv, HeadQuiet
    <2>4. CASE ~ Used(s)
      <3>1. Frames(img, s) = {} /\ Frames(disk, s) = {}
        BY <2>1, <2>4 DEF Used, Frames, HeaderValid
      <3> QED  BY <2>1, <2>3, <3>1
    <2>5. CASE Used(s)
      <3>1. /\ Frames(img, s) = Scanned(img, s) /\ Frames(cache, s) = Scanned(cache, s)
            /\ Frames(disk, s) = Scanned(disk, s)
        BY <2>1, <2>3, <2>5 DEF Used, Frames, HeaderValid
      <3>2. \A i \in Scanned(img, s) : i \in Scanned(cache, s) /\ img[B(s, i)] = cache[B(s, i)]
        BY <1>1, <2>2, <2>5, ImageScan
      <3>3. \A i \in Scanned(disk, s) : i \in Scanned(img, s) /\ img[B(s, i)] = disk[B(s, i)]
        BY <1>1, <2>2, <2>5, DiskScan
      <3>4. ASSUME Quiet(s), NEW i \in Scanned(img, s)
            PROVE  i \in Scanned(disk, s) /\ img[B(s, i)] = disk[B(s, i)]
        <4>1. \A j \in Pos : img[B(s, j)] = disk[B(s, j)]  BY <3>4, PossibleValues DEF Quiet
        <4>2. Scanned(img, s) = Scanned(disk, s)  BY <2>1, <4>1, ScanSame
        <4> QED  BY <3>4, <4>1, <4>2 DEF Scanned
      <3> QED  BY <1>1, <2>1, <2>3, <3>1, <3>2, <3>3, <3>4
    <2> QED  BY <2>4, <2>5
  <1>2. CASE ~ HeadQuiet(s)
    <2>1. BlocksQuiet(s) /\ \A i \in Pos : img[B(s, i)] = disk[B(s, i)]
      BY <1>2, PossibleValues DEF MediumInv, StageInv
    <2> SUFFICES ASSUME NEW i \in Frames(img, s)
                 PROVE  /\ i \in Frames(disk, s) /\ img[B(s, i)] = disk[B(s, i)]
                        /\ img[H(s)] = disk[H(s)]
      BY <1>2
    <2>2. HeaderValid(img, s) /\ i \in Scanned(img, s)  BY DEF Frames
    <2>3. CASE img[H(s)] = disk[H(s)]
      BY <2>1, <2>3, ScanSame, ScanFrames DEF Frames, HeaderValid
    <2>4. CASE img[H(s)] # disk[H(s)]
      <3>1. img[H(s)] \in pending[H(s)] /\ img[H(s)].kind = "hdr"
        BY <2>2, <2>4, PossibleValues DEF HeaderValid, Vals, Torn, Blot
      <3>2. /\ disk[H(s)].kind # "torn" /\ (Used(s) => disk[H(s)].gen < img[H(s)].gen)
        BY <3>1 DEF MediumInv, ComingInv
      <3>3. 0 \in Pos  BY CapAssumption
      <3>4. ASSUME disk[B(s, 0)].kind = "blk" PROVE disk[B(s, 0)].gen # img[H(s)].gen
        BY <3>3, <3>4, <3>2, HeadValues, BlockValues DEF Vals, MediumInv, StampInv, Used,
           Unused, HeaderValid, BlockSet
      <3>5. Scanned(img, s) = {}  BY <2>1, <3>3, <3>4, ScanNothing
      <3> QED  BY <2>2, <3>5
    <2> QED  BY <2>3, <2>4
  <1> QED  BY <1>1, <1>2

\* A seal that a power cut leaves covers the frames that are left.
LEMMA ImageSeals ==
  ASSUME MediaInv, MediumInv, NEW img, Possible(img), NEW s \in Slot,
         HeaderValid(img, s), SealValid(img, s)
  PROVE  /\ Seals(img, img[F(s)].ns, s) /\ img[F(s)] \in FooterSet
         /\ Used(s) /\ img[H(s)] = disk[H(s)]
  <1>1. img[F(s)].kind = "ftr" /\ img[F(s)].gen = img[H(s)].gen  BY DEF SealValid
  <1>2. img[F(s)] \in Vals(F(s))  BY <1>1, PossibleValues DEF Torn
  <1>3. CASE img[H(s)] = disk[H(s)]
    <2>1. Used(s)  BY <1>3 DEF Used, HeaderValid
    <2>2. Seals(disk, img[F(s)].ns, s)  BY <1>1, <1>2, <1>3, <2>1 DEF MediumInv, SealInv
    <2>3. img[F(s)] \in FooterSet  BY <1>1, <1>2, FooterValues
    <2>4. BlocksQuiet(s)
      <3>1. SUFFICES ASSUME ~ BlocksQuiet(s) PROVE FALSE  OBVIOUS
      <3>2. SealQuiet(s) /\ Unsealed(s)  BY <3>1 DEF MediumInv, StageInv
      <3>3. img[F(s)] = disk[F(s)]  BY <3>2, PossibleValues
      <3> QED  BY <1>3, <3>2, <3>3 DEF Unsealed, SealValid
    <2>5. \A i \in Pos : img[B(s, i)] = disk[B(s, i)]  BY <2>4, PossibleValues
    <2>6. Scanned(img, s) = Scanned(disk, s)  BY <1>3, <2>5, ScanSame
    <2>7. Seals(img, img[F(s)].ns, s)  BY <2>2, <2>5, <2>6 DEF Seals, Scanned
    <2> QED  BY <1>3, <2>1, <2>3, <2>7
  <1>4. CASE img[H(s)] # disk[H(s)]
    BY <1>4, PossibleValues, <1>1, HeadValues DEF HeaderValid, Vals, Torn, MediumInv,
       ComingInv, StampInv, Used, Unused
  <1> QED  BY <1>3, <1>4

\* A query delivers the frames of a partition, all of them and no others.
LEMMA ImageDelivered ==
  ASSUME MediaInv, MediumInv, NEW img, Possible(img), NEW s \in Slot
  PROVE  Delivered(img, s) = Frames(img, s)
  <1>1. CASE ~ HeaderValid(img, s)  BY <1>1 DEF Delivered, Frames
  <1>2. CASE HeaderValid(img, s) /\ ~ SealValid(img, s)  BY <1>2 DEF Delivered, Frames
  <1>3. CASE HeaderValid(img, s) /\ SealValid(img, s)
    <2> DEFINE n == Len(img[F(s)].ns)
    <2>1. n \in Nat /\ Seals(img, img[F(s)].ns, s)  BY <1>3, ImageSeals
    <2>2. \A i \in 0 .. n - 1 : FrameMatches(img, s, i)
      BY <2>1, ScanFrames DEF Seals, FrameMatches
    <2>3. {i \in 0 .. n - 1 : FrameMatches(img, s, i)} = Scanned(img, s)
      BY <2>1, <2>2 DEF Seals
    <2> QED  BY <1>3, <2>3 DEF Delivered, Frames
  <1> QED  BY <1>1, <1>2, <1>3

LEMMA ImageReadable ==
  ASSUME MediaInv, MediumInv, NEW img, Possible(img)
  PROVE  /\ Readable(img) = Stored(img)
         /\ \A s \in Slot : SlotRecords(img, s) = Recs(img, s)
  BY ImageDelivered DEF Readable, Stored, SlotRecords, Recs

\* Order and contracts survive a power cut.
LEMMA ImageOrdered ==
  ASSUME WellOrdered, MediaInv, MediumInv, Ordered(cache), Ordered(disk), NEW img, Possible(img)
  PROVE  Ordered(img)
  <1> SUFFICES ASSUME NEW s \in Slot, NEW t \in Slot,
                      NEW i \in Frames(img, s), NEW j \in Frames(img, t),
                      img[H(s)].gen < img[H(t)].gen \/ (s = t /\ i < j),
                      NEW a \in RecsOf(img[B(s, i)].recs), NEW b \in RecsOf(img[B(t, j)].recs)
               PROVE  a < b
    BY DEF Ordered
  <1>1. CASE HeadQuiet(s) /\ HeadQuiet(t)  BY <1>1, ImageFrames DEF Ordered
  <1>2. CASE ~ (HeadQuiet(s) /\ HeadQuiet(t))
    <2>1. (~ HeadQuiet(s) \/ Quiet(s)) /\ (~ HeadQuiet(t) \/ Quiet(t))
      BY <1>2 DEF MediumInv, StageInv, Quiet
    <2>2. i \in Frames(disk, s) /\ img[B(s, i)] = disk[B(s, i)] /\ img[H(s)] = disk[H(s)]
      BY <2>1, ImageFrames
    <2>3. j \in Frames(disk, t) /\ img[B(t, j)] = disk[B(t, j)] /\ img[H(t)] = disk[H(t)]
      BY <2>1, ImageFrames
    <2> QED  BY <2>2, <2>3 DEF Ordered
  <1> QED  BY <1>1, <1>2

LEMMA ImageContracted ==
  ASSUME WellOrdered, MediaInv, MediumInv, Contracted(cache), Contracted(disk),
         NEW img, Possible(img)
  PROVE  Contracted(img)
  <1> SUFFICES ASSUME NEW s \in Slot, NEW i \in Frames(img, s),
                      NEW r \in RecsOf(img[B(s, i)].recs)
               PROVE  contracts[r] \in {NoContract, img[H(s)].opts}
    BY DEF Contracted
  <1>1. CASE HeadQuiet(s)  BY ImageFrames DEF Contracted
  <1>2. CASE ~ HeadQuiet(s)  BY ImageFrames DEF Contracted
  <1> QED  BY <1>1, <1>2

\* What is kept is in every image.
LEMMA ImageKept ==
  ASSUME WellOrdered, MediaInv, MediumInv, NEW img, Possible(img)
  PROVE  Kept \subseteq Stored(img)
  <1> SUFFICES ASSUME NEW s \in Slot, HeadQuiet(s), NEW i \in Frames(disk, s),
                      NEW x \in RecsOf(disk[B(s, i)].recs)
               PROVE  x \in Stored(img)
    BY DEF Kept, Recs
  <1>1. i \in Frames(img, s) /\ img[B(s, i)] = disk[B(s, i)]  BY ImageFrames
  <1> QED  BY <1>1 DEF Stored, Recs

-----------------------------------------------------------------------------
(* A flush, and a power cut *)

\* Nothing is on its way any more: a flush has been, or a power cut.
Settled ==
  Possible(disk') /\ cache' = disk' /\ pending' = [r \in Region |-> {}]

LEMMA FlushSettles == ASSUME CacheInv, Flush PROVE Settled /\ disk' = cache
  BY CachePossible DEF Flush, Settled

LEMMA PowerLossSettles == ASSUME PowerLoss PROVE Settled
  <1>1. PICK left : /\ \A r \in Unflushed : left[r] \in AfterPowerLoss(r)
                    /\ disk' = [r \in Region |-> IF r \in Unflushed THEN left[r] ELSE disk[r]]
                    /\ cache' = disk'
                    /\ pending' = [r \in Region |-> {}]
    BY DEF PowerLoss
  <1>2. ASSUME NEW r \in Region PROVE disk'[r] \in AfterPowerLoss(r)
    BY <1>1 DEF AfterPowerLoss
  <1> QED  BY <1>1, <1>2 DEF Settled, Possible

LEMMA SettledQuiet ==
  ASSUME Settled, NEW s \in Slot
  PROVE  /\ Quiet(s)' /\ HeadQuiet(s)' /\ SealQuiet(s)' /\ BlocksQuiet(s)'
         /\ pending'[H(s)] = {} /\ pending'[I(s)] = {} /\ pending'[F(s)] = {}
         /\ \A i \in Pos : pending'[B(s, i)] = {}
  BY Regions DEF Settled, Quiet, HeadQuiet, SealQuiet, BlocksQuiet

\* The header a slot is left with.
LEMMA SettledHead ==
  ASSUME MediaInv, MediumInv, Settled, NEW s \in Slot
  PROVE  /\ Used(s)' => \/ Used(s) /\ disk'[H(s)] = disk[H(s)]
                        \/ disk'[H(s)] \in pending[H(s)] /\ disk'[H(s)].kind = "hdr"
         /\ Unused(s)' => Unused(s)
         /\ HeadQuiet(s) => disk'[H(s)] = disk[H(s)]
         /\ (Used(s) /\ disk'[H(s)] = disk[H(s)] /\ SealValid(disk, s)) => SealValid(disk', s)
  <1>1. Possible(disk')  BY DEF Settled
  <1>2. /\ disk'[H(s)] \in Vals(H(s)) \cup {Torn, Blot}
        /\ disk'[H(s)] = Blot => disk'[H(s)] \in Vals(H(s)) \/ Unused(s)
        /\ HeadQuiet(s) => disk'[H(s)] = disk[H(s)]
        /\ SealQuiet(s) => disk'[F(s)] = disk[F(s)]
    BY <1>1, PossibleValues
  <1>3. Used(s)' => \/ Used(s) /\ disk'[H(s)] = disk[H(s)]
                    \/ disk'[H(s)] \in pending[H(s)] /\ disk'[H(s)].kind = "hdr"
    BY <1>2 DEF Used, HeaderValid, Vals, Torn, Blot
  <1>4. Unused(s)' => Unused(s)  BY <1>2 DEF Unused, MediumInv, ComingInv, Torn, Vals
  <1>5. (Used(s) /\ disk'[H(s)] = disk[H(s)] /\ SealValid(disk, s)) => SealValid(disk', s)
    BY <1>2 DEF MediumInv, StageInv, Unsealed, SealValid
  <1> QED  BY <1>2, <1>3, <1>4, <1>5

LEMMA SettledHeaderInv ==
  ASSUME MediaInv, MediumInv, Settled
  PROVE  HeaderInv'
  <1>0. \A s \in Slot : Used(s) => disk[H(s)].gen \in 1 .. MaxGen  BY UsedGen
  <1>1. CASE \A s \in Slot : Used(s)' => Used(s) /\ disk'[H(s)] = disk[H(s)]
    <2>1. \A s \in Slot : Used(s)' => Used(s) /\ disk'[H(s)].gen = disk[H(s)].gen  BY <1>1
    <2>2. ASSUME NEW s \in Slot, NEW t \in Slot, Used(s)'
          PROVE  /\ Used(t)' => /\ disk'[H(t)].gen < disk'[H(s)].gen + NSlots
                                /\ disk'[H(s)].gen < disk'[H(t)].gen => SealValid(disk', s)
                 /\ Unused(t)' => disk'[H(s)].gen <= t
      BY <1>1, <2>1, <2>2, SettledHead DEF HeaderInv, MediumInv
    <2>3. ASSUME NEW s \in Slot, NEW t \in Slot, Used(s)', Used(t)',
                 NEW g \in disk'[H(s)].gen .. disk'[H(t)].gen
          PROVE  \E u \in Slot : Used(u)' /\ disk'[H(u)].gen = g
      <3>1. PICK u \in Slot : Used(u) /\ disk[H(u)].gen = g
        BY <2>1, <2>3 DEF HeaderInv, MediumInv
      <3>2. disk'[H(u)] # disk[H(u)] => u # s /\ disk[H(u)].gen < disk[H(s)].gen
        BY <1>1, <2>1, <2>3, <3>1, SettledHead DEF MediumInv, StageInv
      <3> QED  BY <1>0, <2>1, <2>3, <3>1, <3>2 DEF Used, HeaderValid
    <2> QED  BY <2>2, <2>3 DEF HeaderInv
  <1>2. ASSUME NEW n \in Slot, Used(n)', ~ (Used(n) /\ disk'[H(n)] = disk[H(n)])
        PROVE  HeaderInv'
    <2> DEFINE v == disk'[H(n)]
    <2>1. v \in pending[H(n)] /\ v.kind = "hdr" /\ ~ HeadQuiet(n)
      BY <1>2, SettledHead DEF HeadQuiet
    <2>2. \A s \in Slot \ {n} : HeadQuiet(s) /\ disk'[H(s)] = disk[H(s)]
      BY <2>1, SettledHead DEF MediumInv, StageInv, Quiet
    <2>3. v.gen \in 1 .. MaxGen  BY <2>1, HeadValues DEF Vals
    <2>4. /\ \A t \in Slot \ {n} :
               /\ Used(t) => disk[H(t)].gen < v.gen /\ v.gen < disk[H(t)].gen + NSlots
               /\ Unused(t) => v.gen <= t
          /\ v.gen = 1 \/ \E t \in Slot \ {n} : Used(t) /\ disk[H(t)].gen = v.gen - 1
      BY <2>1 DEF MediumInv, ComingInv
    <2>5. \A t \in Slot \ {n} : Used(t) =>
            SealValid(disk, t) /\ (Used(n) => disk[H(n)].gen < disk[H(t)].gen)
      BY <2>1 DEF MediumInv, StageInv
    <2>6. \A s \in Slot \ {n} : (Used(s)' <=> Used(s)) /\ (Used(s) => SealValid(disk', s))
      BY <2>2, <2>5, SettledHead DEF Used, HeaderValid
    <2> SUFFICES ASSUME NEW s \in Slot, NEW t \in Slot, Used(s)'
                 PROVE  /\ Used(t)' =>
                             /\ disk'[H(t)].gen < disk'[H(s)].gen + NSlots
                             /\ disk'[H(s)].gen < disk'[H(t)].gen => SealValid(disk', s)
                             /\ \A g \in disk'[H(s)].gen .. disk'[H(t)].gen :
                                  \E u \in Slot : Used(u)' /\ disk'[H(u)].gen = g
                        /\ Unused(t)' => disk'[H(s)].gen <= t
      BY DEF HeaderInv
    <2>7. ASSUME Unused(t)' PROVE disk'[H(s)].gen <= t
      <3>1. Unused(t) /\ t # n  BY <1>2, <2>7, SettledHead DEF Used, Unused, HeaderValid
      <3>2. CASE s = n  BY <2>4, <3>1, <3>2
      <3>3. CASE s # n
        <4>1. Used(s) /\ disk'[H(s)] = disk[H(s)]  BY <2>2, <2>6, <3>3
        <4> QED  BY <3>1, <4>1 DEF MediumInv, HeaderInv
      <3> QED  BY <3>2, <3>3
    <2>8. ASSUME Used(t)' PROVE disk'[H(t)].gen < disk'[H(s)].gen + NSlots
      <3>1. CASE s = n /\ t = n  BY <2>3, <3>1, SlotAssumption
      <3>2. CASE s = n /\ t # n
        <4>1. disk'[H(t)].gen < v.gen /\ disk'[H(t)].gen \in Nat
          BY <1>0, <2>2, <2>4, <2>6, <2>8, <3>2
        <4> QED  BY <2>3, <3>2, <4>1, SlotAssumption
      <3>3. CASE s # n /\ t = n  BY <2>2, <2>4, <2>6, <3>3
      <3>4. CASE s # n /\ t # n  BY <2>2, <2>6, <2>8, <3>4 DEF MediumInv, HeaderInv
      <3> QED  BY <3>1, <3>2, <3>3, <3>4
    <2>9. ASSUME Used(t)', disk'[H(s)].gen < disk'[H(t)].gen PROVE SealValid(disk', s)
      BY <2>3, <2>9, <1>0, <2>2, <2>4, <2>6
    <2>10. ASSUME Used(t)', NEW g \in disk'[H(s)].gen .. disk'[H(t)].gen
           PROVE  \E u \in Slot : Used(u)' /\ disk'[H(u)].gen = g
      <3>1. ASSUME NEW w \in Slot \ {n}, Used(w)' PROVE Used(w) /\ disk'[H(w)].gen = disk[H(w)].gen
        BY <2>2, <2>6, <3>1
      <3>2. CASE g = v.gen  BY <1>2, <3>2
      <3>3. CASE s = n /\ t # n  BY <1>0, <2>3, <2>4, <2>10, <3>1, <3>2, <3>3
      <3>4. CASE s # n /\ g # v.gen
        <4>1. Used(s) /\ disk[H(s)].gen \in Nat /\ disk'[H(s)].gen = disk[H(s)].gen /\ g \in Nat
          BY <1>0, <2>3, <2>10, <3>1, <3>4
        <4>2. PICK x \in Slot \ {n} : Used(x) /\ g \in disk[H(s)].gen .. disk[H(x)].gen
          <5>1. CASE t # n  BY <2>10, <3>1, <4>1, <5>1
          <5>2. CASE t = n
            <6>1. v.gen # 1  BY <2>4, <3>4, <4>1, <1>0
            <6>2. PICK x \in Slot \ {n} : Used(x) /\ disk[H(x)].gen = v.gen - 1
              BY <2>4, <6>1
            <6> QED  BY <2>3, <2>10, <3>4, <4>1, <5>2, <6>2
          <5> QED  BY <5>1, <5>2
        <4>3. PICK u \in Slot : Used(u) /\ disk[H(u)].gen = g
          BY <4>1, <4>2 DEF MediumInv, HeaderInv
        <4>4. u # n
          <5>1. Used(n) => disk[H(n)].gen < disk[H(s)].gen  BY <2>5, <3>4, <4>1
          <5> QED  BY <1>0, <4>1, <4>2, <4>3, <5>1
        <4> QED  BY <2>2, <2>6, <4>3, <4>4
      <3> QED  BY <2>3, <2>10, <3>2, <3>3, <3>4
    <2> QED  BY <2>7, <2>8, <2>9, <2>10
  <1> QED  BY <1>1, <1>2

LEMMA SettledStampInv ==
  ASSUME MediaInv, MediumInv, Settled, UNCHANGED <<writer, contracts>>
  PROVE  StampInv'
  <1> SUFFICES ASSUME NEW s \in Slot
               PROVE  /\ \A i \in Pos : disk'[B(s, i)].kind = "blk" =>
                           LET v == disk'[B(s, i)] IN
                           /\ ~ Unused(s)' /\ (Used(s)' => v.gen <= disk'[H(s)].gen)
                           /\ v.prev <= v.writer /\ v.writer <= writer
                           /\ RecsOf(v.recs) \subseteq 1 .. Len(contracts)
                      /\ disk'[F(s)].kind = "ftr" =>
                           ~ Unused(s)' /\ (Used(s)' => disk'[F(s)].gen <= disk'[H(s)].gen)
    BY SettledQuiet DEF StampInv, Vals
  <1>1. /\ \A i \in Pos : disk'[B(s, i)] \in Vals(B(s, i)) \cup {Torn}
        /\ disk'[F(s)] \in Vals(F(s)) \cup {Torn}
    BY PossibleValues DEF Settled
  \* A generation that its slot's flushed header bounds is bounded afterwards.
  <1>2. ASSUME NEW g \in 1 .. MaxGen, ~ Unused(s), Used(s) => g <= disk[H(s)].gen
        PROVE  ~ Unused(s)' /\ (Used(s)' => g <= disk'[H(s)].gen)
    BY <1>2, SettledHead, HeadValues DEF MediumInv, ComingInv, Vals, Used, Unused,
       HeaderValid
  <1>3. ASSUME NEW i \in Pos, disk'[B(s, i)].kind = "blk"
        PROVE  LET v == disk'[B(s, i)] IN
               /\ ~ Unused(s)' /\ (Used(s)' => v.gen <= disk'[H(s)].gen)
               /\ v.prev <= v.writer /\ v.writer <= writer
               /\ RecsOf(v.recs) \subseteq 1 .. Len(contracts)
    <2>1. disk'[B(s, i)] \in Vals(B(s, i))  BY <1>1, <1>3 DEF Torn
    <2>2. disk'[B(s, i)].gen \in 1 .. MaxGen  BY <1>3, <2>1, BlockValues DEF BlockSet
    <2>3. LET v == disk'[B(s, i)] IN
          /\ ~ Unused(s) /\ (Used(s) => v.gen <= disk[H(s)].gen)
          /\ v.prev <= v.writer /\ v.writer <= writer
          /\ RecsOf(v.recs) \subseteq 1 .. Len(contracts)
      BY <1>3, <2>1 DEF MediumInv, StampInv
    <2> QED  BY <1>2, <2>2, <2>3
  <1>4. ASSUME disk'[F(s)].kind = "ftr"
        PROVE  ~ Unused(s)' /\ (Used(s)' => disk'[F(s)].gen <= disk'[H(s)].gen)
    <2>1. disk'[F(s)] \in Vals(F(s))  BY <1>1, <1>4 DEF Torn
    <2>2. disk'[F(s)].gen \in 1 .. MaxGen  BY <1>4, <2>1, FooterValues DEF FooterSet
    <2>3. ~ Unused(s) /\ (Used(s) => disk'[F(s)].gen <= disk[H(s)].gen)
      BY <1>4, <2>1 DEF MediumInv, StampInv
    <2> QED  BY <1>2, <2>2, <2>3
  <1> QED  BY <1>3, <1>4

LEMMA SettledSealInv ==
  ASSUME MediaInv, MediumInv, Settled
  PROVE  SealInv'
  <1> SUFFICES ASSUME NEW s \in Slot, Used(s)', disk'[F(s)].kind = "ftr",
                      disk'[F(s)].gen = disk'[H(s)].gen
               PROVE  Seals(disk', disk'[F(s)].ns, s)
    BY SettledQuiet DEF SealInv, Vals
  <1> QED  BY ImageSeals DEF Settled, Used, SealValid

LEMMA SettledMedium ==
  ASSUME MediaInv, MediumInv, Settled, UNCHANGED <<writer, contracts>>
  PROVE  MediumInv'
  <1>1. CacheInv'  BY DEF Settled, CacheInv
  <1>2. StageInv'  BY SettledQuiet DEF StageInv
  <1>3. ComingInv'  BY SettledQuiet DEF ComingInv
  <1>4. FrameInv'
    <2> SUFFICES ASSUME NEW s \in Slot, NEW i \in Pos
                 PROVE  pending'[B(s, i)] = {} /\ Vals(B(s, i))' = {cache'[B(s, i)]}
      BY DEF FrameInv
    <2> QED  BY SettledQuiet DEF Settled, Vals
  <1> QED
    BY <1>1, <1>2, <1>3, <1>4, SettledHeaderInv, SettledStampInv, SettledSealInv DEF MediumInv

\* What the records of the medium become.
LEMMA SettledRecords ==
  ASSUME WellOrdered, MediaInv, MediumInv, Settled, Ordered(cache), Ordered(disk),
         Contracted(cache), Contracted(disk), UNCHANGED contracts
  PROVE  /\ Ordered(disk)' /\ Ordered(cache)' /\ Contracted(disk)' /\ Contracted(cache)'
         /\ Kept' = Stored(disk') /\ Kept \subseteq Kept'
  <1>1. Possible(disk') /\ cache' = disk'  BY DEF Settled
  <1>2. Ordered(disk')  BY <1>1, ImageOrdered
  <1>3. Contracted(disk)'  BY <1>1, ImageContracted DEF Contracted
  <1>4. Kept' = Stored(disk')  BY SettledQuiet DEF Kept, Stored
  <1>5. Kept \subseteq Stored(disk')  BY <1>1, ImageKept
  <1>6. Ordered(disk)' /\ Ordered(cache)'  BY <1>1, <1>2
  <1>7. Contracted(cache)'  BY <1>1, <1>3
  <1> QED  BY <1>3, <1>4, <1>5, <1>6, <1>7

-----------------------------------------------------------------------------
(* Writes *)

LEMMA WriteEffect ==
  ASSUME MediaInv, NEW r \in Region, NEW v, Write(r, v)
  PROVE  /\ disk' = disk /\ cache'[r] = v /\ pending'[r] = pending[r] \cup {v}
         /\ \A q \in Region \ {r} : cache'[q] = cache[q] /\ pending'[q] = pending[q]
  BY DEF MediaInv, Write

LEMMA WriteCache ==
  ASSUME MediaInv, CacheInv, NEW r \in Region, NEW v, Write(r, v)
  PROVE  CacheInv'
  BY WriteEffect DEF CacheInv

\* Of the other slots, nothing changes.
LEMMA OtherSlots ==
  ASSUME MediaInv, NEW a \in Slot, NEW r \in Region, NEW v, Write(r, v), r[2] = a,
         NEW t \in Slot \ {a}
  PROVE  /\ cache'[H(t)] = cache[H(t)] /\ cache'[I(t)] = cache[I(t)] /\ cache'[F(t)] = cache[F(t)]
         /\ pending'[H(t)] = pending[H(t)] /\ pending'[I(t)] = pending[I(t)]
         /\ pending'[F(t)] = pending[F(t)]
         /\ \A i \in Pos : /\ cache'[B(t, i)] = cache[B(t, i)]
                           /\ pending'[B(t, i)] = pending[B(t, i)]
         /\ Quiet(t)' = Quiet(t) /\ HeadQuiet(t)' = HeadQuiet(t) /\ SealQuiet(t)' = SealQuiet(t)
         /\ BlocksQuiet(t)' = BlocksQuiet(t)
         /\ Scanned(cache', t) = Scanned(cache, t)
  <1>1. /\ H(t) \in Region \ {r} /\ I(t) \in Region \ {r} /\ F(t) \in Region \ {r}
        /\ \A i \in Pos : B(t, i) \in Region \ {r}
    BY Regions DEF H, I, F, B
  <1>2. \A q \in Region \ {r} : cache'[q] = cache[q] /\ pending'[q] = pending[q]
    BY WriteEffect
  <1>3. Scanned(cache', t) = Scanned(cache, t)  BY <1>1, <1>2, ScanSame
  <1> QED  BY <1>1, <1>2, <1>3 DEF Quiet, HeadQuiet, SealQuiet, BlocksQuiet

\* What depends on the flushed medium alone.
LEMMA SameDisk ==
  ASSUME disk' = disk
  PROVE  /\ HeaderInv => HeaderInv'
         /\ \A s \in Slot : /\ Used(s)' = Used(s) /\ Unused(s)' = Unused(s)
                            /\ Unsealed(s)' = Unsealed(s)
  BY DEF HeaderInv, Used, Unused, Unsealed

LEMMA SameDiskRecords ==
  ASSUME disk' = disk, UNCHANGED contracts
  PROVE  (Ordered(disk) => Ordered(disk)') /\ (Contracted(disk) => Contracted(disk)')
  BY DEF Contracted

LEMMA SameKept ==
  ASSUME disk' = disk, \A s \in Slot : pending'[H(s)] = pending[H(s)]
  PROVE  Kept' = Kept
  BY DEF Kept, HeadQuiet

\* Of the rest of the medium, nothing changes.
LEMMA SealEffect ==
  ASSUME MediaInv, NEW a \in Slot, NEW r \in {I(a), F(a)}, NEW v, Write(r, v)
  PROVE  /\ disk' = disk /\ cache'[r] = v
         /\ \A s \in Slot : /\ pending'[H(s)] = pending[H(s)]
                            /\ \A i \in Pos : pending'[B(s, i)] = pending[B(s, i)]
                            /\ s # a => /\ pending'[I(s)] = pending[I(s)]
                                        /\ pending'[F(s)] = pending[F(s)]
  <1>1. r \in Region  BY Regions
  <1>2. /\ disk' = disk /\ cache'[r] = v
        /\ \A q \in Region \ {r} : pending'[q] = pending[q]
    BY <1>1, WriteEffect
  <1> QED  BY <1>1, <1>2, Regions, Apart

\* What is stored depends on the headers and the frames only.
LEMMA SameFrames ==
  ASSUME \A s \in Slot : /\ cache'[H(s)] = cache[H(s)] /\ Scanned(cache', s) = Scanned(cache, s)
                         /\ \A i \in Pos : cache'[B(s, i)] = cache[B(s, i)],
         UNCHANGED contracts
  PROVE  /\ Stored(cache') = Stored(cache)
         /\ (Ordered(cache) => Ordered(cache')) /\ (Contracted(cache) => Contracted(cache)')
  <1>1. \A s \in Slot : Frames(cache', s) = Frames(cache, s) /\ Frames(cache, s) \subseteq Pos
    BY DEF Frames, HeaderValid, Scanned
  <1>2. Stored(cache') = Stored(cache)  BY <1>1 DEF Stored, Recs
  <1>3. ASSUME Ordered(cache) PROVE Ordered(cache')
    <2> SUFFICES ASSUME NEW s \in Slot, NEW t \in Slot,
                        NEW i \in Frames(cache, s), NEW j \in Frames(cache, t),
                        cache[H(s)].gen < cache[H(t)].gen \/ (s = t /\ i < j)
                 PROVE  \A x \in RecsOf(cache'[B(s, i)].recs),
                           y \in RecsOf(cache'[B(t, j)].recs) : x < y
      BY <1>1 DEF Ordered
    <2>1. cache'[B(s, i)] = cache[B(s, i)] /\ cache'[B(t, j)] = cache[B(t, j)]  BY <1>1
    <2> QED  BY <1>3, <2>1 DEF Ordered
  <1>4. Contracted(cache) => Contracted(cache)'  BY <1>1 DEF Contracted
  <1> QED  BY <1>2, <1>3, <1>4

\* Nothing is read any more from the slot, and all else as before.
LEMMA HeadFrames ==
  ASSUME NEW n \in Slot, UNCHANGED contracts, Frames(cache', n) = {},
         \A s \in Slot \ {n} : cache'[H(s)] = cache[H(s)] /\ Scanned(cache', s) = Scanned(cache, s),
         \A s \in Slot, i \in Pos : cache'[B(s, i)] = cache[B(s, i)]
  PROVE  /\ Stored(cache) \subseteq Stored(cache') \cup Recs(cache, n)
         /\ Stored(cache') \subseteq Stored(cache)
         /\ Ordered(cache) => Ordered(cache')
         /\ Contracted(cache) => Contracted(cache)'
  <1>1. \A s \in Slot \ {n} : Frames(cache', s) = Frames(cache, s) /\ Frames(cache, s) \subseteq Pos
    BY DEF Frames, HeaderValid, Scanned
  <1>2. Recs(cache', n) = {} /\ \A s \in Slot \ {n} : Recs(cache', s) = Recs(cache, s)
    BY <1>1 DEF Recs
  <1>3. /\ Stored(cache) \subseteq Stored(cache') \cup Recs(cache, n)
        /\ Stored(cache') \subseteq Stored(cache)
    BY <1>2 DEF Stored
  <1>4. \A s \in Slot : \A i \in Frames(cache', s) :
          i \in Frames(cache, s) /\ cache'[H(s)] = cache[H(s)] /\ cache'[B(s, i)] = cache[B(s, i)]
    BY <1>1
  <1>5. Ordered(cache) => Ordered(cache')  BY <1>4 DEF Ordered
  <1>6. Contracted(cache) => Contracted(cache)'  BY <1>4 DEF Contracted
  <1> QED  BY <1>3, <1>5, <1>6

LEMMA HeadEffect ==
  ASSUME MediaInv, NEW n \in Slot, NEW v, Write(H(n), v)
  PROVE  /\ disk' = disk /\ cache'[H(n)] = v
         /\ \A s \in Slot : /\ pending'[I(s)] = pending[I(s)] /\ pending'[F(s)] = pending[F(s)]
                            /\ \A i \in Pos : pending'[B(s, i)] = pending[B(s, i)]
                            /\ s # n => pending'[H(s)] = pending[H(s)]
  <1>1. /\ disk' = disk /\ cache'[H(n)] = v
        /\ \A q \in Region \ {H(n)} : pending'[q] = pending[q]
    BY WriteEffect, Regions
  <1> QED  BY <1>1, Regions, Apart

=============================================================================
