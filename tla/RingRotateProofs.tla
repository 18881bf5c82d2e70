-------------------------- MODULE RingRotateProofs --------------------------
(***************************************************************************)
(* The power cut, the flushes, and the steps of RingStore that seal a      *)
(* partition and create the next one preserve PInv.                        *)
(***************************************************************************)
EXTENDS RingSessionProofs

-----------------------------------------------------------------------------
(* Flushes, and the power cut *)

LEMMA PowerCutPInv == ASSUME WellOrdered, RInv, PInv, PowerCut PROVE PInv'
  <1> Settled /\ UNCHANGED <<contracts, writer, promised, evicted>> /\ Discard
    BY PowerLossSettles DEF PowerCut, history
  <1>2. MediumInv'  BY SettledMedium DEF RInv, PInv
  <1>3. Ordered(cache)' /\ Ordered(disk)' /\ Contracted(cache)' /\ Contracted(disk)'
        /\ Kept \subseteq Kept'
    BY SettledRecords DEF RInv, PInv, RecordInv
  <1>4. promised' \ evicted' \subseteq Kept'  BY <1>3 DEF PInv, RecordInv, AccountInv
  <1> QED  BY <1>2, <1>3, <1>4, DiscardPInv

\* With nothing being built, a flush keeps all that was accepted.
LEMMA FlushedRecords ==
  ASSUME WellOrdered, RInv, PInv, Flush, builder = <<>>,
         UNCHANGED <<contracts, evicted, accepted, writer, builder>>,
         promised' \subseteq promised \cup RecsOf(accepted)
  PROVE  /\ MediumInv' /\ RecordInv'
         /\ disk' = cache /\ cache' = cache
         /\ \A s \in Slot : /\ HeadQuiet(s)' /\ SealQuiet(s)' /\ BlocksQuiet(s)'
                            /\ \A i \in Pos : Vals(B(s, i))' = {cache[B(s, i)]}
  <1>1. MediaInv /\ MediumInv /\ RecordInv /\ CacheInv  BY DEF RInv, PInv, MediumInv
  <1> Settled /\ disk' = cache /\ cache' = cache  BY <1>1, FlushSettles DEF Flush
  <1>3. MediumInv'  BY <1>1, SettledMedium
  <1>4. /\ Ordered(cache)' /\ Ordered(disk)' /\ Contracted(cache)' /\ Contracted(disk)'
        /\ Kept' = Stored(cache) /\ Kept \subseteq Kept'
    BY <1>1, SettledRecords DEF RecordInv
  <1>5. Stored(cache)' = Stored(cache)  OBVIOUS
  <1>6. RecsOf(builder) = {}  BY DEF RecsOf
  <1>7. AccountInv' /\ BuilderInv'
    BY <1>1, <1>4, <1>5, <1>6 DEF RecordInv, AccountInv, BuilderInv
  <1>8. \A s \in Slot : /\ HeadQuiet(s)' /\ SealQuiet(s)' /\ BlocksQuiet(s)'
                        /\ \A i \in Pos : Vals(B(s, i))' = {cache[B(s, i)]}
    BY SettledQuiet DEF Vals
  <1> QED  BY <1>3, <1>4, <1>7, <1>8 DEF RecordInv

LEMMA SyncPInv ==
  ASSUME WellOrdered, RInv, PInv, pc \in {"sync", "sealSync"}, Flush, ~ dirty', ClaimDurable,
         pc' \in {"idle", "index"},
         UNCHANGED <<evicted, contracts, up, faulted, cat, act, writer, builder, accepted>>
  PROVE  PInv'
  <1>1. up /\ ~ faulted /\ pc \notin AfterData /\ op.kind # "open"  BY AtAccept
  <1>2. builder = <<>>
    BY <1>1, AtSealing DEF PInv, PhaseInv, Sealing
  <1>3. /\ MediumInv' /\ RecordInv' /\ disk' = cache /\ cache' = cache
        /\ \A s \in Slot : /\ HeadQuiet(s)' /\ SealQuiet(s)' /\ BlocksQuiet(s)'
                           /\ \A i \in Pos : Vals(B(s, i))' = {cache[B(s, i)]}
    BY <1>2, FlushedRecords DEF ClaimDurable
  <1>4. \A s \in Slot : /\ disk'[H(s)] = disk[H(s)] /\ disk'[F(s)] = disk[F(s)]
                        /\ Used(s)' = Used(s) /\ SealValid(disk', s) = SealValid(disk, s)
    <2>1. \A s \in Slot : disk'[H(s)] = disk[H(s)] /\ disk'[F(s)] = disk[F(s)]
      BY <1>1, <1>3, OnlyBlocks, Regions DEF PInv, MediumInv, CacheInv, HeadQuiet, SealQuiet
    <2> QED  BY <2>1 DEF Used, HeaderValid, SealValid
  <1>5. CatInv'  BY <1>1, <1>4 DEF PInv, CatInv
  <1>6. ActInv'
    <2>1. \A s \in Slot : \A i \in Pos : cache[B(s, i)] \in Vals(B(s, i))
      BY Regions DEF PInv, MediumInv, CacheInv, Vals
    <2>2. act \in Slot /\ ActInv  BY DEF RInv, SessionOK, PInv
    <2> QED  BY <1>1, <1>3, <2>1, <2>2 DEF ActInv
  <1>7. PhaseInv'  BY <1>3 DEF PhaseInv, AfterData, Creating
  <1> QED  BY <1>3, <1>5, <1>6, <1>7 DEF PInv

LEMMA SyncMediaPInv == ASSUME WellOrdered, RInv, PInv, SyncMedia PROVE PInv'
  BY SyncPInv DEF SyncMedia, Goto

LEMMA SealSyncPInv == ASSUME WellOrdered, RInv, PInv, SealSync PROVE PInv'
  BY SyncPInv DEF SealSync, Goto

LEMMA FooterSyncPInv == ASSUME WellOrdered, RInv, PInv, FooterSync PROVE PInv'
  <1> /\ up /\ ~ faulted /\ builder = <<>> /\ act \in Slot /\ cat[act].gen \in 1 .. MaxGen
      /\ cat \in [Slot -> PartSet] /\ ~ cat[act].sealed
    BY AtSealing DEF RInv, SessionOK, FooterSync, Sealing
  <1>2. /\ Flush /\ pc' = "header" /\ cat' = [cat EXCEPT ![act].sealed = TRUE]
        /\ UNCHANGED <<contracts, evicted, promised, accepted, writer, builder, up, faulted,
                       act, dirty>>
    BY DEF FooterSync, Goto, history
  <1>3. /\ MediumInv' /\ RecordInv' /\ disk' = cache /\ cache' = cache
        /\ \A s \in Slot : HeadQuiet(s)' /\ SealQuiet(s)' /\ BlocksQuiet(s)'
    BY <1>2, FlushedRecords
  <1>4. /\ ~ dirty /\ cache[F(act)] = Footer(cat[act].gen, BlockSizes(cat[act].blocks))
        /\ \A s \in Slot : HeadQuiet(s) /\ (s # act => SealQuiet(s))
    BY DEF PInv, PhaseInv, FooterSync, AfterData
  <1>5. \A s \in Slot : disk'[H(s)] = disk[H(s)] /\ (s # act => disk'[F(s)] = disk[F(s)])
    BY <1>3, <1>4, Regions DEF PInv, MediumInv, CacheInv, HeadQuiet, SealQuiet
  <1>6. /\ \A s \in Slot : Used(s)' = Used(s) /\ cat'[s].gen = cat[s].gen
                           /\ cat'[s].opts = cat[s].opts
        /\ \A s \in Slot \ {act} : cat'[s] = cat[s] /\ SealValid(disk', s) = SealValid(disk, s)
        /\ cat'[act].sealed = TRUE
    BY <1>2, <1>5 DEF Used, HeaderValid, SealValid, PartSet
  <1>7. CatInv  BY DEF PInv
  <1>8. Used(act) /\ disk[H(act)].gen = cat[act].gen
    BY <1>7 DEF CatInv, Absent, Created
  <1>9. SealValid(disk', act)
    BY <1>3, <1>4, <1>5, <1>8 DEF SealValid, Footer
  <1>10. CatInv'
    <2> SUFFICES ASSUME NEW s \in Slot
                 PROVE  /\ disk'[H(s)].kind # "torn"
                        /\ IF Used(s)' THEN /\ cat'[s].gen = disk'[H(s)].gen
                                            /\ cat'[s].opts = disk'[H(s)].opts
                                            /\ cat'[s].sealed = SealValid(disk', s)
                           ELSE cat'[s] = Absent
                        /\ cat'[s].gen <= cat'[act].gen
      BY <1>2 DEF CatInv
    <2>1. CASE s = act  BY <1>5, <1>6, <1>7, <1>8, <1>9, <2>1 DEF CatInv, SealValid
    <2>2. CASE s # act  BY <1>5, <1>6, <1>7, <2>2 DEF CatInv
    <2> QED  BY <2>1, <2>2
  <1>11. ActInv'  BY <1>2, <1>6 DEF ActInv
  <1>12. PhaseInv'  BY <1>2, <1>3, <1>4, <1>6 DEF PhaseInv
  <1> QED  BY <1>3, <1>10, <1>11, <1>12 DEF PInv

-----------------------------------------------------------------------------
(* The slot of the next partition *)

\* A slot's generations are NSlots apart.
LEMMA SlotPeriod ==
  ASSUME NEW s \in Slot, NEW g \in Nat \ {0}, NEW h \in Nat \ {0},
         InPlace(s, g), InPlace(s, h), h < g, g <= h + NSlots
  PROVE  g = h + NSlots
  <1> DEFINE p == (g - 1) \div NSlots
             q == (h - 1) \div NSlots
  <1> p \in Nat /\ g - 1 = p * NSlots + s  BY SlotAssumption DEF InPlace
  <1> q \in Nat /\ h - 1 = q * NSlots + s  BY SlotAssumption DEF InPlace
  <1> HIDE DEF p, q
  <1>3. g - h = (p - q) * NSlots  BY SlotAssumption
  <1>4. p - q >= 1  BY SlotAssumption
  <1>5. p - q <= 1  BY SlotAssumption
  <1>6. p - q = 1  BY <1>4, <1>5
  <1> QED  BY <1>3, <1>6, SlotAssumption

\* The first NSlots generations fill the slots in order.
LEMMA SlotFirst ==
  ASSUME NEW s \in Slot, NEW g \in Nat, g < NSlots, InPlace(s, g + 1)
  PROVE  s = g
  <1>1. g % NSlots = g  BY SlotAssumption
  <1> QED  BY <1>1 DEF InPlace

LEMMA NextElsewhere ==
  ASSUME NEW s \in Slot, NEW g \in Nat \ {0}, InPlace(s, g)
  PROVE  ~ InPlace(s, g + 1)
  <1> SUFFICES ASSUME InPlace(s, g + 1) PROVE FALSE  OBVIOUS
  <1>1. g + 1 = g + NSlots  BY SlotPeriod, SlotAssumption
  <1> QED  BY <1>1, SlotAssumption

LEMMA SlotPeriodic ==
  ASSUME NEW s \in Slot, NEW g \in Nat \ {0}, InPlace(s, g)
  PROVE  InPlace(s, g + NSlots)
  <1> DEFINE q == (g - 1) \div NSlots
  <1>1. q \in Nat /\ g - 1 = q * NSlots + s  BY SlotAssumption DEF InPlace
  <1> HIDE DEF q
  <1>2. (g + NSlots) - 1 = (q + 1) * NSlots + s  BY <1>1, SlotAssumption
  <1>3. ((q + 1) * NSlots + s) % NSlots = s  BY <1>1, SlotAssumption, Remainder
  <1> QED  BY <1>2, <1>3 DEF InPlace

\* The slot a rotation goes to is next in turn: it is the oldest partition's,
\* or one never used when there are such.
LEMMA TargetTurn ==
  ASSUME RInv, PInv, pc \in Creating
  PROVE  /\ \A t \in Slot : Used(t) => SealValid(disk, t) /\ disk[H(t)].gen < TargetGen
         /\ TargetGen = 1 \/ \E t \in Slot \ {TargetSlot} :
                                Used(t) /\ disk[H(t)].gen = TargetGen - 1
         /\ \A t \in Slot \ {TargetSlot} :
              /\ Used(t) => /\ TargetGen < disk[H(t)].gen + NSlots
                            /\ Used(TargetSlot) => disk[H(TargetSlot)].gen < disk[H(t)].gen
              /\ Unused(t) => TargetGen <= t
  <1>1. /\ TargetSlot \in Slot /\ TargetGen \in 1 .. MaxGen /\ InPlace(TargetSlot, TargetGen)
        /\ up /\ ~ faulted /\ act \in Slot
    BY AtCreating DEF RInv, SessionOK
  <1>2. \A t \in Slot : Used(t) => /\ disk[H(t)].gen \in Nat \ {0} /\ InPlace(t, disk[H(t)].gen)
                                   /\ cat[t].gen = disk[H(t)].gen
                                   /\ cat[t].sealed = SealValid(disk, t)
    <2>1. \A t \in Slot : Used(t) => disk[H(t)].gen \in 1 .. MaxGen /\ InPlace(t, disk[H(t)].gen)
      BY HeadValues DEF RInv, Vals, Used, HeaderValid
    <2> QED  BY <1>1, <2>1, BoundsAssumption DEF PInv, CatInv
  <1>3. CASE Empty
    <2>1. TargetSlot = 0 /\ TargetGen = 1  BY <1>3 DEF TargetSlot, TargetGen
    <2>2. \A t \in Slot : ~ Used(t)  BY <1>2, <1>3 DEF Empty
    <2> QED  BY <2>1, <2>2, SlotAssumption
  <1>4. CASE ~ Empty
    <2> DEFINE g == cat[act].gen
    <2> TargetGen = g + 1 /\ g # 0 /\ cat[act].sealed
      BY <1>1, <1>4 DEF TargetGen, RInv, ActiveInv, PInv, PhaseInv
    <2>2. Used(act) /\ disk[H(act)].gen = g /\ g \in Nat \ {0} /\ SealValid(disk, act)
      BY <1>1, <1>2 DEF PInv, CatInv, Absent, Created
    <2>3. \A t \in Slot : Used(t) => disk[H(t)].gen <= g
      BY <1>1, <1>2 DEF PInv, CatInv
    <2> HIDE DEF g
    <2>4. \A t \in Slot : Used(t) => /\ g < disk[H(t)].gen + NSlots
                                     /\ disk[H(t)].gen < g => SealValid(disk, t)
      BY <1>1, <2>2 DEF PInv, MediumInv, HeaderInv
    <2>5. act # TargetSlot  BY <1>1, <2>2, <1>2, NextElsewhere
    <2>6. ASSUME NEW t \in Slot, Used(t) PROVE SealValid(disk, t) /\ disk[H(t)].gen < TargetGen
      <3>1. disk[H(t)].gen = g => t = act  BY <1>1, <1>2, <2>2, <2>6 DEF InPlace
      <3> QED  BY <1>2, <2>2, <2>3, <2>4, <2>6, <3>1
    <2>7. ASSUME NEW t \in Slot \ {TargetSlot}, Used(t)
          PROVE  TargetGen < disk[H(t)].gen + NSlots
      <3>1. InPlace(t, disk[H(t)].gen + NSlots)  BY <1>2, <2>7, SlotPeriodic
      <3>2. TargetGen # disk[H(t)].gen + NSlots  BY <1>1, <2>7, <3>1 DEF InPlace
      <3> QED  BY <1>2, <2>2, <2>4, <2>7, <3>2, SlotAssumption
    <2>8. ASSUME NEW t \in Slot \ {TargetSlot}, Used(t), Used(TargetSlot)
          PROVE  disk[H(TargetSlot)].gen < disk[H(t)].gen
      <3>1. TargetGen = disk[H(TargetSlot)].gen + NSlots
        <4>1. /\ disk[H(TargetSlot)].gen < TargetGen
              /\ TargetGen <= disk[H(TargetSlot)].gen + NSlots
          BY <1>1, <1>2, <2>2, <2>4, <2>6, <2>8, SlotAssumption
        <4> QED  BY <1>1, <1>2, <2>2, <2>8, <4>1, SlotPeriod
      <3> QED  BY <1>1, <1>2, <2>7, <2>8, <3>1, SlotAssumption
    <2>9. ASSUME NEW t \in Slot \ {TargetSlot}, Unused(t) PROVE TargetGen <= t
      <3>1. g <= t  BY <1>1, <2>2, <2>9 DEF PInv, MediumInv, HeaderInv
      <3>2. g # t
        <4> SUFFICES ASSUME g = t PROVE FALSE  OBVIOUS
        <4>1. g < NSlots  BY SlotAssumption
        <4> QED  BY <1>1, <2>2, <2>9, <4>1, SlotFirst
      <3> QED  BY <2>2, <3>1, <3>2, SlotAssumption
    <2>10. \E t \in Slot \ {TargetSlot} : Used(t) /\ disk[H(t)].gen = TargetGen - 1
      BY <1>1, <2>2, <2>5
    <2> QED  BY <2>6, <2>7, <2>8, <2>9, <2>10
  <1> QED  BY <1>3, <1>4

\* The slot holds nothing yet of the generation it is to carry.
LEMMA TargetFresh ==
  ASSUME RInv, PInv, pc \in Creating
  PROVE  LET T == TargetSlot IN
         /\ disk[F(T)].kind = "ftr" => disk[F(T)].gen # TargetGen
         /\ \A i \in Pos : disk[B(T, i)].kind = "blk" => disk[B(T, i)].gen # TargetGen
  <1> DEFINE T == TargetSlot
  <1> T \in Slot /\ TargetGen \in Nat /\ up /\ ~ faulted
    BY AtCreating, BoundsAssumption
  <1>2. Used(T) => disk[H(T)].gen < TargetGen  BY TargetTurn
  <1>3. Used(T) => disk[H(T)].gen \in Nat
    BY HeadValues, BoundsAssumption DEF RInv, Vals, Used, HeaderValid
  <1>4. Unused(T) \/ Used(T)
    BY HeadValues DEF RInv, PInv, CatInv, Vals, Used, Unused, HeaderValid
  <1> HIDE DEF T
  <1>5. ASSUME disk[F(T)].kind = "ftr" PROVE disk[F(T)].gen # TargetGen
    <2>1. ~ Unused(T) /\ (Used(T) => disk[F(T)].gen <= disk[H(T)].gen)
      BY <1>5 DEF PInv, MediumInv, StampInv, Vals
    <2>2. disk[F(T)].gen \in Nat
      BY <1>5, FooterValues, BoundsAssumption DEF RInv, Vals, FooterSet
    <2> QED  BY <1>2, <1>3, <1>4, <2>1, <2>2
  <1>6. ASSUME NEW i \in Pos, disk[B(T, i)].kind = "blk" PROVE disk[B(T, i)].gen # TargetGen
    <2>1. ~ Unused(T) /\ (Used(T) => disk[B(T, i)].gen <= disk[H(T)].gen)
      BY <1>6 DEF PInv, MediumInv, StampInv, Vals
    <2>2. disk[B(T, i)].gen \in Nat
      BY <1>6, BlockValues, BoundsAssumption DEF RInv, Vals, BlockSet
    <2> QED  BY <1>2, <1>3, <1>4, <2>1, <2>2
  <1> QED  BY <1>5, <1>6 DEF T

-----------------------------------------------------------------------------
(* Creating a partition *)

LEMMA HeaderSyncPInv == ASSUME WellOrdered, RInv, PInv, HeaderSync PROVE PInv'
  <1>1. PICK T \in Slot : T = TargetSlot  BY AtCreating DEF HeaderSync, Creating
  <1>2. PICK G \in Nat \ {0} : G = TargetGen
    BY AtCreating, BoundsAssumption DEF HeaderSync, Creating
  <1>3. /\ up /\ ~ faulted /\ builder = <<>> /\ act \in Slot
        /\ cat \in [Slot -> PartSet] /\ pc \in Creating
    BY AtCreating DEF RInv, SessionOK, HeaderSync, Creating
  <1>4. /\ Flush /\ pc' \in {"accept", "idle"} /\ act' = T /\ ~ dirty'
        /\ cat' = [cat EXCEPT ![T] = Created(G, nextOpts)]
        /\ UNCHANGED <<contracts, evicted, promised, accepted, writer, builder, up, faulted>>
    BY <1>1, <1>2 DEF HeaderSync, Goto, history
  <1>5. /\ MediumInv' /\ RecordInv' /\ disk' = cache /\ cache' = cache
        /\ \A s \in Slot : /\ HeadQuiet(s)' /\ SealQuiet(s)' /\ BlocksQuiet(s)'
                           /\ \A i \in Pos : Vals(B(s, i))' = {cache[B(s, i)]}
    BY <1>3, <1>4, FlushedRecords
  <1>6. /\ cache[H(T)] = Header(G, nextOpts)
        /\ \A s \in Slot : /\ SealQuiet(s) /\ BlocksQuiet(s) /\ (s # T => HeadQuiet(s))
    BY <1>1, <1>2, <1>3 DEF PInv, PhaseInv, HeaderSync, AfterData
  <1>7. \A s \in Slot : /\ s # T => disk'[H(s)] = disk[H(s)]
                        /\ disk'[F(s)] = disk[F(s)]
                        /\ \A i \in Pos : cache[B(s, i)] = disk[B(s, i)]
    BY <1>5, <1>6, Regions DEF PInv, MediumInv, CacheInv, HeadQuiet, SealQuiet, BlocksQuiet
  <1>8. /\ disk[F(T)].kind = "ftr" => disk[F(T)].gen # G
        /\ \A i \in Pos : disk[B(T, i)].kind = "blk" => disk[B(T, i)].gen # G
    BY <1>1, <1>2, <1>3, TargetFresh
  <1>9. /\ disk'[H(T)].kind = "hdr" /\ disk'[H(T)].gen = G /\ disk'[H(T)].opts = nextOpts
        /\ cache'[H(T)].gen = G
    BY <1>5, <1>6 DEF Header
  <1>10. Used(T)' /\ ~ SealValid(disk', T)
    BY <1>7, <1>8, <1>9 DEF Used, HeaderValid, SealValid
  <1>11. \A s \in Slot \ {T} : Used(s)' = Used(s) /\ SealValid(disk', s) = SealValid(disk, s)
    BY <1>7 DEF Used, HeaderValid, SealValid
  <1>12. /\ cat'[T].gen = G /\ cat'[T].opts = nextOpts /\ cat'[T].sealed = FALSE
         /\ cat'[T].blocks = <<>> /\ \A s \in Slot \ {T} : cat'[s] = cat[s]
    BY <1>3, <1>4 DEF Created
  <1>13. \A s \in Slot : Used(s) => disk[H(s)].gen < G /\ disk[H(s)].gen \in Nat
    <2>1. \A s \in Slot : Used(s) => disk[H(s)].gen < G  BY <1>2, <1>3, TargetTurn
    <2>2. MediaInv  BY DEF RInv
    <2>3. \A s \in Slot : Used(s) => disk[H(s)].gen \in Nat  BY <2>2, UsedGen
    <2> QED  BY <2>1, <2>3
  <1>14. CatInv'
    <2> SUFFICES ASSUME NEW s \in Slot
                 PROVE  /\ disk'[H(s)].kind # "torn"
                        /\ IF Used(s)' THEN /\ cat'[s].gen = disk'[H(s)].gen
                                            /\ cat'[s].opts = disk'[H(s)].opts
                                            /\ cat'[s].sealed = SealValid(disk', s)
                           ELSE cat'[s] = Absent
                        /\ cat'[s].gen <= cat'[T].gen
      BY <1>3, <1>4 DEF CatInv
    <2>1. CASE s = T
      <3>1. SealValid(disk', T) = FALSE  BY <1>10 DEF SealValid
      <3>2. cat'[T].sealed = SealValid(disk', T)  BY <1>12, <3>1
      <3>3. cat'[T].gen <= cat'[T].gen  BY <1>2, <1>12
      <3>4. /\ disk'[H(T)].kind # "torn" /\ cat'[T].gen = disk'[H(T)].gen
            /\ cat'[T].opts = disk'[H(T)].opts
        BY <1>9, <1>12
      <3> QED  BY <1>10, <2>1, <3>2, <3>3, <3>4
    <2>2. CASE s # T
      <3>1. /\ disk[H(s)].kind # "torn"
            /\ IF Used(s) THEN /\ cat[s].gen = disk[H(s)].gen /\ cat[s].opts = disk[H(s)].opts
                               /\ cat[s].sealed = SealValid(disk, s)
               ELSE cat[s] = Absent
        BY <1>3 DEF PInv, CatInv
      <3>2. cat[s].gen <= G  BY <1>2, <1>13, <3>1 DEF Absent, Created
      <3> QED  BY <1>7, <1>11, <1>12, <2>2, <3>1, <3>2
    <2> QED  BY <2>1, <2>2
  <1>15. ActInv'
    <2>1. Scanned(cache', T) = {}
      <3>1. 0 \in Pos  BY CapAssumption
      <3> QED  BY <1>5, <1>7, <1>8, <1>9, <3>1, ScanNothing
    <2>2. Len(cat'[T].blocks) = 0 /\ 0 .. Len(cat'[T].blocks) - 1 = {}
          /\ 1 .. Len(cat'[T].blocks) = {}
      BY <1>12
    <2>3. \A i \in Pos : \A v \in Vals(B(T, i))' : v.kind = "blk" => v.gen # G
      BY <1>5, <1>7, <1>8
    <2> QED  BY <1>4, <1>12, <2>1, <2>2, <2>3 DEF ActInv
  <1>16. PhaseInv'  BY <1>4, <1>5 DEF PhaseInv, AfterData, Creating
  <1> QED  BY <1>5, <1>14, <1>15, <1>16 DEF PInv

\* A header written, whole or in part: the partition it replaces is gone.
LEMMA HeaderWritten ==
  ASSUME RInv, PInv, pc = "header", NEW T \in Slot, T = TargetSlot, NEW v, Write(H(T), v),
         \/ v = Header(TargetGen, nextOpts)
         \/ v = Torn
         \/ v = Blot /\ Unused(T),
         UNCHANGED <<writer, contracts>>,
         evicted \subseteq evicted', Recs(cache, T) \subseteq evicted'
  PROVE  /\ MediumInv' /\ disk' = disk /\ cache'[H(T)] = v
         /\ Ordered(cache)' /\ Contracted(cache)'
         /\ Kept \subseteq Kept' \cup evicted'
         /\ Stored(cache) \subseteq Stored(cache)' \cup evicted'
         /\ Stored(cache)' \subseteq Stored(cache)
         /\ \A s \in Slot : /\ SealQuiet(s)' /\ BlocksQuiet(s)'
                            /\ s # T => HeadQuiet(s)'
  <1>1. up /\ ~ faulted /\ pc \in Creating /\ MediaInv /\ MediumInv
    BY AtCreating DEF Creating, RInv, PInv
  <1>2. \A s \in Slot : Quiet(s) /\ HeadQuiet(s) /\ SealQuiet(s) /\ BlocksQuiet(s)
    BY <1>1 DEF PInv, PhaseInv, AfterData, Quiet
  <1>3. /\ Stored(cache) = Stored(disk) /\ Kept = Stored(disk)
        /\ \A s \in Slot : /\ Frames(cache, s) = Frames(disk, s)
                           /\ \A i \in Pos : cache[B(s, i)] = disk[B(s, i)]
    BY <1>1, <1>2, AllQuiet
  <1>4. HeaderDue(T, v)
    <2>1. \A s \in Slot : disk[H(s)].kind # "torn"  BY <1>1 DEF PInv, CatInv
    <2>2. /\ v.kind \in {"blank", "blot"} => Unused(T)
          /\ v.kind = "hdr" => v.gen = TargetGen
      BY DEF Header, Torn, Blot
    <2> QED  BY <1>1, <1>2, <2>1, <2>2, TargetTurn DEF HeaderDue
  <1>5. /\ MediumInv'
        /\ \A s \in Slot \ {T} : /\ cache'[H(s)] = cache[H(s)]
                                 /\ Scanned(cache', s) = Scanned(cache, s)
        /\ \A s \in Slot, i \in Pos : cache'[B(s, i)] = cache[B(s, i)]
    BY <1>1, <1>4, HeadWritten
  <1>6. /\ disk' = disk /\ cache'[H(T)] = v
        /\ \A s \in Slot : /\ pending'[I(s)] = pending[I(s)] /\ pending'[F(s)] = pending[F(s)]
                           /\ \A i \in Pos : pending'[B(s, i)] = pending[B(s, i)]
                           /\ s # T => pending'[H(s)] = pending[H(s)]
    BY <1>1, HeadEffect
  <1>7. Frames(cache', T) = {}
    <2>1. CASE v.kind = "hdr"
      <3>1. v.gen = TargetGen  BY <2>1 DEF Header, Torn, Blot
      <3>2. disk[B(T, 0)].kind = "blk" => disk[B(T, 0)].gen # TargetGen
        BY <1>1, TargetFresh, CapAssumption
      <3>3. cache'[B(T, 0)] = disk[B(T, 0)]  BY <1>3, <1>5, CapAssumption
      <3> QED  BY <1>6, <3>1, <3>2, <3>3, ScanNothing DEF Frames
    <2>2. CASE v.kind # "hdr"  BY <1>6, <2>2 DEF Frames, HeaderValid
    <2> QED  BY <2>1, <2>2
  <1>8. /\ Stored(cache) \subseteq Stored(cache') \cup Recs(cache, T)
        /\ Stored(cache') \subseteq Stored(cache)
        /\ Ordered(cache') /\ Contracted(cache)'
    <2>1. Ordered(cache) /\ Contracted(cache)  BY DEF PInv, RecordInv
    <2> QED  BY <1>5, <1>7, <2>1, HeadFrames
  <1>9. \A s \in Slot : /\ SealQuiet(s)' /\ BlocksQuiet(s)' /\ (s # T => HeadQuiet(s)')
    BY <1>2, <1>6 DEF SealQuiet, BlocksQuiet, HeadQuiet
  <1>10. Kept \subseteq Kept' \cup evicted'
    <2>1. \A s \in Slot : Recs(cache, s) = Recs(disk, s)  BY <1>3 DEF Recs, Frames, Scanned
    <2>2. \A s \in Slot \ {T} : Recs(disk, s) \subseteq Kept'  BY <1>6, <1>9 DEF Kept
    <2> QED  BY <1>3, <2>1, <2>2 DEF Stored
  <1> QED  BY <1>5, <1>6, <1>8, <1>9, <1>10

LEMMA WriteHeaderPInv == ASSUME RInv, PInv, WriteHeader PROVE PInv'
  <1> PICK T \in Slot : T = TargetSlot  BY AtCreating DEF WriteHeader, Creating
  <1> up /\ ~ faulted /\ pc = "header" /\ builder = <<>> /\ act \in Slot
    BY AtCreating DEF WriteHeader, Creating, RInv, SessionOK
  <1> /\ Write(H(T), Header(TargetGen, nextOpts)) /\ pc' = "headerSync"
      /\ evicted' = evicted \cup SlotRecords(cache, T)
      /\ UNCHANGED <<promised, contracts, up, faulted, cat, act, nextOpts, writer, builder,
                     dirty, accepted>>
    BY DEF WriteHeader, Goto
  <1>4. SlotRecords(cache, T) = Recs(cache, T)
    BY CachePossible, ImageReadable DEF RInv, PInv, MediumInv
  <1>5. /\ MediumInv' /\ disk' = disk /\ cache'[H(T)] = Header(TargetGen, nextOpts)
        /\ Ordered(cache)' /\ Contracted(cache)'
        /\ Kept \subseteq Kept' \cup evicted'
        /\ Stored(cache) \subseteq Stored(cache)' \cup evicted'
        /\ \A s \in Slot : /\ SealQuiet(s)' /\ BlocksQuiet(s)'
                           /\ s # T => HeadQuiet(s)'
    BY <1>4, HeaderWritten
  <1>6. CatInv'  BY <1>5 DEF PInv, CatInv, Used
  <1>7. ~ dirty /\ (cat[act].gen = 0 \/ cat[act].sealed)
    BY DEF PInv, PhaseInv, AfterData, Creating, Empty
  <1>8. ActInv'  BY <1>7 DEF ActInv
  <1>9. TargetSlot' = T /\ TargetGen' = TargetGen /\ Empty' = Empty
    BY DEF TargetSlot, TargetGen, Empty
  <1>10. Empty \/ cat[act].sealed  BY DEF PInv, PhaseInv, Creating
  <1>11. PhaseInv'  BY <1>5, <1>7, <1>9, <1>10 DEF PhaseInv
  <1>12. Ordered(disk)' /\ Contracted(disk)'
    BY <1>5 DEF PInv, RecordInv, Ordered, Contracted, Frames
  <1>13. RecsOf(builder) = {}  BY DEF RecsOf
  <1>14. AccountInv' /\ BuilderInv'
    BY <1>5, <1>13 DEF PInv, RecordInv, AccountInv, BuilderInv
  <1> QED  BY <1>5, <1>6, <1>8, <1>11, <1>12, <1>14 DEF PInv, RecordInv

LEMMA HeaderFailsPInv == ASSUME RInv, PInv, WriteFails, pc = "header" PROVE PInv'
  <1>1. PICK T \in Slot : T = TargetSlot  BY AtCreating DEF Creating
  <1>2. /\ WriteError(H(T)) /\ Fail
        /\ evicted' = IF cache' # cache THEN evicted \cup SlotRecords(cache, T) ELSE evicted
        /\ UNCHANGED <<promised, contracts, writer>>
    BY <1>1 DEF WriteFails, Target
  <1>3. CASE UNCHANGED storageVars
    BY <1>2, <1>3, QuietFailPInv DEF storageVars, history
  <1>4. CASE \E t \in TornOver(H(T), cache[H(T)]) : Write(H(T), t)
    <2> PICK t \in TornOver(H(T), cache[H(T)]) : Write(H(T), t)  BY <1>4
    <2> MediaInv /\ MediumInv /\ CacheInv /\ up /\ ~ faulted
      BY AtCreating DEF RInv, PInv, MediumInv, Creating
    <2>3. cache[H(T)] = disk[H(T)]
      BY Regions DEF PInv, PhaseInv, CacheInv, HeadQuiet
    <2>4. t = Torn \/ (t = Blot /\ Unused(T))  BY <2>3 DEF TornOver, Unused
    <2>5. Recs(cache, T) \subseteq evicted' /\ evicted \subseteq evicted'
      <3>1. SlotRecords(cache, T) = Recs(cache, T)
        BY CachePossible, ImageReadable
      <3>2. CASE cache' # cache  BY <1>2, <3>1, <3>2
      <3>3. CASE cache' = cache
        <4>1. cache[H(T)] = t  BY <3>3, WriteEffect, Regions
        <4>2. cache[H(T)].kind # "hdr"  BY <2>4, <4>1 DEF Torn, Blot
        <4>3. Frames(cache, T) = {}  BY <4>2 DEF Frames, HeaderValid
        <4> QED  BY <1>2, <3>3, <4>3 DEF Recs
      <3> QED  BY <3>2, <3>3
    <2>6. /\ MediumInv' /\ disk' = disk /\ Ordered(cache)' /\ Contracted(cache)'
          /\ Kept \subseteq Kept' \cup evicted'
          /\ Stored(cache) \subseteq Stored(cache)' \cup evicted'
          /\ Stored(cache)' \subseteq Stored(cache)
      BY <1>1, <1>2, <2>4, <2>5, HeaderWritten
    <2> QED  BY <1>2, <2>5, <2>6, FailPInv
  <1> QED  BY <1>2, <1>3, <1>4 DEF WriteError

-----------------------------------------------------------------------------
(* Sealing a partition *)

\* When a seal is written, the blocks it lists are those of the flushed medium.
LEMMA AtSeal ==
  ASSUME RInv, PInv, pc \in {"index", "footer"}, NEW a, a = act
  PROVE  /\ a \in Slot /\ up /\ ~ faulted /\ ~ dirty /\ op.kind # "open" /\ builder = <<>>
         /\ MediaInv /\ MediumInv /\ Unsealed(a) /\ disk[H(a)].gen = cat[a].gen
         /\ \A s \in Slot : HeadQuiet(s) /\ BlocksQuiet(s) /\ (s # a => Quiet(s))
         /\ Seals(disk, BlockSizes(cat[a].blocks), a)
  <1>1. /\ a \in Slot /\ up /\ ~ faulted /\ op.kind # "open" /\ builder = <<>>
        /\ cat[a].gen # 0 /\ ~ cat[a].sealed /\ cat[a].blocks \in Seq([writer : Nat, n : Nat])
    <2>1. /\ a \in Slot /\ up /\ ~ faulted /\ op.kind # "open" /\ builder = <<>>
          /\ cat[a].gen \in 1 .. MaxGen /\ ~ cat[a].sealed /\ cat[a] \in PartSet
      BY AtSealing DEF Sealing
    <2>2. cat[a].gen # 0  BY <2>1, BoundsAssumption
    <2> QED  BY <2>1, <2>2 DEF PartSet
  <1>2. ~ dirty /\ MediaInv /\ MediumInv /\ CatInv /\ ActInv
    BY <1>1 DEF RInv, PInv, PhaseInv, AfterData
  <1>3. \A s \in Slot : HeadQuiet(s) /\ BlocksQuiet(s) /\ (s # a => Quiet(s))
    BY <1>1, <1>2 DEF PInv, PhaseInv, Quiet
  <1>4. Unsealed(a) /\ disk[H(a)].gen = cat[a].gen
    <2>1. Used(a)  BY <1>1, <1>2 DEF CatInv, Absent, Created
    <2> QED  BY <1>1, <1>2, <2>1 DEF CatInv, Unsealed
  <1>5. /\ Scanned(cache, a) = 0 .. Len(cat[a].blocks) - 1
        /\ \A k \in 1 .. Len(cat[a].blocks) : cat[a].blocks[k].n = Len(cache[B(a, k - 1)].recs)
    BY <1>1, <1>2 DEF ActInv
  <1>6. cache[H(a)] = disk[H(a)] /\ \A i \in Pos : cache[B(a, i)] = disk[B(a, i)]
    BY <1>1, <1>2, <1>3, Regions DEF MediumInv, CacheInv, HeadQuiet, BlocksQuiet
  <1>7. Scanned(disk, a) = Scanned(cache, a)  BY <1>1, <1>6, ScanSame
  <1>8. Seals(disk, BlockSizes(cat[a].blocks), a)
    <2>1. PICK n \in Nat : n = Len(cat[a].blocks)  BY <1>1
    <2>2. /\ Len(BlockSizes(cat[a].blocks)) = n
          /\ \A k \in 1 .. n : BlockSizes(cat[a].blocks)[k] = cat[a].blocks[k].n
      BY <1>1, <2>1 DEF BlockSizes
    <2>3. ASSUME NEW i \in 0 .. n - 1
          PROVE  Len(disk[B(a, i)].recs) = BlockSizes(cat[a].blocks)[i + 1]
      <3>1. i \in Pos /\ i + 1 \in 1 .. n /\ (i + 1) - 1 = i
        BY <1>5, <2>1, <2>3 DEF Scanned
      <3>2. cat[a].blocks[i + 1].n = Len(cache[B(a, i)].recs)  BY <1>5, <2>1, <3>1
      <3> QED  BY <1>6, <2>2, <3>1, <3>2
    <2> QED  BY <1>5, <1>7, <2>1, <2>2, <2>3 DEF Seals
  <1> QED  BY <1>1, <1>2, <1>3, <1>4, <1>8

\* Neither the index nor the footer, whole or torn, changes what is stored.
LEMMA SealStep ==
  ASSUME RInv, PInv, pc \in {"index", "footer"}, NEW a, a = act, NEW r \in {I(a), F(a)}, NEW v,
         Write(r, v), UNCHANGED <<writer, contracts>>,
         (r = F(a) /\ v.kind = "ftr") => v = Footer(cat[a].gen, BlockSizes(cat[a].blocks))
  PROVE  /\ MediumInv' /\ disk' = disk /\ cache'[r] = v
         /\ \A s \in Slot : HeadQuiet(s)' /\ BlocksQuiet(s)' /\ (s # a => SealQuiet(s)')
         /\ Scanned(cache', a) = Scanned(cache, a)
         /\ \A i \in Pos : /\ cache'[B(a, i)] = cache[B(a, i)]
                           /\ pending'[B(a, i)] = pending[B(a, i)]
         /\ Stored(cache') = Stored(cache) /\ Kept' = Kept
         /\ Ordered(cache') /\ Contracted(cache)' /\ Ordered(disk)' /\ Contracted(disk)'
  <1> /\ a \in Slot /\ MediaInv /\ MediumInv /\ Unsealed(a) /\ disk[H(a)].gen = cat[a].gen
      /\ \A s \in Slot : HeadQuiet(s) /\ BlocksQuiet(s) /\ (s # a => Quiet(s))
      /\ Seals(disk, BlockSizes(cat[a].blocks), a)
    BY AtSeal
  <1>2. SealDue(a, r, v)  BY DEF SealDue, Footer
  <1>3. /\ MediumInv'
        /\ \A s \in Slot : /\ cache'[H(s)] = cache[H(s)] /\ Scanned(cache', s) = Scanned(cache, s)
                           /\ \A i \in Pos : cache'[B(s, i)] = cache[B(s, i)]
    BY <1>2, SealWritten
  <1>4. /\ disk' = disk /\ cache'[r] = v
        /\ \A s \in Slot : /\ pending'[H(s)] = pending[H(s)]
                           /\ \A i \in Pos : pending'[B(s, i)] = pending[B(s, i)]
                           /\ s # a => /\ pending'[I(s)] = pending[I(s)]
                                       /\ pending'[F(s)] = pending[F(s)]
    BY SealEffect
  <1>5. \A s \in Slot : HeadQuiet(s)' /\ BlocksQuiet(s)' /\ (s # a => SealQuiet(s)')
    BY <1>4 DEF HeadQuiet, BlocksQuiet, SealQuiet, Quiet
  <1>6. RecordInv  BY DEF PInv
  <1>7. Stored(cache') = Stored(cache) /\ Ordered(cache') /\ Contracted(cache)'
    BY <1>3, <1>6, SameFrames DEF RecordInv
  <1>8. Kept' = Kept  BY <1>4, SameKept
  <1>9. Ordered(disk)' /\ Contracted(disk)'  BY <1>4, <1>6, SameDiskRecords DEF RecordInv
  <1> QED  BY <1>3, <1>4, <1>5, <1>7, <1>8, <1>9

\* The index or the footer is written and the call goes on.
LEMMA SealGoesOn ==
  ASSUME RInv, PInv, pc \in {"index", "footer"}, NEW a, a = act, NEW r \in {I(a), F(a)}, NEW v,
         Write(r, v),
         (r = F(a) /\ v.kind = "ftr") => v = Footer(cat[a].gen, BlockSizes(cat[a].blocks)),
         \/ pc' = "footer"
         \/ pc' = "footerSync" /\ r = F(a) /\ v.kind = "ftr",
         UNCHANGED <<history, up, faulted, cat, act, writer, builder, dirty, accepted>>
  PROVE  PInv'
  <1>1. UNCHANGED <<promised, evicted, contracts>>  BY DEF history
  <1>2. ~ dirty /\ builder = <<>>  BY AtSeal
  <1>3. /\ MediumInv' /\ disk' = disk /\ cache'[r] = v
        /\ \A s \in Slot : HeadQuiet(s)' /\ BlocksQuiet(s)' /\ (s # a => SealQuiet(s)')
        /\ Scanned(cache', a) = Scanned(cache, a)
        /\ \A i \in Pos : /\ cache'[B(a, i)] = cache[B(a, i)]
                          /\ pending'[B(a, i)] = pending[B(a, i)]
        /\ Stored(cache') = Stored(cache) /\ Kept' = Kept
        /\ Ordered(cache') /\ Contracted(cache)' /\ Ordered(disk)' /\ Contracted(disk)'
    BY <1>1, SealStep
  <1>4. CatInv'  BY <1>3 DEF PInv, CatInv, Used
  <1>5. ActInv'
    <2>1. Scanned(cache, act)' = Scanned(cache, act)  BY <1>3
    <2>2. \A k \in 1 .. Len(cat[act].blocks) : Scanned(cache, act) = 0 .. Len(cat[act].blocks) - 1
            => k - 1 \in Pos
      BY DEF Scanned
    <2> QED  BY <1>3, <2>1, <2>2 DEF PInv, ActInv, Vals
  <1>6. PhaseInv'  BY <1>2, <1>3 DEF PhaseInv, AfterData, Creating
  <1>7. RecsOf(builder) = {}  BY <1>2 DEF RecsOf
  <1>8. AccountInv' /\ BuilderInv'
    BY <1>1, <1>3, <1>7 DEF PInv, RecordInv, AccountInv, BuilderInv
  <1> QED  BY <1>3, <1>4, <1>5, <1>6, <1>8 DEF PInv, RecordInv

LEMMA WriteIndexPInv == ASSUME RInv, PInv, WriteIndex PROVE PInv'
  <1>1. I(act) # F(act)  BY DEF I, F
  <1> QED  BY <1>1, SealGoesOn DEF WriteIndex, Goto

LEMMA WriteFooterPInv == ASSUME RInv, PInv, WriteFooter PROVE PInv'
  BY SealGoesOn DEF WriteFooter, Goto, Footer

LEMMA SealFailsPInv == ASSUME RInv, PInv, WriteFails, pc \in {"index", "footer"} PROVE PInv'
  <1>1. PICK a : a = act  OBVIOUS
  <1>2. PICK r \in {I(a), F(a)} : r = Target  BY <1>1 DEF Target
  <1> WriteError(r) /\ Fail /\ evicted' = evicted /\ UNCHANGED <<promised, contracts, writer>>
    BY <1>2 DEF WriteFails
  <1>4. CASE UNCHANGED storageVars
    BY <1>4, QuietFailPInv DEF history
  <1>5. CASE \E t \in TornOver(r, cache[r]) : Write(r, t)
    <2>1. Write(r, Torn)  BY <1>5 DEF TornOver, I, F
    <2>2. Torn.kind # "ftr"  BY DEF Torn
    <2>3. /\ MediumInv' /\ disk' = disk /\ Stored(cache') = Stored(cache) /\ Kept' = Kept
          /\ Ordered(cache') /\ Contracted(cache)'
      BY <1>1, <2>1, <2>2, SealStep
    <2> QED  BY <2>3, FailPInv
  <1> QED  BY <1>4, <1>5 DEF WriteError

=============================================================================
