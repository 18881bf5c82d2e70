------------------------------- MODULE Volume -------------------------------
(***************************************************************************)
(* How a volume comes to be and is found again: FileStorage::create and    *)
(* open_existing with their advisory lock, tfdb_format, RingStore::format, *)
(* and RingStore::open up to the list of partitions of the volume.         *)
(*                                                                         *)
(* Processes work on one path, a file or a block device.  Each system call *)
(* is a step, and any of them may be the last one a process makes.  The    *)
(* volume header fits one write, but write_exact() and read_exact() accept *)
(* short transfers.  A copy that is partly written fails its CRC, like one *)
(* that never was: both are 0.  (Reading a copy in parts could at most mix *)
(* two headers, and fail as it does between two parts of a write.)         *)
(* Volumes are numbered in the order in which format() draws their random  *)
(* ids, which never repeat.                                                *)
(*                                                                         *)
(* What a writer does in an open volume is the matter of RingStore; here   *)
(* it creates partitions in slots of its choice.                           *)
(***************************************************************************)
EXTENDS Naturals, Sequences, FiniteSets

CONSTANTS
  Procs,
  Nobody,     \* no process holds the lock
  Sizes,      \* sizes a volume is formatted with, in partitions
  MaxVolumes, \* bound: volumes formatted
  UsedSlots,  \* bound: the slots in which partitions are created
  MaxFaults,  \* bound: calls cut off in the middle, and power cuts
  MaxDamage   \* bound: header copies that decay after a format

ASSUME ProcAssumption == Nobody \notin Procs
ASSUME SizeAssumption == Sizes \subseteq Nat \ {0, 1} /\ Sizes # {} /\ IsFiniteSet(Sizes)
ASSUME VolumeBounds   == MaxVolumes \in Nat /\ UsedSlots \subseteq Nat
                         /\ MaxFaults \in Nat /\ MaxDamage \in Nat

VARIABLES
  device,  \* the path is a block device
  cache,   \* what a read returns
  after,   \* what may be there once power has been lost
  holder,  \* the process that has the writer lock
  proc,    \* the processes
  faults,  \* how many there have been
  vols,    \* the size of each volume ever formatted
  \* History:
  floor,   \* the newest volume that format() has completed
  good,    \* that volume until the next format begins, otherwise 0
  rooted,  \* whether its format saw to it that the directory entry is durable
  ledger,  \* for each volume, the slots with a partition flushed to the medium
  spent,   \* volumes since cut short, or used over by another
  damaged  \* header copies of the volume good that have decayed

medium  == <<cache, after>>
history == <<floor, good, rooted, ledger, spent, damaged>>
vars    == <<device, medium, holder, proc, vols, faults, history>>

Copies == {1, 2}
Most   == CHOOSE n \in Sizes : \A m \in Sizes : m <= n
Ids    == 1 .. MaxVolumes

\* What the medium consists of: the directory entry, the size of the file, the
\* header copies, and the partitions with the volume each is of.
Entry   == <<"entry", 0>>
Size    == <<"size", 0>>
Copy(k) == <<"copy", k>>
Part(s) == <<"slot", s>>

Contents == {Size} \cup {Copy(k) : k \in Copies} \cup {Part(s) : s \in UsedSlots}
Items    == {Entry} \cup Contents

Idle == [cmd   |-> "none",
         at    |-> "idle",  \* the next step
         size  |-> 0,       \* size_ of its FileStorage
         vol   |-> 0,       \* the volume it formats or has open
         done  |-> 0,       \* halves of the header copies written
         first |-> 0,       \* the volume of the first copy read, if it decodes
         seen  |-> {},      \* the slots of its catalogue
         slot  |-> 0,       \* the slot to read or to sync next
         floor |-> 0,       \* history: floor when the storage was opened,
         due   |-> {}]      \* and the slots its catalogue lacks of the ledger

-----------------------------------------------------------------------------
(* The medium *)

Put(changes) ==
  /\ cache' = [i \in Items |-> IF i \in DOMAIN changes THEN changes[i] ELSE cache[i]]
  /\ after' = [i \in Items |-> IF i \in DOMAIN changes THEN after[i] \cup {changes[i]} ELSE after[i]]

One(i, v) == [x \in {i} |-> v]

\* fdatasync of the file, and fsync of its directory.
SyncData  == cache' = cache /\ after' = [i \in Items |-> IF i = Entry THEN after[i] ELSE {cache[i]}]
SyncEntry == cache' = cache /\ after' = [after EXCEPT ![Entry] = {cache[Entry]}]

-----------------------------------------------------------------------------
(* FileStorage *)

Goes(p, at) == proc' = [proc EXCEPT ![p].at = at]

\* The descriptor is closed, and the lock goes with it.
Release(p) ==
  /\ proc' = [proc EXCEPT ![p] = Idle]
  /\ holder' = IF holder = p THEN Nobody ELSE holder

\* A process is done with the path because a call has failed or its store is
\* closed; otherwise it ends in the middle of a create(), format() or rotation,
\* by an I/O error or killed.
Returns(p) ==
  \/ proc[p].at \in {"first", "second", "slots", "refused", "open"}
  \/ proc[p].at = "truncate" /\ device
  \/ proc[p].at = "format" /\ proc[p].size < 2

Exit(p) ==
  /\ proc[p].at # "idle"
  /\ \/ Returns(p) /\ UNCHANGED faults
     \/ ~ Returns(p) /\ faults < MaxFaults /\ faults' = faults + 1
  /\ Release(p)
  /\ UNCHANGED <<device, medium, vols, history>>

\* determine_size: the size is read once, when the descriptor is ready.
DetermineSize(q) == [q EXCEPT !.size = cache[Size],
                              !.at = IF q.cmd = "device" THEN "format" ELSE "first"]

\* Mutant: the lock is not exclusive.
LockWriter_Shared(p) == holder' = p

\* flock, at once or not at all.
LockWriter(p) == holder = Nobody /\ holder' = p

\* open_existing().  A writer opens and locks at one go, as nothing is done
\* between the two; a reader takes no lock.  "device" is tfdb_format in place,
\* which is meant for a block device but does as well on a file.
OpenExisting(p, cmd) ==
  /\ proc[p].at = "idle" /\ cache[Entry] = 1
  /\ cmd = "device" => Len(vols) < MaxVolumes
  /\ IF cmd = "reader" THEN UNCHANGED holder ELSE LockWriter(p)
  /\ proc' = [proc EXCEPT ![p] = DetermineSize([Idle EXCEPT !.cmd = cmd,
                                   !.floor = IF cmd = "device" THEN 0 ELSE floor])]
  /\ UNCHANGED <<device, medium, vols, history>>

\* create() makes the file, and without overwrite insists on it.
CreateFile(p, cmd) ==
  /\ proc[p].at = "idle" /\ Len(vols) < MaxVolumes
  /\ cmd = "create" => cache[Entry] = 0
  /\ Put(One(Entry, 1))
  /\ proc' = [proc EXCEPT ![p] = [Idle EXCEPT !.cmd = cmd, !.at = "lock"]]
  /\ UNCHANGED <<device, holder, vols, history>>

\* The size create() is to make; ftruncate is for overwrite only.
Proceed(p) ==
  \E n \in Sizes :
    proc' = [proc EXCEPT ![p].size = n,
               ![p].at = IF proc[p].cmd = "create" THEN "allocate" ELSE "truncate"]

\* create() goes on with the size it is to make, or gives up.
LockFile(p) ==
  /\ proc[p].at = "lock"
  /\ \/ LockWriter(p) /\ Proceed(p)
     \/ holder # Nobody /\ Release(p)
  /\ UNCHANGED <<device, medium, vols, history>>

\* Volumes lose partitions, rightly.
Forfeit(those) ==
  /\ spent' = spent \cup those
  /\ ledger' = [v \in Ids |-> IF v \in those THEN {} ELSE ledger[v]]

\* The volume last completed begins to be replaced.
Begun == good' = 0 /\ rooted' = FALSE /\ damaged' = {} /\ UNCHANGED floor

\* Partitions beyond n are gone, and volumes that reached beyond it with them.
CutShort(n) ==
  /\ Begun
  /\ Forfeit({v \in 1 .. Len(vols) : vols[v] > n})

\* Mutant: the file is emptied first.
Truncate_ToZero(p) ==
  /\ proc[p].at = "truncate" /\ ~ device
  /\ Put([i \in Contents |-> IF i = Size THEN proc[p].size ELSE 0])
  /\ CutShort(proc[p].size)
  /\ proc' = [proc EXCEPT ![p].cmd = "create", ![p].at = "allocate"]
  /\ UNCHANGED <<device, holder, vols>>

\* ftruncate to the new size; what lies below it stays.  It fails on a device.
\* From here on create() does the same with overwrite as without.
Truncate(p) ==
  /\ proc[p].at = "truncate" /\ ~ device
  /\ LET n == proc[p].size IN
     /\ Put([i \in {Size} \cup {Part(s) : s \in {t \in UsedSlots : t >= n}} |->
               IF i = Size THEN n ELSE 0])
     /\ CutShort(n)
  /\ proc' = [proc EXCEPT ![p].cmd = "create", ![p].at = "allocate"]
  /\ UNCHANGED <<device, holder, vols>>

\* posix_fallocate never makes a file smaller.
Allocate(p) ==
  /\ proc[p].at = "allocate"
  /\ Put(One(Size, IF cache[Size] < proc[p].size THEN proc[p].size ELSE cache[Size]))
  /\ Goes(p, "sync")
  /\ UNCHANGED <<device, holder, vols, history>>

SyncFile(p) ==
  /\ proc[p].at = "sync"
  /\ SyncData
  /\ Goes(p, "directory")
  /\ UNCHANGED <<device, holder, vols, history>>

\* Mutant: the directory is not synced.
SyncParentDirectory_Skipped(p) ==
  /\ proc[p].at = "directory"
  /\ Goes(p, "format")
  /\ UNCHANGED <<device, medium, holder, vols, history>>

SyncParentDirectory(p) ==
  /\ proc[p].at = "directory"
  /\ SyncEntry
  /\ Goes(p, "format")
  /\ UNCHANGED <<device, holder, vols, history>>

-----------------------------------------------------------------------------
(* RingStore::format *)

\* A file too small for two partitions is refused.
Format(p) ==
  /\ proc[p].at = "format" /\ Len(vols) < MaxVolumes
  /\ proc[p].size >= 2
  /\ vols' = Append(vols, proc[p].size)
  /\ proc' = [proc EXCEPT ![p].vol = Len(vols) + 1, ![p].size = 0, ![p].at = "write"]
  /\ UNCHANGED <<device, medium, holder, history>>

\* write_exact() of one copy and then of the other, each in two transfers.
WriteHeaderCopies(p) ==
  /\ proc[p].at = "write"
  /\ LET d == proc[p].done
         k == (d \div 2) + 1
         whole == d % 2 = 1
     IN /\ Put(One(Copy(k), IF whole THEN proc[p].vol ELSE 0))
        /\ proc' = [proc EXCEPT ![p].done = (d + 1) % 4, ![p].at = IF d = 3 THEN "flush" ELSE @]
  /\ Begun
  /\ UNCHANGED <<device, holder, vols, ledger, spent>>

\* create() has synced the directory; a format in place leaves the entry to
\* whoever made it.
Completed(p) ==
  /\ floor' = proc[p].vol /\ good' = proc[p].vol
  /\ rooted' = (proc[p].cmd # "device" \/ after[Entry] = {1})
  /\ damaged' = {k \in Copies : cache[Copy(k)] # proc[p].vol}

\* Mutant: the flush comes before the write of the second copy.
FlushVolume_Early(p) ==
  /\ proc[p].at = "flush"
  /\ cache' = cache
  /\ after' = [i \in Items |-> IF i \in {Entry, Copy(2)} THEN after[i] ELSE {cache[i]}]
  /\ Completed(p)
  /\ Release(p)
  /\ UNCHANGED <<device, vols, ledger, spent>>

\* format() succeeds once both copies are flushed, and tfdb_format exits.
FlushVolume(p) ==
  /\ proc[p].at = "flush"
  /\ SyncData
  /\ Completed(p)
  /\ Release(p)
  /\ UNCHANGED <<device, vols, ledger, spent>>

-----------------------------------------------------------------------------
(* RingStore::open *)

ReadFirstCopy(p) ==
  /\ proc[p].at = "first"
  /\ proc' = [proc EXCEPT ![p].first = cache[Copy(1)], ![p].at = "second"]
  /\ UNCHANGED <<device, medium, holder, vols, history>>

\* Copies that disagree are refused; of one valid copy the other is forgiven.
Chosen(a, b) ==
  IF a # 0 /\ b # 0 THEN IF a = b THEN a ELSE 0
  ELSE IF a # 0 THEN a ELSE b

Refuse(p) == proc' = [proc EXCEPT ![p] = [Idle EXCEPT !.cmd = proc[p].cmd, !.at = "refused",
                                                      !.floor = proc[p].floor]]

\* The copies are compared, and the geometry is held against the backend.
ReadSecondCopy(p) ==
  /\ proc[p].at = "second"
  /\ LET v == Chosen(proc[p].first, cache[Copy(2)]) IN
     \/ (v = 0 \/ (v # 0 /\ vols[v] > proc[p].size)) /\ Refuse(p)
     \/ /\ v # 0 /\ vols[v] <= proc[p].size
        /\ proc' = [proc EXCEPT ![p].at = "slots", ![p].first = 0, ![p].size = 0,
                                ![p].vol = v, ![p].due = ledger[v]]
  /\ UNCHANGED <<device, medium, holder, vols, history>>

\* Partitions of other volumes are passed over.  A slot the file no longer has
\* cannot be read.  A step reads on to the next slot that is ever in use.
ReadSlot(p) ==
  /\ proc[p].at = "slots"
  /\ LET v    == proc[p].vol
         used == {s \in UsedSlots : proc[p].slot <= s /\ s < vols[v]}
         last == IF used = {} THEN vols[v] - 1 ELSE CHOOSE s \in used : \A t \in used : s <= t
         own  == {s \in used \cap {last} : cache[Part(s)] = v}
         ends == last + 1 = vols[v]
     IN \/ last >= cache[Size] /\ Refuse(p)
        \/ /\ last < cache[Size]
           /\ proc' = [proc EXCEPT ![p].seen = IF proc[p].cmd = "writer" THEN @ \cup own ELSE @,
                                   ![p].due = @ \ own,
                                   ![p].slot = IF ends THEN 0 ELSE last + 1,
                                   ![p].at = IF ends THEN "open" ELSE @]
  /\ UNCHANGED <<device, medium, holder, vols, history>>

CreatePartition(p, s) ==
  /\ proc[p].at = "open" /\ proc[p].cmd = "writer"
  /\ s < vols[proc[p].vol]
  /\ Put(One(Part(s), proc[p].vol))
  /\ proc' = [proc EXCEPT ![p].slot = s, ![p].at = "created"]
  /\ Forfeit((1 .. Len(vols)) \ {proc[p].vol})
  /\ UNCHANGED <<device, holder, vols, floor, good, rooted, damaged>>

SyncPartition(p) ==
  /\ proc[p].at = "created"
  /\ SyncData
  /\ LET v == proc[p].vol IN
     /\ proc' = [proc EXCEPT ![p].at = "open", ![p].slot = 0,
                             ![p].seen = @ \cup {proc[p].slot}]
     /\ ledger' = IF v \in spent THEN ledger
                  ELSE [ledger EXCEPT ![v] = @ \cup {proc[p].slot}]
  /\ UNCHANGED <<device, holder, vols, floor, good, rooted, spent, damaged>>

-----------------------------------------------------------------------------
(* Faults *)

\* Power is lost.  A file whose entry is lost is lost with it, and a file cut
\* short has nothing beyond its end.
PowerCut ==
  /\ faults < MaxFaults /\ faults' = faults + 1
  /\ LET unsettled == {i \in Items : Cardinality(after[i]) > 1} IN
     \E lost \in [unsettled -> UNION {after[i] : i \in unsettled}] :
       /\ \A i \in unsettled : lost[i] \in after[i]
       /\ LET left == [i \in Items |-> IF i \in unsettled THEN lost[i] ELSE cache[i]] IN
          cache' = [i \in Items |->
                      IF left[Entry] = 0 \/ (i[1] = "slot" /\ i[2] >= left[Size]) THEN 0 ELSE left[i]]
  /\ after' = [i \in Items |-> {cache'[i]}]
  /\ proc' = [p \in Procs |-> Idle]
  /\ holder' = Nobody
  /\ IF cache'[Entry] = 0 /\ ~ rooted THEN Begun ELSE UNCHANGED <<floor, good, rooted, damaged>>
  /\ UNCHANGED <<device, vols, ledger, spent>>

\* A header copy becomes unreadable; only the next reader of it is to notice.
Decay(k) ==
  /\ \E p \in Procs : proc[p].at = IF k = 1 THEN "first" ELSE "second"
  /\ Cardinality(damaged \cup {k}) <= MaxDamage
  /\ cache[Copy(k)] # 0
  /\ cache' = [cache EXCEPT ![Copy(k)] = 0]
  /\ after' = [after EXCEPT ![Copy(k)] = {0}]
  /\ damaged' = IF good = 0 THEN {} ELSE damaged \cup {k}
  /\ UNCHANGED <<device, holder, proc, vols, floor, good, rooted, ledger, spent>>

Init ==
  /\ device \in BOOLEAN
  /\ cache = [i \in Items |-> IF i = Entry /\ device THEN 1
                              ELSE IF i = Size /\ device THEN Most ELSE 0]
  /\ after = [i \in Items |-> {cache[i]}]
  /\ holder = Nobody /\ proc = [p \in Procs |-> Idle]
  /\ vols = <<>> /\ faults = 0
  /\ floor = 0 /\ good = 0 /\ rooted = FALSE /\ ledger = [v \in Ids |-> {}] /\ spent = {} /\ damaged = {}

Call(p) ==
  \/ \E cmd \in {"reader", "writer", "device"} : OpenExisting(p, cmd)
  \/ \E cmd \in {"create", "overwrite"} : CreateFile(p, cmd)
  \/ LockFile(p) \/ Truncate(p) \/ Allocate(p) \/ SyncFile(p) \/ SyncParentDirectory(p)
  \/ Format(p) \/ WriteHeaderCopies(p) \/ FlushVolume(p)
  \/ ReadFirstCopy(p) \/ ReadSecondCopy(p) \/ ReadSlot(p)
  \/ \E s \in UsedSlots : CreatePartition(p, s)
  \/ SyncPartition(p)

Next ==
  \/ (\E p \in Procs : Call(p)) /\ UNCHANGED faults
  \/ \E p \in Procs : Exit(p)
  \/ PowerCut
  \/ (\E k \in Copies : Decay(k)) /\ UNCHANGED faults

Spec == Init /\ [][Next]_vars

-----------------------------------------------------------------------------
(* Properties *)

(***************************************************************************)
(* StoreStands.  While a process has a volume open for writing, the medium *)
(* holds that volume: no header copy names another, the file reaches to    *)
(* its end, and its partitions are in place.  No tfdb_format and no other  *)
(* writer gets past lock_writer() to change them.                          *)
(***************************************************************************)
StoreStands ==
  \A p \in Procs : (proc[p].cmd = "writer" /\ proc[p].at \in {"open", "created"}) =>
    /\ \A k \in Copies : cache[Copy(k)] \in {0, proc[p].vol}
    /\ vols[proc[p].vol] <= cache[Size]
    /\ \A s \in proc[p].seen : cache[Part(s)] = proc[p].vol

(***************************************************************************)
(* OpensAsFormatted.  Once format() has returned success, the file is      *)
(* there and every open() finds that volume, until the next format begins: *)
(* through process and power failures, and although one copy of the header *)
(* is lost.  (Begun: only a file formatted in place whose directory entry  *)
(* nobody had synced may still vanish.)                                    *)
(***************************************************************************)
OpensAsFormatted ==
  good # 0 =>
    /\ cache[Entry] = 1
    /\ \A p \in Procs : (proc[p].floor = good /\ damaged # Copies) =>
         /\ proc[p].at # "refused"
         /\ proc[p].at = "open" => proc[p].vol = good

(***************************************************************************)
(* NeverOlder.  No open() that begins after a format() has returned        *)
(* success finds an older volume, ever: also when later formats were begun *)
(* and cut off at any step, and power was lost.  What they leave of the    *)
(* header copies is of the completed volume or of later ones.              *)
(***************************************************************************)
NeverOlder ==
  \A p \in Procs : proc[p].at = "open" => proc[p].vol >= proc[p].floor

(***************************************************************************)
(* VolumeIntact.  The volume that open() finds has every partition that    *)
(* was flushed under its id, unless a smaller size or the use of another   *)
(* volume took it: a format cut off before its header copies were written  *)
(* leaves the old volume whole, or refused.                                *)
(***************************************************************************)
VolumeIntact ==
  \A p \in Procs :
    (proc[p].at = "open" /\ proc[p].vol \notin spent) => proc[p].due = {}

=============================================================================
