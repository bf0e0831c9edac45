----------------------------- MODULE BlobStore -----------------------------
(***************************************************************************)
(* BlobStore of opentpu/serve/store.py: the blobs of saved contexts, by    *)
(* key, in three tiers.                                                    *)
(*                                                                         *)
(*   ram       blobs in host memory, least recently used first             *)
(*   spilling  blobs evicted from memory, waiting for the writer thread    *)
(*   disk      the index of the files, least recently used first           *)
(*                                                                         *)
(* Every method runs under one lock, so it is one action here.  The writer *)
(* thread takes the lock twice for an item of its queue and writes the     *)
(* file between the two without it: three steps, and any method of any     *)
(* thread may run between them.                                            *)
(*                                                                         *)
(* An LRU order (an OrderedDict) is the function that gives each key of    *)
(* the tier the set of keys used less recently than it.                    *)
(***************************************************************************)
EXTENDS Integers, Sequences, FiniteSets

CONSTANTS
  Keys,       \* blob keys
  Contents,   \* what a blob may hold
  NoBlob,     \* "no blob under this key"
  NoKey,      \* the writer has no item
  Bytes,      \* Bytes[S]: the total length of the blobs of the keys in S
  RamBytes,   \* the budget of ram
  DiskBytes,  \* the budget of disk; 0: no directory, no writer thread
  Durable,    \* keys put with durable=True (the entries' records)
  PinSets,    \* the sets of keys pinned and unpinned at once (an entry's blobs)
  RePut,      \* keys their callers put again while the store still has them
  IOFails,    \* TRUE: file operations may raise OSError
  MaxQueue,   \* bound: callers stop adding work when the queue is this long
  MaxPins     \* bound on the pin count of a key

ASSUME KeysAssumption ==
  /\ IsFiniteSet(Keys) /\ NoKey \notin Keys
  /\ NoBlob \notin Contents
  /\ Durable \subseteq Keys /\ RePut \subseteq Keys
  /\ PinSets \subseteq SUBSET Keys
  /\ IOFails \in BOOLEAN

(* A blob's length is decided by its key; lengths add up.                  *)
ASSUME BytesAssumption ==
  /\ Bytes \in [SUBSET Keys -> Nat]
  /\ Bytes[{}] = 0
  /\ \A S, T \in SUBSET Keys :
       S \cap T = {} => Bytes[S \cup T] = Bytes[S] + Bytes[T]

ASSUME BoundsAssumption ==
  RamBytes \in Nat /\ DiskBytes \in Nat /\ MaxQueue \in Nat /\ MaxPins \in Nat

VARIABLES
  ram, ramOlder, ram_used,
  spilling, spill_used,
  disk, diskOlder, disk_used,
  files,      \* the directory: key -> the contents of its .bin file
  pins,       \* key -> pin count
  queue,      \* the writer's queue (_q)
  writer,     \* the item in the writer's hand
  flushing,   \* a caller is inside _q.join()
  owed,       \* keys that caller's persist() wants on disk
  told,       \* history: key -> what its callers know of it ("kept" since a put,
              \* "dropped" since on_drop told of it, else "none")
  leaked      \* history: keys whose file could not be unlinked

tiers  == <<ram, ramOlder, ram_used, spilling, spill_used,
            disk, diskOlder, disk_used, files>>
worker == <<queue, writer>>
waits  == <<flushing, owed>>
vars   == <<tiers, worker, waits, pins, told, leaked>>

----------------------------------------------------------------------------
HasDisk    == DiskBytes > 0
Slot       == Contents \cup {NoBlob}
Item       == [how : {"copy", "spill"}, key : Keys]
NoItem     == [pc |-> "idle", how |-> "spill", key |-> NoKey, data |-> NoBlob]

InRam      == {k \in Keys : ram[k] # NoBlob}
InSpilling == {k \in Keys : spilling[k] # NoBlob}
OnDisk     == {k \in Keys : files[k] # NoBlob}
Pinned     == {k \in Keys : pins[k] > 0}
Held       == InRam \cup InSpilling \cup disk          \* __contains__
UnfinishedInQueue == Len(queue)          \* (mutant: not the item in the writer's hand)
Unfinished == Len(queue) + (IF writer.pc = "idle" THEN 0 ELSE 1)

(* An order after its key k became the most recently used (move_to_end, or *)
(* a new key), and after the keys of S left it.                            *)
Touched(order, S, k) ==
  [j \in Keys |-> IF j = k THEN S \ {k} ELSE order[j] \ {k}]
Without(order, S) ==
  [j \in Keys |-> IF j \in S THEN {} ELSE order[j] \ S]

FreeIgnoringPins(S, p) == S                \* (mutant)

(* The keys of S an eviction may take, with the pins p.                    *)
Free(S, p) == {k \in S : p[k] = 0}

(* Mutants: one blob less than the budget leaves; only the first leaves.   *)
EvictedAtLimit(S, order, used, limit) ==
  {k \in S : used - Bytes[order[k] \cap S] >= limit}
EvictedOnce(S, order, used, limit) ==
  {k \in S : used > limit /\ order[k] \cap S = {}}

(* The loop of _evict_ram and _evict_disk: the keys of S leave, least      *)
(* recently used first, while more than `limit` is used.                   *)
Evicted(S, order, used, limit) ==
  {k \in S : used - Bytes[order[k] \cap S] > limit}

(* The sequences that list S in the given order: there is one.             *)
InOrder(S, order) ==
  {s \in [1..Cardinality(S) -> S] :
     /\ \A k \in S : \E i \in 1..Cardinality(S) : s[i] = k
     /\ \A i, j \in 1..Cardinality(S) : i < j => s[i] \in order[s[j]]}

(* After on_drop heard of the keys of S.                                   *)
Drop(t, S) == [k \in Keys |-> IF k \in S THEN "dropped" ELSE t[k]]

Items(h, s) == [i \in DOMAIN s |-> [how |-> h, key |-> s[i]]]

(* _unlink of the files of S in the directory f: an OSError is swallowed,  *)
(* and the file stays.                                                     *)
Unlink(S, f) ==
  \E stuck \in (IF IOFails THEN SUBSET S ELSE {{}}) :
    /\ files' = [k \in Keys |-> IF k \in S \ stuck THEN NoBlob ELSE f[k]]
    /\ leaked' = leaked \cup stuck

----------------------------------------------------------------------------
(* _evict_ram, from the memory tier (r, order, used) a method has built,   *)
(* the queue q and the pins p.  Unpinned blobs leave in LRU order: the     *)
(* copy of a blob on disk is just dropped, another is queued for the       *)
(* writer, or lost where the directory cannot take it.                     *)
EvictRam(r, order, used, q, p) ==
  LET here  == {k \in Keys : r[k] # NoBlob}
      out   == Evicted(Free(here, p), order, used, RamBytes)
      spill == {k \in out \ disk : HasDisk /\ Bytes[{k}] <= DiskBytes}
  IN /\ ram' = [k \in Keys |-> IF k \in out THEN NoBlob ELSE r[k]]
     /\ ramOlder' = Without(order, out)
     /\ ram_used' = used - Bytes[out]
     /\ spilling' = [k \in Keys |-> IF k \in spill THEN r[k] ELSE spilling[k]]
     /\ spill_used' = spill_used + Bytes[spill]
     /\ \E s \in InOrder(spill, order) : queue' = q \o Items("spill", s)

(* What that eviction reports to on_drop.                                  *)
LostFromRam(r, order, used, p) ==
  LET here == {k \in Keys : r[k] # NoBlob}
      out  == Evicted(Free(here, p), order, used, RamBytes)
  IN {k \in out \ disk : ~ (HasDisk /\ Bytes[{k}] <= DiskBytes)}

(* _evict_disk (and _drop_disk), from the disk tier (d, order, used), the  *)
(* directory f and what callers know t, after ram', spilling' and pins':   *)
(* the files of unpinned blobs that are not in memory go, least recently   *)
(* used first.                                                             *)
EvictDisk(d, order, used, f, t) ==
  LET away == {k \in d : ram'[k] = NoBlob}
      out  == Evicted(Free(away, pins'), order, used, DiskBytes)
      lost == {k \in out : spilling'[k] = NoBlob}
  IN /\ disk' = d \ out
     /\ diskOlder' = Without(order, out)
     /\ disk_used' = used - Bytes[out]
     /\ Unlink(out, f)
     /\ told' = Drop(t, lost)

----------------------------------------------------------------------------
(* put(key, data, durable): into memory as the most recently used; a       *)
(* durable blob with no file is queued for a copy.                         *)
Put(k, c) ==
  LET before == ram_used - (IF k \in InRam THEN Bytes[{k}] ELSE 0)
      r      == [ram EXCEPT ![k] = c]
      order  == Touched(ramOlder, InRam, k)
      q      == IF k \in Durable /\ HasDisk /\ k \notin disk
                THEN Append(queue, [how |-> "copy", key |-> k]) ELSE queue
  IN /\ Len(queue) < MaxQueue
     /\ k \in Held => k \in RePut
     /\ EvictRam(r, order, before + Bytes[{k}], q, pins)
     /\ told' = Drop([told EXCEPT ![k] = "kept"],
                     LostFromRam(r, order, before + Bytes[{k}], pins))
     /\ owed' = owed \ {k}
     /\ UNCHANGED <<disk, diskOlder, disk_used, files, writer, pins, flushing, leaked>>

(* get(key) of a blob in memory: it becomes the most recently used.  (One  *)
(* being written is read from memory, a missing one not at all: neither    *)
(* changes anything.)                                                      *)
GetRam(k) ==
  /\ k \in InRam
  /\ ramOlder' = Touched(ramOlder, InRam, k)
  /\ UNCHANGED <<ram, ram_used, spilling, spill_used, disk, diskOlder, disk_used,
                 files, worker, waits, pins, told, leaked>>

(* get(key) of a blob only on disk: back into memory, its file stays.      *)
GetDisk(k) ==
  LET r     == [ram EXCEPT ![k] = files[k]]
      order == Touched(ramOlder, InRam, k)
      used  == ram_used + Bytes[{k}]
  IN /\ Len(queue) < MaxQueue
     /\ k \in disk \ (InRam \cup InSpilling) /\ files[k] # NoBlob
     /\ diskOlder' = Touched(diskOlder, disk, k)
     /\ EvictRam(r, order, used, queue, pins)
     /\ told' = Drop(told, LostFromRam(r, order, used, pins))
     /\ UNCHANGED <<disk, disk_used, files, writer, waits, pins, leaked>>

(* get(key) whose file does not read (OSError): the key leaves the disk    *)
(* tier, and on_drop hears of it.                                          *)
GetFails(k) ==
  /\ IOFails \/ files[k] = NoBlob
  /\ k \in disk \ (InRam \cup InSpilling)
  /\ disk' = disk \ {k}
  /\ diskOlder' = Without(diskOlder, {k})
  /\ disk_used' = disk_used - Bytes[{k}]
  /\ Unlink({k}, files)
  /\ told' = Drop(told, {k})
  /\ UNCHANGED <<ram, ramOlder, ram_used, spilling, spill_used, worker, waits, pins>>

Pin(S) ==
  /\ \A k \in S : pins[k] < MaxPins
  /\ pins' = [k \in Keys |-> IF k \in S THEN pins[k] + 1 ELSE pins[k]]
  /\ UNCHANGED <<tiers, worker, waits, told, leaked>>

(* unpin(keys): what the pins alone kept is evicted from both tiers.       *)
UnpinnedBelowZero(S) == [k \in Keys |-> IF k \in S THEN pins[k] - 1 ELSE pins[k]]  \* (mutant)
UnpinnedBy(S) == [k \in Keys |-> IF k \in S /\ pins[k] > 0 THEN pins[k] - 1 ELSE pins[k]]

Unpin(S) ==
  LET p == UnpinnedBy(S)
  IN /\ Len(queue) < MaxQueue
     /\ S \cap Pinned # {}
     /\ pins' = p
     /\ EvictRam(ram, ramOlder, ram_used, queue, p)
     /\ EvictDisk(disk, diskOlder, disk_used, files,
                  Drop(told, LostFromRam(ram, ramOlder, ram_used, p)))
     /\ UNCHANGED <<writer, waits>>

(* discard(key): the blob leaves every tier; on_drop is not called.        *)
Discard(k) ==
  /\ k \in Held
  /\ ram' = [ram EXCEPT ![k] = NoBlob]
  /\ ramOlder' = Without(ramOlder, {k})
  /\ ram_used' = ram_used - Bytes[InRam \cap {k}]
  /\ spilling' = [spilling EXCEPT ![k] = NoBlob]
  /\ spill_used' = spill_used - Bytes[InSpilling \cap {k}]
  /\ disk' = disk \ {k}
  /\ diskOlder' = Without(diskOlder, {k})
  /\ disk_used' = disk_used - Bytes[disk \cap {k}]
  /\ Unlink(disk \cap {k}, files)
  /\ told' = [told EXCEPT ![k] = "none"]
  /\ owed' = owed \ {k}
  /\ UNCHANGED <<queue, writer, flushing, pins>>

(* persist(): a copy of every blob of memory that has no file, least       *)
(* recently used first; then flush()'s wait for the queue.                 *)
Persist ==
  LET missing == InRam \ disk
  IN /\ HasDisk /\ ~ flushing /\ Len(queue) < MaxQueue
     /\ \E s \in InOrder(missing, ramOlder) : queue' = queue \o Items("copy", s)
     /\ flushing' = TRUE
     /\ owed' = missing
     /\ UNCHANGED <<tiers, writer, pins, told, leaked>>

(* flush(), and the return of its wait.                                    *)
Flush ==
  /\ HasDisk /\ ~ flushing
  /\ flushing' = TRUE
  /\ UNCHANGED <<tiers, worker, owed, pins, told, leaked>>

FlushReturns ==
  /\ flushing /\ Unfinished = 0
  /\ flushing' = FALSE
  /\ owed' = {}
  /\ UNCHANGED <<tiers, worker, pins, told, leaked>>

----------------------------------------------------------------------------
(* Where the blob of an item is.                                           *)
SourceInRam(item) == ram[item.key]         \* (mutant)
Source(item) == IF item.how = "copy" THEN ram[item.key] ELSE spilling[item.key]

(* Mutant: the thread ends at an item with nothing to do.                  *)
WriterEnds ==
  /\ writer.pc = "idle" /\ queue # <<>>
  /\ queue' = Tail(queue)
  /\ LET item == Head(queue)
         data == Source(item)
     IN writer' = [pc |-> IF data = NoBlob THEN "ended" ELSE "write",
                   how |-> item.how, key |-> item.key, data |-> data]
  /\ UNCHANGED <<tiers, waits, pins, told, leaked>>

(* The writer takes an item and, under the lock, its blob: nothing to do   *)
(* where the tier it should be in does not have it any more.               *)
WriterTakes ==
  /\ writer.pc = "idle" /\ queue # <<>>
  /\ queue' = Tail(queue)
  /\ LET item == Head(queue)
         data == Source(item)
     IN writer' = IF data = NoBlob THEN NoItem
                  ELSE [pc |-> "write", how |-> item.how, key |-> item.key, data |-> data]
  /\ UNCHANGED <<tiers, waits, pins, told, leaked>>

(* A copy of what has a file by now is not made.                           *)
WriterSkips ==
  /\ writer.pc = "write" /\ writer.how = "copy" /\ writer.key \in disk
  /\ writer' = NoItem
  /\ UNCHANGED <<tiers, queue, waits, pins, told, leaked>>

MayWrite == writer.pc = "write" /\ ~ (writer.how = "copy" /\ writer.key \in disk)

(* The file is written beside and renamed into place, without the lock.    *)
WriterWrites ==
  /\ MayWrite
  /\ files' = [files EXCEPT ![writer.key] = writer.data]
  /\ writer' = [writer EXCEPT !.pc = "record"]
  /\ UNCHANGED <<ram, ramOlder, ram_used, spilling, spill_used, disk, diskOlder,
                 disk_used, queue, waits, pins, told, leaked>>

(* Mutant: the failure is reported but the blob stays in spilling.         *)
WriterFailsKeeping ==
  LET k == writer.key
  IN /\ IOFails /\ MayWrite
     /\ told' = Drop(told, InSpilling \cap {k})
     /\ owed' = owed \ {k}
     /\ writer' = NoItem
     /\ UNCHANGED <<tiers, queue, flushing, pins, leaked>>

(* The write raises OSError: a blob of this key being spilled is lost.     *)
WriterFails ==
  LET k == writer.key
  IN /\ IOFails /\ MayWrite
     /\ spilling' = [spilling EXCEPT ![k] = NoBlob]
     /\ spill_used' = spill_used - Bytes[InSpilling \cap {k}]
     /\ told' = Drop(told, InSpilling \cap {k})
     /\ owed' = owed \ {k}
     /\ writer' = NoItem
     /\ UNCHANGED <<ram, ramOlder, ram_used, disk, diskOlder, disk_used, files,
                    queue, flushing, pins, leaked>>

(* The file's key enters the index, in the position of a new key.          *)
Indexed(k) == IF k \in disk THEN diskOlder ELSE Touched(diskOlder, disk, k)

(* The file of a copy: indexed while memory still has the blob, unlinked   *)
(* where nothing wants it.                                                 *)
RecordCopy(k) ==
  /\ UNCHANGED <<ram, spilling, spill_used, pins>>
  /\ CASE k \in InRam \ disk ->
            EvictDisk(disk \cup {k}, Indexed(k), disk_used + Bytes[{k}], files, told)
       [] k \notin InRam \cup disk ->
            /\ Unlink({k}, files)
            /\ UNCHANGED <<disk, diskOlder, disk_used, told>>
       [] OTHER -> UNCHANGED <<disk, diskOlder, disk_used, files, told, leaked>>

(* Mutants: no look at whether the blob was discarded meanwhile; its file  *)
(* left there.                                                             *)
RecordSpillUnchecked(k) ==
  /\ UNCHANGED <<ram, pins>>
  /\ spilling' = [spilling EXCEPT ![k] = NoBlob]
  /\ spill_used' = spill_used - Bytes[{k}]
  /\ EvictDisk(disk \cup {k}, Indexed(k), disk_used + Bytes[{k}], files, told)
RecordSpillLeaving(k) ==
  /\ UNCHANGED <<ram, pins>>
  /\ IF k \in InSpilling
     THEN RecordSpillUnchecked(k)
     ELSE UNCHANGED <<spilling, spill_used, disk, diskOlder, disk_used, files, told, leaked>>

(* The file of a spilled blob: the blob moves from spilling to disk, or    *)
(* was discarded meanwhile and its file goes.                              *)
RecordSpill(k) ==
  /\ UNCHANGED <<ram, pins>>
  /\ IF k \in InSpilling
     THEN /\ spilling' = [spilling EXCEPT ![k] = NoBlob]
          /\ spill_used' = spill_used - Bytes[{k}]
          /\ EvictDisk(disk \cup {k}, Indexed(k), disk_used + Bytes[{k}], files, told)
     ELSE /\ Unlink({k}, files)
          /\ UNCHANGED <<spilling, spill_used, disk, diskOlder, disk_used, told>>

WriterRecords ==
  /\ writer.pc = "record"
  /\ IF writer.how = "copy" THEN RecordCopy(writer.key) ELSE RecordSpill(writer.key)
  /\ writer' = NoItem
  /\ UNCHANGED <<ramOlder, ram_used, queue, waits>>

----------------------------------------------------------------------------
(* The process ends at any moment and a server starts on the directory:    *)
(* its files are the disk tier, in the order of their times (any order     *)
(* here), cut to the budget before anyone listens to on_drop.              *)
IsOrder(o, S) ==
  /\ \A j, k \in S : j # k => (j \in o[k] <=> k \notin o[j])
  /\ \A T \in SUBSET S : T # {} => \E k \in T : o[k] \cap T = {}

Orders == {o \in [Keys -> SUBSET Keys] : IsOrder(o, Keys)}

Restart ==
  /\ HasDisk
  /\ ram' = [k \in Keys |-> NoBlob]
  /\ ramOlder' = [k \in Keys |-> {}]
  /\ ram_used' = 0
  /\ spilling' = [k \in Keys |-> NoBlob]
  /\ spill_used' = 0
  /\ pins' = [k \in Keys |-> 0]
  /\ queue' = <<>> /\ writer' = NoItem
  /\ flushing' = FALSE /\ owed' = {}
  /\ \E o \in Orders :
       EvictDisk(OnDisk, [k \in Keys |-> IF k \in OnDisk THEN o[k] \cap OnDisk ELSE {}],
                 Bytes[OnDisk], files,
                 [k \in Keys |-> IF k \in OnDisk THEN "kept" ELSE "none"])

Init ==
  /\ ram = [k \in Keys |-> NoBlob] /\ ramOlder = [k \in Keys |-> {}] /\ ram_used = 0
  /\ spilling = [k \in Keys |-> NoBlob] /\ spill_used = 0
  /\ disk = {} /\ diskOlder = [k \in Keys |-> {}] /\ disk_used = 0
  /\ files = [k \in Keys |-> NoBlob]
  /\ pins = [k \in Keys |-> 0]
  /\ queue = <<>> /\ writer = NoItem
  /\ flushing = FALSE /\ owed = {}
  /\ told = [k \in Keys |-> "none"] /\ leaked = {}

Writer == WriterTakes \/ WriterSkips \/ WriterWrites \/ WriterFails \/ WriterRecords

Next ==
  \/ \E k \in Keys, c \in Contents : Put(k, c)
  \/ \E k \in Keys : GetRam(k) \/ GetDisk(k) \/ GetFails(k) \/ Discard(k)
  \/ \E S \in PinSets : Pin(S) \/ Unpin(S)
  \/ Persist \/ Flush \/ FlushReturns
  \/ Writer
  \/ Restart

Spec     == Init /\ [][Next]_vars
FairSpec == Spec /\ WF_vars(Writer) /\ WF_vars(FlushReturns)

----------------------------------------------------------------------------
IsTier(t) == t \in [Keys -> Slot]
IsTold(t) == t \in [Keys -> {"none", "kept", "dropped"}]

TypeOK ==
  /\ IsTier(ram) /\ IsTier(spilling) /\ IsTier(files)
  /\ ramOlder \in [Keys -> SUBSET Keys] /\ diskOlder \in [Keys -> SUBSET Keys]
  /\ ram_used \in Int /\ spill_used \in Int /\ disk_used \in Int
  /\ disk \subseteq Keys
  /\ pins \in [Keys -> Nat]
  /\ queue \in Seq(Item)
  /\ \/ writer = NoItem
     \/ writer \in [pc : {"write", "record"}, how : {"copy", "spill"},
                     key : Keys, data : Contents]
  /\ flushing \in BOOLEAN /\ owed \subseteq Keys
  /\ IsTold(told) /\ leaked \subseteq Keys

(* What the store counts is what it holds (usage(), and what the eviction  *)
(* loops compare with the budgets).                                        *)
RamCount   == ram_used = Bytes[InRam]
DiskCount  == disk_used = Bytes[disk]
SpillCount == spill_used = Bytes[InSpilling]
CountsAreTrue == RamCount /\ DiskCount /\ SpillCount

(* Every blob put is in some tier until it is discarded or on_drop was     *)
(* told of its loss, and nothing on_drop was told of is still served: the  *)
(* prefix cache removes entries by exactly these calls.                    *)
DropsAreReported == {k \in Keys : told[k] = "kept"} = Held

(* A blob waiting for the writer has an item in its queue or its hand: it  *)
(* is not kept in memory for ever.                                         *)
SpillsAreQueued ==
  \A k \in InSpilling :
    \/ \E i \in DOMAIN queue : queue[i] = [how |-> "spill", key |-> k]
    \/ writer.pc # "idle" /\ writer.how = "spill" /\ writer.key = k

(* The index names files that are there; and when the writer is between    *)
(* items, the directory holds no other file but those it could not unlink. *)
IndexIsDirectory ==
  /\ disk \subseteq OnDisk
  /\ writer.pc # "record" => OnDisk \subseteq disk \cup leaked

(* Memory is over its budget only by pinned blobs.                         *)
RamBudgetKept == ram_used > RamBytes => InRam \subseteq Pinned

(* When persist() returns, every blob it found in memory is on disk or was *)
(* given up (dropped, discarded, or its write failed).                     *)
PersistKeeps ==
  flushing /\ Unfinished = 0 => \A k \in owed : k \in Held => k \in disk

(* A blob that stays pinned leaves the store only by a discard of it, a    *)
(* failed file operation or the end of the process.                        *)
PinnedStay ==
  [][\A k \in Pinned \cap Held :
        \/ k \in Held' \/ pins'[k] = 0
        \/ Discard(k) \/ GetFails(k) \/ WriterFails \/ Restart]_vars

(* Files go to make room only while the directory, with the file being     *)
(* recorded, is over its budget.                                           *)
DropsOnlyPastBudget ==
  [][\/ disk \subseteq disk'
     \/ Bytes[disk \cup ({writer.key} \cap Keys)] > DiskBytes
     \/ Restart \/ \E k \in Keys : Discard(k) \/ GetFails(k)]_vars

(* Once the writer is done, a durable blob in memory is on disk as it is   *)
(* in memory.                                                              *)
DurableIsOnDisk ==
  HasDisk /\ Unfinished = 0 =>
    \A k \in Durable \cap InRam : k \in disk /\ files[k] = ram[k]

(* When persist() has returned the directory is within its budget, but for *)
(* pinned blobs.                                                           *)
PersistWithinBudget ==
  flushing /\ Unfinished = 0 => disk_used <= DiskBytes \/ disk \subseteq Pinned

(* The tiers together are the store its callers see.                       *)
Store == INSTANCE KVStore WITH held <- Held
ImplementsKVStore == Store!Spec

(* A blob queued for the writer is written, dropped or discarded in the    *)
(* end, and flush() returns once its callers stop adding work.             *)
Callers ==
  \/ \E k \in Keys, c \in Contents : Put(k, c)
  \/ \E k \in Keys : GetDisk(k)
  \/ \E S \in PinSets : Unpin(S)

SpillsEnd          == \A k \in Keys : k \in InSpilling ~> k \notin InSpilling
FlushReturnsAtLast == <>[][~ Callers]_vars => (flushing ~> ~ flushing)
=============================================================================
