-------------------------- MODULE BlobStoreProofs --------------------------
(***************************************************************************)
(* Theorems about BlobStore, for every set of keys, every assignment of    *)
(* lengths and every pair of budgets.                                      *)
(***************************************************************************)
EXTENDS BlobStore, FiniteSetTheorems, TLAPS

----------------------------------------------------------------------------
(* Lengths.                                                                *)

LEMMA BytesNat == ASSUME NEW S \in SUBSET Keys PROVE Bytes[S] \in Nat
BY BytesAssumption

LEMMA BytesOne == ASSUME NEW k \in Keys PROVE Bytes[{k}] \in Nat
<1>1. {k} \in SUBSET Keys
  OBVIOUS
<1> QED
  BY <1>1, BytesNat

LEMMA BytesPlus ==
  ASSUME NEW S \in SUBSET Keys, NEW T \in SUBSET Keys, S \cap T = {}
  PROVE  Bytes[S \cup T] = Bytes[S] + Bytes[T]
BY BytesAssumption

(* What leaves a set takes its length along.                               *)
LEMMA BytesMinus ==
  ASSUME NEW S \in SUBSET Keys, NEW T \in SUBSET Keys, T \subseteq S
  PROVE  Bytes[S \ T] = Bytes[S] - Bytes[T]
<1>1. S = (S \ T) \cup T /\ (S \ T) \cap T = {}
  OBVIOUS
<1>2. Bytes[S] = Bytes[S \ T] + Bytes[T]
  BY <1>1, BytesPlus
<1> QED
  BY <1>2, BytesNat

----------------------------------------------------------------------------
(* Type correctness.                                                       *)

LEMMA ItemsType ==
  ASSUME NEW S \in SUBSET Keys, NEW order, NEW h \in {"copy", "spill"},
         NEW s \in InOrder(S, order)
  PROVE  Items(h, s) \in Seq(Item)
<1>1. Cardinality(S) \in Nat
  BY KeysAssumption, FS_Subset, FS_CardinalityType
<1>2. s \in [1..Cardinality(S) -> S]
  BY DEF InOrder
<1>3. Items(h, s) \in [1..Cardinality(S) -> Item]
  BY <1>2 DEF Items, Item
<1> QED
  BY <1>1, <1>3

LEMMA OrderType ==
  ASSUME NEW order \in [Keys -> SUBSET Keys], NEW S \in SUBSET Keys, NEW k \in Keys
  PROVE  /\ Touched(order, S, k) \in [Keys -> SUBSET Keys]
         /\ Without(order, S) \in [Keys -> SUBSET Keys]
BY DEF Touched, Without

LEMMA EmptyType ==
  /\ IsTier([k \in Keys |-> NoBlob])
  /\ [k \in Keys |-> {}] \in [Keys -> SUBSET Keys]
  /\ [k \in Keys |-> 0] \in [Keys -> Nat]
  /\ <<>> \in Seq(Item)
BY DEF IsTier, Slot

LEMMA DropType ==
  ASSUME NEW t, IsTold(t), NEW S
  PROVE  IsTold(Drop(t, S))
BY DEF IsTold, Drop

(* The values an eviction from memory may start from.                      *)
RamArgs(r, order, used, q, p) ==
  /\ IsTier(r) /\ order \in [Keys -> SUBSET Keys] /\ used \in Int
  /\ q \in Seq(Item) /\ p \in [Keys -> Nat]

LEMMA EvictRamType ==
  ASSUME TypeOK, NEW r, NEW order, NEW used, NEW q, NEW p,
         RamArgs(r, order, used, q, p), EvictRam(r, order, used, q, p)
  PROVE  /\ IsTier(ram') /\ IsTier(spilling')
         /\ ramOlder' \in [Keys -> SUBSET Keys]
         /\ ram_used' \in Int /\ spill_used' \in Int
         /\ queue' \in Seq(Item)
<1> DEFINE here  == {k \in Keys : r[k] # NoBlob}
           out   == Evicted(Free(here, p), order, used, RamBytes)
           spill == {k \in out \ disk : HasDisk /\ Bytes[{k}] <= DiskBytes}
<1>1. out \in SUBSET Keys /\ spill \in SUBSET Keys
  BY DEF Evicted, Free
<1>2. /\ ram' = [k \in Keys |-> IF k \in out THEN NoBlob ELSE r[k]]
      /\ ramOlder' = Without(order, out)
      /\ ram_used' = used - Bytes[out]
      /\ spilling' = [k \in Keys |-> IF k \in spill THEN r[k] ELSE spilling[k]]
      /\ spill_used' = spill_used + Bytes[spill]
      /\ \E s \in InOrder(spill, order) : queue' = q \o Items("spill", s)
  BY DEF EvictRam
<1> HIDE DEF out, spill
<1>3. IsTier(ram') /\ IsTier(spilling')
  BY <1>2 DEF RamArgs, TypeOK, IsTier, Slot
<1>4. ramOlder' \in [Keys -> SUBSET Keys]
  BY <1>1, <1>2 DEF RamArgs, Without
<1>5. ram_used' \in Int /\ spill_used' \in Int
  BY <1>1, <1>2, BytesNat DEF RamArgs, TypeOK
<1>6. queue' \in Seq(Item)
  <2>1. PICK s \in InOrder(spill, order) : queue' = q \o Items("spill", s)
    BY <1>2
  <2>2. Items("spill", s) \in Seq(Item)
    BY <1>1, ItemsType
  <2> QED
    BY <2>1, <2>2 DEF RamArgs
<1> QED
  BY <1>3, <1>4, <1>5, <1>6

LEMMA UnlinkType ==
  ASSUME NEW S \in SUBSET Keys, NEW f, IsTier(f), leaked \subseteq Keys, Unlink(S, f)
  PROVE  IsTier(files') /\ leaked' \subseteq Keys
BY DEF Unlink, IsTier, Slot

LEMMA EvictDiskType ==
  ASSUME TypeOK, NEW d \in SUBSET Keys, NEW order \in [Keys -> SUBSET Keys],
         NEW used \in Int, NEW f, IsTier(f), NEW l, IsTold(l),
         EvictDisk(d, order, used, f, l)
  PROVE  /\ disk' \subseteq Keys
         /\ diskOlder' \in [Keys -> SUBSET Keys]
         /\ disk_used' \in Int
         /\ IsTier(files')
         /\ leaked' \subseteq Keys /\ IsTold(told')
<1> DEFINE away == {k \in d : ram'[k] = NoBlob}
           out  == Evicted(Free(away, pins'), order, used, DiskBytes)
<1>1. out \in SUBSET Keys
  BY DEF Evicted, Free
<1>2. /\ disk' = d \ out /\ diskOlder' = Without(order, out)
      /\ disk_used' = used - Bytes[out]
      /\ Unlink(out, f)
      /\ IsTold(told')
  BY DropType DEF EvictDisk
<1> HIDE DEF out
<1>3. IsTier(files') /\ leaked' \subseteq Keys
  BY <1>1, <1>2, UnlinkType DEF TypeOK
<1>4. disk_used' \in Int
  BY <1>1, <1>2, BytesNat
<1>5. diskOlder' \in [Keys -> SUBSET Keys]
  BY <1>1, <1>2 DEF Without
<1> QED
  BY <1>2, <1>3, <1>4, <1>5

LEMMA PutArgs ==
  ASSUME TypeOK, NEW k \in Keys, NEW c \in Contents
  PROVE  RamArgs([ram EXCEPT ![k] = c], Touched(ramOlder, InRam, k),
                 ram_used - (IF k \in InRam THEN Bytes[{k}] ELSE 0) + Bytes[{k}],
                 IF k \in Durable /\ HasDisk /\ k \notin disk
                 THEN Append(queue, [how |-> "copy", key |-> k]) ELSE queue,
                 pins)
<1> DEFINE r     == [ram EXCEPT ![k] = c]
           order == Touched(ramOlder, InRam, k)
           used  == ram_used - (IF k \in InRam THEN Bytes[{k}] ELSE 0) + Bytes[{k}]
           q     == IF k \in Durable /\ HasDisk /\ k \notin disk
                    THEN Append(queue, [how |-> "copy", key |-> k]) ELSE queue
<1>1. IsTier(r)
  BY DEF TypeOK, IsTier, Slot
<1>2. order \in [Keys -> SUBSET Keys]
  BY OrderType DEF TypeOK, InRam
<1>3. used \in Int
  <2>1. Bytes[{k}] \in Nat
    BY BytesOne
  <2> QED
    BY <2>1 DEF TypeOK
<1>4. q \in Seq(Item)
  <2>1. [how |-> "copy", key |-> k] \in Item /\ queue \in Seq(Item)
    BY DEF TypeOK, Item
  <2> QED
    BY <2>1
<1> QED
  BY <1>1, <1>2, <1>3, <1>4 DEF RamArgs, TypeOK

LEMMA PutType ==
  ASSUME TypeOK, NEW k \in Keys, NEW c \in Contents, Put(k, c)
  PROVE  TypeOK'
<1> DEFINE r     == [ram EXCEPT ![k] = c]
           order == Touched(ramOlder, InRam, k)
           used  == ram_used - (IF k \in InRam THEN Bytes[{k}] ELSE 0) + Bytes[{k}]
           q     == IF k \in Durable /\ HasDisk /\ k \notin disk
                    THEN Append(queue, [how |-> "copy", key |-> k]) ELSE queue
<1>1. RamArgs(r, order, used, q, pins)
  BY PutArgs
<1>2. EvictRam(r, order, used, q, pins)
  BY DEF Put
<1>3. /\ UNCHANGED <<disk, diskOlder, disk_used, files, writer, pins, flushing, leaked>>
      /\ IsTold(told')
      /\ owed' \subseteq owed
  BY DropType DEF Put, TypeOK, IsTold
<1> HIDE DEF r, order, used, q
<1>4. /\ IsTier(ram') /\ IsTier(spilling') /\ ramOlder' \in [Keys -> SUBSET Keys]
      /\ ram_used' \in Int /\ spill_used' \in Int /\ queue' \in Seq(Item)
  BY <1>1, <1>2, EvictRamType
<1> QED
  BY <1>3, <1>4 DEF TypeOK, IsTier, NoItem

LEMMA GetDiskArgs ==
  ASSUME TypeOK, NEW k \in Keys
  PROVE  RamArgs([ram EXCEPT ![k] = files[k]], Touched(ramOlder, InRam, k),
                 ram_used + Bytes[{k}], queue, pins)
<1>1. IsTier([ram EXCEPT ![k] = files[k]])
  BY DEF TypeOK, IsTier, Slot
<1>2. Touched(ramOlder, InRam, k) \in [Keys -> SUBSET Keys]
  BY OrderType DEF TypeOK, InRam
<1>3. ram_used + Bytes[{k}] \in Int
  <2>1. Bytes[{k}] \in Nat
    BY BytesOne
  <2> QED
    BY <2>1 DEF TypeOK
<1> QED
  BY <1>1, <1>2, <1>3 DEF RamArgs, TypeOK

LEMMA GetDiskType ==
  ASSUME TypeOK, NEW k \in Keys, GetDisk(k)
  PROVE  TypeOK'
<1> DEFINE r     == [ram EXCEPT ![k] = files[k]]
           order == Touched(ramOlder, InRam, k)
           used  == ram_used + Bytes[{k}]
<1>1. RamArgs(r, order, used, queue, pins)
  BY GetDiskArgs
<1>2. EvictRam(r, order, used, queue, pins)
  BY DEF GetDisk
<1>3. /\ UNCHANGED <<disk, disk_used, files, writer, waits, pins, leaked>>
      /\ diskOlder' \in [Keys -> SUBSET Keys]
      /\ IsTold(told')
  BY OrderType, DropType DEF GetDisk, TypeOK
<1> HIDE DEF r, order, used
<1>4. /\ IsTier(ram') /\ IsTier(spilling') /\ ramOlder' \in [Keys -> SUBSET Keys]
      /\ ram_used' \in Int /\ spill_used' \in Int /\ queue' \in Seq(Item)
  BY <1>1, <1>2, EvictRamType
<1> QED
  BY <1>3, <1>4 DEF TypeOK, IsTier, NoItem, waits

LEMMA UnpinType ==
  ASSUME TypeOK, NEW S \in PinSets, Unpin(S)
  PROVE  TypeOK'
<1>1. UnpinnedBy(S) \in [Keys -> Nat]
  BY DEF TypeOK, UnpinnedBy
<1>2. RamArgs(ram, ramOlder, ram_used, queue, UnpinnedBy(S))
  BY <1>1 DEF RamArgs, TypeOK
<1>3. /\ IsTier(ram') /\ IsTier(spilling') /\ ramOlder' \in [Keys -> SUBSET Keys]
      /\ ram_used' \in Int /\ spill_used' \in Int /\ queue' \in Seq(Item)
  BY <1>2, EvictRamType DEF Unpin
<1>4. /\ disk' \subseteq Keys /\ diskOlder' \in [Keys -> SUBSET Keys] /\ disk_used' \in Int
      /\ IsTier(files') /\ leaked' \subseteq Keys /\ IsTold(told')
  <2> DEFINE l == Drop(told, LostFromRam(ram, ramOlder, ram_used, UnpinnedBy(S)))
  <2>1. IsTold(l)
    BY DropType DEF TypeOK
  <2>2. EvictDisk(disk, diskOlder, disk_used, files, l)
    BY DEF Unpin
  <2> HIDE DEF l
  <2>3. /\ disk \in SUBSET Keys /\ diskOlder \in [Keys -> SUBSET Keys]
        /\ disk_used \in Int /\ IsTier(files)
    BY DEF TypeOK
  <2> QED
    BY <2>1, <2>2, <2>3, EvictDiskType
<1>5. UNCHANGED <<writer, waits>> /\ pins' = UnpinnedBy(S)
  BY DEF Unpin
<1> QED
  BY <1>1, <1>3, <1>4, <1>5 DEF TypeOK, IsTier, NoItem, waits

LEMMA RecordsType ==
  ASSUME TypeOK, WriterRecords
  PROVE  TypeOK'
<1> DEFINE k == writer.key
<1>1. k \in Keys
  BY DEF WriterRecords, TypeOK, NoItem
<1>0. Bytes[{k}] \in Nat
  BY <1>1, BytesOne
<1>2. /\ disk \cup {k} \in SUBSET Keys
      /\ Indexed(k) \in [Keys -> SUBSET Keys]
      /\ disk_used + Bytes[{k}] \in Int
      /\ IsTier(files) /\ IsTold(told)
  <2>1. /\ disk \in SUBSET Keys /\ diskOlder \in [Keys -> SUBSET Keys]
        /\ disk_used \in Int /\ IsTier(files) /\ IsTold(told)
    BY DEF TypeOK
  <2>2. Touched(diskOlder, disk, k) \in [Keys -> SUBSET Keys]
    BY <1>1, <2>1, OrderType
  <2>3. Indexed(k) \in [Keys -> SUBSET Keys]
    BY <2>1, <2>2 DEF Indexed
  <2> QED
    BY <1>0, <1>1, <2>1, <2>3
<1>3. ASSUME EvictDisk(disk \cup {k}, Indexed(k), disk_used + Bytes[{k}], files, told)
      PROVE  /\ disk' \subseteq Keys /\ diskOlder' \in [Keys -> SUBSET Keys]
             /\ disk_used' \in Int /\ IsTier(files')
             /\ leaked' \subseteq Keys /\ IsTold(told')
  BY <1>2, <1>3, EvictDiskType
<1>4. ASSUME Unlink({k}, files)
      PROVE  IsTier(files') /\ leaked' \subseteq Keys
  BY <1>1, <1>2, <1>4, UnlinkType DEF TypeOK
<1>5. writer' = NoItem /\ UNCHANGED <<ramOlder, ram_used, queue, waits>>
  BY DEF WriterRecords
<1>6. CASE RecordCopy(k)
  <2>1. UNCHANGED <<ram, spilling, spill_used, pins>>
    BY <1>6 DEF RecordCopy
  <2>2. CASE k \in InRam \ disk
    <3>1. EvictDisk(disk \cup {k}, Indexed(k), disk_used + Bytes[{k}], files, told)
      BY <1>6, <2>2 DEF RecordCopy
    <3> QED
      BY <1>3, <1>5, <2>1, <3>1 DEF TypeOK, IsTier, waits
  <2>3. CASE k \notin InRam \cup disk
    <3>1. Unlink({k}, files) /\ UNCHANGED <<disk, diskOlder, disk_used, told>>
      BY <1>6, <2>3 DEF RecordCopy
    <3> QED
      BY <1>4, <1>5, <2>1, <3>1 DEF TypeOK, IsTier, waits
  <2>4. CASE k \in disk
    <3>1. UNCHANGED <<disk, diskOlder, disk_used, files, told, leaked>>
      BY <1>6, <2>4 DEF RecordCopy
    <3> QED
      BY <1>5, <2>1, <3>1 DEF TypeOK, IsTier, waits
  <2> QED
    BY <2>2, <2>3, <2>4
<1>7. CASE RecordSpill(k)
  <2>1. UNCHANGED <<ram, pins>>
    BY <1>7 DEF RecordSpill
  <2>2. CASE k \in InSpilling
    <3>1. /\ spilling' = [spilling EXCEPT ![k] = NoBlob]
          /\ spill_used' = spill_used - Bytes[{k}]
          /\ EvictDisk(disk \cup {k}, Indexed(k), disk_used + Bytes[{k}], files, told)
      BY <1>7, <2>2 DEF RecordSpill
    <3>2. IsTier(spilling') /\ spill_used' \in Int
      BY <1>0, <1>1, <3>1 DEF TypeOK, IsTier, Slot
    <3> QED
      BY <1>3, <1>5, <2>1, <3>1, <3>2 DEF TypeOK, IsTier, waits
  <2>3. CASE k \notin InSpilling
    <3>1. /\ Unlink({k}, files)
          /\ UNCHANGED <<spilling, spill_used, disk, diskOlder, disk_used, told>>
      BY <1>7, <2>3 DEF RecordSpill
    <3> QED
      BY <1>4, <1>5, <2>1, <3>1 DEF TypeOK, IsTier, waits
  <2> QED
    BY <2>2, <2>3
<1> QED
  BY <1>6, <1>7 DEF WriterRecords

LEMMA RestartType ==
  ASSUME TypeOK, Restart
  PROVE  TypeOK'
<1>1. PICK o \in Orders :
        EvictDisk(OnDisk, [k \in Keys |-> IF k \in OnDisk THEN o[k] \cap OnDisk ELSE {}],
                  Bytes[OnDisk], files,
                  [k \in Keys |-> IF k \in OnDisk THEN "kept" ELSE "none"])
  BY DEF Restart
<1> DEFINE order == [k \in Keys |-> IF k \in OnDisk THEN o[k] \cap OnDisk ELSE {}]
           t     == [k \in Keys |-> IF k \in OnDisk THEN "kept" ELSE "none"]
<1>2. OnDisk \in SUBSET Keys /\ order \in [Keys -> SUBSET Keys] /\ Bytes[OnDisk] \in Int
  BY BytesNat DEF OnDisk
<1>3. IsTier(files)
  BY DEF TypeOK
<1>4. EvictDisk(OnDisk, order, Bytes[OnDisk], files, t) /\ IsTold(t)
  BY <1>1 DEF IsTold
<1> HIDE DEF order, t
<1>5. /\ disk' \subseteq Keys /\ diskOlder' \in [Keys -> SUBSET Keys] /\ disk_used' \in Int
      /\ IsTier(files') /\ leaked' \subseteq Keys /\ IsTold(told')
  BY <1>2, <1>3, <1>4, EvictDiskType
<1>6. /\ IsTier(ram') /\ IsTier(spilling') /\ ramOlder' \in [Keys -> SUBSET Keys]
      /\ pins' \in [Keys -> Nat] /\ queue' \in Seq(Item)
  BY EmptyType DEF Restart
<1>7. ram_used' = 0 /\ spill_used' = 0 /\ writer' = NoItem /\ owed' = {}
  BY DEF Restart
<1>8. flushing' \in BOOLEAN
  BY DEF Restart
<1> QED
  BY <1>5, <1>6, <1>7, <1>8 DEF TypeOK

(* Every step of the store keeps the types.                                *)
LEMMA TypeStep == TypeOK /\ [Next]_vars => TypeOK'
<1> SUFFICES ASSUME TypeOK, [Next]_vars PROVE TypeOK'
  OBVIOUS
<1>1. ASSUME NEW k \in Keys, NEW c \in Contents, Put(k, c) PROVE TypeOK'
  BY <1>1, PutType
<1>2. ASSUME NEW k \in Keys, GetRam(k) PROVE TypeOK'
  <2>1. ramOlder' \in [Keys -> SUBSET Keys]
    BY <1>2, OrderType DEF GetRam, TypeOK, InRam
  <2> QED
    BY <1>2, <2>1 DEF GetRam, TypeOK, worker, waits
<1>3. ASSUME NEW k \in Keys, GetDisk(k) PROVE TypeOK'
  BY <1>3, GetDiskType
<1>4. ASSUME NEW k \in Keys, GetFails(k) PROVE TypeOK'
  <2>0. Bytes[{k}] \in Nat
    BY BytesOne
  <2>1. diskOlder' \in [Keys -> SUBSET Keys] /\ disk_used' \in Int
    <3>1. diskOlder \in [Keys -> SUBSET Keys] /\ disk_used \in Int /\ {k} \in SUBSET Keys
      BY DEF TypeOK
    <3>2. diskOlder' = Without(diskOlder, {k}) /\ disk_used' = disk_used - Bytes[{k}]
      BY <1>4 DEF GetFails
    <3>3. Without(diskOlder, {k}) \in [Keys -> SUBSET Keys]
      BY <3>1, OrderType
    <3>4. disk_used' \in Int
      <4>1. disk_used \in Int
        BY DEF TypeOK
      <4> QED
        BY <2>0, <3>2, <4>1
    <3> QED
      BY <3>2, <3>3, <3>4
  <2>2. IsTier(files') /\ leaked' \subseteq Keys
    BY <1>4, UnlinkType DEF GetFails, TypeOK
  <2> QED
    BY <1>4, <2>1, <2>2, DropType DEF GetFails, TypeOK, worker, waits
<1>5. ASSUME NEW k \in Keys, Discard(k) PROVE TypeOK'
  <2>1. /\ ramOlder' \in [Keys -> SUBSET Keys] /\ diskOlder' \in [Keys -> SUBSET Keys]
    BY <1>5, OrderType DEF Discard, TypeOK
  <2>2. IsTier(files') /\ leaked' \subseteq Keys
    BY <1>5, UnlinkType DEF Discard, TypeOK
  <2>3. ram_used' \in Int /\ spill_used' \in Int /\ disk_used' \in Int
    BY <1>5, BytesNat DEF Discard, TypeOK
  <2>4. IsTier(ram') /\ IsTier(spilling')
    BY <1>5 DEF Discard, TypeOK, IsTier, Slot
  <2> QED
    BY <1>5, <2>1, <2>2, <2>3, <2>4 DEF Discard, TypeOK, IsTold
<1>6. ASSUME NEW S \in PinSets, Pin(S) PROVE TypeOK'
  BY <1>6 DEF Pin, TypeOK, tiers, worker, waits
<1>7. ASSUME NEW S \in PinSets, Unpin(S) PROVE TypeOK'
  BY <1>7, UnpinType
<1>8. CASE Persist
  <2>1. PICK s \in InOrder(InRam \ disk, ramOlder) : queue' = queue \o Items("copy", s)
    BY <1>8 DEF Persist
  <2>2. Items("copy", s) \in Seq(Item)
    BY ItemsType DEF InRam
  <2>3. queue' \in Seq(Item)
    BY <2>1, <2>2 DEF TypeOK
  <2> QED
    BY <1>8, <2>3 DEF Persist, TypeOK, InRam, tiers
<1>9. CASE Flush
  BY <1>9 DEF Flush, TypeOK, tiers, worker
<1>10. CASE FlushReturns
  BY <1>10 DEF FlushReturns, TypeOK, tiers, worker
<1>11. CASE WriterTakes
  <2>1. queue' \in Seq(Item) /\ Head(queue) \in Item
    BY <1>11 DEF WriterTakes, TypeOK
  <2>2. Source(Head(queue)) \in Slot
    BY <2>1 DEF Source, TypeOK, IsTier, Item
  <2> QED
    BY <1>11, <2>1, <2>2 DEF WriterTakes, TypeOK, Item, Slot, tiers, waits, NoItem
<1>12. CASE WriterSkips
  BY <1>12 DEF WriterSkips, TypeOK, tiers, waits
<1>13. CASE WriterWrites
  <2>1. writer \in [pc : {"write", "record"}, how : {"copy", "spill"},
                    key : Keys, data : Contents]
    BY <1>13 DEF WriterWrites, MayWrite, TypeOK, NoItem
  <2> QED
    BY <1>13, <2>1 DEF WriterWrites, TypeOK, IsTier, Slot, waits
<1>14. CASE WriterFails
  <2>1. writer.key \in Keys
    BY <1>14 DEF WriterFails, MayWrite, TypeOK, NoItem
  <2>2. spill_used' \in Int
    <3>1. InSpilling \cap {writer.key} \in SUBSET Keys
      BY <2>1
    <3>2. Bytes[InSpilling \cap {writer.key}] \in Nat
      BY <3>1, BytesNat
    <3>3. spill_used' = spill_used - Bytes[InSpilling \cap {writer.key}]
      BY <1>14 DEF WriterFails
    <3> QED
      BY <3>2, <3>3 DEF TypeOK
  <2> QED
    BY <1>14, <2>1, <2>2, DropType DEF WriterFails, TypeOK, IsTier, Slot
<1>15. CASE WriterRecords
  BY <1>15, RecordsType
<1>16. CASE Restart
  BY <1>16, RestartType
<1>17. CASE UNCHANGED vars
  BY <1>17 DEF vars, tiers, worker, waits, TypeOK, IsTier
<1> QED
  BY <1>1, <1>2, <1>3, <1>4, <1>5, <1>6, <1>7, <1>8, <1>9, <1>10, <1>11, <1>12,
     <1>13, <1>14, <1>15, <1>16, <1>17 DEF Next, Writer

(* Every value of the store's tiers, its index, its queue and its pins has *)
(* its type in every reachable state.                                      *)
THEOREM TypeCorrect == Spec => []TypeOK
<1>1. Init => TypeOK
  <2> SUFFICES ASSUME Init PROVE TypeOK
    OBVIOUS
  <2>1. /\ IsTier(ram) /\ IsTier(spilling) /\ IsTier(files)
        /\ ramOlder \in [Keys -> SUBSET Keys] /\ diskOlder \in [Keys -> SUBSET Keys]
        /\ pins \in [Keys -> Nat] /\ queue \in Seq(Item)
    BY EmptyType DEF Init
  <2>2. flushing \in BOOLEAN
    BY DEF Init
  <2>3. /\ ram_used = 0 /\ spill_used = 0 /\ disk_used = 0 /\ disk = {}
        /\ writer = NoItem /\ owed = {} /\ told = [k \in Keys |-> "none"] /\ leaked = {}
    BY DEF Init
  <2> QED
    BY <2>1, <2>2, <2>3 DEF TypeOK, IsTold
<1> QED
  BY <1>1, TypeStep, PTL DEF Spec

----------------------------------------------------------------------------
(* Memory: its count and its budget, whatever the callers do.  The         *)
(* inductive invariant needs that the LRU order has a least element in     *)
(* every set of blobs: the eviction loop then goes on until the budget is  *)
(* met or only pinned blobs are left.                                      *)

WellOrdered(order, S) ==
  \A T \in SUBSET S : T # {} => \E k \in T : order[k] \cap T = {}

RamInv ==
  /\ RamCount
  /\ WellOrdered(ramOlder, InRam)
  /\ RamBudgetKept

LEMMA TouchedOrder ==
  ASSUME NEW order \in [Keys -> SUBSET Keys], NEW S \in SUBSET Keys, NEW k \in Keys,
         WellOrdered(order, S)
  PROVE  WellOrdered(Touched(order, S, k), S \cup {k})
<1> SUFFICES ASSUME NEW T \in SUBSET (S \cup {k}), T # {}
             PROVE  \E j \in T : Touched(order, S, k)[j] \cap T = {}
  BY DEF WellOrdered
<1>1. CASE T \ {k} # {}
  <2>1. PICK j \in T \ {k} : order[j] \cap (T \ {k}) = {}
    BY <1>1 DEF WellOrdered
  <2>2. Touched(order, S, k)[j] = order[j] \ {k}
    BY <2>1 DEF Touched
  <2> QED
    BY <2>1, <2>2
<1>2. CASE T = {k}
  BY <1>2 DEF Touched
<1> QED
  BY <1>1, <1>2

LEMMA WithoutOrder ==
  ASSUME NEW order \in [Keys -> SUBSET Keys], NEW S \in SUBSET Keys, NEW out,
         WellOrdered(order, S)
  PROVE  WellOrdered(Without(order, out), S \ out)
<1> SUFFICES ASSUME NEW T \in SUBSET (S \ out), T # {}
             PROVE  \E j \in T : Without(order, out)[j] \cap T = {}
  BY DEF WellOrdered
<1>1. PICK j \in T : order[j] \cap T = {}
  BY DEF WellOrdered
<1> QED
  BY <1>1 DEF Without

LEMMA SubOrder ==
  ASSUME NEW order, NEW S, NEW T \in SUBSET S, WellOrdered(order, S)
  PROVE  WellOrdered(order, T)
BY DEF WellOrdered

(* The eviction loop stops early only within the budget.                   *)
LEMMA EvictedEnough ==
  ASSUME NEW S \in SUBSET Keys, NEW order \in [Keys -> SUBSET Keys],
         NEW used \in Int, NEW limit \in Int, WellOrdered(order, S),
         Evicted(S, order, used, limit) # S
  PROVE  used - Bytes[Evicted(S, order, used, limit)] <= limit
<1> DEFINE out == Evicted(S, order, used, limit)
           T   == S \ out
<1>1. out \in SUBSET S
  BY DEF Evicted
<1>2. PICK k \in T : order[k] \cap T = {}
  <2>1. T # {}
    BY <1>1
  <2> QED
    BY <2>1 DEF WellOrdered
<1> DEFINE older == order[k] \cap S
<1>3. older \in SUBSET Keys /\ older \subseteq out
  BY <1>2
<1>4. ~ (used - Bytes[older] > limit)
  BY <1>2 DEF Evicted
<1> HIDE DEF out, T, older
<1>5. Bytes[out \ older] = Bytes[out] - Bytes[older]
  BY <1>1, <1>3, BytesMinus
<1>6. Bytes[out \ older] \in Nat /\ Bytes[out] \in Nat /\ Bytes[older] \in Nat
  BY <1>1, <1>3, BytesNat
<1>7. used - Bytes[out] <= limit
  BY <1>4, <1>5, <1>6
<1> QED
  BY <1>7 DEF out

LEMMA EvictRamKeeps ==
  ASSUME TypeOK, NEW r, NEW order, NEW used, NEW q, NEW p,
         RamArgs(r, order, used, q, p), EvictRam(r, order, used, q, p),
         used = Bytes[{k \in Keys : r[k] # NoBlob}],
         WellOrdered(order, {k \in Keys : r[k] # NoBlob})
  PROVE  /\ RamCount' /\ WellOrdered(ramOlder', InRam')
         /\ ram_used' > RamBytes => \A k \in InRam' : p[k] > 0
<1> DEFINE here == {k \in Keys : r[k] # NoBlob}
           free == Free(here, p)
           out  == Evicted(free, order, used, RamBytes)
<1>1. here \in SUBSET Keys /\ free \in SUBSET here /\ out \in SUBSET free
  BY DEF Evicted, Free
<1>2. InRam' = here \ out
  BY <1>1 DEF EvictRam, InRam
<1>3. ram_used' = Bytes[here] - Bytes[out] /\ ramOlder' = Without(order, out)
  BY DEF EvictRam
<1>4. WellOrdered(order, here) /\ order \in [Keys -> SUBSET Keys] /\ used \in Int
  BY DEF RamArgs
<1>5. RamCount'
  <2> HIDE DEF here, out, free
  <2>1. here \in SUBSET Keys /\ out \in SUBSET Keys /\ out \subseteq here
    BY <1>1
  <2>2. Bytes[here \ out] = Bytes[here] - Bytes[out]
    BY <2>1, BytesMinus
  <2> QED
    BY <1>2, <1>3, <2>2 DEF RamCount
<1>6. WellOrdered(ramOlder', InRam')
  <2> HIDE DEF here, out, free
  <2> QED
    BY <1>1, <1>2, <1>3, <1>4, WithoutOrder
<1>7. ASSUME ram_used' > RamBytes PROVE \A k \in InRam' : p[k] > 0
  <2>1. out = free
    <3>1. WellOrdered(order, free)
      BY <1>1, <1>4, SubOrder
    <3>2. free \in SUBSET Keys /\ RamBytes \in Int
      BY <1>1, BoundsAssumption
    <3>3. used - Bytes[out] > RamBytes
      BY <1>3, <1>7
    <3>4. out # free => used - Bytes[out] <= RamBytes
      <4> HIDE DEF free
      <4> QED
        BY <1>4, <3>1, <3>2, EvictedEnough
    <3>5. Bytes[out] \in Int
      <4>1. out \in SUBSET Keys
        BY <1>1
      <4> HIDE DEF out
      <4> QED
        BY <4>1, BytesNat
    <3> HIDE DEF out, free
    <3> QED
      BY <1>4, <3>2, <3>3, <3>4, <3>5
  <2>2. p \in [Keys -> Nat]
    BY DEF RamArgs
  <2>3. ASSUME NEW k \in InRam' PROVE p[k] > 0
    <3>1. k \in Keys /\ k \in here /\ k \notin free
      BY <1>2, <2>1
    <3>2. p[k] # 0 /\ p[k] \in Nat
      BY <2>2, <3>1 DEF Free
    <3> QED
      BY <3>2
  <2> QED
    BY <2>3
<1> QED
  BY <1>5, <1>6, <1>7

LEMMA RamStep == TypeOK /\ RamInv /\ [Next]_vars => RamInv'
<1> SUFFICES ASSUME TypeOK, RamInv, [Next]_vars PROVE RamInv'
  OBVIOUS
<1>1. ASSUME UNCHANGED <<ram, ramOlder, ram_used>>, \A k \in Keys : pins[k] > 0 => pins'[k] > 0
      PROVE  RamInv'
  BY <1>1 DEF RamInv, RamCount, RamBudgetKept, InRam, Pinned
<1>2. ASSUME UNCHANGED <<ram, ramOlder, ram_used, pins>> PROVE RamInv'
  BY <1>1, <1>2
<1>3. ASSUME NEW r, NEW order, NEW used, NEW q, NEW p,
             RamArgs(r, order, used, q, p), EvictRam(r, order, used, q, p),
             used = Bytes[{k \in Keys : r[k] # NoBlob}],
             WellOrdered(order, {k \in Keys : r[k] # NoBlob}),
             pins' = p
      PROVE  RamInv'
  BY <1>3, EvictRamKeeps DEF RamInv, RamBudgetKept, Pinned, InRam
<1>4. /\ InRam \in SUBSET Keys /\ ramOlder \in [Keys -> SUBSET Keys]
      /\ WellOrdered(ramOlder, InRam) /\ ram_used = Bytes[InRam]
  BY DEF InRam, TypeOK, RamInv, RamCount
<1>5. ASSUME NEW k \in Keys, NEW c \in Slot, c # NoBlob
      PROVE  {j \in Keys : [ram EXCEPT ![k] = c][j] # NoBlob} = InRam \cup {k}
  BY <1>5 DEF InRam, TypeOK, IsTier
<1>6. ASSUME NEW k \in Keys, NEW c \in Contents, Put(k, c) PROVE RamInv'
  <2> DEFINE r     == [ram EXCEPT ![k] = c]
             order == Touched(ramOlder, InRam, k)
             used  == ram_used - (IF k \in InRam THEN Bytes[{k}] ELSE 0) + Bytes[{k}]
             q     == IF k \in Durable /\ HasDisk /\ k \notin disk
                      THEN Append(queue, [how |-> "copy", key |-> k]) ELSE queue
  <2>1. {j \in Keys : r[j] # NoBlob} = InRam \cup {k}
    BY <1>5, KeysAssumption DEF Slot
  <2>2. used = Bytes[InRam \cup {k}]
    <3>1. Bytes[{k}] \in Nat /\ Bytes[InRam] \in Nat
      BY <1>4, BytesNat, BytesOne
    <3>2. CASE k \in InRam
      <4>1. InRam \cup {k} = InRam
        BY <3>2
      <4>2. used = ram_used
        BY <1>4, <3>1, <3>2
      <4> QED
        BY <1>4, <4>1, <4>2
    <3>3. CASE k \notin InRam
      <4>1. {k} \in SUBSET Keys /\ InRam \cap {k} = {}
        BY <3>3
      <4>2. Bytes[InRam \cup {k}] = Bytes[InRam] + Bytes[{k}]
        BY <1>4, <4>1, BytesPlus
      <4> QED
        BY <1>4, <3>1, <3>3, <4>2
    <3> QED
      BY <3>2, <3>3
  <2>3. WellOrdered(order, InRam \cup {k})
    BY <1>4, TouchedOrder
  <2>4. RamArgs(r, order, used, q, pins)
    BY <1>6, PutArgs
  <2>5. EvictRam(r, order, used, q, pins) /\ pins' = pins
    BY <1>6 DEF Put
  <2> HIDE DEF r, order, used, q
  <2> QED
    BY <1>3, <2>1, <2>2, <2>3, <2>4, <2>5
<1>7. ASSUME NEW k \in Keys, GetRam(k) PROVE RamInv'
  <2>1. /\ UNCHANGED <<ram, ram_used, pins>> /\ k \in InRam
        /\ ramOlder' = Touched(ramOlder, InRam, k)
    BY <1>7 DEF GetRam
  <2>2. WellOrdered(Touched(ramOlder, InRam, k), InRam \cup {k})
    BY <1>4, TouchedOrder
  <2>3. InRam \cup {k} = InRam /\ InRam' = InRam
    BY <2>1 DEF InRam
  <2> QED
    BY <2>1, <2>2, <2>3 DEF RamInv, RamCount, RamBudgetKept, Pinned
<1>8. ASSUME NEW k \in Keys, GetDisk(k) PROVE RamInv'
  <2> DEFINE r     == [ram EXCEPT ![k] = files[k]]
             order == Touched(ramOlder, InRam, k)
             used  == ram_used + Bytes[{k}]
  <2>0. k \notin InRam /\ files[k] # NoBlob /\ files[k] \in Slot
    BY <1>8 DEF GetDisk, TypeOK, IsTier
  <2>1. {j \in Keys : r[j] # NoBlob} = InRam \cup {k}
    BY <1>5, <2>0
  <2>2. used = Bytes[InRam \cup {k}]
    <3>1. {k} \in SUBSET Keys /\ InRam \cap {k} = {}
      BY <2>0
    <3> QED
      BY <1>4, <3>1, BytesPlus
  <2>3. WellOrdered(order, InRam \cup {k})
    BY <1>4, TouchedOrder
  <2>4. RamArgs(r, order, used, queue, pins)
    BY <1>8, GetDiskArgs
  <2>5. EvictRam(r, order, used, queue, pins) /\ pins' = pins
    BY <1>8 DEF GetDisk
  <2> HIDE DEF r, order, used
  <2> QED
    BY <1>3, <2>1, <2>2, <2>3, <2>4, <2>5
<1>9. ASSUME NEW S \in PinSets, Unpin(S) PROVE RamInv'
  <2>1. RamArgs(ram, ramOlder, ram_used, queue, UnpinnedBy(S))
    BY DEF RamArgs, TypeOK, UnpinnedBy
  <2>2. InRam = {k \in Keys : ram[k] # NoBlob}
    BY DEF InRam
  <2> QED
    BY <1>3, <1>4, <1>9, <2>1, <2>2 DEF Unpin
<1>10. ASSUME NEW k \in Keys, Discard(k) PROVE RamInv'
  <2>1. InRam' = InRam \ {k}
    BY <1>10 DEF Discard, InRam, TypeOK, IsTier
  <2>2. ram_used' = Bytes[InRam] - Bytes[InRam \cap {k}]
    BY <1>4, <1>10 DEF Discard
  <2>3. InRam \ {k} = InRam \ (InRam \cap {k}) /\ InRam \cap {k} \in SUBSET Keys
    BY <1>4
  <2>4. Bytes[InRam \ {k}] = Bytes[InRam] - Bytes[InRam \cap {k}]
    BY <1>4, <2>3, BytesMinus
  <2>5. RamCount'
    BY <2>1, <2>2, <2>4 DEF RamCount
  <2>6. WellOrdered(ramOlder', InRam')
    BY <1>4, <1>10, <2>1, WithoutOrder DEF Discard
  <2>7. RamBudgetKept'
    <3>1. Bytes[InRam \cap {k}] \in Nat /\ ram_used \in Int
      BY <2>3, BytesNat DEF TypeOK
    <3>2. ram_used' <= ram_used /\ ram_used' \in Int
      BY <1>4, <2>2, <3>1
    <3>3. RamBytes \in Int
      BY BoundsAssumption
    <3>4. ram_used' > RamBytes => ram_used > RamBytes
      BY <3>1, <3>2, <3>3
    <3>5. Pinned' = Pinned
      BY <1>10 DEF Discard, Pinned
    <3> QED
      BY <2>1, <3>4, <3>5 DEF RamInv, RamBudgetKept
  <2> QED
    BY <2>5, <2>6, <2>7 DEF RamInv
<1>11. CASE Restart
  <2>1. InRam' = {} /\ ram_used' = 0
    BY <1>11 DEF Restart, InRam
  <2> QED
    BY <2>1, BytesAssumption, BoundsAssumption
       DEF RamInv, RamCount, RamBudgetKept, WellOrdered
<1>12. ASSUME NEW S \in PinSets, Pin(S) PROVE RamInv'
  <2>1. UNCHANGED <<ram, ramOlder, ram_used>>
    BY <1>12 DEF Pin, tiers
  <2>2. \A k \in Keys : pins[k] > 0 => pins'[k] > 0
    BY <1>12 DEF Pin, TypeOK
  <2> QED
    BY <1>1, <2>1, <2>2
<1>13. ASSUME NEW k \in Keys, GetFails(k) PROVE RamInv'
  BY <1>2, <1>13 DEF GetFails
<1>14. CASE Persist \/ Flush \/ FlushReturns
  BY <1>2, <1>14 DEF Persist, Flush, FlushReturns, tiers
<1>15. CASE WriterTakes \/ WriterSkips \/ WriterWrites \/ WriterFails
  BY <1>2, <1>15 DEF WriterTakes, WriterSkips, WriterWrites, WriterFails, tiers
<1>16. CASE WriterRecords
  BY <1>2, <1>16 DEF WriterRecords, RecordCopy, RecordSpill
<1>17. CASE UNCHANGED vars
  BY <1>2, <1>17 DEF vars, tiers
<1> QED
  BY <1>6, <1>7, <1>8, <1>9, <1>10, <1>11, <1>12, <1>13, <1>14, <1>15, <1>16, <1>17
     DEF Next, Writer

(* The count of memory is the length of what is in memory, and memory is   *)
(* over its budget only while all that is left in it is pinned.            *)
THEOREM RamAccounted == Spec => [](RamCount /\ RamBudgetKept)
<1>1. Init => RamInv
  BY BytesAssumption, BoundsAssumption
     DEF Init, RamInv, RamCount, RamBudgetKept, InRam, WellOrdered
<1>2. RamInv => RamCount /\ RamBudgetKept
  BY DEF RamInv
<1> QED
  BY <1>1, <1>2, RamStep, TypeCorrect, PTL DEF Spec

----------------------------------------------------------------------------
(* The tiers, the files and the reports, where no key is put while the     *)
(* store has it (RePut = {}): the keys then move from tier to tier.        *)

Hand(how, k) == writer.pc # "idle" /\ writer.how = how /\ writer.key = k

(* An item of the writer's queue or hand for k.                            *)
Pending(how, k) ==
  (\E i \in DOMAIN queue : queue[i] = [how |-> how, key |-> k]) \/ Hand(how, k)

Kept(t) == {k \in Keys : t[k] = "kept"}

TiersInv ==
  /\ InRam \cap InSpilling = {}
  /\ InSpilling \cap disk = {}
  /\ Kept(told) = Held
  /\ SpillCount
  /\ DiskCount

FilesInv ==
  /\ disk \subseteq OnDisk
  /\ OnDisk \subseteq disk \cup leaked \cup (IF writer.pc = "record" THEN {writer.key} ELSE {})
  /\ writer.pc = "record" => writer.key \in OnDisk \ disk
  /\ writer.pc = "write" /\ writer.how = "spill" => writer.key \notin disk

QueueInv ==
  /\ \A k \in InSpilling : Pending("spill", k)
  /\ \A k \in owed \cap InRam : k \in disk \/ Pending("copy", k)

StoreInv == TiersInv /\ FilesInv /\ QueueInv

(* An eviction from memory splits its keys: those with a file are dropped, *)
(* some move to spilling, each with an item at the queue's end, the rest   *)
(* are lost.                                                               *)
RamMoves(r, order, used, q, p) ==
  \E out, spill \in SUBSET Keys :
    /\ out \subseteq {k \in Keys : r[k] # NoBlob /\ p[k] = 0}
    /\ spill \subseteq out \ disk
    /\ InRam' = {k \in Keys : r[k] # NoBlob} \ out
    /\ InSpilling' = InSpilling \cup spill
    /\ LostFromRam(r, order, used, p) = (out \ disk) \ spill
    /\ spill_used' = spill_used + Bytes[spill]
    /\ \A i \in DOMAIN q : i \in DOMAIN queue' /\ queue'[i] = q[i]
    /\ \A k \in spill : \E i \in DOMAIN queue' : queue'[i] = [how |-> "spill", key |-> k]

LEMMA EvictRamMoves ==
  ASSUME TypeOK, NEW r, NEW order, NEW used, NEW q, NEW p,
         RamArgs(r, order, used, q, p), EvictRam(r, order, used, q, p)
  PROVE  RamMoves(r, order, used, q, p)
<1> DEFINE here  == {k \in Keys : r[k] # NoBlob}
           out   == Evicted(Free(here, p), order, used, RamBytes)
           spill == {k \in out \ disk : HasDisk /\ Bytes[{k}] <= DiskBytes}
<1>1. out \in SUBSET Keys /\ spill \in SUBSET Keys
      /\ out \subseteq {k \in Keys : r[k] # NoBlob /\ p[k] = 0} /\ spill \subseteq out \ disk
  BY DEF Evicted, Free
<1>2. LostFromRam(r, order, used, p) = (out \ disk) \ spill
  BY DEF LostFromRam
<1>3. /\ ram' = [k \in Keys |-> IF k \in out THEN NoBlob ELSE r[k]]
      /\ spilling' = [k \in Keys |-> IF k \in spill THEN r[k] ELSE spilling[k]]
      /\ spill_used' = spill_used + Bytes[spill]
      /\ \E s \in InOrder(spill, order) : queue' = q \o Items("spill", s)
  BY DEF EvictRam
<1> HIDE DEF out, spill
<1>4. InRam' = here \ out /\ InSpilling' = InSpilling \cup spill
  BY <1>1, <1>3 DEF InRam, InSpilling
<1>5. PICK s \in InOrder(spill, order) : queue' = q \o Items("spill", s)
  BY <1>3
<1> DEFINE t == Items("spill", s)
<1>6. q \in Seq(Item) /\ t \in Seq(Item)
  BY <1>1, ItemsType DEF RamArgs
<1>7. \A i \in DOMAIN q : i \in DOMAIN queue' /\ queue'[i] = q[i]
  <2> HIDE DEF t
  <2> QED
    BY <1>5, <1>6
<1>8. ASSUME NEW k \in spill
      PROVE  \E i \in DOMAIN queue' : queue'[i] = [how |-> "spill", key |-> k]
  <2>1. Cardinality(spill) \in Nat
    BY <1>1, KeysAssumption, FS_Subset, FS_CardinalityType
  <2>2. PICK i \in 1..Cardinality(spill) : s[i] = k
    BY DEF InOrder
  <2>3. DOMAIN s = 1..Cardinality(spill)
    BY DEF InOrder
  <2>4. i \in DOMAIN t /\ t[i] = [how |-> "spill", key |-> k]
    BY <2>2, <2>3 DEF Items
  <2>5. DOMAIN t = 1..Len(t) /\ DOMAIN q = 1..Len(q) /\ Len(q) \in Nat /\ Len(t) \in Nat
    <3> HIDE DEF t
    <3> QED
      BY <1>6
  <2> HIDE DEF t
  <2>6. i \in 1..Len(t) /\ i \in Nat
    BY <2>1, <2>4, <2>5
  <2>7. /\ Len(q) + i \in 1..Len(q \o t)
        /\ (q \o t)[Len(q) + i] = t[i]
    BY <1>6, <2>5, <2>6
  <2>8. DOMAIN (q \o t) = 1..Len(q \o t)
    BY <1>6
  <2>9. queue' = q \o t
    BY <1>5 DEF t
  <2> QED
    BY <2>4, <2>7, <2>8, <2>9
<1> QED
  BY <1>1, <1>2, <1>3, <1>4, <1>7, <1>8 DEF RamMoves

(* After an eviction from memory the tiers are still apart, and callers    *)
(* know what is in them.                                                   *)
LEMMA RamSettles ==
  ASSUME TypeOK, NEW r, NEW order, NEW used, NEW q, NEW p, NEW t,
         RamArgs(r, order, used, q, p), EvictRam(r, order, used, q, p),
         InSpilling \cap {k \in Keys : r[k] # NoBlob} = {},
         InSpilling \cap disk = {}, SpillCount,
         Kept(t) = {k \in Keys : r[k] # NoBlob} \cup InSpilling \cup disk
  PROVE  /\ InRam' \subseteq {k \in Keys : r[k] # NoBlob}
         /\ InRam' \cap InSpilling' = {} /\ InSpilling' \cap disk = {}
         /\ SpillCount'
         /\ Kept(Drop(t, LostFromRam(r, order, used, p))) = InRam' \cup InSpilling' \cup disk
         /\ \A i \in DOMAIN q : i \in DOMAIN queue' /\ queue'[i] = q[i]
         /\ \A k \in InSpilling' \ InSpilling :
              \E i \in DOMAIN queue' : queue'[i] = [how |-> "spill", key |-> k]
<1> DEFINE here == {k \in Keys : r[k] # NoBlob}
           lost == LostFromRam(r, order, used, p)
<1>0. RamMoves(r, order, used, q, p)
  BY EvictRamMoves
<1>1. PICK out, spill \in SUBSET Keys :
        /\ out \subseteq {k \in Keys : r[k] # NoBlob /\ p[k] = 0}
        /\ spill \subseteq out \ disk
        /\ InRam' = here \ out
        /\ InSpilling' = InSpilling \cup spill
        /\ lost = (out \ disk) \ spill
        /\ spill_used' = spill_used + Bytes[spill]
        /\ \A i \in DOMAIN q : i \in DOMAIN queue' /\ queue'[i] = q[i]
        /\ \A k \in spill : \E i \in DOMAIN queue' : queue'[i] = [how |-> "spill", key |-> k]
  BY <1>0 DEF RamMoves
<1>2. out \subseteq here /\ here \subseteq Keys
  BY <1>1
<1> HIDE DEF here, lost
<1>3. InSpilling \cap spill = {} /\ InSpilling \in SUBSET Keys
  BY <1>1, <1>2 DEF here, InSpilling
<1>4. SpillCount'
  <2>1. Bytes[InSpilling \cup spill] = Bytes[InSpilling] + Bytes[spill]
    BY <1>1, <1>3, BytesPlus
  <2> QED
    BY <1>1, <2>1 DEF SpillCount
<1>5. Kept(Drop(t, lost)) = Kept(t) \ lost
  BY DEF Kept, Drop
<1>6. Kept(Drop(t, lost)) = InRam' \cup InSpilling' \cup disk
  BY <1>1, <1>2, <1>3, <1>5 DEF here
<1> QED
  BY <1>1, <1>2, <1>3, <1>4, <1>6 DEF here, lost

LEMMA UnlinkMoves ==
  ASSUME NEW S \in SUBSET Keys, NEW f, Unlink(S, f)
  PROVE  /\ OnDisk' \subseteq {k \in Keys : f[k] # NoBlob}
         /\ {k \in Keys : f[k] # NoBlob} \ S \subseteq OnDisk'
         /\ OnDisk' \cap S \subseteq leaked' /\ leaked \subseteq leaked'
BY DEF Unlink, OnDisk

(* The directory f has the files of the index d and no others but those of *)
(* X and those that could not be unlinked.                                 *)
Indexes(d, f, X) ==
  /\ d \subseteq {k \in Keys : f[k] # NoBlob}
  /\ {k \in Keys : f[k] # NoBlob} \subseteq d \cup leaked \cup X

(* After an eviction from disk, from an index d of the files f (X: a file  *)
(* not indexed), the index, the directory, the count and the callers agree.*)
LEMMA DiskSettles ==
  ASSUME NEW d \in SUBSET Keys, NEW order, NEW f, NEW t, NEW X,
         EvictDisk(d, order, Bytes[d], f, t),
         Indexes(d, f, X), InSpilling' \cap d = {},
         Kept(t) = InRam' \cup InSpilling' \cup d
  PROVE  /\ disk' \subseteq d /\ DiskCount'
         /\ InSpilling' \cap disk' = {}
         /\ Kept(told') = InRam' \cup InSpilling' \cup disk'
         /\ disk' \subseteq OnDisk'
         /\ OnDisk' \subseteq disk' \cup leaked' \cup X
         /\ {k \in Keys : f[k] # NoBlob} \ d \subseteq OnDisk'
         /\ \A k \in d \ disk' : k \notin InRam' /\ pins'[k] = 0
<1> DEFINE away == {k \in d : ram'[k] = NoBlob}
           out  == Evicted(Free(away, pins'), order, Bytes[d], DiskBytes)
           lost == {k \in out : spilling'[k] = NoBlob}
<1>1. /\ out \in SUBSET d
      /\ \A k \in out : ram'[k] = NoBlob /\ pins'[k] = 0
  BY DEF Evicted, Free
<1>2. /\ disk' = d \ out /\ disk_used' = Bytes[d] - Bytes[out]
      /\ Unlink(out, f) /\ told' = Drop(t, lost)
  BY DEF EvictDisk
<1>3. lost = out
  BY <1>1 DEF InSpilling
<1> HIDE DEF out, lost
<1>4. out \in SUBSET Keys
  BY <1>1
<1>5. DiskCount'
  <2>1. Bytes[d \ out] = Bytes[d] - Bytes[out]
    BY <1>1, <1>4, BytesMinus
  <2> QED
    BY <1>2, <2>1 DEF DiskCount
<1>6. Kept(told') = Kept(t) \ out
  BY <1>2, <1>3 DEF Kept, Drop
<1>7. out \cap InRam' = {} /\ out \cap InSpilling' = {}
  BY <1>1 DEF InRam
<1>8. Kept(told') = InRam' \cup InSpilling' \cup disk'
  BY <1>1, <1>2, <1>6, <1>7
<1>9. /\ disk' \subseteq OnDisk' /\ OnDisk' \subseteq disk' \cup leaked' \cup X
      /\ {k \in Keys : f[k] # NoBlob} \ d \subseteq OnDisk'
  BY <1>1, <1>2, <1>4, UnlinkMoves DEF Indexes
<1> QED
  BY <1>1, <1>2, <1>5, <1>7, <1>8, <1>9

LEMMA PendingKept ==
  ASSUME \A i \in DOMAIN queue : i \in DOMAIN queue' /\ queue'[i] = queue[i],
         writer' = writer, NEW how, NEW k, Pending(how, k)
  PROVE  Pending(how, k)'
BY DEF Pending, Hand

(* What an eviction from memory makes of the invariant, where the index,   *)
(* the directory and the writer stay: get() and put().                     *)
LEMMA RamEvictionKeeps ==
  ASSUME TypeOK, StoreInv,
         NEW r, NEW order, NEW used, NEW q, NEW t, IsTold(t), NEW k \in Keys,
         RamArgs(r, order, used, q, pins), EvictRam(r, order, used, q, pins),
         {j \in Keys : r[j] # NoBlob} = InRam \cup {k}, k \notin InSpilling,
         k \in disk \/ k \notin owed',
         Kept(t) = Held \cup {k},
         told' = Drop(t, LostFromRam(r, order, used, pins)),
         \A i \in DOMAIN queue : i \in DOMAIN q /\ q[i] = queue[i],
         UNCHANGED <<disk, disk_used, files, writer, leaked>>, owed' \subseteq owed
  PROVE  StoreInv'
<1> DEFINE here == {j \in Keys : r[j] # NoBlob}
<1>1. /\ InSpilling \cap here = {} /\ InSpilling \cap disk = {} /\ SpillCount
      /\ Kept(t) = here \cup InSpilling \cup disk
  BY DEF StoreInv, TiersInv, Held
<1>2. /\ InRam' \subseteq here
      /\ InRam' \cap InSpilling' = {} /\ InSpilling' \cap disk = {}
      /\ SpillCount'
      /\ Kept(Drop(t, LostFromRam(r, order, used, pins))) = InRam' \cup InSpilling' \cup disk
      /\ \A i \in DOMAIN q : i \in DOMAIN queue' /\ queue'[i] = q[i]
      /\ \A j \in InSpilling' \ InSpilling :
           \E i \in DOMAIN queue' : queue'[i] = [how |-> "spill", key |-> j]
  BY <1>1, RamSettles
<1>3. TiersInv'
  BY <1>2 DEF StoreInv, TiersInv, Held, DiskCount, Kept
<1>4. FilesInv'
  BY DEF StoreInv, FilesInv, OnDisk
<1>5. ASSUME NEW how, NEW j, Pending(how, j) PROVE Pending(how, j)'
  BY <1>2, <1>5, PendingKept
<1>6. \A j \in InSpilling' : Pending("spill", j)'
  <2> SUFFICES ASSUME NEW j \in InSpilling' PROVE Pending("spill", j)'
    OBVIOUS
  <2>1. CASE j \in InSpilling
    BY <1>5, <2>1 DEF StoreInv, QueueInv
  <2>2. CASE j \notin InSpilling
    BY <1>2, <2>2 DEF Pending
  <2> QED
    BY <2>1, <2>2
<1>7. \A j \in owed' \cap InRam' : j \in disk' \/ Pending("copy", j)'
  BY <1>2, <1>5 DEF StoreInv, QueueInv
<1> QED
  BY <1>3, <1>4, <1>6, <1>7 DEF StoreInv, QueueInv

LEMMA PutKeeps ==
  ASSUME TypeOK, StoreInv, RePut = {}, NEW k \in Keys, NEW c \in Contents, Put(k, c)
  PROVE  StoreInv'
<1> DEFINE r     == [ram EXCEPT ![k] = c]
           order == Touched(ramOlder, InRam, k)
           used  == ram_used - (IF k \in InRam THEN Bytes[{k}] ELSE 0) + Bytes[{k}]
           q     == IF k \in Durable /\ HasDisk /\ k \notin disk
                    THEN Append(queue, [how |-> "copy", key |-> k]) ELSE queue
           t     == [told EXCEPT ![k] = "kept"]
<1>1. RamArgs(r, order, used, q, pins)
  BY PutArgs
<1>2. /\ EvictRam(r, order, used, q, pins)
      /\ told' = Drop(t, LostFromRam(r, order, used, pins))
      /\ UNCHANGED <<disk, disk_used, files, writer, leaked>> /\ owed' = owed \ {k}
  BY DEF Put
<1>3. k \notin Held
  BY DEF Put
<1>4. IsTold(t) /\ Kept(t) = Held \cup {k}
  BY DEF TypeOK, IsTold, Kept, StoreInv, TiersInv
<1>5. {j \in Keys : r[j] # NoBlob} = InRam \cup {k}
  BY KeysAssumption DEF InRam, TypeOK, IsTier
<1>6. \A i \in DOMAIN queue : i \in DOMAIN q /\ q[i] = queue[i]
  BY DEF TypeOK
<1> HIDE DEF r, order, used, q, t
<1>7. k \notin InSpilling /\ k \notin owed' /\ owed' \subseteq owed
  BY <1>2, <1>3 DEF Held
<1> QED
  BY <1>1, <1>2, <1>4, <1>5, <1>6, <1>7, RamEvictionKeeps

LEMMA GetDiskKeeps ==
  ASSUME TypeOK, StoreInv, NEW k \in Keys, GetDisk(k)
  PROVE  StoreInv'
<1> DEFINE r     == [ram EXCEPT ![k] = files[k]]
           order == Touched(ramOlder, InRam, k)
           used  == ram_used + Bytes[{k}]
<1>1. RamArgs(r, order, used, queue, pins)
  BY GetDiskArgs
<1>2. /\ EvictRam(r, order, used, queue, pins)
      /\ told' = Drop(told, LostFromRam(r, order, used, pins))
      /\ UNCHANGED <<disk, disk_used, files, writer, leaked, owed>>
      /\ k \in disk /\ k \notin InSpilling /\ files[k] # NoBlob
  BY DEF GetDisk, waits
<1>3. IsTold(told) /\ Kept(told) = Held \cup {k}
  BY <1>2 DEF TypeOK, Held, StoreInv, TiersInv
<1>4. {j \in Keys : r[j] # NoBlob} = InRam \cup {k}
  BY <1>2 DEF InRam, TypeOK, IsTier
<1> HIDE DEF r, order, used
<1> QED
  BY <1>1, <1>2, <1>3, <1>4, RamEvictionKeeps

LEMMA UnpinKeeps ==
  ASSUME TypeOK, StoreInv, NEW S \in PinSets, Unpin(S)
  PROVE  StoreInv'
<1> DEFINE p == UnpinnedBy(S)
           t == Drop(told, LostFromRam(ram, ramOlder, ram_used, p))
<1>1. RamArgs(ram, ramOlder, ram_used, queue, p)
  BY DEF RamArgs, TypeOK, UnpinnedBy
<1>2. /\ EvictRam(ram, ramOlder, ram_used, queue, p)
      /\ EvictDisk(disk, diskOlder, disk_used, files, t)
      /\ UNCHANGED <<writer, owed>>
  BY DEF Unpin, waits
<1>3. {k \in Keys : ram[k] # NoBlob} = InRam /\ InRam \in SUBSET Keys
  BY DEF InRam
<1>4. /\ InSpilling \cap InRam = {} /\ InSpilling \cap disk = {} /\ SpillCount
      /\ Kept(told) = InRam \cup InSpilling \cup disk /\ IsTold(told)
      /\ disk_used = Bytes[disk]
  BY DEF StoreInv, TiersInv, Held, TypeOK, DiskCount
<1> HIDE DEF p
<1>5. /\ InRam' \subseteq InRam
      /\ InRam' \cap InSpilling' = {} /\ InSpilling' \cap disk = {}
      /\ SpillCount'
      /\ Kept(t) = InRam' \cup InSpilling' \cup disk
      /\ \A i \in DOMAIN queue : i \in DOMAIN queue' /\ queue'[i] = queue[i]
      /\ \A k \in InSpilling' \ InSpilling :
           \E i \in DOMAIN queue' : queue'[i] = [how |-> "spill", key |-> k]
  BY <1>1, <1>2, <1>3, <1>4, RamSettles
<1> HIDE DEF t
<1> DEFINE X == IF writer.pc = "record" THEN {writer.key} ELSE {}
<1>6. disk \in SUBSET Keys /\ Indexes(disk, files, X)
  BY DEF Indexes, StoreInv, FilesInv, OnDisk, TypeOK
<1>7. EvictDisk(disk, diskOlder, Bytes[disk], files, t)
  BY <1>2, <1>4
<1> HIDE DEF X
<1>8. /\ disk' \subseteq disk /\ DiskCount'
      /\ InSpilling' \cap disk' = {}
      /\ Kept(told') = InRam' \cup InSpilling' \cup disk'
      /\ disk' \subseteq OnDisk'
      /\ OnDisk' \subseteq disk' \cup leaked' \cup X
      /\ {k \in Keys : files[k] # NoBlob} \ disk \subseteq OnDisk'
      /\ \A k \in disk \ disk' : k \notin InRam' /\ pins'[k] = 0
  <2>1. InSpilling' \cap disk = {} /\ Kept(t) = InRam' \cup InSpilling' \cup disk
    BY <1>5
  <2> QED
    BY <1>6, <1>7, <2>1, DiskSettles
<1>9. TiersInv'
  BY <1>5, <1>8 DEF TiersInv, Held, Kept
<1>10. FilesInv'
  <2>1. writer.pc = "record" => writer.key \in OnDisk'
    BY <1>8 DEF StoreInv, FilesInv, OnDisk
  <2> QED
    BY <1>2, <1>8, <2>1 DEF X, StoreInv, FilesInv
<1>11. ASSUME NEW how, NEW j, Pending(how, j) PROVE Pending(how, j)'
  BY <1>2, <1>5, <1>11, PendingKept
<1>12. \A j \in InSpilling' : Pending("spill", j)'
  <2> SUFFICES ASSUME NEW j \in InSpilling' PROVE Pending("spill", j)'
    OBVIOUS
  <2>1. CASE j \in InSpilling
    BY <1>11, <2>1 DEF StoreInv, QueueInv
  <2>2. CASE j \notin InSpilling
    BY <1>5, <2>2 DEF Pending
  <2> QED
    BY <2>1, <2>2
<1>13. \A j \in owed' \cap InRam' : j \in disk' \/ Pending("copy", j)'
  BY <1>2, <1>5, <1>8, <1>11 DEF StoreInv, QueueInv
<1> QED
  BY <1>9, <1>10, <1>12, <1>13 DEF StoreInv, QueueInv

LEMMA GetFailsKeeps ==
  ASSUME TypeOK, StoreInv, NEW k \in Keys, GetFails(k)
  PROVE  StoreInv'
<1>1. /\ k \in disk \ (InRam \cup InSpilling) /\ disk' = disk \ {k}
      /\ disk_used' = disk_used - Bytes[{k}]
      /\ Unlink({k}, files) /\ told' = Drop(told, {k})
      /\ UNCHANGED <<ram, spilling, spill_used, queue, writer, owed>>
  BY DEF GetFails, worker, waits
<1>2. DiskCount'
  <2>1. {k} \in SUBSET Keys /\ disk \in SUBSET Keys /\ {k} \subseteq disk
    BY <1>1 DEF TypeOK
  <2>2. Bytes[disk \ {k}] = Bytes[disk] - Bytes[{k}]
    BY <2>1, BytesMinus
  <2> QED
    BY <1>1, <2>2 DEF StoreInv, TiersInv, DiskCount
<1>3. Kept(told') = Kept(told) \ {k}
  BY <1>1 DEF Kept, Drop
<1>4. TiersInv'
  BY <1>1, <1>2, <1>3 DEF StoreInv, TiersInv, Held, InRam, InSpilling, SpillCount, Kept
<1>5. FilesInv'
  <2>1. /\ OnDisk' \subseteq OnDisk /\ OnDisk \ {k} \subseteq OnDisk'
        /\ OnDisk' \cap {k} \subseteq leaked' /\ leaked \subseteq leaked'
    <3>1. {k} \in SUBSET Keys
      OBVIOUS
    <3> QED
      BY <1>1, <3>1, UnlinkMoves DEF OnDisk
  <2> QED
    BY <1>1, <2>1 DEF StoreInv, FilesInv
<1>6. QueueInv'
  BY <1>1 DEF StoreInv, QueueInv, Pending, Hand, InRam, InSpilling
<1> QED
  BY <1>4, <1>5, <1>6 DEF StoreInv

LEMMA DiscardKeeps ==
  ASSUME TypeOK, StoreInv, NEW k \in Keys, Discard(k)
  PROVE  StoreInv'
<1>1. /\ InRam' = InRam \ {k} /\ InSpilling' = InSpilling \ {k}
  BY DEF Discard, InRam, InSpilling, TypeOK, IsTier
<1>2. /\ disk' = disk \ {k}
      /\ spill_used' = spill_used - Bytes[InSpilling \cap {k}]
      /\ disk_used' = disk_used - Bytes[disk \cap {k}]
      /\ Unlink(disk \cap {k}, files) /\ told' = [told EXCEPT ![k] = "none"]
      /\ UNCHANGED <<queue, writer>> /\ owed' = owed \ {k}
  BY DEF Discard
<1>3. SpillCount' /\ DiskCount'
  <2>1. /\ InSpilling \in SUBSET Keys /\ disk \in SUBSET Keys
        /\ InSpilling \cap {k} \in SUBSET Keys /\ disk \cap {k} \in SUBSET Keys
    BY DEF InSpilling, TypeOK
  <2>2. /\ Bytes[InSpilling \ (InSpilling \cap {k})]
             = Bytes[InSpilling] - Bytes[InSpilling \cap {k}]
        /\ Bytes[disk \ (disk \cap {k})] = Bytes[disk] - Bytes[disk \cap {k}]
    BY <2>1, BytesMinus
  <2>3. InSpilling' = InSpilling \ (InSpilling \cap {k}) /\ disk' = disk \ (disk \cap {k})
    BY <1>1, <1>2
  <2> QED
    BY <1>2, <2>2, <2>3 DEF StoreInv, TiersInv, SpillCount, DiskCount
<1>4. Kept(told') = Kept(told) \ {k}
  BY <1>2 DEF Kept, TypeOK, IsTold
<1>5. TiersInv'
  BY <1>1, <1>2, <1>3, <1>4 DEF StoreInv, TiersInv, Held, Kept
<1>6. FilesInv'
  <2> DEFINE S == disk \cap {k}
  <2>1. /\ OnDisk' \subseteq OnDisk /\ OnDisk \ S \subseteq OnDisk'
        /\ OnDisk' \cap S \subseteq leaked' /\ leaked \subseteq leaked'
    <3>1. S \in SUBSET Keys
      OBVIOUS
    <3>2. Unlink(S, files)
      BY <1>2
    <3> HIDE DEF S
    <3> QED
      BY <3>1, <3>2, UnlinkMoves DEF OnDisk
  <2> QED
    BY <1>2, <2>1 DEF StoreInv, FilesInv
<1>7. QueueInv'
  BY <1>1, <1>2 DEF StoreInv, QueueInv, Pending, Hand
<1> QED
  BY <1>5, <1>6, <1>7 DEF StoreInv

(* persist() only adds to the queue.                                       *)
LEMMA PersistAdds ==
  ASSUME TypeOK, Persist
  PROVE  \A i \in DOMAIN queue : i \in DOMAIN queue' /\ queue'[i] = queue[i]
<1> DEFINE missing == InRam \ disk
<1>1. PICK s \in InOrder(missing, ramOlder) : queue' = queue \o Items("copy", s)
  BY DEF Persist
<1> DEFINE t == Items("copy", s)
<1>2. missing \in SUBSET Keys
  BY DEF InRam
<1>3. queue \in Seq(Item) /\ t \in Seq(Item) /\ queue' = queue \o t
  BY <1>1, <1>2, ItemsType DEF TypeOK
<1> HIDE DEF t
<1> QED
  BY <1>3

LEMMA PersistQueues ==
  ASSUME TypeOK, StoreInv, Persist
  PROVE  StoreInv'
<1> DEFINE missing == InRam \ disk
<1>1. PICK s \in InOrder(missing, ramOlder) : queue' = queue \o Items("copy", s)
  BY DEF Persist
<1> DEFINE t == Items("copy", s)
<1>2. queue \in Seq(Item) /\ t \in Seq(Item) /\ missing \in SUBSET Keys
  <2>1. missing \in SUBSET Keys
    BY DEF InRam
  <2> QED
    BY <2>1, ItemsType DEF TypeOK
<1>3. UNCHANGED <<ram, spilling, spill_used, disk, disk_used, files, told, leaked, writer>>
      /\ owed' = missing
  BY DEF Persist, tiers
<1>4. \A i \in DOMAIN queue : i \in DOMAIN queue' /\ queue'[i] = queue[i]
  BY PersistAdds
<1>5. ASSUME NEW k \in missing
      PROVE  \E i \in DOMAIN queue' : queue'[i] = [how |-> "copy", key |-> k]
  <2>1. Cardinality(missing) \in Nat
    BY <1>2, KeysAssumption, FS_Subset, FS_CardinalityType
  <2>2. PICK i \in 1..Cardinality(missing) : s[i] = k
    BY DEF InOrder
  <2>3. DOMAIN s = 1..Cardinality(missing)
    BY DEF InOrder
  <2>4. i \in DOMAIN t /\ t[i] = [how |-> "copy", key |-> k]
    BY <2>2, <2>3 DEF Items
  <2>5. queue' = queue \o t
    BY <1>1
  <2> HIDE DEF t, missing
  <2>6. DOMAIN t = 1..Len(t) /\ Len(queue) \in Nat /\ Len(t) \in Nat
    BY <1>2
  <2>7. i \in 1..Len(t) /\ i \in Nat
    BY <2>1, <2>4, <2>6
  <2>8. /\ Len(queue) + i \in 1..Len(queue \o t)
        /\ (queue \o t)[Len(queue) + i] = t[i]
    BY <1>2, <2>6, <2>7
  <2>9. DOMAIN (queue \o t) = 1..Len(queue \o t)
    BY <1>2
  <2> QED
    BY <2>4, <2>5, <2>8, <2>9
<1>6. TiersInv' /\ FilesInv'
  BY <1>3 DEF StoreInv, TiersInv, FilesInv, Held, InRam, InSpilling, OnDisk,
              SpillCount, DiskCount, Kept
<1>7. \A k \in InSpilling' : Pending("spill", k)'
  <2>1. InSpilling' = InSpilling
    BY <1>3 DEF InSpilling
  <2> QED
    BY <1>3, <1>4, <2>1, PendingKept DEF StoreInv, QueueInv
<1>8. \A k \in owed' : Pending("copy", k)'
  BY <1>3, <1>5 DEF Pending
<1> QED
  BY <1>6, <1>7, <1>8 DEF StoreInv, QueueInv

(* The item the writer takes is what is pending no more, where its blob is *)
(* not where the item says.                                                *)
LEMMA TakenPending ==
  ASSUME TypeOK, WriterTakes, NEW how, NEW k, Pending(how, k)
  PROVE  \/ Pending(how, k)'
         \/ Head(queue) = [how |-> how, key |-> k] /\ Source(Head(queue)) = NoBlob
<1> DEFINE item == Head(queue)
<1>1. /\ writer.pc = "idle" /\ queue # <<>> /\ queue' = Tail(queue)
      /\ writer' = IF Source(item) = NoBlob THEN NoItem
                   ELSE [pc |-> "write", how |-> item.how, key |-> item.key,
                         data |-> Source(item)]
  BY DEF WriterTakes
<1>2. item \in Item /\ queue \in Seq(Item)
  BY <1>1 DEF TypeOK
<1>3. PICK i \in DOMAIN queue : queue[i] = [how |-> how, key |-> k]
  BY <1>1 DEF Pending, Hand
<1>4. CASE i = 1
  <2>1. item = [how |-> how, key |-> k]
    BY <1>1, <1>2, <1>3, <1>4
  <2>2. item.how = how /\ item.key = k
    BY <2>1
  <2>3. Source(item) # NoBlob => Hand(how, k)'
    BY <1>1, <2>2 DEF Hand
  <2> QED
    BY <2>1, <2>3 DEF Pending
<1>5. CASE i # 1
  <2>1. i - 1 \in DOMAIN Tail(queue) /\ Tail(queue)[i - 1] = queue[i]
    BY <1>1, <1>2, <1>3, <1>5
  <2> QED
    BY <1>1, <1>3, <2>1 DEF Pending
<1> QED
  BY <1>4, <1>5

LEMMA WriterTakesKeeps ==
  ASSUME TypeOK, StoreInv, WriterTakes
  PROVE  StoreInv'
<1> DEFINE item == Head(queue)
<1>1. /\ writer.pc = "idle" /\ queue # <<>> /\ queue' = Tail(queue)
      /\ UNCHANGED <<ram, spilling, spill_used, disk, disk_used, files, told, leaked, owed>>
      /\ writer' = IF Source(item) = NoBlob THEN NoItem
                   ELSE [pc |-> "write", how |-> item.how, key |-> item.key,
                         data |-> Source(item)]
  BY DEF WriterTakes, tiers, waits
<1>2. item \in Item /\ queue \in Seq(Item)
  BY <1>1 DEF TypeOK
<1>3. ASSUME NEW how, NEW k, Pending(how, k)
      PROVE  \/ Pending(how, k)'
             \/ item = [how |-> how, key |-> k] /\ Source(item) = NoBlob
  BY <1>3, TakenPending
<1>4. TiersInv'
  BY <1>1 DEF StoreInv, TiersInv, Held, InRam, InSpilling, SpillCount, DiskCount, Kept
<1>5. FilesInv'
  <2>1. writer'.pc # "record"
    BY <1>1 DEF NoItem
  <2>2. writer'.pc = "write" /\ writer'.how = "spill" => writer'.key \in InSpilling
    BY <1>1, <1>2 DEF NoItem, Source, InSpilling, Item
  <2>3. InSpilling \cap disk = {}
    BY DEF StoreInv, TiersInv
  <2>4. OnDisk' = OnDisk
    BY <1>1 DEF OnDisk
  <2> QED
    BY <1>1, <2>1, <2>2, <2>3, <2>4 DEF StoreInv, FilesInv
<1>6. QueueInv'
  <2>1. InSpilling' = InSpilling /\ InRam' = InRam
    BY <1>1 DEF InSpilling, InRam
  <2>2. ASSUME NEW k \in InSpilling PROVE Pending("spill", k)'
    BY <1>3, <2>2 DEF StoreInv, QueueInv, Source, InSpilling
  <2>3. ASSUME NEW k \in owed \cap InRam, k \notin disk PROVE Pending("copy", k)'
    BY <1>3, <2>3 DEF StoreInv, QueueInv, Source, InRam
  <2> QED
    BY <1>1, <2>1, <2>2, <2>3 DEF QueueInv
<1> QED
  BY <1>4, <1>5, <1>6 DEF StoreInv

(* The end of the writer's item: what else is pending stays.               *)
LEMMA PendingElse ==
  ASSUME UNCHANGED queue, NEW how, NEW k, Pending(how, k),
         writer.how # how \/ writer.key # k
  PROVE  Pending(how, k)'
BY DEF Pending, Hand

LEMMA WriterSkipsKeeps ==
  ASSUME TypeOK, StoreInv, WriterSkips
  PROVE  StoreInv'
<1>1. /\ writer.pc = "write" /\ writer.how = "copy" /\ writer.key \in disk
      /\ writer' = NoItem
      /\ UNCHANGED <<ram, spilling, spill_used, disk, disk_used, files, told, leaked, owed, queue>>
  BY DEF WriterSkips, tiers, waits
<1>2. TiersInv' /\ FilesInv'
  BY <1>1 DEF StoreInv, TiersInv, FilesInv, Held, InRam, InSpilling, OnDisk,
              SpillCount, DiskCount, Kept, NoItem
<1>3. InSpilling' = InSpilling /\ InRam' = InRam
  BY <1>1 DEF InSpilling, InRam
<1>4. QueueInv'
  BY <1>1, <1>3, PendingElse DEF StoreInv, QueueInv
<1> QED
  BY <1>2, <1>4 DEF StoreInv

LEMMA WriterWritesKeeps ==
  ASSUME TypeOK, StoreInv, WriterWrites
  PROVE  StoreInv'
<1>1. /\ writer.pc = "write" /\ writer.key \in Keys /\ writer.data \in Contents
      /\ writer.how \in {"copy", "spill"}
      /\ writer' = [writer EXCEPT !.pc = "record"]
  BY DEF WriterWrites, MayWrite, TypeOK, NoItem
<1>2. /\ files' = [files EXCEPT ![writer.key] = writer.data]
      /\ UNCHANGED <<ram, spilling, spill_used, disk, disk_used, told, leaked, owed, queue>>
  BY DEF WriterWrites, waits
<1>3. writer.key \notin disk
  BY <1>1 DEF WriterWrites, MayWrite, StoreInv, FilesInv
<1>4. OnDisk' = OnDisk \cup {writer.key}
  BY <1>1, <1>2, KeysAssumption DEF OnDisk, TypeOK, IsTier
<1>5. writer'.pc = "record" /\ writer'.key = writer.key /\ writer'.how = writer.how
  BY <1>1 DEF TypeOK, NoItem
<1>6. TiersInv'
  BY <1>2 DEF StoreInv, TiersInv, Held, InRam, InSpilling, SpillCount, DiskCount, Kept
<1>7. FilesInv'
  BY <1>1, <1>2, <1>3, <1>4, <1>5 DEF StoreInv, FilesInv
<1>8. InSpilling' = InSpilling /\ InRam' = InRam
  BY <1>2 DEF InSpilling, InRam
<1>9. ASSUME NEW how, NEW k, Pending(how, k) PROVE Pending(how, k)'
  BY <1>2, <1>5, <1>9 DEF Pending, Hand
<1>10. QueueInv'
  BY <1>2, <1>8, <1>9 DEF StoreInv, QueueInv
<1> QED
  BY <1>6, <1>7, <1>10 DEF StoreInv

LEMMA WriterFailsKeeps ==
  ASSUME TypeOK, StoreInv, WriterFails
  PROVE  StoreInv'
<1> DEFINE k == writer.key
<1>1. /\ writer.pc = "write" /\ spilling' = [spilling EXCEPT ![k] = NoBlob]
      /\ spill_used' = spill_used - Bytes[InSpilling \cap {k}]
      /\ told' = Drop(told, InSpilling \cap {k}) /\ owed' = owed \ {k} /\ writer' = NoItem
      /\ UNCHANGED <<ram, disk, disk_used, files, queue, leaked>>
  BY DEF WriterFails, MayWrite
<1>2. InSpilling' = InSpilling \ {k} /\ InRam' = InRam /\ OnDisk' = OnDisk
  BY <1>1 DEF InSpilling, InRam, OnDisk, TypeOK, IsTier
<1>3. SpillCount'
  <2>1. InSpilling \in SUBSET Keys /\ InSpilling \cap {k} \in SUBSET Keys
    BY DEF InSpilling
  <2>2. Bytes[InSpilling \ (InSpilling \cap {k})]
          = Bytes[InSpilling] - Bytes[InSpilling \cap {k}]
    BY <2>1, BytesMinus
  <2>3. InSpilling' = InSpilling \ (InSpilling \cap {k})
    BY <1>2
  <2> QED
    BY <1>1, <2>2, <2>3 DEF StoreInv, TiersInv, SpillCount
<1>4. Kept(told') = Kept(told) \ (InSpilling \cap {k})
  BY <1>1 DEF Kept, Drop
<1>5. TiersInv'
  BY <1>1, <1>2, <1>3, <1>4 DEF StoreInv, TiersInv, Held, DiskCount, Kept
<1>6. FilesInv'
  BY <1>1, <1>2 DEF StoreInv, FilesInv, NoItem
<1>7. QueueInv'
  <2>1. ASSUME NEW j \in InSpilling' PROVE Pending("spill", j)'
    BY <1>1, <1>2, <2>1, PendingElse DEF StoreInv, QueueInv
  <2>2. ASSUME NEW j \in owed' \cap InRam', j \notin disk PROVE Pending("copy", j)'
    BY <1>1, <1>2, <2>2, PendingElse DEF StoreInv, QueueInv
  <2> QED
    BY <1>1, <2>1, <2>2 DEF QueueInv
<1> QED
  BY <1>5, <1>6, <1>7 DEF StoreInv

(* The file of the writer's item k is indexed and the disk tier evicted:   *)
(* memory (ram') has k, or spilling' no longer does.                       *)
LEMMA IndexingKeeps ==
  ASSUME TypeOK, StoreInv, NEW k \in Keys, NEW order, k \notin disk,
         writer.pc = "record", writer.key = k, writer' = NoItem,
         EvictDisk(disk \cup {k}, order, disk_used + Bytes[{k}], files, told),
         UNCHANGED ram, k \notin InSpilling', InSpilling' \cup {k} = InSpilling \cup {k},
         k \in InRam \cup InSpilling
  PROVE  /\ DiskCount' /\ InRam' \cap InSpilling' = {} /\ InSpilling' \cap disk' = {}
         /\ Kept(told') = Held' /\ FilesInv'
         /\ disk \cap InRam \subseteq disk' /\ (k \in InRam => k \in disk')
<1> DEFINE d == disk \cup {k}
<1>1. d \in SUBSET Keys /\ disk_used + Bytes[{k}] = Bytes[d]
  <2>1. disk \in SUBSET Keys /\ {k} \in SUBSET Keys /\ disk \cap {k} = {}
    BY DEF TypeOK
  <2>2. Bytes[disk \cup {k}] = Bytes[disk] + Bytes[{k}]
    BY <2>1, BytesPlus
  <2> QED
    BY <2>1, <2>2 DEF StoreInv, TiersInv, DiskCount
<1>2. Indexes(d, files, {}) /\ EvictDisk(d, order, Bytes[d], files, told)
  BY <1>1 DEF Indexes, StoreInv, FilesInv, OnDisk
<1>3. InRam' = InRam /\ InRam \cap InSpilling' = {}
  BY DEF InRam, StoreInv, TiersInv, InSpilling
<1>4. InSpilling' \cap d = {} /\ Kept(told) = InRam' \cup InSpilling' \cup d
  BY <1>3 DEF StoreInv, TiersInv, Held
<1> HIDE DEF d
<1>5. /\ disk' \subseteq d /\ DiskCount'
      /\ InSpilling' \cap disk' = {}
      /\ Kept(told') = InRam' \cup InSpilling' \cup disk'
      /\ disk' \subseteq OnDisk'
      /\ OnDisk' \subseteq disk' \cup leaked' \cup {}
      /\ \A j \in d \ disk' : j \notin InRam' /\ pins'[j] = 0
  BY <1>1, <1>2, <1>4, DiskSettles
<1>6. FilesInv'
  BY <1>5 DEF FilesInv, NoItem
<1> QED
  BY <1>3, <1>5, <1>6 DEF Held, d

LEMMA RecordCopyKeeps ==
  ASSUME TypeOK, StoreInv, WriterRecords, writer.how = "copy"
  PROVE  StoreInv'
<1> DEFINE k == writer.key
<1>1. /\ writer.pc = "record" /\ k \in Keys /\ writer' = NoItem
      /\ UNCHANGED <<ram, spilling, spill_used, pins, queue, owed>>
      /\ RecordCopy(k)
  BY DEF WriterRecords, RecordCopy, waits, TypeOK, NoItem
<1>2. InRam' = InRam /\ InSpilling' = InSpilling /\ SpillCount' /\ k \notin disk
  BY <1>1 DEF InRam, InSpilling, StoreInv, TiersInv, SpillCount, FilesInv
<1>3. QueueInv' \/ ~ (disk \cap InRam \subseteq disk' /\ (k \in InRam => k \in disk'))
  <2> SUFFICES ASSUME disk \cap InRam \subseteq disk', k \in InRam => k \in disk'
               PROVE  QueueInv'
    OBVIOUS
  <2>1. ASSUME NEW j \in InSpilling PROVE Pending("spill", j)'
    BY <1>1, <2>1, PendingElse DEF StoreInv, QueueInv
  <2>2. ASSUME NEW j \in owed \cap InRam, j \notin disk' PROVE Pending("copy", j)'
    BY <1>1, <2>2, PendingElse DEF StoreInv, QueueInv
  <2> QED
    BY <1>1, <1>2, <2>1, <2>2 DEF QueueInv
<1>4. CASE k \in InRam \ disk
  <2>1. EvictDisk(disk \cup {k}, Indexed(k), disk_used + Bytes[{k}], files, told)
    BY <1>1, <1>4 DEF RecordCopy
  <2>2. k \notin InSpilling
    BY <1>4 DEF StoreInv, TiersInv
  <2>3. /\ DiskCount' /\ InRam' \cap InSpilling' = {} /\ InSpilling' \cap disk' = {}
        /\ Kept(told') = Held' /\ FilesInv'
        /\ disk \cap InRam \subseteq disk' /\ (k \in InRam => k \in disk')
    BY <1>1, <1>2, <1>4, <2>1, <2>2, IndexingKeeps
  <2>4. TiersInv'
    BY <1>2, <2>3 DEF TiersInv
  <2>5. QueueInv'
    BY <1>3, <2>3
  <2> QED
    BY <2>3, <2>4, <2>5 DEF StoreInv
<1>5. CASE k \notin InRam
  <2>1. Unlink({k}, files) /\ UNCHANGED <<disk, disk_used, told>>
    BY <1>1, <1>2, <1>5 DEF RecordCopy
  <2>2. TiersInv'
    BY <1>2, <2>1 DEF StoreInv, TiersInv, Held, DiskCount, Kept
  <2>3. /\ OnDisk' \subseteq OnDisk /\ OnDisk \ {k} \subseteq OnDisk'
        /\ OnDisk' \cap {k} \subseteq leaked' /\ leaked \subseteq leaked'
    <3>1. {k} \in SUBSET Keys
      BY <1>1
    <3> QED
      BY <2>1, <3>1, UnlinkMoves DEF OnDisk
  <2>4. FilesInv'
    BY <1>1, <1>2, <2>1, <2>3 DEF StoreInv, FilesInv, NoItem
  <2> QED
    BY <1>3, <1>5, <2>1, <2>2, <2>4 DEF StoreInv
<1> QED
  BY <1>2, <1>4, <1>5

LEMMA RecordSpillKeeps ==
  ASSUME TypeOK, StoreInv, WriterRecords, writer.how = "spill"
  PROVE  StoreInv'
<1> DEFINE k == writer.key
<1>1. /\ writer.pc = "record" /\ k \in Keys /\ writer' = NoItem
      /\ UNCHANGED <<ram, pins, queue, owed>>
      /\ RecordSpill(k)
  BY DEF WriterRecords, RecordSpill, waits, TypeOK, NoItem
<1>2. InRam' = InRam /\ k \notin disk
  BY <1>1 DEF InRam, StoreInv, FilesInv
<1>3. QueueInv' \/ ~ (disk \cap InRam \subseteq disk' /\ InSpilling' \subseteq InSpilling \ {k})
  <2> SUFFICES ASSUME disk \cap InRam \subseteq disk', InSpilling' \subseteq InSpilling \ {k}
               PROVE  QueueInv'
    OBVIOUS
  <2>1. ASSUME NEW j \in InSpilling \ {k} PROVE Pending("spill", j)'
    BY <1>1, <2>1, PendingElse DEF StoreInv, QueueInv
  <2>2. ASSUME NEW j \in owed \cap InRam, j \notin disk' PROVE Pending("copy", j)'
    BY <1>1, <2>2, PendingElse DEF StoreInv, QueueInv
  <2> QED
    BY <1>1, <1>2, <2>1, <2>2 DEF QueueInv
<1>4. CASE k \in InSpilling
  <2>1. /\ EvictDisk(disk \cup {k}, Indexed(k), disk_used + Bytes[{k}], files, told)
        /\ spilling' = [spilling EXCEPT ![k] = NoBlob]
        /\ spill_used' = spill_used - Bytes[{k}]
    BY <1>1, <1>4 DEF RecordSpill
  <2>2. InSpilling' = InSpilling \ {k}
    BY <2>1 DEF InSpilling, TypeOK, IsTier
  <2>3. SpillCount'
    <3>1. {k} \in SUBSET Keys /\ InSpilling \in SUBSET Keys /\ {k} \subseteq InSpilling
      BY <1>1, <1>4 DEF InSpilling
    <3>2. Bytes[InSpilling \ {k}] = Bytes[InSpilling] - Bytes[{k}]
      BY <3>1, BytesMinus
    <3> QED
      BY <2>1, <2>2, <3>2 DEF StoreInv, TiersInv, SpillCount
  <2>4. k \notin InSpilling' /\ InSpilling' \cup {k} = InSpilling \cup {k}
    BY <2>2
  <2>5. /\ DiskCount' /\ InRam' \cap InSpilling' = {} /\ InSpilling' \cap disk' = {}
        /\ Kept(told') = Held' /\ FilesInv'
        /\ disk \cap InRam \subseteq disk' /\ (k \in InRam => k \in disk')
    BY <1>1, <1>2, <1>4, <2>1, <2>4, IndexingKeeps
  <2>6. TiersInv'
    BY <2>3, <2>5 DEF TiersInv
  <2>7. QueueInv'
    BY <1>3, <2>2, <2>5
  <2> QED
    BY <2>5, <2>6, <2>7 DEF StoreInv
<1>5. CASE k \notin InSpilling
  <2>1. Unlink({k}, files) /\ UNCHANGED <<spilling, spill_used, disk, disk_used, told>>
    BY <1>1, <1>5 DEF RecordSpill
  <2>2. InSpilling' = InSpilling
    BY <2>1 DEF InSpilling
  <2>3. TiersInv'
    BY <1>2, <2>1, <2>2 DEF StoreInv, TiersInv, Held, DiskCount, SpillCount, Kept
  <2>4. /\ OnDisk' \subseteq OnDisk /\ OnDisk \ {k} \subseteq OnDisk'
        /\ OnDisk' \cap {k} \subseteq leaked' /\ leaked \subseteq leaked'
    <3>1. {k} \in SUBSET Keys
      BY <1>1
    <3> QED
      BY <2>1, <3>1, UnlinkMoves DEF OnDisk
  <2>5. FilesInv'
    BY <1>1, <1>2, <2>1, <2>4 DEF StoreInv, FilesInv, NoItem
  <2> QED
    BY <1>3, <1>5, <2>1, <2>2, <2>3, <2>5 DEF StoreInv
<1> QED
  BY <1>4, <1>5

LEMMA RestartKeeps ==
  ASSUME TypeOK, Restart
  PROVE  StoreInv'
<1> DEFINE t == [k \in Keys |-> IF k \in OnDisk THEN "kept" ELSE "none"]
<1>1. PICK o \in Orders :
        EvictDisk(OnDisk, [k \in Keys |-> IF k \in OnDisk THEN o[k] \cap OnDisk ELSE {}],
                  Bytes[OnDisk], files, t)
  BY DEF Restart
<1>2. /\ InRam' = {} /\ InSpilling' = {} /\ spill_used' = 0
      /\ queue' = <<>> /\ writer' = NoItem /\ owed' = {}
  BY DEF Restart, InRam, InSpilling
<1>3. OnDisk \in SUBSET Keys /\ Indexes(OnDisk, files, {})
  BY DEF OnDisk, Indexes
<1>4. Kept(t) = InRam' \cup InSpilling' \cup OnDisk /\ InSpilling' \cap OnDisk = {}
  BY <1>2 DEF Kept, OnDisk
<1> HIDE DEF t
<1>5. /\ DiskCount' /\ InSpilling' \cap disk' = {}
      /\ Kept(told') = InRam' \cup InSpilling' \cup disk'
      /\ disk' \subseteq OnDisk'
      /\ OnDisk' \subseteq disk' \cup leaked' \cup {}
  BY <1>1, <1>3, <1>4, DiskSettles
<1>6. TiersInv'
  BY <1>2, <1>5, BytesAssumption DEF TiersInv, Held, SpillCount
<1>7. FilesInv' /\ QueueInv'
  BY <1>2, <1>5 DEF FilesInv, QueueInv, NoItem
<1> QED
  BY <1>6, <1>7 DEF StoreInv

LEMMA StoreStep ==
  ASSUME RePut = {}
  PROVE  TypeOK /\ StoreInv /\ [Next]_vars => StoreInv'
<1> SUFFICES ASSUME TypeOK, StoreInv, [Next]_vars PROVE StoreInv'
  OBVIOUS
<1>1. ASSUME NEW k \in Keys, NEW c \in Contents, Put(k, c) PROVE StoreInv'
  BY <1>1, PutKeeps
<1>2. ASSUME UNCHANGED <<ram, spilling, spill_used, disk, disk_used, files, told, leaked,
                         queue, writer>>, owed' \subseteq owed
      PROVE  StoreInv'
  <2>1. TiersInv' /\ FilesInv'
    BY <1>2 DEF StoreInv, TiersInv, FilesInv, Held, InRam, InSpilling, OnDisk,
                SpillCount, DiskCount, Kept
  <2>2. InSpilling' = InSpilling /\ InRam' = InRam
    BY <1>2 DEF InSpilling, InRam
  <2>3. ASSUME NEW how, NEW k, Pending(how, k) PROVE Pending(how, k)'
    BY <1>2, <2>3 DEF Pending, Hand
  <2>4. QueueInv'
    BY <1>2, <2>2, <2>3 DEF StoreInv, QueueInv
  <2> QED
    BY <2>1, <2>4 DEF StoreInv
<1>3. ASSUME NEW k \in Keys, GetRam(k) PROVE StoreInv'
  BY <1>2, <1>3 DEF GetRam, worker, waits
<1>4. ASSUME NEW k \in Keys, GetDisk(k) PROVE StoreInv'
  BY <1>4, GetDiskKeeps
<1>5. ASSUME NEW k \in Keys, GetFails(k) PROVE StoreInv'
  BY <1>5, GetFailsKeeps
<1>6. ASSUME NEW k \in Keys, Discard(k) PROVE StoreInv'
  BY <1>6, DiscardKeeps
<1>7. ASSUME NEW S \in PinSets, Pin(S) PROVE StoreInv'
  BY <1>2, <1>7 DEF Pin, tiers, worker, waits
<1>8. ASSUME NEW S \in PinSets, Unpin(S) PROVE StoreInv'
  BY <1>8, UnpinKeeps
<1>9. CASE Persist
  BY <1>9, PersistQueues
<1>10. CASE Flush \/ FlushReturns
  BY <1>2, <1>10 DEF Flush, FlushReturns, tiers, worker
<1>11. CASE WriterTakes
  BY <1>11, WriterTakesKeeps
<1>12. CASE WriterSkips
  BY <1>12, WriterSkipsKeeps
<1>13. CASE WriterWrites
  BY <1>13, WriterWritesKeeps
<1>14. CASE WriterFails
  BY <1>14, WriterFailsKeeps
<1>15. CASE WriterRecords
  <2>1. writer.how = "copy" \/ writer.how = "spill"
    BY <1>15 DEF WriterRecords, TypeOK, NoItem
  <2> QED
    BY <1>15, <2>1, RecordCopyKeeps, RecordSpillKeeps
<1>16. CASE Restart
  BY <1>16, RestartKeeps
<1>17. CASE UNCHANGED vars
  BY <1>2, <1>17 DEF vars, tiers, worker, waits
<1> QED
  BY <1>1, <1>3, <1>4, <1>5, <1>6, <1>7, <1>8, <1>9, <1>10, <1>11, <1>12, <1>13,
     <1>14, <1>15, <1>16, <1>17 DEF Next, Writer

LEMMA StoreStart == Init => StoreInv
<1> SUFFICES ASSUME Init PROVE StoreInv
  OBVIOUS
<1>1. /\ InRam = {} /\ InSpilling = {} /\ OnDisk = {} /\ disk = {} /\ owed = {}
      /\ spill_used = 0 /\ disk_used = 0 /\ writer.pc = "idle" /\ Kept(told) = {}
  BY DEF Init, InRam, InSpilling, OnDisk, NoItem, Kept
<1> QED
  BY <1>1, BytesAssumption
     DEF StoreInv, TiersInv, FilesInv, QueueInv, Held, SpillCount, DiskCount

(* Where no key is put while the store has it: every count is the length   *)
(* of what is there, a blob leaves the store only by a discard or with a   *)
(* report to on_drop, one being spilled has its item in the writer's       *)
(* queue, the index names the files that are there, and what persist()     *)
(* found in memory is on disk when it returns - through every interleaving *)
(* of the callers with the writer's steps, with failing file operations    *)
(* and restarts.                                                           *)
THEOREM StoreSound ==
  ASSUME RePut = {}
  PROVE  Spec => [](/\ CountsAreTrue /\ DropsAreReported /\ SpillsAreQueued
                    /\ IndexIsDirectory /\ PersistKeeps)
<1>1. Init => RamInv
  BY BytesAssumption, BoundsAssumption
     DEF Init, RamInv, RamCount, RamBudgetKept, InRam, WellOrdered
<1>2. TypeOK /\ RamInv /\ StoreInv =>
        CountsAreTrue /\ DropsAreReported /\ SpillsAreQueued /\ IndexIsDirectory /\ PersistKeeps
  <2> SUFFICES ASSUME TypeOK, RamInv, StoreInv
               PROVE  /\ CountsAreTrue /\ DropsAreReported /\ SpillsAreQueued
                      /\ IndexIsDirectory /\ PersistKeeps
    OBVIOUS
  <2>1. CountsAreTrue
    BY DEF CountsAreTrue, RamInv, StoreInv, TiersInv
  <2>2. DropsAreReported
    BY DEF DropsAreReported, StoreInv, TiersInv, Kept
  <2>3. SpillsAreQueued
    BY DEF SpillsAreQueued, StoreInv, QueueInv, Pending, Hand
  <2>4. IndexIsDirectory
    BY DEF IndexIsDirectory, StoreInv, FilesInv
  <2>5. PersistKeeps
    <3> SUFFICES ASSUME Unfinished = 0, NEW k \in owed, k \in Held PROVE k \in disk
      BY DEF PersistKeeps
    <3>1. Len(queue) \in Nat /\ DOMAIN queue = 1..Len(queue)
      BY DEF TypeOK
    <3>2. Len(queue) = 0 /\ writer.pc = "idle"
      BY <3>1 DEF Unfinished
    <3>3. \A how, j : ~ Pending(how, j)
      BY <3>1, <3>2 DEF Pending, Hand
    <3> QED
      BY <3>3 DEF StoreInv, QueueInv, Held
  <2> QED
    BY <2>1, <2>2, <2>3, <2>4, <2>5
<1> QED
  BY <1>1, <1>2, StoreStart, StoreStep, RamStep, TypeCorrect, PTL DEF Spec

(* Memory, spilling and disk are counted as they are: a count that drifted *)
(* would evict for ever, or never (ram_used, spill_used and disk_used).    *)
THEOREM CountsHold ==
  ASSUME RePut = {}
  PROVE  Spec => []CountsAreTrue
BY StoreSound, PTL

(* A blob being spilled has its item in the writer's queue or hand.        *)
THEOREM SpillsHold ==
  ASSUME RePut = {}
  PROVE  Spec => []SpillsAreQueued
BY StoreSound, PTL

(* The index names files that are there, and no file is left without it    *)
(* but those that could not be unlinked.                                   *)
THEOREM IndexHolds ==
  ASSUME RePut = {}
  PROVE  Spec => []IndexIsDirectory
BY StoreSound, PTL

(* What persist() found in memory has a file when it returns.              *)
THEOREM PersistHolds ==
  ASSUME RePut = {}
  PROVE  Spec => []PersistKeeps
BY StoreSound, PTL

LEMMA StoreAlways ==
  ASSUME RePut = {}
  PROVE  Spec => [](TypeOK /\ StoreInv)
BY StoreStart, StoreStep, TypeCorrect, PTL DEF Spec

----------------------------------------------------------------------------
(* The copies of durable blobs, where file operations do not fail.         *)

(* A durable blob of memory is on disk, or the writer has a copy to make.  *)
DurableComing ==
  HasDisk => \A k \in Durable \cap InRam : k \in disk \/ Pending("copy", k)

(* An eviction of the directory takes nothing that memory has.             *)
LEMMA EvictDiskStays ==
  ASSUME NEW d, NEW order, NEW used, NEW f, NEW t, EvictDisk(d, order, used, f, t)
  PROVE  \A k \in d : k \in disk' \/ k \notin InRam'
BY DEF EvictDisk, Evicted, Free, InRam

(* An eviction from memory: put(), get() and unpin().                      *)
LEMMA RamEvictionComing ==
  ASSUME TypeOK, NEW r, NEW order, NEW used, NEW q, NEW p,
         RamArgs(r, order, used, q, p), EvictRam(r, order, used, q, p), UNCHANGED writer,
         \A j \in disk : j \in disk' \/ j \notin InRam',
         \A j \in Durable : HasDisk /\ r[j] # NoBlob =>
           j \in disk \/ (\E i \in DOMAIN q : q[i] = [how |-> "copy", key |-> j]) \/ Hand("copy", j)
  PROVE  DurableComing'
<1>1. RamMoves(r, order, used, q, p)
  BY EvictRamMoves
<1>2. /\ InRam' \subseteq {k \in Keys : r[k] # NoBlob}
      /\ \A i \in DOMAIN q : i \in DOMAIN queue' /\ queue'[i] = q[i]
  BY <1>1 DEF RamMoves
<1>3. ASSUME NEW j \in Durable \cap InRam', HasDisk, j \notin disk' PROVE Pending("copy", j)'
  <2>1. r[j] # NoBlob /\ j \notin disk
    BY <1>2, <1>3
  <2>2. (\E i \in DOMAIN q : q[i] = [how |-> "copy", key |-> j]) \/ Hand("copy", j)
    BY <1>3, <2>1
  <2> QED
    BY <1>2, <2>2 DEF Pending, Hand
<1> QED
  BY <1>3 DEF DurableComing, HasDisk

LEMMA PutComing ==
  ASSUME TypeOK, DurableComing, NEW k \in Keys, NEW c \in Contents, Put(k, c)
  PROVE  DurableComing'
<1> DEFINE r     == [ram EXCEPT ![k] = c]
           order == Touched(ramOlder, InRam, k)
           used  == ram_used - (IF k \in InRam THEN Bytes[{k}] ELSE 0) + Bytes[{k}]
           q     == IF k \in Durable /\ HasDisk /\ k \notin disk
                    THEN Append(queue, [how |-> "copy", key |-> k]) ELSE queue
<1>1. RamArgs(r, order, used, q, pins)
  BY PutArgs
<1>2. EvictRam(r, order, used, q, pins) /\ UNCHANGED <<disk, writer>>
  BY DEF Put
<1>3. \A i \in DOMAIN queue : i \in DOMAIN q /\ q[i] = queue[i]
  BY DEF TypeOK
<1>4. k \in Durable /\ HasDisk /\ k \notin disk
        => \E i \in DOMAIN q : q[i] = [how |-> "copy", key |-> k]
  <2> SUFFICES ASSUME k \in Durable, HasDisk, k \notin disk
               PROVE  \E i \in DOMAIN q : q[i] = [how |-> "copy", key |-> k]
    OBVIOUS
  <2>1. q = Append(queue, [how |-> "copy", key |-> k]) /\ queue \in Seq(Item)
    BY DEF TypeOK
  <2>2. Len(queue) + 1 \in DOMAIN q /\ q[Len(queue) + 1] = [how |-> "copy", key |-> k]
    BY <2>1
  <2> QED
    BY <2>2
<1>5. \A j \in Keys : j # k => r[j] = ram[j]
  BY DEF TypeOK, IsTier
<1> HIDE DEF r, order, used, q
<1>6. \A j \in Durable : HasDisk /\ r[j] # NoBlob =>
        j \in disk \/ (\E i \in DOMAIN q : q[i] = [how |-> "copy", key |-> j]) \/ Hand("copy", j)
  <2> SUFFICES ASSUME NEW j \in Durable, HasDisk, r[j] # NoBlob, j # k, j \notin disk
               PROVE  (\E i \in DOMAIN q : q[i] = [how |-> "copy", key |-> j]) \/ Hand("copy", j)
    BY <1>4
  <2>1. j \in InRam
    BY <1>5, KeysAssumption DEF InRam
  <2>2. Pending("copy", j)
    BY <2>1 DEF DurableComing
  <2> QED
    BY <1>3, <2>2 DEF Pending
<1> QED
  BY <1>1, <1>2, <1>6, RamEvictionComing

LEMMA GetDiskComing ==
  ASSUME TypeOK, DurableComing, NEW k \in Keys, GetDisk(k)
  PROVE  DurableComing'
<1> DEFINE r     == [ram EXCEPT ![k] = files[k]]
           order == Touched(ramOlder, InRam, k)
           used  == ram_used + Bytes[{k}]
<1>1. RamArgs(r, order, used, queue, pins)
  BY GetDiskArgs
<1>2. EvictRam(r, order, used, queue, pins) /\ k \in disk /\ UNCHANGED <<disk, writer>>
  BY DEF GetDisk
<1>3. \A j \in Keys : j # k => r[j] = ram[j]
  BY DEF TypeOK, IsTier
<1> HIDE DEF r, order, used
<1>4. \A j \in Durable : HasDisk /\ r[j] # NoBlob => j \in disk \/ Pending("copy", j)
  BY <1>2, <1>3, KeysAssumption DEF DurableComing, InRam
<1> QED
  BY <1>1, <1>2, <1>4, RamEvictionComing DEF Pending

LEMMA UnpinComing ==
  ASSUME TypeOK, DurableComing, NEW S \in PinSets, Unpin(S)
  PROVE  DurableComing'
<1> DEFINE p == UnpinnedBy(S)
           t == Drop(told, LostFromRam(ram, ramOlder, ram_used, p))
<1>1. RamArgs(ram, ramOlder, ram_used, queue, p)
  BY DEF RamArgs, TypeOK, UnpinnedBy
<1>2. /\ EvictRam(ram, ramOlder, ram_used, queue, p)
      /\ EvictDisk(disk, diskOlder, disk_used, files, t) /\ UNCHANGED writer
  BY DEF Unpin
<1> HIDE DEF p, t
<1>3. \A j \in disk : j \in disk' \/ j \notin InRam'
  BY <1>2, EvictDiskStays
<1>4. \A j \in Durable : HasDisk /\ ram[j] # NoBlob => j \in disk \/ Pending("copy", j)
  BY KeysAssumption DEF DurableComing, InRam
<1> QED
  BY <1>1, <1>2, <1>3, <1>4, RamEvictionComing DEF Pending

LEMMA WriterComing ==
  ASSUME TypeOK, DurableComing, WriterTakes \/ WriterSkips \/ WriterWrites
  PROVE  DurableComing'
<1>1. UNCHANGED <<ram, disk>> /\ InRam' = InRam
  BY DEF WriterTakes, WriterSkips, WriterWrites, tiers, InRam
<1>2. ASSUME NEW k \in InRam, k \notin disk, Pending("copy", k) PROVE Pending("copy", k)'
  <2>1. CASE WriterTakes
    <3>1. ASSUME Head(queue) = [how |-> "copy", key |-> k] PROVE Source(Head(queue)) # NoBlob
      BY <3>1 DEF Source, InRam
    <3> QED
      BY <1>2, <2>1, <3>1, TakenPending
  <2>2. CASE WriterSkips
    BY <1>2, <2>2, PendingElse DEF WriterSkips
  <2>3. CASE WriterWrites
    BY <1>2, <2>3 DEF WriterWrites, MayWrite, TypeOK, NoItem, Pending, Hand
  <2> QED
    BY <2>1, <2>2, <2>3
<1> QED
  BY <1>1, <1>2 DEF DurableComing, HasDisk

(* What the writer records is indexed where memory has it.                 *)
LEMMA RecordsComing ==
  ASSUME TypeOK, DurableComing, WriterRecords
  PROVE  DurableComing'
<1> DEFINE k == writer.key
<1>1. /\ k \in Keys /\ writer' = NoItem /\ UNCHANGED queue /\ InRam' = InRam
      /\ writer.how = "copy" \/ writer.how = "spill"
  BY DEF WriterRecords, RecordCopy, RecordSpill, TypeOK, NoItem, InRam
<1>2. \/ UNCHANGED disk /\ (writer.how = "copy" => k \notin InRam \/ k \in disk)
      \/ EvictDisk(disk \cup {k}, Indexed(k), disk_used + Bytes[{k}], files, told)
  BY <1>1 DEF WriterRecords, RecordCopy, RecordSpill
<1>3. \A j \in disk : j \in disk' \/ j \notin InRam
  BY <1>1, <1>2, EvictDiskStays
<1>4. writer.how = "copy" => k \in disk' \/ k \notin InRam
  <2>1. CASE UNCHANGED disk /\ (writer.how = "copy" => k \notin InRam \/ k \in disk)
    BY <2>1
  <2>2. CASE EvictDisk(disk \cup {k}, Indexed(k), disk_used + Bytes[{k}], files, told)
    BY <1>1, <2>2, EvictDiskStays
  <2> QED
    BY <1>2, <2>1, <2>2
<1>5. ASSUME NEW j \in Durable \cap InRam, HasDisk, j \notin disk' PROVE Pending("copy", j)'
  <2>1. Pending("copy", j)
    BY <1>3, <1>5 DEF DurableComing
  <2> QED
    BY <1>1, <1>4, <1>5, <2>1, PendingElse
<1> QED
  BY <1>1, <1>5 DEF DurableComing, HasDisk

LEMMA ComingStep ==
  ASSUME ~ IOFails
  PROVE  TypeOK /\ DurableComing /\ [Next]_vars => DurableComing'
<1> SUFFICES ASSUME TypeOK, DurableComing, [Next]_vars PROVE DurableComing'
  OBVIOUS
<1>1. ASSUME InRam' \subseteq InRam, UNCHANGED writer,
             \A j \in disk : j \in disk' \/ j \notin InRam',
             \A i \in DOMAIN queue : i \in DOMAIN queue' /\ queue'[i] = queue[i]
      PROVE  DurableComing'
  BY <1>1, PendingKept DEF DurableComing, HasDisk
<1>2. ASSUME UNCHANGED <<ram, disk, queue, writer>> PROVE DurableComing'
  BY <1>1, <1>2 DEF InRam
<1>3. ASSUME NEW k \in Keys, NEW c \in Contents, Put(k, c) PROVE DurableComing'
  BY <1>3, PutComing
<1>4. ASSUME NEW k \in Keys, GetRam(k) PROVE DurableComing'
  BY <1>2, <1>4 DEF GetRam, worker
<1>5. ASSUME NEW k \in Keys, GetDisk(k) PROVE DurableComing'
  BY <1>5, GetDiskComing
<1>6. ASSUME NEW k \in Keys, GetFails(k) PROVE DurableComing'
  <2>1. InRam' = InRam /\ k \notin InRam /\ disk' = disk \ {k} /\ UNCHANGED <<queue, writer>>
    BY <1>6 DEF GetFails, worker, InRam
  <2> QED
    BY <1>1, <2>1
<1>7. ASSUME NEW k \in Keys, Discard(k) PROVE DurableComing'
  <2>1. /\ ram' = [ram EXCEPT ![k] = NoBlob] /\ disk' = disk \ {k}
        /\ UNCHANGED <<queue, writer>>
    BY <1>7 DEF Discard
  <2>2. InRam' = InRam \ {k}
    BY <2>1 DEF InRam, TypeOK, IsTier
  <2> QED
    BY <1>1, <2>1, <2>2
<1>8. ASSUME NEW S \in PinSets, Pin(S) PROVE DurableComing'
  BY <1>2, <1>8 DEF Pin, tiers, worker
<1>9. ASSUME NEW S \in PinSets, Unpin(S) PROVE DurableComing'
  BY <1>9, UnpinComing
<1>10. CASE Persist
  <2>1. InRam' = InRam /\ UNCHANGED <<disk, writer>>
    BY <1>10 DEF Persist, tiers, InRam
  <2> QED
    BY <1>1, <1>10, <2>1, PersistAdds
<1>11. CASE Flush \/ FlushReturns \/ UNCHANGED vars
  BY <1>2, <1>11 DEF Flush, FlushReturns, vars, tiers, worker
<1>12. CASE WriterTakes \/ WriterSkips \/ WriterWrites
  BY <1>12, WriterComing
<1>13. CASE WriterRecords
  BY <1>13, RecordsComing
<1>14. CASE Restart
  BY <1>14 DEF Restart, DurableComing, InRam
<1>15. ~ WriterFails
  BY DEF WriterFails
<1> QED
  BY <1>3, <1>4, <1>5, <1>6, <1>7, <1>8, <1>9, <1>10, <1>11, <1>12, <1>13, <1>14, <1>15
     DEF Next, Writer

LEMMA NonePending ==
  ASSUME TypeOK, Unfinished = 0, NEW how, NEW k
  PROVE  ~ Pending(how, k)
<1>1. Len(queue) \in Nat /\ DOMAIN queue = 1..Len(queue)
  BY DEF TypeOK
<1>2. Len(queue) = 0 /\ writer.pc = "idle"
  BY <1>1 DEF Unfinished
<1> QED
  BY <1>1, <1>2 DEF Pending, Hand

(* Where no file operation fails: once the writer has nothing left to do,  *)
(* every durable blob of memory (an entry's record) is indexed on disk,    *)
(* whatever was put again, evicted, pinned or discarded meanwhile: a       *)
(* restart will find it.                                                   *)
THEOREM DurableIndexed ==
  ASSUME ~ IOFails
  PROVE  Spec => [](HasDisk /\ Unfinished = 0 => Durable \cap InRam \subseteq disk)
<1>1. Init => DurableComing
  BY DEF Init, DurableComing, InRam
<1>2. TypeOK /\ DurableComing => (HasDisk /\ Unfinished = 0 => Durable \cap InRam \subseteq disk)
  BY NonePending DEF DurableComing
<1> QED
  BY <1>1, <1>2, ComingStep, TypeCorrect, PTL DEF Spec

(* And where no key is put again while the store has it and its key decides*)
(* a blob's content, its file is the blob (put(durable=True), _writer).    *)
THEOREM DurableHolds ==
  ASSUME ~ IOFails, RePut = {}, NEW c, Contents = {c}
  PROVE  Spec => []DurableIsOnDisk
<1>1. TypeOK /\ StoreInv /\ (HasDisk /\ Unfinished = 0 => Durable \cap InRam \subseteq disk)
        => DurableIsOnDisk
  <2> SUFFICES ASSUME TypeOK, StoreInv, HasDisk, Unfinished = 0, Durable \cap InRam \subseteq disk,
                      NEW k \in Durable \cap InRam
               PROVE  k \in disk /\ files[k] = ram[k]
    BY DEF DurableIsOnDisk
  <2>1. files[k] # NoBlob /\ ram[k] # NoBlob /\ k \in Keys
    BY DEF StoreInv, FilesInv, OnDisk, InRam
  <2>2. files[k] = c /\ ram[k] = c
    BY <2>1 DEF TypeOK, IsTier, Slot
  <2> QED
    BY <2>2
<1> QED
  BY <1>1, StoreAlways, DurableIndexed, PTL

----------------------------------------------------------------------------
(* Steps: what may leave the store, and when.                              *)

(* An eviction of the directory takes files only past its budget.          *)
LEMMA EvictedPastBudget ==
  ASSUME NEW d \in SUBSET Keys, NEW order \in [Keys -> SUBSET Keys], NEW used \in Int,
         NEW f, NEW t, EvictDisk(d, order, used, f, t)
  PROVE  disk' = d \/ used > DiskBytes
<1> DEFINE away == {k \in d : ram'[k] = NoBlob}
           able == Free(away, pins')
           out  == Evicted(able, order, used, DiskBytes)
<1>1. disk' = d \ out
  BY DEF EvictDisk
<1>2. ASSUME NEW k \in out PROVE used > DiskBytes
  <2>1. k \in able /\ used - Bytes[order[k] \cap able] > DiskBytes
    BY <1>2 DEF Evicted
  <2>2. able \subseteq d
    BY DEF Free
  <2> HIDE DEF able
  <2>3. order[k] \cap able \in SUBSET Keys
    BY <2>2
  <2>4. Bytes[order[k] \cap able] \in Nat
    BY <2>3, BytesNat
  <2> QED
    BY <2>1, <2>4, BoundsAssumption
<1> QED
  BY <1>1, <1>2

(* The budget the directory's eviction looks at, when the writer records a *)
(* file: the index and the new file's length.                              *)
LEMMA RecordPastBudget ==
  ASSUME TypeOK, StoreInv, WriterRecords
  PROVE  disk \subseteq disk' \/ Bytes[disk \cup ({writer.key} \cap Keys)] > DiskBytes
<1> DEFINE k == writer.key
<1>1. k \in Keys /\ k \notin disk /\ disk \in SUBSET Keys
  BY DEF WriterRecords, TypeOK, NoItem, StoreInv, FilesInv
<1>2. \/ disk' = disk
      \/ EvictDisk(disk \cup {k}, Indexed(k), disk_used + Bytes[{k}], files, told)
  BY DEF WriterRecords, RecordCopy, RecordSpill
<1>3. CASE EvictDisk(disk \cup {k}, Indexed(k), disk_used + Bytes[{k}], files, told)
  <2>1. Indexed(k) \in [Keys -> SUBSET Keys]
    BY <1>1, OrderType DEF Indexed, TypeOK
  <2>2. disk \cup {k} \in SUBSET Keys /\ disk \cap {k} = {}
        /\ disk \cup {k} = disk \cup ({k} \cap Keys) /\ {k} \in SUBSET Keys
    BY <1>1
  <2>3. Bytes[disk \cup {k}] = disk_used + Bytes[{k}]
    BY <1>1, <2>2, BytesPlus DEF StoreInv, TiersInv, DiskCount
  <2>4. Bytes[disk \cup {k}] \in Nat
    BY <2>2, BytesNat
  <2>5. disk' = disk \cup {k} \/ Bytes[disk \cup {k}] > DiskBytes
    BY <1>3, <2>1, <2>2, <2>3, <2>4, EvictedPastBudget
  <2> QED
    BY <2>2, <2>5
<1> QED
  BY <1>2, <1>3

(* Files go to make room only while the directory, with the file the       *)
(* writer records, is over its budget (_evict_disk).                       *)
THEOREM BudgetOnly ==
  ASSUME RePut = {}
  PROVE  Spec => DropsOnlyPastBudget
<1> DEFINE Made == \/ disk \subseteq disk'
                   \/ Bytes[disk \cup ({writer.key} \cap Keys)] > DiskBytes
                   \/ Restart \/ \E k \in Keys : Discard(k) \/ GetFails(k)
<1>1. TypeOK /\ StoreInv /\ [Next]_vars => [Made]_vars
  <2> SUFFICES ASSUME TypeOK, StoreInv, [Next]_vars PROVE Made \/ UNCHANGED vars
    OBVIOUS
  <2>1. ASSUME disk' = disk PROVE Made
    BY <2>1
  <2>2. ASSUME NEW k \in Keys, NEW c \in Contents, Put(k, c) PROVE Made
    BY <2>1, <2>2 DEF Put
  <2>3. ASSUME NEW k \in Keys, GetRam(k) \/ GetDisk(k) PROVE Made
    BY <2>1, <2>3 DEF GetRam, GetDisk
  <2>4. ASSUME NEW S \in PinSets, Pin(S) PROVE Made
    BY <2>1, <2>4 DEF Pin, tiers
  <2>5. ASSUME NEW S \in PinSets, Unpin(S) PROVE Made
    <3>1. disk \in SUBSET Keys /\ diskOlder \in [Keys -> SUBSET Keys] /\ disk_used \in Int
      BY DEF TypeOK
    <3>2. \E t : EvictDisk(disk, diskOlder, disk_used, files, t)
      BY <2>5 DEF Unpin
    <3>3. disk' = disk \/ disk_used > DiskBytes
      BY <3>1, <3>2, EvictedPastBudget
    <3>4. CASE disk_used > DiskBytes
      <4>1. \/ writer = NoItem
            \/ writer.key \in Keys
        BY DEF TypeOK
      <4> DEFINE more == {writer.key} \cap Keys
      <4>2. Bytes[disk \cup more] >= Bytes[disk]
        <5>1. disk \cup more \in SUBSET Keys /\ more \ disk \in SUBSET Keys
              /\ disk \cap (more \ disk) = {} /\ disk \cup (more \ disk) = disk \cup more
          BY <3>1
        <5> HIDE DEF more
        <5>2. Bytes[disk \cup more] = Bytes[disk] + Bytes[more \ disk]
          BY <3>1, <5>1, BytesPlus
        <5>3. Bytes[disk] \in Nat /\ Bytes[more \ disk] \in Nat
          BY <3>1, <5>1, BytesNat
        <5> QED
          BY <5>2, <5>3
      <4>3. Bytes[disk] = disk_used
        BY DEF StoreInv, TiersInv, DiskCount
      <4>4. disk \cup more \in SUBSET Keys
        BY <3>1
      <4> HIDE DEF more
      <4>5. Bytes[disk \cup more] \in Nat
        BY <4>4, BytesNat
      <4>6. Bytes[disk \cup more] > DiskBytes
        BY <3>1, <3>4, <4>2, <4>3, <4>5, BoundsAssumption
      <4> QED
        BY <4>6 DEF more
    <3> QED
      BY <2>1, <3>3, <3>4
  <2>6. CASE Persist \/ Flush \/ FlushReturns \/ WriterTakes \/ WriterSkips
    BY <2>1, <2>6 DEF Persist, Flush, FlushReturns, WriterTakes, WriterSkips, tiers
  <2>7. CASE WriterWrites \/ WriterFails
    BY <2>1, <2>7 DEF WriterWrites, WriterFails
  <2>8. CASE WriterRecords
    BY <2>8, RecordPastBudget
  <2>9. ASSUME NEW k \in Keys, Discard(k) \/ GetFails(k) PROVE Made
    BY <2>9
  <2>10. CASE Restart
    BY <2>10
  <2> QED
    BY <2>2, <2>3, <2>4, <2>5, <2>6, <2>7, <2>8, <2>9, <2>10 DEF Next, Writer
<1> QED
  BY <1>1, StoreAlways, PTL DEF Spec, DropsOnlyPastBudget

----------------------------------------------------------------------------
(* The store implements KVStore.  What it holds is what its callers know   *)
(* it keeps (StoreInv), so a step is a KVStore step by what it makes of    *)
(* told and of the pins.                                                   *)

LEMMA LostIsUnpinned ==
  ASSUME NEW r, NEW order, NEW used, NEW p
  PROVE  LostFromRam(r, order, used, p) \subseteq {k \in Keys : r[k] # NoBlob /\ p[k] = 0}
BY DEF LostFromRam, Evicted, Free

LEMMA EvictDiskTells ==
  ASSUME NEW d \in SUBSET Keys, NEW order, NEW used, NEW f, NEW t, EvictDisk(d, order, used, f, t)
  PROVE  \E E \in SUBSET d : told' = Drop(t, E) /\ \A k \in E : pins'[k] = 0
<1> DEFINE away == {k \in d : ram'[k] = NoBlob}
           out  == Evicted(Free(away, pins'), order, used, DiskBytes)
           lost == {k \in out : spilling'[k] = NoBlob}
<1>1. lost \in SUBSET d /\ \A k \in lost : pins'[k] = 0
  BY DEF Evicted, Free
<1>2. told' = Drop(t, lost)
  BY DEF EvictDisk
<1> QED
  BY <1>1, <1>2

LEMMA EvictStep ==
  ASSUME NEW E \in SUBSET Held, \A k \in E : pins[k] = 0, pins' = pins,
         told' = Drop(told, E), Held' = Kept(told'), Held = Kept(told)
  PROVE  Store!Next
<1>1. Held \subseteq Keys
  BY DEF Kept
<1>2. Held' = Held \ E
  BY DEF Kept, Drop
<1>3. told' = Store!Drop(told, E)
  BY DEF Drop, Store!Drop
<1>4. Store!Evict(E)
  BY <1>2, <1>3 DEF Store!Evict, Store!Unpinned
<1>5. E \in SUBSET Keys
  BY <1>1
<1> QED
  BY <1>4, <1>5 DEF Store!Next

LEMMA PutStep ==
  ASSUME NEW k \in Keys, NEW c \in Contents, Put(k, c), TypeOK,
         Held' = Kept(told'), Held = Kept(told)
  PROVE  Store!Next
<1> DEFINE r     == [ram EXCEPT ![k] = c]
           order == Touched(ramOlder, InRam, k)
           used  == ram_used - (IF k \in InRam THEN Bytes[{k}] ELSE 0) + Bytes[{k}]
           lost  == LostFromRam(r, order, used, pins)
<1>1. told' = Drop([told EXCEPT ![k] = "kept"], lost) /\ pins' = pins
  BY DEF Put
<1>2. lost \subseteq {j \in Keys : r[j] # NoBlob /\ pins[j] = 0}
  BY LostIsUnpinned
<1>3. {j \in Keys : r[j] # NoBlob} \subseteq Held \cup {k}
  BY DEF Held, InRam, TypeOK, IsTier
<1> HIDE DEF lost, r
<1>4. Held' = (Held \cup {k}) \ lost
  BY <1>1 DEF Kept, Drop, TypeOK, IsTold
<1>5. told' = Store!Drop([told EXCEPT ![k] = "kept"], lost)
  BY <1>1 DEF Drop, Store!Drop
<1>6. lost \subseteq Store!Unpinned(Held \cup {k}, pins) /\ lost \in SUBSET Keys
  BY <1>2, <1>3 DEF Store!Unpinned
<1>7. Store!Put(k, lost)
  BY <1>1, <1>4, <1>5, <1>6 DEF Store!Put
<1> QED
  BY <1>6, <1>7 DEF Store!Next

LEMMA UnpinStep ==
  ASSUME NEW S \in PinSets, Unpin(S), TypeOK, Held' = Kept(told'), Held = Kept(told)
  PROVE  Store!Next
<1> DEFINE lost == LostFromRam(ram, ramOlder, ram_used, UnpinnedBy(S))
<1>1. pins' = UnpinnedBy(S) /\ EvictDisk(disk, diskOlder, disk_used, files, Drop(told, lost))
  BY DEF Unpin
<1>2. lost \subseteq {k \in Keys : ram[k] # NoBlob /\ pins'[k] = 0}
  BY <1>1, LostIsUnpinned
<1> HIDE DEF lost
<1>3. PICK D \in SUBSET disk : told' = Drop(Drop(told, lost), D) /\ \A k \in D : pins'[k] = 0
  <2>1. disk \in SUBSET Keys
    BY DEF TypeOK
  <2> QED
    BY <1>1, <2>1, EvictDiskTells
<1> DEFINE E == lost \cup D
<1>4. E \subseteq Held /\ \A k \in E : pins'[k] = 0
  BY <1>2, <1>3 DEF Held, InRam
<1>5. told' = Store!Drop(told, E)
  BY <1>3 DEF Drop, Store!Drop
<1>6. Held' = Held \ E
  BY <1>5 DEF Kept, Store!Drop
<1>7. pins' = [k \in Keys |-> IF k \in S /\ pins[k] > 0 THEN pins[k] - 1 ELSE pins[k]]
  BY <1>1 DEF UnpinnedBy
<1> HIDE DEF E
<1>8. Store!Unpin(S, E)
  BY <1>4, <1>5, <1>6, <1>7 DEF Store!Unpin, Store!Unpinned
<1>9. S \in SUBSET Keys /\ E \in SUBSET Keys
  BY <1>4, KeysAssumption DEF Kept
<1> QED
  BY <1>8, <1>9 DEF Store!Next

LEMMA RecordStep ==
  ASSUME WriterRecords, TypeOK, Held' = Kept(told'), Held = Kept(told)
  PROVE  Store!Next \/ told' = told
<1> DEFINE k == writer.key
<1>1. k \in Keys /\ pins' = pins
  BY DEF WriterRecords, RecordCopy, RecordSpill, TypeOK, NoItem
<1>2. \/ told' = told
      \/ k \in Held /\ EvictDisk(disk \cup {k}, Indexed(k), disk_used + Bytes[{k}], files, told)
  BY <1>1 DEF WriterRecords, RecordCopy, RecordSpill, Held
<1>3. CASE k \in Held /\ EvictDisk(disk \cup {k}, Indexed(k), disk_used + Bytes[{k}], files, told)
  <2>1. disk \cup {k} \in SUBSET Keys
    BY <1>1 DEF TypeOK
  <2>2. PICK E \in SUBSET (disk \cup {k}) :
          told' = Drop(told, E) /\ \A j \in E : pins'[j] = 0
    BY <1>3, <2>1, EvictDiskTells, SMTT(30)
  <2>3. E \in SUBSET Held /\ \A j \in E : pins[j] = 0
    BY <1>1, <1>3, <2>2 DEF Held
  <2> QED
    BY <1>1, <2>2, <2>3, EvictStep
<1> QED
  BY <1>2, <1>3

LEMMA RestartStep ==
  ASSUME Restart, TypeOK, Held' = Kept(told')
  PROVE  Store!Next
<1> DEFINE t == [k \in Keys |-> IF k \in OnDisk THEN "kept" ELSE "none"]
<1>1. /\ \E o \in Orders :
           EvictDisk(OnDisk, [k \in Keys |-> IF k \in OnDisk THEN o[k] \cap OnDisk ELSE {}],
                     Bytes[OnDisk], files, t)
      /\ pins' = [k \in Keys |-> 0]
  BY DEF Restart
<1>2. OnDisk \in SUBSET Keys
  BY DEF OnDisk
<1> HIDE DEF t
<1>3. PICK E \in SUBSET OnDisk : told' = Drop(t, E)
  BY <1>1, <1>2, EvictDiskTells
<1>4. Held' = OnDisk \ E
  BY <1>2, <1>3 DEF Kept, Drop, t
<1>5. told' = Store!Drop([k \in Keys |-> IF k \in Held' THEN "kept" ELSE "none"], E)
  BY <1>2, <1>3, <1>4 DEF Drop, Store!Drop, t
<1>6. Store!Restart(Held', E)
  BY <1>1, <1>4, <1>5 DEF Store!Restart
<1> QED
  BY <1>2, <1>4, <1>6 DEF Store!Next

(* BlobStore implements KVStore where no key is put while the store has    *)
(* it: whatever the budgets, the lengths and the schedule of the writer,   *)
(* a blob is dropped only unpinned and with a report, and a pinned one is  *)
(* lost only to a discard, a failed file operation or a restart.           *)
THEOREM Refinement ==
  ASSUME RePut = {}
  PROVE  Spec => ImplementsKVStore
<1>1. Init => Store!Init
  <2> SUFFICES ASSUME Init PROVE Store!Init
    OBVIOUS
  <2>1. Held = {}
    BY DEF Init, Held, InRam, InSpilling
  <2> QED
    BY <2>1 DEF Init, Store!Init
<1>2. TypeOK /\ StoreInv /\ StoreInv' /\ [Next]_vars => [Store!Next]_(Store!vars)
  <2> SUFFICES ASSUME TypeOK, StoreInv, StoreInv', [Next]_vars
               PROVE  Store!Next \/ UNCHANGED <<Held, pins, told>>
    BY DEF Store!vars
  <2>1. Held = Kept(told) /\ Held' = Kept(told')
    BY DEF StoreInv, TiersInv
  <2>2. ASSUME UNCHANGED <<told, pins>> PROVE UNCHANGED <<Held, pins, told>>
    BY <2>1, <2>2 DEF Kept
  <2>3. ASSUME NEW k \in Keys, NEW c \in Contents, Put(k, c) PROVE Store!Next
    BY <2>1, <2>3, PutStep
  <2>4. ASSUME NEW k \in Keys, GetRam(k) PROVE UNCHANGED <<told, pins>>
    BY <2>4 DEF GetRam
  <2>5. ASSUME NEW k \in Keys, GetDisk(k) PROVE Store!Next
    <3> DEFINE r    == [ram EXCEPT ![k] = files[k]]
               lost == LostFromRam(r, Touched(ramOlder, InRam, k), ram_used + Bytes[{k}], pins)
    <3>1. told' = Drop(told, lost) /\ pins' = pins /\ k \in disk
      BY <2>5 DEF GetDisk
    <3>2. lost \subseteq {j \in Keys : r[j] # NoBlob /\ pins[j] = 0}
      BY LostIsUnpinned
    <3>3. {j \in Keys : r[j] # NoBlob} \subseteq Held
      BY <3>1 DEF Held, InRam, TypeOK, IsTier
    <3> HIDE DEF r, lost
    <3>4. lost \in SUBSET Held /\ \A j \in lost : pins[j] = 0
      BY <3>2, <3>3
    <3> QED
      BY <2>1, <3>1, <3>4, EvictStep
  <2>6. ASSUME NEW k \in Keys, GetFails(k) PROVE Store!Next
    <3>1. /\ IOFails \/ files[k] = NoBlob
          /\ k \in disk /\ told' = Drop(told, {k}) /\ pins' = pins
      BY <2>6 DEF GetFails
    <3>2. IOFails
      BY <3>1 DEF StoreInv, FilesInv, OnDisk
    <3>3. Held' = Held \ {k} /\ told' = Store!Drop(told, {k})
      BY <2>1, <3>1 DEF Kept, Drop, Store!Drop
    <3>4. Store!IOError(k)
      BY <3>1, <3>2, <3>3 DEF Store!IOError
    <3> QED
      BY <3>4 DEF Store!Next
  <2>7. ASSUME NEW k \in Keys, Discard(k) PROVE Store!Next
    <3>1. told' = [told EXCEPT ![k] = "none"] /\ pins' = pins
      BY <2>7 DEF Discard
    <3>2. Held' = Held \ {k}
      BY <2>1, <3>1 DEF Kept, TypeOK, IsTold
    <3>3. Store!Discard(k)
      BY <3>1, <3>2 DEF Store!Discard
    <3> QED
      BY <3>3 DEF Store!Next
  <2>8. ASSUME NEW S \in PinSets, Pin(S) PROVE Store!Next
    <3>1. /\ pins' = [k \in Keys |-> IF k \in S THEN pins[k] + 1 ELSE pins[k]]
          /\ told' = told
      BY <2>8 DEF Pin
    <3>2. Held' = Held
      BY <2>1, <3>1 DEF Kept
    <3>3. Store!Pin(S) /\ S \in SUBSET Keys
      BY <3>1, <3>2, KeysAssumption DEF Store!Pin
    <3> QED
      BY <3>3 DEF Store!Next
  <2>9. ASSUME NEW S \in PinSets, Unpin(S) PROVE Store!Next
    BY <2>1, <2>9, UnpinStep
  <2>10. CASE Persist \/ Flush \/ FlushReturns
    BY <2>2, <2>10 DEF Persist, Flush, FlushReturns
  <2>11. CASE WriterTakes \/ WriterSkips \/ WriterWrites
    BY <2>2, <2>11 DEF WriterTakes, WriterSkips, WriterWrites
  <2>12. CASE WriterFails
    <3> DEFINE k == writer.key
    <3>1. /\ IOFails /\ k \in Keys /\ told' = Drop(told, InSpilling \cap {k}) /\ pins' = pins
      BY <2>12 DEF WriterFails, MayWrite, TypeOK, NoItem
    <3>2. CASE k \in InSpilling
      <4>1. told' = Store!Drop(told, {k}) /\ Held' = Held \ {k}
        BY <2>1, <3>1, <3>2 DEF Drop, Store!Drop, Kept
      <4>2. Store!IOError(k)
        BY <3>1, <4>1 DEF Store!IOError
      <4> QED
        BY <3>1, <4>2 DEF Store!Next
    <3>3. CASE k \notin InSpilling
      <4>1. told' = told
        BY <3>1, <3>3 DEF Drop, TypeOK, IsTold
      <4> QED
        BY <2>2, <3>1, <4>1
    <3> QED
      BY <3>2, <3>3
  <2>13. CASE WriterRecords
    <3>1. pins' = pins
      BY <2>13 DEF WriterRecords, RecordCopy, RecordSpill
    <3> QED
      BY <2>1, <2>2, <2>13, <3>1, RecordStep
  <2>14. CASE Restart
    BY <2>1, <2>14, RestartStep
  <2>15. CASE UNCHANGED vars
    BY <2>2, <2>15 DEF vars
  <2> QED
    BY <2>2, <2>3, <2>4, <2>5, <2>6, <2>7, <2>8, <2>9, <2>10, <2>11, <2>12, <2>13,
       <2>14, <2>15 DEF Next, Writer
<1> QED
  BY <1>1, <1>2, StoreStart, StoreStep, TypeCorrect, PTL
     DEF Spec, ImplementsKVStore, Store!Spec

(* A pinned blob - a running request's context - stays in the store until  *)
(* it is unpinned or discarded, whatever is evicted, copied or recorded:   *)
(* only a file that fails or the process's end takes it.                   *)
THEOREM PinnedKept ==
  ASSUME RePut = {}
  PROVE  Spec => PinnedStay
<1> DEFINE Stays(k) == \/ k \in Held' \/ pins'[k] = 0
                       \/ Discard(k) \/ GetFails(k) \/ WriterFails \/ Restart
<1>1. ASSUME TypeOK, StoreInv, StoreInv', [Next]_vars, NEW k \in Pinned \cap Held
      PROVE  Stays(k) \/ UNCHANGED vars
  <2>1. Held = Kept(told) /\ Held' = Kept(told')
    BY <1>1 DEF StoreInv, TiersInv
  <2>2. k \in Keys /\ told[k] = "kept" /\ pins[k] # 0
    BY <1>1, <2>1 DEF Kept, Pinned
  <2>3. ASSUME told'[k] = "kept" PROVE Stays(k)
    BY <2>1, <2>2, <2>3 DEF Kept
  <2>4. ASSUME NEW E, told' = Drop(told, E), pins'[k] = 0 \/ k \notin E PROVE Stays(k)
    BY <2>2, <2>3, <2>4 DEF Drop
  <2>5. ASSUME NEW j \in Keys, NEW c \in Contents, Put(j, c) PROVE Stays(k)
    <3> DEFINE r    == [ram EXCEPT ![j] = c]
               lost == LostFromRam(r, Touched(ramOlder, InRam, j),
                         ram_used - (IF j \in InRam THEN Bytes[{j}] ELSE 0) + Bytes[{j}], pins)
    <3>1. told' = Drop([told EXCEPT ![j] = "kept"], lost)
      BY <2>5 DEF Put
    <3>2. k \notin lost
      BY <2>2, LostIsUnpinned
    <3> HIDE DEF lost
    <3>3. told'[k] = "kept"
      BY <1>1, <2>2, <3>1, <3>2 DEF Drop, TypeOK, IsTold
    <3> QED
      BY <2>3, <3>3
  <2>6. ASSUME NEW j \in Keys, GetDisk(j) PROVE Stays(k)
    <3> DEFINE lost == LostFromRam([ram EXCEPT ![j] = files[j]], Touched(ramOlder, InRam, j),
                                   ram_used + Bytes[{j}], pins)
    <3>1. told' = Drop(told, lost)
      BY <2>6 DEF GetDisk
    <3>2. k \notin lost
      BY <2>2, LostIsUnpinned
    <3> QED
      BY <2>4, <3>1, <3>2
  <2>7. ASSUME NEW S \in PinSets, Unpin(S) PROVE Stays(k)
    <3> DEFINE lost == LostFromRam(ram, ramOlder, ram_used, UnpinnedBy(S))
    <3>1. pins' = UnpinnedBy(S) /\ EvictDisk(disk, diskOlder, disk_used, files, Drop(told, lost))
      BY <2>7 DEF Unpin
    <3>2. pins'[k] = 0 \/ k \notin lost
      BY <3>1, LostIsUnpinned
    <3>3. disk \in SUBSET Keys
      BY <1>1 DEF TypeOK
    <3> HIDE DEF lost
    <3>4. PICK D \in SUBSET disk : told' = Drop(Drop(told, lost), D) /\ \A j \in D : pins'[j] = 0
      BY <3>1, <3>3, EvictDiskTells
    <3>5. told' = Drop(told, lost \cup D) /\ (pins'[k] = 0 \/ k \notin lost \cup D)
      BY <3>2, <3>4 DEF Drop
    <3> QED
      BY <2>4, <3>5
  <2>8. CASE WriterRecords
    <3> DEFINE j == writer.key
    <3>1. j \in Keys /\ pins' = pins
      BY <1>1, <2>8 DEF WriterRecords, RecordCopy, RecordSpill, TypeOK, NoItem
    <3>2. \/ told' = told
          \/ EvictDisk(disk \cup {j}, Indexed(j), disk_used + Bytes[{j}], files, told)
      BY <2>8 DEF WriterRecords, RecordCopy, RecordSpill
    <3>3. CASE EvictDisk(disk \cup {j}, Indexed(j), disk_used + Bytes[{j}], files, told)
      <4>1. disk \cup {j} \in SUBSET Keys
        BY <1>1, <3>1 DEF TypeOK
      <4>2. PICK D \in SUBSET (disk \cup {j}) :
              told' = Drop(told, D) /\ \A i \in D : pins'[i] = 0
        BY <3>3, <4>1, EvictDiskTells
      <4> QED
        BY <2>4, <4>2
    <3> QED
      BY <2>2, <2>3, <3>2, <3>3
  <2>9. ASSUME told' = told PROVE Stays(k)
    BY <2>2, <2>3, <2>9
  <2>10. ASSUME NEW j \in Keys, GetRam(j) PROVE Stays(k)
    BY <2>9, <2>10 DEF GetRam
  <2>11. ASSUME NEW j \in Keys, GetFails(j) \/ Discard(j) PROVE Stays(k)
    <3>1. CASE j = k
      BY <2>11, <3>1
    <3>2. CASE j # k
      <4>1. told'[k] = told[k]
        BY <1>1, <2>2, <2>11, <3>2 DEF GetFails, Discard, Drop, TypeOK, IsTold
      <4> QED
        BY <2>2, <2>3, <4>1
    <3> QED
      BY <3>1, <3>2
  <2>12. ASSUME NEW S \in PinSets, Pin(S) PROVE Stays(k)
    BY <2>9, <2>12 DEF Pin
  <2>13. CASE Persist \/ Flush \/ FlushReturns \/ WriterTakes \/ WriterSkips
    BY <2>9, <2>13 DEF Persist, Flush, FlushReturns, WriterTakes, WriterSkips
  <2>14. CASE WriterWrites
    BY <2>9, <2>14 DEF WriterWrites
  <2>15. CASE WriterFails \/ Restart
    BY <2>15
  <2> QED
    BY <1>1, <2>5, <2>6, <2>7, <2>8, <2>10, <2>11, <2>12, <2>13, <2>14, <2>15
       DEF Next, Writer
<1>2. TypeOK /\ StoreInv /\ StoreInv' /\ [Next]_vars
        => [\A k \in Pinned \cap Held : Stays(k)]_vars
  BY <1>1
<1> QED
  BY <1>2, StoreAlways, PTL DEF Spec, PinnedStay
=============================================================================
