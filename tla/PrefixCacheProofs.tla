------------------------- MODULE PrefixCacheProofs -------------------------
(***************************************************************************)
(* Proofs about PrefixCache: the references are the entries' uses through  *)
(* evictions that remove entries, restarts and KeyErrors; an entry keeps   *)
(* its blobs, its record and its pins.                                     *)
(***************************************************************************)
EXTENDS PrefixCache, ListsProofs, FiniteSetTheorems

(* A running save() has an entry, whose blobs are what it has to put.      *)
Saving ==
  save.step # "none" => save.e \in EntryKeys /\ ToSet(todo) \subseteq Uses(save.e)

(* Records are the directory's.                                            *)
RecordsOnDisk == ~ persists => \A e \in EntryKeys : RecordOf[e] \notin ToSet(held)

(* The pins of a blob, with the one that save() has made of it for the     *)
(* request it returns to.                                                  *)
Coming(b) == IF save.step = "cover" /\ save.pin /\ b \in Uses(save.e) THEN 1 ELSE 0
Covers == \A b \in Blobs : IsFiniteSet(KeptFor(b)) /\ pins[b] >= Cardinality(KeptFor(b)) + Coming(b)

(* The store's blobs, the entries and the references.                      *)
Contents ==
  /\ IsListOf(held, Blobs) /\ IsListOf(entries, EntryKeys) /\ refs \in [Blobs -> SUBSET EntryKeys]
  /\ RefsAreUses /\ EntriesHaveRecords /\ RecordsOnDisk

CacheInv == TypeOK /\ Contents /\ Saving /\ Covers

(* What EntriesKeepBlobs says of a step.                                   *)
Keeps ==
  \A e \in ToSet(entries) \cap ToSet(entries') : Uses(e) \cap ToSet(held) \subseteq ToSet(held')
----------------------------------------------------------------------------
(* Keys, and lists.                                                        *)

LEMMA KeysApart ==
  ASSUME NEW e \in EntryKeys
  PROVE  /\ Uses(e) \subseteq Blobs /\ Uses(e) # {} /\ RecordOf[e] \in Blobs
         /\ BlobsOf[e] \in Seq(Blobs) /\ IsInjective(BlobsOf[e]) /\ ToSet(BlobsOf[e]) = Uses(e)
         /\ \A o \in EntryKeys : RecordOf[e] \notin Uses(o) /\ (RecordOf[e] = RecordOf[o] => e = o)
PROOF
  <1>1. BlobsOf[e] \in Seq(Blobs) /\ BlobsOf[e] # <<>> BY CacheAssumption
  <1>2. Range(BlobsOf[e]) \subseteq Blobs /\ Range(BlobsOf[e]) # {} BY <1>1, RangeIs
  <1>3. ToSet(BlobsOf[e]) = Range(BlobsOf[e]) BY DEF ToSet, Range
  <1> QED BY <1>1, <1>2, <1>3, CacheAssumption DEF Uses

LEMMA NoneIs == ASSUME NEW B PROVE IsListOf(<<>>, B) /\ ToSet(<<>>) = {}
BY DEF IsListOf, IsInjective, ToSet

LEMMA LessIs ==
  ASSUME NEW B, NEW s, IsListOf(s, B), NEW S
  PROVE  IsListOf(Without(s, S), B) /\ ToSet(Without(s, S)) = ToSet(s) \ S
PROOF
  <1>1. s \in Seq(B) /\ IsInjective(s) BY DEF IsListOf
  <1>2. \A t : ToSet(t) = Range(t) BY DEF ToSet, Range
  <1> QED BY <1>1, <1>2, WithoutIs DEF IsListOf

LEMMA InList ==
  ASSUME NEW B, NEW s, IsListOf(s, B)
  PROVE  ToSet(s) \subseteq B
BY DEF IsListOf, ToSet

LEMMA JoinIs ==
  ASSUME NEW B, NEW s, NEW t, IsListOf(s, B), IsListOf(t, B), ToSet(s) \cap ToSet(t) = {}
  PROVE  IsListOf(s \o t, B) /\ ToSet(s \o t) = ToSet(s) \cup ToSet(t)
PROOF
  <1>1. s \in Seq(B) /\ IsInjective(s) /\ t \in Seq(B) /\ IsInjective(t) BY DEF IsListOf
  <1>2. \A u : ToSet(u) = Range(u) BY DEF ToSet, Range
  <1>3. s \o t \in Seq(B) BY <1>1
  <1>4. Range(s) \cap Range(t) = {} BY <1>2
  <1>5. Range(s \o t) = Range(s) \cup Range(t) /\ IsInjective(s \o t) BY <1>1, <1>4, ConcatOnce
  <1> QED BY <1>2, <1>3, <1>5 DEF IsListOf

LEMMA JoinHas ==
  ASSUME NEW B, NEW s, NEW t, IsListOf(s, B), IsListOf(t, B), ToSet(s) \cap ToSet(t) = {}
  PROVE  ToSet(s \o t) = ToSet(s) \cup ToSet(t)
PROOF
  <1>1. s \in Seq(B) /\ t \in Seq(B) BY DEF IsListOf
  <1>2. \A u : ToSet(u) = Range(u) BY DEF ToSet, Range
  <1>3. Range(s \o t) = Range(s) \cup Range(t) BY <1>1, ConcatOnce
  <1> QED BY <1>2, <1>3

LEMMA ToEndIs ==
  ASSUME NEW B, NEW s, IsListOf(s, B), NEW k \in B
  PROVE  IsListOf(ToEnd(s, k), B) /\ ToSet(ToEnd(s, k)) = ToSet(s) \cup {k}
PROOF
  <1> DEFINE r == Without(s, {k})
  <1>1. IsListOf(r, B) /\ ToSet(r) = ToSet(s) \ {k} BY LessIs
  <1>2. \A u : ToSet(u) = Range(u) BY DEF ToSet, Range
  <1>3. ToEnd(s, k) = Append(r, k) BY DEF ToEnd
  <1> HIDE DEF r
  <1>4. r \in Seq(B) /\ IsInjective(r) /\ k \notin Range(r) BY <1>1, <1>2 DEF IsListOf
  <1>a. IsInjective(Append(r, k)) BY <1>4, AppendOnce
  <1>b. Range(Append(r, k)) = Range(r) \cup {k} BY <1>4, AppendRange
  <1>c. Append(r, k) \in Seq(B) BY <1>4, AppendProperties
  <1>5. Append(r, k) \in Seq(B) /\ IsInjective(Append(r, k)) /\ Range(Append(r, k)) = Range(r) \cup {k}
    BY <1>a, <1>b, <1>c
  <1> QED BY <1>1, <1>2, <1>3, <1>5 DEF IsListOf

LEMMA ToEndHas ==
  ASSUME NEW B, NEW s, IsListOf(s, B), NEW k \in B
  PROVE  ToSet(ToEnd(s, k)) = ToSet(s) \cup {k}
PROOF
  <1>1. PICK t : t = ToEnd(s, k) OBVIOUS
  <1>2. ToSet(t) = ToSet(s) \cup {k} BY <1>1, ToEndIs
  <1> QED BY <1>1, <1>2

LEMMA AllToEndIs ==
  ASSUME NEW B, NEW s, NEW t, IsListOf(s, B), IsListOf(t, B)
  PROVE  IsListOf(AllToEnd(s, t), B) /\ ToSet(AllToEnd(s, t)) = ToSet(s) \cup ToSet(t)
PROOF
  <1> PICK r : r = Without(s, ToSet(t)) OBVIOUS
  <1>1. IsListOf(r, B) /\ ToSet(r) = ToSet(s) \ ToSet(t) BY LessIs
  <1>2. AllToEnd(s, t) = r \o t BY DEF AllToEnd
  <1>3. ToSet(r) \cap ToSet(t) = {} BY <1>1
  <1>4. IsListOf(r \o t, B) /\ ToSet(r \o t) = ToSet(r) \cup ToSet(t) BY <1>1, <1>3, JoinIs
  <1> QED BY <1>1, <1>2, <1>4

LEMMA AllToEndHas ==
  ASSUME NEW B, NEW s, NEW t, IsListOf(s, B), IsListOf(t, B)
  PROVE  ToSet(AllToEnd(s, t)) = ToSet(s) \cup ToSet(t)
PROOF
  <1>1. PICK u : u = AllToEnd(s, t) OBVIOUS
  <1>2. ToSet(u) = ToSet(s) \cup ToSet(t) BY <1>1, AllToEndIs
  <1> QED BY <1>1, <1>2

LEMMA RestIs ==
  ASSUME NEW B, NEW s, IsListOf(s, B), s # <<>>
  PROVE  /\ IsListOf(Tail(s), B) /\ Head(s) \in B /\ Head(s) \in ToSet(s)
         /\ ToSet(Tail(s)) \subseteq ToSet(s)
PROOF
  <1>1. s \in Seq(B) /\ IsInjective(s) BY DEF IsListOf
  <1>2. \A u : ToSet(u) = Range(u) BY DEF ToSet, Range
  <1>3. Tail(s) \in Seq(B) /\ Head(s) \in B BY <1>1
  <1> QED BY <1>1, <1>2, <1>3, TailRange, TailOnce DEF IsListOf

LEMMA PartIs ==
  ASSUME NEW B, NEW s, IsListOf(s, B), NEW j \in 0..Len(s), NEW i \in 1..(j + 1)
  PROVE  IsListOf(SubSeq(s, i, j), B) /\ ToSet(SubSeq(s, i, j)) \subseteq ToSet(s)
PROOF
  <1> DEFINE a == i - 1
             b == j - i + 1
             p == SubSeq(s, i, j)
  <1>1. s \in Seq(B) /\ IsInjective(s) /\ Len(s) \in Nat /\ DOMAIN s = 1..Len(s) BY DEF IsListOf
  <1>2. a \in Nat /\ b \in Nat /\ a + b =< Len(s) /\ a + 1 = i /\ a + b = j BY <1>1
  <1> HIDE DEF a, b
  <1>3. /\ SubSeq(s, a + 1, a + b) \in Seq(B) /\ Len(SubSeq(s, a + 1, a + b)) = b
        /\ \A k \in 1..b : SubSeq(s, a + 1, a + b)[k] = s[a + k]
    BY <1>1, <1>2, SubSeqIs
  <1>4. p \in Seq(B) /\ Len(p) = b /\ \A k \in 1..b : p[k] = s[a + k] BY <1>2, <1>3
  <1> HIDE DEF p
  <1>5. DOMAIN p = 1..b BY <1>4
  <1>6. \A k \in 1..b : a + k \in DOMAIN s BY <1>1, <1>2
  <1>7. \A k, l \in 1..b : p[k] = p[l] => k = l
    <2> SUFFICES ASSUME NEW k \in 1..b, NEW l \in 1..b, p[k] = p[l] PROVE k = l
      OBVIOUS
    <2>1. a + k = a + l BY <1>1, <1>4, <1>6 DEF IsInjective
    <2> QED BY <1>2, <2>1
  <1>8. IsInjective(p) BY <1>5, <1>7 DEF IsInjective
  <1>9. ToSet(p) \subseteq ToSet(s) BY <1>4, <1>5, <1>6 DEF ToSet
  <1> QED BY <1>4, <1>8, <1>9 DEF IsListOf, p

LEMMA ReorderedIs ==
  ASSUME NEW B, NEW s, IsListOf(s, B), NEW t \in Reordered(s)
  PROVE  IsListOf(t, B) /\ ToSet(t) = ToSet(s) /\ DOMAIN t = 1..Len(s) /\ Len(s) \in Nat
PROOF
  <1>1. s \in Seq(B) /\ Len(s) \in Nat /\ DOMAIN s = 1..Len(s) /\ ToSet(s) \subseteq B
    BY InList DEF IsListOf
  <1>2. /\ t \in [1..Len(s) -> ToSet(s)] /\ IsInjective(t)
        /\ \A x \in ToSet(s) : \E i \in 1..Len(s) : t[i] = x
    BY <1>1 DEF Reordered, Bijection, Injection, Surjection
  <1>3. t \in [1..Len(s) -> B] BY <1>1, <1>2
  <1>4. t \in Seq(B) BY <1>1, <1>3
  <1>5. ToSet(t) = ToSet(s)
    <2> DEFINE X == ToSet(s)
    <2>1. t \in [1..Len(s) -> X] /\ \A x \in X : \E i \in 1..Len(s) : t[i] = x BY <1>2
    <2>2. ToSet(t) = {t[i] : i \in 1..Len(s)} BY <2>1 DEF ToSet
    <2> HIDE DEF X
    <2>3. ToSet(t) = X BY <2>1, <2>2
    <2> QED BY <2>3 DEF X
  <1> QED BY <1>1, <1>2, <1>4, <1>5 DEF IsListOf

----------------------------------------------------------------------------
(* A removal of entries, from a store that has lost nothing of the others: *)
(* what the others use and their records stay.                             *)
LEMMA Removed ==
  ASSUME Contents, NEW E, NEW h, IsListOf(h, Blobs), persists' = persists,
         ~ persists => \A e \in EntryKeys : RecordOf[e] \notin ToSet(h),
         \A e \in ToSet(entries) \ E :
            /\ Uses(e) \cap ToSet(held) \subseteq ToSet(h)
            /\ RecordOf[e] \in ToSet(held) => RecordOf[e] \in ToSet(h),
         RemoveEntries(E, h)
  PROVE  Contents' /\ Keeps /\ ToSet(entries') = ToSet(entries) \ E
PROOF
  <1> DEFINE out  == E \cap ToSet(entries)
             drop == Unshared(out) \cup {RecordOf[e] : e \in out}
  <1>1. /\ entries' = Without(entries, out) /\ held' = Without(h, drop)
        /\ refs' = [b \in Blobs |-> refs[b] \ {e \in out : b \in Uses(e)}]
    BY DEF RemoveEntries
  <1>2. IsListOf(entries, EntryKeys) /\ ToSet(entries) \subseteq EntryKeys BY InList DEF Contents
  <1>3. /\ RefsAreUses /\ EntriesHaveRecords /\ refs \in [Blobs -> SUBSET EntryKeys]
    BY DEF Contents
  <1>4. IsListOf(entries', EntryKeys) /\ ToSet(entries') = ToSet(entries) \ E
    BY <1>1, <1>2, LessIs
  <1>5. IsListOf(held', Blobs) /\ ToSet(held') = ToSet(h) \ drop BY <1>1, LessIs
  <1>6. ASSUME NEW e \in ToSet(entries) \ E
        PROVE  Uses(e) \cap drop = {} /\ RecordOf[e] \notin drop
    <2>1. e \in EntryKeys /\ e \notin out BY <1>2, <1>6
    <2>2. \A o \in out : o \in EntryKeys /\ RecordOf[o] \notin Uses(e) /\ RecordOf[o] # RecordOf[e]
                          /\ RecordOf[e] \notin Uses(o)
      BY <1>2, <2>1, KeysApart
    <2>3. ASSUME NEW b \in Uses(e) PROVE b \notin Unshared(out)
      <3>1. b \in Blobs BY <2>1, KeysApart
      <3>2. e \in refs[b] BY <1>3, <1>6, <3>1 DEF RefsAreUses
      <3> QED BY <2>1, <3>2 DEF Unshared
    <2>4. RecordOf[e] \notin Unshared(out) BY <2>2 DEF Unshared
    <2> QED BY <2>2, <2>3, <2>4
  <1> HIDE DEF out
  <1>7. \A b \in Blobs : refs'[b] = refs[b] \ {e \in out : b \in Uses(e)} BY <1>1
  <1>8. refs' \in [Blobs -> SUBSET EntryKeys] BY <1>1, <1>3
  <1>9. RefsAreUses'
    <2> SUFFICES ASSUME NEW b \in Blobs PROVE refs'[b] = {e \in ToSet(entries)' : b \in Uses(e)}
      BY DEF RefsAreUses, Uses
    <2>1. refs[b] = {e \in ToSet(entries) : b \in Uses(e)} BY <1>3 DEF RefsAreUses
    <2> QED BY <1>4, <1>7, <2>1 DEF out
  <1> HIDE DEF drop
  <1>10. ASSUME NEW e \in ToSet(entries)'
         PROVE  /\ Uses(e) \cap ToSet(held) \subseteq ToSet(held')
                /\ RecordOf[e] \in ToSet(held) => RecordOf[e] \in ToSet(held')
    BY <1>4, <1>5, <1>6, <1>10
  <1>11. Keeps BY <1>10 DEF Keeps
  <1>12. EntriesHaveRecords' BY <1>3, <1>4, <1>10 DEF EntriesHaveRecords
  <1>13. RecordsOnDisk' BY <1>5 DEF RecordsOnDisk
  <1> QED BY <1>4, <1>5, <1>8, <1>9, <1>11, <1>12, <1>13 DEF Contents

----------------------------------------------------------------------------
(* The contents, an operation at a time.                                   *)
LEMMA ContentsStay ==
  ASSUME Contents, UNCHANGED <<persists, held, entries, refs>>
  PROVE  Contents' /\ Keeps
BY DEF Contents, Keeps, RefsAreUses, EntriesHaveRecords, RecordsOnDisk

(* The store has more of the blobs that are no records, or in a directory. *)
LEMMA HeldGrows ==
  ASSUME Contents, UNCHANGED persists, IsListOf(held', Blobs), ToSet(held) \subseteq ToSet(held'),
         ~ persists => \A e \in EntryKeys : RecordOf[e] \notin ToSet(held'),
         IsListOf(entries', EntryKeys), ToSet(entries') = ToSet(entries), UNCHANGED refs
  PROVE  Contents' /\ Keeps
PROOF
  <1>1. RefsAreUses' BY DEF Contents, RefsAreUses
  <1>2. EntriesHaveRecords' BY DEF Contents, EntriesHaveRecords
  <1>3. RecordsOnDisk' BY DEF RecordsOnDisk
  <1> QED BY <1>1, <1>2, <1>3 DEF Contents, Keeps

LEMMA EvictNextContents ==
  ASSUME Contents, EvictNext, UNCHANGED persists
  PROVE  Contents' /\ Keeps
PROOF
  <1> PICK k : k = Head(loop) OBVIOUS
  <1>1. CASE UNCHANGED <<held, entries, refs>> BY <1>1, ContentsStay
  <1>2. CASE RemoveEntries(UsersOf(k), Without(held, {k}))
    <2> PICK h : h = Without(held, {k}) OBVIOUS
    <2> PICK E : E = UsersOf(k) OBVIOUS
    <2>1. IsListOf(held, Blobs) /\ IsListOf(entries, EntryKeys) /\ RefsAreUses /\ RecordsOnDisk
      BY DEF Contents
    <2>2. IsListOf(h, Blobs) /\ ToSet(h) = ToSet(held) \ {k} BY <2>1, LessIs
    <2>3. ~ persists => \A e \in EntryKeys : RecordOf[e] \notin ToSet(h)
      BY <2>1, <2>2 DEF RecordsOnDisk
    <2>4. ASSUME NEW e \in ToSet(entries) \ E
          PROVE  k \notin Uses(e) \cap ToSet(held) /\ RecordOf[e] # k
      <3>1. e \notin refs[k] /\ RecordOf[e] # k BY <2>4 DEF UsersOf
      <3>2. k \in Blobs => k \notin Uses(e) BY <2>4, <3>1, <2>1 DEF RefsAreUses
      <3>3. ToSet(held) \subseteq Blobs BY <2>1, InList
      <3> QED BY <3>1, <3>2, <3>3
    <2>5. RemoveEntries(E, h) BY <1>2
    <2>6. \A e \in ToSet(entries) \ E :
            /\ Uses(e) \cap ToSet(held) \subseteq ToSet(h)
            /\ RecordOf[e] \in ToSet(held) => RecordOf[e] \in ToSet(h)
      BY <2>2, <2>4
    <2> QED BY <2>2, <2>3, <2>5, <2>6, Removed
  <1> QED BY <1>1, <1>2 DEF EvictNext

LEMMA SaveFoundContents ==
  ASSUME Contents, NEW e \in EntryKeys, NEW pin \in BOOLEAN, SaveFound(e, pin), UNCHANGED persists
  PROVE  Contents' /\ Keeps
PROOF
  <1>1. /\ e \in ToSet(entries) /\ entries' = ToEnd(entries, e)
        /\ UNCHANGED <<persists, held, refs>>
    BY DEF SaveFound, Saved
  <1>2. IsListOf(entries, EntryKeys) /\ IsListOf(held, Blobs) /\ RecordsOnDisk BY DEF Contents
  <1>3. IsListOf(entries', EntryKeys) /\ ToSet(entries') = ToSet(entries) BY <1>1, <1>2, ToEndIs
  <1> QED BY <1>1, <1>2, <1>3, HeldGrows DEF RecordsOnDisk

LEMMA SavePutsContents ==
  ASSUME Contents, IsListOf(todo, Blobs), Saving, SavePuts, UNCHANGED persists
  PROVE  Contents' /\ Keeps
PROOF
  <1> PICK b : b = Head(todo) OBVIOUS
  <1>1. /\ todo # <<>> /\ held' = ToEnd(held, b) /\ UNCHANGED <<persists, entries, refs>>
        /\ save.step # "none"
    BY DEF SavePuts
  <1>2. IsListOf(entries, EntryKeys) /\ IsListOf(held, Blobs) /\ RecordsOnDisk BY DEF Contents
  <1>3. b \in Blobs /\ b \in ToSet(todo) BY <1>1, RestIs
  <1>4. \A o \in EntryKeys : RecordOf[o] # b
    <2>1. save.e \in EntryKeys /\ b \in Uses(save.e) BY <1>1, <1>3 DEF Saving
    <2> QED BY <2>1, KeysApart
  <1>5. IsListOf(held', Blobs) /\ ToSet(held') = ToSet(held) \cup {b} BY <1>1, <1>2, <1>3, ToEndIs
  <1>6. ~ persists => \A e \in EntryKeys : RecordOf[e] \notin ToSet(held')
    BY <1>2, <1>4, <1>5 DEF RecordsOnDisk
  <1> QED BY <1>1, <1>2, <1>5, <1>6, HeldGrows

LEMMA SaveAddsContents ==
  ASSUME Contents, Saving, SaveAdds, UNCHANGED persists
  PROVE  Contents' /\ Keeps
PROOF
  <1> PICK e : e = save.e OBVIOUS
  <1>1. /\ entries' = ToEnd(entries, e) /\ save.step # "none"
        /\ refs' = [b \in Blobs |-> IF b \in Uses(e) THEN refs[b] \cup {e} ELSE refs[b]]
        /\ held' = IF persists THEN ToEnd(held, RecordOf[e]) ELSE held
    BY DEF SaveAdds
  <1>2. /\ IsListOf(entries, EntryKeys) /\ IsListOf(held, Blobs) /\ RecordsOnDisk
        /\ RefsAreUses /\ EntriesHaveRecords /\ refs \in [Blobs -> SUBSET EntryKeys]
    BY DEF Contents
  <1>3. e \in EntryKeys /\ RecordOf[e] \in Blobs BY <1>1, KeysApart DEF Saving
  <1>4. IsListOf(entries', EntryKeys) /\ ToSet(entries') = ToSet(entries) \cup {e}
    BY <1>1, <1>2, <1>3, ToEndIs
  <1>5. /\ IsListOf(held', Blobs) /\ ToSet(held) \subseteq ToSet(held')
        /\ persists => RecordOf[e] \in ToSet(held')
        /\ ~ persists => held' = held
    <2>1. CASE persists
      <3>1. held' = ToEnd(held, RecordOf[e]) BY <1>1, <2>1
      <3> QED BY <1>2, <1>3, <2>1, <3>1, ToEndIs
    <2>2. CASE ~ persists BY <1>1, <1>2, <2>2
    <2> QED BY <2>1, <2>2
  <1>6. refs' \in [Blobs -> SUBSET EntryKeys] BY <1>1, <1>2, <1>3
  <1>7. RefsAreUses'
    <2> SUFFICES ASSUME NEW b \in Blobs PROVE refs'[b] = {o \in ToSet(entries)' : b \in Uses(o)}
      BY DEF RefsAreUses, Uses
    <2>1. refs[b] = {o \in ToSet(entries) : b \in Uses(o)} BY <1>2 DEF RefsAreUses
    <2>2. refs'[b] = IF b \in Uses(e) THEN refs[b] \cup {e} ELSE refs[b] BY <1>1
    <2> QED BY <1>4, <2>1, <2>2
  <1>8. EntriesHaveRecords' BY <1>2, <1>4, <1>5 DEF EntriesHaveRecords
  <1>9. RecordsOnDisk' BY <1>2, <1>5 DEF RecordsOnDisk
  <1> QED BY <1>4, <1>5, <1>6, <1>7, <1>8, <1>9 DEF Contents, Keeps

LEMMA RemovesContents ==
  ASSUME Contents, NEW E, RemoveEntries(E, held), UNCHANGED persists
  PROVE  Contents' /\ Keeps /\ ToSet(entries') = ToSet(entries) \ E
PROOF
  <1> PICK h : h = held OBVIOUS
  <1>1. IsListOf(h, Blobs) /\ (~ persists => \A e \in EntryKeys : RecordOf[e] \notin ToSet(h))
    BY DEF Contents, RecordsOnDisk
  <1>2. RemoveEntries(E, h) OBVIOUS
  <1> QED BY <1>1, <1>2, Removed DEF Contents

LEMMA RestoreContents ==
  ASSUME Contents, match \in EntryKeys, NEW j \in 0..Len(BlobsOf[match]), NEW i \in 1..(j + 1),
         Restore(i, j), UNCHANGED persists
  PROVE  Contents' /\ Keeps
PROOF
  <1> PICK e : e = match OBVIOUS
  <1>r. PICK read : read = SubSeq(BlobsOf[e], i, j) OBVIOUS
  <1>g. PICK gone : gone = {n \in DOMAIN read : read[n] \notin ToSet(held)} OBVIOUS
  <1>1. IsListOf(entries, EntryKeys) /\ IsListOf(held, Blobs) /\ RecordsOnDisk BY DEF Contents
  <1>2. \A o \in EntryKeys : RecordOf[o] \notin Uses(e) BY KeysApart
  <1>3. IsListOf(read, Blobs) /\ ToSet(read) \subseteq Uses(e)
    <2>1. IsListOf(BlobsOf[e], Blobs) /\ ToSet(BlobsOf[e]) = Uses(e) BY KeysApart DEF IsListOf
    <2>2. j \in 0..Len(BlobsOf[e]) OBVIOUS
    <2>3. IsListOf(SubSeq(BlobsOf[e], i, j), Blobs)
      /\ ToSet(SubSeq(BlobsOf[e], i, j)) \subseteq ToSet(BlobsOf[e])
      BY <2>1, <2>2, PartIs
    <2> QED BY <1>r, <2>1, <2>3
  <1>4. ASSUME NEW t, IsListOf(t, Blobs), ToSet(t) \subseteq ToSet(read)
        PROVE  /\ IsListOf(AllToEnd(held, t), Blobs) /\ ToSet(held) \subseteq ToSet(AllToEnd(held, t))
               /\ ~ persists => \A o \in EntryKeys : RecordOf[o] \notin ToSet(AllToEnd(held, t))
    <2>1. IsListOf(AllToEnd(held, t), Blobs) BY <1>1, <1>4, AllToEndIs
    <2>2. ToSet(AllToEnd(held, t)) = ToSet(held) \cup ToSet(t) BY <1>1, <1>4, AllToEndHas
    <2>3. \A o \in EntryKeys : RecordOf[o] \notin ToSet(t) BY <1>2, <1>3, <1>4
    <2> QED BY <1>1, <2>1, <2>2, <2>3 DEF RecordsOnDisk
  <1>5. CASE gone # {}
    <2>p. PICK part : part = SubSeq(read, 1, Min(gone) - 1) OBVIOUS
    <2>h. PICK h : h = AllToEnd(held, part) OBVIOUS
    <2>1. RemoveEntries({e}, h) BY <1>r, <1>g, <1>5, <2>p, <2>h DEF Restore
    <2>2. read \in Seq(Blobs) /\ Len(read) \in Nat /\ DOMAIN read = 1..Len(read)
      BY <1>3 DEF IsListOf
    <2>3. gone \in SUBSET Nat /\ gone \subseteq 1..Len(read) BY <1>g, <2>2
    <2>4. Min(gone) \in 1..Len(read)
      <3>1. Min(gone) \in gone BY <1>5, <2>3, MinIs
      <3> QED BY <2>3, <3>1
    <2>5. Min(gone) - 1 \in 0..Len(read) /\ 1 \in 1..((Min(gone) - 1) + 1) BY <2>2, <2>4
    <2>6. IsListOf(part, Blobs) /\ ToSet(part) \subseteq ToSet(read) BY <1>3, <2>p, <2>5, PartIs
    <2>7. /\ IsListOf(h, Blobs) /\ ToSet(held) \subseteq ToSet(h)
          /\ ~ persists => \A o \in EntryKeys : RecordOf[o] \notin ToSet(h)
      BY <1>4, <2>h, <2>6
    <2>8. \A o \in ToSet(entries) \ {e} :
            /\ Uses(o) \cap ToSet(held) \subseteq ToSet(h)
            /\ RecordOf[o] \in ToSet(held) => RecordOf[o] \in ToSet(h)
      BY <2>7
    <2> QED BY <2>1, <2>7, <2>8, Removed
  <1>6. CASE gone = {}
    <2>1. /\ held' = AllToEnd(held, read) /\ UNCHANGED refs
          /\ entries' = entries \/ (e \in ToSet(entries) /\ entries' = ToEnd(entries, e))
      BY <1>r, <1>g, <1>6 DEF Restore
    <2>2. IsListOf(entries', EntryKeys) /\ ToSet(entries') = ToSet(entries)
      <3>1. CASE entries' = entries BY <1>1, <3>1
      <3>2. CASE e \in ToSet(entries) /\ entries' = ToEnd(entries, e)
        <4>1. e \in EntryKeys OBVIOUS
        <4>2. IsListOf(ToEnd(entries, e), EntryKeys) BY <1>1, <4>1, ToEndIs
        <4>3. ToSet(ToEnd(entries, e)) = ToSet(entries) \cup {e} BY <1>1, <4>1, ToEndHas
        <4> QED BY <3>2, <4>2, <4>3
      <3> QED BY <2>1, <3>1, <3>2
    <2>3. /\ IsListOf(held', Blobs) /\ ToSet(held) \subseteq ToSet(held')
          /\ ~ persists => \A o \in EntryKeys : RecordOf[o] \notin ToSet(held')
      BY <1>3, <1>4, <2>1
    <2> QED BY <2>1, <2>2, <2>3, HeldGrows
  <1> QED BY <1>5, <1>6

(* The entries of the next server are the whole ones among the files.      *)
LEMMA RestartContents ==
  ASSUME Contents, Restart, UNCHANGED persists
  PROVE  Contents' /\ Keeps
PROOF
  <1>1. persists /\ IsListOf(held, Blobs) /\ ToSet(held) \subseteq Blobs BY InList DEF Restart, Contents
  <1>2. PICK files \in SUBSET ToSet(held) : Load(files) BY DEF Restart
  <1> DEFINE whole   == Whole(files)
             records == {RecordOf[e] : e \in EntryKeys}
             found   == {RecordOf[e] : e \in whole}
             names   == Without(held, Blobs \ found)
             rest    == Without(held, Blobs \ (files \ records))
  <1>3. PICK others \in Reordered(rest), read \in Reordered(names) :
           /\ held' = others \o read
           /\ entries' = [n \in DOMAIN read |-> CHOOSE e \in whole : RecordOf[e] = read[n]]
           /\ refs' = [b \in Blobs |-> {e \in whole : b \in Uses(e)}]
    BY <1>2 DEF Load
  <1>4. /\ whole \subseteq EntryKeys /\ found \subseteq files
        /\ \A e \in whole : Uses(e) \subseteq files \ records
    <2>1. \A e \in whole : e \in EntryKeys /\ RecordOf[e] \in files /\ Uses(e) \subseteq files
      BY DEF Whole
    <2>2. \A e \in whole : Uses(e) \cap records = {} BY <2>1, KeysApart
    <2> QED BY <2>1, <2>2
  <1>5. IsListOf(names, Blobs) /\ ToSet(names) = found
    <2>1. IsListOf(names, Blobs) /\ ToSet(names) = ToSet(held) \ (Blobs \ found) BY <1>1, LessIs
    <2> QED BY <1>1, <1>4, <2>1
  <1>6. IsListOf(rest, Blobs) /\ ToSet(rest) = files \ records
    <2>1. IsListOf(rest, Blobs) /\ ToSet(rest) = ToSet(held) \ (Blobs \ (files \ records))
      BY <1>1, LessIs
    <2> QED BY <1>1, <2>1
  <1>7. IsListOf(others, Blobs) /\ ToSet(others) = files \ records BY <1>6, ReorderedIs
  <1>8. IsListOf(read, Blobs) /\ ToSet(read) = found BY <1>5, ReorderedIs
  <1>9. found \subseteq records BY <1>4
  <1> HIDE DEF whole, records, found, names, rest
  <1>10. IsListOf(held', Blobs) /\ ToSet(held') = (files \ records) \cup found
    <2>1. ToSet(others) \cap ToSet(read) = {} BY <1>7, <1>8, <1>9
    <2>2. IsListOf(others, Blobs) /\ IsListOf(read, Blobs) BY <1>7, <1>8
    <2>3. IsListOf(others \o read, Blobs) BY <2>1, <2>2, JoinIs
    <2>4. ToSet(others \o read) = ToSet(others) \cup ToSet(read) BY <2>1, <2>2, JoinHas
    <2> QED BY <1>3, <1>7, <1>8, <2>3, <2>4
  <1>11. /\ read \in Seq(Blobs) /\ DOMAIN read = 1..Len(read) /\ Len(read) \in Nat
         /\ IsInjective(read)
    BY <1>8 DEF IsListOf
  <1>12. DOMAIN entries' = 1..Len(read) BY <1>3, <1>11
  <1>13. \A n \in 1..Len(read) : entries'[n] \in whole /\ RecordOf[entries'[n]] = read[n]
    <2> SUFFICES ASSUME NEW n \in 1..Len(read)
                 PROVE  entries'[n] \in whole /\ RecordOf[entries'[n]] = read[n]
      OBVIOUS
    <2>1. read[n] \in found BY <1>8, <1>11 DEF ToSet
    <2>2. \E e \in whole : RecordOf[e] = read[n] BY <2>1 DEF found
    <2>3. entries'[n] = CHOOSE e \in whole : RecordOf[e] = read[n] BY <1>3, <1>11
    <2> QED BY <2>2, <2>3
  <1>14. \A n, m \in 1..Len(read) : entries'[n] = entries'[m] => n = m
    BY <1>11, <1>13 DEF IsInjective
  <1>15. ToSet(entries') = whole
    <2>1. ToSet(entries') = {entries'[n] : n \in 1..Len(read)} BY <1>12 DEF ToSet
    <2>2. ASSUME NEW e \in whole PROVE \E n \in 1..Len(read) : entries'[n] = e
      <3>1. RecordOf[e] \in ToSet(read) BY <1>8, <2>2 DEF found
      <3>2. PICK n \in 1..Len(read) : read[n] = RecordOf[e] BY <1>11, <3>1 DEF ToSet
      <3>3. RecordOf[entries'[n]] = RecordOf[e] /\ entries'[n] \in EntryKeys /\ e \in EntryKeys
        BY <1>4, <1>13, <2>2, <3>2
      <3> QED BY <3>3, KeysApart
    <2> QED BY <1>13, <2>1, <2>2
  <1>16. IsListOf(entries', EntryKeys)
    <2>1. entries' = [n \in 1..Len(read) |-> entries'[n]] BY <1>3, <1>11
    <2>2. \A n \in 1..Len(read) : entries'[n] \in EntryKeys BY <1>4, <1>13
    <2>3. entries' \in Seq(EntryKeys) BY <1>11, <2>1, <2>2
    <2>4. IsInjective(entries') BY <1>12, <1>14 DEF IsInjective
    <2> QED BY <2>3, <2>4 DEF IsListOf
  <1>17. refs' \in [Blobs -> SUBSET EntryKeys] BY <1>3, <1>4
  <1>18. RefsAreUses'
    <2> SUFFICES ASSUME NEW b \in Blobs PROVE refs'[b] = {e \in ToSet(entries)' : b \in Uses(e)}
      BY DEF RefsAreUses, Uses
    <2> QED BY <1>3, <1>15
  <1>19. EntriesHaveRecords' BY <1>10, <1>15 DEF EntriesHaveRecords, found
  <1>20. RecordsOnDisk' BY <1>1 DEF RecordsOnDisk
  <1>21. Keeps BY <1>4, <1>10, <1>15 DEF Keeps
  <1> QED BY <1>10, <1>16, <1>17, <1>18, <1>19, <1>20, <1>21 DEF Contents

----------------------------------------------------------------------------
(* The pins: a blob has one for each of the entries kept that use it.      *)
LEMMA KeptForIs ==
  ASSUME NEW b
  PROVE  \A x : x \in KeptFor(b) <=>
                  \E o \in EntryKeys : \E n \in 1..users[o] : b \in Uses(o) /\ x = <<o, n>>
BY DEF KeptFor

LEMMA KeptElsewhere ==
  ASSUME NEW b, users \in [EntryKeys -> Nat], NEW e \in EntryKeys, b \notin Uses(e), NEW n,
         users' = [users EXCEPT ![e] = n]
  PROVE  KeptFor(b)' = KeptFor(b)
PROOF
  <1>1. \A o \in EntryKeys : b \in Uses(o) => users'[o] = users[o] OBVIOUS
  <1>2. \A x : x \in KeptFor(b)' <=>
                  \E o \in EntryKeys : \E m \in 1..users'[o] : b \in Uses(o) /\ x = <<o, m>>
    BY DEF KeptFor, Uses
  <1>3. ASSUME NEW x PROVE x \in KeptFor(b)' <=> x \in KeptFor(b)
    BY <1>1, <1>2, KeptForIs
  <1> QED BY <1>3

LEMMA KeptMore ==
  ASSUME NEW b, users \in [EntryKeys -> Nat], NEW e \in EntryKeys, b \in Uses(e),
         users' = [users EXCEPT ![e] = @ + 1], IsFiniteSet(KeptFor(b))
  PROVE  IsFiniteSet(KeptFor(b)') /\ Cardinality(KeptFor(b)') = Cardinality(KeptFor(b)) + 1
PROOF
  <1> PICK u : u = users[e] OBVIOUS
  <1>1. u \in Nat /\ users'[e] = u + 1 /\ \A o \in EntryKeys : o # e => users'[o] = users[o]
    OBVIOUS
  <1>2. 1..(u + 1) = 1..u \cup {u + 1} /\ u + 1 \notin 1..u BY <1>1
  <1>3. \A x : x \in KeptFor(b)' <=>
                  \E o \in EntryKeys : \E m \in 1..users'[o] : b \in Uses(o) /\ x = <<o, m>>
    BY DEF KeptFor, Uses
  <1>4. <<e, u + 1>> \notin KeptFor(b) BY <1>2, KeptForIs
  <1>5. KeptFor(b)' = KeptFor(b) \cup {<<e, u + 1>>}
    <2>1. ASSUME NEW x \in KeptFor(b)' PROVE x \in KeptFor(b) \cup {<<e, u + 1>>}
      <3>o. PICK o \in EntryKeys : \E m \in 1..users'[o] : b \in Uses(o) /\ x = <<o, m>>
        BY <1>3, <2>1
      <3>1. PICK m \in 1..users'[o] : b \in Uses(o) /\ x = <<o, m>> BY <3>o
      <3>2. CASE o # e BY <1>1, <3>1, <3>2, KeptForIs
      <3>3. CASE o = e BY <1>1, <1>2, <3>1, <3>3, KeptForIs
      <3> QED BY <3>2, <3>3
    <2>2. ASSUME NEW x \in KeptFor(b) PROVE x \in KeptFor(b)'
      <3>o. PICK o \in EntryKeys : \E m \in 1..users[o] : b \in Uses(o) /\ x = <<o, m>>
        BY <2>2, KeptForIs
      <3>1. PICK m \in 1..users[o] : b \in Uses(o) /\ x = <<o, m>> BY <3>o
      <3>2. m \in 1..users'[o] BY <1>1, <1>2
      <3> QED BY <1>3, <3>1, <3>2
    <2>3. <<e, u + 1>> \in KeptFor(b)' BY <1>1, <1>2, <1>3
    <2> QED BY <2>1, <2>2, <2>3
  <1>6. PICK K : K = KeptFor(b) OBVIOUS
  <1>7. IsFiniteSet(K \cup {<<e, u + 1>>}) /\ Cardinality(K \cup {<<e, u + 1>>}) = Cardinality(K) + 1
    BY <1>4, <1>6, FS_AddElement
  <1> QED BY <1>5, <1>6, <1>7

LEMMA KeptLess ==
  ASSUME NEW b, users \in [EntryKeys -> Nat], NEW e \in EntryKeys, b \in Uses(e), users[e] > 0,
         users' = [users EXCEPT ![e] = @ - 1], IsFiniteSet(KeptFor(b))
  PROVE  IsFiniteSet(KeptFor(b)') /\ Cardinality(KeptFor(b)') = Cardinality(KeptFor(b)) - 1
PROOF
  <1> PICK u : u = users[e] OBVIOUS
  <1>1. /\ u \in Nat /\ u > 0 /\ users'[e] = u - 1
        /\ \A o \in EntryKeys : o # e => users'[o] = users[o]
    OBVIOUS
  <1>2. 1..u = 1..(u - 1) \cup {u} /\ u \notin 1..(u - 1) BY <1>1
  <1>3. \A x : x \in KeptFor(b)' <=>
                  \E o \in EntryKeys : \E m \in 1..users'[o] : b \in Uses(o) /\ x = <<o, m>>
    BY DEF KeptFor, Uses
  <1>4. <<e, u>> \in KeptFor(b) BY <1>2, KeptForIs
  <1>5. KeptFor(b)' = KeptFor(b) \ {<<e, u>>}
    <2>1. ASSUME NEW x \in KeptFor(b)' PROVE x \in KeptFor(b) \ {<<e, u>>}
      <3>o. PICK o \in EntryKeys : \E m \in 1..users'[o] : b \in Uses(o) /\ x = <<o, m>>
        BY <1>3, <2>1
      <3>1. PICK m \in 1..users'[o] : b \in Uses(o) /\ x = <<o, m>> BY <3>o
      <3>2. m \in 1..users[o] BY <1>1, <1>2
      <3>3. o = e => m # u BY <1>1, <1>2
      <3> QED BY <3>1, <3>2, <3>3, KeptForIs
    <2>2. ASSUME NEW x \in KeptFor(b), x # <<e, u>> PROVE x \in KeptFor(b)'
      <3>o. PICK o \in EntryKeys : \E m \in 1..users[o] : b \in Uses(o) /\ x = <<o, m>>
        BY <2>2, KeptForIs
      <3>1. PICK m \in 1..users[o] : b \in Uses(o) /\ x = <<o, m>> BY <3>o
      <3>2. m \in 1..users'[o] BY <1>1, <1>2, <2>2, <3>1
      <3> QED BY <1>3, <3>1, <3>2
    <2> QED BY <2>1, <2>2, <1>2, <1>3, <1>1
  <1> QED BY <1>4, <1>5, FS_RemoveElement

LEMMA CoversIs ==
  ASSUME Covers, TypeOK, NEW b \in Blobs
  PROVE  /\ IsFiniteSet(KeptFor(b)) /\ Cardinality(KeptFor(b)) \in Nat
         /\ pins[b] \in Nat /\ Coming(b) \in {0, 1}
         /\ pins[b] >= Cardinality(KeptFor(b)) + Coming(b)
         /\ save.step # "cover" => Coming(b) = 0
BY FS_CardinalityType DEF Covers, TypeOK, Coming

(* The pins and the requests stay, and no save() comes to its end.         *)
LEMMA CoversStay ==
  ASSUME Covers, TypeOK, UNCHANGED <<pins, users>>, save'.step # "cover" \/ save' = save
  PROVE  Covers'
PROOF
  <1> SUFFICES ASSUME NEW b \in Blobs
               PROVE  /\ IsFiniteSet(KeptFor(b)')
                      /\ pins'[b] >= Cardinality(KeptFor(b)') + Coming(b)'
    BY DEF Covers, KeptFor, Uses
  <1>1. KeptFor(b)' = KeptFor(b) BY DEF KeptFor, Uses
  <1>2. Coming(b)' = 0 \/ Coming(b)' = Coming(b) BY DEF Coming, Uses
  <1>3. /\ IsFiniteSet(KeptFor(b)) /\ Cardinality(KeptFor(b)) \in Nat
        /\ pins[b] \in Nat /\ Coming(b) \in {0, 1}
        /\ pins[b] >= Cardinality(KeptFor(b)) + Coming(b)
    BY CoversIs
  <1> QED BY <1>1, <1>2, <1>3

LEMMA SaveFoundCovers ==
  ASSUME Covers, TypeOK, NEW e \in EntryKeys, NEW pin \in BOOLEAN, SaveFound(e, pin)
  PROVE  Covers'
PROOF
  <1>1. CASE ~ pin
    <2>1. UNCHANGED <<pins, users, save>> BY <1>1 DEF SaveFound
    <2> QED BY <2>1, CoversStay
  <1>2. CASE pin
    <2> SUFFICES ASSUME NEW b \in Blobs
                 PROVE  /\ IsFiniteSet(KeptFor(b)')
                        /\ pins'[b] >= Cardinality(KeptFor(b)') + Coming(b)'
      BY DEF Covers, KeptFor, Uses
    <2>1. /\ pins' = PinnedBy(e) /\ users' = [users EXCEPT ![e] = @ + 1] /\ save' = save
          /\ save.step # "cover" /\ users \in [EntryKeys -> Nat]
      BY <1>2 DEF SaveFound, Idle, NoSave, TypeOK
    <2>2. Coming(b)' = 0 BY <2>1 DEF Coming
    <2>3. /\ IsFiniteSet(KeptFor(b)) /\ Cardinality(KeptFor(b)) \in Nat
          /\ pins[b] \in Nat /\ Coming(b) \in {0, 1}
          /\ pins[b] >= Cardinality(KeptFor(b)) + Coming(b)
      BY CoversIs
    <2>4. CASE b \in Uses(e)
      <3>1. pins'[b] = pins[b] + 1 BY <2>1, <2>4 DEF PinnedBy
      <3>2. IsFiniteSet(KeptFor(b)') /\ Cardinality(KeptFor(b)') = Cardinality(KeptFor(b)) + 1
        BY <2>1, <2>3, <2>4, KeptMore
      <3> QED BY <2>2, <2>3, <3>1, <3>2
    <2>5. CASE b \notin Uses(e)
      <3>1. pins'[b] = pins[b] BY <2>1, <2>5 DEF PinnedBy
      <3>2. KeptFor(b)' = KeptFor(b) BY <2>1, <2>5, KeptElsewhere
      <3> QED BY <2>2, <2>3, <3>1, <3>2
    <2> QED BY <2>4, <2>5
  <1> QED BY <1>1, <1>2

LEMMA SaveAddsCovers ==
  ASSUME Covers, TypeOK, SaveAdds
  PROVE  Covers'
PROOF
  <1> SUFFICES ASSUME NEW b \in Blobs
               PROVE  /\ IsFiniteSet(KeptFor(b)')
                      /\ pins'[b] >= Cardinality(KeptFor(b)') + Coming(b)'
    BY DEF Covers, KeptFor, Uses
  <1>1. /\ pins' = (IF save.pin THEN PinnedBy(save.e) ELSE pins) /\ UNCHANGED users
        /\ save' = [save EXCEPT !.step = "cover"]
    BY DEF SaveAdds
  <1>2. save'.pin = save.pin /\ save'.e = save.e /\ save'.step = "cover" BY <1>1 DEF TypeOK
  <1>3. KeptFor(b)' = KeptFor(b) BY <1>1 DEF KeptFor, Uses
  <1>4. /\ IsFiniteSet(KeptFor(b)) /\ Cardinality(KeptFor(b)) \in Nat
        /\ pins[b] \in Nat /\ Coming(b) \in {0, 1}
        /\ pins[b] >= Cardinality(KeptFor(b)) + Coming(b)
    BY CoversIs
  <1>5. CASE save.pin /\ b \in Uses(save.e)
    <2>1. pins'[b] = pins[b] + 1 BY <1>1, <1>5 DEF PinnedBy
    <2>2. Coming(b)' \in {0, 1} BY DEF Coming
    <2> QED BY <1>3, <1>4, <2>1, <2>2
  <1>6. CASE ~ (save.pin /\ b \in Uses(save.e))
    <2>1. pins'[b] = pins[b] BY <1>1, <1>6 DEF PinnedBy
    <2>2. Coming(b)' = 0 BY <1>2, <1>6 DEF Coming, Uses
    <2> QED BY <1>3, <1>4, <2>1, <2>2
  <1> QED BY <1>5, <1>6

LEMMA SaveReturnsCovers ==
  ASSUME Covers, TypeOK, Saving, SaveReturns
  PROVE  Covers'
PROOF
  <1> PICK e : e = save.e OBVIOUS
  <1>1. /\ users' = (IF save.pin THEN [users EXCEPT ![e] = @ + 1] ELSE users)
        /\ save' = NoSave /\ UNCHANGED pins /\ save.step = "cover"
    BY DEF SaveReturns
  <1>2. e \in EntryKeys /\ users \in [EntryKeys -> Nat] BY <1>1 DEF Saving, TypeOK
  <1>3. CASE ~ save.pin
    <2>1. UNCHANGED <<pins, users>> /\ save'.step # "cover" BY <1>1, <1>3 DEF NoSave
    <2> QED BY <2>1, CoversStay
  <1>4. CASE save.pin
    <2> SUFFICES ASSUME NEW b \in Blobs
                 PROVE  /\ IsFiniteSet(KeptFor(b)')
                        /\ pins'[b] >= Cardinality(KeptFor(b)') + Coming(b)'
      BY DEF Covers, KeptFor, Uses
    <2>1. users' = [users EXCEPT ![e] = @ + 1] /\ pins' = pins BY <1>1, <1>4
    <2>2. Coming(b)' = 0 BY <1>1 DEF Coming, NoSave
    <2>3. /\ IsFiniteSet(KeptFor(b)) /\ Cardinality(KeptFor(b)) \in Nat
          /\ pins[b] \in Nat /\ Coming(b) \in {0, 1}
          /\ pins[b] >= Cardinality(KeptFor(b)) + Coming(b)
      BY CoversIs
    <2>4. CASE b \in Uses(e)
      <3>1. Coming(b) = 1 BY <1>1, <1>4, <2>4 DEF Coming
      <3>2. IsFiniteSet(KeptFor(b)') /\ Cardinality(KeptFor(b)') = Cardinality(KeptFor(b)) + 1
        BY <1>2, <2>1, <2>3, <2>4, KeptMore
      <3> QED BY <2>1, <2>2, <2>3, <3>1, <3>2
    <2>5. CASE b \notin Uses(e)
      <3>1. KeptFor(b)' = KeptFor(b) BY <1>2, <2>1, <2>5, KeptElsewhere
      <3> QED BY <2>1, <2>2, <2>3, <3>1
    <2> QED BY <2>4, <2>5
  <1> QED BY <1>3, <1>4

LEMMA UnpinCovers ==
  ASSUME Covers, TypeOK, NEW e \in EntryKeys, Unpin(e)
  PROVE  Covers'
PROOF
  <1> SUFFICES ASSUME NEW b \in Blobs
               PROVE  /\ IsFiniteSet(KeptFor(b)')
                      /\ pins'[b] >= Cardinality(KeptFor(b)') + Coming(b)'
    BY DEF Covers, KeptFor, Uses
  <1>1. /\ pins' = UnpinnedBy(e) /\ users' = [users EXCEPT ![e] = @ - 1] /\ save' = save
        /\ save.step # "cover" /\ users[e] > 0 /\ users \in [EntryKeys -> Nat]
    BY DEF Unpin, Idle, NoSave, TypeOK
  <1>2. Coming(b)' = 0 BY <1>1 DEF Coming
  <1>3. /\ IsFiniteSet(KeptFor(b)) /\ Cardinality(KeptFor(b)) \in Nat
        /\ pins[b] \in Nat /\ Coming(b) \in {0, 1}
        /\ pins[b] >= Cardinality(KeptFor(b)) + Coming(b)
    BY CoversIs
  <1>4. CASE b \in Uses(e)
    <2>1. /\ IsFiniteSet(KeptFor(b)') /\ Cardinality(KeptFor(b)') = Cardinality(KeptFor(b)) - 1
      BY <1>1, <1>3, <1>4, KeptLess
    <2>2. pins'[b] = IF pins[b] > 0 THEN pins[b] - 1 ELSE pins[b] BY <1>1, <1>4 DEF UnpinnedBy
    <2> QED BY <1>2, <1>3, <2>1, <2>2
  <1>5. CASE b \notin Uses(e)
    <2>1. pins'[b] = pins[b] BY <1>1, <1>5 DEF UnpinnedBy
    <2>2. KeptFor(b)' = KeptFor(b) BY <1>1, <1>5, KeptElsewhere
    <2> QED BY <1>2, <1>3, <2>1, <2>2
  <1> QED BY <1>4, <1>5

LEMMA NoUsersCovers ==
  pins = [b \in Blobs |-> 0] /\ users = [e \in EntryKeys |-> 0] /\ save = NoSave => Covers
PROOF
  <1> SUFFICES ASSUME pins = [b \in Blobs |-> 0], users = [e \in EntryKeys |-> 0], save = NoSave,
                      NEW b \in Blobs
               PROVE  /\ IsFiniteSet(KeptFor(b))
                      /\ pins[b] >= Cardinality(KeptFor(b)) + Coming(b)
    BY DEF Covers
  <1>1. \A o \in EntryKeys : users[o] = 0 OBVIOUS
  <1>2. 1..0 = {} OBVIOUS
  <1>3. KeptFor(b) = {} BY <1>1, <1>2, KeptForIs
  <1>4. Coming(b) = 0 BY DEF Coming, NoSave
  <1> QED BY <1>3, <1>4, FS_EmptySet

LEMMA RestartCovers ==
  ASSUME Restart
  PROVE  Covers'
PROOF
  <1>1. (pins = [b \in Blobs |-> 0] /\ users = [e \in EntryKeys |-> 0] /\ save = NoSave)'
    BY DEF Restart, NoSave
  <1> QED BY <1>1, NoUsersCovers, PTL

----------------------------------------------------------------------------
(* The rest of the state, and the save() that runs.                        *)
Controls ==
  /\ pins \in [Blobs -> Nat] /\ users \in [EntryKeys -> Nat]
  /\ IsListOf(loop, Blobs) /\ IsListOf(todo, Blobs)
  /\ save \in [step : {"none", "read", "put", "cover"}, e : EntryKeys \cup {NoEntry},
               pin : BOOLEAN]
  /\ match \in EntryKeys \cup {NoEntry} /\ writing \in BOOLEAN
  /\ raised \subseteq {"call", "writer", "restore"}

LEMMA NoSaveIs ==
  NoSave \in [step : {"none", "read", "put", "cover"}, e : EntryKeys \cup {NoEntry},
              pin : BOOLEAN]
BY DEF NoSave

LEMMA GoesOnIs ==
  ASSUME NEW rest, IsListOf(rest, Blobs), LoopGoesOn(rest)
  PROVE  IsListOf(loop', Blobs) /\ writing' \in BOOLEAN
BY DEF LoopGoesOn

LEMMA EvictNextControls ==
  ASSUME Controls, Saving, EvictNext
  PROVE  Controls' /\ Saving'
PROOF
  <1>1. UNCHANGED <<pins, todo, save, match, users, raised>> BY DEF EvictNext
  <1>2. IsListOf(loop', Blobs) /\ writing' \in BOOLEAN
    <2>1. LoopGoesOn(<<>>) \/ LoopGoesOn(Tail(loop)) BY DEF EvictNext
    <2>2. IsListOf(<<>>, Blobs) BY NoneIs
    <2>3. IsListOf(Tail(loop), Blobs) BY RestIs DEF Controls, EvictNext
    <2>4. LoopGoesOn(<<>>) => IsListOf(loop', Blobs) /\ writing' \in BOOLEAN
      BY <2>2, GoesOnIs
    <2>5. ASSUME LoopGoesOn(Tail(loop)) PROVE IsListOf(loop', Blobs) /\ writing' \in BOOLEAN
      BY <2>3, <2>5 DEF LoopGoesOn
    <2> QED BY <2>1, <2>4, <2>5
  <1> QED BY <1>1, <1>2 DEF Controls, Saving, Uses

LEMMA EvictRaisesControls ==
  ASSUME Controls, Saving, EvictRaises
  PROVE  Controls' /\ Saving'
PROOF
  <1>1. UNCHANGED <<pins, match, users>> /\ raised' \subseteq {"call", "writer", "restore"}
    BY DEF EvictRaises, Controls
  <1>2. IsListOf(loop', Blobs) /\ writing' \in BOOLEAN
    BY NoneIs, GoesOnIs DEF EvictRaises
  <1>3. (todo' = todo /\ save' = save) \/ (todo' = <<>> /\ save' = NoSave)
    BY DEF EvictRaises
  <1>4. CASE todo' = todo /\ save' = save BY <1>1, <1>2, <1>4 DEF Controls, Saving, Uses
  <1>5. CASE todo' = <<>> /\ save' = NoSave
    <2>1. IsListOf(todo', Blobs) BY <1>5, NoneIs
    <2>2. Saving' BY <1>5 DEF Saving, NoSave
    <2> QED BY <1>1, <1>2, <1>5, <2>1, <2>2, NoSaveIs DEF Controls
  <1> QED BY <1>3, <1>4, <1>5

LEMMA SaveFoundControls ==
  ASSUME Controls, Saving, NEW e \in EntryKeys, NEW pin \in BOOLEAN, SaveFound(e, pin)
  PROVE  Controls' /\ Saving'
PROOF
  <1>1. UNCHANGED <<loop, writing, todo, save, match, raised>> BY DEF SaveFound
  <1>2. pins' \in [Blobs -> Nat] BY DEF SaveFound, PinnedBy, Controls
  <1>3. users' \in [EntryKeys -> Nat] BY DEF SaveFound, Controls
  <1> QED BY <1>1, <1>2, <1>3 DEF Controls, Saving, Uses

LEMMA SaveBeginsControls ==
  ASSUME Controls, Saving, NEW e \in EntryKeys, NEW pin \in BOOLEAN, SaveBegins(e, pin)
  PROVE  Controls' /\ Saving'
PROOF
  <1>1. /\ UNCHANGED <<pins, loop, writing, match, users, raised>>
        /\ save' = [step |-> "read", e |-> e, pin |-> pin]
        /\ todo' = Without(BlobsOf[e], Pages \cap ToSet(held))
    BY DEF SaveBegins
  <1>2. IsListOf(todo', Blobs) /\ ToSet(todo') \subseteq Uses(e)
    <2>1. IsListOf(BlobsOf[e], Blobs) /\ ToSet(BlobsOf[e]) = Uses(e) BY KeysApart DEF IsListOf
    <2>2. PICK S : S = Pages \cap ToSet(held) OBVIOUS
    <2>3. todo' = Without(BlobsOf[e], S) BY <1>1, <2>2
    <2>4. /\ IsListOf(Without(BlobsOf[e], S), Blobs)
          /\ ToSet(Without(BlobsOf[e], S)) = ToSet(BlobsOf[e]) \ S
      BY <2>1, LessIs
    <2> QED BY <2>1, <2>3, <2>4
  <1>3. Saving' BY <1>1, <1>2 DEF Saving, Uses
  <1> QED BY <1>1, <1>2, <1>3 DEF Controls

LEMMA SavePutsControls ==
  ASSUME Controls, Saving, IsListOf(held', Blobs), SavePuts
  PROVE  Controls' /\ Saving'
PROOF
  <1>1. /\ UNCHANGED <<pins, match, users, raised>> /\ todo # <<>> /\ todo' = Tail(todo)
        /\ save' = [save EXCEPT !.step = "put"] /\ save.step # "none"
    BY DEF SavePuts
  <1>2. IsListOf(loop', Blobs) /\ writing' \in BOOLEAN
    <2>1. CASE persists BY <2>1 DEF SavePuts, Controls
    <2>2. CASE ~ persists
      <3>1. Evicts(held', FALSE) BY <2>2 DEF SavePuts
      <3>2. (loop' = held' \/ loop' = <<>>) /\ writing' \in BOOLEAN BY <3>1 DEF Evicts
      <3> QED BY <3>2, NoneIs
    <2> QED BY <2>1, <2>2
  <1>3. IsListOf(todo', Blobs) /\ ToSet(todo') \subseteq ToSet(todo) BY <1>1, RestIs DEF Controls
  <1>4. save'.e = save.e BY <1>1 DEF Controls
  <1>5. save' \in [step : {"none", "read", "put", "cover"}, e : EntryKeys \cup {NoEntry},
                   pin : BOOLEAN]
    BY <1>1 DEF Controls
  <1>6. Saving' BY <1>1, <1>3, <1>4 DEF Saving, Uses
  <1> QED BY <1>1, <1>2, <1>3, <1>5, <1>6 DEF Controls

LEMMA SaveAddsControls ==
  ASSUME Controls, Saving, SaveAdds
  PROVE  Controls' /\ Saving'
PROOF
  <1>1. /\ UNCHANGED <<loop, writing, todo, match, users, raised>>
        /\ save' = [save EXCEPT !.step = "cover"] /\ save.step # "none"
    BY DEF SaveAdds
  <1>2. pins' \in [Blobs -> Nat] BY DEF SaveAdds, PinnedBy, Controls
  <1>3. save'.e = save.e BY <1>1 DEF Controls
  <1>4. save' \in [step : {"none", "read", "put", "cover"}, e : EntryKeys \cup {NoEntry},
                   pin : BOOLEAN]
    BY <1>1 DEF Controls
  <1>5. Saving' BY <1>1, <1>3 DEF Saving, Uses
  <1> QED BY <1>1, <1>2, <1>4, <1>5 DEF Controls

LEMMA SaveReturnsControls ==
  ASSUME Controls, Saving, SaveReturns
  PROVE  Controls' /\ Saving'
PROOF
  <1>1. UNCHANGED <<pins, loop, writing, todo, match, raised>> /\ save' = NoSave
    BY DEF SaveReturns
  <1>2. users' \in [EntryKeys -> Nat]
    <2>1. users \in [EntryKeys -> Nat] /\ save.e \in EntryKeys BY DEF SaveReturns, Saving, Controls
    <2> QED BY <2>1 DEF SaveReturns
  <1>3. Saving' BY <1>1 DEF Saving, NoSave
  <1> QED BY <1>1, <1>2, <1>3, NoSaveIs DEF Controls

LEMMA UnpinControls ==
  ASSUME Controls, Saving, IsListOf(held, Blobs), NEW e \in EntryKeys, Unpin(e)
  PROVE  Controls' /\ Saving'
PROOF
  <1>1. UNCHANGED <<todo, save, match, raised>> /\ users[e] > 0 BY DEF Unpin
  <1>2. pins' \in [Blobs -> Nat] BY DEF Unpin, UnpinnedBy, Controls
  <1>3. users' \in [EntryKeys -> Nat] BY <1>1 DEF Unpin, Controls
  <1>4. (loop' = held \/ loop' = <<>>) /\ writing' \in BOOLEAN BY DEF Unpin, Evicts
  <1>5. IsListOf(loop', Blobs) BY <1>4, NoneIs
  <1> QED BY <1>1, <1>2, <1>3, <1>4, <1>5 DEF Controls, Saving, Uses

LEMMA WriterEvictsControls ==
  ASSUME Controls, Saving, IsListOf(held, Blobs), WriterEvicts
  PROVE  Controls' /\ Saving'
PROOF
  <1>1. UNCHANGED <<pins, todo, save, match, users, raised>> BY DEF WriterEvicts
  <1>2. (loop' = held \/ loop' = <<>>) /\ writing' \in BOOLEAN BY DEF WriterEvicts, Evicts
  <1>3. IsListOf(loop', Blobs) BY <1>2, NoneIs
  <1> QED BY <1>1, <1>2, <1>3 DEF Controls, Saving, Uses

(* match(), restore() and clear().                                         *)
LEMMA OthersControls ==
  ASSUME Controls, Saving, UNCHANGED <<pins, loop, writing, todo, save, users>>,
         match' \in EntryKeys \cup {NoEntry}, raised' \subseteq raised \cup {"restore"}
  PROVE  Controls' /\ Saving'
BY DEF Controls, Saving, Uses

LEMMA RestartControls ==
  ASSUME Restart
  PROVE  Controls' /\ Saving'
PROOF
  <1>1. /\ pins' = [b \in Blobs |-> 0] /\ users' = [e \in EntryKeys |-> 0]
        /\ loop' = <<>> /\ writing' = FALSE /\ todo' = <<>> /\ save' = NoSave
        /\ match' = NoEntry /\ raised' = {}
    BY DEF Restart
  <1>2. Saving' BY <1>1 DEF Saving, NoSave
  <1> QED BY <1>1, <1>2, NoneIs, NoSaveIs DEF Controls

----------------------------------------------------------------------------
LEMMA TypeParts ==
  TypeOK <=> /\ persists \in BOOLEAN /\ Controls
             /\ IsListOf(held, Blobs) /\ IsListOf(entries, EntryKeys)
             /\ refs \in [Blobs -> SUBSET EntryKeys]
BY DEF TypeOK, Controls

(* What a step shows of the invariant.                                     *)
LEMMA StepParts ==
  ASSUME CacheInv, UNCHANGED persists, Contents' /\ Keeps, Controls' /\ Saving', Covers'
  PROVE  CacheInv' /\ Keeps
PROOF
  <1>1. /\ IsListOf(held', Blobs) /\ IsListOf(entries', EntryKeys)
        /\ refs' \in [Blobs -> SUBSET EntryKeys] /\ persists' \in BOOLEAN
    BY DEF Contents, CacheInv, TypeOK
  <1>2. TypeOK' BY <1>1 DEF TypeOK, Controls
  <1> QED BY <1>2 DEF CacheInv

LEMMA CacheInit == Init => CacheInv
PROOF
  <1> SUFFICES ASSUME Init PROVE CacheInv OBVIOUS
  <1>1. /\ persists \in BOOLEAN /\ held = <<>> /\ entries = <<>> /\ refs = [b \in Blobs |-> {}]
        /\ pins = [b \in Blobs |-> 0] /\ users = [e \in EntryKeys |-> 0] /\ save = NoSave
        /\ loop = <<>> /\ writing = FALSE /\ todo = <<>> /\ match = NoEntry /\ raised = {}
    BY DEF Init
  <1>2. Covers BY <1>1, NoUsersCovers
  <1>3. Saving BY <1>1 DEF Saving, NoSave
  <1>4. ToSet(held) = {} /\ ToSet(entries) = {} /\ IsListOf(held, Blobs) /\ IsListOf(entries, EntryKeys)
    BY <1>1, NoneIs
  <1>5. refs \in [Blobs -> SUBSET EntryKeys] /\ RefsAreUses BY <1>1, <1>4 DEF RefsAreUses
  <1>6. Contents BY <1>4, <1>5 DEF Contents, EntriesHaveRecords, RecordsOnDisk
  <1>7. Controls BY <1>1, NoneIs, NoSaveIs DEF Controls
  <1> QED BY <1>1, <1>2, <1>3, <1>4, <1>5, <1>6, <1>7, TypeParts DEF CacheInv

LEMMA CacheNext ==
  ASSUME CacheInv, [Next]_vars
  PROVE  CacheInv' /\ Keeps
PROOF
  <1>1. /\ TypeOK /\ Contents /\ Saving /\ Covers /\ Controls /\ IsListOf(held, Blobs)
        /\ IsListOf(todo, Blobs) /\ match \in EntryKeys \cup {NoEntry}
    BY TypeParts DEF CacheInv, Controls
  <1>2. CASE UNCHANGED vars
    <2>1. UNCHANGED <<persists, held, pins, entries, refs, loop, writing, todo, save, match,
                      users, raised>>
      BY <1>2 DEF vars
    <2>2. Contents' /\ Keeps BY <1>1, <2>1, ContentsStay
    <2>3. Controls' /\ Saving' BY <1>1, <2>1 DEF Controls, Saving, Uses
    <2>4. Covers' BY <1>1, <2>1, CoversStay
    <2> QED BY <2>1, <2>2, <2>3, <2>4, StepParts
  <1>3. CASE Next
    <2>1. UNCHANGED persists BY <1>3 DEF Next
    <2>2. ASSUME EvictNext PROVE CacheInv' /\ Keeps
      <3>1. Contents' /\ Keeps BY <1>1, <2>1, <2>2, EvictNextContents
      <3>2. Controls' /\ Saving' BY <1>1, <2>2, EvictNextControls
      <3>3. Covers'
        <4>1. UNCHANGED <<pins, users, save>> BY <2>2 DEF EvictNext
        <4> QED BY <1>1, <4>1, CoversStay
      <3> QED BY <2>1, <3>1, <3>2, <3>3, StepParts
    <2>3. ASSUME EvictRaises PROVE CacheInv' /\ Keeps
      <3>1. Contents' /\ Keeps
        <4>1. UNCHANGED <<held, entries, refs>> BY <2>3 DEF EvictRaises
        <4> QED BY <1>1, <2>1, <4>1, ContentsStay
      <3>2. Controls' /\ Saving' BY <1>1, <2>3, EvictRaisesControls
      <3>3. Covers'
        <4>1. UNCHANGED <<pins, users>> /\ (save' = save \/ save'.step # "cover")
          BY <2>3 DEF EvictRaises, NoSave
        <4> QED BY <1>1, <4>1, CoversStay
      <3> QED BY <2>1, <3>1, <3>2, <3>3, StepParts
    <2>4. ASSUME NEW e \in EntryKeys, NEW pin \in BOOLEAN, SaveFound(e, pin)
          PROVE  CacheInv' /\ Keeps
      <3>1. Contents' /\ Keeps BY <1>1, <2>1, <2>4, SaveFoundContents
      <3>2. Controls' /\ Saving' BY <1>1, <2>4, SaveFoundControls
      <3>3. Covers' BY <1>1, <2>4, SaveFoundCovers
      <3> QED BY <2>1, <3>1, <3>2, <3>3, StepParts
    <2>5. ASSUME NEW e \in EntryKeys, NEW pin \in BOOLEAN, SaveBegins(e, pin)
          PROVE  CacheInv' /\ Keeps
      <3>1. Contents' /\ Keeps
        <4>1. UNCHANGED <<held, entries, refs>> BY <2>5 DEF SaveBegins
        <4> QED BY <1>1, <2>1, <4>1, ContentsStay
      <3>2. Controls' /\ Saving' BY <1>1, <2>5, SaveBeginsControls
      <3>3. Covers'
        <4>1. UNCHANGED <<pins, users>> /\ save'.step # "cover" BY <2>5 DEF SaveBegins
        <4> QED BY <1>1, <4>1, CoversStay
      <3> QED BY <2>1, <3>1, <3>2, <3>3, StepParts
    <2>6. ASSUME SavePuts PROVE CacheInv' /\ Keeps
      <3>1. Contents' /\ Keeps BY <1>1, <2>1, <2>6, SavePutsContents
      <3>2. IsListOf(held', Blobs) BY <3>1 DEF Contents
      <3>3. Controls' /\ Saving' BY <1>1, <2>6, <3>2, SavePutsControls
      <3>4. Covers'
        <4>1. UNCHANGED <<pins, users>> /\ save' = [save EXCEPT !.step = "put"]
          BY <2>6 DEF SavePuts
        <4>2. save'.step # "cover" BY <1>1, <4>1 DEF Controls
        <4> QED BY <1>1, <4>1, <4>2, CoversStay
      <3> QED BY <2>1, <3>1, <3>3, <3>4, StepParts
    <2>7. ASSUME SaveAdds PROVE CacheInv' /\ Keeps
      <3>1. Contents' /\ Keeps BY <1>1, <2>1, <2>7, SaveAddsContents
      <3>2. Controls' /\ Saving' BY <1>1, <2>7, SaveAddsControls
      <3>3. Covers' BY <1>1, <2>7, SaveAddsCovers
      <3> QED BY <2>1, <3>1, <3>2, <3>3, StepParts
    <2>8. ASSUME SaveReturns PROVE CacheInv' /\ Keeps
      <3>1. PICK E : RemoveEntries(E, held) BY <2>8 DEF SaveReturns
      <3>2. Contents' /\ Keeps BY <1>1, <2>1, <3>1, RemovesContents
      <3>3. Controls' /\ Saving' BY <1>1, <2>8, SaveReturnsControls
      <3>4. Covers' BY <1>1, <2>8, SaveReturnsCovers
      <3> QED BY <2>1, <3>2, <3>3, <3>4, StepParts
    <2>9. ASSUME NEW e \in EntryKeys, Unpin(e) PROVE CacheInv' /\ Keeps
      <3>1. Contents' /\ Keeps
        <4>1. UNCHANGED <<held, entries, refs>> BY <2>9 DEF Unpin
        <4> QED BY <1>1, <2>1, <4>1, ContentsStay
      <3>2. Controls' /\ Saving' BY <1>1, <2>9, UnpinControls
      <3>3. Covers' BY <1>1, <2>9, UnpinCovers
      <3> QED BY <2>1, <3>1, <3>2, <3>3, StepParts
    <2>10. ASSUME NEW e \in EntryKeys, Match(e) PROVE CacheInv' /\ Keeps
      <3>1. /\ UNCHANGED <<held, pins, entries, refs, loop, writing, todo, save, users, raised>>
            /\ match' = e
        BY <2>10 DEF Match
      <3>2. Contents' /\ Keeps BY <1>1, <2>1, <3>1, ContentsStay
      <3>3. Controls' /\ Saving' BY <1>1, <3>1, OthersControls
      <3>4. Covers' BY <1>1, <3>1, CoversStay
      <3> QED BY <2>1, <3>2, <3>3, <3>4, StepParts
    <2>11. ASSUME match # NoEntry, NEW j \in 0..Len(BlobsOf[match]), NEW i \in 1..(j + 1),
                  Restore(i, j)
           PROVE  CacheInv' /\ Keeps
      <3>1. match \in EntryKeys BY <1>1, <2>11
      <3>2. Contents' /\ Keeps BY <1>1, <2>1, <2>11, <3>1, RestoreContents
      <3>3. /\ UNCHANGED <<pins, loop, writing, todo, save, users>> /\ match' = NoEntry
            /\ raised' \subseteq raised \cup {"restore"}
        BY <2>11 DEF Restore
      <3>4. Controls' /\ Saving' BY <1>1, <3>3, OthersControls
      <3>5. Covers' BY <1>1, <3>3, CoversStay
      <3> QED BY <2>1, <3>2, <3>4, <3>5, StepParts
    <2>12. ASSUME Clear PROVE CacheInv' /\ Keeps
      <3>1. /\ UNCHANGED <<pins, loop, writing, todo, save, match, users, raised>>
            /\ RemoveEntries(ToSet(entries), held)
        BY <2>12 DEF Clear
      <3>2. PICK E : E = ToSet(entries) OBVIOUS
      <3>3. Contents' /\ Keeps BY <1>1, <2>1, <3>1, <3>2, RemovesContents
      <3>4. Controls' /\ Saving' BY <1>1, <3>1, OthersControls
      <3>5. Covers' BY <1>1, <3>1, CoversStay
      <3> QED BY <2>1, <3>3, <3>4, <3>5, StepParts
    <2>13. ASSUME WriterEvicts PROVE CacheInv' /\ Keeps
      <3>1. UNCHANGED <<held, pins, entries, refs, save, users>> BY <2>13 DEF WriterEvicts
      <3>2. Contents' /\ Keeps BY <1>1, <2>1, <3>1, ContentsStay
      <3>3. Controls' /\ Saving' BY <1>1, <2>13, WriterEvictsControls
      <3>4. Covers' BY <1>1, <3>1, CoversStay
      <3> QED BY <2>1, <3>2, <3>3, <3>4, StepParts
    <2>14. ASSUME Restart PROVE CacheInv' /\ Keeps
      <3>1. Contents' /\ Keeps BY <1>1, <2>1, <2>14, RestartContents
      <3>2. Controls' /\ Saving' BY <2>14, RestartControls
      <3>3. Covers' BY <2>14, RestartCovers
      <3> QED BY <2>1, <3>1, <3>2, <3>3, StepParts
    <2>15. \A e \in Saves[persists] : e \in EntryKeys BY <1>1, CacheAssumption DEF TypeOK
    <2> QED
      BY <1>3, <2>2, <2>3, <2>4, <2>5, <2>6, <2>7, <2>8, <2>9, <2>10, <2>11, <2>12, <2>13, <2>14,
         <2>15 DEF Next
  <1> QED BY <1>2, <1>3

----------------------------------------------------------------------------
(* The blobs of an entry that a request relies on are pinned.              *)
LEMMA PinnedAre ==
  ASSUME CacheInv, NEW e \in EntryKeys, users[e] > 0
  PROVE  \A b \in Uses(e) : pins[b] > 0
PROOF
  <1> SUFFICES ASSUME NEW b \in Uses(e) PROVE pins[b] > 0 OBVIOUS
  <1>1. b \in Blobs /\ TypeOK /\ Covers /\ users[e] \in Nat BY KeysApart DEF CacheInv, TypeOK
  <1>2. 1 \in 1..users[e] BY <1>1
  <1>3. <<e, 1>> \in KeptFor(b) BY <1>2, KeptForIs
  <1>4. /\ IsFiniteSet(KeptFor(b)) /\ Cardinality(KeptFor(b)) \in Nat
        /\ pins[b] \in Nat /\ Coming(b) \in {0, 1}
        /\ pins[b] >= Cardinality(KeptFor(b)) + Coming(b)
    BY <1>1, CoversIs
  <1>5. Cardinality(KeptFor(b)) # 0 BY <1>3, <1>4, FS_EmptySet
  <1> QED BY <1>4, <1>5

LEMMA RemovedOnly ==
  ASSUME Contents, NEW E, NEW h, RemoveEntries(E, h)
  PROVE  ToSet(entries') = ToSet(entries) \ E
PROOF
  <1>1. entries' = Without(entries, E \cap ToSet(entries)) BY DEF RemoveEntries
  <1>2. PICK out : out = E \cap ToSet(entries) OBVIOUS
  <1>3. ToSet(Without(entries, out)) = ToSet(entries) \ out BY LessIs DEF Contents
  <1> QED BY <1>1, <1>2, <1>3

(* In memory, and within max_entries, the entry of a request off the       *)
(* device goes from the cache by clear() only.                             *)
LEMMA PinnedGoOn ==
  ASSUME CacheInv, [Next]_vars, ~ persists, Len(entries) <= MaxEntries,
         NEW e \in EntryKeys, users[e] > 0, Saved(e)
  PROVE  e \in ToSet(entries') \/ Clear
PROOF
  <1>1. /\ TypeOK /\ Contents /\ e \in ToSet(entries) /\ Uses(e) \subseteq ToSet(held)
        /\ match \in EntryKeys \cup {NoEntry} /\ IsListOf(entries, EntryKeys)
    BY DEF CacheInv, Saved, TypeOK
  <1>2. \A b \in Uses(e) : pins[b] > 0 /\ b \in Blobs BY PinnedAre, KeysApart
  <1>3. RecordOf[e] \notin ToSet(held) BY <1>1 DEF Contents, RecordsOnDisk
  <1>4. ASSUME UNCHANGED entries PROVE e \in ToSet(entries') BY <1>1, <1>4
  <1>5. CASE UNCHANGED vars BY <1>4, <1>5 DEF vars
  <1>6. ASSUME EvictNext PROVE e \in ToSet(entries')
    <2>1. CASE UNCHANGED entries BY <1>4, <2>1
    <2>2. CASE ~ UNCHANGED entries
      <3>1. PICK k : k = Head(loop) OBVIOUS
      <3>2. /\ pins[k] = 0 /\ k \in ToSet(held) /\ RemoveEntries(UsersOf(k), Without(held, {k}))
        BY <1>6, <2>2, <3>1 DEF EvictNext
      <3>3. e \notin UsersOf(k)
        <4>1. k \notin Uses(e) BY <1>2, <3>2
        <4>2. RecordOf[e] # k BY <1>3, <3>2
        <4>3. k \in Blobs BY <3>2, <1>1, InList DEF Contents
        <4>4. e \notin refs[k] BY <1>1, <4>1, <4>3 DEF Contents, RefsAreUses
        <4> QED BY <4>2, <4>4 DEF UsersOf
      <3>4. PICK E, h : E = UsersOf(k) /\ h = Without(held, {k}) OBVIOUS
      <3>5. ToSet(entries') = ToSet(entries) \ E BY <1>1, <3>2, <3>4, RemovedOnly
      <3> QED BY <1>1, <3>3, <3>4, <3>5
    <2> QED BY <2>1, <2>2
  <1>7. ASSUME SaveReturns PROVE e \in ToSet(entries')
    <2>1. PICK S : S = CoveredBy(save.e) OBVIOUS
    <2>2. PICK kept : kept = Without(entries, S) OBVIOUS
    <2>3. kept \in Seq(EntryKeys) /\ Len(kept) <= Len(entries) /\ Len(entries) \in Nat
      <3>1. entries \in Seq(EntryKeys) BY <1>1 DEF IsListOf
      <3> QED BY <2>2, <3>1, WithoutIs
    <2>4. Len(kept) \in Nat /\ MaxEntries \in Nat BY <2>3, CacheAssumption
    <2>5. ~ (Len(kept) > MaxEntries) BY <2>3, <2>4
    <2>6. PICK E : /\ RemoveEntries(E, held)
                   /\ E = S \cup {kept[n] : n \in 1..(IF Len(kept) > MaxEntries
                                                        THEN Len(kept) - MaxEntries ELSE 0)}
      BY <1>7, <2>1, <2>2 DEF SaveReturns
    <2>7. E = S \cup {kept[n] : n \in 1..0} BY <2>5, <2>6
    <2>8. E = S BY <2>7
    <2>9. e \notin S
      <3>1. Uses(e) # {} BY KeysApart
      <3>2. IsPinned(e) BY <1>2, <3>1 DEF IsPinned
      <3> QED BY <2>1, <3>2 DEF CoveredBy
    <2>10. PICK h : h = held OBVIOUS
    <2>11. ToSet(entries') = ToSet(entries) \ E BY <1>1, <2>6, <2>10, RemovedOnly
    <2> QED BY <1>1, <2>8, <2>9, <2>11
  <1>8. ASSUME match # NoEntry, NEW j \in 0..Len(BlobsOf[match]), NEW i \in 1..(j + 1),
               Restore(i, j)
        PROVE  e \in ToSet(entries')
    <2>1. PICK o \in EntryKeys : o = match BY <1>1, <1>8
    <2>2. PICK read : read = SubSeq(BlobsOf[o], i, j) OBVIOUS
    <2>3. PICK gone : gone = {n \in DOMAIN read : read[n] \notin ToSet(held)} OBVIOUS
    <2>4. CASE gone # {}
      <3>1. ToSet(read) \subseteq Uses(o)
        <4>1. IsListOf(BlobsOf[o], Blobs) /\ ToSet(BlobsOf[o]) = Uses(o) BY KeysApart DEF IsListOf
        <4>2. j \in 0..Len(BlobsOf[o]) BY <2>1
        <4>3. ToSet(SubSeq(BlobsOf[o], i, j)) \subseteq ToSet(BlobsOf[o]) BY <4>1, <4>2, PartIs
        <4> QED BY <2>2, <4>1, <4>3
      <3>2. PICK n \in DOMAIN read : read[n] \notin ToSet(held) BY <2>3, <2>4
      <3>3. read[n] \in Uses(o) BY <3>1, <3>2 DEF ToSet
      <3>4. o # e BY <1>1, <3>2, <3>3
      <3>5. PICK E, h : RemoveEntries(E, h) /\ E = {o} BY <1>8, <2>1, <2>2, <2>3, <2>4 DEF Restore
      <3>6. ToSet(entries') = ToSet(entries) \ E BY <1>1, <3>5, RemovedOnly
      <3> QED BY <1>1, <3>4, <3>5, <3>6
    <2>5. CASE gone = {}
      <3>1. entries' = entries \/ entries' = ToEnd(entries, o)
        BY <1>8, <2>1, <2>2, <2>3, <2>5 DEF Restore
      <3>2. ToSet(ToEnd(entries, o)) = ToSet(entries) \cup {o} BY <1>1, ToEndHas
      <3> QED BY <1>1, <3>1, <3>2
    <2> QED BY <2>4, <2>5
  <1>9. ASSUME NEW o \in EntryKeys, entries' = ToEnd(entries, o) PROVE e \in ToSet(entries')
    <2>1. ToSet(ToEnd(entries, o)) = ToSet(entries) \cup {o} BY <1>1, ToEndHas
    <2> QED BY <1>1, <1>9, <2>1
  <1>10. ASSUME NEW o \in EntryKeys, NEW pin \in BOOLEAN, SaveFound(o, pin)
         PROVE  e \in ToSet(entries')
    BY <1>9, <1>10 DEF SaveFound
  <1>11. ASSUME SaveAdds PROVE e \in ToSet(entries')
    <2>1. PICK o : o = save.e OBVIOUS
    <2>2. o \in EntryKeys BY <1>11, <2>1 DEF SaveAdds, CacheInv, Saving
    <2>3. entries' = ToEnd(entries, o) BY <1>11, <2>1 DEF SaveAdds
    <2> QED BY <1>9, <2>2, <2>3
  <1>12. ASSUME \/ EvictRaises \/ SavePuts \/ WriterEvicts
                \/ \E o \in EntryKeys, pin \in BOOLEAN : SaveBegins(o, pin)
                \/ \E o \in EntryKeys : Unpin(o) \/ Match(o)
         PROVE  UNCHANGED entries
    BY <1>12 DEF EvictRaises, SavePuts, WriterEvicts, SaveBegins, Unpin, Match
  <1>13. \A o \in Saves[persists] : o \in EntryKeys BY <1>1, CacheAssumption DEF TypeOK
  <1>14. ~ Restart BY DEF Restart
  <1>15. CASE Next
    BY <1>4, <1>6, <1>7, <1>8, <1>10, <1>11, <1>12, <1>13, <1>14, <1>15 DEF Next
  <1> QED BY <1>5, <1>15

----------------------------------------------------------------------------
(* The theorems.                                                           *)
LEMMA CacheAlways == Spec => []CacheInv
PROOF
  <1>1. CacheInv /\ [Next]_vars => CacheInv' BY CacheNext
  <1> QED BY CacheInit, <1>1, PTL DEF Spec

(* The cache's state has its types: its lists of blobs and entries hold    *)
(* each once, and no pin count goes below zero.                            *)
THEOREM CacheTypeOK == Spec => []TypeOK
PROOF
  <1>1. CacheInv => TypeOK BY DEF CacheInv
  <1> QED BY CacheAlways, <1>1, PTL

(* The references are the entries' uses (RefsAreUses): on_drop finds every *)
(* entry that loses a blob, through removals in the middle of evictions.   *)
THEOREM CacheRefsAreUses == Spec => []RefsAreUses
PROOF
  <1>1. CacheInv => RefsAreUses BY DEF CacheInv, Contents
  <1> QED BY CacheAlways, <1>1, PTL

(* In a directory no entry is without its record (EntriesHaveRecords).     *)
THEOREM CacheEntriesHaveRecords == Spec => []EntriesHaveRecords
PROOF
  <1>1. CacheInv => EntriesHaveRecords BY DEF CacheInv, Contents
  <1> QED BY CacheAlways, <1>1, PTL

(* Every request off the device has its pins on its entry's blobs          *)
(* (PinsCoverUsers), shared pages once for each.                           *)
THEOREM CachePinsCoverUsers == Spec => []PinsCoverUsers
PROOF
  <1>1. CacheInv => PinsCoverUsers
    <2> SUFFICES ASSUME CacheInv, NEW b \in Blobs PROVE pins[b] >= Cardinality(KeptFor(b))
      BY DEF PinsCoverUsers
    <2>1. TypeOK /\ Covers BY DEF CacheInv
    <2>2. /\ Cardinality(KeptFor(b)) \in Nat /\ pins[b] \in Nat /\ Coming(b) \in {0, 1}
          /\ pins[b] >= Cardinality(KeptFor(b)) + Coming(b)
      BY <2>1, CoversIs
    <2> QED BY <2>2
  <1> QED BY CacheAlways, <1>1, PTL

(* An entry that stays keeps what the store had of it (EntriesKeepBlobs),  *)
(* whatever is evicted, removed or reloaded.                               *)
THEOREM CacheEntriesKeepBlobs == Spec => EntriesKeepBlobs
PROOF
  <1>1. CacheInv /\ [Next]_vars =>
          [\A e \in ToSet(entries) \cap ToSet(entries') :
             Uses(e) \cap ToSet(held) \subseteq ToSet(held')]_vars
    BY CacheNext DEF Keeps
  <1> QED BY CacheAlways, <1>1, PTL DEF Spec, EntriesKeepBlobs

(* In memory, with no more than max_entries entries, the whole entry of a  *)
(* request off the device stays whole until it is unpinned or the cache    *)
(* cleared.                                                                *)
THEOREM CachePinnedStaysWithin ==
  Spec => [][~ persists /\ Len(entries) <= MaxEntries => PinnedStays]_vars
PROOF
  <1>1. CacheInv /\ [Next]_vars =>
          [~ persists /\ Len(entries) <= MaxEntries => PinnedStays]_vars
    <2> SUFFICES ASSUME CacheInv, [Next]_vars, ~ persists, Len(entries) <= MaxEntries,
                        NEW e \in EntryKeys, users[e] > 0, Saved(e), ~ Clear
                 PROVE  Saved(e)'
      BY DEF PinnedStays
    <2>1. e \in ToSet(entries') BY PinnedGoOn
    <2>2. Keeps BY CacheNext
    <2>3. e \in ToSet(entries) /\ Uses(e) \subseteq ToSet(held) BY DEF Saved
    <2> QED BY <2>1, <2>2, <2>3 DEF Saved, Keeps, Uses
  <1> QED BY CacheAlways, <1>1, PTL DEF Spec

(* The entries are no more than max_entries allows.                        *)
Roomy == IsFiniteSet(EntryKeys) /\ Cardinality(EntryKeys) <= MaxEntries

LEMMA RoomyIs ==
  ASSUME Roomy, CacheInv
  PROVE  Len(entries) <= MaxEntries
PROOF
  <1>1. entries \in Seq(EntryKeys) /\ IsInjective(entries) BY DEF CacheInv, TypeOK, IsListOf
  <1>2. PICK n \in Nat : n = Len(entries) BY <1>1
  <1>3. DOMAIN entries = 1..n /\ entries \in [1..n -> EntryKeys] BY <1>1, <1>2
  <1>4. entries \in Injection(1..n, EntryKeys) BY <1>1, <1>3 DEF Injection, IsInjective
  <1>5. PICK f : f = entries OBVIOUS
  <1>6. Cardinality(1..n) <= Cardinality(EntryKeys) BY <1>4, <1>5, FS_Injection DEF Roomy
  <1>7. Cardinality(1..n) = n
    <2>1. Cardinality(1..n) = IF 1 > n THEN 0 ELSE n - 1 + 1 BY FS_Interval
    <2> QED BY <2>1
  <1>8. Cardinality(EntryKeys) \in Nat /\ MaxEntries \in Nat
    BY FS_CardinalityType, CacheAssumption DEF Roomy
  <1> QED BY <1>2, <1>6, <1>7, <1>8 DEF Roomy

(* PinnedStaysSaved, with room for every entry: past max_entries the       *)
(* oldest entries go, pinned or not.                                       *)
THEOREM CachePinnedStays ==
  ASSUME Roomy
  PROVE  Spec => PinnedStaysSaved
PROOF
  <1>1. CacheInv /\ [~ persists /\ Len(entries) <= MaxEntries => PinnedStays]_vars =>
          [~ persists => PinnedStays]_vars
    BY RoomyIs
  <1> QED BY CacheAlways, CachePinnedStaysWithin, <1>1, PTL DEF PinnedStaysSaved
=============================================================================
