---------------------------- MODULE PrefixCache ----------------------------
(***************************************************************************)
(* PrefixCache of opentpu/serve/store.py, with the blob store under it: an *)
(* entry is a saved context, its pages shared with the entries of contexts *)
(* that begin with the same tokens.  When the store drops a blob it calls  *)
(* back (on_drop), and the entries that use the blob are removed with the  *)
(* blobs no other entry uses - from inside the store's eviction loop.      *)
(*                                                                         *)
(* The store is one tier here, of the blobs it has (BlobStore has the      *)
(* tiers): memory, whose evictions a put or an unpin runs, or a directory  *)
(* (persists), whose evictions the store's writer thread runs, or an unpin.*)
(* An eviction goes through a list of keys made when it begins, one turn a *)
(* step here (loop: what is left of it); it has the locks: nothing else    *)
(* runs.  save() reads the device between its two locked parts, and the    *)
(* API's threads and the writer may run there.                             *)
(***************************************************************************)
EXTENDS Lists

CONSTANTS
  EntryKeys,  \* entry keys (a context's tokens)
  Blobs,      \* blob keys
  BlobsOf,    \* entry -> its blobs: its pages in order, then its tail
  Pages,      \* the blobs that are pages (put only where the store lacks them)
  RecordOf,   \* entry -> the key of its record in the store
  Covered,    \* pairs <<o, e>>: e's tokens continue o's
  Length,     \* blob -> its length
  Budget,     \* the store's budget
  MaxEntries,
  Clears,     \* TRUE: clear() may be called
  Saves,      \* bound: with and without a directory, the contexts saved
  MaxUsers,   \* bound: pins of one entry at once
  NoEntry

ASSUME CacheAssumption ==
  /\ NoEntry \notin EntryKeys
  /\ BlobsOf \in [EntryKeys -> Seq(Blobs)] /\ RecordOf \in [EntryKeys -> Blobs]
  \* a page's key has its index, a tail's or a record's the context's hash, each its own mark
  /\ \A e \in EntryKeys : BlobsOf[e] # <<>> /\ IsInjective(BlobsOf[e])
  /\ \A e, o \in EntryKeys : RecordOf[e] \notin Range(BlobsOf[o]) /\ (RecordOf[e] = RecordOf[o] => e = o)
  /\ Length \in [Blobs -> Nat] /\ Budget \in Nat
  /\ Saves \in [BOOLEAN -> SUBSET EntryKeys]
  /\ MaxEntries \in Nat /\ MaxUsers \in Nat
  /\ Clears \in BOOLEAN

VARIABLES
  persists,   \* TRUE: the store has a directory, and entries' records are put
  held,       \* the store's blobs, least recently used first
  pins,       \* blob -> pin count
  entries,    \* the entries, oldest use first
  refs,       \* blob -> the entries using it
  loop,       \* what the running eviction loop has left of its list of keys
  writing,    \* the loop is the writer thread's
  todo,       \* the blobs the running save() has left to put
  save,       \* the running save: its step, entry and pin argument
  match,      \* what match() found, for a restore to come
  users,      \* history: entry -> requests whose context it is (pinned for them)
  raised      \* history: who met a key it expected and did not find (KeyError)

vars == <<persists, held, pins, entries, refs, loop, writing, todo, save, match, users, raised>>

----------------------------------------------------------------------------
Uses(e)  == Range(BlobsOf[e])
Total(S) == MapThenSumSet(LAMBDA b : Length[b], S)
Used(s)  == Total(ToSet(s))
NoSave   == [step |-> "none", e |-> NoEntry, pin |-> FALSE]
Idle     == save = NoSave /\ loop = <<>>
Unlocked == save.step \in {"none", "read"} /\ loop = <<>>

(* s with k at its end (an OrderedDict's insertion, and move_to_end).      *)
ToEndTwice(s, k) == Append(s, k)          \* (mutant)
ToEnd(s, k) == Append(Without(s, {k}), k)
AllToEnd(s, t) == Without(s, ToSet(t)) \o t

(* Mutant: the blobs of a removed entry go whoever else uses them.         *)
UnsharedIgnoringRefs(E) == UNION {Uses(e) : e \in E}

(* The blobs that only the entries of E use.                               *)
Unshared(E) == {b \in UNION {Uses(e) : e \in E} : refs[b] # {} /\ refs[b] \subseteq E}

(* Mutant: users.discard is left out.                                      *)
RemoveEntriesOnly(E, h) ==
  LET out == E \cap ToSet(entries)
  IN /\ entries' = Without(entries, out)
     /\ refs' = [b \in Blobs |-> IF b \in Unshared(out) THEN {} ELSE refs[b]]
     /\ held' = Without(h, Unshared(out) \cup {RecordOf[e] : e \in out})

(* _remove of the entries of E, from the store's blobs h: their records    *)
(* and the blobs nothing else uses are discarded.                          *)
RemoveEntries(E, h) ==
  LET out == E \cap ToSet(entries)
  IN /\ entries' = Without(entries, out)
     /\ refs' = [b \in Blobs |-> refs[b] \ {e \in out : b \in Uses(e)}]
     /\ held' = Without(h, Unshared(out) \cup {RecordOf[e] : e \in out})

(* Mutant: an entry's own record is not looked for.                        *)
UsersOfRefs(k) == refs[k]

(* The entries _blob_dropped removes for the blob k.                       *)
UsersOf(k) == refs[k] \cup {e \in ToSet(entries) : RecordOf[e] = k}

(* An eviction begins, of the blobs h.                                     *)
Evicts(h, byWriter) ==
  /\ loop' = IF Used(h) > Budget THEN h ELSE <<>>
  /\ writing' = (byWriter /\ Used(h) > Budget)

LoopGoesOn(rest) == loop' = rest /\ writing' = (writing /\ rest # <<>>)

(* Its turn: it ends within the budget, passes a pinned blob, or drops one *)
(* (pop, and on_drop).                                                     *)
EvictNext ==
  /\ loop # <<>>
  /\ LET k == Head(loop)
     IN \/ /\ Used(held) <= Budget
           /\ LoopGoesOn(<<>>)
           /\ UNCHANGED <<held, entries, refs>>
        \/ /\ Used(held) > Budget /\ pins[k] > 0
           /\ LoopGoesOn(Tail(loop))
           /\ UNCHANGED <<held, entries, refs>>
        \/ /\ Used(held) > Budget /\ pins[k] = 0 /\ k \in ToSet(held)
           /\ RemoveEntries(UsersOf(k), Without(held, {k}))
           /\ LoopGoesOn(Tail(loop))
  /\ UNCHANGED <<pins, todo, save, match, users, raised>>

(* ... or the blob is gone, discarded by an earlier turn's on_drop: the    *)
(* pop raises KeyError, which ends the call, or the writer thread.         *)
EvictRaises ==
  /\ loop # <<>> /\ Used(held) > Budget
  /\ pins[Head(loop)] = 0 /\ Head(loop) \notin ToSet(held)
  /\ LoopGoesOn(<<>>)
  /\ raised' = raised \cup {IF writing THEN "writer" ELSE "call"}
  /\ todo' = IF writing THEN todo ELSE <<>>
  /\ save' = IF writing THEN save ELSE NoSave
  /\ UNCHANGED <<held, pins, entries, refs, match, users>>

----------------------------------------------------------------------------
PinnedBy(e)   == [b \in Blobs |-> IF b \in Uses(e) THEN pins[b] + 1 ELSE pins[b]]
UnpinnedAll(e) == [b \in Blobs |-> IF b \in Uses(e) THEN 0 ELSE pins[b]]  \* (mutant)
UnpinnedBy(e) == [b \in Blobs |-> IF b \in Uses(e) /\ pins[b] > 0 THEN pins[b] - 1 ELSE pins[b]]

(* The store has the whole of the entry already.                           *)
Saved(e) == e \in ToSet(entries) /\ Uses(e) \subseteq ToSet(held)

(* save(), of an entry the cache has.                                      *)
SaveFound(e, pin) ==
  /\ Idle /\ Saved(e)
  /\ pin => users[e] < MaxUsers
  /\ entries' = ToEnd(entries, e)
  /\ pins' = IF pin THEN PinnedBy(e) ELSE pins
  /\ users' = IF pin THEN [users EXCEPT ![e] = @ + 1] ELSE users
  /\ UNCHANGED <<held, refs, loop, writing, todo, save, match, raised>>

(* save(), of another: the pages the store lacks are to be read, and the   *)
(* tail; then the locks are released for the device's reads.               *)
SaveBegins(e, pin) ==
  /\ Idle /\ ~ Saved(e)
  /\ pin => users[e] < MaxUsers
  /\ todo' = Without(BlobsOf[e], Pages \cap ToSet(held))
  /\ save' = [step |-> "read", e |-> e, pin |-> pin]
  /\ UNCHANGED <<held, pins, entries, refs, loop, writing, match, users, raised>>

(* The next blob into the store, and its eviction loop.                    *)
SavePuts ==
  /\ save.step \in {"read", "put"} /\ loop = <<>> /\ todo # <<>>
  /\ held' = ToEnd(held, Head(todo))
  /\ IF persists THEN UNCHANGED <<loop, writing>> ELSE Evicts(held', FALSE)
  /\ todo' = Tail(todo)
  /\ save' = [save EXCEPT !.step = "put"]
  /\ UNCHANGED <<pins, entries, refs, match, users, raised>>

(* With all of them put: the pins, the entry, and its record.              *)
SaveAdds ==
  LET e == save.e
  IN /\ save.step \in {"read", "put"} /\ loop = <<>> /\ todo = <<>>
     /\ pins' = IF save.pin THEN PinnedBy(e) ELSE pins
     /\ entries' = ToEnd(entries, e)
     /\ refs' = [b \in Blobs |-> IF b \in Uses(e) THEN refs[b] \cup {e} ELSE refs[b]]
     /\ held' = IF persists THEN ToEnd(held, RecordOf[e]) ELSE held
     /\ save' = [save EXCEPT !.step = "cover"]
     /\ UNCHANGED <<loop, writing, todo, match, users, raised>>

IsPinned(o) == \E b \in Uses(o) : pins[b] > 0

CoveredByAll(e) == {o \in ToSet(entries) : <<o, e>> \in Covered}    \* (mutant: pinned too)

(* The contexts this one continues, not pinned: it covers them.            *)
CoveredBy(e) == {o \in ToSet(entries) \ {e} : <<o, e>> \in Covered /\ ~ IsPinned(o)}

(* ... and the oldest entries past max_entries.                            *)
SaveReturns ==
  /\ save.step = "cover" /\ loop = <<>>
  /\ LET kept == Without(entries, CoveredBy(save.e))
         over == IF Len(kept) > MaxEntries THEN Len(kept) - MaxEntries ELSE 0
     IN RemoveEntries(CoveredBy(save.e) \cup {kept[i] : i \in 1..over}, held)
  /\ users' = IF save.pin THEN [users EXCEPT ![save.e] = @ + 1] ELSE users
  /\ save' = NoSave
  /\ UNCHANGED <<pins, loop, writing, todo, match, raised>>

(* unpin(e), by a request whose context it is.                             *)
Unpin(e) ==
  /\ Idle /\ users[e] > 0
  /\ pins' = UnpinnedBy(e)
  /\ users' = [users EXCEPT ![e] = @ - 1]
  /\ Evicts(held, FALSE)
  /\ UNCHANGED <<held, entries, refs, todo, save, match, raised>>

(* match() finds an entry; a request off the device has its own.           *)
Match(e) ==
  /\ Idle /\ match # e
  /\ e \in ToSet(entries) \/ users[e] > 0
  /\ match' = e
  /\ UNCHANGED <<held, pins, entries, refs, loop, writing, todo, save, users, raised>>

(* restore() of the match: the blobs i..j of the entry are read (none of   *)
(* them, where the device has them).  One that is gone removes the entry   *)
(* (those read before it are used more recently by then); else the entry   *)
(* is: move_to_end raises KeyError where it was removed since the match.   *)
Restore(i, j) ==
  LET e    == match
      read == SubSeq(BlobsOf[e], i, j)
      gone == {n \in DOMAIN read : read[n] \notin ToSet(held)}
  IN /\ Idle
     /\ \/ /\ gone # {}
           /\ RemoveEntries({e}, AllToEnd(held, SubSeq(read, 1, Min(gone) - 1)))
           /\ UNCHANGED raised
        \/ /\ gone = {} /\ e \in ToSet(entries)
           /\ held' = AllToEnd(held, read)
           /\ entries' = ToEnd(entries, e)
           /\ UNCHANGED <<refs, raised>>
        \/ /\ gone = {} /\ e \notin ToSet(entries)
           /\ held' = AllToEnd(held, read)
           /\ raised' = raised \cup {"restore"}
           /\ UNCHANGED <<entries, refs>>
     /\ match' = NoEntry
     /\ UNCHANGED <<pins, loop, writing, todo, save, users>>

(* clear() (POST /flush_cache), by a thread of the API.                    *)
Clear ==
  /\ Clears /\ Unlocked /\ entries # <<>>
  /\ RemoveEntries(ToSet(entries), held)
  /\ UNCHANGED <<pins, loop, writing, todo, save, match, users, raised>>

(* The writer thread has recorded files: it evicts past the budget.  (The  *)
(* directory's budget is met here once the writer has caught up.)          *)
WriterEvicts ==
  /\ persists /\ Unlocked /\ "writer" \notin raised
  /\ Used(held) > Budget
  /\ Evicts(held, TRUE)
  /\ UNCHANGED <<held, pins, entries, refs, todo, save, match, users, raised>>

(* The entries whose records and blobs are all among the files.            *)
WholeByRecord(files) == {e \in EntryKeys : RecordOf[e] \in files}          \* (mutant)
Whole(files) == {e \in EntryKeys : RecordOf[e] \in files /\ Uses(e) \subseteq files}

(* The elements of the list s, in any order.                               *)
Reordered(s) == Bijection(DOMAIN s, ToSet(s))

(* _load, with the files in any order: each record is read, and is used    *)
(* most recently by then; it is an entry again, or it is discarded.  Blobs *)
(* no record names stay.                                                   *)
Load(files) ==
  LET whole   == Whole(files)
      records == {RecordOf[e] : e \in EntryKeys}
      found   == {RecordOf[e] : e \in whole}
  IN \E others \in Reordered(Without(held, Blobs \ (files \ records))),
        read \in Reordered(Without(held, Blobs \ found)) :
       /\ held' = others \o read
       /\ entries' = [i \in DOMAIN read |-> CHOOSE e \in whole : RecordOf[e] = read[i]]
       /\ refs' = [b \in Blobs |-> {e \in whole : b \in Uses(e)}]

(* The server ends anywhere, and another starts on its directory, where it *)
(* finds some of the blobs, as the writer got to them.                     *)
Restart ==
  /\ persists
  /\ \E files \in SUBSET ToSet(held) : Total(files) <= Budget /\ Load(files)
  /\ pins' = [b \in Blobs |-> 0] /\ users' = [e \in EntryKeys |-> 0]
  /\ loop' = <<>> /\ writing' = FALSE /\ todo' = <<>> /\ save' = NoSave /\ match' = NoEntry
  /\ raised' = {}

----------------------------------------------------------------------------
Init ==
  /\ persists \in BOOLEAN
  /\ held = <<>> /\ pins = [b \in Blobs |-> 0]
  /\ entries = <<>> /\ refs = [b \in Blobs |-> {}]
  /\ loop = <<>> /\ writing = FALSE /\ todo = <<>> /\ save = NoSave /\ match = NoEntry
  /\ users = [e \in EntryKeys |-> 0] /\ raised = {}

Next ==
  /\ \/ EvictNext \/ EvictRaises
     \/ \E e \in Saves[persists], pin \in BOOLEAN : SaveFound(e, pin) \/ SaveBegins(e, pin)
     \/ SavePuts \/ SaveAdds \/ SaveReturns
     \/ \E e \in EntryKeys : Unpin(e) \/ Match(e)
     \/ match # NoEntry /\ \E j \in 0..Len(BlobsOf[match]) : \E i \in 1..(j + 1) : Restore(i, j)
     \/ Clear
     \/ WriterEvicts
     \/ Restart
  /\ UNCHANGED persists

Spec == Init /\ [][Next]_vars

----------------------------------------------------------------------------
IsListOf(s, S) == s \in Seq(S) /\ IsInjective(s)

TypeOK ==
  /\ persists \in BOOLEAN
  /\ IsListOf(held, Blobs) /\ IsListOf(entries, EntryKeys)
  /\ pins \in [Blobs -> Nat] /\ refs \in [Blobs -> SUBSET EntryKeys]
  /\ IsListOf(loop, Blobs) /\ IsListOf(todo, Blobs)
  /\ save \in [step : {"none", "read", "put", "cover"}, e : EntryKeys \cup {NoEntry},
               pin : BOOLEAN]
  /\ match \in EntryKeys \cup {NoEntry}
  /\ users \in [EntryKeys -> Nat] /\ writing \in BOOLEAN
  /\ raised \subseteq {"call", "writer", "restore"}

(* The callback finds an entry by any of its blobs, and by no other: refs  *)
(* are exactly the entries' blobs, through removals in the middle of an    *)
(* eviction loop, KeyErrors and entries saved again.                       *)
RefsAreUses == \A b \in Blobs : refs[b] = {e \in ToSet(entries) : b \in Uses(e)}

(* An entry that stays keeps every blob the store has of it: whatever else *)
(* is evicted, discarded or removed with the entries that shared its pages.*)
EntriesKeepBlobs ==
  [][\A e \in ToSet(entries) \cap ToSet(entries') :
        Uses(e) \cap ToSet(held) \subseteq ToSet(held')]_vars

(* An entry in a directory has its record there, for the next server: one  *)
(* never stays without the other.                                          *)
EntriesHaveRecords == persists => \A e \in ToSet(entries) : RecordOf[e] \in ToSet(held)

(* The blobs a request off the device relies on are pinned once for each   *)
(* of the entries kept for it.                                             *)
KeptFor(b) == UNION {{e} \X (1..users[e]) : e \in {o \in EntryKeys : b \in Uses(o)}}
PinsCoverUsers == \A b \in Blobs : pins[b] >= Cardinality(KeptFor(b))

(* The entry of a request off the device, once whole in memory, stays so   *)
(* until it is unpinned or the cache cleared.  (In a directory, it may go  *)
(* with its record, which is not pinned: PinnedStaysInDirectory.)          *)
PinnedStays ==
  \A e \in EntryKeys : users[e] > 0 /\ Saved(e) => Saved(e)' \/ users'[e] = 0 \/ Clear
PinnedStaysSaved       == [][~ persists => PinnedStays]_vars
PinnedStaysInDirectory == [][PinnedStays]_vars

(* An entry save() returns is whole in the store.                          *)
SavedIsWhole ==
  [][save.step = "cover" /\ save' = NoSave /\ raised' = raised =>
        Uses(save.e) \subseteq ToSet(held')]_vars

(* Entries go with their blobs, and an eviction gets past the ones that    *)
(* did: no call ends with a KeyError of its eviction loop.                 *)
NoEvictionError == raised \cap {"call", "writer"} = {}
=============================================================================
