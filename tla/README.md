# A TLA+ model of openTPU

openTPU is an accelerator (RTL for two FPGA boards), its compiler and simulators, the language
models that run on it, and a server that shares one device between many requests. These modules
model, from the source, the parts in which things happen at once: the server's threads, locks,
store and workers; the host that sends a mixture-of-experts model's experts to a card while the card
computes; and the sequencer that starts instructions out of order by the waits the compiler wrote.
What the arithmetic computes is an input of the models.

Line numbers below are of the repository's files; `PROJECT.json` maps every definition to its lines.

## 1. Inventory

| Part | Code | State | Operations | Talks to |
|---|---|---|---|---|
| Blob store | `opentpu/serve/store.py` 31-283 | memory, spilling and disk tiers with LRU orders and byte counts, files, pins, the writer's queue | put, get, pin, unpin, discard, persist, flush, a writer thread, a start on a directory | calls `on_drop` of the prefix cache while it has its lock |
| Prefix cache | `store.py` 286-535 | entries in order of use, references blob -> entries | match, save, restore, unpin, clear, `_blob_dropped`, `_load` | the store, under its own lock; the device's pages between two locked parts |
| Worker | `opentpu/serve/scheduler.py` | the waiting and running queues, each request's tokens, the device's tokens, its owner | submit, cancel, flush, stop; the loop: pick, switch, prefill, decode, end | API threads, the engine, the prefix cache |
| Batch worker | `opentpu/serve/batching.py`, steps of `opentpu/llm/batch.py` | slots, their tokens, the requests being fed | the worker's, with slots for turns: bind, feed runs, steps, mixed steps, the card's loop | the same |
| Context transfer | `opentpu/serve/kvio.py` | staging area | read/write pages and state | the device |
| HTTP API | `opentpu/serve/api.py` | one thread per connection | submit, stream, cancel, admin calls | the worker |
| Expert server | `opentpu/host/offload.py`, `opentpu/kernels/mailbox.py`, `opentpu/llm/moe.py` | expert slots, directory, hints on their way, tags; a mailbox in the card's DRAM | poll: requests, hints, needs; place, rebase, prefill modes | the card's program, through DRAM words and DMA in order |
| Device lock, run state | `opentpu/host/runstate.py`, `board.py`, `smi.py` | lock file, status file, a run in flight | take, inherit, lose, release; start, poll, stop | other processes |
| Build caches | `opentpu/progcache.py`, `qcache.py`, `imgcache.py`, `host/prebuild.py` | files | look up, store beside and rename, evict | other processes |
| Engines | `opentpu/llm/*.py` | positions, snapshots, compiled programs | prefill, step, generate, MTP | the device |
| Waits and the sequencer | `opentpu/waits.py`, `rtl/seq/otpu_seq.sv` | the window's slots, counts per unit, the VPU's outstanding | wait entries per pc; dispatch, start, release, complete | the units; the compiler's wait entries |
| Compiler, ISA | `opentpu/compiler.py`, `language.py`, `isa.py` | - | code generation, encoding | - |
| Simulators, numerics | `isasim.py`, `rtlsim.py`, `fp32.py`, `quant.py` | - | bit-exact arithmetic | - |
| RTL, the rest | `rtl/` | DMA, MXU, VPU, FIFOs, AXI splitter, collectives | - | - |
| Bend port, cache replays | `bend/` | - | the ISA simulator again, with its laws; cache policies over traces | - |
| Boards, ASIC, tools | `boards/`, `asic/`, `tools/` | - | vendor and generated files, scripts | - |

What is hard here, and what makes each part correct:

* **Blob store.** The writer thread writes a file between two locked sections; any call may run in
  between. Evictions report drops through a callback. Counts must be those of the tiers, no blob may
  leave unreported, the index must be the directory, pinned blobs stay, flush() returns.
* **Prefix cache.** Pages are shared; a drop removes entries, whose removal discards further blobs -
  from inside the eviction loop that reported the drop. References must be the entries' uses, pinned
  contexts must stay, an entry must be whole.
* **The two locks.** The cache takes its lock and then the store's; `on_drop` takes them in the other
  order.
* **Worker.** Turns of several requests over one device whose caches are overwritten. The worker's
  list of the device's tokens must be what the device was fed, each request's output must be a run of
  its own, every request must end once.
* **Batch worker.** A slot's caches are copied from other slots, restored from the store, padded over by
  steps of other requests, and forgotten by flush() and by failures; its list must stay true, and each
  running request alone in its slot.
* **Expert server.** The host writes an expert's bytes, tags and directory entries into DRAM that the
  card's program reads at moments of its own, with no lock: only the order of the writes, and the
  words each side zeroes, keep the card from computing with another expert's bytes or waiting for ever.
* **Sequencer.** It compares no addresses: one wait entry per pc, made from all visits of the pc, must
  cover every conflict, with readiness a cycle old and counters that wrap.
* **Device lock.** A protocol with other processes; not modelled.

`PROJECT.json` lists the hazards one by one with the properties that cover each.

## 2. Modules

| Module | Models | Proofs |
|---|---|---|
| `Lists` | what several modules use of Python's lists and OrderedDicts | `ListsProofs` |
| `KVStore` | what the store promises: the set of blobs it has, the pins, what callers were told | - |
| `BlobStore` | `BlobStore`: tiers, counts, files, queue, writer thread, restart; implements `KVStore` | `BlobStoreProofs` |
| `PrefixCache` | `PrefixCache` and the eviction loop it runs in, in memory or with a directory; restarts | `PrefixCacheProofs` |
| `StoreLocks` | the two re-entrant locks and the calls that nest them | `StoreLocksProofs` |
| `Serving` | what the server promises a client: its output is the model's reply | - |
| `Contexts` | what both workers share: requests, contexts as their tokens, what the model says | - |
| `Worker` | `Worker`: API threads, the loop, turns, context switches, failures; implements `Serving` | `WorkerProofs` |
| `BatchWorker` | `BatchWorker`: slots, binding, feeding, steps, the card's loop; implements `Serving` | `BatchWorkerProofs` |
| `Experts` | the expert server, its writes as they land, and the card's program | `ExpertsProofs` |
| `Sequencer` | the wait entries and the window that obeys them | `SequencerProofs` |

`MC...` modules hold the instances TLC checks. `Contexts`, `PrefixCache` and `Experts` extend `Lists`. `Worker` and `BatchWorker` extend `Contexts` and each is
shown to implement `Serving`; `PrefixCache` has `BlobStore` below it as one tier of blobs, and
`Worker`'s and `BatchWorker`'s `saved` is `PrefixCache` as a set of contexts any one of which may go,
the pinned ones too.

### BlobStore

Each method holds one lock, so it is one action. The writer takes the lock twice per item with the
file written in between: `WriterTakes` (or `WriterSkips`), `WriterWrites` (or `WriterFails`), then
`RecordCopy` / `RecordSpill`. The eviction loops at the end of put, get, unpin and of the writer's
record are part of those actions (`EvictRam`, `EvictDisk`). An `OrderedDict` is the function from each
key to the keys used less recently. `told`, `leaked` and `owed` are history: what `on_drop` said, files
that could not be unlinked, what a persist() in progress promised. `Restart` is a process end at any
step followed by `__init__` on the directory. `Bytes` is a constant: an additive length.

Left out: stats, timing, `usage()`. `RePut` are the keys callers put again while the store has them
(an entry's record, `PrefixCache.save` line 377): the code mistreats them (below), so the invariants
are claimed for `RePut = {}`, and section 3 lists what fails otherwise.

### PrefixCache

The store is one tier of blobs here: memory, or a directory (`persists`, chosen in Init), where an
entry's record is put too and the evictions are the writer thread's (`WriterEvicts`), in the middle of
a save() as well. An eviction goes through a list of keys made when it starts, one step per turn
(`EvictNext`), and each drop calls back: the entries that use the blob are removed, and the blobs no
other entry uses discarded. An eviction that pops a key gone meanwhile raises (`EvictRaises`). save()
is four steps - `SaveBegins`, `SavePuts` per blob, `SaveAdds`, `SaveReturns` - with the device's read
between the first two; match() and `Restore` are apart, as in the worker. `Restart` is a server that
ends at any step and another that starts on the directory: some of the blobs are files, in any order,
and `Load` makes entries of the records whose blobs are all there. `users` is history: how many
requests each entry is pinned for. MTP's `follow`/`held` are left out.

### StoreLocks

Threads of three kinds (`Engines`: the worker's; `Clients`: the API's, of which those in `Clearing` may
call clear(); `Writers`: the store's) take and release two re-entrant locks; `NextLock` says which lock
the code may ask for next inside which. A call of the cache calls the store inside its lock, and where a
call of the store may drop blobs (`Dropping`) on_drop calls the cache inside the store's. A thread's
repeated calls of one kind are one.

### Worker

One action per step of the loop that another thread can see: `Pick`, the parts of `_switch_to`
(`SwitchSaves`; `SwitchReuses`, or `SwitchLeaves` and `SwitchLoads`), `Prefill` per token,
`DecodeBegins`, `Decode` per token, `Fails`, `LoopStops`, `StopSaves`; and of the API's threads:
`Submit`, `Cancel`, flush() in its three steps, `Stop`. `dev` names the request whose `fed` list the
worker has for the device's tokens (the code shares that list object, line 387); `kv` is what the
device was really fed. A saved context has a key (the tokens it was saved for) and data (what the
device held): they differ only if the worker saves something else than it believes. `SavesAt` is where a
prefill saves: after each part that does not end the prompt (line 503), which is the part up to the
boundary `at`, if the model has a state and `at` lies in what is to be fed, and the one that ends before
the last token, if the device picks. `saved` may lose any context at any time, a running request's
pinned one too (`Forget`): the evictions of the store look at the pins, but `_remove`, on_drop and
clear() do not, and the run `PrefixCacheRecord` shows a pinned context going. `lost` is history: the
requests whose context was dropped, forgotten by flush() or by another's failing turn. Such a request
starts again from its prompt and says its reply again after what it said before (lines 378-382); what
`Serving` promises is relative to `lost`: such a request's tokens are still of its own reply, every other
one's output is its reply, token by token.
`Says` is the model: after a request's prompt and part of its reply it says the next token, after
anything else `Garbage`, so a wrong context shows in the output. Init chooses the model: `stateful`, a
recurrent state that continues only from its very end, and `cardPicks`, tokens picked on the device.

Each token is polled for the end of the turn, as `generate_card`'s stop() does; the host-driven loop
asks once per run of tokens, which is fewer places to yield. The MTP decoder, images, sampling, stop
strings and statistics are left out. The context's capacity is not reached: `max_new` is cut to what
fits (line 214).

### BatchWorker

The loop's iteration is `Admit`; per admitted request `BindPlans` (match, the slot's old context saved)
and `BindPlaces` (pages copied from another slot or restored, or nothing where the match went
meanwhile: `Bound`); then `FeedBegins`, `PrefillRun` until the budget is spent, and `Step`, or one
`MixedStep`, or `CardToken` per token of the card's loop; `Output` per decoding row; `Bottom`. `dev`
names the request whose fed list is `slot_dev[s]` (the code shares the list), `kv[s]` what the slot's
caches hold. `Padded` is the dummy token a padded step writes past a free slot's context.

Open, as a choice of the model: which free slot a request takes, which of several equal matches or
slots it copies from, whether a mixed run's program is compiled, which free slots pad a step, when the
card's loop comes back. Left out: compiling ahead, sampling, which blocks of slots share a run.

### Experts

The card's DRAM has the mailbox (`seq`, `row`, `served`, `answer`), the directory, the slots' bytes and
their tag words. A poll of the host (`PollSteps`, `PollHolds`, `PollHint`, `PollServes`) reads the
mailbox once and queues its writes in the order of the code: tags cleared, parts, the answer after the
first part, tags with the last parts, directory entries, `served`. `Dma` lands them one at a time, the
card running in between; entries of one list land in any order. The card asks (`Asks`, after the fence
on `served`), `Posts`, reads the present flags one by one, computes the present ones, then takes the
missing ones from the answer and their tags. Between runs: `Starts` with its rebase of `seq`, `Place`
and `Release` of another entry of the host's in a slot. `Exact` is the float32 limit of 2^24.

The card ends a request as soon as its experts are computed, whether the answer to it has come or not
(moe.py:689-690; settle() in offload.py:1318 is for such a run). An expert landed in the poll before may
be read as present, so the card needs no answer, while the host, which cannot know, answers late: the
answer may land when the card has ended and zeroed it. `stale` marks such an answer; the card's next
request zeroes it at its end, unless it takes a slot from it first, for an expert it misses: then it is
`misled`, and computes with whatever that slot has. Both are history. The card's three properties say
what holds until it is misled; `ExpertsLate` shows the late answer (section 3). Left out: layer-major and expert-major prefills
(pooled slots, layers ahead, need lines), the row server, how `BoardDram` cuts a write over two
channels, the pacing of polls, and all layers but one.

### Sequencer

A step is a cycle: `Cycle` takes the set of units that finish, the set of units that start one and
whether an instruction is dispatched, and every part reads the registers as they were - readiness
(`allq`, `dramq`) is that of the cycle before. The compiler's part (`Ranks`, `DramRanks`, `Mask`) says,
once per pc, how far back in each unit's instructions is the nearest one some visit of the pc conflicts
with; the window's part turns that into counts to reach. Counts are naturals compared as the hardware
does, by the sign of a difference modulo `Wrap` (2^CW).

The run is the list of instructions with loops unrolled, and the compiler's pass covers exactly its
visits; the code widens loops and joins, covering more. When fetch stages deliver and when units finish
is open, which covers an RLD that is held. Left out: the fetch and loop stages, the range check of
builds without WAITC, the +hz emulations.

## 3. Runs

| Run | Checks | Shows |
|---|---|---|
| `BlobStore` | `CountsAreTrue`, `IndexIsDirectory`, `RamBudgetKept`, `DurableIsOnDisk`, `PinnedStay`, `DropsOnlyPastBudget` | the store with files that do not fail: three blobs (lengths 1, 2, 1), budgets 2 and 2, restarts at any step |
| `BlobStoreFaults` | `TypeOK`, `DropsAreReported`, `SpillsAreQueued`, `PersistKeeps`, `SpillsEnd`, `FlushReturnsAtLast`, `ImplementsKVStore` | any file operation may raise: nothing is lost unreported, a fair writer thread ends its queue, and the store is a `KVStore` |
| `PrefixCache` | `TypeOK`, `RefsAreUses`, `EntriesHaveRecords`, `PinsCoverUsers`, `EntriesKeepBlobs`, `PinnedStaysSaved` | three entries with shared pages in memory, or two with records in a directory, with the writer's evictions and restarts |
| `Worker` | `TypeOK`, `DeviceAsListed`, `SavedAsKeyed`, `EndedOnce`, `OffDeviceIsSaved`, `ImplementsServing`, `RequestsEnd` | models with and without state, with any one of: a context dropped, pinned or not, a flush(), a failing turn, a stop(); every output is the model's reply, begun again only where its context was lost, and every request submitted while the loop runs ends |
| `BatchWorker` | `TypeOK`, `DeviceAsListed`, `RunsInItsSlot`, `ImplementsServing` | three requests over two slots with any two troubles: a drop, a flush(), a failing iteration, a stop() |
| `BatchPromise` | `RequestsEnd` | with no such trouble, every request submitted leaves the queues, ended |
| `Experts` | `ComputesOwn`, `ClearAtPost`, `DirectoryAgrees`, `WaitsEnd` | three experts over two slots, hints, requests, victims, a rebase, a placement, late answers: until it follows one, the card computes with its own experts and waits for nothing that never comes |
| `Sequencer` | `AsInOrder`, `NeverStuck`, `ReadinessRises` | every run of three instructions, every loop of three run twice: memory is accessed as in program order, no run stops short, and a slot found ready stays ready until its instruction completes |

Four runs end in a violation. Each is a disagreement of the code with a comment or a doc of its own,
quoted in `PROJECT.json` under "findings":

| Run | Property | What the code does |
|---|---|---|
| `PrefixCacheRecord` | `PinnedStaysInDirectory` | an entry's record is not pinned with its blobs |
| `StoreLocksDrop` | `CallsGoOn` | lock order inverted by `on_drop`: two threads wait for ever |
| `ExpertsLate` | `AnswerZeroed` | an expert that landed in the poll before is read as present by the card, which ends and zeroes the answer before the answer to its "late hit" lands; the next request finds an old answer (offload.py:940-956, moe.py:690), and may take a slot from it |
| `SequencerWrap` | `ReadinessRises` | a count goes past a slot's target by half its range while the slot waits for another unit: the target reads as not reached again. The comments (otpu_seq.sv:567-568, 599-601) have a target stay within WIN of the count and readiness only rise; with CW = 8 it takes 128 instructions of one unit past a waiting one |

Other places where the code does less than one would want are kept out of the passing runs by a
constant, or by a property not listed there. Each is seen by the change of a configuration named here:

| Change | Property | What the code does |
|---|---|---|
| `BlobStore` with the invariant | `PersistWithinBudget` | persist() can leave the directory over budget with nothing pinned: the eviction skips what memory also has |
| `BlobStore`, `RePut = {rec}` | `DropsOnlyPastBudget` | a key put again while it spills is counted twice on disk; files are dropped early |
| `BlobStore`, `RePut = {rec}`, `Contents = {c1, c2}` | `DurableIsOnDisk` | a durable key put again with other contents keeps its old file |
| `PrefixCache`, `MaxEntries = 2` | `PinnedStaysSaved` | past `max_entries` a pinned entry is removed |
| `PrefixCache` with the property | `SavedIsWhole` | save() pins after its puts, which may have evicted each other |
| `PrefixCache` with the invariant | `NoEvictionError` | the eviction loop pops a blob that `on_drop` discarded: KeyError (store.py:178, 241) |
| `Worker` with the invariant, of all requests instead of those not in `lost` | `OutputIsOwnRun` | a request whose context was dropped, or forgotten by flush() or by another's failing turn, says its reply again after what it had said (scheduler.py:378-382): `Serving` allows it for `lost` |
| `Worker` without `phase # "stopped"` in the property | `RequestsEnd` | a request submitted after the loop has stopped never ends |
| `StoreLocksDrop` with `Writers = {}`, `Dropping = {"engine"}`, without fairness, `NoCircularWait` | `NoCircularWait` | an unpin() in the worker's thread that evicts and a clear() in an API thread are enough for the deadlock |
| `Experts` without `~ misled` in `ComputesOwn` | `ComputesOwn` | the card computes with the expert an old answer named |

And one that no property states: `BatchWorker`'s docstring says that a slot's context that would be
overwritten is saved first (batching.py:11-12); where restore() finds its match gone after a longer
context than the slot's own was counted on, the slot's unsaved context is lost (batching.py:165). No
request's output depends on it.

### Bounds

* `BlobStore`: `MaxQueue = 2` items and `MaxPins` 1 or 2: callers stop adding, so the writer meets an
  empty, a partly and a fully loaded queue, and a second item for the key it has in hand. `BlobStore`
  pins two of its blobs together, past memory's budget; `BlobStoreFaults` pins the durable one and both,
  up to twice each, and unpins what is not pinned. Budgets of 2 against lengths 1, 2, 1: one blob may
  push out two, and fit only alone.
* `PrefixCache`: three entries, two of which share a page, budget 4 with one blob of length 3: one put
  drops several blobs, so a callback removes what the loop has still to pop. `MaxUsers = 1` pin per
  entry; shared pages reach a count of two. `Saves`: all three in memory, the two that share with a
  directory, whose records double the states.
* `Worker`: three requests, two running, so one waits; prompts that share a prefix, one that continues
  another's conversation; replies of one to three tokens; a quantum of one token, so contexts are
  switched in the middle of replies. One cancelling client. `Troubles = 1`: a drop, a flush(), a failing
  turn or a stop(); that several of them do not break the safety properties is proved (section 4).
* `BatchWorker`: the same kind of requests over `B = 2` slots, so one waits and every copy has another
  slot to come from; pages of `P = 2` tokens, so that a context ends in the middle of a page; `Rows = 2`
  and `Budget = 2`, so a prompt takes more than one run and a mixed step has one spare row. `Troubles = 2`:
  any two, two of a kind too; 0 in `BatchPromise`.
* `Experts`: requests and hints of one or two ids over two slots, so that a request of two replaces
  everything; an expert's bytes in two parts, so that the card sees half an expert; two posts per run
  (`PostsPerRun`) and `RebaseAt = 2` under `Exact = 4`, so the count is rebased. The constraint
  `Followed` stops at the states in which the card was misled (they are checked, what follows is not):
  three of the four properties claim nothing there, and `DirectoryAgrees` is proved for what follows too.
* `StoreLocksDrop`: one thread of the worker, two of the API, of which one clears, and a writer that drops.
* `Sequencer`: a window of three slots (`WIN`), a mask of two (`VMW`), eight instructions that
  conflict through a register tile, DRAM, or everything (a barrier), and two longer runs chosen for a
  unit that runs ahead and for a VPU instruction others pass. `Wrap = 16` is past what these runs count;
  `SequencerWrap` has the built width (`Wrap = 256`) and one run of `Far = 130` loads past a waiting
  instruction, in a window of two slots.
* `CHECK_DEADLOCK FALSE` stands in the workers' runs and those of `Experts` and `SequencerWrap`, where the
  system ends (all requests done, or stopped; the bound of posts; a run's end), and in `StoreLocksDrop`,
  whose counterexample is a deadlock.
* `RePut = {}` (and so one content per key), `MaxEntries = 3` of three entries and `Wrap = 16` are not
  passed in the passing runs: the tables above say what happens beyond, and no hazard that is about it
  (a key put again, the entry limit, the wrap of a count) is counted as covered by them.

Symmetry is used in `Experts` alone, of experts and of slots, whose run checks invariants only. Keys,
entries, requests and instructions elsewhere differ in length, sharing, prompt or unit.

### Fairness

* `BlobStore`: weak fairness of the writer thread (it always has a step when its queue is not empty)
  and of join's return. `FlushReturnsAtLast` assumes its callers stop adding work, since `Queue.join`
  waits for an empty queue.
* `StoreLocksDrop` (a violation): a thread with a lock goes on (weak), and one that waits for a lock that
  is released again and again gets it (strong). Python's locks promise less; the counterexample, in which
  two threads wait for each other, stands even under this fairness, and no passing run assumes it.
* `Worker`: weak fairness of the worker's thread and of a flush() begun. Clients owe nothing.
* `BatchWorker`: weak fairness of the worker's thread.

`Experts` and `Sequencer` check no liveness: `WaitsEnd` and `NeverStuck` say, as invariants, that whoever
waits finds what it waits for there, or that something can go on.

## 4. Proofs

Every theorem holds for all values of the constants that satisfy the module's assumptions; a further
hypothesis is named with it, and section 3 shows the case that needs it.

**Lists** (`ListsProofs`). Lemmas the other proofs cite: what `Take`, `Common` and `Without` return, what
appending, removing and concatenating do to a list's elements and to "each once", what `FlattenSeq`
joins. `Without` and `FlattenSeq` are recursive functions; the lemmas go by induction over the set of
lengths for which they hold (`NatInd`).

**Blob store** (`BlobStoreProofs`).

* `TypeCorrect`: `Spec => []TypeOK`, with failing files and keys put again.
* `RamAccounted`: memory's count is the length of what is in it, and memory is over its budget only by
  pinned blobs. Inductive invariant: type, `RamCount`, `RamBudgetKept`, and that `ramOlder` is a strict
  order of the blobs in memory; `EvictedEnough` says that what `Evicted` picks brings the count down.
* `StoreSound`, with `RePut = {}`: counts of all tiers, `DropsAreReported`, `SpillsAreQueued`,
  `IndexIsDirectory`, `PersistKeeps`. The inductive invariant `StoreInv` is `TiersInv` (which tiers a
  key may be in at once, counts, reports), `FilesInv` (index, files, and what the writer holds) and
  `QueueInv` (each spilling blob and each owed key has an item in the queue or in hand). None is
  inductive alone: the record step's count needs that the key is not on disk, which needs that a
  spilling key has no file, which needs how keys enter the queue.
  `CountsHold`, `SpillsHold`, `IndexHolds` and `PersistHolds` state its parts by themselves.
* `BudgetOnly` and `PinnedKept`, with `RePut = {}`: the action properties `DropsOnlyPastBudget` and
  `PinnedStay`. From `StoreInv` a step's report to `on_drop` is what left the store, so a pinned blob
  leaves only where the report may name it; and the count an eviction looks at is the directory's real
  length, with the file being recorded.
* `Refinement`, with `RePut = {}`: `BlobStore` implements `KVStore`, step by step, from `StoreInv`.
* `DurableIndexed`, where no file operation fails: once the writer has nothing left to do, every durable
  blob of memory is indexed on disk, re-puts and discards at any step included. Invariant
  `DurableComing`: such a blob is on disk or its copy is in the queue or in hand. A copy that failed is
  logged and not tried again, hence the hypothesis.
* `DurableHolds`, with also `RePut = {}` and one content per key: `DurableIsOnDisk`.

`RePut = {}` is a real hypothesis: section 3 lists what fails without it.

**The two locks** (`StoreLocksProofs`), for any number of threads:

* `LocksExclude`: the nests of calls are those the code makes, and two threads are never inside calls
  under one lock. Inductive invariant: the type, `OneInside`, and that a waiting thread waits for a lock
  its code may take where it is.
* `NoDeadlock`: if no call drops a blob (`NoDrops`), or if one thread alone has calls that nest
  (`OneNests`: no directory, no clear(); that thread takes the locks in both orders), no two threads wait
  for each other. In the first case locks
  are taken in one order (`InOrder`), in the second a client that waits holds nothing (`ClientsFlat`).
  Elsewhere the run `StoreLocksDrop` is the counterexample.

**Prefix cache** (`PrefixCacheProofs`). `CacheInv` is the type, `Contents` (the lists hold each key once,
references are the entries' uses, entries have records, memory stores none), `Saving` (what a save()
under way has still to put is of its entry) and `Covers` (a blob's pins cover the requests off
the device that use it, and the pin that save() is about to account for).

* `CacheTypeOK`, `CacheRefsAreUses`, `CacheEntriesHaveRecords`, `CachePinsCoverUsers`, and the action
  property `CacheEntriesKeepBlobs`, with no hypothesis. The lemma `Removed` carries the removals: after
  `_remove` of any set of entries, what the store had of the others, and their records, are still there.
* `CachePinnedStaysWithin`: in memory, in every step that starts with no more than `max_entries` entries,
  a pinned context stays whole. `CachePinnedStays` is `PinnedStaysSaved`, with room for every entry
  (`Roomy`): past `max_entries` the code removes pinned entries (section 3, `MaxEntries = 2`).

**Worker** (`WorkerProofs`). `WorkerInv` is `Queues` (each request once, who runs), `Typed`, `Ended`,
`Turned` (whose turn it is and what it may do), `Held` (the device's tokens are what it was fed),
`Pinned` (what a running request holds in the store), `Loading` (between `SwitchLeaves` and
`SwitchLoads`) and `SavedAsKeyed`.

* `WorkerTypeOK`, `WorkerDeviceAsListed`, `WorkerSavedAsKeyed`, `WorkerEndedOnce`.
* `PromiseInv` adds `Kept` (a running request that is not in `lost` has its own context, on the device or
  saved) and `Spoken` (what it was fed is its prompt and a beginning of its reply, which is its output
  unless it is in `lost`): `WorkerOffDeviceIsSaved`, `WorkerOutputIsOwnRun` (the output of every request
  not in `lost`), and `WorkerServes`: `Worker` implements `Serving`.

None has a hypothesis: the store may drop pinned contexts, flush() may come and turns may fail, any
number of times.

**Batch worker** (`BatchWorkerProofs`). `BatchInv` is `Queues`, `Typed`, `Placed` (a running request has
one slot, its alone), `Filled` (its caches hold what it was fed), `Lists` (what the worker lists for a
slot), `Planned` (what `_bind` chose still stands when the context is there), `Spoken` and `Emitting` (a step's tokens handed out one
request at a time).

* `BatchTypeOK`, `BatchDeviceAsListed`, `BatchRunsInItsSlot` and `BatchServes` (`BatchWorker` implements
  `Serving`), all with no hypothesis: here flush() and failing iterations do not touch what the running
  requests need.

**Experts** (`ExpertsProofs`). Nothing is locked between host and card, so the invariant is about the
writes on their way. `May` says which write may come before which and `InLine` that a poll's are in such
an order; `ExpertsInv` says of each word of the DRAM that it is right, or which write is to make it so
(`Directed` the entries, `Sending` and `Landed` the bytes, `Tagged` the tags, `AnswerOwn` the answer),
and of the card where it may be (`Counted`), what it has read (`Placed`, `AtPlace`), whose tags it has
zeroed (`Zeroed`) and that what it still needs is there or coming (`Coming`). `Freshly` and `Early` are
about the expert the last idle poll landed: the card may have read its entry as absent or as present,
the host cannot know, and answers it either way.

`HostInv` is the part that the host and its writes keep by themselves, whatever the card does; `CardInv`
is all of it, and holds while the card was not misled. A late answer (`stale`) is kept apart from the
answer to the request the card is in (`Told`). Each step is shown to keep `HostInv`, and `CardInv` unless
it misleads the card (`StaysMisled`: for good).

* `ExpertsDirectoryAgrees` from `HostInv`; `ExpertsComputesOwn`, `ExpertsClearAtPost` and
  `ExpertsWaitsEnd` from `CardInv`. None has a hypothesis; the last three properties claim nothing of a
  card that was misled, which `ExpertsLate` shows it can be.

**Sequencer** (`SequencerProofs`). `SeqInv` is `Typed`, `Numbered` (the window has some of the
instructions dispatched, once each, with their counts as in program order), `Flight` and `VpuFlight`
(what each unit was given and has not completed is in the window; the VPU, which completes out of order,
has its last `VMW` there at the most), `Lined` (a unit's queue is its oldest, in order), `Waits` (every
older instruction of the window that one conflicts with is waited for, unless a unit keeps them in
order), `Ready` (what was ready a cycle ago is clear) and `AsInOrder`.

* `SequencerInOrder`: `AsInOrder` for every run, window and mask. Of the counts it needs only that the
  width holds twice the window (`2 * WIN <= Wrap`): a target read wrongly is read as not reached.
* `SequencerGoesOn`: wherever no count is past a waiting slot's target by half the range (`CountsNear`),
  the run is over or something can go on. The comment at otpu_seq.sv:567-568 has a target within `WIN`
  of the count, which is nearer still; the code has nothing to keep it so (section 3, `SequencerWrap`).
  The argument needs `Aims`, inductive with `SeqInv`: a slot waits for older instructions alone, so the
  oldest of the window waits for nothing, and its unit has it first in line.
* `SequencerReady`: under the same condition a slot ready in one cycle is ready in the next, in which it
  may start. `Kept` says that what it waited for has happened, by the counts themselves.

That the runs of three instructions never come near the wrap is checked, not proved; programs on the
card are longer, and for them it is `CountsNear` that matters.

**Only model-checked.** Liveness (`SpillsEnd`, `FlushReturnsAtLast`, `RequestsEnd`): fairness
and ENABLED are out of the prover's reach. The library's induction theorems that take an operator cannot
be cited, so where a proof needs induction it is over a set of numbers, and no module declares a
RECURSIVE operator.

## 5. Plan

Done, in order of importance: the store, the cache in it, their locks, the worker over them, the batch
worker, the expert server with the card's program, the sequencer.

Proved: the invariants of all of them (section 4).

Next: `DeviceLock` (inherited locks, lost holders) and the RTL's clock-crossing FIFO.

## 6. Reading order

`KVStore`, `BlobStore`, `PrefixCache` and `StoreLocks` for the store; `Serving`, `Contexts`, `Worker`
and `BatchWorker` for the server; `Experts` and `Sequencer` stand alone.

## 7. Not modelled

* Device lock and run state (`host/runstate.py`): flock, locks inherited by children, the status file.
* `BoardDram` (`offload.py`, from 1700): how a write is cut into beats over two channels and widened from the
  host's shadow copy. `Experts` has writes change the words they name.
* Layer-major and expert-major prefills, pooled slots and need lines of the expert server.
* `kvio.py`'s address arithmetic, HTTP parsing and streaming, the MTP decoder's part of the worker.
* Code generation and arithmetic: compiler, ISA, quantization, fp32, the simulators, the Bend port, the
  RTL's datapaths. They are functions of data, which the repository checks bit for bit against
  each other.
* Build caches: files written beside and renamed; the store's files are the richer case.
* Vendor files, board constraints, the ASIC flow, tools.
