# A verification project for PNN

PNN ("Pico Neural Network") collects the libraries of the Benjamin project: a
stripped PortAudio with its Windows WMME back end, OpenFst, tiny-dnn, cereal,
Lua, and two small Windows tools. This directory holds TLA+ models of its core,
TLC configurations that check them, and proofs that the TLA+ proof system checks.
All paths are relative to the repository; `src/` is its root.

Two libraries carry the logic. PortAudio has threads, callbacks, drivers,
timeouts and a lifetime. OpenFst is sequential but for shared, reference-counted
implementations; its difficulty is state kept in several places by hand (keys in three
containers, property bits, marks and heaps, caches) and algorithms whose result is
easy to state and hard to compute.

## 1. Inventory

### PortAudio (`src/portaudio.h`, `src/portaudio/Sources`)

| Part | State | Operations | Hard behaviour | What makes it correct |
|---|---|---|---|---|
| Ring buffer, `common/pa_ringbuffer.c`, `pa_memorybarrier.h` | two indices, the memory | initialise, availability, regions, advance, read, write, flush | one writer and one reader without a lock, on memory that reorders | every element once, in order, whole; the copies never overlap; full and empty are told apart |
| Front end, `common/pa_front.c` | initialisation count, table of host APIs, device count, list of open streams | initialise, terminate, open, start, stop, abort, close, index conversions | nested initialisation, an initialiser that fails half way, streams that cannot be closed | nothing leaked or freed twice; the list is exact; indices are dense and invertible |
| Buffer processor, `common/pa_process.c` | two temporary buffers, the host buffers of a call, the callback's result | initialise, reset, begin, set buffers, end, copy | sizes that do not divide one another, split buffers, callbacks that end the stream | no frame lost, repeated or reordered; buffers never overflow; constant and least latency |
| WMME stream, `hostapi/wmme/pa_win_wmme.c` | flags, thread handle, events, rings of wave headers, driver queues | processing thread; start, stop, abort, close; blocking read and write | three concurrent parties (application, thread, drivers), overflow and underflow, waits that time out, failing driver calls | one thread at a time, none after a stop; a buffer has one owner; output is played in order and to its end; calls return |
| WMME host API and opening, same file | devices, latencies, events, headers, wave handles | initialise, terminate, open, close | any step of many fails; devices are skipped | everything acquired is released once; indices close the gaps |
| WMME buffer settings, same file | none | choose sizes and counts | unsigned arithmetic, two limits, two directions | sizes and counts meet the stated limits |
| Allocation groups, `common/pa_allocation.c` | two lists of links | allocate, free one, free all | links reused after growth | every block freed once |
| Converters, dither, CPU load, trace, debug print, stream tables, Windows utilities | none that other parts depend on | | | |

They interact like this. The application calls `pa_front.c`, which guards and
forwards each call to the stream's interface, a table of functions of a host
API. The WMME host API opens wave devices and starts one processing thread per
callback stream. Drivers give buffers back by setting `WHDR_DONE` and signalling
an event; the thread takes them, runs the buffer processor, which calls the
application's callback zero or more times, and queues the buffers again; in a
blocking stream the application itself does both in `ReadStream` and `WriteStream`.
Application and thread share flags (`stopProcessing`, `abortProcessing`,
`isActive`, `isStopped`), events and the thread handle. The ring buffer
connects a callback with the application's other threads.

### OpenFst (`src/fst`, `src/mfst`)

| Part | State | Operations | Hard behaviour | What makes it correct |
|---|---|---|---|---|
| Symbol tables, `mfst/Sources/symbol-table.cc`, `symbol-table-ops.cc`, `fst/symbol-table.h` | a hash table, a dense range, keys by index and indices by key, cached checksums, a count of owners | add, remove, find, merge, read and write, checksums, copy | removal shifts three containers; copies share until one changes; a lazily computed checksum behind a mutex | a one-to-one mapping, whichever container holds it; owners do not see each other; equal tables have equal checksums |
| Property bits, `fst/properties.h`, `mfst/Sources/properties.cc`, `fst/test-properties.h` | a word of known facts about a machine | masks and rules for each mutation and operation; tests that compute them | a bit kept too long lets an algorithm skip its work | what is claimed is true |
| Mutable machines, `fst/vector-fst.h`, `mutable-fst.h`, `fst.h` | states, arcs, epsilon counts, properties, a count of owners | every mutation; union, concatenation, closure, reversal, inversion, projection, sorting, trimming | copies share until one changes; operations that change a machine in place | the relation each operation promises; no other handle changes |
| Queues and heap, `fst/queue.h`, `fst/heap.h` | waiting states, components, positions and keys | enqueue, dequeue, update, clear; choice of a discipline | the heap orders by a vector the algorithm changes; components are queues of queues | what waits is what is marked, in the right order |
| Shortest distance and what uses it, `fst/shortest-distance.h`, `shortest-path.h`, `push.h`, `reweight.h`, `prune.h`, `rmepsilon.h` | distances, marks, parents, a queue, the machine itself | distances, n shortest paths, pushing, pruning, removal of epsilons | state kept from one source to the next; machines changed under the queue; cuts exactly at a threshold | least weights; relations kept |
| Caches of lazy machines, `fst/cache.h` | states in slots, flags, reference counts, sizes, a limit | request, expand, collect, iterate, walk, copy | collection while iterators are alive; one slot reused for many states | what is cached is right and stays while in use; sizes are exact |
| Matchers and composition, `fst/matcher.h`, `compose-filter.h`, `compose.h`, `complement.h`, `difference.h`, `intersect.h` | positions of two matchers, the last state of a filter, triples of states, what was computed | find, priorities, filter an arc, start, final, expand, copy; compose, subtract, intersect | matchers shared by methods that move them; epsilons interleave in many ways; sides that cannot match | the join of two relations, each path once; no answer depends on an earlier question |
| Other transducer types and operations, scripts, extensions, files | | | a library of templates | see section 7 |

The pieces meet like this. Every operation reads a machine through its iterators and
writes one through `MutableFst`; what it knows of the result it leaves in the
property bits, from which other operations decide what they need not do: `AutoQueue`
picks a discipline, `Connect` and sorting skip their work, epsilon removal picks an
order. Lazy machines, compositions above all, expand states into a cache on request, and search their
arguments through matchers. Handles to tables and
machines share implementations until one of them changes its own.

### The rest

tiny-dnn (floating-point training), cereal and Lua (third-party), `sag` and
`aj_dllgen.cpp` (straight-line system calls).

`PROJECT.json` lists every component with what is left out, and every hazard at
its line.

## 2. Plan

Done, in this order:

1. `PaFifo`, `PaRingBuffer` and `PaRingBufferProofs`: the abstract queue, the lock-free
   buffer that implements it, proofs for every size; `NumberTheorems`: what all proofs need
   of remainders, divisors, induction and folds.
2. `PaWmmeStream`, `PaFront`, `PaBufferProcessor`: application, threads and drivers; the
   life of the library and of its streams; block adaption.
3. `PaWmmeBlocking`: `ReadStream` and `WriteStream` over the rings of `PaWmmeStream`.
4. `PaAllocationGroup`, `PaWmmeHostApi`, `PaWmmeBufferSettings`, `PaWmmeOpen`: the WMME
   host API from its start to the opening and closing of streams.
5. `FstSymbolMap`, `FstSymbolTable`: the abstract mapping and the table that implements it.
6. `FstProperties`, `FstVector`, `FstVisit`, `FstRational`, `FstMeaning`, `FstMutable`:
   mutable machines, what is claimed of them, what they mean.
7. `FstCache`: lazy states with a limit.
8. `FstQueue`, `FstDistance`, `FstShortestPath`, `FstReweight`, `FstRmEpsilon`,
   `FstAlgorithms`: the algorithms that need a queue.
9. `FstMatcher`, `FstCompose`, `FstComposition`: composition with special labels,
   difference and intersection, delayed or copied.

10. `PaWmmeStreamProofs`, `PaFrontProofs`, `PaBufferProcessorProofs`, `PaWmmeOpenProofs`,
    `FstSymbolTableProofs`, `FstCacheProofs`: proofs about the streams, the front end, the buffer
    processor, opening and closing, symbol tables and caches of lazy machines.

Left open, models: the partial-usage mode and the copy functions of the buffer processor;
the tree of shortest paths; determinization and minimization, which the n shortest paths
with `unique` need; replacement and its cycle check; several devices per direction in WMME.

Left open, proofs:

* `FstVisit` and `FstVector`: what a depth-first visit and an in-place change keep of a machine.
* `FstCompose`: a composed state depends on its three parts alone.

No module of the project declares a RECURSIVE operator, so that each can be proved about.

## 3. The models

Names are the code's where TLA+ allows it; every definition is mapped to its lines in
`PROJECT.json`. Properties are conjunctions of named parts, each with a comment that
says what it is about.

### PaRingBuffer and PaFifo

`PaFifo` is the promise: a bounded queue, elements pushed and popped in batches.

`PaRingBuffer` is the code. `writeIndex` and `readIndex` run modulo `2 * N`
(`bigMask`), slots are taken modulo `N` (`smallMask`). A call of
`PaUtil_WriteRingBuffer` is split where another thread or the memory can come
between: load the other index (`GetWriteRegions`), pass the barrier and issue the copy
(`CopyIn`), pass the barrier and issue the index store (`AdvanceWriteIndex`). The
reader has the same three steps. Issued accesses are performed later and in any
order (`PerformStore`, `PerformLoad`, ...), a load even on a predicted count that
is discarded when wrong; only barriers and data dependencies order them. A barrier is a
condition: the accesses it covers have been performed. Elements are the numbers 0, 1, 2, ...
in the order written, so a torn or stale element is a wrong number. `base`,
`sent`, `received` and `delivered` are history.

### PaWmmeStream and PaWmmeBlocking

`PaWmmeStream` is one stream with at most one device per direction. Its configuration is any
`OpenStreams` says. Each processing thread has its own program counter and locals, indexed by thread,
because a stream that is started twice may have two. `orphans` is a history variable: the threads
whose handle `StopStream` closed while they ran, because both its waits timed out. They go on, next to whatever the
application does with the stream, and the model lets them, except that what two threads do to a buffer
that is already full is not followed. A step of a thread is a
group of accesses to what it shares: a wait, the check of the two flags, the look at
`WHDR_DONE` of a direction, one round of a catch-up loop, the callback, one
write to a driver. Between any two of them the application and drivers may act.
The application's calls are steps too: `StartStream` has five, `StopStream` up
to four, `AbortStream` two or three, with the guards of `pa_front.c` on the first.
The drivers are external: they finish the oldest buffer (`DriverDone`), and
return all buffers on `Reset`, as the code expects of them.

`PaWmmeBlocking` extends it to blocking streams, where the application does what the thread
does elsewhere. It follows the data: frames are numbered as they are captured and written,
0 is silence, and each host buffer has its frames. `ReadStream` and `WriteStream` (`BeginTransfer`,
`Transfer`, `TransferWait`, `TransferTimeout`) take one step per iteration of their loops: one
partial copy, or one wait. `used` is `framesUsedInCurrentBuffer`. `StopStream` fills the
last buffer with silence, queues it and waits for all of them (`BlockingStopFlush`, `StopDrain`).

Times are abstract. A wait may time out if the constant allows it. In callback streams frames are
counted in calls of the buffer processor. Left out: several devices per
direction, throttling, priming by the callback, and the results `paInputOverflowed` and
`paOutputUnderflowed`.

### PaWmmeHostApi, PaWmmeOpen, PaWmmeBufferSettings and PaAllocationGroup

`PaAllocationGroup` counts blocks and the links of a group, and knows which call of the
allocator is to fail. `PaWmmeHostApi` is `PaWinMme_Initialize` and `Terminate`: the devices that
can be queried get consecutive places in the arrays, the others are skipped, defaults come
from the preferred devices, from the environment, or from the first of a direction.

`PaWmmeOpen` is `OpenStream` and `CloseStream` on that host API. What a stream acquires
is a sequence of things (`Acquisitions`), each a step that may fail; `FailedAt` is the clean-up
of the function that failed followed by that of `OpenStream`, over the same handles and
headers. `misused` becomes TRUE when a thing is released that is not held, or before
something that rests on it (a header before its memory, a device before its headers).

`PaWmmeBufferSettings` translates `CalculateBufferSettings` and what it calls: pure integer
arithmetic, latencies in frames. A division by zero gives the settings `Crash`. The comparison of two
addresses in line 1732 is a choice the request makes (`inputFirst`).

### PaFront

The counter, the table and the list are the code's own variables; the loops of
`Pa_Initialize` and `Pa_Terminate` take one step per iteration. What an
initialiser delivers comes from a set: a host API with some devices, nothing, or
an error. `initialized` is a history of what has been initialised and not
terminated. A stream is a state (`free`, `stopped`, `running`, or `hung`: its Abort
fails) and `lost` records those a call failed to close. Error texts and format
checks are left out.

### PaBufferProcessor

`PaUtil_EndBufferProcessing` takes one step per iteration of the loop that may call
the callback. Frames are numbers, the callback of a full duplex stream copies
input to output, so order and loss show in `heard`, `generated` and `played`.
`Init` chooses the process and the initial contents of the temporary buffers as
`PaUtil_InitializeBufferProcessor` does. The caller may hand over its buffers in two parts,
cut anywhere; where the callback has a block size and the process does not
adapt, at multiples of it, as the comment on `NonAdaptingProcess` demands. WMME itself uses
only the fixed mode and whole buffers; the rest is the interface that
`pa_process.h` documents for every host API. Formats, channels, time stamps and the
partial-usage mode are left out.

### FstSymbolMap and FstSymbolTable

`FstSymbolMap` is what the owner of a table sees: a list of symbols in the order added, each with a key
no other has, and a next key above them all.

`FstSymbolTable` is the code. `map` is the hash table with its buckets, probed linearly
(`Probe`), doubled when it is three quarters full (`Grown`) and rebuilt on removal
(`RemoveIndex`). As long as a symbol's key is its index only `dense` is stored; from there on
`idxKey` and `keyMap` relate indices and keys, and `RemoveSymbol` shifts all three. Every thread owns a
handle; implementations are shared until a thread changes its own: `StartChange` is the test of the count
of owners and `FinishChange` the change on the copy or in place, with steps of other threads between
them. A checksum is asked for (`AskCheckSum`), checked again under the mutex (`RecheckCheckSum`), computed and
used, a step each. `Reload` writes a table and reads it back, in the binary or the text form.
`MergeSymbolTable` is an operator on two tables. Names, failing streams, `CompactSymbolTable` and
`PruneSymbolTable` are left out; no program adds one key twice here.

The refinement mapping reads off each thread's table the list of its symbols; an
implementation two threads share is two lists.

### FstProperties, FstVector, FstVisit, FstRational, FstMeaning and FstMutable

`FstProperties` holds the masks and rules of `properties.h` and `properties.cc`: a word of bits is the
set of the names of its bits. `FstVector` is `VectorFst`: every mutation is an operator from machines to
machines, properties included. `FstVisit` is the depth-first visit with its explicit stack, its visitors for
strongly connected components and topological order, and the tests of `test-properties.h`.
`FstRational` has the operations that change a machine in place, as the sequences of mutations
the code makes. `FstMeaning` is written from definitions, not from code: when a property holds of a machine,
which paths it has, and the weighted relation it stands for, cut off at a length and a weight.

`FstMutable` is the program: two handles, each on one of two implementations. `Change` copies
a shared implementation first (`MutateCheck`), `Note` stores what a test found in
the shared one. An operation reads one handle and changes the other, or both. `last` records the operation
for the action properties. Weights are tropical and natural numbers.

### FstQueue, FstDistance, FstShortestPath, FstReweight, FstRmEpsilon and FstAlgorithms

`FstQueue` has the disciplines (trivial, FIFO, LIFO, shortest-first on the keyed heap of
`heap.h`, topological, state order, components of queues, and `AutoQueue`, which picks among them) as
records with `Enqueue`, `Dequeue`, `Update` and `Clear`. The comparison of a heap reads `rank`, the
vector of distances the algorithm owns and changes. `FstDistance` is the body of the loop of
`ShortestDistanceState` and of `SingleShortestPath`; one turn of it is one step of `FstAlgorithms`
(`DistanceStep`, `PathStep`, `PathsStep`). Sources kept from call to call (`retain`), as epsilon
removal does, keep their marks. `FstReweight` has pushing and both ways to prune;
`FstRmEpsilon` takes the states in its order, one distance search each, and rewrites the arcs of a
state while the machine is under the queue.

`FstAlgorithms` calls one of them on a machine (`job`), in `phase`s. Weights are tropical and
integers, negative ones included, so that equality up to `delta` is equality. Left out: the tree of
shortest paths, the `unique` option (it needs determinization), queues with filters or
estimates, pushing of labels and the lazy removal of epsilons.

### FstCache

The three layers of the default store are operators on one record: `VectorGet`, `FirstGet`
(slot 0 is reused for one state after another until it is in use) and the collector (`Sweep`,
`GC`, `Collected`), with the sizes adjusted at the code's six places. `base` is the book-keeping of
`CacheBaseImpl` (how many states are known, which are expanded). The lazy machine numbers its states as it
finds them. The client asks for starts, final weights and arcs, holds arc iterators, walks with
the state iterator and copies the machine, with the cache or without.
Labels and weights are left out, sizes are in units; `HashCacheStore` is left out.

### FstMatcher, FstCompose and FstComposition

`FstMatcher` answers which arcs of a state carry a label: by binary or linear search in sorted arcs, by a
hash table, and with special labels, whose arcs stand for failures (phi), for the rest (rho) or for anything
(sigma). A matcher is a record with a position of its own (`state`) and one of the matcher underneath
(`inner`), because `Final`, `Priority` and `Find` of the special ones move the latter and `SetState` returns
early. Operators that move a matcher return it with their answer.

`FstCompose` has the filters with what they keep of the state they were last set to, and `ComposeFstImpl`: states are triples found so far, final weights and arcs are computed one
state at a time, and the choice of the side to match on, with its tests of what is sorted, is the code's.
`ComplementFst`, `DifferenceFst` and `IntersectFst` are made of it. What is computed stays: `FstCache` is
about eviction.

`FstComposition` is the program: it makes a composition and asks for its parts in any order, copying it now
and then, or calls `Compose`, `Difference` or `Intersect`, which copy it to a `VectorFst` and trim it. The
reference is independent of matchers and filters: `Spelled` replaces special arcs by one arc for each letter, and
the result must be the join of the two relations. Left out: look-ahead, `MultiEpsMatcher`,
`ExplicitMatcher`, and the matcher of a delayed composition.

## 4. The runs

| Run | Instance | What it shows |
|---|---|---|
| `ring_buffer` | `N = 2`, requests up to 3, 6 elements | types, order of reads, no data race, safe estimates, implementation of `PaFifo`, delivery of every element |
| `wmme_stream` | callback streams: 3 input or 3 output buffers with two starts, 2 and 2 with one, 1 and 2 or 2 and 1 with one start and failing calls, or with two frames in each buffer of one direction; both waits of a stop may time out with 1 buffer and two starts, 3 output buffers, 2 and 2, or 1 and 2 and failing calls, else one; blocking streams: 2 input or 3 output buffers with two starts, 2 and 2 with one, 3 input or 2 output with failing calls, two frames in a buffer; the wait of an abort may time out | no thread on a stopped or freed stream, and one at a time, but for threads a stop gave up; ownership of buffers and ring order; inactive means finished, and finished means played; blocking transfers are in order, complete, and wait only if they must |
| `wmme_liveness` | 2 input or 2 output buffers, two starts, both kinds of streams; one wait of a stop may time out | calls return, stopping streams finish |
| `wmme_open` | 65 computers with up to 6 wave devices, any one allocation failing; streams of up to two devices a direction, any one acquisition failing; settings from 3 latencies a direction, 6 user sizes, 2 rates, 5 channel sets, 3 low-level settings | the started host API is complete and a failed one leaves nothing; opening acquires all or nothing and releases once; buffers cover the latency within the limits, but for the exceptions section 6 names |
| `front` | 3 initialisers, the first perhaps absent, the middle one with no devices or failing; 3 streams; nesting 2; two lives of the library | list, life of host APIs, indices, defaults, and that calls return |
| `process` | blocks of any size, 2, 3 and 4 against fixed host buffers of 1 to 4 and varying ones up to 3; 8 frames | no frame lost, repeated or reordered; bounds; whole blocks; latency; all host buffers used |
| `symbol_table` | one thread with 4 symbols, 3 of which collide, keys to 4, 4 buckets; two threads with 2 symbols that remove, or that ask for checksums | the table is a mapping and implements `FstSymbolMap`; checksums are current, and equal for equal tables; merges are mappings and keep the keys they should |
| `fst_mutable` | machines built arc by arc with 2 states and 2 arcs; shared ones; every machine of 2 states and up to 2 of 8 arcs combined with 3 others; two operations in a row | claims are true, counts exact, copies apart; each operation's relation up to length 2 and weight 2 |
| `fst_algorithms` | stars of 6 states whose arcs are undercut; 3 states with 4 arcs out of 7, among them epsilons, loops and a negative weight; every call with every discipline, thresholds 0 to 3, state limits | what waits is marked, heaps are ordered; distances are least; pushing, pruning, shortest paths and removal of epsilons yield what they promise |
| `fst_cache` | machines of 3 and 4 states, limits 0 and 8 units, or no collection; two iterators, walks, or copies | cached states are right and stay in use; sizes are exact and the limit holds; walks are complete |
| `fst_composition` | machines of 3 states with 3 or 4 arcs under each filter; cyclic ones of 2 states, sorted, unsorted or hashed, known to be so or not; three special labels on either side; differences and intersections of 2 states; delayed ones asked in every order | relations are joined, or subtracted; epsilon paths are counted once; claims and chosen sides are right; answers do not depend on what was asked before |
| `wmme_abort_race` | the smallest instance that shows it | each refutes what a comment or `portaudio.h` says (section 6) |

Why the bounds are enough:

* Two slots of the ring buffer are the least with a wrap inside a request, a buffer neither full
  nor empty, and two elements that can be reordered. Six elements take either index
  once through all `2 * N` values and on. A request of 3 is larger than the buffer. The safety
  properties are proved for every `N`, so the run only has to be convincing for the
  liveness property.
* Three host buffers are the least for which "all but the current one" is more than one, as
  in catch-ups. The queue property is about neighbours in a ring. Two starts show what an
  earlier thread does to a later one. Streams with both directions have fewer buffers or
  starts, because each direction by itself has more. Two frames in a buffer and transfers of up to
  three cut buffers in every way; 8 frames go round the rings more than once.
* Allocations fail at the first to the twelfth call, acquisitions at each place there is. User sizes
  lie below, at and above the hard limit, with a small prime factor and without one; latencies below and
  above a tenth of a second. One channel against eight gives the directions limits that differ by eight. Sums that wrap around are outside the range.
* Three list nodes are a first, a middle and a last. Two lives of the library
  show what the first leaves behind. A host API without devices lies between
  two that have some.
* Blocks and host buffers of 2, 3 and 4 include sizes that divide each other
  either way, sizes without a common factor, and 4 against 2, where the least
  shift is smaller than a block less one. Eight frames pass the least common multiple of
  all pairs that adapt but 3 and 4, and there two host buffers and the shift are covered; `LatencyIsLeast` is
  about all buffers up to a full period.
* Four symbols with neighbouring hashes in four buckets make every probe meet others and the table grow
  once; keys 0 to 4 lie inside, at the edge of and beyond the dense range, and a removal has
  symbols on both sides. Two threads are enough for a mutex and for one count of owners.
* Two states and two arcs have loops, cycles, unreachable states, and every pair of labels a sort or a
  determinism test compares; start states with and without incoming arcs occur.
* In the stars three states wait in the heap while the distances of others change. Three
  states and four arcs have cycles of two, components of one and two states, and paths
  that meet. The distances are compared with all paths of up to as many arcs as matter.
* A cache of three or four states and a limit of two or three of them collects in the middle of every
  kind of request.
* Machines of two or three states with four arcs have epsilons of one, of the other and of both meeting in
  every order, states with only epsilons and with none, and two equal labels for the search. Failure arcs
  form chains of two, and loops where the matcher has `phi_loop` on. Three letters have one no arc carries. Relations are compared up to
  length 4 and weight 30, which no path of the acyclic machines exceeds.
Fairness. In `ring_buffer`, a thread inside a call goes on, accesses that have been
issued are performed, and the reader keeps polling; nothing obliges the writer.
In `wmme_liveness`, threads are scheduled, drivers go through their queues, and
a call that has been made goes on: the operating system and the devices promise as much.
Nothing obliges the application to call, nor the callback to finish, nor a wait of a blocking
transfer to time out: `ReadStream` ignores its timeouts and returns only because the driver does its work. A wait
that times out in the thread counts as a step of it, as in the code (`WaitForMultipleObjects`
has a timeout). In `front` and `process`, a call that has been made runs on. All is weak
fairness. The OpenFst models are sequential calls and loops, or threads about whose schedule nothing is
assumed: safety only. That loops end shows in the deadlock check of `fst_algorithms` together
with `TakenFewTimes`, and in `fst_cache` in the walks.

Deadlock is checked in `ring_buffer` (the reader can always poll), `fst_cache` (the
client can always ask) and `fst_algorithms` (a finished call stays finished). In the others the
system may stop: the application closes the stream, or a bound (starts, lives
of the library, frames, symbols, operations) is used up.

Every property of a passing run has a mutant of the code under which it fails;
mutants are the definitions marked so in the modules.

## 5. What is proved

| Module | Theorems | For every |
|---|---|---|
| `PaRingBufferProofs` | `TypeCorrect`, `ReadsInOrderTheorem`, `NoDataRaceTheorem`, `EstimatesAreSafeTheorem`, `ImplementsFifoTheorem` | size, request and number of elements |
| `PaWmmeStreamProofs` | `StreamLife`, `StreamBuffers`, `StreamFinish`, `BlockingInOrder` | configuration of streams, number of threads and frames |
| `PaFrontProofs` | `Listing`, `DeviceIndexing` | set of host APIs, devices and streams, depth of nesting |
| `PaBufferProcessorProofs` | `Gapless`, `LatencyHolds`, `AllBuffersUsed` | size of host buffers and blocks, mode and direction |
| `PaWmmeOpenProofs` | `SettingsAreRight`, `NothingIsLeftBehind`, `HostApiStarts` | set of systems and of requests to open a stream, call that fails |
| `FstSymbolTableProofs` | `Mapping`, `ImplementsMap`, `CheckSums`, `Merges` | set of threads and symbols, hash function, scenario |
| `FstCacheProofs` | `Caching`, `Limits` | finite machine, set of arc iterators, cache options, copies |

Each module names its inductive invariant (`Inv` or `IInv`), has a lemma for every action, and
proves `Spec => []IInv` before the properties. The invariants have been checked on the
instances of the runs first. `NumberTheorems` has the arithmetic of `%`, `\div` and divisors, and two facts
about natural numbers: a set of them has a least element, and one that contains 0 and with
`n` also `n + 1` contains all. The latter takes a set, not an operator, and so the
provers can use it: it is how two recursive functions below are reasoned about. `FoldExists` says
the same of the library's folds, which choose a function on sets of indices that solves a recursion: for a
step given as a function there is one. For the folds of sequences the module has a constant for the step; a
module that folds instantiates it with its own operator and gets `FoldIsChain`: the fold is the last of a chain of
values, each a step from the one before.

### The ring buffer

For every `N`, `MaxRequest` and `MaxElements` allowed by the three assumptions (positive,
positive, natural): `Spec => []TypeOK`, `[]ReadsInOrder`, `[]NoDataRace`,
`[]EstimatesAreSafe`, and `Spec => ImplementsFifo`, the refinement.

None of these is inductive by itself. The invariant `Inv` adds positions: the
unwrapped counterparts of the indices. `Published` is the number of elements whose
index store has been performed, `Freed` the number whose slots have been given back. Then
`received <= Published <= sent <= Freed + N`; each index in memory is its position
modulo `2 * N`; the slots of elements between `received` and `Published` hold those elements; a
thread in the middle of a copy works on a window inside its part. `N` consecutive positions
have different slots, so the windows do not meet. The lemmas on `%` (section "Arithmetic of
the two masks") say when a difference of two wrapped numbers is the difference of the
numbers. There is one lemma per action, `InitInv`, and the first four theorems follow.

The refinement maps the queue to the numbers between `received` and `Published`. From
`Inv`, a performed store of `writeIndex` moves `Published` to `sent`: a push of the
difference, which fits because `sent <= Freed + N`, or a stutter if it is zero. A read
that returns moves `received`, and what it got are the oldest numbers (`ReaderInv`): a
pop. A flush is a drop. Issuing the store of `writeIndex` moves `sent` but not
`Published` (`AdvanceKeepsPublished`), and all other steps leave both alone. Four lemmas
say how sequences of consecutive numbers are joined and cut.

`N` need not be a power of two in the proofs: the model writes `% N` where the code
has `& smallMask`, and the two agree for powers of two, which
`PaUtil_InitializeRingBuffer` insists on.

### WMME streams

For every set of configurations (any buffer counts, frames in a buffer, number of starts,
callback or blocking, with failing calls or without), any number of threads, any number of frames, under
`StreamSpec`, in which drivers, threads and application interleave:

* `StreamLife`: `[]OneThreadPerStream`.
* `StreamBuffers`: `[]BuffersGoRound`, that is types, ownership in the callback, ring order.
* `StreamFinish`: `[]FinishedMeansPlayed`.
* `BlockingInOrder`: `[]BlockingTransfers`, that is order of the frames in both directions, what a stop plays,
  ownership of the buffers, and no wait for frames that were available.

None has a hypothesis but the assumptions on the constants. `Pa_StopStream` waits
twice, the second time after setting `abortProcessing`, and when both waits time out it
returns `paTimedOut` but closes the handle and marks the stream stopped all the same, while the thread goes
on: a second start then makes a second thread, and `Pa_CloseStream` frees what the first one uses. The properties
say what is left: `OneThreadPerStream` speaks of the other threads (those not in `orphans`), also then; `BuffersGoRound` and
`FinishedMeansPlayed` claim something only until a thread is given up. `BlockingTransfers` has no
exception, as blocking streams have no thread (`BaseInv`).

So the invariant is in two parts. `BaseInv`, with types and `LifeInv`, holds always; `IInv` holds while `orphans` is empty. That
`orphans` only grows (`OrphansGrow`) makes the two together inductive.

`LifeInv` says what the three properties of the first theorem need to be
inductive: the thread that lives is the one of the handle, and the application is where it may be
while one lives (`Attended`). `QueueInv` and `OrderInv`: a queued buffer is queued once and is not done, and
the queue is the run of buffers before the current one. Counting with `%` is avoided by
`PreviousTo`, and `InOrderMeansRing` leads back to the `%` of the code. `HostInv` is what a
thread knows at each of its labels about the buffers it is going to touch: between its look at
`WHDR_DONE` and its use of the buffer, drivers finish other buffers, but a buffer that is done stays done
until the thread itself queues it. A catch-up is the hard case: `CatchUpInv` counts the
buffers ahead that are still done. `RoomInv` and `FinishInv` say in which buffers frames are left, and why
a thread stops. `UsedInv` and `CallInv` are about partly used buffers of blocking streams.

`BlockingInOrder` needs a second invariant on top of the first, `TransferData`, which follows the
frames while no call fails; drivers and calls cut them differently, so no property of `read` and `played`
alone is inductive.

* Input (`InputData`): the buffers from the current one up to the oldest queued one are ready, and hold, in ring
  order, the frames from the first one of the current buffer on; what was captured is what was
  read and what is left in them. That the oldest queued buffer comes right after the last that is ready (`OldestIsNext`)
  is where `OrderInv` comes in.
* Output (`PlayedInv`, `OutputData`): `Frame(p)` is the `p`-th frame the device is to play, silence for the `Lead` frames
  of the buffers that `StartStream` queues, then the frames written, then silence again. What was played, what
  is queued and what the current buffer has are successive parts of this sequence. `WrittenInv`: before a flush they
  are exactly what was written, after it at least that.
* The drain (`DrainInv`): buffers queued, waits taken and an event not yet taken together are at most one more
  than there are buffers. The driver trades a buffer for an event, two of which may merge, and a wait takes one;
  so `bufferCount + 1` waits are enough, and one less would not be (the mutant `OneWaitPerBuffer`).
* Covered calls (`CoverInv`), with failures as well: a call that asked for no more than `GetAvailableFrames` ends in one of
  the first `c` buffers, which are done, and `c` goes down with each buffer it uses up.

`PlayedParts` cuts what was played into silence, frames from 1 on, and silence.

### The front end

For any sequence of initialisers, whatever they deliver, any set of streams and any
failures of host APIs:

* `Listing`: `[]StreamsAndHostApisAreListed`.
* `DeviceIndexing`: `[]DevicesAreIndexed`, without hypothesis.

`IsOpenList(q)` introduces a sequence `q` that the linked list spells: `firstOpenStream`
is its first element, each `nextOpenStream` the next one. The invariant says there is one, and that it holds the
streams that are open and not lost. Adding and removing are then a prefix and a deletion (`ListAfterAdd`,
`ListAfterRemove`). `NodeIs`, that following the list `n` times arrives at `q[n+1]`, and
`FindIs`, that `FindHostApi` finds the host API whose range an index lies in, are about recursive functions and use
`SetInduction`. `DeviceInv` and `DefaultInv` hold half way through `Pa_Initialize`: the ranges of the host APIs
so far are adjacent and begin at 0, and the default host API is the first with a default device, or still -1.

`Listing` has the hypothesis `NoSpecificTypes`: streams are opened by device, not with
`paUseHostApiSpecificDeviceSpecification` and a host API type. `ValidateOpenStreamParameters` accepts a type
that no initialiser delivered, because the value it tests for is not the one
`Pa_HostApiTypeIdToHostApiIndex` returns, and indexes the table with a negative number; which host API the
stream then has cannot be said. Only `StreamHostApiIsInitialized` depends on it.

### The buffer processor

For host buffers of any size, fixed, bounded or unknown, blocks of any size or none, input,
output or both, any cut of the host's buffers in two (into multiples of a block where nothing is adapted), and
a callback that completes or aborts anywhere, `Gapless` is `Spec => []StreamsAreGapless`.

The property names the frames left in host and temporary buffers, but says nothing of an input stream whose
callback has ended, nor in which buffer frames are. The invariant does: `InputInv` says
that what arrived is what was heard followed by something, and this is, while the callback goes on, what is held back followed
by what is left in the host's buffers; `OutputInv` that what was played and what is held back is
what was generated, or all of it has been played and then zeros. `PhaseInv` ties each loop to its
configuration, and in full duplex without adaption input and output to one another. `BlockInv` keeps the parts
of host buffers multiples of a block; `HeldInv` bounds the temporary buffers by a block. `InputOn`, `OutputOn` and `ZerosOn`
say once how the sequences go on, and `InputTaken` and `OutputPut` what a cut buffer has
left. That the initial frames fit (`FrameShiftFits`) needs the least common multiple to exist.

`LatencyHolds` is `Spec => []LatencyIsConstantAndLeast` and `AllBuffersUsed` is `Spec => HostBuffersUsed`. The
two need one another, and the invariant `SInv` next to the one above. `BalanceInv` says that the frames on
their way, in the temporary buffers and in the rest of the host's input, are the latency and
the room left in the host's output; that what was heard is whole blocks; and, with fixed host buffers, that
what was supplied is whole host buffers. `RoomInv` says that output is held back only where there is no room for
it. So when no input is left and less than a block is held back, the room is what whole host buffers
and the latency leave modulo a block, too much. That this is never more than the
latency (`RemainderFits`) is why all the room is filled. `CalculateFrameShift` tries the multiples of the
host buffer up to the least common multiple; `ShiftIsGreatest` says that its result bounds
the remainders of all multiples, since they repeat after the least common multiple, and is one of
them. `ShiftIsLeast` turns this into the second part of the property: with one frame less, output runs dry within as
many host buffers as a block has frames. Both theorems have no hypothesis but the assumption on the constants. The exception
in `HostBuffersUsed`, a callback that aborts within `AdaptingProcess`, is the code's.

### The choice of host buffers

For every set of requests within `StreamParameters`, `SettingsAreRight` is `Spec => []BuffersFit`: any
latencies and user buffers up to `MaxFrames`, just below 2^31, so that no sum of two wraps in an unsigned long; up to
1024 channels, beyond which a host buffer has no room for 16 frames; the sample rates
`ValidateOpenStreamParameters` lets through; any low-level parameters `OpenStream` lets through. The run has a few hundred of them.

The invariant `StreamInv` is short: an open stream has the settings `CalculateBufferSettings` gave it. The
work is in what this computes. `ComputeHostBufferSizeGivenHardUpperLimit` is a loop, in the model a fold of 32
rounds. `LoopValues` says what a fold is with `FoldExists`, `OneDivision` that a round
divides by two or more unless the limit is met, and `TwiceTheRounds`, used five times, that 32 rounds
divide by 2^32, more than `MaxFrames`: the bound on the fold is none on the loop. That the result is an equal part of a user buffer with small factors needs
a bit of number theory: the loop gives up exactness only at a divisor of the user buffer without a factor up to 67, and
such a number divides `q * m` with `q` up to 64 only if it divides `m` (`Coprime`, from `Euclid`), and is then
not above the limit. `SelectionIsWellChosen` goes through the coalescing of user buffers: it
comes to zero, and the next call divides by zero, only where a user buffer is longer than a tenth of
a second and not split. `HowSettled` and `SettingsFit` are about the two directions together,
whichever way the comparison of addresses comes out. A size that was computed for the direction with
larger frames keeps the limit of the other as well (`MoreFramesAreSmaller`, `LowerLimit`); one that was computed for
the direction with smaller frames may break it, and the theorem says that this and low-level sizes are the only ways.

### What a stream acquires and gives back

`NothingIsLeftBehind` is `Spec => []OpeningIsClean`, for any numbers of devices and buffers, any acquisition that fails, and
any system. The inductive invariant `CleanInv` says what `OpeningIsClean` does not: an open stream has exactly what its
settings need, all of it marked in its fields, and its devices are devices of the host API that cannot
terminate before it is closed.

The proof meets in the middle. `Consistent` says what the clean-up needs: what is held is what is marked, and
what a thing rests on is held with it. `AllGivenBack` shows that `TerminateStream` gives back all of any consistent
state and misuses nothing: its loops, three deep, are folds, and each has a lemma that
says what is held after it has come down to device `i` or buffer `j` (`WithoutDevices`, `WithoutBuffers`, `WithoutOpened`).
`FailureGivesBack` adds the clean-up that `InitializeWaveHandles` and `InitializeWaveHeaders` do by themselves before, after
which that of `OpenStream` must find nothing to give back twice. From the other side, `CutsOfAcquisitions` shows that what was acquired
before the acquisition that failed, a cut of the sequence `Acquisitions`, is made of `Parts`: a prefix of the devices and of the headers of each
direction (`CutOfTwo` and `CutOfMany` split cuts of concatenations), and `PartsAreConsistent` that these are consistent.

### The host API

`HostApiStarts` is `Spec => []HostApiIsComplete`, for systems with any devices, and whichever call of
`PaUtil_AllocateMemory` fails. `HasGroup` says what a group and the number of allocated blocks have to do with
each other; `GroupAllocated` and `GroupCreated` keep it through every failure in `pa_allocation.c`, and `AllIsFreed` shows that
the error path of `PaWinMme_Initialize`, and `Terminate`, come to zero blocks from there. The loops over the devices
are two folds; `Lists(api, done)`, where `done` is how many devices of each direction were asked for, is what each
round keeps (`DeviceAdded`): the devices listed are the usable ones among those, they are in order and counted, and each default
is the preferred device if it has been met, else one that has. The invariant `HostInv` adds that a host API that has
not started has nothing. The property reads the resulting list, after the recommended devices have become defaults, as a whole.

### Symbol tables

For every finite set of threads and symbols, any hash function, 4, 8 or 16 initial buckets, and any scenarios (keys
asked for, removals or none, checksums or none): `Mapping` is `Spec => []TableIsAMapping`, `ImplementsMap` is
`Spec => ImplementsSymbolMap`.

The invariant `TableInv` is built from the bottom up. `Holds(buckets, symbols, n, k)`: the indices of the first `k` symbols
are in `n` buckets, each reached from its symbol's own bucket without passing an empty one, and no more than `k`
are taken. `PutHolds` is one round of `Rehash`, `RehashHolds` all of them; `SearchLemma` says where a
probe ends, which needs that it visits every bucket (`AllBucketsAreVisited`) and that one is empty
(`SomeBucketIsEmpty`, by counting). `HashOK` adds that the symbols are distinct and that there are enough buckets, which growing
in time ensures. `TableOK` says that `idxKey` and `keyMap` are inverse to each other outside the
dense range, shifted by its length, and that every key is below the next one. From it `KeyAt(t, i)`, the key of the `i`-th
symbol, follows, and all that is said of `Find`, `GetNthKey` and `Write`. `AddSymbolLemma`, `RemoveSymbolLemma` and `ReadLemma`
then say of each operation what it makes of `Written(t)`, the list of pairs. The hard ones are
`LeaveDenseLemma`, where a removal from the dense range moves the later dense keys to the containers, and `LeaveSparseLemma`.

`Pending` is about threads: between the test of the count of owners and the change of the copy other threads may act,
and the change must still fit (no key is given twice) the table it is going to be made of. It does because a
table somebody is about to copy changes only in its checksums: those who change in place are alone
(`MayMutate`), and `Replace` takes an implementation nobody uses, which exists because there are as many as threads
(`OneIsUnused`, by counting).

For the refinement, `OneHandleChanges` says that a change of one implementation shows in one handle. An addition is
`AddEntry` or invisible, a removal `RemoveEntry` or invisible, a reading of the text `Recall`, sharing `Copy`; `AddTable` is
`Merge`, for which two folds are compared step by step (`AddTableJoins`).

`CheckSums` is `Spec => []CheckSumsAgree`. Its invariant `CheckInv` is about the lock: a thread that computes
holds the mutex and the checksum is not finalized, one that reads has seen it finalized, and where no symbol is
removed a finalized checksum is that of the pairs now in the table. The labelled checksum stands for the lines
the digest is fed, in ascending order of their keys: two tables with the same pairs feed the same lines, whichever
containers hold them (`EqualPairsFeedTheSame`). The converse is not claimed: see section 6.
`Merges` is `Spec => []MergeKeepsKeys`: `MergeSymbolTable` is a fold over one table's symbols. `PlacedInv` says of each round
which keys are taken (`TakenKey`), which pairs of the right table have kept theirs (`WhatIsKept`) and whether relabeling was
asked for (`CommonSymbols`); of both tables it needs only `TableOK`.

### Caches of lazy machines

For every finite machine, any finite set of arc iterators, any units of size, any cache options (collecting or
not, any limit), and any copies: `Caching` is `Spec => []CacheIsSound`, that is types, what is cached is what would be
computed, what iterators hold stays, sizes are exact, the limit holds and the state requested stays. `Limits` is `Spec =>
WidensOnlyWhenInUse`. One assumption on a constant is more than its type: `kMinCacheLimit` is at least 2 (8096 in the
code), so that two thirds of a limit, the target of a collection, is never zero.

The invariant `CacheInv` is about the machine between two calls. `StoreOK` is the store: slot 0 belongs to the first
state while there is one and slot `s + 1` to state `s`, and no state has both; the list has each slot once if
the cache may collect; the size is that of the slots that are counted, those flagged "Init"; no arcs without
their flag. `Content` is what the slots mean: a final weight or arcs that are flagged are those of the node their state
was found as. `IteratorsOK`: the reference count of a slot is the number of iterators that point to it, and what they
point to has its arcs. `BaseOK` and `WalkOK` bound the book-keeping by the table of states.

Within a call less holds, and the lemmas follow the code through it. A slot is created before it is counted, and
has grown before its size is adjusted, and in between collection may run. `GotFirst` and `Follows` say what the first
cache leaves to the collector, in particular when it has just stopped reusing slot 0: then nothing has been counted
yet. `Moves` is what a request may change: states leave, but
none that an iterator holds, and not the state requested. Collection is two passes over the list and a loop that doubles
the limit; each is a fold whose rounds keep the size exact (`Sweeping`, `Doubling`). After two passes only the
state requested and those in use are left if the size is still above the target, which is `Limits`; that the model's
bound on the number of doublings suffices is part of the proof. Sizes are cardinalities: the size of one
slot comes out of the sum by counting its arcs as pairs.

A copy drops the references and builds its list in the order of the slots (`Listing`), which has to be the same set. The loop
of the state iterator opens and closes arc iterators of its own and is followed by a fold as well (`Walking`).

### What is only model-checked

All liveness properties, and termination of calls, are out of the prover's reach. Every safety property of the runs about PortAudio,
symbol tables and caches is proved, but `WalkVisitsAllStates` of the cache: it is false for a cache that has a limit
and does not collect (section 6), and for the others its proof would have to compare a walk with the fold that
computes the reachable states.
Everything about the other OpenFst modules is only checked. What a walk of a machine computes for every
input is induction over data with an operator as a parameter, which no installed prover can instantiate; for
folds there is the way around above, one step at a time.

## 6. Where the code and its documentation disagree

With a run that ends in a counterexample; `PROJECT.json` quotes the lines:

1. `AbortStream` resets the device before the thread has ended; a buffer written in
   between stays queued and is freed by `Pa_CloseStream` (`wmme_abort_race`).

Met while modelling, and part of the models, without a run of their own. In PortAudio:

* `StopStream` of WMME reports a stopped stream after two waits have timed out, with its
  thread running (`pa_win_wmme.c:3481-3490`; `portaudio.h:1008`), and `Pa_CloseStream` then frees memory the thread uses. The
  run of `wmme_stream` contains it; `OneThreadPerStream`, `BuffersGoRound` and `FinishedMeansPlayed` except
  it in so many words (`orphans`).
* With unequal host buffers, a stop drops a partly filled output buffer: the flush
  zeroes no frames (`pa_win_wmme.c:3119`).
* After `paComplete` the thread does not wait for the temporary output buffer to become empty: part of the
  last block is not played (`pa_win_wmme.c:3087`; `portaudio.h:958-960`).
* `ReadStream` stores `paInputOverflowed` and loses it with the next host buffer (`pa_win_wmme.c:3781`, `3888`).
* A user buffer longer than a tenth of a second and a latency of more than seven of them
  coalesce to zero user buffers, and the next call divides by zero (`pa_win_wmme.c:1511`, `1383`). `BuffersFit`
  makes this exception.
* The comment on the sizes of the two directions says "choose the smallest one"; the code compares the addresses
  of two locals, so it takes the larger or the smaller as the compiler placed them (`pa_win_wmme.c:1732`).
  The model takes either.
* In full duplex one direction gets the size computed for the other (`pa_win_wmme.c:1679-1690`, `1732-1745`), whose frames may be
  smaller. With one input and eight output channels and a user buffer of 16000, output buffers have 16000 frames or
  256000 bytes, although 32768 is "never exceed this, a hard limit" (`pa_win_wmme.c:1444`). `BuffersFit`
  allows such sizes, and the run of `wmme_open` contains them (`HardLimitIsKept`).
* For a full duplex stream the number of output buffers is computed from the number before, not from the
  size (`pa_win_wmme.c:1738`).
* The last `Pa_Terminate` returns `paNoError` with a stream still open if its Abort
  fails (`pa_front.c:1392`; `portaudio.h`). `lost` stands for these streams.
* A host-API-specific device specification of an unknown type passes validation: an error code is
  compared with -1 and used as an index (`pa_front.c:908`).
* `AdaptingProcess` reads a frame count nobody has set when a full duplex stream is primed (`pa_process.c:1305`).

In OpenFst:

* `RemoveSymbol` does not reset the checksums, which its header's comments rely on
  (`symbol-table.cc:225`, `symbol-table.h`). `CheckSumsAgree` says of tables
  that nothing was removed from that the checksum is theirs.
* The labelled checksum is fed `symbol<tab>key` without anything between one entry and the next
  (`symbol-table.cc:145-158`), and `CheckSummer` folds the bytes into a few by XOR (`compat.h:108-113`). The tables with
  `a` 1, `2b` 13 and with `a` 12, `b` 13 feed the same bytes, so `CompatSymbols` may take different tables
  for compatible. The model keeps the lines apart; `CheckSumsAgree` therefore claims only that equal tables are taken for equal.
* "The returned symbol table will never modify symbol assignments from the left side"
  (`symbol-table-ops.h:47-48`), but where the right table has all symbols of the left one it is returned as it is, and left
  symbols take the keys it gives them (`symbol-table-ops.cc:33-36`). The flag then asks to relabel the right machine, whose
  keys are the ones that stayed. `MergeKeepsKeys` says when left keys stay and when they do not.
* The flag "will be assigned true if the symbols from the right table needed to be reassigned"
  (`symbol-table-ops.h:48-50`), but not for symbols that were given new keys because the left table uses theirs
  (`symbol-table-ops.cc:47-59`). `MergeKeepsKeys` says for which symbols it is set.
* `Union` gives a machine that has states but no start state the start of the other
  one without shifting it (`union.h:68`). The operations are called on machines with a start.
* A walk over a lazy machine whose cache has a small limit but does not collect
  revisits or misses states (`cache.h:1085`). The model has no such walk.
* `Prune` in place skips the heap's `Update` once the limit on states is reached, and the copying
  one then drops arcs between states it already has (`prune.h`). Properties of pruning speak of
  runs without that limit.
* A heap told of no changes, as in the queue of components, may be out of order; distances are right all the
  same, a state is just taken more often.
* `TopOrderVisitor::BackArc` ends the visit (`topsort.h`); the order is unused then.
* `BinarySearch` of the sorted matcher is said to find the rightmost of equal labels and finds the
  leftmost, which the iteration needs (`matcher.h:347`).
* `PhiMatcher::Properties` writes `outprops &= ~kEpsilons | ~kIEpsilons | ~kOEpsilons`, which
  clears nothing (`matcher.h:803`, `817`).
* A failure label 0 is meant to leave a machine without epsilons (`matcher.h:757`), but the match and
  alt-sequence filters still count the failure arcs as epsilons and hold back epsilons of the first machine that
  are never offered again (`compose-filter.h:396`). The model composes such machines with the sequence filter.
* A failure arc that loops, with `phi_loop` off, or a cycle of failure arcs makes `PhiMatcher::Find` run
  for ever (`matcher.h:775`). `FailuresEndAssumption`, which TLC checks, says that no scenario composes such a machine:
  with loops of failure arcs only matchers with `phi_loop` on are checked.
* `RhoMatcher::Priority` looks for its label even if that is `kNoLabel`, and so finds epsilons: a matcher for
  which "this special matching is not done" (`matcher.h:842`) then insists on matching (`matcher.h:961`).
* `DifferenceFst` made with options ignores the filter they name (`difference.h:104` copies the cache options
  only), so that `Difference` uses the sequence filter whatever it is told.
* `difference.h:41` asks for one sorted argument; the complement is always matched on, so it has to be
  the second (`ClaimsAreTrue` says which sides must be).

## 7. What is not modelled

Converters and dither, the CPU load measurer, logging, wave formats and time are
arithmetic or input and output without control that other parts depend on. COM
initialisation is used by no host API here.

Of OpenFst: lazy variants of the other modelled operations, look-ahead composition, determinization, minimization, replacement,
encoding, synchronisation, random paths, pushdown transducers and the other extensions;
compact and constant machines, which store without changing; registers, scripts, files and flags. They
are vendored templates, and each is a project of its own. Semirings other than the tropical one differ
in arithmetic, not in control.

tiny-dnn's training is floating-point arithmetic; cereal and Lua are third-party,
Lua without sources. `sag` and `aj_dllgen.cpp` call the Windows shell and
write a script.
