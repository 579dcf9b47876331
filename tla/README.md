# Oryx in TLA+

A verification project for Oryx, which runs x86-64 guest code on AArch64 under
an exact x86 memory model. TLA+ modules model the parts of the system whose
correctness does not show in a unit test, TLC checks them on small instances,
and TLAPS proves the most important properties for every size.

Paths below are relative to the repository; `src/liboryxrun/oryxrun.c` is the
file of that name in the repository's own `src` directory.

## 1. Inventory

| Part | State it keeps | Operations | What makes it correct |
|---|---|---|---|
| `kmod/oryx_memmodel`: driver that sets the core's memory-ordering control bit for threads that asked for it | per core: the bit; per fd: `enabled`, a preempt notifier; module parameters | open, `ENABLE_TSO`, `DISABLE`, `QUERY`, release; notifier callbacks `sched_in`, `sched_out` | a thread that relies on the bit runs with the bit set; nobody else pays for it; no notifier outlives its grant |
| `liboryxmm`: its client | the fd | open, enable, disable, query | software ordering stays on unless the driver said yes |
| `liboryxcache`: content-addressed store of translated units | `blobs/<address>`, `index/<key>` on disk | put, get, resolve, verify; serialize and parse | crash-safe publication; nothing unverified is handed out |
| `liboryxtu`: translator | none | `oryx_translate_ex`, `hash_block` | the emitted accesses allow only x86-TSO outcomes; key determines code |
| `liboryxdec`: x86 decoder | none | decode a block, fetch callback | lengths, targets, refusal of what it does not know |
| `liboryxrun`: dispatcher, linker, block cache | hash table, executable mappings, guest registers | `oryx_run_program`, `oryx_exec_map_linked`, `oryx_run` | the guest's control flow, bounded executable memory, termination |
| `liboryxmap`: memory-class map | map structs; blobs in the cache | classify, serialize/parse, `cache_put`/`cache_get`, lookup, decide | an access is never relaxed on doubt |
| `liboryxprofile`: tuning profiles, and `tools/oryx-run.sh`, which launches a game with the best one | profile set; the exported environment | parse, load a directory, score, resolve, apply | the best compatible profile in whatever order files are read; the guest's memory model survives the way into the environment |
| `experiments/phase0-tso-probe/litmus`: the litmus detector | shared locations, gate and done counters | one round of MP, SB or WRC at a time | rounds do not mix; a mapping is not blamed for what the harness or the machine did |
| `sha256`, other command line tools, control-bit probe, perf probe | none of their own | | |

**Interactions.** The emulator asks `liboryxmm` for hardware ordering, thread by
thread; the driver follows the thread through the kernel's preempt notifiers.
The launcher decides by a profile whether the emulator asks at all.
The dispatcher calls the fetch callback (decoder), the translator, the linker
and the trampoline for each guest block. The translator takes a class
per access, which a class map may supply; class maps and units travel through
the cache, which several threads and processes share.

**What is hard.** Preemption and migration between two statements of the driver;
affinity changed by someone else; threads that exit. Several writers, killed
processes, short writes and power loss in the store. Collisions, wrap-around and
wholesale flushes in the block cache, failures half way through a program.
Reordering of the emitted code on a weakly ordered machine, and of the detector that
measures it. Directories read in any order, files cut or refused, calls that fail. Byte streams that end
anywhere, immediates at the edge of a field, registers that alias. Maps that are stale,
damaged or someone else's. Cores beyond the width of a mask, images at the top of the
address space, settings a shell takes apart. `PROJECT.json` lists each hazard at its line.

## 2. Modules

| Module | Models | Proofs | Instance |
|---|---|---|---|
| `Grants` | abstract: what the driver promises its clients | | |
| `MemModel` | driver and client; implements `Grants` | `MemModelProofs` | `MCMemModel` |
| `CacheStore` | the store on its file system | `CacheStoreProofs` | `MCCacheStore` |
| `GuestProgram` | abstract: what `oryx_run_program` promises | | |
| `Dispatcher` | `oryx_run_program`, cache, linker; implements `GuestProgram` | `DispatcherProofs` | `MCDispatcher` |
| `Words` | scaled machine words, the guest IR record | | |
| `Decoder` | `oryx_x86_decode_block` | `TranslationProofs` | |
| `Translator` | `oryx_translate_ex`, keys, stored form, linker | `TranslationProofs` | |
| `Units` | composes `Decoder` and `Translator`: from a block to its stored unit | `TranslationProofs` | |
| `Machines` | external: the x86-64 and AArch64 instructions | | |
| `Pipeline` | composes `Units` and `Machines`: the last unit is linked and run | | `MCPipeline` |
| `AArch64` | external: which accesses of a thread stay in order | | |
| `Lowering` | memory-model lowering of `oryx_translate_ex`, run on a weak machine | `LoweringProofs` | `MCLowering` |
| `Litmus` | the litmus detector on a weak machine | `LitmusProofs` | `MCLitmus` |
| `ClassMap` | `liboryxmap` | `ClassMapProofs` | `MCClassMap` |
| `Ranking` | score and compatibility of profiles | | |
| `Choice` | abstract: what `oryx_profile_resolve` promises | | |
| `Profile` | `liboryxprofile` under the `env` command; implements `Choice` | `LaunchProofs` | |
| `Launch` | composes `Profile`, the launcher, emulator threads with `liboryxmm`, and `Grants` | `LaunchProofs` | `MCLaunch` |

Definitions named `Mut...` are plausible bugs. Each stands before the definition
it would replace, and no specification uses them; they show that every property
can fail (`mutants` in `PROJECT.json`).

### MemModel

`bit[c]` is the control bit of core `c`; `opened`, `enabled`, `linked` are the
grants that exist, have `g->enabled`, have their notifier registered. Outside
`preempt_disable()` the scheduler can take the core away between any two
statements, so `oryx_enable` is the actions `Enable`, `SetMask`, `Register`,
`SetEnabled`, `EnableApply`, and `oryx_disable` is `Disable`, `Unregister`,
`DisableApply` (called by `DISABLE` or by release, which then frees the grant).
`SchedIn`, `SchedOut`, `Confine`, `SetAffinity` and `Exit` are the kernel's;
the first two run the driver's callbacks for a linked notifier. `order[t]` says
whether the emulator of `t` still orders accesses in software; it changes to
hardware only when the ioctl has returned 0. One fd per thread, used by that
thread only, is the ABI header's rule and is assumed. `Pinned` are the threads
whose affinity nobody changes under a grant, `Closers` those that close their
fd before they exit; the run has threads of both kinds and of neither.
`stray` is a history variable.

`mod` holds the module parameters and, in `mod.named`, the cores that `oryx_eligible`
has a bit for (numbered below `BITS_PER_LONG`): any set of cores, chosen when the
machine starts. `oryx_core_eligible` is false for all others, and the all-ones mask is
`mod.named`. A limited mask confines a thread to the cores it names; the all-ones mask
confines nobody, which is the case `GuestRunsOrdered` excepts. Assumed of the kernel: the
callbacks of a registered notifier run. The driver never calls
`preempt_notifier_inc()`, so on a kernel that guards them with a static key someone
else must have turned it on.

`Grants` is the driver without cores: an fd is opened, a grant comes, is relied on,
is returned, the fd is closed. `ImplementsGrants` maps `opened`, `enabled` and
`order` to it, so the statements of an ioctl, the scheduler and affinity are steps
a client cannot see. `Launch` is built on `Grants` and inherits that.

### CacheStore

Names refer to inodes, and descriptors keep their inode across rename, unlink
and another writer's `O_TRUNC`. `write_atomic` is `OpenTmp`, `Write` (once per
chunk: writes may be short), `Sync`, `Rename`, each of which may fail as the
code allows; `put_blob` is `PutBlob`, `CheckBlob` and two rounds of
`write_atomic`, for the blob and for the index. `read_file` is `OpenRead` (where
`fstat` takes the length) and the reading step `Resolve` or `ReadBlob`.
`oryx_cache_verify` is `get_blob` without the bytes. A payload
stands for the bytes of a serialized unit and, SHA-256 taken as collision-free,
for its own address. Faults: `Kill`, `PowerLoss` (content that was not synced is
lost, directory entries are committed in any order, one by one: `Commit`), `Rot`
(the bytes of a file change: an altered blob no longer hashes to its address; an index
entry, which has no hash, becomes illegible or the address of another blob, and the
history variable `forged` remembers which).
`Settings` are the circumstances a behaviour may have, fixed in `env` when it
starts: which workers share a process, whether power may fail, whether bytes on
disk may change. `Undisturbed` says that every worker is a process of its own and
no byte changes; the promises about blobs and index entries are made for it. `stored`
are the keys whose put returned `ORYX_OK` since the last power loss: nothing syncs the
directories, so a put says nothing about what is there after one.

### GuestProgram and Dispatcher

`GuestProgram` is the promise of `oryxrun.h`: run the blocks one by one, each
successor decided by the guest's code and flags, up to HALT, the step limit or a
refusal. It has no cache, no mapping and no linker. `Dispatcher` has one action
per part of the loop: `Start` (calloc), `LoopExit`, `StepGuard`, `Lookup`,
`Fetch`, `Map`, `Insert` (with the flush at the cap), `Run`, `Cleanup`. The
translator's part is what the dispatcher sees of a unit: relocations and exits of
the terminator. Linking turns them into exit stubs, `NextPc` is what a stub
leaves in x17. The hash is an arbitrary function of the guest PC, `mmap` returns
any free address. Guest data is abstract: a block that sets the flags leaves
either value in them, a guest RET pops any address. `Run` does not carry flags
from one block to the next, because the trampoline does not.
`entry_pc = ORYX_HALT_PC` is not modelled (the loop is then not entered).

### Decoder, Translator, Units, Machines, Pipeline

`Decoder` is the loop of `oryx_x86_decode_block`, one action per case of its
switch. Opcodes, prefixes and ModRM are real bytes. The bytes of numbers are
digits of a scaled word (`Radix` values instead of 256), so that an 8-bit, a 32-bit
and a 64-bit range, sign extension and wrap-around exist at a size TLC can
enumerate. `seen` is a history variable: how far the image may have been read.

`Translator` is the loop of `oryx_translate_ex`, one op per step. A host
instruction is a record of mnemonic and fields whose immediate is cut to its field
as the encoders cut it. `hash_block` keeps what the code hashes, with SHA-256 taken
as collision-free. A stored unit is a header with counts and a sequence of 32-bit
cells, which `oryx_tu_parse` takes apart by its own arithmetic (`ReadBack`). The
linker's tests (`Accepted`), stubs and patching follow.

`Units` decodes, translates, stores and parses the inputs of a job one after the other,
and remembers the units made with their keys (`made`). Some inputs are IR that the decoder
never produces (loads, stores, atomics, fences, `SETCC`) and that other front ends hand to
the translator. It is a module of its own because theorems about it must not reach the
bitwise operators of `Machines`; `Pipeline` extends it and leaves its variables alone
while it links and runs.

`Machines` says what the instructions on both sides do. No carry flag is needed: the
decoder refuses the conditions that test it. `LOCK ADD` and `LOCK CMPXCHG` set the flags
on x86 and their translations do not: `RunsBlock` excepts what depends on flags last set
by one of them (`AtomicFlags`). `Translatable` is what
the cases of the decoder's switch accept, which is not what its header lists (section 5);
`ReturnCodes` is stated with it. `Pipeline` links and runs the last unit, and
compares the result with the x86 machine (`RunsBlock`). At the
entry of a block the flags are taken to be the guest's; what happens to them between
blocks is in `Dispatcher`. `RunAlone` is `oryx_run`, which maps a straight-line unit as
it is (`Straight`) in place of linking it. Alignment and access faults are not modelled.

### Lowering

A guest program is a sequence of loads, stores, stack accesses, atomics and
fences per thread. `Lower` gives the instructions and barriers that
`oryx_translate_ex` emits for an op under a policy and a strength. They run on an
operational AArch64 (external): the accesses of a thread are performed in any
order that barriers, acquire/release, and per-location coherence allow, on one
memory, with store forwarding. No address or data dependency orders anything, so
whatever order is kept is kept by what the translator emits. A failing `CASAL`
has no release, an atomic that writes XZR has no acquire. Complete executions
are compared with x86-TSO, stated axiomatically (per-location coherence, and
acyclicity of preserved program order, external reads-from, from-reads and
coherence). A relation is acyclic when every nonempty set of events has one without
a successor in the set.

`Disciplined` says what is asked of a guest program and its classification: an access
that is left plain (a stack access, or a LOCAL one under DRF) is to an address no other
thread accesses; `ATOMIC_ADD` is used at SC strength only and `ATOMIC_CAS` at SC or
RCPC. `MCLowering` asserts it of the programs of the passing run; the violated run and
section 5 show that each clause is needed.

### ClassMap

Producers put maps under identities (module hash, analyzer, ISA: the logical
key); `oryx_mmap_cache_get` resolves, verifies, parses and compares the identity;
`oryx_mmap_lookup` is modelled iteration by iteration (`GoUp`, `GoDown`, `Hit`,
`Miss`), and `oryx_mmap_decide` gives the ordering. The classifier's ids wrap with
the address space, and blocks of one module share a key. Other producers ship
anything, except that they claim "LOCAL, no guard" only for what they proved:
the obligation the header puts on them. Stored blobs can be damaged and an index
entry can come to name another blob. The translator keeps no map after a failed
get. The byte layout is reduced to "well formed or not".

### Ranking, Choice, Profile, Launch

`Profile` is the `env` command: `LoadFile` takes the files in the order `readdir`
happens to return them, any of them can fail to open or to be added, one longer
than the read buffer is cut (`Read`), within a line too: of a word any beginning may be
left (`Beginnings`), also one the parser knows, and of a number its first digits. `ResolveItem` is one iteration of
`oryx_profile_resolve`. A file is a sequence of lines, in which the last one for a
key decides. The score is a double in the code; here it is the exact fraction, so
ties are ties of the formula and rounding is not modelled. `Choice` knows neither
files nor order: a pool grows, then one of its best is chosen.

`Launch` evaluates the export lines, execs the emulator and runs its threads
through `oryx_mm_thread_tso_on` and `oryx_mm_close`, as `oryxmm_demo.c` does.
Every call can fail. That the emulator asks if and only if `ORYX_MM_TSO` is 1 is
what `profile.h` says of it, and external; so is that FEX, told `FEX_TSOENABLED=0`,
orders nothing in software in any thread. Box64 under a hardware profile gets no knob, and
its own default is outside the model. Without a profile the environment stays
empty and the game is launched untuned.

`turnip_build`, `resolution` and `fsr_mode` are exported without quotes and evaluated
behind the variables that decide about ordering; `resolution` stands for the three.
`Behind[w]` is what the shell makes of the part of a word behind its first blank: further
assignments, or a failure, which ends the script (`set -e`).

### Litmus

A round of each thread, and of main, is a sequence of instructions, taken from the
code under the selected mapping; `<<t, i, k>>` is instruction `k` of actor `t` in round
`i`. An actor performs its accesses, of one round or of several, in any order that
barriers, acquire and release, per-location coherence and data dependencies leave open
(`AArch64`); a relaxed C atomic is `LDR` or `STR`,
an acquire `LDAR`, a release `STLR`. A spinning `wait_gate` is the load that ends
it. Each value in memory carries the round that wrote it, which is how `RoundsApart`
tells a reordering within a round from a round that leaked into another. A thread the
kernel put into TSO mode keeps every order except store before load.

## 3. Runs

| Run | Shows | Bounds |
|---|---|---|
| `memmodel` | `GuestRunsOrdered`, `LeaksOnlyMidDisable`, `NotifierLifetime`, `IneligibleStaysWeak`, `ImplementsGrants` | 3 threads, 2 cores, every value of the module parameters and of the cores a mask can name |
| `cache_store` | `OwnBlobsWhole`, `StoredKeysResolve`, `GetReturnsPut` | 2 workers, 2 keys, 2 payloads, 3 calls; two processes with power loss or with altered files, or two threads of one |
| `cache_shared_pid` (violated) | `BlobsWhole` fails when two threads share a temporary name | |
| `dispatcher` | `CacheExact`, `MappingsOwned`, `InsertSucceeds`, `RunsGuest`, `Terminates` | 4 PCs, 3 slots, cap 2, 5 steps, all hash functions, 6 programs |
| `dispatcher_flags` (violated) | `RunsGuest` fails for a conditional branch that tests flags of an earlier block | |
| `lowering` | `TSOConsistent`, `SequentiallyConsistent` | all programs of the shapes below |
| `lowering_lock` (violated) | `TSOConsistent` fails: `LOCK ADD` at RCPC or TSO strength | |
| `classmap` | `LookupExact`, `RelaxJustified`, `LookupEnds` | 2 modules, 8 addresses, up to 5 entries, 2 puts |
| `pipeline` | `InBounds`, `ReturnCodes`, `RunsBlock`, `Linkable`, `KeyFixesCode`, `ReadBack` | 1321 jobs of one or two blocks, 25 machine states each |
| `pipeline_rsp` (violated) | `RunsBlock` fails for `PUSH RSP` and `POP RSP` | |
| `launch` | `ChoosesBest`, `OrderingExported`, `FailsClosed` | every directory of at most 3 of 13 files, device with and without hardware TSO, 2 threads |
| `litmus` | `RoundsApart`, `NoFalseWitness`, `Finishes` | 2 rounds, every test, mapping and mode; requests for MP and SB |

**Why the bounds are enough.**
*memmodel*: a leak needs one thread that leaves its core and another that comes
to it; the third thread makes it possible that a core is taken in between, and a
second core that a thread resumes elsewhere. Two cores are
enough for one that a mask can name and one that it cannot.
*cache*: the interesting orders are between two writers of one blob or of one
key, and between a writer and a reader. Two chunks are the fewest for which a
file can be torn, three calls let a writer fail, another finish and a third read;
an altered index entry needs a second key to take a unit from: two puts and a get.
Four inodes per file are more than the names and descriptors two workers
can hold. `View` forgets the content of inodes nothing refers to (`O_TRUNC` comes
before any use) and old return codes; the payloads are symmetric.
*dispatcher*: four PCs in three slots with a cap of two give collisions,
wrap-around, flushes, and a block translated again after a flush, within five
steps. Rotating the table permutes behaviours, so the first PC may hash to slot 0.
*lowering*: two threads with two accesses each, and optionally a fence or a third
access in the first, contain all the classical two-thread tests (MP, SB, LB, S, R,
2+2W, coherence); the four-thread shapes contain WRC and IRIW; further programs
put a thread-local access of every kind, or a locked instruction (both kinds at SC
strength, `ATOMIC_CAS` at RCPC), between two shared ones. Programs that differ only by exchanging the two addresses are checked once.
*classmap*: five entries give every shape of the last interval of the search;
two puts let one key's entry name the other's blob.
*pipeline*: a byte of a number has 4 values, an A64 immediate 8, a stack slot is 2
bytes wide, so imm8, the immediate field, a 16-bit lane, imm32 and the word keep
their order of size and each has values on both sides of its edge. Registers are
taken from RAX, RSP and R9, with and without REX bit, in every combination, and the
base registers whose low bits mean SIB or RIP-relative. Values of the operands are 0,
1, the largest, the smallest and -1. Images are cut at every byte, and two end at the last
address and one before it; blocks have
fewer ops than the cap, as many, and more. A failed allocation in the translator can
happen at every op.
*launch*: of three files one can be the best, one tie with it and one be unusable; the
thirteen include three with the same score, a memory model at the cut and one of which
the cut leaves `hw_tso`, an unknown one, settings with a blank, a key given twice, a missing device class, another game, a `sample_count` that wraps
and a score below -1. `TextCap` (9 lines) stands for the 4095 bytes of the buffer and
`UintMod` (40) for 2^32.
*litmus*: whatever leaks from a round leaks into a neighbouring one, so two are enough.
`fenced` has an effect on the plain mapping only and a grant on plain accesses only, so
other combinations are left out. WRC runs without requests, for the size of its
state space.

`TypeOK` is checked in the state machines that declare one, each with the bounds
that matter in it (`live <= CAP`, the search interval within the map).

**Fairness.** Three specifications state any. `Dispatcher` has weak fairness on
its whole next-state relation, `ClassMap` on the steps of the search: in both a
single thread runs a loop and the claim is that the loop ends, not that anyone
schedules it. `GuestProgram` has weak fairness too, so `RunsGuest` says that the
guest makes progress as well. `Litmus` has weak fairness for main and for each worker:
the operating system goes on running every runnable thread, and a store becomes
visible at last. No thread waits for another but by spinning.

**Deadlock** is not checked where the system may stop: when the program has
returned, the calls are used up, or all threads have exited. `classmap` checks it.

## 4. What is proved

TLAPS checks the proofs for every value of the constants allowed by the named
assumptions, which only say that constants have their type (`ConstAssumption`,
`DispatcherAssumption`, `ProgramAssumption`, `ClassMapAssumption`,
`WordsAssumption`, `DecoderAssumption`, `TranslatorAssumption`, `ProfileAssumption`,
`LaunchAssumption`, `StoreAssumption`, `LitmusAssumption`, `LoweringAssumption`). TLC evaluates
the same assumptions in the runs. What a theorem asks beyond them is part of its
statement.

**MemModelProofs** (any threads, any cores). The properties are not inductive.
`IInv` adds: a core runs one thread; a thread runs only where its affinity allows;
an enabled grant is open and linked except at the named points of enable and
disable; a pinned thread with a grant is confined to eligible cores when the mask
is limited; and the bit is set under an enabled running thread on an eligible core
that is past its first apply. That last part is why `sched_in` and the immediate
apply in `oryx_enable` are both needed. A confined thread runs on eligible cores, an
unconfined one on any, and there the mask's width decides: hence the exception of
`GuestRunsOrdered`, which is part of the theorem. Each action has a lemma with a step per
conjunct. Results: `Typing`, `GuestOrdered`, `LeakSource`, `EligibleOnly`,
`NotifiersLive`, and `Implements`: every step is a step of `Grants` or invisible to
it. For that `IInv` says that a thread inside `oryx_disable` has no grant left and
one that relies on the hardware has one.

**DispatcherProofs** (any table size, cap, hash function, program). The core is
that every used slot is reachable from its home slot through used slots, that no
PC is in two slots and that no two slots share a mapping; insertion keeps it
because it takes the first free slot of a probe sequence, and the flush keeps it
because it empties the whole table. Results: `Typing`, `CacheCorrect`,
`NoMappingLost`, `AlwaysRoom` (`InsertSucceeds`: `live` counts the used slots, so below
the cap one is free, a probe sequence reaches every slot, and the first free one on it is
claimed; the code's refusal of a full table is never taken), and `Refinement`: every step of the dispatcher is a step of
`GuestProgram` or leaves its variables alone, for programs in which every
conditional branch tests flags set in its own block. That
hypothesis is part of the theorem; `dispatcher_flags` shows it is needed.

**ClassMapProofs** (any modules, maps, identities, lengths). The inductive
invariant says that what the store holds is honest about its own module, that the
map in use is sorted and about the requested module, and that entries below `lo`
are too small and those from `hi` on too large. Results: `Typing`,
`SearchCorrect`, `NeverOnDoubt`.

**TranslationProofs**, the decoder (any image, any PC, any cap). `InBounds` alone is not inductive: a
step reads from its cursor on. The invariant adds that the cursor lies within the
image while the loop runs and that offsets are natural numbers; with it every case of the switch needs only its own bounds tests. A lemma says where
`decode_modrm` leaves the cursor, and one per action does the rest. Result:
`StaysInBounds`.

**TranslationProofs**, the translator (any ops, policy, strength). The invariant relates the
translated prefix to the unit: before a terminator there are no relocations and no
exits; after one the code is not empty and either there is one relocation at the last
instruction with an exit, or none and the code ends in RET. Result: `AlwaysLinkable`.

**TranslationProofs**, the stored form (any block). `oryx_tu_serialize` joins three
sections, and the lemmas say at which cell the n-th relocation and the n-th exit begin
(`Quads`, `Pairs`) and that they are found there behind the sections before them
(`FourthsBehind`, `SecondsBehind`); a 64-bit number is what its two halves say (`Halves`).
The invariant only has to add that targets and offsets are numbers. Result:
`StoredUnchanged` (`ReadBack`).

**TranslationProofs**, the key (any jobs). `Halfway` says that the code so far is that of
the ops so far, `Traced` that every unit made is a finished translation of a block with its
key. Two blocks with one key have as many ops, and `Emitted` looks at nothing of an op or a
block that `hash_block` leaves out (`SameEmitted`); if their codes differed, there would
be a first op behind which they do (`SameCode`). The theorem is about `UnitsSpec`, whose
variables no other action of `Pipeline` changes. Result: `KeyIdentifiesCode`
(`KeyFixesCode`).

**LaunchProofs**, the profile engine (any directory, request and read order). The invariant says what the
loop knows after `i` items: `best` is 0 and no item so far is a candidate, or it is
eligible, above the floor, `best_score` is its score, and no earlier candidate beats
it by score or, at the same score, by samples. That comparisons of fractions
are transitive is a chain of lemmas on products of integers with positive
denominators. Results: `Typing`, `Implements` (`ChoosesBest`).

**LaunchProofs**, the launch (any number of threads, any directory). `ThreadInv` ties the state of
a thread to what it holds: an fd in the states between open and close, a grant in
"enabled" and "hard". `EngineInv` follows a profile that wants the hardware from the line of a
file, through cutting and parsing, into the set and out of `resolve`; `EnvInv` says that
the environment is empty or what the evaluation makes of that profile's exports. For
`ClosedOnFailure` it is needed too: FEX's switch is 0 only by the profile itself, or by a
setting of it that assigns the switch (`TurnsOff`). `ExportedOrdering` follows the chosen
profile to its own file, and through a cut that leaves the letters `hw_tso`. Results: `ClosedOnFailure` (`FailsClosed`),
`ExportedOrdering` (`OrderingExported`).

**LoweringProofs** (any number of threads, addresses and accesses, any disciplined
program, both policies, every strength). The argument goes along the order in which the
machine performs the accesses. `IInv` says: what had to be performed before a performed
access was (`Closed`); memory holds the youngest write of its location (`Youngest`), a
read took its value from there or from an own store that is still pending (`Sources`),
and an atomic wrote directly behind what it read (`Atomic`); two accesses of one thread
to one location are in the order of the ages of the values they wrote or read, where a
pending store is younger than any performed one (`Coherent`: this is what store
forwarding can break); and the ordered accesses performed so far have a last element in
every set of them, in TSO's order and at SC strength in program order (`ForwardTso`,
`ForwardSc`). A new ordered access has no edge to an old one: lemmas on `Lower` say what
each strength keeps in order (`StrongOrder`, `ScOrder`, `FenceOrders`), and a locked
instruction in between is itself performed in between. In a complete execution each
location is coherent because every edge leads to a younger value or to a read of the same
one; and plain accesses, whose addresses are private, only have edges along program
order, which a cycle can bypass (`Bypass`). Results: `LoweringIsTSO` (`TSOConsistent`),
`ScStrengthIsSC` (`SequentiallyConsistent`).

**CacheStoreProofs** (any workers, keys, payloads, number of calls and settings).
`GetReturnsPut` holds in every setting, since a get verifies what it read: the invariant
says that bytes are of some payload that was put, or of one an altered index entry
names, and ties the state of a call to its inode. The re-hash of a blob is what the proof
rests on; it says nothing of the index, and so the theorem allows what `forged` holds. The other two are promises for undisturbed settings, and for those the
invariant adds: a temporary name is written by the worker that owns it and nobody else's
descriptor reaches its inode (`WriterOwns`); an inode under a final name is whole
(`FinalWhole`) and what is committed of it is synced (`DiskWhole`); a blob is on disk
before the index names it (`BlobFirst`); a key whose put returned `ORYX_OK` has an index
entry (`StoredNamed`). Results: `Typing`, `WritesAtomic` (`OwnBlobsWhole`), `PutsResolve`
(`StoredKeysResolve`), `NothingForeign` (`GetReturnsPut`).

**LitmusProofs** (any number of rounds, every test, mapping, mode and grant). The
invariant says that what must precede a performed access was performed (`Closed`), that a
gate shows a round only after it was signalled (`GateSignalled`), that nobody passes it
earlier (`Handshake`), and that x, y and the results hold values of their round from the
write that begins it to the one that ends it (`DataFresh`, `ResultFresh`). It rests on
the chain reset, open, start, body, end, join within a round, whose every link is an
acquire, a release or a gate. Results: `Invariance`, `NothingLeftOver` (`RoundsApart`).

The verdicts need the values too. `VInv` adds: between two resets x (or y) is 1 exactly
when the round's worker has stored to it (`DataValue`); a worker that took 1 took it from
a performed store of its round (`Seen`); a result location holds what its worker loaded,
and main's registers hold the same (`ResultValue`, `Fetched`); a granted thread has the
stronger order and main's count is the number of granted threads of MP (`Granted`). Where
a mapping, a fence or TSO mode keeps the two data accesses of each worker in order
(`Obeyed`, from the shape of each thread's program), the registers of a round never show
the outcome (`Outcome`): in SB, say, the worker whose load comes last loads behind the
other's store. Results: `RoundValues`, `NoFalseVerdict` (`NoFalseWitness`).

**Only model-checked.** Liveness (`Terminates`, `LookupEnds`, `Finishes`, the fairness half of
`RunsGuest`), which is beyond the prover. Of the pipeline `RunsBlock` and `ReturnCodes`: what a block of
any length does is an induction over data, and the bitwise operators of `Machines` are
outside the provers' reach.

## 5. Where code and words differ

Checked by the violated runs, and quoted in `PROJECT.json`:
1. two threads of one process share a temporary file and can publish a torn blob;
2. a conditional branch at the start of a block tests the dispatcher's own flags;
3. `LOCK ADD` is `LDADDAL` into XZR, which has no acquire;
4. `PUSH RSP` stores the pointer after the decrement and `POP RSP` adds 8 to the
   value it popped.

Excepted, in so many words, from a property that holds otherwise. The exceptions are
exact: with any one of them dropped, the run of the property fails.
5. With `oryx_eligible` at its default, `ENABLE_TSO` returns 0 and the bit is never set on
   a core numbered `BITS_PER_LONG` or more (`oryx_memmodel.c` line 90), where `oryxmm.h`
   line 29 has "Enable hardware TSO for the CALLING thread. 0 on success"
   (`GuestRunsOrdered`).
6. An index entry altered into the address of another blob makes `get_tu` return the
   unit of another key (`oryxcache.c` line 373), where `oryxcache.h` lines 8-9 have "a
   corrupted or tampered entry can never be executed. Fail-closed always"
   (`GetReturnsPut`: `forged`).
7. `LOCK ADD` and `LOCK CMPXCHG` leave the flags as they were (`oryxtu.c` lines 255-262),
   where lines 37-38 have "x86 ADD/SUB/AND set NZCV, so the IR must too (else a following
   Jcc/SETcc reads stale flags)" (`RunsBlock`: `AtomicFlags`).
8. The decoder handles PUSH, POP and CALL (`oryxdec.c` lines 209-225), which `oryxdec.h`
   lines 24-26 list as "NOT yet handled" (`ReturnCodes`: `Translatable`).
9. An `endbr64` cut short is UNSUPPORTED (`oryxdec.c` line 96), where `oryxdec.h` lines
   57-58 have "ORYX_ERR_FORMAT if the stream is truncated" (`ReturnCodes`: `CutEndbr`).
10. An image that ends at the last address is NOTFOUND throughout (`oryxdec.c` line 83:
    `base + len` is 0), where `oryxdec.h` line 57 has "ORYX_ERR_NOTFOUND if pc is outside
    the image" (`ReturnCodes`).
11. `FEX_TSOENABLED=0` is exported for the whole process before any thread has a grant
    (`profile.c` line 253, "safe now: hardware guarantees it"), so a thread whose enable
    fails is ordered by nobody, where `oryxmm.h` lines 45-46 have "caller keeps software
    ordering" (`FailsClosed`: `TurnsOff`).
12. A setting with a blank, exported without quotes (`profile.c` lines 263-267) and
    evaluated (`oryx-run.sh` line 70), can set `ORYX_MM_TSO=1` under a profile of which
    `docs/formats/profile.md` line 55 has "`memmodel = sw_fences` → `ORYX_MM_TSO=0`"
    (`OrderingExported`: `Behind`).
13. A profile longer than the buffer is cut without an error, also within a word
    (`profile.c` line 198): a longer name that begins with `hw_tso` becomes `hw_tso`
    (`OrderingExported`: `CutToHardware`). A note behind a value (`hw_tso # note`) is part
    of the value, and makes it an unknown one, unless the cut comes before it.

Seen while modelling, without a run of their own:
- A thread preempted inside `oryx_disable` leaves the bit of its core set, where the
  driver's README says that `sched_out` clears it "so the next thread on that core runs
  weak (fast)". `LeaksOnlyMidDisable` says that this is the only way it happens.
- The key of a unit leaves out `guest_len`, which decides its fall-through exit, and the
  upper half of `target` (`oryxtu.c` line 112: "EVERYTHING that affects emitted bytes").
  The code is fixed by the key (`KeyFixesCode`), the exits are not.
- `--mode fenced` of the litmus detector "must drive every witness count to zero"
  (`oryx_litmus.c` lines 36-37). WRC has no barrier in that mode, so its witness is
  still allowed.
- The detector reports GRANTED when exactly two threads were granted TSO (line 405).
  WRC has three, so two of three are reported as granted, and three as denied.
- "A single lucky session can't top a well-sampled profile" (`profile.h` line 66): the
  shrinking at one sample leaves about half of the base, so it does with twice the frames
  per second.
- A setting with a blank that is no assignment (`1280 x 720`) makes `export` fail, and
  the script ends without launching anything.
- `oryx-run.sh --dry-run` with a command prints the environment and then execs it all the
  same ("Print the resulting environment and exit").
- The launcher execs the command it was given: nothing ties it to the profile's backend,
  and so to the knob that was exported.
- Affinity narrowed by `ENABLE_TSO` is not restored, neither by a later failure nor by
  `DISABLE`.
- Code a guest rewrites keeps its cached translation.
- Only closing the fd ends a grant: a thread that exits and leaves it open keeps its
  grant and its notifier, where the ABI header has "closing it (or the thread exiting)
  restores weak ordering" (`include/uapi/oryx_memmodel.h`, lines 11-12).
- `put_blob` tests only the name, "content-addressed => identical bytes": a blob
  damaged on disk is never rewritten, and every get of it reports INTEGRITY.
- The decoder's header has reg,imm forms of AND, OR, XOR and TEST in scope (line 11); the
  code refuses them.
- A `LOCK CMPXCHG` that fails is a full barrier on x86. `CASAL` has no release then, so at
  TSO strength, whose stores and loads carry no release or acquire of their own, it does
  not keep an earlier store before a later load (`Swap2` of `MCLowering` at that
  strength). `Disciplined` therefore asks for SC or RCPC.
- `QUERY` reports `g->enabled`, also after an affinity change has moved the thread
  to a core where the bit stays clear (`STATE_TSO`, "calling thread currently has
  TSO on").
- `PUSH`, `POP` and the stack accesses of `CALL` and `RET` are plain under
  `CONSERVATIVE`, "order EVERY ordinary access". `StackShared` in `MCLowering` is
  the set of cases that shows it: a run with it violates `TSOConsistent`.
- The classifier's `default:` ("no memory access -> no entry") covers `PUSH` and
  `POP`, which have one. No entry means ordered, so nothing is relaxed by it.

## 6. Not modelled

- SHA-256, the byte values of A64 encodings, the byte layouts of maps; buffers that
  `oryx_tu_parse` refuses; the translator's statistics.
- `oryx_profile_serialize` (printing), settings that only go to the graphics stack,
  rounding of the score.
- The argument parsing and printing of the command line tools and of the launcher.
- `oryx_probe.c`: pokes a system register under one mutex; what the register does is
  unknown, which is why the probe exists. `oryx-perf.c`: durations.
- Whether a kernel's static key for preempt notifiers is on; Box64's own default for
  software ordering.
- Clients that use one fd from several threads, which the ABI header forbids.

## 7. Plan

Done: all modules above, with the proofs named in section 4.

1. `ClassMap` composed with `Lowering`: a relaxed access is only one that no other
   thread sees, which is what `Disciplined` asks.
2. `Pipeline` composed with `Dispatcher`: whole programs from bytes.
