# A verification project for NXMount

NXMount mounts Switch images (NSP, XCI, NCA) as a read-only file system. It
opens an image with `mmap`, stacks *providers* on it (sections, AES-CTR,
patches, hash layers, block caches), puts file systems on the providers (PFS0,
HFS0, NCA, RomFS) and serves them through FUSE, from several threads at a time.
This directory models that program in TLA+, checks the models with TLC and
proves theorems about them with TLAPS. `PROJECT.json` maps every definition to
the lines it stands for; paths below are relative to `src/src/`.

## 1. Inventory

| Part | State | Operations | Used by |
|---|---|---|---|
| Decryptor pool, `crypto/crypto.hpp` | array of contexts, array of atomic pointers to the free ones | acquire, free, setIV, decrypt | AesCtrProvider, AesCtrExProvider, from every FUSE thread |
| LRU caches, `common/cache.hpp` | list of nodes, map from keys to nodes, mutex | get, add, emplace | RomFS lookup, verify cache |
| Block cache, `provider/cache_provider.hpp` | as above, with blocks | read (tryReadFromCache, pushBlock) | every layer above AES-CTR and the hash layers |
| Provider stack, `provider/`, `formats/nca.cpp` | immutable after construction, but for caches and zeroed hashes | read(size, offset) | file systems |
| Sha256Provider, `provider/atmosphere.cpp` | the hash region, zeroed entry by entry | read | through Aligned and Cache providers |
| IntegrityVerificationProvider, same file | an LRU set of the hashes that were met once | read | through Aligned and Cache providers |
| Bucket tree, AesCtrEx, Indirect, `formats/bktr.*` | tables in memory | findEntry, next, read | patched sections |
| RomFS, `formats/romfs.*` | tables in memory, two LRU caches | find, iterate, open, read | NCA |
| PFS0, HFS0, XCI, `formats/pfs0.*` ... | entries, NCAs found, content metas | init, rearrange, apply update or add-on, open, read | driver, NCA |
| NCA, `formats/nca.*` | headers, keys, up to four file systems | construct, setBase, initializeFileSystems, open | PFS0, driver |
| FUSE front end, `fs/filesystem_fuse.cpp` | handles in `fuse_file_info` | init, destroy, getattr, access, open, truncate, read, readdir, release | libfuse |
| WinFsp front end, `fs/filesystem_winfsp.cpp` | file contexts, the marker of a scan | open, security and information by name or handle, directories in pages | WinFsp |
| Content metas and title names, `formats/cnmt.*`, `nacp`, `npdm`, `titles` | tables | parse, look up | PFS0, NCA |
| Driver, `driver/driver.cpp` | configuration | base, updates, add-ons, mount, fork | main |
| Keys, `crypto/key_mgr.*` | key set, title keys | load, add, get | NCA, PFS0 |
| Logger, `log/logging.cpp`, `common/simple_queue.hpp` | queue, flag, two mutexes, condition variable, log file, worker | push, set log file, run, shutdown, join, flush | everything |

What is hard about it:

- *Concurrency.* libfuse's loop has several threads and nothing above the
  providers takes a lock. The contexts of the pool are handed out without one;
  the LRU caches lock each call but not get-then-add; the hash region is
  written without any lock; the logger hands messages from many threads to one.
- *Start and end of the process.* The logger runs from the static constructor
  to the static destructor, across a fork and through signals.
- *Arithmetic at boundaries.* Each layer has its own block size and its own idea
  of what to do with a request that is not aligned or reaches behind the end.
- *Order of operations.* Base, updates and add-ons rearrange shared structures;
  init runs twice.
- *File systems within file systems.* Five classes walk a path in five ways, and
  each operation walks anew; one front end takes a directory whole, the other in
  pages that begin behind a name.

What makes the parts correct: contexts are never shared or lost and data is
deciphered with its own keystream; a cache changes how fast a lookup is and not
what it returns; what is logged is written once and in order, and exit ends; a
corrupt block is never served, a good one always; a read returns the right
bytes whatever its size and offset; an update replaces exactly what it names; and
whatever is asked, in whatever way, is answered from one tree.

## 2. Modules

| Module | Models | Kind |
|---|---|---|
| `KeystreamService` | what AES-CTR decryption promises its callers | abstract |
| `DecryptorPool` | the pool and both `decrypt()`, one action per shared access | detailed, implements `KeystreamService` |
| `LruCache` | `common::Cache` and `CacheSet`, one action per locked call | component |
| `RomFileTable` | `findFile`/`findDirectory` over `LruCache` | composes `LruCache` with threads |
| `Logger` | queue, worker, exit and fork | component |
| `VerifiedRead` | what a hash layer promises | abstract |
| `Sha256Provider` | `Sha256Provider::read`, one action per access to the hash region | detailed, implements `VerifiedRead` |
| `IntegrityProvider` | `IntegrityVerificationProvider::read`, one action per access to the verify cache or to a provider | detailed, over `LruCache`, implements `VerifiedRead` |
| `ProviderStack` | the path of one request through all layers, as operators | pure |
| `BucketTree` | the nodes of a patch table, `findEntry`, `next`, as operators | pure |
| `PatchedSection` | `AesCtrExProvider::read` and `IndirectProvider::read`, one action per round of the loop | component over `BucketTree` |
| `RomFs` | the RomFS tables: hash chains, sibling lists, directories in pages | component |
| `Mount` | base, updates and add-ons from opening to `Destroy`, with their keys | composes the packages |
| `Namespace` | getAttributes, access, openFile, openDirectory and directories of all five file system classes, as operators | pure |
| `MountedTree` | what whoever looks at a mount relies on: one tree that never changes | abstract |
| `FrontEnd` | the FUSE and WinFsp handlers over a mounted file system | component over `Namespace`, implements `MountedTree` |
| `*Proofs` | theorems about the module they are named after; those about `Sha256Provider` are in `ProviderStackProofs`, which has the stack it is part of, those about `RomFileTable` in `RomFsProofs`, those about `Logger` in `MountProofs`, which has the driver it belongs to, and those about `Namespace` in `FrontEndProofs` | proofs |
| `MC*` | instances for TLC | instances |

*DecryptorPool.* `mFree[i]` is the i-th atomic pointer; a context is named by
its index and its state is the `position` of its keystream. The locals of
`tryAcquire` (`scan`, `decryptor`) and of `decrypt` (`ptr`) are variables. The
loop around `compare_exchange_strong` is `CasFails`: after a failure the expected
value is what was seen, and when that is null, null is exchanged for null and
the caller gets `nullptr`, which sends it past the pool although another
context may be free. `OneShot` is `crypto::AesCtrDecrypt`. A decryption may
throw (`Failed`).

*LruCache and RomFileTable.* Nodes are recycled, so a node is a number and
`key[n]`, `value[n]` its fields; `map` is the hash map. `Add` erases the
recycled node's old key and emplaces the new one, and emplace leaves an entry
that is there alone. The empty path is the key of a node that was just made.
Threads get, walk and add in three steps. What the walk finds is the constant
`Position`: the tables never change and live in memory.

*Logger.* One action per access to `mShutdown`, `mMutex`, `mCondVar`, the queue or
`mLogFileMutex`. The worker's wait is split where it matters: `WorkerTest` evaluates the
predicate, `WorkerBlock` gives up the mutex and enters the wait set at once, as
the standard has it. `Exit` is `std::exit` reaching `~LoggerImpl`, from main
or, on any other thread, from a signal handler or after a fatal message; the
thread's own code is not resumed, and what it holds it keeps. `ExitOnWorker` is the same on
the worker, struck by a signal or by an exception of its `println`: there the destructor
joins its own thread, which throws, and the process ends without `flush()`
(`JoinItself`). `SecondExit` is exit called while exit runs, by a further signal or because
`println` throws in `flush()`; the standard leaves open what that does, so it either
ends the process or waits for the first. `SetLogFile` and `OpenFile` are main opening the
log file, the only place that keeps `mLogFileMutex` for longer than a write. `Serve` is
`fuse_main`: other threads appear,
and with `Daemonize` the worker is gone, since only the calling thread survives a
fork. Only the child is followed; `mThread` still looks joinable there, and glibc
takes the thread for ended. `ProcessEnds` ends all threads. Two things are left out: what
a handler does before it calls exit (it prints and allocates, which no signal handler may) is
taken to come through, and a fork while the worker is in exit.

*Sha256Provider.* A hash is whole, torn (half zeroed) or null. The data race on
it is a choice: a torn hash reads as null or not, and compares equal or not.
One call reads one block, because its only caller is a CacheProvider that asks
for `mBlockSize` bytes (block sizes up to 64 KiB; for larger ones see 3). Its names
(`HashInit`, `HashTypeOK`, `content`, `reading`) are chosen so that one module of
proofs can extend it along with `ProviderStack`.

*IntegrityProvider.* One layer of a hash tree. The layer above is what
`VerifiedRead` promises of it: its hashes are genuine, and it may refuse. So a block
*is* `good` or `corrupt`, and the offset of its hash, the key of the verify cache, is
its number. `Recall` and `Remember` are the locked calls of `CacheSet`; between them
other readers evict, add twice, or recycle a fresh node, whose key is that of the
first hash. `Group` looks for the head of a group (`HashCount` hashes) and leaves
the group out if it is remembered. A read has up to `MaxCount` blocks here,
although CacheProvider and AlignedProvider, which stand in front of the layer in an
NCA, ask for one block at a time. `RememberedIsGenuine` is a lemma of the proofs.

*ProviderStack.* A byte is the position it belongs to, `Plain(p)` or
`Cipher(p)`, or `Zero`, or `Junk` for one that was not written, was deciphered
elsewhere than at its own place, or was altered. Each layer is an operator that
takes the layer below and gives a function from requests to answers, so that a
theorem about a layer is one about any layer below it that keeps its promise. The
loops are written as the set of blocks they visit. The block caches hold nothing, ever:
`pushBlock` returns while `mCache` is empty (`cache_provider.hpp:147`) and only
`getLru`, after that line, makes nodes. Hashes of hashes are taken as verified;
corrupt data, and files that end too early, are modelled.

*BucketTree and PatchedSection.* A tree is a record of its nodes as they are in
memory; `Layout` writes one from sorted entries, as the comment at the end of
`bktr.hpp` describes it. `NotAfter` counts the entries that are not greater than
an address and stands for `std::upper_bound` and for FindEntry's bisection;
`Bisect` is the bisection itself, and `BisectionFinds` says that they agree on
every node. A byte that a walk delivers is what was done to get it: its position
and the generation it was deciphered with, or the storage and the place in it.
An indirect section asks below with no cut at the end of the section: the hash
layer above cuts requests off (`Requests`). Without a hash layer
(`nca.cpp:543`) a request that goes past the last entry would copy nothing, round
after round; that is not modelled. `prev` and `hasPrev` have no caller.

*RomFs.* A table is a function from positions to entries, and a read at any other
position fails. A walk is the sequence of positions that it would visit
(`Follow`), one longer than the table has entries, so that a walk that comes to no
end is seen (`FirstEnd`, `Loops`). What a caller makes of a lookup is yes, no or
that it never returns (`Outcome`): `getAttributes` and `access` look for a file first,
`forEachEntry` for a directory, and none of them gets to the second lookup if the first one hangs.
The state is the image and one open directory
that is read in pages, as `ReadDirectory` of the WinFsp front end does through
`forEachEntry`; the next page starts behind the name that ended the last one,
found through the hash chains. `ReadDir` of the FUSE front end reads all at once,
and is what the pages are compared with. A listed name is one byte shorter than a
lookup accepts, because `get` leaves room for the terminator (`romfs.hpp:99`).
`RomFsAssumption` asks for finite tables, for a bucket (the hash is reduced modulo
their number) and for distinct listed names in one directory. Everything else a table may get
wrong is left to the images; `Intact` says what a tool that writes them sees to: names
that can be listed and looked up, each entry on the chain of its bucket and in the list
of its directory, lists that end, chains that are no circles. Walks are recursive functions of the step, of an image
that is a parameter. The caches of the lookup are `RomFileTable`'s.
A path leads down three levels at most (`Depth`).

*Mount.* A package is the files of one partition; `entries[k]` is its `mEntries`,
`<<k, i>>` the NCA made from file i of package k, which reads through the package's
provider wherever its entry is moved to. `ncas` says which sections an NCA can
use, what base it was given and whether its key is its own. `Wrap` moves a meta and
its contents into a title, leaving entries without a name behind; `TryApplyUpdate`
ties the contents of a patch to their counterparts and moves the patch over; each
loop of the source is a recursive function of its rounds, with the body of the loop
(`ParseEntry`, `Moved`, `TryPatch`, `TryAddOn`) as an operator of its own;
`Kept` is the base taking over the package. `ParseTickets` keeps the source's index,
which stands still at every ticket that is given up, so that the tickets after it
are read from the wrong file. With a wrong key or none a section cannot be
opened, its constructor throws, and as `init()` stands outside of every `try` the
process ends (`"terminated"`). Setup opens updates before add-ons. `MountPartition`
is the FUSE `init` callback running everything once more, `MountCard` the same for
an XCI or HFS0 base, where it stops at the partition. Names of titles are their id
and version. Left out: a base or update that is one NCA, the partitions of a card
but the secure one, and by `MountAssumption` patches of titles with several programs
(`findContentInfo` takes the first content of a type) and metas that list a meta as
a content (`rearrangeNCAs` would move that meta into the first title and then make a
title around a file system that is null).

*Namespace and FrontEnd.* A file system is a record of what its constructor and
`init()` leave: a game card around its root partition, a partition of entries, a
title (wrapper) of named contents, an NCA of named sections, a RomFS of paths. A
name is atomic; a path is a sequence of names. Each operation of each class is an
operator with its own walk, since that is how the code is written, and answers for
itself or hands the rest of the path on (`HandOn`); `Ask` follows a request from one
file system to the next, at most five deep, as a card holds packages, a package
titles, a title NCAs and an NCA sections. `GetCount` and `ReadEntries` are the two
calls behind a FUSE listing; `Iterated` and `ForEachEntry` the paging of WinFsp: RomFS
resumes by looking its marker up, the others by scanning for its name. `Sections`
gives the sections of an NCA their names, counting each kind, and `ThroughEntry` is the
loop over them that its four operations share. `IsImage` says what the
constructors and the rearranging in `init()` leave where no directory has a name twice. The
code does not rule out that one has: files of a partition and sections go by the names they come with,
sections may be labelled alike with and without a base (section 3), and `TryPatch` appends the
title of an update that the base has already, so that the driver itself makes two titles
of one name. Every lookup then finds the first, a FUSE listing has both, and WinFsp, when a
page ends on the second, begins the next behind the first for ever. So `SoundImages`, that all
images are `IsImage`, is no assumption of the module but a hypothesis of its theorems,
which `MCFrontEnd` checks of its images. `IsImage` also leaves out sections
inside of an NCA that hold NCAs, which nothing opens.
`FrontEnd` picks a front end, an
image and a handle. libfuse walks down to a path with `GetAttr` (`Walked`); WinFsp
hands over whole paths. The file systems have no state once they are mounted, so one
request at a time and one handle at a time are all there is to tell apart.
`MountedTree` says what the answers mean: what `getAttributes` finds, `access`,
opening and listing find too, every entry is listed once, and nothing can be
opened for more than reading, in whatever way it is asked for. `nodes` is computed
from the image's entries by a definition of its own (`Contents`), not by these walks.

## 3. What TLC checks

| Run | Bounds | Shows |
|---|---|---|
| `decryptor_pool` | 3 threads, 2 contexts, 2 keystreams | safety, refinement of `KeystreamService`, and that some read completes |
| `rom_file_table` | 3 threads, 2 nodes, 4 paths | cached lookups tell the truth |
| `logger` | 2 threads, 2 messages each, with and without the fork and a log file, exit anywhere, on the worker and a second time, a signal inside `push()` or `SetLogFile()` included | order, nothing lost at exit where `flush()` is reached, what is logged is written while there is a worker, exit ends but in the cases that are named |
| `sha256_provider` | 3 threads, 2 blocks | corrupt blocks are never served nor their hashes zeroed |
| `sha256_provider_race` | 2 threads, 1 block | **violated**: a good block is refused |
| `integrity_provider` | 2 threads, 3 blocks in groups of 2, 2 cache nodes, reads of up to 3 blocks | refinement of `VerifiedRead`, and that the skipped group is the only gap |
| `provider_stack` | 30 images, all requests up to 9 bytes at offsets up to 5 | what is delivered is genuine, and all that is intact is delivered |
| `patched_section` | 52 sections of up to 8 entries, all requests up to 12 bytes at offsets up to 26 | every byte delivered is the one the table has for it, intact sections are delivered, every walk ends |
| `rom_fs` | 30 written and 10 damaged images, names of up to 3 bytes, pages of up to 3 entries | chains and lists tell the same tree, lookups end unless a chain is a circle, pages add up |
| `mount` | 5 bases, 6 updates, 2 add-ons, up to 4 packages, 3 key files, with and without an external key | contents are in one place and never dangle, patches become whole, init() twice is harmless, keys at hand suffice |
| `front_end` | 6 images, both front ends, all their paths and one that does not exist below each, 4 sets of flags, 6 of rights, 8 masks, pages of 1 or 2 | refinement of `MountedTree`, and access agrees with getAttributes, where no directory has a name twice |
| `mount_card` | the same, 2 packages | **violated**: an update of a card stays in part without its base |

Why the bounds are enough. Two contexts for three threads make the pool run out,
make two threads race for one context, and make a failed exchange see null; a
fourth thread adds no new pair of steps. Two nodes for three paths that exist
force evictions, and three threads are what it takes to add one key twice and to
have a third evict it; `""` is there because fresh nodes carry it. Two messages
per thread let the worker work and wait in turn while another thread pushes or
exits, and the thread in exit wait for a mutex of its own or of the other. Two blocks tell "this hash" from "another hash", three readers
have one zero a hash while another checks and a third comes late. In
`ProviderStack` the sizes (AES 2, caches 4, hash blocks 3 and 4, a data region
that starts at 1 and is 7 long in a section of 10) put every boundary inside of
every other block, and requests span up to three blocks.
`PatchedSection` has nodes of two entries and of two offsets, so that tables of 1
to 8 entries have one node, several, further nodes with offsets left in the
root, and further nodes that fill the root; the sections also have a node that
could not be loaded, a byte that cannot be read, storages that end too early and
storages that pad. A request spans up to five entries and three nodes.
`RomFs` has trees of one to three levels in one to three buckets, so that chains
mix entries of several directories and the root stands in a chain, and damages one
of them in every way the reader handles. `Mount` has patches with their contents in
both orders, one that lacks a file, one that comes with its application, one
already in the base, tickets that are bad (before sound ones or between them), personalized, doubled or missing, contents that two metas
name, files that no meta names; four packages let two updates be followed by an
add-on or a second one. `IntegrityProvider` has one block more than the cache has
nodes, and reads one block longer than a group, so that a group is skipped while a
later one is checked and a node is recycled under a reader. `FrontEnd` has every class
inside of every class that can hold it: a package, a game card with an empty
partition, NCAs with two sections of a kind, a patch with and without its base.

Fairness. A thread that can run does run (`WF` on its steps): the operating
system schedules it, and main, when it opens the log file (`OpenFile`), comes through. Nobody is forced to issue a request, to log, to serve, to open a file or to
exit, and spurious wake-ups are allowed but never relied upon. `SF` on `Lock` of
the logger: a thread that waits for a mutex gets it if it is free again and
again. `LoggedIsWritten` and `ExitEnds` need both.
`SomeReadCompletes` needs no more than `WF`; that *every* thread finishes is not claimed, since the exchange may fail for ever.

Deadlock is checked except for the logger, whose process really ends (and may
really hang), for `rom_fs`, where a reader of a sibling list
that never ends hangs, and so does a lookup along a chain that is a circle, and for `mount`, whose process ends.

### Disagreements between code and documents

1. `atmosphere.cpp:212`: hashes are zeroed under the eyes of other readers, whose
   reads of good data then fail (`sha256_provider_race`).
2. `pfs0.cpp:625`: `tryApplyUpdate` leaves a patch after its first content. The
   `init()` of the FUSE front end makes up for it, but for a card it ends at
   `hfs0.cpp:74`: of an update of an XCI, all contents but the first stay without
   their patched sections (`mount_card`).

The following were met while modelling; no document says otherwise, or no property
is about them, and they have no run of their own.

- Exit may hang in these ways, which `ExitEnds` names: `shutdown()` notifies
  without the mutex (`logging.cpp:116`), and a worker between its test and its
  wait sleeps on, and `join()` with it; a signal strikes a thread that holds
  `mMutex` in `push()` (the TODO of `logging.cpp:95`), or main while it holds `mLogFileMutex`
  in `SetLogFile` (`logging.cpp:162`), and `flush()`, or the worker that is joined, waits for
  it; the worker holds `mMutex` at the fork; the worker calls exit after another thread
  did, and waits for it (on a library where the second call waits).
- `logging.cpp:89`: if exit runs on the worker, `join()` is called on the thread itself and
  throws out of the destructor; `flush()` is not reached and what is queued is lost.
  `NothingLostAtExit` makes an exception of this, and of a second exit. Of the messages that
  threads were about to push when exit was called one per thread may be lost, as
  `push()` looks at `mShutdown` without the lock (`simple_queue.hpp:17`); the property
  says that there are no more.
- `romfs.cpp:30`: on a hash chain that is a circle a lookup never returns, as a comment there says.
  Then `getAttributes` of a directory hangs in the lookup of a file of that name, and
  a page of WinFsp in the lookup of its marker. `Intact` leaves such images out.
- `pfs0.cpp:77`: behind a ticket that is given up, tickets are read at the place of
  other files, and the keys in them may not be found. `KeyAtHand` counts on tickets before that one only.
- `driver.cpp:586`: unless `--foreground` is given, the process forks after the
  logger's worker was started. Until it exits, the child writes nothing to
  `--log-file`, and its queue grows.
- `nca.cpp:693`: a Sha256 layer with blocks above 64 KiB passes all checks
  of the constructor and cannot be read: CacheProvider cuts its block down
  (`cache_provider.hpp:18`) and the layer refuses pieces of its own blocks. `Intact` of
  `ProviderStack` asks for blocks that fit, so that `DeliversAllItCan` says nothing of
  such an image, and no other property does.
- `atmosphere.cpp:273`: a remembered hash at the head of a group skips the whole
  group; a reader of several blocks could be served a corrupt one. In the stack of an
  NCA there is no such reader.
- `access` denies the root of a title (`wrapper_filesystem.hpp:46`), and refuses any
  mask but `R_OK` everywhere, although `FillStat` reports directories that may be
  entered: `chdir` into a mounted directory, for which FUSE asks `access(X_OK)`, is
  refused. `AccessAgrees` is stated for reading and makes an exception of titles.
- `nca.cpp:269`: the counts behind section names start anew each time file
  systems are created; when a base makes a section usable later, its name may be
  taken. The paging of WinFsp would then not come to an end. The same holds of an update
  that is applied to a base which has it: two titles get one name. `SoundImages` leaves both out.
- WinFsp refuses to open a file with execute right, or with rights that convert to no
  mode; on both systems no file can be opened for writing, so the handlers that write
  through a handle are never reached.
- `driver.cpp:181`: an NCA that updates an NCA takes its place whether or not a
  section was tied to it.
- `driver.cpp:223`: `--type auto` is in the help and ends in "Unknown input
  file type!".
- `bktr.cpp:153`: the index found in a further offset node counts from the start
  of that node, and is taken for the number of an entry node. The comment in
  `bktr.hpp` says that the lookup goes on "in that node". Only tables with more
  entry nodes than a root has slots (2046) are concerned; there the walk
  begins at a wrong entry and its checks refuse the read, or it reaches the
  right one by `next`. `IntactIsDelivered` leaves these tables out. What is delivered
  is right all the same (`DeliversGenuine` is proved for all trees).

## 4. What is proved

All proofs are for any number of threads, contexts, nodes, keys and blocks; the
assumptions are those of the modules (`PoolAssumption`, `CacheAssumption`,
`TableAssumption`, `RomFsAssumption`, `BlocksAssumption`, `IntegrityAssumption`, `LoggerAssumption`,
`SectionAssumption`, `StackAssumption`, `MountAssumption`, `FrontEndAssumption`), which say that sizes are
positive, that null values differ from proper ones, that the entries of patch tables
are sorted, of an image that its sections begin at a multiple of the AES block (they
are counted in sectors of 0x200, `formats/nca.hpp:22`) and that the cache in front of
AES-CTR has whole AES blocks, and of packages what section 2 says of `Mount`; a title key that no file names is the value
`"none"`. Two hypotheses are stated with the theorems that need them: `NoPatchOfPatch` of
`MountPatchIsWhole`, and `SoundImages` of all theorems of `FrontEndProofs`.

- `DecryptorPoolProofs`. `ContextsConserved` is not inductive: one must know
  which phase holds a context, that a thread that is about to exchange a
  non-null pointer got it from the slot it scans (slot i holds only context i or
  null), and, for the refinement, that from `process` on a held context stands
  where its holder asked. With this invariant: types, `ContextsConserved`,
  `BypassOnlyUnderContention`, and the refinement step by step.
- `LruCacheProofs`, and the end of `RomFsProofs` for `RomFileTable`. `MoveToFront` keeps
  a permutation a permutation and `Add` keeps map and nodes in agreement (the facts are stated
  for the cache alone). On top, cached values are the true positions of
  their keys; a node with the default key that is not in the map may be stale.
  Then: types, `MapNodesAgree`, `LookupReturnsTruth`, `AddedIsCached`.
- `Sha256Provider`, at the end of `ProviderStackProofs`. From `Verify` on a reader's block is good, so
  what is zeroed never guards a corrupt block, and a hash that is no longer whole
  vouches for its block. Then: types, `CorruptStaysChecked`, and the
  refinement of `VerifiedRead`.
- `IntegrityProviderProofs`, on top of `LruCacheProofs`. `ProviderInv` says that the
  cache is consistent (its order a permutation, map and nodes in agreement), that it
  stands for genuine blocks only, that a reader about to add a block has verified
  it, and that every block a reader's loop has passed is genuine or was skipped
  behind a genuine head; `AtHead` keeps `current` at a multiple of a group's
  length, without which a skipped group could not be told to begin at a head.
  Then: types, `RememberedIsGenuine`, `OnlyGroupsAreSkipped`, and the refinement of
  `VerifiedRead`, for any number of readers, blocks, nodes and group sizes.
- `Logger`, at the end of `MountProofs`. `WrittenInOrder` says where each accepted message is, and is not
  inductive until one knows when the worker's hands are empty (`HandInv`): when it
  is about to print, or for good if the fork or an exit left it behind with the mutex locked, so
  that nobody flushes. `ThreadInv` says that only the thread
  that called exit first goes through it, and that it flushes after the worker has left its loop. `LateInv` counts what is accepted after exit was called: from a thread
  that is still on its way through `push()`, at most one message.
  Then: types, `WrittenInOrder`, `NothingLostAtExit`.
- `PatchedSectionProofs`. While a walk runs the cursor is inside of the request, the
  locator stands at an entry of the table, and what is delivered so far is
  genuine. `StepStaysInEntry` is the lemma that matters: an entry at or before the
  cursor that the next entry ends behind it covers every byte of the step. It needs
  the entries sorted (`WellFormed`, part of `SectionAssumption`), and nothing
  of what `findEntry` returns but that it is an entry. Then: types and
  `DeliversGenuine`, for any node sizes, sections and requests. A second part says what
  `findEntry` returns. `BisectIsFind` proves that the bisection agrees with counting
  (`BisectionFinds`), by the least number of slots for which it would not: half of
  them is less. `FindCovers` and `AfterIsNext` say that where the table fits into its
  root the first locator's entry and the one after any other cover the cursor, and with
  `LocatorCovers` as the invariant no check of the loop turns an intact part away
  (`IntactIsDelivered`).
- `ProviderStackProofs`, from the bottom of the stack to its top. `Right` is what a
  layer owes for every request: what it delivers is genuine, of the asked size or less,
  and cut off nowhere but at the end; `Ready` is the requests it may not refuse.
  `CacheRight`, `OffsetRight`, `AlignedRight`, `AesCtrRight`, `Sha256Right` and
  `IvfcRight` each take any layer that is `Right` to one that is, whatever the block
  sizes, and the `*Ready` lemmas follow the requests down: what a layer rounds a
  request to is a request that the layer below is ready for. For `Ready` the
  requests that the layers pass down must be those below: `Intact` names
  them, and asks for hash blocks that fit into a cache's block (the gap that section 3
  lists). Then: types, `DeliversGenuine`, `DeliversAllItCan`, for every image,
  every block size and every request.
- `MountProofs`, for any packages, in any number and order, and any keys. The loops over
  entries and contents are recursive functions of the round: `LoopRuns` and `LoopKeeps`,
  which rest on the least number for which a claim would fail, take a loop's first
  round and its step to all rounds. None of the properties of `Mount` is inductive.
  `Tree` is what is: `AliveInv` (the packages alive are the base, what it took, and
  the one that is being applied), `ArrangedInv` (what `init()` leaves: no entry goes by
  the name of an NCA's file, titles hold their meta under `Meta`, names of slots differ),
  `PlacesInv` (each NCA of a package alive is in one entry and slot, of its package or,
  once that was taken, of it and the base together) and `KnownInv` (`ncas` has all of
  them, and their bases belong to packages that live as long). `RearrangedHolds`, `SelfUpdateHolds`,
  `UpdateHolds` and `AddOnHolds` are these facts for each function of the source, round
  by round: a round that moves an entry takes it from one sequence and appends it to
  another, and `Once` counts both. `ArrangedStays` has what the mount relies on, that
  `rearrangeNCAs` has nothing to do on what it arranged. By `KeysInv` an NCA without
  its key belongs to a package whose keys are not at hand;
  `TicketsHold` says that a right without tickets is left alone, `OwnTicketsWin` that up to the first
  ticket that is given up every ticket is read at its own place, that behind it only tickets of the same package
  are read, and so that the last word on its rights is its own. Then: types,
  `NothingDangles`, `ContentOnce`, `InitAgainKeepsTree`, `MountsWithKeys`, and under a
  hypothesis `PatchIsWhole`. `SetBaseCompletes` gives an update all sections that its
  base allows for; `TiedCompletes` and `SelfCompletes` keep that through the rounds that
  follow, over the contents of a patch and over the patches. A later round could still
  add to the base itself, unless it belongs to no patch: `NoPatchOfPatch` says that no
  patch is for a title that is a patch (an application's id is never one of a patch, but
  the code does not look; `MCMount` assumes it of its packages). The hypothesis is
  needed: of three patches, each for the next one and listed before it, TLC finds
  the first without its section after both runs of `init()`.

- `RomFsProofs`, for tables, names and pages of any size, intact or damaged.
  `LoopRuns`, as in `MountProofs`, gives the recursive functions their values: that
  `Follow` is the walk it seems to be (`FollowRuns`), that `Descent` goes from
  directory to directory (`DescentRuns`). A lookup that is still under way after more
  steps than there are entries met nothing that would have ended it, so the chain is
  a circle (`FindEnds`, `LookupEnds`); an intact image has none, and so all its lookups
  return (`IntactReturns`, `IntactSeeks`). In an intact image a chain leads to the entry
  with a parent and name if there is one (`FindExact`: the walk meets the entry, and
  whatever would stop it before is ruled out), and a directory's lists have the
  entries that name it their parent (`ListedAre`); together `NamespaceAgrees`. For the
  pages, two facts. What is listed from the sibling of an entry on is the rest of the list
  behind it (`TailWay`, `TailListed`), and by distinct names a lookup of the name
  of an entry finds that entry (`ResumeBehindDirectory`, `ResumeBehindFile`); so a
  page goes on where the last one ended (`ResumeFacts`). `PagesInv` is the inductive
  invariant: what the pages have delivered is a beginning of what one reading as far
  as it goes would give (`All`), and all of it in the end.
  That no entry comes twice is claimed only of a directory whose lists stay in it: a list that
  wanders to entries of another directory with the same name, or to an empty name, makes
  the reader start again from there, and TLC finds it at once without that hypothesis.
  Then: types, `LookupEnds`, `NamespaceAgrees`, `PagesCover`.

- `FrontEndProofs`, for all images in which no directory has a name twice (`SoundImages`; with two entries of one name
  `ServesTree` is false, as a listing has both), all names and all requests. That
  five walks tell one tree is no fact about a step but about what is mounted, and most of the
  proof is about the operators of `Namespace`. `Serves` says of a file system and a
  tree that at each node the four operations answer with its type and size, grant
  reading and nothing else, and list its children, each once, and that
  elsewhere there is `NoFile`. It is carried from inside out. `AskHandedOn` and
  `AskAnswered` give the recursion of `Ask` its values, by `LoopRuns` as in
  `MountProofs`; what is handed on at depth n is answered within n more rounds
  (`Deep`), so that five are enough. `Transfers` says that below a name a
  file system answers as the one that stands there does, but that an NCA refuses to open
  a file for more than reading before it looks it up. `RomServes`, `PartitionServes`,
  `NcaServes` and `WrapperServes` put the trees of the parts together under their names
  (`Assembled`), and `MountedStands` applies them to what `Initialized` leaves of such an image: a card,
  a package or an NCA, with a stand-in for what is empty on Windows. `IInv` adds
  that the handle that is open is a node of the tree under the path it was opened by,
  and that what was delivered from a directory is a first part of one reading of
  it (`PartOf`): by the last name of that part a page finds its place again, as no
  directory has a name twice (`BehindIs`, `PageContinues`), and a page that delivers
  nothing has come to the end. Every handler then keeps `IInv` and is a step of
  `MountedTree`. Then: types, `AccessAgrees`, and the refinement (`ServesTree`).

Only model-checked: liveness (`SomeReadCompletes`, `LoggedIsWritten`, `ExitEnds`,
`ReadReturns`), which is beyond TLAPS. Every invariant and every other property of the
passing runs is proved.

## 5. Not modelled

Parsing of headers and keys, key derivation, content metas beyond what `Mount` reads
from them, the tables of names, signatures, and wording of messages: data without
control. Of WinFsp the start and stop of the service: the dispatcher is started
(`driver.cpp:525`) before the file system is told its context (`driver.cpp:530`). An
update of one NCA by another. Flush, the syncs, extended attributes, StatFs and
ReadLink are answers without state. The C++ memory model: the
exchange in `tryAcquire` has release order only (`crypto.hpp:94`), and the models
are sequentially consistent. An add-on is applied to a base in which any title, of
whatever application, has the version it requires (`pfs0.cpp:730`): `Mount` does as
the code does and no property objects.

## 6. Plan

What is left, in this order:

1. `Mount`: an update of one NCA by another, and the name a section gets when a base
   makes it usable (`Sections` of `Namespace` over the NCAs of `Mount`), so that
   the tree of `MountedTree` becomes a function of base, updates and add-ons.
2. FUSE handles over `Mount` that are open when `Destroy` comes.
