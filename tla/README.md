# A TLA+ development of gocryptfs

gocryptfs is an encrypted overlay file system: a FUSE server that keeps the files of a mount, encrypted,
in a directory of another file system (the *cipherdir*). This fork adds an external key provider (keys come
from a smart card behind a key server) and a blob store. The modules here are translated from the Go source
under `src/`; TLC checks them on small instances, and TLAPS proves the main safety properties of eleven of
them for every instance. `PROJECT.json` maps every definition to the lines it models.

1. [The system](#1-the-system) · 2. [Modules](#2-modules-and-how-they-correspond-to-the-code) ·
3. [Runs](#3-runs) · 4. [Bounds](#4-bounds) · 5. [Fairness](#5-fairness) · 6. [Proofs](#6-proofs) ·
7. [Where code and documentation differ](#7-where-code-and-documentation-differ) ·
8. [Not modelled](#8-what-is-not-modelled) · 9. [Plan](#9-plan) · 10. [Running it](#10-running-it)

## 1. The system

| Part (source) | State | Operations | Hard behaviour | What must hold |
|---|---|---|---|---|
| File content (`internal/fusefrontend/file*.go`, `internal/contentenc`) | header and blocks on disk, cached file ID, `lastWrittenOffset`, `writeOpCount` | Read, Write, Truncate, Allocate, Release, Setattr by path | calls that fail half way; holes and padding; two handles on one file | the user sees a plain POSIX file; every block authenticates in its place |
| Open file table (`internal/openfiletable`) | entries by inode, reference counts, `ContentLock`, `IDLock`, `fdLock` | Register, Unregister, lock and unlock | requests, Open and Release in any order | one entry per inode; a writer is alone; header, cached ID and blocks agree; no deadlock |
| Directories and names (`node*.go`, `nametransform`) | entries, `gocryptfs.diriv` of each directory, `.name` file of each long name, `dirIVLock` | Create, Mknod, Mkdir, Link, Symlink, Unlink, Rmdir, Rename, Opendir | each is several system calls; any may fail; crash; two mounts | entries stay listed and decryptable; nothing is left over |
| Inode numbers (`internal/inomap`) | namespace and spill maps, two counters | Translate, NextSpillIno | counters at their ends | numbers are unique and stable |
| Directory cache (`dircache.go`) | ring of (node, descriptor, IV) | Lookup, Store, Clear, expiry | inode and descriptor numbers are reused; directories are renamed | the right directory; no descriptor leaks |
| Write-only opens (`root_node.go`) | `openWriteOnlyLock`, mode of the backing file | Open, openWriteOnlyFile, chmod | lock upgrade; failing steps | relaxed permissions help nobody else and are taken back |
| -sharedstorage (`file_lock.go`, `file.go`, `file_allocate_truncate.go`) | byte-range locks of each mount on the backing file | Read, Write, truncate in several mounts | half-written blocks; header made twice; stale `Stat` | mounts agree on the header and keep each other's bytes |
| Names (`nametransform`), sparse files (`file_holes.go`) | none: pure | EncryptName, DecryptName, EncryptAndHashBadName; Lseek | damaged names; blocks of two sizes | a name that is shown is found; a seek passes no data |
| Extended attributes (`node_xattr*.go`, `syscallcompat/sys_common.go`) | attributes of the backing file | Getxattr, Setxattr, Removexattr, Listxattr | buffers sized by an earlier call | they look like the attributes of an ordinary file |
| Credentials (`syscallcompat/asuser*.go`) | user, groups of each OS thread | asUser | goroutines move between threads; calls fail half way | a call runs as the user it is for, any other as gocryptfs |
| Random bytes (`cryptocore/randprefetch.go`) | buffer, mutex, channel | read, refillWorker | reads at once; buffer runs dry | no byte is handed out twice |
| External keys (`internal/externalenc`, `carter/cardclient`, `carter/ksclient`, `carter/proto`) | client lock, caches, card and transport sessions, sequence numbers | GetBlockAEAD, name and index keys, establish, Wipe | sessions lost, answers lost or replayed, retry, lock released in between | right keys; one lost session is invisible; sequence numbers increase |
| Key caches (`externalenc.go`) | map and doubly linked list | get, put, purge | relinking at capacity | an LRU cache |
| Blob store and index (`carter/blobstore`, `carter/fsindex`, `carter/blobmeta`) | blobs, `idx/tree`, `idx/dirty`, tree in memory | MarkDirty, WriteMeta, Delete, Put, Remove, Save, Load, Rebuild | process dies between any two calls; two clients | a tree that is accepted is current; records survive their encoding |
| Card frames (`carter/proto/card.go`) | none: pure | BuildCERequest, OpenCEResponse, toCommandAPDU | length fields at their limits; altered answers | what is read is what was sent, or nothing |
| Config file (`internal/configfile`, `init_dir.go`, `main.go`) | `gocryptfs.conf`, `.tmp`, `.bak`, root diriv | -init, -passwd, with -masterkey or -zerokey | dies at any step; two at once | the config always loads; nobody loses the master key who has not asked for it |
| Mount life cycle, idle monitor (`mount.go`, `daemonize.go`, `ctlsocksrv`) | control socket, mount, keys, signal handler, waiting parent; idle flag and counter | forkChild, doMount, sendUsr1, handleSigint, idleMonitor | signals and kills at any point; unmounts that fail; use races the monitor | a mount has a server with keys; the parent tells what became of it; only what is idle is unmounted |
| fsck (`fsck.go`) | the walk, watcher goroutines, two unbuffered channels | -fsck | reports race the walk; time-outs; abort | exit code 0 means clean; no deadlock |
| Control socket (`ctlsocksrv`, `ctlsock`, `ctlsock_interface.go`) | two byte streams per connection | Query, handleConnection, EncryptPath, DecryptPath | time-outs; renames under way | the answer translates the path that was asked |

FUSE requests of one file meet in the open file table; requests on names meet in `dirIVLock`, the directory
cache and the backing directories; with -sharedstorage several mounts meet in the backing files. All get their keys
through the key caches from the external client. The process modules (config, mount, idle monitor, fsck, control
socket) surround one mount.

## 2. Modules and how they correspond to the code

**`ContentOffsets`** - the arithmetic of `offsets.go` and `intrablock.go`: pure operators, with the loops of
`ExplodePlainRange` and `ExplodeCipherRange` as recursive functions. **`Seek`** - `Lseek` on top of it: the file system below
has blocks of its own size, any set of which may be allocated as long as it covers what was written.

**`FileContent`** - one file: `file` (header, blocks, cached ID), `handle` (File objects), `opCount`
(`writeOpCount`), `req` (the request that has arrived, then the answer to it). A request arrives in one step and is served in
another, which has all of its handler: it runs under `ContentLock`. A block is its plaintext with the file ID and block number it
is bound to, so decryption fails anywhere else. Any call that changes the backing file may fail (`EnospcPrealloc`, `Fallocate`,
`WriteAt`, `Ftruncate`): a handler is evaluated once without and once for each call that can fail first, and a `WriteAt` that fails may
have written whole blocks and a part of the next. A mount with `NoPrealloc` is one in which no `EnospcPrealloc` fails. `PlainFile`
is the abstract file; `ImplementsPlainFile` is the refinement, with the decrypted bytes as refinement mapping and the same `req` on
both levels, so that the step that answers a request must have the effect of this request and of no other, and one that fails only
what its abstract counterpart may leave behind. `NodeSetattr` is the truncation by path, which takes no lock; `damaged` records
that one went behind an open File, or that a failing `WriteAt` has torn a block, about which the code can do nothing.

**`FileLocking`** - the same file seen from the locks: `Open`, `Release`, `Read`, `Write`, truncation to zero and
truncation by path, one system call or lock operation per step, for any number of threads, handles and
table entries. Content is reduced to `hdr` (the ID in the header) and `body` (the IDs the blocks were encrypted
with). `byPath` records that a truncation by path happened.

**`Namespace`** - the cipherdir as a tree: `ent` (entries), `nam` (`.name` files), `iv` (`gocryptfs.diriv`), `tmp`
(dirivs that Rmdir has moved away), `ivLocked` (`dirIVLock`), `known` (whose diriv the directory cache may have).
Each request is a program of system calls, one per step. Within one mount a request starts only when the locks
the kernel holds for it are free; between two mounts there are no such locks. `setting` says
in which circumstances a behaviour takes place (section 4).

**`SharedStorage`** - one file that several mounts have open with -sharedstorage: `hdr` and `body` (header and blocks on
disk, with the bytes in them), per mount the cached `ID` and the locks `lk` on header and blocks. Requests take one
system call per step, and `WriteAt` takes two, so that others can read a block that is half written. The locks belong to the
open file description: requests of one mount share them, as in `file_lock.go`. `want` (what the calls of `doWrite` put
there), `remade`, `resized` and `misfit` are history. `MCNamespace` puts `Namespace` and `SharedStorage` side by side.

**`InoMap`**, **`DirCache`**, **`KeyCache`**, **`AsUser`**, **`Xattr`** - what the requests of a mount share. The first three have
the fields of their Go types as variables and one action per critical section. `KeyCache` works on the pointers of
the list; `LruSpec` is the abstract cache it refines, `Lru` the operators both `LruSpec` and `ExternalKeys` use. `last`, the name,
the arguments and the result of the last call, is the same on both levels: a step refines the call it belongs to or none.
`DirCache` has the backing directory (`at`, names to directories) and what go-fuse knows of it (`tree`), which lags behind while a
request that changes names is under way (`moved`). The slow path of `prepareAtSyscall` asks for the name of the Node (`Parent`), opens
what has this name (`OpenDir`) and reads its IV, each in a step. `sure` records for a descriptor that no name changed between the first
two. All directories are in the root, whose own descriptor is left out: deeper ones repeat the same steps for each level.
`AsUser` has goroutines that run on OS threads, one system call of `asUser` per step; a goroutine that has not locked its
thread may continue on another. `Xattr` has the backing attributes and, beside them, the ones a user would see (`plain`);
Getxattr and Listxattr take a step per call of the `SmartBuf` functions. `MCMountState` puts the five side by side;
`NodeParts` (`InoMap` and `DirCache`) and `UserPart` (`AsUser`) instantiate what both the run and a proof module are about.

**`ExternalKeys`** - goroutines in `waitForKeys`, `fetchBlockKeys` and friends, with `Client.mu` taken and released
where the code does; the key server and the card are modelled from what the client sends and accepts
(external). The key of index *i* is *i*, which makes a wrong key visible.

**`FsIndex`** - the disk (blobs, `idx/tree`, `idx/dirty`, temporary files) and the index in memory; every file system
call is a step and the process may die after each. The client that calls the two packages is modelled from
their package comments (external). **`BlobMeta`** - records, TLV encoding and info-chunks as operators.
**`Names`** - padding, encryption (a permutation of short blocks), base64, hashing and the -badname search, on sequences of
four kinds of bytes. **`CardFrames`** - fields with lengths, padding, MAC and APDUs. `MCFsIndex` enumerates inputs for
`ContentOffsets`, `Seek`, `BlobMeta`, `Names` and `CardFrames`, damages what can be damaged, and puts this beside `FsIndex`.

**`ConfigFile`**, **`Mount`**, **`IdleMonitor`**, **`Fsck`** - the process. `ConfigFile` has one action per file operation of
`WriteFile`, `initDir` and `changePassword`, with the options that `Validate` checks; `Mount` the program counters of `doMount`,
of the signal handler, and of the parent that waits for SIGUSR1 or the end of its child; `IdleMonitor` discrete time;
`Fsck` walk, watcher and reporting FUSE threads over the two channels. **`OpenWriteOnly`** - Open and `openWriteOnlyFile` with
their lock and the mode of the backing file. **`RandPrefetch`** - readers, mutex and refilling goroutine. `MCProcess`
puts these six side by side; `MountParts` (`Mount` and `ConfigFile`), `IdlePart` and `OpenPart` instantiate what proofs are about as well.

**`ControlSocket`** - client and server over two streams of units, so that one read can return two messages or half of one.

**`FileLockingProofs`**, **`FileIDProofs`**, **`NodeProofs`**, **`MountProofs`**, **`PartProofs`**, **`ExternalKeysLemmas`**,
**`ExternalKeysProofs`**, **`ExternalSessionsProofs`** - theorems (section 6).

Definitions called `X_something` with a comment that begins with "Mutant" are plausible bugs of `X`. They
are not used by any specification; replacing `X` by one must violate a property of the run (`PROJECT.json`, "mutants"),
which shows that the property depends on that code.

## 3. Runs

| Run | States | Shows |
|---|---|---|
| `content` | 260,243 | Two File objects on one file, any call failing. `WellFormed`, `ReadsAreFaithful`, and the refinement of `PlainFile` request by request (`ImplementsPlainFile`). After a truncation by path behind an open File, or a torn block, reads return right bytes or an error. |
| `locking` | 306,927 | Two requests step by step: `OneEntryPerInode`, `NoCloseUnderWriter`, `HeaderMatchesBlocks`, `ReadsAuthenticate`; every request ends (`RequestsEnd`). |
| `path_truncate_race` | violated | `HeaderAlwaysMatchesBlocks`: truncation by path between `createHeader` and `WriteAt` (section 7). |
| `namespace` | 633,562 | Two requests in one mount, one request with crashes, two mounts, one directory renamed over another: files are listed at every moment (`FilesAreListed`), no `.name` file or diriv is left over (`NothingLeftBehind`), a directory with entries keeps its diriv (`NamesStayDecryptable`). Two mounts with -sharedstorage agree on the header of a file, keep each other's bytes, read again under a lock what they met half written, and of the requests under way one can always go on (`SharedFileIsSound`). |
| `rename_over_dir` | violated | `DirsAreListed`: a directory renamed over an empty one with a long name (section 7). |
| `shared_header` | violated | `HeaderIsKept`: truncation makes a second header (section 7). |
| `mount_state` | 316,185 | Inode numbers up to the end of both spaces (`Unique`, `Stable`); directory cache with renames, reused inodes and a full descriptor table (`DirCacheIsSound`); credentials with failing calls (`CredentialsMatch`); attributes with racing requests (`XattrsAreAMap`); the key cache refines an LRU cache, call by call (`ImplementsLruSpec`). |
| `xattr_list_race` | violated | `ListingSurvivesRaces`: attributes change twice during a listing (section 7). |
| `external_keys` | 258,313 | Overlapping batches, lost sessions, lost and replayed answers, Wipe: `RightKeys`, `SequencesIncrease`, `SessionLossIsMasked`; every request ends. |
| `fsindex` | 1,250,191 | One client that dies twice, two clients at once: `AcceptedCacheIsCurrent`, `IndexMatchesBlobs`, `NothingTorn`. Pure algorithms: offsets and seeks against reference definitions (`OffsetsAgree`), records sealed, damaged and read back (`OnlyIntactRecordsRead`), names stored, shown and looked up (`NamesRoundTrip`), frames sent, answered and altered (`FramesAreUnambiguous`). |
| `process` | 324,116 | -init and -passwd that overlap and die anywhere (`MasterKeySurvives`); mounts with one socket path under signals, kills and failing unmounts (`MountIsServed`), and their parents (`ParentTellsOutcome`); idle monitor (`UnmountsOnlyWhenQuiet`, `IdleIsUnmounted`); any two defects in a tree with a hard link (`ExitZeroMeansClean`); the lock upgrade of write-only opens (`RelaxedIsPrivate`); random bytes (`NoByteTwice`). Opens, reads of random bytes and fsck end (`NothingHangs`). |
| `ctlsock` | 41,960 | Queries that time out on a connection that is kept, renames under way: `AnswerIsRight`, `QueryReturns`. |

In `namespace`, `mount_state`, `fsindex` and `process` a behaviour belongs to one part (`part`), the other parts stay in their initial
state: the parts share no variable, so their product would only multiply states.

Some properties carry a condition because the code does not have them without it: `~damaged` (nobody has truncated by path behind an
open File, and no write has failed in the middle of a block) and `~byPath` (nobody has truncated by path), `sure` (no name has changed
between `n.Parent()` and `Openat`), `~raced` and `~zeroed` (no two -init have overlapped, no -passwd -zerokey has replaced the config),
`Undisturbed` (one mount, no crash), `~nameLost` (no directory has been renamed over one with a long name), `~remade`, `~resized` and
`~misfit` (no header made by truncation or taken back, no truncation to a size other than zero, no write that met an end of the file it
had not seen), `~dropped` (no report of fsck has timed out), `Alone` (one client). Section 7 says what happens otherwise.

Deadlock checking is off where a behaviour may really stop: a bound on runs, queries, sizes or crashes is used up, a
file system is unmounted, fsck has ended, all inode numbers are given away.

## 4. Bounds

* *Content*: blocks of 2 plaintext bytes, files up to 5 bytes (three blocks, the last one partial), a payload of two different
  bytes, which is a block at an even offset and parts of two blocks at an odd one; zero padding and growing write single bytes as
  well. Every relation of offset, size and block boundary occurs; the code has no other use of the block size. Two handles, because
  `isConsecutiveWrite` compares with at most one other writer. A handler makes at most five calls that can fail (`MaxCalls`). Reads have one
  range: what they return is `ReadsAreFaithful`, for every range, and what they leave behind, a cached ID, is the same for all.
* *Locking*: two threads, handles, entries and file IDs. A third thread adds no new pair of critical sections, and the
  theorems of section 6 hold for any number; only `RequestsEnd` rests on the bound.
* *Namespace*: the root and one directory, one short and one long name in each, two files, for two requests at once and
  for one that crashes; two mounts use the long name only. A fourth setting has one request at a time and two
  directories without files, so that one is renamed over another and Rename calls Rmdir and tries again. With a
  file in addition (893,183 states, five minutes) the properties hold as well.
* *Shared file*: two mounts, blocks of two bytes, two blocks, two file IDs, and three settings: two writers whose ranges meet
  in a block, one reading and one truncating to zero; a writer beside a mount that truncates to 1, 3 and 4 bytes; a writer
  beside two reads at once. Ranges that overlap, and ranges that only share a block, occur, and every pair of operations
  except a read beside a truncation to a size other than zero, about which nothing is claimed.
* *Inode numbers*: 48 bits become one (`PassthruSpace` = 2), 15 bits become `MaxNamespaceId` = 2, the spill
  space has four numbers: each counter reaches its end. The theorems hold for the real values.
* *Directory cache*: one entry, three descriptors, two threads, two names and two inode numbers that are used twice: eviction, reuse
  and EMFILE occur, and two directories trade names. The theorem holds for all sizes.
* *Attributes*: one user attribute, the ACL, and attributes of others; values below, between and beyond the sizes of the two
  buffers; buffers and limits are scaled to a few bytes. *Credentials*: two goroutines, two users, two OS threads.
* *Key cache*: three entries: head, middle and tail differ; one key that is accepted and one that is not.
* *External keys*: two threads, ranges of two keys that the card derives one at a time, caches of two, two sessions, of
  which one may get lost, four relays per session, and a card that accepts sequence numbers 0 and 1 only. The three
  settings (overlapping ranges, lost session, wipe) are not combined with each other; the theorems of section 6 combine them,
  for any number of threads, sessions, relays and losses.
* *Index*: two files and a directory, two crashes for one client; one file and a directory for two clients.
* *Records*: lengths at, and one beyond, every limit the code tests. *Ranges*: every range within five blocks; *seeks*: every
  file of up to three blocks, every set of holes, every further allocation.
* *Names*: all names of up to three bytes, and longer ones of equal bytes up to one beyond the limit; AES blocks of two bytes,
  `longNameMax` of 8. *Frames*: 2^16 becomes 32, the short APDU 20 digits; parameters at and beyond each limit.
* *Random bytes*: buffers of 4 bytes, four batches, two readers of 1 to 3 bytes.
* *fsck*: five paths of all kinds, one hard link, defects on two inodes at once.
* *Control socket*: one client, two queries, one rename, a buffer of five units, the root and one directory.
* *Process*: two processes and four runs of -init or -passwd, with the combinations of options that `MCOptions` lists, and one
  password, which no property tells from another; -idle values that do and do not divide by the four
  checks per period, below and above the longest sleep.

Symmetry is used in `content`, `namespace`, `rename_over_dir` and `mount_state`, none of which has a liveness property. The refinements of
`content` and `mount_state` have no fairness; the requests of the first name a handle, which `PlainFile` does not look at, and the
permuted inode numbers, names and threads of the directory cache do not occur in the second.

## 5. Fairness

`locking`, `external_keys` and, in `process`, opens and reads of random bytes assume strong fairness of the steps of each
goroutine: the Go scheduler runs what can run, `sync.RWMutex` holds new readers off while a writer waits, and a
`sync.Mutex` is handed over in the end. Arrivals of requests are never fair. In `external_keys` a call to the key server
ends as well (the HTTP client has a timeout). `process` further assumes weak fairness of the idle monitor (time
passes), of `refillWorker`, and for fsck of the walk, of reports that meet their receiver and of the watcher, but none of the
one-second timeout: nobody depends on it. Its parts exclude each other, so one formula over the steps of several parts is
as strong as one for each. `ctlsock` assumes that the goroutine of a connection runs and that a Read with data
ready returns; the client's timeout is not fair. The other runs check safety only.

## 6. Proofs

All from the named assumptions of the modules:

* `LockingAssumption`: distinct special values, finitely many handles; `InoMapAssumption`: the id space times 2^48 fits below the
  spill space; `DirCacheAssumption`: positive sizes, distinct special values; `AsUserAssumption`, `OpenAssumption`: distinct special values;
* `ConfigFileAssumption`: the right key differs from a wrong one, a file that is missing or half written from a whole one;
* `IdleAssumption`: the -idle duration is at least 4 units (nanoseconds in the code, which divides it by 4 and then by the result);
* `PrefetchAssumption`: distinct special values, and a read asks for at most a batch, as in `randPrefetcher.read`;
* `ExternalKeysAssumption`: positive sizes, and a new card session has sequence numbers for all the batches of one `waitForKeys` (22
  in the code, which counts in an int64).

A component whose module is instantiated has its assumption in front of the theorem, and `PartAssumptions` of the MC module checks it.

* **`FileLockingProofs`**: `TypeCorrect`, `TableCorrect` (`OneEntryPerInode`), `MutualExclusion` (`WritersAreAlone`),
  `ReleaseWaits` (`NoCloseUnderWriter`). None of these is inductive: that Unregister drops the right entry depends on
  which handles exist, that a lock is free depends on where the threads are. `ControlInv` adds, for each thread, which
  labels its request can be at and which handle it holds (`RequestOK`), that a handle made for truncation
  by path has one user (`PrivateOK`), the count of live handles (`TableOK`) and that the holders of each lock are exactly
  the threads inside (`LockOK`). All steps between two locks are one kind of step (`Local`) for this invariant.
* **`FileIDProofs`**: `HeaderAndBlocksAgree` (`HeaderMatchesBlocks`), `ReadsNeverMismatch` (`ReadsAuthenticate`),
  `WritesMatchHeader` (`WritesUnderHeaderID`). `DiskInv` adds to `ControlInv` what a request knows about the
  header at each label (`ThreadOK`), and what disk and cache look like when no writer is in between (`BodyOK`,
  `CacheOK`). It is preserved as long as nobody has truncated by path, hence `SafeInv == ~byPath => DiskInv`.
* **`NodeProofs`**. *Inode numbers*: `TypeCorrect`, `TranslateUnique`, `TranslateStable`, `RootNumbersPassThrough`. `IInv` says that
  ids are injective and below the counter, spill numbers lie between the start and the counter, and each number
  given out has one of the two forms; the arithmetic core is `PassthruInjective` and `PassthruBelowSpill`.
  *Directory cache*: `DirCacheIsRight` (`DirCacheIsSound`). That an entry has the right IV depends on no other entry, and no thread, ever closing
  its descriptor, that it is for the right directory on when it was opened, perhaps by another thread. `DirInv` says that go-fuse knows
  the name of each directory but those that are being moved (`TreeOK`), that the descriptor of an entry or of a running operation is
  open on the directory its Node stands for now, if it is `sure`, and that its IV belongs to it in any case (`EntryOK`, `OperationOK`), that no two of them share one (`OneOwner`), and that each open one has an owner (`NoOrphan`).
  *Idle monitor*: `IdleMonitorWaits` (`UnmountsOnlyWhenQuiet`). The property is about time, the monitor only counts. `MonitorOK` says, at
  each label, that as long as the marker has not been reset the quiet time has reached the checks counted, times their period, plus the time
  slept since; `RoundsUp` and `WholeCycles` turn the count at which `idleMonitor` unmounts into the -idle duration.
* **`MountProofs`**. *Mount*: `MountsAreServed` (`MountIsServed`), `ParentTellsTheTruth` (`ParentTellsOutcome`). `MountInv` adds, for each
  process, what its socket, mount and keys are at each label of `doMount` and of the signal handler, which has come to its end in one of
  two ways (`ProcOK`), and what its parent can have seen (`ParentOK`).
  *Config file*: `ConfigFileIsKept` (`MasterKeySurvives`). The rename that replaces `gocryptfs.conf` is safe because of what happened
  several steps before. `ConfInv` says that what a process is about to put there is valid and, unless two -init have overlapped, has the
  flags of the file system and the master key if neither the backup has it nor -zerokey replaces it (`JobOK`), that the `.tmp` file has
  one writer, because it is opened with O_EXCL, and that an -init which met no other works alone (`PairOK`).
* **`PartProofs`**. *Credentials*: `CallsRunAsTheirCaller` (`CredentialsMatch`). `UserInv` says that a thread has one goroutine that has locked
  it, what is set and not yet set back on it at each label of `asUser` (`LockedOK`), and that all other threads have nothing of a caller.
  *Write-only opens*: `RelaxedModeIsPrivate` (`RelaxedIsPrivate`). `OpenInv` adds who holds `openWriteOnlyLock` at
  each label, and that the mode on disk is the one the user chose unless the holder has just relaxed it.
  *Random bytes*: `PrefetcherGivesEachByteOnce` (`NoByteTwice`): numbering the bytes as `refillWorker` makes them, `RandInv` says that those
  in the buffer, in the channel and in the reader that holds the mutex are distinct, were made, and have not been handed out.
  *Records*: `UnitCountIsExact` (least number of info-chunk units, for every length), `RecordsFitTheirChunk` (a record of legal length
  never exceeds `MaxInfoChunkUnits`).
* **`ExternalKeysLemmas`**, **`ExternalKeysProofs`**, **`ExternalSessionsProofs`**: three theorems over three invariants, each of which
  contains the one before.
  `CachedKeysAreRight` (`RightKeys`): an answer that is late must not be taken for the answer to a later command. `KeysInv` says that a
  thread between `waitForKeys` and the end of the fetch holds `Client.mu`, and that the command it is sending has a sequence
  number that no answer on its way has in that card session (`CommandOK`).
  `SequenceNumbersIncrease` (`SequencesIncrease`): `SeqInv` says that what the holder of the lock has read from the envelope, in steps,
  is still there (`EnvelopeOK`), and that the counter is at least what the key server has seen (`CounterOK`).
  `SecondAttemptSucceeds` (`SessionLossIsMasked`): `LossInv` says that the key asked for is stored, fetched or first in the next batch
  (`BatchOK`), and that a second attempt that no fault has met has live sessions and sequence numbers for all its remaining batches
  (`LossOK`). TLC has checked `LossInv` with two and with three sessions (7,336,294 states) before the proof.

The type invariants, `WritersAreAlone`, `WritesUnderHeaderID` and `RootPassesThrough` are proved and no longer part of a run.

Model-checked only:

* liveness (`RequestsEnd`, `IdleIsUnmounted`, `NothingHangs`, `QueryReturns`), which needs fairness and ENABLED;
* what recursive definitions compute for every input, which needs induction over data: `OffsetsAgree`, `OnlyIntactRecordsRead`,
  `NamesRoundTrip`, `FramesAreUnambiguous`, and what `FileContent` takes from `ContentOffsets` (`WellFormed`, `ReadsAreFaithful`,
  `ImplementsPlainFile`);
* `Namespace` (`FilesAreListed`, `NothingLeftBehind`, `NamesStayDecryptable`) and `SharedStorage` (`SharedFileIsSound`): programs of
  up to a dozen system calls, each of which needs its own assertion about the tree; not done;
* `FsIndex` (`AcceptedCacheIsCurrent`, `IndexMatchesBlobs`, `NothingTorn`), `Xattr` (`XattrsAreAMap`), `Fsck` (`ExitZeroMeansClean`),
  `ControlSocket` (`AnswerIsRight`) and the refinement `ImplementsLruSpec` of `KeyCache`: not done.

## 7. Where code and documentation differ

Four disagreements have a run of their own:

* `path_truncate_race`: "Every writer must take this lock before modifying the file content"
  (`open_file_table.go:43-44`), but `Node.Setattr` truncates without it. Blocks can end up in a file without header.
* `rename_over_dir`: a long name is "stored in two files" (`longnames.go:17`), but Rename over an empty directory
  deletes the `.name` file it has just found. An exchange can then put a file in the place
  of that directory, which is why `FilesAreListed` has the condition `~nameLost`.

* `shared_header`: "With -sharedstorage, we keep the on-disk file header. Other mounts may have the file ID cached so we cannot
  mess with it" (`file_allocate_truncate.go:123-124`), but `truncateGrowFile` makes a header, without a lock, whenever the
  file has no content (`file_allocate_truncate.go:241-249`). Two mounts end up with two file IDs for one file.
* `xattr_list_race`: when an attribute is added during a listing, "we could fail with ERANGE. This is ok as the caller will retry"
  (`sys_common.go:217-218`). If the size probe returned 0, the last call has an empty buffer, is a probe again, and its result
  is used to slice that buffer: a panic.

Others are the reason why a property has a condition, or does not say more:

* A truncation by path does not advance `writeOpCount`, so a consecutive write after it may skip padding
  (`file.go:394`): `~damaged`.
* `WriteAt` can fail after a part of a block (an I/O error, or no space and -noprealloc), which then authenticates no more: `~damaged`.
* On a miss `prepareAtSyscall` asks go-fuse for the name of the directory and then opens what has this name. If a rename comes in between,
  the descriptor of another directory is stored under the Node, and operations in the one go to the other until the cache
  expires (`dircache.go`, at most a minute): `sure`.
* Nothing keeps two -init apart that have both found the directory empty (`init_dir.go:65`): the second replaces the config, and
  with it the key, of a file system that the first has reported as created, and may leave a diriv that its own flags do not
  ask for, or miss one that they do: `~raced`.
* -passwd -zerokey encrypts the zero key with the new password and, unlike -passwd -masterkey, makes no backup (`main.go:106`): `~zeroed`.
* With -sharedstorage the kernel may send a rename between two links of one file; nothing is renamed, the `.name` file
  of the source is deleted (`node.go:512`): `FilesAreListed` is about one mount. A crash between creating and writing a `.name`
  file leaves an empty one that the next Create or Rename takes as it is (`node.go:480`); with crashes `FilesAreListed` says that
  the `.name` file exists.
* With -sharedstorage, and excluded by the conditions of `SharedFileIsSound`: a write that leaves a hole calls `Stat` before it
  locks anything, so the block another mount appends meanwhile may be left short, and undecryptable, in the middle of the
  file, or be padded with zeros over the new bytes; a header that is taken back for lack of space (`file.go:369`) may
  already be cached elsewhere; truncations to sizes other than zero take no lock around their reads and writes. Two
  reads at once on one File share a lock, and the first to end releases it for both, so that a read that is repeated can still
  meet a half-written block and return EIO (`Holds`). A truncation that shrinks while another mount truncates to zero calls
  `doWrite` without data; "Empty writes do nothing and are allowed" (`file.go:286`), but `blocks[0]` panics (`NoBlocks`).
* An attribute value whose encrypted form has exactly `XATTR_SIZE_MAX` bytes can be set, and reading it fails with EOVERFLOW on
  Linux too (`sys_common.go:159-161` expects that on MacOS only).
* `EncryptAndHashBadName` tests `cName` while it is still empty (`badname.go`), so a damaged long name is shown and not found.
* `SEEK_HOLE` may return the beginning of a block that is data, and `SEEK_DATA` that of one that is a hole, when the
  section in between is smaller than a block; no data is passed over.
* `openWriteOnlyFile` only logs that it could not restore the mode.
* `Wipe` calls `card.Close` without `Client.mu`, and after it `session` is nil. Two requests that come later both find no session
  and establish one at the same time, without the lock, so that they can send the same one, although "TTE sequence numbers are strictly
  increasing per transport session" (`transport.go:149-150`); the key server rejects the second. `SequencesIncrease` ends with `Wipe`, `SessionLossIsMasked` when it begins.
* `Save` removes the dirty marker whoever has set it (`fsindex.go:255`): `Alone`.
* `openWriteOnlyFile` writes back the mode it read before it waited for the lock, over a chmod in between.
* SIGINT before `handleSigint` has its default effect: `MountIsServed` begins with the handler. When both `srv.Unmount` and the lazy
  unmount fail, or on MacOS the first of them, the handler ends the process all the same (`mount.go:603`, `619`).
* `cleanupOrphanedSocket` can remove a socket that has come to life since it was found dead.
* Operations on the root directory itself do not reset the idle marker.
* fsck compares a `*PathError` with `os.ErrPermission`, so a file it may not open is listed as corrupt.
* After a time-out the next query on a connection can get the answer of the one before; an answer that cannot be
  parsed is returned as an empty success. `AnswerIsRight` is stated accordingly.

## 8. What is not modelled

* Ciphers, key derivation, random numbers: ideal. A block, name or record authenticates exactly if it is what was sealed.
* Power failures (what was not synced may be lost): only the death of the process.
* Reverse mode (`fusefrontend_reverse`, `pathiv`): `initFuseFrontend` sets the external backend (`mount.go:351`) and then
  panics for -reverse, which needs AES-SIV (`mount.go:391`); no execution gets there. FIDO2 runs external commands.
* -plaintextnames and -deterministic-names in `Namespace`: no diriv, and in the first no `.name` file, to keep consistent.
* Getattr, Lookup, Statfs, Readlink, Getlk/Setlk, Fsync: one system call that is passed through.
* The JSON of the transport envelope, `getdents`, certificate pinning and identity lookup: sequential conversions and prompts.
  Content behind the info-chunk of a blob (`OpenContent`): no caller in the repository.
* Allocate, and truncation by path, between mounts (`SharedStorage`); Unicode normalisation of names on MacOS.
* Command line, logging, passwords, stand-alone tools.

## 9. Plan

The order was: content and its locks (what users lose data by), names, keys, index, process. Next:

1. *Model*: `planKeyBatches` at the end of the 64-bit range; Allocate between mounts; an abstract tree that `Namespace` implements
   while it is undisturbed.
2. *Compose*: `IdleMonitor` with `Mount`; `DirCache` with `Namespace` in place of `known`.
3. *Prove*: the closed forms of `ContentOffsets` (sizes round trip, ranges match); `WellFormed` with the cached ID; for
   `Namespace` `NamesStayDecryptable`, then `NothingLeftBehind`; `AcceptedCacheIsCurrent`; the header part of `SharedFileIsSound`;
   the safety part of both refinements.

## 10. Running it

    tlc -config FileLocking.cfg FileLocking
    tlapm FileLockingProofs.tla

Each run takes between ten seconds and three minutes, each proof module up to ten minutes on one core.
