# A verification project for the JFS translator

The repository holds a read-only translator that makes a JFS disk available as
a file system on the GNU Hurd. It is a client of `libdiskfs`, `libpager`,
`libports` and `libstore`: the libraries receive the RPCs, run one thread for
each of them, and call the functions of this program. This directory holds
TLA+ modules for the parts of the program that keep state or compute
something, configurations that check small instances of them with TLC, and
proofs, checked by TLAPS, of the invariants that matter for instances of any
size.

## 1. The system

| Component | Files | State | Operations | Hard about it | What makes it correct |
|---|---|---|---|---|---|
| Node cache | `dir.c` | `nodehash` with `hnext` and `hprevp`, the nodes with `references`, `dn_stat`, `lock`; `diskfs_node_refcnt_lock` | `inode_init`, `diskfs_cached_lookup`, `read_node`, `diskfs_node_norefs`; `nref`, `nput`, `nrele` of libdiskfs | one update of a count without the lock; a node is visible before it is read; a failed read leaves it behind | one node per inode number; counts account for their holders; no node is freed in use; locks are released |
| File pagers, shutdown | `pager.c`, `dir.c` | `np->dn->fileinfo`, `user_pager_info`, light references, `node2pagelock`, the pager bucket | `diskfs_get_filemap`, `pager_clear_user_data`, `diskfs_pager_users`, `block_caching`, `enable_caching`, `diskfs_get_filemap_pager_struct` | an uncounted pointer to a pager that may be dying; a late clear of a replaced pager; a wait of a second before a second count | `fileinfo` never dangles; one pager per mapped file; light references balance; no shutdown under a pager |
| Page reads | `pager.c`, `callbacks.c` | none across calls; the kernel's pages | `pager_read_page`, `pager_unlock_page`, `pager_write_page` | page size against block size; the end of the file; holes; which accesses lead to a write | the page holds what the file holds; nothing is ever written back |
| Extent tree | `jfs_fileread.c`, `jfs_inode.c` | the tree on disk | `xt_Lookup`, `find_iag` | binary search over pages with a two-slot header, at three levels | the extent that covers the block, no entry outside a page, termination |
| Directories | `dir.c`, `jfs_dirread.c` | `UTF8_Buffer` (global), `gotinum`, positions | `diskfs_lookup_hard`, `dirscan`, `directory`, `print_direntry`, `diskfs_get_directs`, `readndir`, `name_inum` | a global buffer without a lock; a lock given up in the middle of ".."; uninitialised results; names compared by prefix; a limit of 30 entries | names are found with their own inode; listings neither skip nor repeat |
| Name conversion | `jfs_dirread.c`, `jfs_unicode.c` | none across calls | the walk along the slots of a name, `Unicode_String_to_UTF8_String`, `Unicode_Character_to_UTF8_Character` | names that fill a slot; a length in characters passed as a length in bytes | the name on disk, in whole, right characters, inside the buffer |
| Inode map, block reads | `jfs_inode.c` | none | `find_inode`, `xRead`, `ujfs_read_diskblocks` | shifts and masks over groups, extents and blocks; several inodes in a block | the inode at the address the map gives |
| Page buffer pool | `jfs_fileread.c` | `bCachelist` (global) | `bRead`, `bAllocate`, `bRelease` | a global list without a lock | no buffer in two hands |
| Startup | `jfs.c`, `hyper.c` | `diskfs_root_node`, `jfs_sb`, `disk_image` | `main`, `create_disk_pager`, `get_hypermetadata` | order; the first page fault | the superblock is mapped and checked before it is used |
| Read-only callbacks | `callbacks.c`, `storeinfo.c` | none | constant results, `abort ()` | which of them can be reached | none that aborts is |

How they interact. A name lookup (`diskfs_lookup_hard`) scans the directory
(`directory`), converts each name (`Unicode_String_to_UTF8_String`), and passes
the inode number it finds to `diskfs_cached_lookup`, which calls `find_inode`,
`find_iag` and `xRead` when the node is new. A page fault arrives as
`pager_read_page`, which searches the extent tree with `xt_Lookup`; the pages
of the tree are read through the pool. Everything that reads the disk by
address goes through `disk_image`, the mapping served by the disk pager, so
page faults of the translator itself end in `pager_read_page` too. The
interesting state that threads share is `nodehash` and the counts,
`fileinfo`, `UTF8_Buffer` and `bCachelist`; of these, the first two have locks.

There is no persistent state that the program changes, so there is no crash
recovery, and no message the program itself may lose: the RPCs and the
notifications of libports are reliable, but come in any order.

## 2. The modules

`NodeCache`, `HashChain`, `FilePager`, `PageRead` (with `InodeMap`), `XTree`,
`BufferPool`, `Directory` and `Unicode` model the components. `NodeTable` and
`ExtentMap` are abstract: what other parts of the program may rely on.
`MCX` gives the constants of `X` that are structured (trees, directories,
files, names) their values for TLC. `XProofs` has the theorems and proofs about
`X`. Definitions named in a comment "Mutant" are altered forms of an action or
operator, each a plausible slip, used to see that the properties notice it; no
specification uses them.

How the modules hang together:

- `NodeCache` and `HashChain` look at `nodehash` from two sides: many threads, with
  the table as a set; and one operation at a time (all run under
  `diskfs_node_refcnt_lock`), with the links. Both implement `NodeTable`.
- `XTree` implements `ExtentMap`. `InodeMap` and `PageRead` use what the search
  finds as a function from blocks to addresses (`IagMap`, `map`), which is what
  `ExtentMap` promises.
- `PageRead` extends `InodeMap`: a page fault goes from the inode number through
  the inode map to the page.
- `BufferPool` has the searches of several threads, with what they find in a page
  left to `XTree`.
- `Directory` has with each name what `Unicode` may write for it, and leaves the
  inode number that it finds to `NodeCache`. Its assumption `Written` on the two is
  what `AsciiExact`, `WholeCharacters` and `OutputFits` say: an ASCII name is written as
  it is, and the first byte that is not the one of the name stands where a character
  beyond ASCII was left out.

### NodeCache

One variable for each field of a node (`inum`, `refs`, `stat`, `mutex`), the set
`hashed` of nodes in `nodehash`, the spin lock, and for each thread where it is
and which node it has in hand. A section under the spin lock is one step, with
one exception: because `dir.c:358` changes `np->references` with no lock held,
all changes of a count are split into a load and a store (`LookupHit` /
`LookupCounted`, `CreatorLoad` / `CreatorStore`, `NrefLoad` / `NrefStore`, and so
on). `lost` and `leak` are history variables: what stores overwrote, and the
references nobody releases (the one `diskfs_make_node` gives, since `dir.c:358`
adds another, and those of lookups that failed). `read_node` can fail before it
takes the spin lock (`ReadNodeFails`), or with the lock held
(`ReadNodeException`, after which nobody can take it any more). A freed address
is not used again, and a thread that would touch a freed node stops there:
whether that can happen is what `NoUseAfterFree` is about.

### HashChain and NodeTable

The heads of `nodehash`, and `hnext` and `hprevp` of each disknode. A place that
`hprevp` may point to is a head or the `hnext` of a node; unlinking writes to that
place, whatever it is. Addresses are recycled, and a freed disknode holds
`Freed`, which is no pointer, so that a stale link shows. `NodeTable` is a set of
pairs to which a lookup adds one that is missing and from which the removal of a
node takes one. The refinement mapping of `HashChain` is the set `Linked` of nodes
that can be reached from the heads, that of `NodeCache` the set `hashed`. `Linked`
is the intersection of all sets that hold the heads and that no link leads out
of, which needs no counting of links.

### FilePager

A `user_pager_info` record goes through the phases free, alloc, live, dying,
clearing, cleared. `diskfs_get_filemap` is split at its lock operations and at
`pager_create`, which waits while the bucket is inhibited. `NoSenders` is the
deallocation of a pager's port, after which `pager_clear_user_data`
(`ClearLock`, `ClearUnlock`, `ClearRelease`) runs on a thread of libports at any
later time. `diskfs_pager_users` is a process of its own with the states idle,
blocked, recounted and so on, so that files are mapped and pagers die while it
sleeps. libports and the clients are external; the comment at the top of the
module says what is assumed of them. Addresses are used again here.

### PageRead and InodeMap

One call of `pager_read_page` from the fault to the page handed over, and then
what the kernel does with the page. `InodeMap` has the address arithmetic of
`find_inode` and the copy of `xRead` as operators; the powers of two of the source
are constants. `MapAssumption` says where a file system has its inodes, in terms
of an array of extents that the code does not know. Sizes are counted in units
of 512 bytes, the size of an inode; each unit of the store holds its own address,
so that the contents of a page say where they came from. `UnitOf` and `InStore`
say, without the code's arithmetic, where a unit of a file is and whether the
store has all of its block. `PAGE` is both
`vm_page_size` and the number 4096 of the source; `BSIZE` is the block size of the
file system. `mem` is the kernel's copy of the page: what `*writelock` and
`pager_unlock_page` leave it, dirty once it was written to, and sent to the
`assert (0)` of `pager_write_page` from there. `malloc` and `store_read` may fail
(`InodeNoMemory`, `StoreFails`); `failed` remembers that one did. A read that goes
beyond the end of the store is short (`Short`), which is `EIO` as well.

### XTree and ExtentMap

The loop of `xt_Lookup`, step by step, on any tree that satisfies `WellFormed`;
`find_iag` has the same loop and differs in the key, the result of a miss, and
in that it first reads the fileset inode, which may fail. `WellFormed` says
which keys each page is responsible for; this is what JFS guarantees of its
trees and all that the proof needs. In `ExtentMap` there are no pages: a call
asks one question about a set of extents, and one step answers it. The
refinement maps every step of the search but the last to a stutter.

### BufferPool

The list `bCachelist` of page buffers, with every read and write of it a step of
its own, as nothing protects it. A search reads pages down to a leaf, and it
uses the page that is in its buffer, not the one it asked for. `raced` is a
history variable: two operations on the list have overlapped. `NBUFFER`, 8 in the
source, is chosen at the start.

### Directory

Lookups and listings by several threads. Bytes are numbers. An entry has its `name`,
in the UTF-8 that a client asks for, and `utf8`, what the conversion writes for it;
the two are the same for ASCII names only. The entries of a directory are in the
order of their names. The comparison is the one of the source (`Agrees`): bytes of
the buffer, which is of `uint8_t`, with the bytes of a `char *`, which are negative
from 128 on (`Signed`). Clearing the buffer, converting a name
into it and using it are three steps. While two threads are inside them there is
a data race on the bytes of the buffer, whose outcome is left open: `Racy` lets
each byte be that of either name, or 0. `shared` remembers up to the end of a call
that another one was in the buffer at the same time. `gotinum` of
`diskfs_lookup_hard` starts with any value. A lookup of `..` gives the lock of the
directory up while the parent is looked up (`LoadDotDot`, `Relock`), or for good.
Every `malloc` may fail; `nomem` remembers that one did in the current call.
`diskfs_cached_lookup` only succeeds or fails here.

### Unicode

A name as it is on disk, in the entry and in a chain of slots, is gathered slot
by slot, as `name_inum` and `print_direntry` do, and then converted character by
character, with the number of bytes these two callers allow. The bits of the
table are arithmetic on numbers. `CharAt` is the reference: it decodes UTF-8 in
the usual way and knows nothing of the table.

## 3. What is checked

| Run | Checks | Instance |
|---|---|---|
| `node_cache` | `TypeOK`, `RefAccounting`, `NoUseAfterFree`, `ImplementsTable`, `CountSettles`, `SpinReleased` | 2 threads, 2 nodes, 2 inode numbers, one unreadable |
| `hash_chain` | `TypeOK`, `BackPointers`, `ImplementsTable`, `SearchEnds` | 4 nodes on 2 chains, inode numbers -1, 0, 1 and 3 |
| `file_pager` | `TypeOK`, `LightAccounting`, `FileinfoValid`, `MappedPagerFound`, `SafeOrRefused`, `LoopEnds` | 2 threads, 2 nodes, 2 records |
| `xtree` | `TypeOK`, `IndexInBounds`, `LookupEnds`, `ImplementsMap` | all trees of up to three levels over 5 blocks, in the shapes of `MCXTree` |
| `buffer_pool` | `TypeOK`, `ListInPool`, `PoolSound`, `OwnPage` | 2 threads, trees of two levels below the root, 4 buffers, allocated one or two at a time |
| `directory` | `TypeOK`, `ExistingNameFound`, `InodeOfThisDirectory`, `ListsConsecutive`, `ListingProgress`, `CallEnds` | 2 threads; directories of two leaves, one leaf, and an empty one; among the names are "c", "cé", of which the conversion leaves "c", and "é", of which it leaves nothing |
| `unicode` | `TypeOK`, `OutputFits`, `NameGathered`, `WholeCharacters`, `AsciiExact` | names of up to 4 characters on the boundaries of the table, in entries of one character and slots of two |
| `page_read` | `TypeOK`, `RightInode`, `PageContents`, `MappedPageRead`, `NoWriteBack` | blocks of one page; two inode groups with a missing extent; all files of up to 3 blocks, with holes, of any size, and symlinks |

`OneNodePerInum` and `LookupCorrect` have no run of their own: they follow from
`ImplementsTable` and `ImplementsMap`, and are proved.

What they show, beyond that the invariants hold there:

- The unlocked increment of `dir.c:358` does lose updates: all those made between
  its load and its store. The reference that every miss leaks covers for one of
  them (`NoUseAfterFree`), and once the lookup that created the node has
  returned, none is lost any more (`CountSettles`). When a lookup and a `nref`
  fall into that window, two are lost and the node is freed in use; the
  hypothesis `lost[n] <= 1` of `NoUseAfterFree` cannot be weakened.
- `fileinfo`, although no counted reference, never dangles, because a pager
  clears it under `node2pagelock` before its record is freed and leaves it alone
  when it was replaced.
- The removal of a node through `hprevp`, without a search, takes out that node
  and no other, and never writes to a disknode that was freed.
- The only thing wrong with `bCachelist` is the missing lock: until two operations
  overlap, no buffer is lost or shared, and a search may release its parent page
  before it reads the child. Afterwards anything but a write to foreign memory
  may happen (`ListInPool`); searches may then follow pages of other trees.
- The prefix comparison of `print_direntry` finds every existing ASCII name, because
  the order of the tree puts a name before the longer ones that begin with it, and
  before those that agree with it only because the conversion left a wide character
  out. Of other names this is not true; see below.
- `pager_create` may wait with `node2pagelock` held while `diskfs_pager_users` keeps
  the bucket closed, and everybody who needs the lock waits with it. The wait ends,
  because opening the bucket again needs no step under that lock; only when the
  translator goes away does it not (`LoopEnds`).
- Whatever two threads do to `UTF8_Buffer`, inode numbers come from the right
  directory; only names go wrong.
- Since a page is handed out locked and is never unlocked, `pager_write_page` is
  never called.

Four runs show where the program does something else than the repository says.

| Run | Property | What happens |
|---|---|---|
| `node_cache_race` | `ModeKnown` | a second lookup returns a node before its creator has read it; `pager.c:53-55` asserts that its mode is known |
| `directory_buffer` | `NamesQuiescent` | two threads mix their names in `UTF8_Buffer`; `dir.c:182-184` says things are "necessarily quiescent" |
| `directory_dotdot` | `ParentFound` | a lookup of `..` looks up -1 or an unset number; the parent is in `idotdot` (`jfs_dtree.h:122`), which is only logged |
| `page_read_blocks` | `PageContents` | with blocks smaller than a page the wrong part of the disk is read; `pager.c:168-170` promises otherwise |

Some more differences need no run of their own.

- The node of an inode that could not be read stays in `nodehash`
  (`dir.c:357-360`), and its next lookup succeeds: `ModeKnown` fails for it with one
  thread as well.
- `Unicode_String_to_UTF8_String` gets the number of characters as the number of
  bytes (`jfs_dirread.c:82` and `329`), so that names with wide characters lose their
  tail. What is written is still made of whole characters. Names that differ on
  disk are listed as the same, and "cé" is found under "c" if there is no "c".
- No name with a character beyond ASCII is ever found. `jfs_dirread.c:333` compares
  a `uint8_t` of `UTF8_Buffer` with a `char`, which is signed on the Hurd's machine,
  so that no byte from 128 on is equal to itself; and the conversion would have cut
  the name as well. `ChangeLog:31` says of this buffer "Fix signedness".
- Only as many bytes as the name that is looked up has are compared
  (`jfs_dirread.c:331`): a lookup of "fo", which does not exist, finds "foo".
- A page in a hole of a sparse file has no extent, and `pager_read_page` returns 1
  for it (`pager.c:208-222`) where the file has zeros; only behind the end of the file
  does a page without an extent read as zeros. `PageContents` and `MappedPageRead`
  therefore leave such pages out.
- When `diskfs_catch_exception` fails, `read_node` returns with
  `diskfs_node_refcnt_lock` held (`dir.c:231`), and it is never released.
- `diskfs_lookup_hard` refuses REMOVE and RENAME with `EROFS` at once
  (`dir.c:144-148`), while `dir.c:157-158` says that the error for REMOVE depends
  on whether the name exists.
- When `diskfs_get_directs` stops at its limit, `*amt` counts the last record and
  `*datacnt` does not cover it (`dir.c:89-95`, with the correction of `*amt`
  commented out); `ListingProgress` and `ListsConsecutive` say that a caller who
  goes by the data still gets everything.

### Bounds

- Two threads are enough for every pair of steps to interleave, and for two
  updates to be lost. The invariants are also proved for any number.
- `MaxKeep`, `MaxHard` and `MaxRight` cap how many references clients hold. One
  is needed for each guard that compares with zero, two for a second holder.
- Three inode numbers on a chain let a node be first, last or in the middle when
  it is removed; the fourth node is on the other chain.
- With two records a file can have a dying or cleared pager and its successor at
  once, and a record can be used again for the other file.
- Five blocks allow three leaves with gaps before, between and behind their
  extents, and pages with odd and even numbers of entries.
- Two levels below the root make a search release one buffer and take another;
  `MaxBuf` of 4 is more than two searches need (`PoolSound`: 3). `Onward` is false:
  once operations have overlapped, searches under way go on but new ones do not
  begin, as little is claimed then.
- The code's 30 entries per listing are 2, so that a directory of 3 entries needs
  several calls. There are names that begin with each other, on disk and after the
  conversion. "c" and ".." are looked up; a name beyond ASCII is like one that does
  not exist, since its first byte beyond ASCII agrees with nothing, and is left to
  the proof.
- The characters are the first and the last of each row of `utf8_table` that a
  `uint16_t` can reach. Names of four characters fill the entry, the entry and one
  slot, and the second slot in part.
- The inode numbers are at the limits of extents and groups: in the first extent,
  in the one that is missing, in both extents of the second group, and behind the
  last group. Pages of two units show a file that ends inside a page, and blocks
  of two units two inodes in a block.

Deadlock is checked in `hash_chain`, `file_pager`, the directory runs, `unicode` and
`page_read`. It is not in `xtree`, where a search ends, in `buffer_pool`, where the
translator exits or faults, and in the `NodeCache` runs, where the addresses of
nodes run out and the error return of `read_node` blocks all threads by keeping
the spin lock.

### Fairness

- `NodeCache`: `WF` for the steps of a thread inside a call. The threads are
  kernel threads, which are scheduled; the program itself has no step that it
  may postpone for ever. New calls are not fair: a client need not make one.
- `FilePager`: `WF` for the steps of each call of `diskfs_get_filemap` but those of
  `pager_create`, for each `pager_clear_user_data` that has been started, and for the
  steps of `diskfs_pager_users`. `SF` for a `pager_create` that succeeds: opening the
  bucket wakes the threads that wait for it, and a shutdown that was refused took a
  second and is not repeated for ever without any of them running in between. Its
  failure is not fair, so that nothing rests on it. Dropping rights and starting a
  shutdown are not fair.
- `HashChain`, `XTree`: `WF` for the steps of a call in progress.
- `Directory`: `WF` for the steps of a call in progress, and `SF` for taking the
  lock of the directory again after `..`: a mutex that others keep taking and
  releasing is got in the end. With `WF` alone the other threads could keep
  it out for ever.

`SpinReleased` makes one exception: after an error of `diskfs_catch_exception`
`read_node` returns with the spin lock held, and it is never released.
`LoopEnds` makes one too: when `diskfs_pager_users` has reported no users, the
translator exits with the bucket closed, and `pager_create` never returns.

## 4. What is proved

For all values of the constants that satisfy the `ASSUME`s.

**NodeCacheProofs** (`CacheAssumption`: threads are finitely many, since holders
are counted). `TypeCorrect`, `OneNode`, `RefsAccounted`, `FreedUnused`, `Settles`,
`RefinesTable`. The inductive invariant `IInv` adds to `TypeOK`, `OneNodePerInum` and
`RefAccounting`: `SpinInv`, who holds the spin lock between the load and the
store of a locked update; `WhereInv`, that a thread has a node in hand exactly
inside a call; `CountInv`, that a node is hashed exactly while its count is
positive, and that the reference of `diskfs_make_node` is never given back;
`FreshInv`, that an unused address has no history; `PendingInv`, that a node
under creation or in a locked update is not freed meanwhile; and `CreationInv`,
that until the creator stores its increment nothing was lost, nobody else
creates the node, and every loaded value is current. The last two are why the
store of `dir.c:358` can neither revive a freed node nor lose more than what
fell into its window. `NoUseAfterFree` follows from `CountInv` and
`RefAccounting`. `CountSettles` is an action property, proved from `IInv` for each
action. `RefinesTable` shows that each action adds one entry, removes one or
leaves the table alone.

**HashChainProofs** (`ChainAssumption`). `TypeCorrect`, `LinksAgree`, `RefinesTable` and
`SearchShrinks`, for any number of nodes and chains. `BackPointers` is inductive
together with `TypeOK` and `WalkInv`: a search is at an allocated node, and only
freed nodes hold `Freed`. The refinement needs to know what can be reached. It is
said with sets instead of paths: `NoneLost`, that every set which holds the heads
and which no link leads out of holds all allocated nodes, is inductive on top of
`IInv` (after a removal the set with the node put back, or taken out, is such a
set of the state before); `Ahead` says the same of a search, for the nodes with
its inode number; with `OneNode` these are `TInv`. A search at the end of a chain
then has missed nothing, because the empty set is closed. From `NoneLost` and
`BackPointers` there is no cycle, and so every step of a search leaves the node it
was at behind for good (`SearchShrinks`): all of `SearchEnds` but the fairness.

**FilePagerProofs** (`PagerAssumption`: finitely many records). `TypeCorrect`,
`LightRefsAccounted`, `FileinfoNeverDangles`, `OnePagerPerFile`, `ShutdownSafe`. `IInv` has `LockInv` (who holds `node2pagelock`), `CallInv` (what a
thread inside the loop knows about its node and record), `RecordInv` (a live
pager is the one in `fileinfo`, and only live ones have rights), `PointerInv`,
`ShutInv` and `LightAccounting`. There is a lemma for each action; that a step on
one record changes the number of records of a node by at most one is
`RecordsStep`.

**XTreeProofs** (`TreeAssumption`: the trees are well formed). `TypeCorrect`,
`IndexSafe`, `SearchCorrect` and `RefinesMap`, for trees of any size and depth. The
loop invariant `LoopInv` says that the entries before `base` end before the key and
those from `base + lim` on begin behind it; `RangeInv`, that the key is one the
current page is responsible for; `DescendInv`, that the chosen child is too.
`CmpInv` says that a miss returns no 0. The correctness of a miss then follows
because the leaf is the only one responsible for the key, and with it the step
of `ExtentMap` that the end of a search is.

**UnicodeProofs** (`EntryAssumption`: a name has as many slots as it needs).
`TypeCorrect`, `ConversionFits`, `GathersName`, `AsciiNameExact` and
`ConvertsWholeCharacters`, for names of any length and entries and slots of any
size. The bytes written and the room that is left never exceed the length of the
name; `Walking` adds what holds until the conversion begins. `Gathered` says which
characters of the name on disk have been gathered: as many as `namlen` and `len`
leave, and a full entry and full slots as long as some are left. `AsciiSoFar` says
that what is written is the name up to `*ip`. `WholeCharacters` is inductive on
top of `IInv`: what is missing of the characters before `*ip` are characters beyond
ASCII, the pieces the output falls into stay where they are when one is appended
(`CharAtBefore`, `CharAtBehind`), and for each row of the table the bytes decode to
the character they came from (`TwoBytes`, `ThreeBytes`).

**PageReadProofs** (`MapAssumption`: the pages of the inode map say where the
extents of inodes are; `PageAssumption`). `TypeCorrect`, `InodeIsRight` and
`NeverWrittenBack` for all sizes; `ContentsRight` and `MappedIsRead` under the further
assumption `BSIZE = PAGE`, without which the first is false (`page_read_blocks`).
`ContentsRight` is about pages that are delivered, which those in a hole of a file
are not; `MappedIsRead` says that a page with extents is delivered unless `malloc` or
`store_read` failed during the fault.
`Progress` says what each stage of a fault has established, `ReadOnly` that the
kernel's page is never unlocked. Most of the work is in lemmas on quotients and
remainders: that group, extent and place are the digits of the inode number, and
that the page before the end of the file is the one the page number names.

**BufferPoolProofs** (`PoolAssumption`: finitely many threads). `TypeCorrect`,
`NoOtherMemory`, `PoolIsSound` and `PageIsOwn`, for any number of threads, buffers and
levels. `Memory` holds whatever overlaps: each pointer of the list or in a thread's
hands is Null or a buffer that was allocated. `Sound` holds until operations
overlap: at most one thread is inside an operation (`Alone`), nobody shares a
buffer (`Disjoint`), the list has the buffers that are in no hand, in some order
(`Shape`), and the number of buffers is within `Bound`.

**DirectoryProofs** (`DirAssumption`: only the root of a tree is empty, the entries
are in the order of the bytes of their names, and the conversion writes what
`Written` allows, which may be nothing, or the same for several names). `TypeCorrect`,
`NamesFound`, `InodeIsOfDirectory`, `ConsecutiveLists` and `ListingAdvances`, for any
number of threads, directories, leaves and entries, and any limit. The invariant
is one about each thread, `Local`: `Scan`, which entries a lookup has passed without
a match; `Result`, what `gotinum` and `err` say about them; `Walk`, where `readndir`
is; `Records`, which entries the records are of. Other threads only matter through
the bytes of the buffer, for which `shared` accounts. `NamesFound` is about ASCII
names; that no entry before the one with the name agrees with it is `NotAgrees`: at
the first byte where their names differ that entry has the smaller one, which is
then ASCII too and was written as it is.

Two modules reason about recursive functions: `Nth`, which follows the list of
`BufferPool`, and `Upto`, which joins the leaves of a directory. Both proofs go
through a least counterexample (`LeastNumber`), from the library's theorem that `<`
is well-founded on the natural numbers; the recursive definition itself is
unfolded by `Iterated`.

Every invariant, every action property and every refinement that a passing run
checks is proved. Only model-checked are the liveness properties (`SpinReleased`,
`SearchEnds`, `LoopEnds`, `LookupEnds` and `CallEnds`), as fairness is beyond the
prover, and that the four disagreements of section 3 happen.

## 5. What is not modelled

- Startup (`main`, `create_disk_pager`, `get_hypermetadata`): a single sequence of
  calls before any RPC is served. That `main` goes on with a store too small for
  the superblock (`jfs.c:122`), and that `hyper.c:41` ignores the result of
  `diskfs_catch_exception`, has no run.
- The callbacks with constant results: no state. `pager_unlock_page` is in
  `PageRead`.
- Argument parsing, logging, `diskfs_set_statfs`, the attributes `read_node`
  copies: assignments without control.
- `drop_pager_softrefs` and `allow_pager_softrefs`: nobody calls them. `get_inode`
  and `get_file` are not called either.
- Corrupted disks: trees, inode maps and directories are well formed.
- Memory: writing behind a buffer or a leak has no state in these models. The
  100 bytes that `readndir` and `diskfs_get_directs` allocate for a name are too few
  for one of 255 characters (`dir.c:60`, listed as a hazard), and those of `readndir`
  are never freed (`jfs_dirread.c:111`).
- Disk errors in the mapping `disk_image`: they end the translator. Nor does the
  `mmap` of a page of zeros fail (`pager.c:213` and `232`, unchecked).
- Flags of extents. `XAD_NOTRECORDED` (`jfs_xtree.h:71`) marks extents that are
  allocated and read as zeros; the code does not look at it and delivers what is on
  the disk, and so does `PageRead`.
- Directories in the format of OS/2: entries with 13 characters in their first slot
  (`jfs_dtree.h:65`), where the code always counts 11, and trees whose order takes no
  notice of upper and lower case. `EntryAssumption` and `DirAssumption` leave them out.

## 6. Plan

Done, in order of importance: `NodeCache`, `FilePager`, `XTree`, `Directory`, `Unicode`,
`HashChain`, the refinements of `NodeTable` and `ExtentMap`, `BufferPool`, `InodeMap`
and `PageRead`; the proofs of all their safety properties.

What is left: for the liveness properties, the part that is not fairness, as
`SearchShrinks` has it for `HashChain`, that is a quantity which every step of
`xt_Lookup`, of a directory scan and of a listing makes smaller.
