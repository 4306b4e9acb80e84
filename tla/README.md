# Models and proofs for the CSC369 assignments

The repository holds four independent C programs written for an operating systems
course.  They share no code and no state; what they share is the kind of bug: locks,
condition variables, kernel callbacks, page replacement, and on-disk structures that
several short programs change in turn.

## 1. Inventory

### 1.1 Intersection simulation (Assignment2)

| part | code | state | operations |
|---|---|---|---|
| schedule parser | `cars.c:20-44` | `lanes[].in_cars`, `inc` | `parse_schedule` |
| lanes | `traffic.h:30-65`, `cars.c:53-83` | `in_cars`, `out_cars`, `inc`, `passed`, circular `buffer` with `head`, `tail`, `in_buf`, `capacity`; `lock`, `producer_cv`, `consumer_cv` | `init_intersection` |
| arrival threads (4) | `cars.c:93-130` | program counter | `car_arrive` |
| crossing threads (4) | `cars.c:154-222` | `cur_car`, `path`, loop index | `car_cross` |
| routes | `cars.c:231-379` | none | `compute_path` |
| main | `traffic.c` | none | create, join, `verify` |

The arrival and the crossing thread of a lane share the lane through its mutex and two
condition variables; crossing threads share the four quadrant mutexes and the `out_cars`
lists of each other's lanes.  Hard: eight threads, three kinds of lock held together, lost or
spurious wakeups, the wrap of the ring, a process exit in the middle, and `compute_path`
itself, whose missing `break`s overwrite the route and whose result is cut to two elements by
`sizeof` of a pointer.  Correct means: no car lost, duplicated or overtaken in its lane; no
collision; no deadlock and no lost wakeup; the program always ends (but for one deadlock that
the route leaves, section 4); the printed lists are complete.

### 1.2 System call interceptor (Assignment1)

| part | code | state | operations |
|---|---|---|---|
| monitored pid lists | `interceptor.c:60-229` | `table[s].my_list`, `listcount`, `monitored` | `add_pid_sysc`, `del_pid_sysc`, `del_pid`, `destroy_list`, `check_pid_monitored`, `check_pids_same_owner` |
| control call | `interceptor.c:351-552` | `table[s].intercepted`, `table[s].f`, `sys_call_table[s]` | `my_syscall`: intercept, release, start, stop |
| generic interceptor | `interceptor.c:284-297` | reads the table | `interceptor` |
| exit hook | `interceptor.c:255-262` | pid lists | `my_exit_group` |
| module load and unload | `interceptor.c:575-662` | both tables, `orig_custom_syscall`, `orig_exit_group` | `init_function`, `exit_function` |

All of it runs on any CPU in any process's context.  `my_table_lock` protects the table,
`sys_call_table_lock` the kernel's table and its write protection.  Hard: checks made before
the lock is taken, the exit hook that takes no lock, processes that exit (and whose pids are
reused) in the middle of a call, the hand-over-hand unlocking of the two locks, loading and
unloading while calls are in flight.  Correct means: the kernel's table and the module's table
agree; no recursion into the interceptor; only live pids are in the lists, once; what is logged
is what was asked for; unloading leaves nothing behind.

### 1.3 Virtual memory simulator (Assignment3)

| part | code | state | operations |
|---|---|---|---|
| swap space | `swap.c` | bitmap, swap file | `bitmap_alloc`, `swap_init`, `swap_pagein`, `swap_pageout`, `swap_destroy` |
| page tables, frames | `pagetable.c` | `pgdir`, page table entries, `coremap`, counters | `init_pagetable`, `find_physpage`, `allocate_frame`, `init_frame` |
| replacement policies | `fifo.c`, `lru.c`, `clock.c`, `rand.c`, `opt.c` | queue, list, hand, reference bits, the trace | `*_init`, `*_ref`, `*_evict` |
| driver | `sim.c` | physical memory, trace | `access_mem`, `replay_trace`, `main` |
| statistics print-outs | `pagetable.c:229-290` | none | `print_pagedirectory` |

Sequential.  Hard: long sequences of accesses that take a page through first touch, dirty,
swapped out, swapped in clean, evicted clean; the policy's own structures staying in step with
the frames; slots that run out.  Correct means: a page read is the page last written; frame and
page table entry point at each other; no two pages share a frame or a swap slot; the counters
add up; each policy evicts the page its name promises.

### 1.4 ext2 tools (Assignment4)

| part | code | state | operations |
|---|---|---|---|
| allocation | `ext2_utils.c:80-349` | inode and block bitmaps, the free counters of superblock and group | `allocate_*`, `free_*`, `set_*_in_use`, `unlink_inode` |
| directories | `ext2_utils.c:355-586` | directory blocks, link counts | `init_dir_entry`, `find_entry`, `create_dir_entry` |
| paths | `ext2_utils.c:394-405,482-488,627-688,758-914`, `find_container_directory` of `ext2_rm.c` and `ext2_restore.c` | none | a walk over `strtok` in each tool |
| tools | `ext2_mkdir.c`, `ext2_cp.c`, `ext2_ln.c`, `ext2_rm.c`, `ext2_restore.c` | the image | `main` and helpers |
| checker | `ext2_checker.c` | the image | fixes of counters, types, bitmaps, dtime |

Each tool is a process that maps the image, changes it in place and exits; none locks it.
Hard: a tool that runs out of inodes or blocks half way, the gaps that removed entries leave in
directory blocks and that a restore parses again, inodes reused between removal and restore,
link counts; each tool takes a path apart in a loop of its own.  Correct means: counters equal the bitmaps; everything reachable is allocated and
nothing is reachable twice except by hard links; link count equals the number of entries; what
the checker leaves has no error; all tools mean the same file by one path; the names are a tree in which
one comes or goes at a time.

## 2. Modules

| module | what it is |
|---|---|
| `Routes` | `compute_path` as the switch runs it, and the routes its arms describe |
| `Traffic` | the intersection: lanes, locks, arrival and crossing threads, `main` |
| `CarFlow` | abstract: bounded FIFO lanes, one car of a lane crossing at a time |
| `TrafficProperties`, `MCTraffic` | properties and refinement mapping; schedules |
| `TrafficProofs`, `TrafficFlowProofs` | theorems on one lane and the box; on mutexes, lists and the refinement |
| `Interceptor` | the control call, the generic interceptor and the exit hook |
| `MonitorSpec` | abstract: atomic requests on a set of hooked calls and sets of watched processes |
| `InterceptorProperties`, `MCInterceptor`, `InterceptorProofs` | properties and mapping; instances; theorems |
| `InterceptorModule` | `insmod` and `rmmod` around `Interceptor`, step by step |
| `ModuleProperties`, `MCModule`, `ModuleProofs` | their properties; instances; theorems |
| `ReplacementPolicies` | `rand`, `fifo`, `lru`, `clock`, `opt`: what each evicts and records |
| `VirtualMemory` | page tables, frames, swap slots, counters; one step per trace line |
| `FlatMemory` | abstract: one version per page, incremented by writes |
| `VMHistory`, `VMProperties`, `MCVirtualMemory` | history variables for orders of use; properties and mapping; instances |
| `VMProofs` | theorems on entries, frames, slots and contents, and on the order of evictions |
| `Ext2Image` | inodes, blocks, bitmaps, free counters: allocation and release |
| `Ext2Directory` | directory blocks as chains of records: find, create, remove, restore |
| `Ext2Checker` | the repairs of `ext2_checker` |
| `Ext2Paths` | what each tool makes of a path |
| `Ext2Tools` | one run of a tool as one step, and the corruptor as an external action |
| `FileTree` | abstract: a tree of names, one added or taken away at a time |
| `Ext2Properties`, `MCExt2` | properties and mapping; instances |
| `Ext2Proofs`, `Ext2TreeProofs` | theorems on types, counters, blocks and links, for any disk; on names, the tree of names, records, paths, the checker and restore |
| `ProofLemmas` | lemmas on numbers and sequences for the proofs |

Operators whose comment begins with "defect of" are wrong variants of the definition that
follows.  Nothing uses them; each is a bug that could be made at that place, and shows that the
property listed for it in `PROJECT.json` (`mutants`) can fail.

### 2.1 Traffic

One step of a thread is what it does between two points at which another thread can interfere:
taking a mutex, the critical section up to its release or wait, one lock or unlock of a
quadrant.  `arrive[l]` and `cross[l]` are the program counters of the two threads of lane `l`.
`ArriveInsert` is the whole critical section from the loop test at `cars.c:109` to the unlock
at 126, `CrossTake` the one from 169 to 187.  `SpuriousWake` is what POSIX allows
`pthread_cond_wait` to do.  A condition variable of a lane has one possible waiter, so its wait
set is that thread's `"wait"`.

`Lane` is a constant so that instances can have fewer than four lanes: a lane without
cars only returns at once.  `PathSlots` is `sizeof(path)/sizeof(int)`, which is 2 because
`path` is a pointer, on a machine with 8-byte pointers.  `Stale` is what an unwritten int of the
`malloc`ed route may hold, in the runs each of the four quadrant numbers; values that are no quadrant
number would index outside the array and are left out.  `ComputePath` keeps the missing `break`s: the arms after the chosen one run too.

### 2.2 Interceptor

A process is in one of: its own code (`idle`), the steps of `my_syscall`, a system call that
passes through `interceptor`, or `exit_group`.  A critical section under one spinlock is one
step, except that `my_table_lock` is given up before `sys_call_table_lock` and that what is done under
the second is several steps (`SetWritable`, `Publish`, `Protect`).  The checks that come before the
lock, and `del_pid`, which takes none, are steps of their own: its `listcount--`, its test and its reset
interleave with everything.  `Mortal` are the processes that may exit; pids are not reused.
`kmalloc` may fail.  A list is a set of pids with the count and flag the code
keeps beside it.  `MY_CUSTOM_SYSCALL` is 0 and cannot be intercepted; `Syscall` excludes it.
A system call number is a number because the bounds differ: `my_syscall` accepts `NR_syscalls`, the loops that
initialise and release the table stop before it.  `CheckPermission` looks a task up that may be gone by
then; the NULL pointer it follows is the process's end (`Oops`).

`InterceptorModule` adds the process that runs `insmod` and `rmmod`.  `init_function` writes the two
entries of the kernel's table (`entry`), and only then initialises the module's own: a request may come in
between, into a table that is still zero.  `ready` are the calls whose list heads are set up; a process that would
walk another one follows a NULL pointer (`NullOops`), with `my_table_lock` in its hands if it had taken it.
`exit_function` walks the table under `my_table_lock`, gives it up for each release, which it runs as a call
of `my_syscall` of its own (`ScanAndRelease`, then the steps of `Interceptor`, then `Released`), and puts the two
entries back.  `FreeModule` is the kernel's: whoever is still inside, or enters by an entry that
was left, runs code that is gone (`GoneOops`).  `strays` is a history variable: the calls intercepted where no
loop of the loader will come any more.  Loading again is left out while something of the old module is in use.

### 2.3 Virtual memory

One step is the replay of one trace line, with all it calls.  The state has every bit of a page
table entry, the page in each frame (`coremap`), the content of each frame and slot as the pair of
virtual address and version number that the simulator itself stores there, and the state of the
policy in use.  The `PG_ONSWAP` bit is set at first touch, before anything is on swap, and a
clean victim is written out too, exactly as in the code.  `SwapFull` and `SystemError` are the exits.
The trace is any sequence of reads and writes.  With at most 2^17 frames the bits `opt.c`
tests are zero in every entry, so `opt_ref` does nothing and the last frame is evicted;
`placeholder` and `ceiling`, which then decide nothing, are left out.

### 2.4 ext2 tools

The image is one record: bitmaps, counters, inodes, the records of directory blocks, the pointers of
indirect blocks, and `text`, the blocks that hold the data of a file.  What the code leaves in a freed inode or
block stays there, because restore reads it.  The operations are functions of images, composed in the
order of the calls; `Then` goes on only after a call that has not exited, so an outcome is the image at
the `exit`, with what was written before.  A tool's run is one step: each is a process of its own
and nobody runs two at once.

A directory block is a function on the words written so far: `rec_len` counts words of four bytes, a record's
header is two and its name one (`Name`) or two (`Long`) more.  A word that belongs to a record but does not begin
one is `Rest`.  A place is the position of a block in its directory and of a word in the block.  Removed
records stay where they are until others are written over them, so that the search of a gap, which steps by the
lengths of names that are gone, may come upon the `Rest` of an old record; what the code reads there depends on
bytes of names and numbers, and the run ends (`"undefined"`).  `Hidden` are the names that begin with a dot.

`Ext2Paths` takes a path as the names between its slashes and whether a slash ends it.  `Descend` is the walk that the
tools share; `mkdir_target`, `rm_target`, `restore_target`, `create_target` (of `cp` and `ln`) and `find_dir_entry` are what each makes of its end.
A step of `Ext2Tools` takes the directory and the last name to which a path leads, as a path that leads nowhere
changes nothing.  The last name is one of `Given`: the ordinary ones and the two dots.  These are found in most directories, but one
that a `mkdir` without space has left empty takes them as it takes any other name (`mkdir /d/.` makes a directory in `d`).

`status` tells what can still be said.  An `exit(ENOMEM)` of `init_dir_entry` after the
block was changed makes the image `"damaged"`: later searches may not end.  A restore that reads another file's
data as block pointers makes it `"undefined"`, too.  Nothing is modelled after those two.  `Corrupt` stands for the
program `ext2_corruptor`, of which there is no source: it upsets one of the things the checker looks for.
After it only the corruptor and the checker run.  The calls of the checker's sum (line 320) are evaluated in an
order the compiler chooses; both orders are in `Check`.

The sources are read as they are meant where they do not compile: `ext2_utils.h` declares and two tools call
`get_group_descriptor`, which `ext2_utils.c` defines as `get_group_desc`, and the cast to a superblock (line 188 and
others) needs parentheses.  `lost+found` is left out of the empty disk, sizes and times of the inodes are
left out too, and every bit of a bitmap beyond those of `Inode` and `Block` counts as set, as `mke2fs` leaves
the padding.

## 3. What the runs check

| run | bounds | shows |
|---|---|---|
| `traffic_convoy` | 3 lanes, 4 + 1 cars and one car with an invalid direction, 2 slots, any quadrant number in the unwritten element | the ring is the untaken rest of the schedule in order, wrapping twice; nobody sleeps without cause; types, also at the moment of `exit(1)` |
| `traffic_threeways` | 3 lanes, 4 cars, 1 slot, each leaves by another's lane, one of them from WEST to SOUTH; any quadrant number in the unwritten element | no collision; lane locks only inside quadrant locks; lists complete when printed; lane fields written only under the lane's lock; the schedule ends and the threads implement `CarFlow`, its fairness included, unless that car's thread waits for itself |
| `traffic_order` (violation) | the lanes and cars of `traffic_convoy`, a 2 in the unwritten element | the car from WEST to SOUTH asks for the quadrant it holds |
| `interceptor_lists` | 2 root processes, one of which may exit, 1 system call | the tables agree; the saved handler is the original; the kernel's table is written only while writable and under its lock; calls miss `interceptor` only while one INTERCEPT is between its two locks; whoever enters the kernel returns; and, until the first exit, list, count and flag agree, requests are atomic (`MonitorSpec`) |
| `interceptor_module` | the loader, 1 root that may exit, 1 user, 1 system call, loaded once | the status of a system call is true through load and unload, and the unload restores the kernel's table, but for calls intercepted too early or too late; the entries are written under lock; `rmmod` ends, unless a process was killed by an oops with a lock in its hands |
| `interceptor_unload` (violation) | the loader, 1 root, 2 system calls, the second is `NR_syscalls` | the unload leaves that one intercepted, and the lists as they are |
| `interceptor_stop` (violation) | 1 root, 1 user | STOP for one pid while all are monitored has no effect on the log |
| `interceptor_dead` (violation) | 1 root, 1 user that may exit | a dead process stays listed |
| `vm_paging` | 4 pages in 2 directories, 3 frames, 2 slots, 6 references, all 5 policies | entries, frames, slots, dirty bits, counters and policies stay in step; the program sees flat memory |
| `vm_opt` (violation) | the same with 4 slots, 8 references | `opt` is not the optimal policy |
| `ext2_tools` | 2 inodes and 5 blocks to allocate, 3 names, one of them long and hidden, and the two dots, 13 words a block, 2 direct and 3 indirect pointers, 6 runs that change the image, the corruptor among the first 3 | counters, bitmaps, links and pointers agree; records tile their blocks; all tools read paths alike (paths of one and two names, in images of at most 3 runs); removal can be undone; what the checker reaches is consistent afterwards; the names implement `FileTree` |
| `ext2_checker` (violation) | the same | the checker does not enter a directory whose name begins with a dot |

Why the bounds are enough.  *Traffic*: everything that threads of different lanes share is
symmetric in pairs (a quadrant, an exit lane), so three lanes show a chain of two waits; a
ring of one or two slots is full and empty in turn, and four cars wrap two slots twice.
*Interceptor*: two callers, one of whom may exit at any time, cover every pair of sections; system calls
do not interact except through the locks and the loop of `del_pid`, whose order over several calls only
the proofs cover.  For the loader, one load and one unload meet every request at each of their steps; a second load
would start from a kernel's table without a trace of the first (the guard of `BeginLoad`), and is left out.  *Virtual memory*: three frames fill, then two evictions exhaust the
slots, and six references bring a page through first touch, eviction, page-in and a second
eviction; one page more than frames is enough to evict at every miss.  *ext2*: the root's block has room for two short names or a short and a long one,
so three need a second block and two removals make a gap with two headers in it; two inodes and five blocks run out in
two or three runs, before and after a record or a block has been changed.  The program's disk has 128 blocks, fewer
than the 12 + 256 pointers of a file: the disk is full before a file is, and so it is in the instance.  A restore that
reads another file's data as pointers is seven runs away from an empty disk; the other initial state, a disk from which two
files were removed (`UsedDisk`), stands four runs into that, is counted as two, and leaves four.

A run that leaves the image as it was does not count against the bound of six.

Instances do not reach: four lanes at once, two system calls at once, traces long enough for
the reference bits of `clock` to go round more than once, directories of more than two blocks,
names that need more than two words, loading the module a second time.

### Fairness

*Traffic*: weak fairness for each thread, since the kernel schedules threads that can run.  Nothing is
assumed about who gets a contended mutex; `Termination` needs nothing, because every holder goes on to
finitely many cars.  It excuses one state, `WaitsForItself` of a thread with a car from WEST to SOUTH (section 4), and
`ImplementsCarFlow` excuses the fairness of `CarFlow` in the same state; its steps are required always.  The two passing runs
reach that state and may then have no step left, hence `CHECK_DEADLOCK FALSE`.  Spurious wakeups occur finitely often.  *Interceptor*: the spinlocks of the
kernel the module is written for are FIFO ticket locks, so a process that waits for one gets it in turn:
strong fairness for the step that takes the lock, weak fairness for the others.  No process
has to issue a call.  With the loader, less is enough: whoever holds a spinlock goes on (weakly fair, preemption
is off), and the loader is not starved (strongly fair).  *ext2* and virtual memory: no liveness is claimed.

## 4. Findings

* `QuadsInOrder`: `compute_path` (`cars.c:262-375`) has no `break`s, so that later arms overwrite the route, and `sizeof(path)` is the size
  of a pointer: every car locks quadrant 2 first and then one more, whatever quadrants it drives through.  For a car from WEST to SOUTH only
  `route[0] = 2` is written (line 365); `route[1]` is what `malloc` left there.  If that is 2, `car_cross` locks `quad[2]` a
  second time (line 197) and waits for itself, and all other cars wait for it; if it is 1, the order of `traffic.h:77` is
  reversed.  Nothing else deadlocks: `Termination` holds but for this thread, because quadrant 2 is a lock around the whole box.
  That collisions are excluded is a consequence of the same mistake: at most one car crosses at a time.  The defect
  used to show that `NoCollision` can fail (`BreakingPath`) is the repair of the missing `break`s alone:
  two quadrants per car are then not enough.
* `LogsOnlyWatched`: `interceptor.c:289` logs everybody while `monitored` is 2.
* `DeadNotListed`: the pid is looked up at `interceptor.c:371` before the lock is taken.
* `OptIsMin`: `opt.c:33` never changes `current`, and never looks ahead.
* `UnloadCleansUp`: `exit_function` (`interceptor.c:634`) stops before `NR_syscalls`, which `my_syscall` accepts (line 364), and
  never calls `destroy_list`.  The run leaves races aside; see below for those.
* `EveryNameChecked`: `ext2_checker.c:265` compares names with `"."` by one character and stops at every directory
  whose name begins with a dot.

Seen while modelling, without a run of their own: a request between `interceptor.c:589` and the end of the loop at 606 works on a
table that is zeroed, not initialised, so that START walks a NULL list head with the lock held, and an INTERCEPT is wiped from
the table and never released; so is one behind the loop of `exit_function`; nothing waits for the processes that are
still inside when the module goes; the unlocked `listcount--` at `interceptor.c:164`
may lose an update and leave an empty list flagged 1; while all pids are monitored, START for a pid that
STOP has put on the list is always refused (line 455), and line 517 is dead code; `clock_evict` leaves the hand on its victim, so that it evicts the
page loaded last when all frames are referenced; victims that are clean are written to swap all the same,
and need a slot; `README.txt` of Assignment3 tabulates results of `opt` in which misses minus evictions
is not the number of frames, against `CountersAgree`, and some other rows disagree too; `create_dir_entry` of the ext2 tools changes the block (line 546)
or the directory's inode (line 570) before `init_dir_entry` can exit for want of an inode, and a directory whose
new block has a first record of length 0 makes the next search for a missing name loop for ever (the status `"damaged"`); a hard link
to a symbolic link is entered as a regular file (`ext2_ln.c:70`); the checker makes a root whose mode says regular file a socket (line 311), and its loop over an indirect block (line 230) leaves
before it looks at the last pointer, which waits for a disk of more than 128 blocks to matter; the search of a gap in `restore_file` may take the rest of an overwritten
record for a header (line 254); a file restored after its inode and blocks were used and freed again has the other file's content.

## 5. Proofs

Everything below holds for every value of the constants that satisfies the named assumptions of
the modules: capacity at least 1, cars in the lanes their direction names, each line of the schedule a car of its own
(`DistinctAssumption`, from "id uniquely identifies each car" in `traffic.h`), at most 2^17 frames, a loader that is root and
does not exit, a disk that one file can fill (`DiskAssumption`: 128 blocks, and 12 + 256 pointers) and on which a second can be named, and so on.  Each proof states an inductive invariant, which TLC found
to hold on the instances of the runs before it was proved; what follows from it, the runs go on checking.

**`TrafficProofs`.**  `TypeOK` is not inductive: that the car taken from the ring is a car, and not an
empty slot, needs to know which slots are filled.  `TypeInv` adds the relation between `inc`, `in_buf` and
`in_cars` (`Counted`), which also makes the unchecked `Head(in_cars)` of `ArriveInsert` safe.
`RingInv` says that the occupied slots are the `in_buf` slots after `head` and that slot `Pos(head, k)`
holds the `k`-th untaken car of the schedule; `QueueOrder` follows by indices alone.
`WaitInv` is `NoLostWakeup` with what a thread that has returned leaves behind: nothing in `in_cars`, nothing to
take.  `QuadInv` says what part of its path a thread holds at each point; with `PathStartsAtTwo` (by
cases over the sixteen routes) two threads in the box would both hold quadrant 2, hence
`NoCollisionCorrect`.

**`TrafficFlowProofs`.**  `LockInv` says at which program points a thread holds which lane's mutex, and that it is the
mutex's owner then and only then; each step takes one, gives one back, or leaves them alone (the lemmas `ArriveTakes` to
`LockKept`).  `LaneLocksComeLast` and `WritesUnderLock` follow, the second as an action property.  `CarInv` says that a
crossing thread that carries a car carries the last one it took from the schedule.  `OutInv` then gives the cars listed in `out_cars`
of a lane as a set, those of the schedules that are through with that lane as exit, and that `passed` and the list's length are its
cardinality: an arriving car is new to the list because the lines of the schedule are distinct cars.  `Delivered`, about what `verify`
prints, is the case where all threads have returned.  `CarFlowImplemented` shows by the three steps that
matter (`ArriveInsert`, `CrossTake`, `AppendCar`) and a stutter for all others that the threads are
bounded FIFO lanes; `CarFlow` states its steps and its fairness apart (`Steps`, `Progress`) and the proof is about the first.

**`InterceptorProofs`.**  `Locked` relates program counters to the owners of the two locks, `Checked`
keeps what a request tested under the lock until it acts, `Pending` says which entry of the kernel's
table is out of date while a process is between `Publish` and the write, and `ReadOnly` that the page is writable only under
the lock.  `HookInv` is their conjunction with `OriginalKept`; `TablesAgree`, `OriginalKept`,
`WriteProtected` and `MissedOnlyDuringIntercept` follow, the last from `Locked` and `Pending`: an entry that is out of date belongs
to the owner of `sys_call_table_lock`.  `ImplementsUntilExit` shows by cases on the actions that, as long as no process has begun to exit, each step
is one of `MonitorSpec` or leaves it alone.  The condition is needed: with the unlocked
`del_pid` a process disappears from the lists outside any request, and START may add a dead one.
The theorems are about `Spec` of `Interceptor`, a module that stays loaded.

`CountsAgree` is about moments at which `my_table_lock` is free; `CountInv` extends it to all others until the first exit,
and keeps what START and STOP have tested of the list (`Tested`) up to the change, which is what
makes `listcount--` never go below the list.

**`ModuleProofs`.**  With the loader, none of `HookInv` is true as it stands: `init_function` clears the status
of calls that were intercepted since it wrote the first entry.  All of them are `strays`, and `ModuleInv` says what is left for the others: `PendingOrStray` and
`CheckedOrStray` instead of `Pending` and `Checked`, `LoadInv` (nothing but strays is intercepted before the table is
initialised, so clearing it loses nothing), `UnloadInv` (what the loop has passed is released, or the loader's own
request is on its way to do it and cannot be refused unless somebody else has), `OutInv` for the time between an unload and the next load.  `LoaderLocked` gives
the loader the lock from which `EntriesProtected` follows.  `StepTables` reduces the steps of a process to the four that matter to one system
call.  The theorems hold for any number of loads.

**`VMProofs`.**  `StateInv` adds to the properties what they need of each other: a page that is in no second-level table
has an empty entry, so that making the table changes nothing (`NoTableNoEntry`); a frame in use, and the
slot of a page on swap, hold data (`DataInPlace`); a page in memory has its on-swap bit (`LoadedOnSwap`: `find_physpage` sets
it at first touch); and `lru.c` has every used frame in its list, so that `lru_evict` finds one (`LruHolds`).
Replay of a line is split into a hit, a miss with a free frame and a miss with a victim (`EvictEffect`); the policies enter
through `EvictType` alone, what a policy evicts and what it makes of its state.  `FlatMemoryImplemented` is the
refinement: paged in and out by whatever policy, a page read holds the version last written.
`LruInv` and `FifoInv` relate the list and the head to the histories of `VMHistory` element by
element; `FifoInv` has to say where the frames are before memory is full, and lemmas of `ProofLemmas` what removing an element
and appending it does to a list without repetitions.

**`Ext2Proofs`.**  `IInv` says three things of the image: it is `Typed`, whatever happened; the root's first record is `"."` and
the root's own (`RootOK`), as long as the checker may be run; and it is `WholeImage`, as long as only tools have changed it.
Each of the three needs more than the property it is for.  `Typed` adds to `TypeOK` that a header is followed by the rest of its
name in every block (`BlockOK`), removed headers included, as restore goes by them; and that pointers ascend, from which follows that no
block is in a file twice (first clear bits are taken one after the other).  `WholeImage` says that every directory's block is a `Chain`:
the words a walk along `rec_len` comes to are headers, each as long as its name at least, and tile the block.  Links can be counted
only over records that tile.  The free inodes are none of a directory (`FreeOK`), so that taking one takes no directory
with it.

The argument goes by layers.  `VisitsIs`, `VisitsWithin` and `VisitsAll` characterise a walk, a recursive function, by smallest
counterexamples; `ChainIsWalk` makes of it that a block has one chain at most.  `FillAdds`, `SplitAdds`, `NewAdds`, `ClearDrops`, `MergeDrops` and
`RevealAdds` are what the six changes of a block (a record in place of an unused one, behind another, in a new block; the removal
of the first, or of another; the way back) do to its live records: one comes or goes, the others keep inode, name and type.
`LinkCounted` and `LinkDropped` carry this to link counts, `BlocksGrow` and `BlocksShrink` the allocations to who owns what,
`CountersFollow` to the counters.  `MkdirWhole`, `CpWhole`, `LnWhole`, `LnSymbolicWhole`, `RmWhole` and `RestoreWhole` are the tools, each over all its exits but
those that leave the image half done or undefined, `CheckFixes` the checker in both orders, `CorruptTyped` the corruptor, and
`OnlyRootWhole` the two initial disks.

**`Ext2TreeProofs`.**  `Named` is the set of live records as place, name and inode.  Each tool is proved (in `Ext2Proofs`, `Changes`) to leave
it alone, to enter one, to remove one, or to enter one and make a directory that has both of `"."` and `".."` or is empty (`RoomForParent`: where
there was a block for the first there is room for the second), and what it does to `Ghosts`, the
removed records whose headers are still in a gap, as place and name.  `UInv`, that no directory has a name twice, is
inductive over these four; both `FileTreeImplemented` and `RecordsTileCorrect` rest on it, the first because removing a name from a set of
names would otherwise leave it there.  `TreeStep` maps each of the four to a step of `FileTree`, whose tree is
of all names, the dots included.  `RecordsTile` sums lengths with a
fold over a set: `LengthUnfolds` takes one record out of it, and `LengthCovers` and `AllCovered` compare the sum with the words covered
by smallest counterexample.  For paths, `UpTo` and `ByRecursion` do the same for walks that are recursive functions: `DescendRuns` and
`WaysRun` say what `Descend` and the walks of the tools come to after each name, `LeadsTo` that they come to the same
place, and `AnyPathAgreesCorrect` states the result for paths of any length, `PathsAgreeCorrect` for the paths the run checks.
It needs `PInv`: the root has a `"."` that leads to the root, as long as only tools changed the image.

`CheckerRepairsCorrect` compares the checker's two orders.  Retyping an entry changes neither which directories it enters
nor which records it visits (`EnteredSame`, `VisitedSame`), so that what `RepairedConsistent` needs of bitmaps, types and
deletion times is computed from the same tree before and after, and `OrdersAgree` follows field by field.

`RestoreUndoesRemoveCorrect` is about what `restore_file` finds after an `rm`.  It searches the gaps for the first header of the name, whatever
file that was of, so that an older one before it would come back instead.  `RemovedBehind` excludes that: in no directory does
a removed record lie before the live one of its name (`TInv`).  This is inductive because a new record is `Foremost`: `create_dir_entry` takes the first
place with room, and a gap in which a removed record of that name lies has room for it (`GapHolds`, `RoomForemost`); restore takes the first removed record itself (`DeletedForemost`).  It needs `UInv`: what `rm` adds to the
removed records must not be named as a live one.  `RemovedFirst` concludes that the search ends at the record just removed, or
before it at the rest of a longer one, which the property excepts.  `MergedRevealed` gives both records their lengths back; `FileBack` compares bitmaps, counters and
the inode, for which `LinksOK` has to say that no inode in use has a deletion time.

Only model-checked:

* liveness, which the proof system cannot do: `Termination`, `CallsReturn`, `UnloadEnds`, and with them the fairness (`Progress`) that `ImplementsCarFlow` includes;
* the violations of section 4, which are about instances.

## 6. Not modelled

* ext2: runs of slashes and paths that do not begin with one, `lost+found`, sizes, times and contents of files, the
  mapping of the image, reading the file that `cp` copies.
* A module loaded again over what an unload has left in use.
* The pointers of the kernel's `list_head`, memory that two unlinks corrupt, task structures.
* An INTERCEPT of `__NR_exit_group`, which `interceptor.c:364` accepts: `Syscall` leaves that number out, as it does
  `MY_CUSTOM_SYSCALL`.
* The page number of a virtual address (`pagetable.c:157`, 172): addresses are pages, so that the error of `sim.c:54`, which two
  addresses in one page cause, cannot occur.
* The length of the path that `ln -s` copies into one block (`ext2_utils.c:930`): a longer one overwrites the next block.
* Print-outs, parsing of numbers, command lines.  `-m` is assumed to be given: without it `memsize` is 0 and `fifo.c:24` divides by it.
* Schedules whose lines name a lane outside 0 to 3 as the one a car comes from (`cars.c:37`).
* The words of the swap bitmap; overflow of frame numbers.
* Test programs, prebuilt binaries, disk images, assignment texts.

The `hazards` of `PROJECT.json` list, for each line at which something can go wrong that a test
would hardly reach, the properties that would notice, or why none does yet.

## 7. Plan

1. Done: models of all four programs; proofs of the intersection, the interceptor with its loading and unloading, virtual
   memory with the orders of `lru` and `fifo`, and of the ext2 tools: types, counters, blocks and links, the checker, the tree of names, records,
   paths, and restore after rm.  Every invariant that a run checks is a theorem.
2. What is left is liveness, which stays with the runs.
