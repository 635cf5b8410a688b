# A verification project for the development-notes repository

The repository collects one developer's notes and the small programs that go
with them: C data structures, NAND ECC code, kernel-module exercises, a USB HID
driver with its user-space tool, a backtrace printer, build scripts and editor
configuration. The programs are independent of one another; each is its own
small system. This directory models those that keep state, follow a protocol or
compute something that is hard to get right, checks the models with TLC and
proves what matters most with TLAPS.

## 1. Inventory

| component | source | state | operations | what is hard |
|---|---|---|---|---|
| index-based list | `lang/c/gadget/list` | array of items with index links, free list (`free_head`, `free_tail`), match tables (`itb[].idx`) | init, alloc, free, prelink, do_link, unlink, and the "2" forms on a second link field | one link word serves free list and chains; prelink hands out a raw address that later calls make stale; locks are only comments |
| NAND ECC | `embedded/nand-flash/ECC` | none (pure), 3-byte codes kept in the spare area | calculate and correct for 256 and 512 bytes, in three generations of the code; the table generator `mktbl.c` | one flipped bit anywhere must be corrected, two must be reported, a flip in the code must not touch the data |
| character device | `k_a_dd/cdev` | `sdev->buffer`, semaphore, device registration | init, exit, open, release, read, write | one buffer for every opener; interrupted `down`; goto unwinding |
| debugfs exercise | `k_a_dd/my_debugfs` | a directory with two files, and who has them open | init, exit; opening, using and closing a file | failure unwinding; files that stay open when the module goes |
| kernel timer | `k_a_dd/timer` | one timer, jiffies | init, exit, expiry | relative value where an absolute one is expected, jiffies wrap-around, exit racing the expiry |
| RF-card HID driver | `k_a_dd/usb/hid/rfcard-hid.c` | what each probe has got from the kernel, one device pointer for all | probe, remove | error labels and an inverted test; two probes at a time |
| RF-card HID tool | `k_a_dd/usb/hid/hidcom.c` | the node it has open, report buffer, message buffer | rf_open, send_data, send_msg, rcv_msg, rf_close | a search that does not look at errors; splitting a message in 32-byte reports, lengths at the boundary |
| directory lister | `lang/c/linux/dirlist.c` | a stream and buffers per level of recursion, errno | opendir, read loop, recursion, in three versions | what is freed on which path; telling an error from the end |
| numeric gadgets | `lang/c/gadget/{bit,bcd2ul,ul2bcd,itoa}.c` | a bitmap, a word, a static buffer | bit ranges, BCD, digits | turned ranges, full width, zero, what earlier calls left |
| backtrace in a signal handler | `lang/cpp/backTrace` | frame buffer, handler | unwind callback, signal handler, init | a second fault in the handler, the buffer's end |
| team balancing | `lang/python/make_team.py` | three groups | greedy assignment | how unequal the groups can end |
| toolchain scripts | `embedded/cross_toolchain` | files under their final and other names, what is installed | prepare (download), build (staged) | a run that stops half-way, and the run after it |
| Android `repo` bootstrap | `misc/android/repo` | `.repo` tree | init, clone, verify | third-party code kept for convenience |
| flow sender | `test`, `lang/c/linux/fstat.c`, other single-call programs | none | one call and exit | nothing to check |
| configuration and notes | `misc`, `git`, `lang/*.txt`, ... | none | none | not programs of this repository |

The parts do not call each other. Inside a component the interactions are: the
list library with the client that holds items and addresses; the device with
several processes that have it open; the tool with the card, through 32-byte
reports; two probes of the driver through the variable they share; the timer
with module exit; the debugfs files with those who have them open; a call of the
lister with the one that called it; each run of a script with what the runs
before it left.

What makes each modelled component correct:

- **list**: no item is lost, handed out twice or cut off a chain by any sequence
  of calls, as long as the client links only where `prelink` has just told it to;
  a match table holds a key once; an item that `alloc` or `unlink` gives out is
  in no list; with threads, all of that between any two lines.
- **ECC**: any one flipped bit, of data or code, is undone; two are never taken
  for one; every version and either byte order compute the same code.
- **HID tool**: the card gets the caller's bytes in order and whole; a failure
  in the middle of a multi-message transfer is not taken for success.
- **character device**: one copy at a time, no read that mixes two writes, no
  buffer leaked or used after it is freed, exact unwinding of a failed load.
- **driver**: a probe that fails leaves nothing behind, whichever step failed;
  the messages of a probe go to its own card.
- **timer**: nothing of the module is called after it is removed, and the removal
  comes to an end.
- **debugfs**: the entries are all there or none is; freed memory is not read.
- **lister**: every stream and block is given back on every path; a listing
  without failures is complete; an error is told from the end.
- **scripts**: a script that came to its end did everything, whatever the failed
  runs before it left; a user who supplies what the scripts do not, and goes on,
  gets the toolchain.
- **gadgets, backtrace, teams**: the result is what it is by definition, at the
  edges as well.

## 2. Modules

Built in this order; an arrow reads "uses".

| module | what it is | uses |
|---|---|---|
| `Chains` | a list in an array: links, chains, the paths they spell | |
| `PoolSpec` | what the library promises: a FIFO queue and sequences | |
| `IndexList` | the list library, one call per action, and its map to `PoolSpec` | `Chains`, `PoolSpec` |
| `FifoPool` | what the pool promises to threads | |
| `PoolThreads` | the main pool, one source line per action, several threads, and its map to `FifoPool` | `Chains`, `FifoPool` |
| `MCIndexList`, `MCPoolThreads` | the small instances | `IndexList`, `PoolThreads` |
| `ChainLemmas` | facts about chains, for both proofs | `Chains` |
| `IndexListProofs`, `PoolThreadsProofs` | the theorems | `ChainLemmas` and the module they are about |
| `NandEcc`, `MCNandEcc`, `NandEccProofs` | the ECC algorithms around a page that decays, and theorems | |
| `HidCom`, `MCHidCom` | sending and receiving of the HID tool | |
| `SimpleCdev`, `MCSimpleCdev`, `SimpleCdevProofs` | the character device, its module and its callers, and theorems | |
| `Toolchain` | the two toolchain scripts | |
| `DirList`, `MCDirList` | the directory lister | |
| `RfCardHid`, `HidOpen` | probing and removing in the card's driver, the tool's search for the card | |
| `MyTimer`, `MyDebugfs` | the two small kernel modules | |
| `Numbers`, `Itoa`, `MCItoa`, `Bits`, `Bcd` | powers, and the numeric gadgets | |
| `Backtrace` | unwinding and printing in the handler of a fault | |
| `TeamBalance` | the balancing of teams | |
| `MCExercises` | small instances of the programs that do not interact | `MCHidCom`, `MCDirList`, `MCItoa`, `RfCardHid`, `HidOpen`, `MyTimer`, `MyDebugfs`, `Bits`, `Bcd`, `Backtrace`, `TeamBalance` |
| `DriverProofs` | theorems about the kernel modules and the card | `MyTimer`, `MyDebugfs`, `RfCardHid`, `HidOpen` |
| `FileProofs` | theorems about the lister and the scripts | `DirList`, `Toolchain` |
| `ProgramProofs` | theorems about the programs that compute | `TeamBalance`, `HidCom`, `Bits`, `Bcd`, `Itoa`, `Backtrace` |

Definitions whose names end in `_slip` are deliberate mistakes in the definition
that follows them. No specification uses them. They are what each property is
tried against: put in the place of the right definition, TLC has to find the
property violated.

## 3. How the modules correspond to the code

### IndexList, PoolSpec

`next`, `free_head`, `free_tail` and `itb` are the link fields, the two words of
`struct list_info` and the `idx` words of the match tables, one table per
link field. `next` starts with arbitrary contents in every field but the main
one, since `list_info_init` writes no other and `malloc` gives what it gives.
`key` stands for what the client's `is_same_item` compares, `Hash` for the
client's choice of a slot. `held` and `linked` record the client's side: the items
it has and those it has linked. Of the addresses that `prelink` gave it, `dest` are
those whose slot is still as it was, `stale` those whose slot has changed since
(`Changes`).

Each library call is one action: `list_alloc_item`, `list_free_item`,
`index_list_prelink2`, `index_list_do_link` and `index_list_unlink2`. The plain
forms are the "2" forms with `next_offset` as the field, as in the code, where
they call them. `Fill` is the client's writing of an item, which may clear the
links that the library does not (`item_set_next2`) or leave them as they are. The
client frees, fills and links items that it holds and has not linked there
already. Nothing else is asked of it: it may keep an address for as long as it
likes, ask with `prelink` only whether there is such an item, link through an
address from before its slot changed, or link an item whose second link leads
somewhere. The library notices none of this. The last two are the step
`link_astray`, which writes the address as `do_link` does and from which on the
model says nothing of the list (`astray`) until the program is started again
(`start_over`). They are told from `do_link` by the state alone: an address is
modelled as the item whose link word it points to, or the slot's own word, and
that it is still the end of its chain when it is in `dest` is not a guard but an
invariant (`DestIsLast`).

`PoolSpec` has no links: a sequence `free` of items, a sequence per slot, and
pending insertions. `IndexList` reads both kinds of sequence off the links
(`FreeQueue`, `Tables`, by `PathOf`, which follows the links as
`item_get_next2` does), so that implementing it means answering as the queue
would: `refused` is what the last call answered, and `held` and the keys of the
pending insertions are what the client was given. A link that goes astray is the
step `Ruin`, which leaves the client what it holds and allows anything else.

### PoolThreads, FifoPool

The same pool with threads between any two lines. `pc[t]` is the number of the
line of `list.c` that thread `t` runs next, so `Line86` is line 86. The code has
TODO comments where a lock is to be taken and released and no lock; the model
takes and releases it just there. Line 93, the write to the item that `alloc`
returns, comes after the release, and the model keeps it there. `FifoPool` is a
queue that is taken from and given to in one step each; allocation takes effect
at line 86 and freeing at line 64 or 67, and the queue is the path that
`PathOf` finds from `free_head` (`Fifo`).

### NandEcc

A page is the set of its bits that are 1, a code the set of its 24 bits that are
1, so that an exclusive-or is a symmetric difference. Each bit of a code is the
parity of the data bits it covers. `Covers28` follows the 2.6.28 code: which of
the 16 words of a turn enter which parity, which turns, and which byte lanes of
a word in either byte order. `Covers27` follows the byte-wise table-driven code of
2.6.27 and of `TestEcc.c`. What `mktbl.c` prints are the column parities and the
parity of one byte, which is what `Covers27` says of a byte. `nand_correct_data`
works on the rows in which two codes differ, and `addressbits` is its table: the
number that the odd rows of a byte of the code spell. Around the algorithms is a page
with its spare area that is erased, programmed by a kernel, loses bits, and is
read by the same or another kernel. The machine, `machine`, is chosen at the
start and never changes: page size, byte order, order of the code's bytes and
the kernels that run on it.

### HidCom, HidOpen

A message is an offset and a length in the caller's buffer. `send_msg` is one
turn of the loop, with `msg_len` and `count` as in the code; `send_msg_fails` is
an ioctl that fails; `rcv_msg` and `rcv_msg_fails` are a message that `msg_in`
takes and one that fails on the way. Where the code writes past the 30 bytes of
a message the behaviour is undefined: the check byte that is then sent is
anything, or the process dies (`send_msg_killed`) and is started again (`main`).
On the way in, a message that says it has more than 28 bytes is copied in that
length, over the 32 bytes on the stack, before `check_msg` refuses it
(`rcv_msg_overruns`): -1 is returned, or the process dies.
The card is external: it takes every message and answers with any sequence of
messages, of the lengths in `ReplyLens`, that fits the caller's buffer, as line
237 asks of the caller.
`HidOpen` is `rf_open` and `rf_close`: one node after the other is opened
(`open_node`) and asked what it is (`ask_node`). The ioctl's result is not looked
at, so that a node that does not answer is judged by `dev_info` as the last one
left it, or as it was on the stack, which may be what a card would have said.
`tried` and `answered` are history.

### SimpleCdev

`simple_init` gets one thing from the kernel at a time, any of them may fail
(`simple_init_fails`), and the labels of the error path are undone one at a time
(`Undo`), as is everything in `simple_exit`. The device can be opened from
`cdev_add` on, before the last step of loading and while that is undone, and until
`cdev_del` (`MayOpen`); the error path frees it whether it is open or not. `open` and `release` set and free
the one buffer pointer of the device: `place` is where it points, and freed
memory reads as "junk". A read or write is a call that clamps, waits for the
semaphore (`down`, or `down_interrupted`, whose result the code ignores), copies
a cell at a time, possibly stops short, and raises the semaphore. A NULL or
twice-freed buffer, or a device freed while it is open, is taken as a panic, after
which the machine is started again (`Reboot`). The kernel's part is external: it refuses to remove a module with
open files, calls `release` after the last call on a file, and zeroes or leaves
alone the rest of a copy that stops short. `overlapped` and `written` are history
variables that the properties need and no guard reads.

### Toolchain

A run of a script is a value of `script` and a place `at` in one of two lists,
`PACKAGES` or `BUILDS`, in the order in which the scripts name them. `tarball[q]`
says what is there under the name that `prepare.sh` tests for: nothing, a part
or the whole archive. gmp comes under another name, `download`, and is renamed;
the kernel is unpacked at once, into `tree`. Both scripts run under `bash -e`:
the actions whose names end in `_fails` or `_interrupted` end the script where it
is (`exit`) and leave what there is. `start_prepare` and `start_build` are the
user, who runs either script at will, and so is `clean`: nothing else removes a
part. A build needs a whole archive, or a kernel tree in any state, and what its
`configure` is told to use (`Needs`); `start_build` is the `rm -rf` of line 23. The
build of uClibc also takes a patch and a configuration (`Extras`) that are kept
beside the scripts and are looked for beside the archives: neither script puts
them there, so that lines 198 and 199 stop the build until the user does (`copy`).
The programs that are called (axel, wget, tar, make) are external and do what the
scripts rely on: a failed download leaves a part under the file's name or
nothing, tar fails on a part, a tree with a part missing may or may not build.

### DirList

`calls` is the stack of calls in progress, each with the directory it is in, the
line group it is at, the entries it has yet to read and its `olderrno`. The three
versions differ in what they allocate (`Blocks`), free (`freed`) and take for the
end; `version` is the one that `main` calls. Every library call may fail
(`fails`), opendir also because the streams of the process are used up
(`exhausted`). `hidden`, `failures`, `alarm` and `missed` are history.

### RfCardHid

One action per step of `rf_probe`, with the labels `err_stop`, `err_free` and
`err_cdev_num` as operators that the steps share. Probes of several cards run at
a time, as the driver core allows, and share `__dev`. `alloc_chrdev_region` has
the test as it is written: success goes to `err_stop` and is reported as success,
and failure goes on with a number that was never set. `reserved` remembers whose
last probe took a number. The file has a syntax error
in line 33 and does not compile; the model is of what it says.

### MyTimer, MyDebugfs

`jiffies` counts modulo `Wrap`, from any value; a timer is due when its distance
to `jiffies`, read as a signed number, is not positive. `mod_timer` sets the
expiry to `Delay` itself, as the code does. The callback runs beside everything
else, and `del_timer_sync` waits for it (`unloaded`). In `MyDebugfs` each entry is
made by a step that may fail; users open, use and close the files at any time,
before the directory is complete as well, and `survived` remembers whose file was
open when the module was removed.

### Itoa, Bits, Bcd

One action per turn of a loop, over a buffer that keeps its contents between
calls (`Itoa`), words of `WordBits` bits (`Bits`) or of `W` digits (`Bcd`, whose
shifts are multiplications and divisions by the powers of 16 in `Numbers`). What
`get_range` makes of an argument of `bit.c` are two numbers, negative ones too: a
number too large for an int comes out of `atoi` as it happens to, and `main`
refuses only -1. One below 0 is written in front of the array, and the model
follows the program no further (`set_bit_before`).
`MaxDigits` bounds the numbers of `Itoa` by a power of ten: ten digits are more
than an int has. For a
negative number `itoA_` indexes before the digits: the character is any. Bases
other than 10 and 16 return the message of line 9 and are left out.

### Backtrace

`unwindCallback` is one call by the unwinder, which may meet frames without an
address (`NoAddress`). The signal is blocked while the handler runs, so that a
fault in the handler (`second_fault`) kills the process. Modelled as it is built
for other machines than ARM.

### TeamBalance

`deal` gives the next value, from the highest down, to a group whose sum is the
least. The code sorts the groups and takes the first; among groups of equal sum
the model takes any.

### MCExercises

These programs do not interact. `MCExercises` checks each of them by itself: the
variable `running` is chosen at the start, the program of that name takes steps
as its own module says, and the variables of the others keep their initial
values. Every behaviour of every one of them is a behaviour of `ExercisesSpec`,
and nothing else is.

## 4. The runs

| run | bounds | shows |
|---|---|---|
| `list` | 3 items, 2 link fields, 1 slot, 2 keys, 2 addresses kept (210,802 states up to symmetry) | until an item is linked astray, free list, slots, keys and addresses stay right; the library implements `PoolSpec` |
| `pool_threads` | 3 items, 3 threads (105,308 states) | the lock where the comments put it is enough; while there are calls, calls return; the threads see one FIFO queue |
| `ecc` | 256 bytes with the 2.6.27 and 2.6.28 kernels; 512 bytes, big-endian, SmartMedia order (46,087 states) | one flip corrected, two reported, versions agree, byte order does not matter, `TestEcc.c` names the bit, and none if there is not just one |
| `cdev` | 2 threads, 2 files, 2 cells, 1 signal (917,675 states up to symmetry) | what semaphore, buffer and registrations do guarantee |
| `toolchain` | 2 faults; 13 packages, 14 builds, 2 files to copy (95,201 states) | what finished runs can rely on, and that the toolchain is built once the two files are copied |
| `exercises` | see below (76,432 states) | each of the programs that do not interact |
| `hid_three` | lengths 61, 90 and 91 | **violation**: the third message repeats the second |
| `hid_room` | lengths 0 to 60 | **violation**: no room for length and check byte |
| `cdev_signals` | the same | **violation**: two copies at once after a signal |
| `cdev_two_files` | the same, no signal | **violation**: a read of freed memory |
| `dirlist_errno` | a small tree, 2 failures | **violation**: an error of readdir passes for the end |
| `itoa_decimal` | a few numbers of one to three digits, and negative ones | **violation**: a decimal number starts a cell early |

In the order of the instances: `exercises` has sends of lengths 0 to 60 and
answers of at most 3 messages; a tree with a directory in a directory, a file, a
hidden file, 2 streams and 2 failures; numbers of one to three digits, in both
bases, and negative ones; a tick counter of 16 values and a delay of 3; 2 users
of the debugfs files; 2 cards and 2 device numbers; 4 nodes; a bitmap of 2 words
of 4 bits and ranges from -2 to one past its end; every word of 3 digits; a
frame buffer of 3 and stacks that are shorter, as long and longer; 6 values in 3
groups.

Why the bounds are enough. Three items are a chain with a head, a middle and a
tail, or a free list and a chain that are both non-empty; two keys in one slot
collide, and the second link field is the one the library does not initialise;
new memory is all zeroes there, which is the index of an item. Two addresses are
one that is used and one that goes stale by it. The two keys are compared and
nothing else, and share the slot, so that they are symmetric. With more items
and slots nothing new can interact, and the theorems of section 6 cover every
number of them. Three threads give one inside the lock, one past it at line 93,
and one waiting. In the ECC runs every single bit of a page and of its code
flips; pairs flip in the code and in three bytes whose addresses differ in every
bit, which is every way in which the parts of the difference can fall together;
the theorems cover every page and every pair. The HID lengths are those on
either side of 28, 30, 58 and 60, where a message or its room ends. Two cells
are the least for a torn read, two files the least for a shared pointer, and one
signal the least for a lost lock; the invariant `EachSignalCountsOnce` is
stated, and proved, for any number of them.

Two faults of the toolchain scripts leave two archives in part, or a part in the
way of a later run that fails again. In `exercises`, two streams are fewer than
the levels of the tree, so that they run out; two words are the least for a range
that crosses one; sixteen ticks are the least that leave room on either side of a
delay of three for the counter to wrap; two cards are the least for one device
pointer to be wrong; four nodes leave a card behind two that are not and one that
does not answer; and every number that has one digit more than there is room for
is among those of three.

Every passing run looks for deadlocks and finds none. In `exercises` three of the
programs come to their end, which `stopped` names: the search for the card, the
dealing of values, and the driver when every card is gone.

## 5. Fairness

`PoolThreads`: each thread's lines are weakly fair (`FairSpec`): a thread that can
go on does. Of the lock nothing is assumed, since the code has none and a comment
says nothing of its kind: one thread may wait for ever while others take it. What
can be said is that the threads together do not stand still (`CallsGoOn`): as long
as there are calls, calls return. So no path keeps the lock, the refusal of an
empty pool included, and `alloc` does not wait for an item to be freed. Calls
themselves are made at will.

`Toolchain`: a script that runs goes on (weak fairness of `Prepare` and of
`Build`; a download that fails or a user who interrupts is not asked for). Of the
user it is assumed that both scripts are run again and again (strong fairness of
`start_prepare` and `start_build`). `EventuallyBuilt` says that this user gets the
toolchain unless a part stays in the way for ever or comes back, or the two files
that the build of uClibc looks for are not copied; that they are, and that parts
are removed, is its premise and not fairness, since nothing in the scripts does it.

`MCExercises`: a program that runs goes on. Each step of the lister, the ends of
timer callback and removal and the expiry that is due, and each step of the
process with the backtrace are weakly fair; `list_main`, loading the module,
`mytimer_exit` and running the program again are not. `ProgramsEnd` is what
follows for the three of them.

The other modules state safety only. In the device a caller may wait at the
semaphore for as long as others come; in the HID tool an ioctl returns when the
card does.

## 6. What is proved

Some 10,000 proof obligations, for every value of the constants. Every invariant
and every action property of a passing run is a theorem, and both refinements
are; `SentWhole` has a bound, which is that of the finding about it.

Assumptions: `ChainAssumption` (at least one item, and `INVALID_LIST_HEAD` is the
index of none: `list_info_init` would write before the array otherwise),
`PoolAssumption` (the main field is one of the fields, every key has a slot),
`ThreadsAssumption` (`NoThread` is no thread), `EccAssumption` (a machine is one
that the code can be built for, a page has the bits it has room for),
`TeamAssumption` (values are natural numbers), `TimerAssumption` (the delay is a
value of the counter), `CdevAssumption` (finitely many
threads, whose number a semaphore counts, and a default string that fits the
buffer), `NodesAssumption` (there is a node to look at), `ToolchainAssumption` (a
natural number of faults), `ListingAssumption` (a tree: every directory but the
root is an entry of another, with finitely many entries and none without a
name), `HidAssumption` (lengths are natural numbers), `BitsAssumption` (a bitmap
has a word and a word a bit, and `Below` is a natural number), `BcdAssumption` (a number fits a word of at least
one digit), `ItoaAssumption` (a number has at most `MaxDigits` decimal digits,
which are at most ten) and `BacktraceAssumption` (a buffer for at least one
frame, stacks of addresses).

**ChainLemmas.** A chain is a path of distinct items that the links follow to the
sentinel. The lemmas say what a write to a link does to it: a chain does not
notice writes elsewhere (`ChainFrame`), taking its head leaves its tail
(`ChainTail`), linking an item after its last appends it (`ChainAppend`), leading
a predecessor past an item removes it (`ChainBypass`), and the path is unique
(`PathUnique`). Existence of a least position (`LeastNat`) is derived from the
well-foundedness of the naturals.

**IndexListProofs.** `FreeListExact` alone is not inductive: appending to the free
list writes the freed item's link, and the slots must not run through it; linking
writes the main field, and the free list must not run through it either. Nor is
`BucketsExact`: an item appended to a slot has to lead nowhere beforehand, or the
chain gets a tail nobody linked. The invariant `IInv` is therefore the
conjunction of `TypeOK`, `FreeListExact`, `BucketsExact`, `KeysUnique`,
`ClearedLinks` (the main link of an item in no list is the sentinel; of a second
link nothing is known, and `do_link` is the step of an item whose link is clear)
and `DestAtEnd` (an address whose slot has not changed is the end of its chain).
Each action has a lemma that it keeps `IInv`, but for `link_astray`, after which
only the types are known and from which `start_over` comes back to an initial
state: `SInv`, `TypeOK` and `IInv` unless `astray`, is what holds throughout
(`Inductive`). `TypeCorrect`, `FreeListCorrect`, `BucketsCorrect`,
`KeysStayUnique`, `HeldItemsInNoList` and `DestsStayLast` follow from it. The
type invariant, and that an item in the client's hands is in no list
(`InNoList`), are proved and not run as well.

`LibraryIsPool` is the refinement: each call is the call of `PoolSpec` of that
name, with the answer of that call, and `link_astray` is `Ruin`. Since `PathOf` is computed and the invariant only says that
a path exists, `ChainLemmas` first shows that they are the same (`PathOfChain`);
from then on every step is one about paths: the free list loses its head or gets
a last item, a table loses an item or gets one at its end, and all the others
read as before.

**PoolThreadsProofs.** Between the lines of a call the free list is not what it is
between calls. `IInv` says what each line may count on: `LineFacts` (what a
thread tested and read inside the lock still holds at the next line),
`LockHeldInside`, `Cleared`, and one path `p` that is the free list, shares no
item with the clients or with an item that a call carries (`Apart`), and ends at
`free_tail` or, at the lines where the tail has yet to follow, at the item it will
be set to (`TailAt`). One lemma per line that writes the list; the lines that only
test or lock share one (`QuietKeeps`). `LockExclusive`, `ItemsSafe`,
`TailCorrect` and the action property `RefusalsHonest` follow. `PoolIsFifo` is the
refinement: line 86 takes the first of the queue, lines 64 and 67 append to it,
and no other line changes what `PathOf` reads. That line 86 takes just what is
the head at that moment, and not what it was when the thread read it, is what the
lock and `LineFacts` give.

**NandEccProofs.** A bit of a page is a number of eleven or twelve binary digits,
those of its byte and its column, and each digit has two rows, the even one of
which covers the bits with a 0 there (`Covers28Is`, `Covers27Is`: this is where
the words, lanes and turns of the 2.6.28 code and the addresses of the 2.6.27 code
come to the same). From there on the versions are one. Flipping a bit turns just
the rows that cover it (`RowFlips`), so that the rows in which the codes differ
are those of the flipped bits, crossed (`Syndrome`). The rows of one bit have one
of each pair, and spell its number (`Decode`, `RowsSpell`); those of two bits lack
a pair or have both of one, and are more than one (`TwoBits`), since two bits
differ in a digit; a bit and a row of the code itself leave a pair even
(`BitAndRow`). The invariant `EccInv` says that the page and its code are what
was programmed but for the flips, and that what a read and `TestEcc.c` answered
was right; that `TestEcc.c` answers with a bit at all comes from `Syndrome`, as
the rows in which the codes differ are then those of one bit. The pages are any, and with `Weak` all of the bytes so are the two
flips.

**FileProofs.** Of the scripts, none of the four properties is inductive (two of them,
`RenamedIsWhole` and `PreparedHasAll`, are proved only: TLC checks what follows
from them, `BuiltFromWhole`). That gmp is never
there in part needs that a rename always follows a download that finished
(`RenameInv`); that a finished `prepare.sh` leaves everything needs that at each
place of the list everything before it is there (`PrepareInv`), and a finished
build the same of its list (`BuildInv`), from which `EveryPackageBuilt` gets from
the builds to the archives. All steps of `prepare.sh` have in common that something is
made of nothing (`Grows`), from which one lemma each says what going on to the
next package, staying for a second command, and ending early keep. The action
property `FinalNamesUntouched` follows from the same invariant.

Of the lister, `NothingHeld` says something of the end of a run only. The
invariant says at every step what the calls in progress hold: each by where it is
and what it has left to read (`StreamsOf`, `BlocksOf`), summed over the stack
(`Account`). Sums over a stack are stated as running totals (`Sums`), and lemmas
say what a push, a pop and a change at the top do to them. Every action is of one
of three kinds, a call that moves, returns or calls itself (`Moves`, `Returns`,
`CallsItself`), and each kind keeps the parts of the invariant in the same way.
`CompleteListing` needs that every directory that was printed is listed or being
listed (`Progress`) and, at the end, that a tree has no entry that is not under
the root: of those that were not printed one has the shortest path, and its
parent was listed (`Parent`).

**SimpleCdevProofs.** `CdevInv` is inductive. The count of `EachSignalCountsOnce`
starts with the first step of loading (`CountInv`), when no file is open and so no
call in progress (`NoCalls`); before the last step of loading one can be, since
the character device is there (`LiveGot`). From it, a thread that
copies while no wait was cut off is the only one (`OnlyCopier`), which is what
`ReadsOneVersion` needs when another thread writes. `Unwound` needs that what is
left of an error path is just what there is, in the opposite order (`StageInv`),
until a crash, which may leave any stage of it.
That readers of one opener find the default string needs that the buffer holds
it, which is only true while nobody else has opened the device (`DefaultInv`,
`BufferInv`). One lemma per action; each of the six properties of the run follows,
for any number of threads, files, cells and signals.

**DriverProofs.** The invariants say what each step of a probe
or a load holds so far, and that a timer is only pending or running while the
module is there; that stale users are among those whose file survived needs that
an entry can be opened only while the module is loaded or loading, in which
case its memory is there. `OpenFindsCard` needs that the search goes on from a
node just when `dev_info` does not name the card, so that what is left in it by an
earlier node cannot be the card's, and that only before the first node is asked it
is what the stack held. `RfOwnCard` needs what holds during a probe that no other
has overlapped: `__dev` is its card. `RfProbe` says nothing of the number beyond
the failed probes: a card that is bound by way of line 197 keeps one.

**ProgramProofs.** `NoMoveHelps` for the next value needs that every value
dealt so far is at least as high: the group that gets a value was the least
full before it, every value in it can be taken off to no less than what it was,
and so a move helps nothing (`AppendKeepsBalance`). The bitmap is right because a
bit is at one place of one word (`WordAndPlace`), so that setting and clearing
touch no other; the invariant says how far the loops have come, which begin in the
map or, from a bit below 0, are not followed (`TurnBefore`). For the
backtrace, the buffer has as many frames as were known among those visited, until
it is full, and the one at each place is the one with so many known before it.

Powers and sums over messages are recursive functions. The theorems of the
library about those take an operator as a parameter and cannot be used, but
what is needed can be derived in first-order form: a set of naturals has a least
element (`LeastNat`), so that one with 0 and every successor has them all
(`AllNats`), so that a step that is given as a function can be iterated
(`Iteration`), so that the function exists, is the only one and does as its
definition says (`Powers`, `BytesAre`). `HidInv` then says that the lengths
sent and those left make up the size (`LengthsAddUp`, any number of messages) and
that each message starts where the one before it ended, as long as there are two
of them; three messages are where the code goes wrong (`hid_three`), so that the
bound of `TwoMessagesSentWhole` is sharp. `BcdInv` says that after each turn the
word holds the lowest digits of the number, at its top, and on the way back that
the result and what is left make up the number: a turn takes a quotient by 10
or by a power of 16, and quotients are unique (`Quotient`, `NextDigit`).
`ItoaInv` says that the digits so far are in place and that the number is at least
as large as their power of the base, so that the loop stops at the first power
that is larger, which is how many digits the number has (`WrittenIs`); the cells
before them hold what earlier calls left, and no digit is a NUL (`NoDigitIsNul`).

Only model-checked: the liveness properties `CallsGoOn`, `EventuallyBuilt` and
`ProgramsEnd`, since liveness under fairness and `ENABLED` are out of TLAPS's
reach. Expected violations are TLC's as well.

## 7. What was found, and what is left out

Found, each shown by a run that violates what a comment or the code says:

- `hidcom.c:230` sets where the next message starts to the length of the last
  one; from the third message on the tool sends the second one's bytes again.
- `hidcom.c:216` takes up to 30 bytes of data into the 30 bytes that the length
  and check byte share.
- `simple_cdev.c:53` ignores the result of `down_interruptible` and raises the
  semaphore all the same, which lets one more thread in for good.
- `simple_cdev.c:37` frees, on each close, the one buffer that every open
  replaces (line 87): of two openers the second goes on with freed memory.
- `dirlist.c:207` compares errno with its value before the call, without setting
  it to 0: an error that an earlier call has already left there goes unnoticed.
- `itoa.c:26` returns the cell below the first digit of a decimal number.

Stated as invariants that hold, since nothing in the repository says otherwise:
a probe that gets a device number gives everything else back and reports success
(`BoundWholeOrEmpty`, a part of `NoProbeHalfDone`); two probes at a time send each
other's messages (`OwnCardUnlessOverlapped`); a debugfs file that is open at the
removal reaches freed memory (`OnlyOldFilesStale`); `_scandir` never frees the
hidden entries (`NothingHeld`, where they are what is left of the heap).

Met by the model, and no property covers it, since nothing can be said of what
follows:

- `list.c:119`: `do_link` through an address whose slot has changed since
  `prelink`, and an item whose second link nobody cleared, go unnoticed by the
  library. Lines 117 and 124 say whose address it is, not for how long.
- `hidcom.c:119-121`: a message whose length byte is more than 28 is copied past
  `in_msg` before it is checked, up to 259 bytes into 32; what is certain is that
  the call does not return with success (`FaultsReported`).
- `bit.c:125`: of the negative numbers that `atoi` can return only -1 is refused;
  the others are set in front of the bitmap.
- `simple_cdev.c:145-162`: a file that is opened between `cdev_add` and a failing
  `device_create` is open when the device and the module are freed. The node in
  `/dev` is made by `device_create`, so that one from before is needed for it.
- `build-toolchain.sh:198-199`: the patch and the configuration of uClibc lie
  beside the scripts and are looked for among the archives; neither script copies
  them, and the build stops there until the user does.

Read off the code, with no run of their own:

- `my_timer.c:18` passes the length of the wait where `mod_timer` takes its end:
  how long the timer waits depends on how long the machine is up.
- `rfcard-hid.c:197`: the probe that gets a device number keeps it for good while
  it gives back everything else; and where `alloc_chrdev_region` fails, a later
  failure gives back, at line 221, a number that was never set, which may be that
  of another card.
- `hidcom.c:234` returns the length of the last message, although line 239 says
  "return send bytes".
- The test at `hidcom.c:147` compares an unsigned number with 0 and never fires.
- A kernel tree that was unpacked in part passes the test of `prepare.sh:54`, and
  the build goes on with it (`BuiltFromWhole` leaves it out).
- The loop of `mktbl.c` leaves out the last entry, which is the initial value
  anyway.

Not modelled:

- In the modelled components: printing and debugging code, which keep no state;
  table locks in the list library, of which the comments do not say where they
  are released; `debugfs_open`, `debugfs_read` and `debugfs_write`, which nothing
  calls; `rf_set_operational` of the driver, under `#if 0`, and its file
  operations, which return 0; the ARM branches of the backtrace, which print
  registers; `get_range` character by character, of which `Bits` takes what it
  can return.
- `misc/android/repo`: a third-party program, kept for convenience.
- `send_flow_ryu.py`, `fstat.c`, `errno.c`, `endian.c` and the other programs of
  one call or one request: they keep no state between a call and the exit.
- Editor, shell and window-manager configuration, third-party files and notes:
  not programs of this repository.

## 8. What could come next

1. The safety halves of the liveness properties: a bound on the steps of a call
   of the lister or of a run of a script, as an action property that some measure
   of what is left gets less.
2. `SimpleCdev` with a buffer per opener, as the code would have to be for
   `ReadsOneVersion` to need no history.
3. The general case of `SentWhole`: what a card gets of three messages and more,
   as a function of the size.
