# Verification of the Password Manager firmware

TLA+ models of the firmware in this repository: a password manager for an
STM32F407 board that keeps encrypted vaults in the internal flash, on top of the
Miosix kernel. TLC checks the models on small instances; TLAPS proves the
theorems in the modules whose names end in `Proofs`.

## The system

| Part | Source | State it keeps | Operations | What makes it correct |
|---|---|---|---|---|
| Password manager, one slot | `PasswordManager.{h,cpp}` | `key`, `firstUse`, `changed`, `numOfPass`, `passwords`, `encryptedData` in memory; identifier, count and cipher text on the flash | login, add, remove, search, change password, change master password, commit, delete, quit | what it calls saved is saved; what is saved is what the next login sees; no torn or failed write passes for a vault; the count read back fits the buffer |
| Slot menu | `SlotPasswordManager.{h,cpp}`, `main.cpp` | the current manager | choose a slot, run it, ask again | slots do not disturb each other |
| Flash driver | `FlashDriver.{h,cpp}` | the control and status registers of the flash interface, the flash itself | unlock, erase sector, erase all, program byte / half word / word / double word, map of the sectors | a call that returns true has done its work; the control register is locked again afterwards |
| File system | `FileSystem.{h,cpp}` | a list of headers with the data of their files in sectors 8 to 10 of the flash, sector 11 as a buffer | create, lstat, unlink, clear; write and read are declared and have no source | changing one file changes nothing about the others, also while a sector is rewritten |
| AES, MD5 | `aes.{c,h}`, `md5.{c,h}` | none | third party | out of scope: taken as an ideal cipher and an injective hash |
| Kernel threads | `miosix/kernel/kernel.{h,cpp}` | sleeping list, per thread flags and join data, `kernel_running`, `tick_skew`, `exist_deleted` | create, sleep, wait, wakeup, join, detach, end, delete, pause and restart, tick | sleepers wake on time, joiners are woken, dead threads are freed once |
| Priority scheduler | `miosix/kernel/scheduler/priority/*` | one circular list per priority | insert, choose and rotate, change of priority, removal of dead threads | lists and priorities agree, everybody of the highest priority gets a turn |
| Mutexes, condition variables | `miosix/kernel/sync.{h,cpp}` | owner, heap of waiting threads, depth; inherited and saved priorities; queue of waiting threads | lock, tryLock, unlock, wait, signal, broadcast, setPriority | exclusion, no lost wakeup, what is lent is given back |
| POSIX threads | `miosix/kernel/pthread*` | owner, depth and list of waiting threads of a mutex (which `FastMutex` is), list of a condition variable | lock, trylock, unlock, wait, signal, broadcast | exclusion, no lost wakeup, nobody is overtaken |
| Queues | `miosix/kernel/queue.h` | ring buffer, the thread that waits | put, get, wait for room or for data, reset, from threads and from interrupt handlers | nothing is lost, duplicated or reordered, nobody sleeps for ever |
| Serial driver | `miosix/arch/common/drivers/serial_stm32.cpp` | receive queue, transmit buffers | read, write, interrupt handlers | bytes arrive once and in order |
| Miosix file systems | `miosix/filesystem/**` | mount table, open files, device table | open, read, write, mount | not used by the firmware beyond the console |
| Processes | `miosix/kernel/process*.cpp` | process table | fork-like creation, wait | compiled out (`WITH_PROCESSES`) |
| Libraries, tools, examples | `miosix/stdlib_integration`, `miosix/_tools`, `miosix/_examples`, `miosix/arch` | | | vendored or generated |

How they interact: `main` runs the slot menu in the only application thread. The
menu creates a `PasswordManager` with the address of the slot, calls its
`startUI`, deletes it and asks again. A `PasswordManager` calls the flash driver
to erase the sector its address lies in and to program bytes, and reads the
flash as memory. The driver disables interrupts for each call. User input and
output go through the C library to the console device, whose driver waits on the
kernel's mutexes and threads. The kernel's parts share the state of the threads:
a mutex changes priorities, which move threads between the scheduler's lists;
the scheduler decides who runs between any two critical sections; ticks and
interrupts wake threads.

The hard behaviours.

* Commit: an erase and some thirty thousand byte writes, any of which may be the
  last before the power goes. A call that fails does not stop the calls after it,
  and programming a byte that was not erased gives neither the old nor the new.
* The state in memory (`changed`, `firstUse`, the order of the tuples) has to stay
  in step with the flash through long sequences of commands.
* Mutexes: a thread that waits can be woken for another reason, or be handed the
  mutex before it runs again; priorities change while threads are in heaps.
* Threads: pointers to threads outlive them; `join`, `detach`, the end of a thread
  and the idle thread meet in any order around one union and one flag.
* Ticks come while the kernel is paused.
* `WAIT` is one flag for all a thread may wait for; a queue remembers one waiting
  thread and overwrites it.
* The file system has no free space but holes between files and one sector to
  rewrite the others through; which places hold headers can only be told by
  following the list.
* The flash interface and the serial port work on while the processor does
  something else: registers are read and stored at different moments, buffers
  are read after the call that was given them, and the order of two interrupts
  decides whether the last characters of a line are ever seen.

`PROJECT.json` lists these as hazards, each at its line.

## Modules

| Module | Models |
|---|---|
| `FlashDriver` | the sector map (`getSectorAddress`, `getSectorNumber`) and what programming does to a byte |
| `PasswordManager` | the slot menu and the password manager on it |
| `FlashController` | the calls of `FlashDriver.cpp`, access by access, with the flash interface as an actor |
| `FlashCalls` | what a program may expect of these calls; the refinement is `ImplementsCalls` in `FlashController` |
| `Vault` | what a user may expect: a slot holds nothing or a bag of entries under one master password, a session works on a copy, a commit replaces the vault in one step |
| `PasswordManagerVault` | the refinement mapping from `PasswordManager` to `Vault` |
| `Sync` | `Mutex` with priority inheritance, `ConditionVariable`, and the parts of `Thread` they use |
| `Locks` | what a program may expect of them: levels a thread has, levels it parked in a wait; no priorities, queues or wakeups |
| `SyncLocks` | the refinement mapping from `Sync` to `Locks` |
| `Pthread` | pthread mutexes, condition variables, and the flags `WAIT` and `WAIT_COND` |
| `Queue` | `Queue<T,len>` between threads, under mutexes of `Pthread`, and interrupt handlers |
| `Fifo` | what those who use a queue may expect: a bounded channel that may be cleared |
| `FileSystem` | the file system on sectors of flash, each erase and each copy a step |
| `Directory` | what a program may expect of it: files stay where they are and hold what was written |
| `Kernel` | threads from creation to deletion, priority scheduler, tick, pausing |
| `Serial` | the driver of the console's port in DMA mode, its interrupts and DMA streams |
| `PasswordManagerProofs`, `FlashControllerProofs`, `SyncProofs`, `QueueProofs`, `SerialProofs`, `KernelProofs`, `FileSystemProofs` | theorems and proofs |
| `PthreadProofs` | lemmas about `Pthread`, on which `QueueProofs` rests |
| `MCPasswordManager`, `MCPasswordManagerVault`, `MCSync`, `MCQueue`, `MCKernel` | values of the constants for TLC (`FlashController`, `Serial` and `FileSystem` need none but those in their `.cfg`) |

### PasswordManager: state and code

`mode` is where the thread stands: at one of the prompts (`slot`, `master`,
`menu`, `again`) or in one of the calls of `storeData` (`erase`, `ident`, `count`,
`data`, `stored`). Each command is one action. `storeData` is not: each driver
call, each byte of the count and each cell of the data is a step of its own,
because it can fail and because the power can go between two of them.

`flash[s]` is what the flash holds at the address of slot `s`: `ident` (does
`strcmp` find "PWM"), `count` (two bytes) and `data`, in cells. A cell is one
tuple of cipher text, or the encrypted checksum at the end; since CBC chains the
blocks, a cell stands for the key and for all the plain text up to it. A cell
that was programmed over another one, or only in part, is `Garbage`, and no key
makes it decrypt. A master password stands for the key made from it.
`passwords` is the array up to `numOfPass`. Commands that change nothing are
stuttering steps, and so are an `OpenVault` whose count is negative (the copy
faults and the board reboots) and an erase that fails in `Delete`.

`key` is uninitialised in a slot without identifier; `OpenBlank` chooses it
freely, the key of an earlier user included.

Abstractions that matter: erasing a sector and programming one byte are
instantaneous (the power cannot go in the middle of them; it can between any
two bytes of the count, and inside a cell of data); the identifier's four bytes
are one step, since a part of them is no identifier; websites and passwords fit
their 32 byte fields; slots start erased.

### FlashController: state and code

`at` is where a call stands, one step for each read or store of a register. CR
is `lockBit`, `bits` (PG, SER, MER, STRT) and `snb`; `running` is what the interface
does while BSY is set. The interface is modelled as far as the code relies on
it: setting STRT starts an erase of what MER or SNB say, a store of data starts
programming when PG alone is set, both end by themselves, STRT goes then, a store
to CR waits while BSY is set and a read does not, and keys for a register that is
not locked may lock it up. `CR |= FLASH_PSIZE_WORD` after STRT is
therefore two steps, and may start the erase again. `InterruptDisableLock` is
`NobodyInside`. `done` is a history variable: whose work the interface has done.

`PasswordManager` takes a call that returns true as one step that does its work;
`ImplementsCalls` is what allows that. Its runs with failing calls go further
than the driver does: here none fails.

### Serial: state and code

Characters are numbered. On the receiving side the line brings characters and
pauses, the stream fills `rxBuffer` and asks for its interrupt at half of it;
`IRQhandleDMArx` and `IRQhandleInterrupt` move what is there to `rxQueue` and start
the stream again. They do not nest (`NVIC_SetPriorityGrouping(7)`), and the
stream's goes first when both are pending (`DmaFirst`). `IRQhandleInterrupt` is two
steps, since a character may come after SR was read. The reader takes characters
one by one with interrupts enabled in between. On the transmitting side
`writeBlock` sends parts from the caller's buffer where the DMA can read it, and
the rest through `txBuffer`; the stream reads either one later, character by
character, when a caller that has returned may have put something else into
its buffer (`Junk`). `rxWaiting` and `txWaiting` are there or not; any thread may be
woken by somebody else (`StrayRx`, `StrayTx`). Errors on the line, the mode
without DMA, `IRQwrite` and `ioctl` are left out.

### Sync: state and code

Every call of `sync.cpp` runs with the kernel paused up to its return or to the
yield that makes its wait effective, so a call is one action and a thread that
waits is resumed by another (`Granted`, `WaitAgain`, `CondReturn`). `at` says in
which loop it waits, `this` on which mutex. `waiting[m]` is the heap of a mutex as
a set, of which the code only ever looks at the first element: `front[m]` is that
one, chosen freely among those of the highest priority whenever the code calls
`make_heap`, `push_heap` or `pop_heap` (`Fronts`, `AfterPop`). Any ready thread may
be the next to run; nothing here relies on the scheduler.

Programs lock mutexes in increasing order. Without that, the walk of `PKlock`
along `owner` and `mutexWaiting` can go round a cycle for ever with the kernel
paused; the hazard list says so. A mutex that is not recursive is not locked
twice (`errorHandler`), and only its owner unlocks it.

### Pthread and Queue: state and code

As in `Sync`, a call is one action, here because interrupts are disabled. The
lists are linked through variables on the stacks of those who wait, from `first`
on; `last` is read only while the list is not empty, so `list[m]` and `condList` are
sequences. There are no priorities: an unlocked mutex is handed to the first in
the list before that thread runs. `trylock` never waits and may come in any
order. `pthread_cond_wait` is two actions (`CondWait` up to the yield, `CondReturn`,
which begins `IRQdoMutexLockToDepth`), and `Granted` or `WaitAgain` after it.

`Queue` EXTENDS `Pthread`: the threads that wait in the queue are "away" for it.
`Round` is one pass through the loop of `get`, `put` or one of the two waits, up to
its return or its yield: wake the thread in `waiting`, then do the work, or become
`waiting` and sleep. `irq`, chosen at the start, says which side belongs to an
interrupt handler, as `queue.h:42` asks; the other, or both, belong to
threads that hold the mutex of their side. A thread that holds the mutexes of both
sides and waits in one of them waits for itself, and is left out. `Reset` comes at
any moment, and `Wakeup` of any thread that sleeps. The buffer starts
uninitialised, which is `NoValue`.

### FileSystem: state and code

The flash is cells of the size of a header. A cell of data is a header as well, if
somebody reads its address: `Wild` for its `next`, and a name that begins with a
zero (`NoName`) or does not (`Text`); an erased one has `next = Nil` and a name that
is not zero, so `isValid` finds a file in it. `open` with `O_CREAT` chooses where the
file goes in one step, which reads only (`CreateAtEnd`, `CreateInHole`); what it
writes is a step for each erase and each copy of a sector, and three for the
header at the end of the list, since a word is two halves. `job` is the arguments of
`writeHeader` or `writeHeaderRestoringSectors`, `Fill` its inner loop, `CopyOf` what
that leaves in the buffer: it jumps from a header to its `next`, so the cells
between, as far as they lie in the same sector, remain erased. `HardwareRng`
chooses any hole.

Abstractions that matter. Headers do not straddle sectors here; on the board
they do, since 36 does not divide 131072. `File::write` has no source, and
`Use` is what `FileSystem.h` says of it: a file is written within its size, each
place once. The buffer is forgotten when a call ends, because the next one that
uses it erases it first. `findFile` and `lstat` change nothing.

Failing calls of the driver and losses of power come anywhere. `Fail` ends `open`
before any of its erases and writes, in the first sector or a later one;
`FailCopy` ends it somewhere in the copy of a sector, with the sector in part
erased (or as a whole: the power went before the copy) and one cell half
written (`Torn`); an erase of `clearFS` may do nothing, and the others still
come. An erase itself is done or not. What the flash holds is all that is left afterwards.

The code loses files in four ways: a merge whose end `isValid` takes for a header
and that is none (`MergesHoles`); the new header in one sector and the false one,
to which it leads, in a later one that is not written any more (`HeadersSplit`);
a copy that stops; a `clearFS` that stops, or an erase of it that fails. The list may then end too early, or lead to old
headers and data. The model goes on with such lists, and all calls work on them as
the code does. `intact` is a history variable: the lowest address that was
damaged so far. For a merge it is lowered when `open` begins, before the header is
written. `ImplementsDirectory` is about the files that end before it.

### Kernel: state and code

A thread is known by the block of memory that holds it; blocks are used again.
A call that ends with a yield is one action with it, since a tick between
the two is the same as one right after. The two critical sections of `join`
(marking, and removing the dead) are two actions, and its loop a third, because
a thread can be preempted between them. `flags` are those of `ThreadFlags`
without `DELETING` and `WAIT_COND`; `joinData` is the union of `waitingForJoin` and
`result`. A list of the scheduler is the sequence of its threads from the head
on, the head being the thread chosen last. Sleepers are kept with the time they
have left, so that time needs no bound. Waking a thread with `IRQwakeup` and with
`wakeup` is one action that may come at any time. `restartKernel` is called with
interrupts enabled.

`OwnerSpec` is the program in which only the main thread creates, joins and
detaches, with fairness; `Spec` is any program.

## Runs

| Run | Instance | What it shows |
|---|---|---|
| `faults` | 1 slot, 2 entries, 1 website, 2 passwords, 2 master passwords, failing calls, power loss anywhere | `TypeOK`, `CleanMeansDurable`, `OnlyTornCountOverruns` |
| `vault` | 2 slots, 2 websites, 2 entries, 2 master passwords, power loss outside of `storeData` | `ImplementsVault`, `IdentMeansValid`, `CommitCompletes`, `SlotIsolation`, `RemoveTakesItsOwn` |
| `torn_store` | 1 slot, 1 entry, power loss in `storeData` | `IdentMeansValid` fails |
| `flash` | 2 threads, sectors 1 and 3, 1 place, 2 values, power loss anywhere | `RegistersAtRest`, `ImplementsCalls`, `CallsReturn` |
| `serial` | 6 characters each way, `rxBuffer` 4, `rxQueue` 5, `txBuffer` 2, transfers of 2, reads of up to 4 | `TypeOK`, `ReceivedInOrder`, `TransmittedInOrder`, `EveryCharIsRead`, `EverythingIsSent` |
| `sync` | 3 threads, 3 priorities, 2 mutexes, one recursive and with the condition variable, depth 1 | `TypeOK`, `MutualExclusion`, `NoLostWakeup`, `NothingKept`, `ImplementsLocks` |
| `heaps` | 4 threads, 2 mutexes, no condition variable | `HeapOrder` |
| `inherit` | 3 threads, 2 mutexes | `OwnerInherits` fails |
| `kernel` | 3 blocks, 2 priorities, 2 ticks of sleep, no nested pause | `TypeOK`, `ListsAgree`, `SleepersOnTime`, `DeadAreFreed`, `WakesTheJoiner` |
| `turns` | the same, one owner, with fairness | `JoinersAreWoken`, `EveryTurnComes` |
| `queues` | 3 threads, 2 mutexes that guard the sides, one recursive and with the condition variable, depth 1, 2 places, 2 values, each side threads or an interrupt handler | `TypeOK`, `Exclusion`, `NoLostWakeup`, `OnePerSide`, `NoOvertaking`, `ImplementsFifo`, `ImplementsLocks` |
| `files` | 2 names, files of 0 to 2 cells, 2 sectors of 4 cells, failing calls and power loss anywhere | `TypeOK`, `NothingLost`, `ImplementsDirectory`, `CreateReturns` |

The bounds. Two entries give a removal in the middle and at the end, a store
that is torn in the first, a middle and the last cell, and counts that differ in
more than one bit.
Two master passwords give a right and a wrong one. The count is two bytes with
the real arithmetic; that `MAXSTORED` is 510 and the high byte then matters is
covered by the theorem. Two slots are enough to disturb one another, and the
theorem has all four.

The numbers of sectors 1 and 3 share a bit, so that one left in SNB is taken for
the other. Six characters fill the queue of five, or the buffer of four with
one in the data register and one lost, and give a part that asks for no
interrupt. Six bytes make three parts, from the caller's buffer and from
`txBuffer`, in one call or over several. The two directions share only the
processor, so each is checked while the other rests (`ApartSpec`).

Three threads and two mutexes give a chain in the walk (one waits for one that
waits for the third) and a heap of two; a heap whose order the walk can upset
needs a third thread in it or behind it, hence `heaps`. Depth 1 is one nested
lock, which tells a depth that is given back from one that is forgotten. Three
blocks give a joiner, a joined thread, and one that comes between or uses the
memory again; two priorities give a list to move to.

A queue of two places is empty, full and neither, and its positions wrap apart
from one another; two values show an exchange. Three threads put two on one side
of the queue, or in one list. Eight cells hold files that end in the sector they
begin in, at its border, and in the next one; two names and files of 0, 1 and 2
cells give holes that fit, are split, and are merged, within a sector and over the
border. A program that creates and removes again and again reaches lists of
several holes in a row. In the run headers are split by a failure, merges end on
data, on blank cells and on holes, the endless loop is reached, and there are
files before the damage and behind it. A rewriting over three sectors does not
occur; the theorems have any number.

Symmetry: threads, blocks other than the main one, passwords and sites are
used only as values that are compared; runs of liveness properties have none.

Deadlock is not checked in the runs of `Sync` and in `queues`: all threads of a
program may wait on a condition variable, or in a queue, for somebody outside.
Nor is it in `files`: a full file system may be left alone, and where the code
loops for ever (`Endless`) its step changes nothing: `CreateReturns` names it as the
only way not to return. It is checked everywhere else.

Fairness. In `PasswordManager`, `FairSpec` asks only that `storeData`, once
called, goes on: it is straight-line code and the driver's waits for the busy
bit end. Users owe us nothing. In `FlashController` it asks that the interface
finishes and that a call, which runs with interrupts disabled, goes on. In
`FileSystem` it asks that `open` and `clearFS`, once called, go on.
`ApartSpec` of `Serial` asks that interrupts are served, transfers go on and a
pause is noticed, that calls of `readBlock` and `writeBlock` go on once made,
and that the program calls `readBlock` again and again: what nobody reads,
nobody gets. `OwnerSpec` asks that ticks come, and that one of them comes while
the kernel is not paused (strong fairness: the timer is not in step with the
program), and that whoever paused the kernel restarts it. With weak fairness of
the tick alone `EveryTurnComes` is false: a program that pauses the kernel
whenever the tick comes is never preempted, since missed ticks are lost.

## What the failing runs say

* `torn_store`: the identifier is written first. If the power goes before the
  last cell, the slot asks for a master password that does not exist, for ever:
  the login prompt has no way out, and `delete` is behind it. In the shortest trace the
  count is not written either: see `PasswordManager.cpp:534` below.
* `inherit`: A thread of priority 2 holds mutex 2; the owner of mutex 1 waits for
  it; a thread of priority 1 locks mutex 1. The walk gives its priority to both
  owners, so the first one drops from 2 to 1.

Seen while modelling, and without a run that fails. In the kernel and the file system:

* `kernel.cpp:510`: a thread in `join` is woken by a detach; before it runs, the
  thread it joined ends and is deleted, and a new one gets the block. `join` finds a
  thread that is not detached and waits for it, and nobody knows. `JoinersAreWoken`
  fails under `Spec` of `Kernel`; under `OwnerSpec`, where one thread joins and
  detaches, it holds (`turns`).
* `kernel.cpp:148`: `restartKernel` tests what `kernel_running` was before its
  decrement, so the yield it promises after a missed tick never happens.
* `pthread.cpp:341`: `pthread_once` marks the function as done before it calls it, so a
  second caller returns while it still runs.
* `pthread.cpp:258`, `pthread_private.h:66`: "lifo policy" of lists that are fifo.
* `FileSystem.cpp:144`: whether the last of several merged holes is larger than the
  file needs is decided by `isValid(newHeader.next)`. If that address holds old
  data, or is blank, no header is written there and the list ends or leads
  astray: the files behind it are lost. If the holes fit and another hole follows,
  a header that points to itself is written, for ever (`Endless`).
* `FileSystem.cpp:173`: the new header and the false one behind it can lie in two sectors.
  If a call fails between the two, the new header leads to old data.
* `FileSystem.cpp:317`: if `clearFS` stops halfway, the headers in the later sectors are
  still there, and a new file that ends where one of them begins brings it back into
  the list: a name may then be there twice, and the second file is never found.
* `FileSystem.cpp:116`: `holes.~vector()` is called on a local vector, whose destructor
  runs again at the end of the block: its memory is freed twice. The model has the
  holes as a set and does not show it.
* `FileSystem.cpp:165`: nothing looks into the buffer sector after a restart. If the power
  goes between the erase of a sector and its copy, the files of the sector are
  there and cannot be found.
* `FileSystem.cpp:183`: of a file in a hole that crosses into the next sector, the part in
  that one keeps the old data and cannot be written.
* `FileSystem.cpp:63`: 24 letters of a name leave no room for its end, and `strcmp` runs
  past it.
* `FileSystem.cpp:103`: after a hole that is too small the scan follows two headers, and
  never looks at the one between.
* `FileSystem.cpp:317`: `clearFS` erases sectors 4 to 10, the first file is in 8; 8 to 11 are
  also the slots of the password manager, and the code may reach into 4.
* `FlashDriver.cpp:161`: a word is written in two halves. If the second one fails, the end
  of the list leads to 0xFFFFxxxx, and the next `open` reads there.

In the password manager and the mutexes:

* `PasswordManager.cpp:534`: if the power goes between the identifier and the high byte of
  the count, or writing the count fails, the count is negative: -1 if it is still
  erased. `64*(-1)+16` is a huge length as a `size_t`, and `memcpy` runs over the buffer
  and off the memory map. `OnlyTornCountOverruns` says that this is the only way to
  overrun it; the line above asks "add integrity check for numOfPass?".
* `PasswordManager.cpp:163`: `firstUse` is not cleared by a commit, so the next one
  in the session asks for a master password again and re-encrypts with whatever
  is typed; `PasswordManager.h:99` calls it "true if there is no data in the
  flash".
* `PasswordManager.cpp:400`: `[y, x:old, x:new]`, remove `y`: `x:new` moves to the
  front, and a search for `x`, which takes the last match, now shows `old`. `add`
  accepts a website twice.
* `SlotPasswordManager.cpp:54-56`: the prompt offers Enter to exit, but an empty
  line does not end `scanf("%s")` and the loop condition compares two pointers.
* `PasswordManager.cpp:124`: a change of master password that is refused still
  sets `changed`, which `PasswordManager.h:83` calls "true when commit is
  necessary".
* `sync.cpp:203`: `tryLock` of a recursive mutex by its owner succeeds and nests;
  `sync.h:170` says it will fail.
* `kernel.cpp:499`: a second `join` that comes after the thread ended, and before
  the first caller runs again, succeeds, and the first returns false;
  `kernel.h:621` has it the other way round.
* `priority_scheduler.cpp:190`: a thread that changes its priority is put right
  after the head, which is where the search for the next one starts. Two threads
  that lower and raise their priority in each turn, or are lent one and give it
  back, keep others of the same priority from running; hence `OwnerNext` has no
  `setPriority`.

## Theorems

### PasswordManagerProofs

For every number of slots, entries, websites and passwords (`MaxStored` below
32768), with failing calls and power losses:

* `TypeCorrect`: `Spec => []TypeOK`. `TypeOK` is not inductive: that a store stays
  inside its image needs `Shape`, which ties `numOfPass` to the tuples,
  `encryptedData` to their cipher text, and `at` to the mode.
* `SlotsIsolated`: `Spec => SlotIsolation`. By the sector map the four addresses
  lie in sectors 11, 10, 9 and 8 (`SlotSectors`); `FlashSteps` lists every way a
  step can change the flash.
* `CountsFitUnlessTorn`: `Spec => []OnlyTornCountOverruns`. The bytes of the count only lose
  bits until the next erase, the low one is written first, and the write stops
  at the first failure; so at each moment the high byte is still erased, and
  the count negative, or the count is at most `MaxStored` (`CountsBounded`).
* `CleanIsDurable`: `Spec => []CleanMeansDurable`. The strengthening `Durability`
  says what a store has achieved while no call has failed (`Progress`) and that
  the login prompt works on what the flash holds (`Loaded`).
* `RemoveTakesOne`: `Spec => RemoveTakesItsOwn`, whatever fails.

For a driver none of whose calls fails, and power that does not go in `storeData`
(`FlashErrors = FALSE`, `LossDuringStore = FALSE`; elsewhere it still may):

* `IdentIsValid`: `Spec => []IdentMeansValid`.
* `Implements`: `Spec => ImplementsVault`, the whole refinement.

The hypotheses are needed: `torn_store` shows what a loss in `storeData` does.
`Kept` says that every image with the identifier, but for the one being written,
holds some vault. What a vault on the flash is, is a CHOOSE over keys and tuples
(`Opened`); `HoldsOne` shows that there is one at most, because a cell stands for
the key and for all the text before it, and the count for their number. A session is
a bag of entries and the program's an array: `add` appends, and `remove` overwrites
an entry with the last one, so that both are counted place by place.

Assumptions: `AbsenceAssumption` says that the value for no vault is not one.
`ByteAnd` is a bitwise AND as far as `ByteAndAssumption` says (TLC evaluates it on
the real one); `Slots` are among the four. That `encrypt` and `decrypt` fit is built
into the model: MD5 and AES are ideal.

### FlashControllerProofs

For every set of threads, sectors, places and values:

* `AtRest`: `Spec => []RegistersAtRest`.
* `Implements`: `Spec => ImplementsCalls`, the whole refinement.

`Place(t)` says what CR, the interface and the flash are like at each access of
the call; together with `Alone` (one call at a time) it is inductive. That an
erase works on the sector the call names needs `SectorBits` (four bits hold the
number), that the erase may run twice needs `AfterTwice`, and that CR is back to
what it was needs that STRT, if it is set, belongs to an erase still running. The
assumption is `FlashAssumption`: the numbers of sectors are below 12 and the
values of a place differ from the markers.

### SyncProofs

For every number of threads, mutexes, priorities and levels:

* `TypeCorrect`: `Spec => []TypeOK`.
* `Woken`: `Spec => []NoLostWakeup`.
* `Exclusive`: `Spec => []MutualExclusion`.
* `HeapsKept`: `Spec => []HeapOrder`.
* `AllGivenBack`: `Spec => []NothingKept`; `OwnPriority`, a consequence: who holds no
  mutex runs at the priority it was given last.
* `MutexesAreLocks`: `Spec => ImplementsLocks`.

The inductive invariant is `Inv == TypeOK /\ Queues /\ Sleeps /\ Counts`. `Queues`
says who is in which heap or queue, and that `front` is in the heap (without it a
mutex could be handed to somebody who did not ask); `Sleeps` ties flags to the
place a thread stands at; `Counts` ties `nested` to `owner` and `recursiveDepth`
through all four places, which is what makes exclusion inductive. The only
assumption is `SyncAssumption`.

Priorities need two more parts. `Ordered`: who is in a call that waits holds no
mutex above that of the call, which is how programs are modelled. The walk of
`PKlock` from the owner of a mutex then meets only threads that wait for mutexes
above that one (`ChainAbove`): it ends, and never comes back to a heap it has left.
Whom it reaches holds a mutex another it reaches waits for (`ChainOwns`), so that
nobody is raised for nothing. `Accounts`: `mutexLocked` is
who owns what, and the priority that will be given back is the one that was asked
for. `HeapOrder` and `NothingKept` are proved together with it (`Lending`), since
what a thread keeps after an unlock is read from the first of each heap, which is
the highest only if the heap is in order.

For the refinement, the abstract variables are tables over threads and mutexes;
`LocksRead` gives their entries (`LevelOf`, `ParkedOf`), and a step of `Sync` is shown
to change one entry the way `Lock`, `Unlock`, `Park` or `Unpark` does (`Acquires`,
`Releases`, `Parks`, `Unparks`), or none (`Stutters`). That an unlock takes one level,
and a wait all of them, needs `Counts`: the kernel's depth and the program's count
agree.

### QueueProofs

For every number of threads, mutexes, values, places and levels, every choice of
the two mutexes and of the one with the condition variable:

* `TypeCorrect`, `Exclusive`, `NobodyStranded`, `OneAtATime`: `TypeOK`, `Exclusion`,
  `NoLostWakeup` and `OnePerSide` always hold.
* `Fair`: `Spec => NoOvertaking`.
* `QueueIsFifo`: `Spec => ImplementsFifo`.
* `MutexesAreLocks`: `Spec => ImplementsLocks`.

`PthreadInv` (types, `Lists`, `Sleeps`, `Counts`, as in `SyncProofs`) is inductive
for the actions of `Pthread`. `QueueInv` adds `Ring` (`putPos` follows from the two
other numbers, which is not in `TypeOK` and without which a value could be
overwritten), `Callers` (whoever is in a call holds the mutex of its side) and
`Sleeper`. The two halves meet in two lemmas: `AwayStep`, that a call of the queue,
which moves a thread to and from "away" and wakes others, leaves `PthreadInv` alone;
and `AwayLeftAlone`, that no call of `Pthread` touches a thread that is "away", but
for waking it. A sleeper cannot be forgotten because the one who overwrites
`waiting` would have to be on its own side (`OnePerSide`, which is exclusion of the
two mutexes) or on the other one, where it waits for the opposite and has just woken
it. `PlaceOf` is arithmetic around the end of the ring, one lemma each for `Insert`
and `Extract`.

### SerialProofs

For every size of the three buffers and of a transfer, with both directions going
on at once (the run has one rest while the other works):

* `TypeCorrect`: `Spec => []TypeOK`.
* `InOrderFromTheLine`: `Spec => []ReceivedInOrder`.
* `InOrderOnTheWire`: `Spec => []TransmittedInOrder`.

`Order` is `ReceivedInOrder` taken apart at `rxBuffer`, of which a handler moves a
first part and drops the rest (`Cut`), while the reader moves characters within
what is before it (`Front`). It needs that the data register holds a character only
while `rxBuffer` is full: otherwise one that comes later would get in front.

`InTransfer` says where the stream finds what it still has to send. That a call
cannot return while the stream reads its caller's memory is not obvious from the
code: it rests on the last part of each write always going through `txBuffer`
(`PartSize`), so that the flag the call waits for is set again by then.

### KernelProofs

For any number of blocks and priorities, and any bounds on sleeping and pausing:

* `Freed`: `Spec => []DeadAreFreed`.
* `RightJoiner`: `Spec => []WakesTheJoiner`.
* `OwnerIsWoken`: `OwnerSpec => []JoinersAreWoken`.
* `KernelTypes`: `Spec => []TypeOK`.
* `EachInItsList`: `Spec => []ListsAgree`.
* `NobodyOversleeps`: `Spec => []SleepersOnTime`.

None of the first three depends on who runs next: `FindNextThread` stays a closed
operator, and `Bystander` collects the steps that change neither who has ended nor who
waits in join. `OnlyTheEnded` (a deleted thread is past its end) is what keeps
`RemoveDeadThreads` from freeing a thread in join, to which the pointer in the
union leads. `OwnerJoins` says of the thread main waits for that it is there, not
detached, and knows of main until it ends; it is what fails for `Spec`, where
somebody else may detach that thread and its block be used again.

The other three are one invariant, `Schedule`: the types; `Lists` (a thread is once
in the list of its priority); `Runner` (who runs could be chosen again, and is there while
the kernel is paused); `Lives` (who has ended is marked, who sleeps is in the
program); `SleepOnce`; and `SleepersOnTime`. The types are not inductive without the
rest, since `FindNextThread` is typed only if the lists have all who are ready.
Lists lose threads by `Without` and the sleeping list grows by `SleeperAdded`, which
say where each place of the new list comes from: `SelectSeq` is recursive, and
nothing could be proved about it.

### FileSystemProofs

For every number of names, sectors and cells of a sector, and any set of sizes, with
merges that damage the list, failing calls and losses of power:

* `TypeCorrect`: `Spec => []TypeOK`.
* `NothingGoesMissing`: `Spec => []NothingLost`.
* `Implements`: `Spec => ImplementsDirectory`, the whole refinement. It speaks of
  the files that end before the first damage; of those behind it nothing holds.

The list is a recursive function over addresses that lead upwards; `ListIs` turns it
into the least set that has the first address and, for each, the next. From that
follow `Chain` (nothing in the list lies between a header and its next),
`FilesApart`, and the same for what `open` computes: `HoleSpan` says that the holes
that are added up are holes one after the other, and end in a header; `HolesAre`
that the scan collects such. `SplicedList` is what one header, or two, in place of
several holes makes of the list; `SplicedGood` that all other files are what they
were. All of it holds for damaged lists too, whose headers may be data, because
whatever the flash holds leads upwards (`Sound`).

Damage is a matter of prefixes. `Prefix`: two flashes that agree before an address have
the same list and the same files before it; so `Good(flash, intact)`, a list that is
whole before `intact`, survives what happens behind it (`PrefixGood`). `Created`
turns a step that damages nothing into a step of the directory, `LostStep` one that
does into the loss of the files that end behind the damage.

`Inv` has a part for each kind of call. While sectors are rewritten it is
`Rewriting`: the flash, or the buffer for the sector that is erased, with the
headers of the call written into it is a list with all files (`Target`), although
the flash alone is none from the first erase on. The code copies whatever it finds
between a header and its next, but only in another sector than the header's, so
`Target` is fixed but for those cells (`Dead`), and the steps may change them
(`Revised`). A failure may leave the flash in the middle of that:
`FailInHoleStep` and `FailCopyStep` show from which address on it is then not what it
was, or is to become.

Assumptions: `FileSystemAssumption` (sizes are natural numbers, a sector has a cell,
the contents differ from names and a zero from an erased cell) and
`AbsenceAssumption` (the value for no file is not one).

### Only model-checked

Liveness, which is out of the prover's reach: `CommitCompletes`, `EveryTurnComes`,
`CallsReturn`, `EveryCharIsRead`, `EverythingIsSent`, `CreateReturns`.
`ImplementsVault` when calls fail or the power goes in `storeData`, and
`ImplementsDirectory` for files behind a damage, are false: TLC finds
counterexamples. Every other property of a passing run is a theorem.

Data that the code walks through by recursion is written with recursive functions
over addresses, or as sets of places, of which the proofs use that the way leads
upwards; nothing rests on induction over an operator.

## Plan

What is left, in this order:

1. `FileSystem` with headers that straddle sectors.
2. `ConditionVariable` on a `FastMutex`, which mixes `Sync` and `Pthread`.

## Not modelled, and why

* AES and MD5: functions on bytes, third-party; taken as ideal.
* EDF and control schedulers: `SCHED_TYPE_PRIORITY` is configured.
* Processes: `WITH_PROCESSES` is not defined.
* File systems below `miosix/filesystem`: the firmware uses the console only.
* Boot, error handlers, C library glue, board support: straight-line code or
  registers; an error handler reboots the board.
* `Thread::terminate` (a flag only programs read), nested disabling of interrupts,
  stacks, the idle thread's sleep of the processor.
* `Timer`, the cast of 64 bit times: no wakeup depends on them.
* `DynUnsyncQueue` and `BufferQueue` (`queue.h`): `Queue` without waiting, or a pair of
  buffers without synchronization. `Serial` models the `rxQueue` it uses.
* `pthread_create`, `pthread_join` and `pthread_detach`: checks around calls of `Thread` that
  `Kernel` models; attributes: values nobody but `pthread_create` reads;
  `pthread_once`: see above.
* `File::read` and `File::write`: declared, without source.
* Nearly all lines under `miosix/arch` are register definitions of chips, and most
  others drivers and settings for boards that are not this one: data, with no
  behaviour of this firmware in them.
* Tools and examples: no part of the firmware.
