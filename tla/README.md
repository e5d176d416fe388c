# A verification of the BlueOS kernel

BlueOS ("clearcc") is a small multitasking operating system for 64-bit UEFI machines with one
processor, grown out of the Haribote OS. Its kernel is in `src/HARIBOTE/`. This directory holds
TLA+ models of the kernel's core, the TLC configurations that check them on small instances, and
theorems that the TLA+ proof system checks for every size. Paths without a directory below are
files of `src/HARIBOTE/`.

Contents: 1 the system, 2 the modules and how they correspond to the code, 3 the runs, 4 bounds,
5 fairness, 6 what is proved, 7 flaws of the code the models show, 8 what is not modelled,
9 what remains.

## 1. The system

One processor runs three kinds of code: interrupt handlers (timer, keyboard, mouse), the main task
`HariMain`, and the tasks of consoles with the applications they start. A task is preempted only by
`task_switch` in the timer interrupt; `io_cli`/`io_sti` are the only locks. All tasks get their
input from FIFOs. The main parts:

| part | state | operations | talks to |
|---|---|---|---|
| FIFO (`FIFO.C`, `fifo_mouse.c`) | ring buffer `buf`, `p`, `q`, `free`, `size`, `flags`, the owner `task` | `fifo32_init/put/get/status` | put by interrupts, timers, `HariMain`; a put wakes the owner through `task_run` |
| scheduler (`MTASK.C`) | pool `tasks0`, arrays `level[l].tasks` with `running` and `now`, `now_lv`, `lv_change`, the flags of a task | `task_init/alloc/run/sleep/switch/add/remove/now/switchsub` | called by everything that sleeps or wakes; `task_switch` by the timer interrupt |
| task tree, messages (`MTASK.C:23-85, 399-432`) | parent, child and brother links; message boxes | `task_add_child/find_child/unlink_task`, `get_msg/send_msg` | consoles |
| timers (`TIMER.C`) | pool `timers0`, sorted list `t0` with a sentinel, `next`, two-word counter | `timer_alloc/free/init/settime/cancel/cancelall`, `inthandler20` | puts into FIFOs, calls `task_switch` |
| memory manager (`MEMORY.C`, `memman_*`) | array of free areas, `frees`, `losts` | `memman_init/alloc/free`, `_4k` | kernel buffers; applications through API 8-10 |
| pages (`MEMORY.C`) | `mem_map_base`, page tables, reference counts in entries | `memman_alloc_page_*`, `memman_free_page_*`, `memman_link_page_*`, `memman_unlink_page_*` | stacks and segments of applications |
| sheets (`SHEET.C`) | per desktop (`SHTCTL`): `sheets` in order of height, the ids `sid`, `map` of the topmost window of each pixel; one `vram` | `sheet_alloc/setbuf/updown/refresh/slide/free` | windows of `HariMain`, consoles, applications, the mouse |
| main task (`BOOTPACK.C`) | focus `key_win`, window held `sheet_mouse_on`, drag (`mmx`, `new_wx`, `sht`), shown desktop `shtctl_point`, key shifts, `keycmd` FIFO | key, mouse and close events; `open_console`, `close_console` | every FIFO, sheets, tasks, timers |
| console (`CONSOLE.C`) | cursor, command line, cursor timer, `sht` | `console_task`, commands, `start_app`, `hrb_api` (the system calls), the end of an application | all of the above |
| keyboard, mouse (`KEYBOARD.C`, `MOUSE.C`) | `keycmd`, `keycmd_wait`, `key_leds`, phase of the mouse packet | `inthandler21/2c`, `mouse_decode` | puts into `HariMain`'s FIFO |
| system task (`system.c`) | list of tasks to end | `system_task_abort` | `cmd_exit`; its start is commented out (`BOOTPACK.C:397`) |
| block cache (`cache.c`) | `cache_blocks` with state, `cache_blocks_point` sorted by address, `requests` | `cache_read/write`, `cache_sync_ahci`, `cache_flush_ahci` | AHCI driver below, FAT32 above |
| FAT32 (`fat32.c`) and SQLite's VFS (`sqlite_os.c`) | the table in memory, open files (`fnode`, `size`, `findex`), the directory on the disk | `fat32_init/open/create/read/write/delete`, cutting; the VFS calls | the cache below, SQLite above |
| disk driver (`ahci.c`, `dmg.c`, `drvier.c`, `pcie.c`) | command slots of a port, their headers and FIS, `cache_fis` | identify, `ahci_fis_send`, waits that poll `prdbc` | cache |
| heap (`stdfunc.c`) | `malloc_map0`, the pages of `page_list_head` | `malloc`, `free`, `realloc`, `malloc_4k`, `realloc_4k`, `free_4k` | memory manager and pages below, SQLite and FAT32 above |
| boot and firmware (`efi*.c`, `acpi.c`, `rtc.c`, `com.c`, `NASKFUNC.NAS`, `INT.C`, `DSCTBL.C`) | tables of the processor and firmware | set-up, register access, interrupt entry | everything, at start |
| virtual machine and graphics (`vmx.c`, `igd_driver.c`) | control structures | set-up | devices |
| pictures, compression, printing (`view.c`, `bmp.c`, `jpeg.c`, `TEK.C`, `sprintf.c`, `aes128.c`, `WINDOW.C`, `GRAPHIC.C`) | none or local | pure conversions and drawing | consoles |

What is hard here:

* **Interleaving.** Interrupts put into the FIFOs tasks read, and wake tasks while the scheduler's
  arrays are worked on. Most code masks them; some does not (`BOOTPACK.C:485, 624, 694`).
* **Recomputed identity.** The current task is not stored; `task_now` finds it in arrays that every
  wakeup, sleep and removal changes. One wrong cursor saves the registers of one task in another.
* **Two readers of one FIFO.** A console and the application it runs read the same FIFO in turn and
  both own the cursor timer.
* **Lists in interrupts.** The timer list is changed by tasks and walked in the interrupt, which at
  its end calls the scheduler, which changes the list again.
* **Devices.** The keyboard and the disk controller answer when they like. `HariMain` and the cache poll or wait for answers, and take
  what a register or a FIFO holds for the answer to what they sent last.
* **Three records of one area.** `malloc_map0`, the memory manager and the page table each know a part of what the heap holds.
* **Caches.** Requests of a batch meet blocks in any state; eviction must not lose a write; what
  FAT32 keeps in memory must match a disk that is written in several steps and may lose power.
* **Partial refreshes.** No change of a window computes the screen anew: each repaints some rectangles from some height
  up, from a map that was itself refreshed in part. Slides are delayed until `HariMain`'s FIFO is empty, and variables of one
  event (`sht`, `mmx`, `mouse_on_header`) are used by the next.

What makes each part correct, which the properties in section 3 state: a FIFO is a bounded queue with no
lost wakeup; the arrays of a level list exactly its running tasks, `task_now` is the task on the
processor, the highest level is served and each of its tasks in turn; the timer list is sorted,
complete and every timer goes off at the tick fixed for it; no byte of memory is owned twice or lost, and a page of small blocks is
given back exactly with its last; the lights of the keyboard end up showing the lock keys; a transfer is over when it is said to be; a cache
read gives the last write; every cluster is in one chain, in memory and on the disk; stack, ids and map of a desktop agree,
the screen shows no stale pixel, and keys go to a window that can be seen.

## 2. The modules

| module | models | abstract specification |
|---|---|---|
| `BoundedQueue` | what a FIFO promises: a queue that drops new data when full | |
| `Fifo` | `FIFO.C` field by field, with the owner's sleep and wakeup | implements `BoundedQueue` (`QueueSpec`) |
| `Mtask` | the scheduler of `MTASK.C`, `HariMain`'s move to level 1, kill and free of a task | |
| `TimerQueue` | what timers promise: a set of pending timers with the tick each is due; a tick fires exactly those due. Setting one takes a while: asked, fixed, pending | |
| `Timer` | `TIMER.C` with pool, list, sentinel, cached head and two-word counter, called by several tasks that are interrupted inside `timer_alloc` and `timer_settime` | implements `TimerQueue` (`TimerSpec`) |
| `UnmaskedPut` | `fifo32_put` and the `task_run` inside it, statement by statement with interrupts enabled, against the interrupt | |
| `ConsoleInput` | composition: the console's loop and API 15/28 on one FIFO (a bounded queue as `Fifo` implements it), the cursor timer (as `Timer` promises it to one task), `HariMain`'s keys, mouse events and X clicks | |
| `Allocator` | what a memory manager promises: disjoint areas, and a request refused only when no run is as long as that request (the answer carries its size) | |
| `Memman` | `memman_*` of `MEMORY.C` | implements `Allocator` (`AllocatorSpec`) |
| `Heap` | composition: `malloc`, `free`, `realloc` of `stdfunc.c` over `Memman` and the page table's link and unlink | |
| `Keyboard` | composition: `HariMain`'s loop over `Fifo`, both interrupt handlers, the commands to the keyboard and its answers | `Fifo` inside it implements `BoundedQueue` |
| `Ahci` | `ahci_fis_send` and the batches and waits of `cache_sync_ahci`, `cache_flush_ahci`, against the controller | |
| `Cache` | `cache.c`, one loop iteration per step | |
| `Fat32` | `fat32.c` as `sqlite_os.c` uses it: any number of handles on one file | |
| `Sheet` | `SHEET.C` as operators on a record of all its state | |
| `Desktop` | composition: what `HariMain` does with the sheets (focus, clicks, drags, Tab, F11, Shift+F2, Alt+Fn) and what consoles do to their windows | |
| `MC*` | instances for TLC | |
| `KeyboardProofs` (with those on `Fifo`), `MtaskProofs`, `HeapProofs` (with those on `Memman`), `ConsoleInputProofs`, `CacheProofs`, `Fat32Proofs`, `TimerProofs`, `DesktopProofs` | theorems | |

How state and actions correspond to the code:

* **Fifo.** `p`, `q`, `free`, `buf`, `flags` are the fields. `Put` (`FIFO.C:20-40`) with its full case
  and the `task_run` of the owner, `Get`, `Status`, and `Sleep`, the test of the FIFO and `task_sleep`
  a reader makes with interrupts masked (`CONSOLE.C:223-227`).
* **Mtask.** `flags`, `level`, `running`, `now`, `tasks`, `now_lv`, `lv_change` are the fields.
  `cpu`, the task whose registers the processor has, is not in the code; it changes only where
  `asm_task_switch32` is called, and `TaskNowIsCpu` compares it with `task_now`. Bits 2 and 3 of `flags_a` decide
  nothing (`MTASK.C:382` masks them with 0) and are left out. A place of an array nobody wrote is `NoTask`; `overrun` records that
  `task_add` left the array. Priorities only set the length of a slice, so `Timer` has them.
* **Timer.** A list is a record of the head and the `next` fields; `Linked` and `Unlinked` are the
  searches of `timer_settime` and `timer_cancel`. `Tick` is `inthandler20` with the `task_switch` it calls at
  its end, which sets `task_timer` again; `TickEarly` is its early return. `TIMER.C` masks interrupts only
  while it works on the list, so `timer_settime` is three steps, `SettimeLow` (the low word, `TIMER.C:93`),
  `SettimeHigh` (the high word and the flags, 94-95) and `SettimeLink` (from `io_cli` at 97), and `timer_alloc` two,
  `TimerFound` and `TimerAlloc` (`TIMER.C:67-68`), with ticks and the other tasks' calls between them. `pc` and `timer` are the place
  of each task in its call, `held` the timers it has a pointer to. `tick` is a history variable, the tick a caller asked
  for, for the refinement. `fired` is what the last step put.
* **UnmaskedPut.** `pc` and `reg` are `HariMain`'s place and the register in which a field is counted
  (`-O0`: `x--` is a read and a write). The interrupt comes between any two statements.
* **ConsoleInput.** `mode` says whose loop runs, `pc` where it is, `datum` what it works on. `crash`
  records where the code goes on with a broken system; the model stops there.
* **Memman.** `free[0 .. frees-1]` as in the code; `given` and `lost` are ghosts of what callers hold and of
  what `memman_free` could not record.
* **Heap.** `malloc_map` are the entries of `malloc_map0` in use, `pages` the `PageBlock`s in list order with the room and the count of
  each, `mapped` the pages with a frame, `live` a ghost of what callers hold. A call is one step; `realloc` allocates, copies and
  frees, and `moving` is the block it has still to free. `broken` records what the code goes on after (a block used that was refused, a read or
  write outside the heap); the model stops there.
* **Keyboard.** `pc` is the place of `HariMain` in its loop: sending a byte of `keycmd`, the test of the FIFO, sleep, or work on a `datum`.
  `wire`, `option`, `lights` are the keyboard: a byte on its way, whether it expects the lights, what it shows. The keyboard may refuse a byte it
  knows (`MaxErrors`), and refuses lights without the command. `keycmd` is a sequence, the bounded queue that `Fifo` implements.
* **Ahci.** `CI` are the slots with a bit in `HBA_RPxCI`, `clb` which FIS each header points to, `prdbc` whether a header counts a whole block,
  `prdbc_addr` the slot a FIS watches. `Fetch`, `Transfer`, `Complete` are the controller. `agree` says that the buffer of a block and the disk are the same.
* **Cache.** `point` is `cache_blocks_point`, `requests` the table in the order of the calls. `call` is what is
  left of a call, so a step is one iteration. `content` (what the units hold as callers wrote them) and
  the expected values kept in requests are ghosts for `ReadsRight`. The disk answers each transfer.
* **Fat32.** `fat` is the table in memory, `dfat` the one on the disk, `data` the units of the disk, `handle` the
  fields of each `FILE_OF_FAT32` with the name it was opened by. A name is the eight characters the directory compares
  (`fat32.c:435-458`), so a database and its `-journal` may be one, and nothing keeps a file from being open twice
  (`fat32Open` does not look, `fat32Lock` always succeeds). `current` is the set of open handles whose file no call through another
  handle has changed since. `todo` holds the writes of a call that have not reached the disk: a call changes
  memory in one step and then its writes arrive one by one, so the properties on the disk hold at each
  point where power may fail. `content` is the ghost of what callers wrote. `broken` records a cluster
  behind the volume and an index behind the table or into a cluster that is not there; the model stops there. One task uses the file system.
* **Sheet, Desktop.** The record `d` holds the controllers' `sheets`, `sid`, `map`, the screen `vram` and the fields of every sheet;
  a function of `SHEET.C` is an operator from record to record, so that a handler of `HariMain` that calls several of them is one
  action. The screen is a column of rows through the title bars; a cell is transparent (`Clear`, the colour `col_inv`), see-through
  (`Glass`, alpha not 0, which `make_window32` gives the titles) or a colour, and `Mix` is a pixel with glass blended in.
  `MouseUp`, `MouseMiss`, `MouseHit` and `MouseDrag` are the branches of one packet (`BOOTPACK.C:595-727`), `DrawMouse` and
  `DrawWindow` the delayed slides, `held` is `sheet_mouse_on`, `header` says that `mouse_on_header` is 0, `mmy`, `newy`, `slid` and
  `sht` are the variables of the drag. The vertical half of a drag is modelled; `new_wx` only rounds.

Every module keeps, in front of the definition it changes, the mutants of the code its properties
were tested with (a dropped guard, an off-by-one, a missing reset): they show what each property
can see, and no specification uses them.

## 3. The runs

| run | shows |
|---|---|
| `mtask` | `RunQueues`: the arrays list exactly the running tasks, once, at their level; `TaskNowIsCpu`; `TopServed`: no higher level is forgotten; `SwitchToTop`: every switch goes to the highest level with work; `RoundRobin`: each running task of the highest level gets the processor |
| `timer` | `TimerList` (the list is sorted and holds exactly the timers in use), `TaskTimerRuns` (preemption never stops), `TimerSpec` (each timer goes off at the first tick at or after the due time that was fixed for it, in order, once, and the due time is the tick asked for, or whole words off if that tick lies in another word of the counter than the one in which `timer_settime` reads the high half) |
| `console_input` | `NoSleepOnData`, `CursorOnce` (the cursor timer is never set twice nor lost), `MouseHasEntry` (a mouse datum finds an entry), `DataTaken` (each datum is taken in the end) |
| `keyboard` | `QueueSpec` (the ring under `HariMain` implements the queue), `NoSleepOnData` (no lost wakeup), `AnswerDue` (when `HariMain` waits for an answer, one is due, or one was lost), `ValueAfterLed` (the lights are sent only after the command was taken), `NoSleepOnCommand`, `LedsFollow` (the lights end up showing the lock keys, unless a byte was dropped) |
| `heap` | `Coalesced` (sorted, joined areas), `Partition` (each byte free, held or recorded as lost, once), `AllocatorSpec`, `TableIsGiven` (`malloc_map0` lists what the manager gave), `BlocksApart` (live blocks never overlap), `PagesCounted` (a page counts its blocks), `LiveMapped` (each live block has frames) |
| `cache` | `BlockTable` (sorted, no duplicates, active entries, never longer than the cache), `NothingLost` (a write is in a dirty block, a request or on the disk), `CleanIsOnDisk`, `ReadsRight` (a caller gets what was written before its call and nothing later) |
| `fat32` | `ChainsApart`, `ChainFits` (a chain has the length of its file, so no unsigned difference wraps), `HandlesAgree` (a handle agrees with its entry until its file is changed through another), `CrashKeeps` (between any two writes of a call the disk alone has every other file whole and no cluster in two chains), `ReadBack` (a read gives what was written there last, after reuse of what was cut and deleted) |
| `desktop` | `Stacked` (stack, heights, ids and controllers agree), `MapTop` (the map names the topmost opaque sheet everywhere), `Screen` (no stale pixel), `SwitchShows` (Alt+Fn leaves nothing of the other desktop), `FocusShown` (keys go to a window of the shown desktop) |
| `unmasked_put` | refutes `Counted`: a put with interrupts enabled makes `fifo32_status` or a level's `running` wrong |
| `fat32_sector` | refutes `ReadBack` for two sectors to a cluster |
| `ahci` | refutes `Transferred`: a sync or flush returns before its transfers are done |
| `desktop_missed` | refutes `MissedHoldsNothing`: a press beside every window still drags the window the pointer moves onto |

## 4. Bounds

* `mtask`: HariMain, idle and two more tasks, four levels, arrays of four. A level holds up to three tasks, so
  tasks go in front of, at and behind a cursor. An array cannot overflow here (`overrun` stays FALSE); the
  proofs cover all sizes, and say nothing once an array has overflowed.
* `keyboard`: FIFO and `keycmd` of three places, one lock key, three presses, one refused byte. Both queues overflow, `keycmd` also between the
  two bytes of a pair; the indexes of the ring wrap. A second key adds nothing: the lights are sent as a whole.
* `timer`: sentinel, `task_timer`, two timers and two tasks; a word counts to 3 and time to 5, so the low word wraps once; waits of 0 to 2
  ticks. So a wait carries out of the word, the words are read on two sides of a wrap, a timer is overdue when it is linked, and both
  tasks are inside `timer_settime` at once. `Careful` keeps a task from freeing or setting a timer it set and that still runs, which the code
  leaves to it; `Undisturbed` keeps calls of `timer_alloc` from overlapping with one another and with the end of an application. Section 7 says what follows without either.
* `unmasked_put`: a buffer of three and two consoles; the counterexample needs one put of each side.
* `console_input`: FIFOs of four; one key, one tick, one click and one mouse event fit together, and it overflows.
* `heap`: five pages of six units (the last area of the memory is not whole pages), small blocks of two and four units behind a header of two, areas of one and two
  pages, the second hardly used; two free areas in the manager's array, so it fills and areas are lost; a table of five entries; four
  blocks live. Pages hold two blocks or one, areas are joined on both sides, and memory runs out. Frames are unlimited: no call gives one back
  (`MEMORY.C:489`), so running out of them is the end of the machine.
* `ahci`: three blocks, two slots, batches of two: a batch fills, a rest remains, slots are used again. The counterexample has one slot used twice.
* `cache`: three blocks of two units on the disk, two in the cache, three requests, two writes: evictions,
  calls over two blocks and batches with reads and writes of one block occur. `Careful` makes callers
  sync before requests could overflow; see section 7.
* `fat32`: five clusters of two units, three names, two handles (SQLite holds its database and a journal; both on one file or on two), a file of three units on the volume,
  files of up to three, one write with data. The directory grows into a cluster with old
  data, files have up to two clusters, clusters are cut and given to another file, and the volume fills. `Careful` is what the caller of `fwrite`
  sees to: the handle is current, and a file cut to nothing is opened again before it is written to.
  One write of a caller is enough for the order of writes to the disk and for reuse, as the file on the volume has data of its own; the instance with two
  writes, of four clusters and a host of two units, has 4.6 million states and is not a run, but all five properties hold there with two names. Names that are not there at first and handles are symmetric.

* `desktop`: two consoles of a title and one row on a screen of two rows, two desktops, four ids (both consoles, a background and
  the mouse use them all). Windows overlap in part, lie under each other's glass, stick out at both edges, and move between
  desktops with and without the mouse. `VIEW` merges states that differ only in variables written before they are read
  again. `Careful` leaves out keys other than Alt+Fn while a button is down, F11 without a window, and Alt+Fn while a
  console is held that has left; after a press beside every window Alt+Fn would dereference -1 and has no step at
  all. Section 7 says what happens otherwise. A call on a sheet is one step, although `HariMain` may preempt a console
  inside it.

TLC explores each instance completely. The model stops, and deadlock is not checked, only where `crash` or `broken` is set.

## 5. Fairness

* `mtask`: weak fairness of the timer interrupt's `task_switch`. The interval timer is programmed to come again for ever and
  `task_timer` is always on the list (`TaskTimerRuns` in `timer`). `RoundRobin` says nothing when tasks are torn down for ever, as each removal may move the
  cursor past a task; a session has finitely many.
* `keyboard`: weak fairness of `HariMain`, which is alone on level 1 (`SwitchToTop`), and of the keyboard's answer to a byte it has. Users and the mouse are not fair.
* `console_input`: weak fairness of the steps of the console task and its application, that is of a task
  that runs: it is on the highest level with work (`RoundRobin`). HariMain and the user are not fair.

## 6. What is proved

For every size of the constants, under the assumptions the modules name (`FifoAssumption`, `MtaskAssumption`, ...):

* `FifoInvariant`, `FifoNoSleepOnData`: inductive invariant of the ring: `free` counts the places between `q` and
  `p`, and a sleeping owner has an empty FIFO. `RingInv` alone is not inductive for sleeping; the conjunct on the
  owner is preserved because a put that finds room wakes it and the owner tests before it sleeps.
* `FifoIsAQueue`: the refinement of `BoundedQueue`. `RingAppend` and `RingTail` say that writing at `p` appends to
  the sequence read from `q`, and moving `q` takes its head; the rest is one case per action.
* `MtaskInvariant` and from it `MtaskTypes`, `MtaskRunQueues`, `MtaskTaskNow`, `MtaskTopServed`, `MtaskSwitchToTop`.
  The properties are not inductive as they stand. `IInv` adds: each level's cursor is inside its array or the array is empty
  (`CursorInv`; level 0 keeps a stale cursor after HariMain leaves it), idle runs for ever (`IdleInv`, so there is always a level to
  serve), level 0 is HariMain's alone until it moves (`BootInv`), and the served level has work, or a new choice is due and the place
  HariMain left still names it (`ServedInv`): that is why the first `task_now` after the move is right although it reads behind
  the end of an empty array. `AddKeepsQueues` and `RemoveKeepsQueues` are the facts on arrays; there is one lemma per
  action. Everything is proved up to the first overflow of an array.

* `MemmanInvariant`, and from it `MemmanCoalesced`, `MemmanPartition` and the refinement `MemmanImplements`. The invariant is `TypeOK`, `InOrder` (the areas are
  sorted and do not touch) and `Partition`. `InOrder` is what makes the search of `memman_free` find both neighbours; that two areas do not touch is also why
  a refusal is right: a run of free bytes lies in one area (`RunInOneArea`), so if no area is long enough for this request there is no run for it.
* `HeapTableIsGiven`: the entries of `malloc_map0` are the areas the manager has given, one each (`TableInv`), so `free_4k` returns what was handed out, once, with
  its size. `HeapKeepsContract`: therefore each step of the heap is a step of `Memman` its callers may take, and `HeapMemory` carries the three results on the
  manager over to the heap.
  `HeapBlocksApart`, `HeapPagesCounted` and `HeapLiveMapped` need where everything lies: `Layout` says that the areas of the table start at pages and are apart (`Apart`), that
  each page of small blocks is listed once (`Listed`) and is an area of the table, that a small block lies behind the header of its page and in front of what the page has used, apart
  from the others there, and that the page counts them (`Blocks`), and that all areas have frames (`Framed`). `AlignedInv` is why areas start at pages. It holds
  until the heap goes on without an area (`broken`).
* `KeyboardUsesFifo`, `KeyboardFifo`: the dialogue uses the FIFO only through its operations, so what is proved of the FIFO holds inside. `KeyboardInvariant` is `KTypes`, `OneByte` (one byte
  at most is on the wire, answered in the FIFO, or in `HariMain`'s hands), `Pairs` (lights in `keycmd` have
  the command in front of them, or it was the last byte sent and the keyboard expects them; a full `keycmd` may have dropped lights, never the command in front of some) and `Sent` (`HariMain` has sent what
  it could when it tests its FIFO). From it `KeyboardValueAfterLed`, `KeyboardAnswerDue` and
  `KeyboardNoSleepOnCommand`.
* `ConsoleInputInvariant`: the FIFO is not longer than its places and its flags tell the truth (`Fits`, `Room`, `Flags`), each loop is where its mode says (`Places`), the cursor timer
  is set, its tick is in the FIFO, or a loop works on it, exactly one of these (`OneTick`), and there are at least as many mouse entries as mouse data (`Entries`); only a stray wakeup works on
  no datum (`NoDatum`). From it `ConsoleNoSleepOnData`, `ConsoleCursorOnce`, `ConsoleMouseHasEntry`, and the types.
* `CacheInductive`, and from it all four properties of the cache. `Open` is the heart of the invariant: the requests of the table, served in order on top of what
  cache and disk hold, lead to what the callers wrote, and each read among them meets what it must. A request is only ever for a block that is not read yet (`Asked`), so a hit
  on a loaded block cannot disturb one (`NotAsked`), and no disk block has two slots (`Unique`), so what `cache_sync_ahci` copies is what `Upto` says (`AfterIs`). `Clean` is why an
  eviction loses nothing (`CreatedView`); `Table` is why a miss finds a slot that may be used and `insert_sorted` its place (`CreatedTable`). Everything is proved
  up to the first request behind the table.

* `Fat32Sound`, and from it `Fat32ChainsApart`, `Fat32ChainFits`, `Fat32HandlesAgree`, `Fat32CrashKeeps` and `Fat32ReadBack`, for any number of handles on any files, under two hypotheses: `SecPerClus = 1`
  (for two sectors to a cluster TLC refutes `ReadBack`) and `Careful` (files are written and cut through current handles, and a file cut to nothing is opened again first; section 7
  says what happens otherwise). The file the volume came with fits on it.
  The properties between calls are not inductive, as most steps are writes inside a call. The invariant `IInv` says that the writes still to
  come lead (`Leads`) from what is on the disk to a volume in order, over disks that are each safe after a crash (`Safe`). `Volume` is that order: the table is a `Tree`, chains that end, are
  apart and have every cluster in use, one from the root directory and one from each entry with clusters; `Fits` gives each file the clusters its size asks for and the units its callers wrote;
  `HandleOK` is what a handle remembers, for the handles that are current (`Known`): a call leaves the other handles of its file behind, and the invariant says nothing of those. So a call is proved once, for all its writes (`WriteKeeps`,
  `TruncateKeeps`, `DeleteKeeps`, `CreateKeeps`), and a write that reaches the disk only takes
  the first step of `Leads` (`DiskWriteKeeps`). `Safe` is `Apart`, no cluster in two chains, and `Whole`, every file but the one of the call there with what was written to it. Of that one file an entry may
  start in a cluster the table on the disk does not use yet (`StartsIn`): a new entry arrives before the table.
  `TreeNew`, `TreeAppend`, `TreeCut` and `TreeDrop` are the four things done to chains; `AllocatedMore` needs that a chain is never more than a cluster too long. Paths and the loop that extends a chain
  are recursive functions: `ChainPath` and `LoopExists` unfold them.

* `TimerInductive`, and from it `TimerListHolds` and `TimerTaskRuns`, for any number of tasks that are interrupted inside their calls, under two hypotheses: a task sets and frees only timers
  of its own that do not run (`Careful`), and calls of `timer_alloc` do not overlap (`Undisturbed`). Section 7 shows what happens without either.
  `ListInv` says that there is a sequence of different timers, sorted by time, that the `next` fields follow from the head to the sentinel (`Holds`), and its timers are those in use but for the ones a
  `timer_settime` has marked and not linked yet (`BeingSet`). `CallInv` is why such a timer is in nobody else's way: a timer belongs to one task (`CallsApart`), and is not linked while its task is in a call for it (`Stopped`). That
  the sentinel has the time `Never` is why every search stops (`PlaceForIs`, `PassedIs`); `LinkedHolds`, `UnlinkedHolds` and `CutHolds` say what inserting, cancelling and the interrupt do
  to the sequence. The list is followed by recursion (`Path`, and `after` in `TimerCancelall`): `PathIs` and `AfterExists` unfold it, by the smallest place where a claim would fail (`Least`).
  task_timer never leaves the list because no application may take it (`flags2`) and the interrupt sets it on the list it has just cut.
* `TimerImplements`: the refinement of `TimerQueue`, under the same two hypotheses, with every wait and every tick between the steps of `timer_settime`. `QueueInv` adds to the list that the cached time is the head's
  and that a low word already written is the low word of the tick asked for. So the due time is that tick if it lies in the word of the counter in which the high half is read, and whole words off otherwise (`InWord` of `TimerQueue`, `HighImplements`): a lost
  carry and a torn read are part of what is promised, not excluded. Comparing the words is comparing ticks (`WideOrder`, `WideTock` with the carry of the counter), the counter stays below the
  sentinel's `Never` (`BeforeNever`, from the bound on `MaxTime`), so what the loop of the interrupt takes off the list is exactly what expired (`ExpiredIs`), timers overdue when they were linked included: a timer behind the first that has not timed out has not
  either, as the list is sorted, and before the cached time nothing has (`EarlyImplements`). `PutsInOrder` says that the data are put in the order of their due times, without task_timer's.

* `DesktopSound`, and from it `DesktopStacked`, `DesktopMapTop`, `DesktopScreen`, `DesktopFocusShown` and `DesktopSwitchShows`, for a careful user (`Careful = TRUE` is a hypothesis; section 7 says what
  others can do) and a desktop that has room: `DesktopAssumption` allows at most 253 consoles, so that no table of ids (256 entries, two of them for a background and the mouse) fills up, and the height 254
  that Alt+Fn gives the mouse is above every window. The code opens consoles until 512 sheets are used; with more than 253 on one desktop the mouse would come back under a window, and section 7 says what a full table does.
  The properties are not inductive: a refresh paints from the map, the map is refreshed from the stack, and all three are changed in part. `House` says at once that stacks, heights and controllers agree (`Placed`), that each sheet shown has
  its id and the tables have no others (`Named`, `Listed`, which is why an id is free: `IdIsFree`), that the maps are right (`MapOk`), that each row of the screen shows what one of the desktops has there (`RowOk`) and that the
  backgrounds are at the bottom (`Backed`; without something opaque at each row a refresh would leave old pixels). A change of one sheet keeps the topmost sheet and the glass of a row (`TopKept`, `GlassKept`) outside the
  rectangle and the heights that the code refreshes; `RedrawKept` turns that into `House` after the refresh, and `RaiseIs`, `LowerIs`, `HideIs`, `ShowIs`, `SlideIs` and `DrawIs` show it for each function of `SHEET.C`. A picture may have lost the glass
  that a refresh of the sheet below painted over: that is why `RowOk` allows the colour under the glass. `DesktopInv` adds what handlers rely on: the mouse is on top of the desktop shown, so what is between it and the background are
  consoles (`DesksTop`), a slide that waits has a window in `sht` (`Slidable`), and a window held is the one with the keys (`HoldsFocus`): that is why Alt+Fn takes the focus along. There is one lemma per action.

Only model-checked: liveness (`RoundRobin`, `DataTaken`, `LedsFollow`), what `Fat32` does with more sectors to a cluster, and what `Desktop` does without a careful user.
Liveness under fairness is out of the prover's reach.

## 7. Flaws of the code the models show

Runs refute four statements the repository makes:

* `unmasked_put`: a key or a focus change is put without masking (`BOOTPACK.C:485, 624, 1068, 1077`), and `task_run` called so
  (`BOOTPACK.C:694`); the cursor timer's put comes between the read and the write of `free` or `running` and one of them is lost.
* `fat32_sector`: a transfer that starts in the second sector of a cluster adds that sector to the address twice
  (`fat32.c:62, 69`). Volumes with one sector to a cluster are not affected.
* `ahci`: `ahci_fis_send` does not clear `prdbc` (`ahci.c:398-405`), and `cache.c:378` "Wait for transfer completion" compares it with the size of a block, which the last
  transfer through that slot left there. Clearing it in `ahci_fis_send` is not enough: with all slots busy the call returns -1, which `cache.c:346` ignores, and
  `Transferred` still fails; with both repaired TLC finds it true in this instance (650307 states).
* `desktop_missed`: the comment at `BOOTPACK.C:711` says a press beside every window hits nothing until the release; but the release before left
  `mouse_on_header` at 0, so the first packet over a window starts to drag it.

Others show with another value of a constant, or by reading, and have no run:

* `TIMER.C:93`: `timeout + count` is stored in 32 bits and its carry is not added to `timeout64`, so a wait that crosses
  2^32 ticks goes off 2^32 ticks early, that is at once. The two words of the counter are read with interrupts enabled: if the low word wraps between lines 93 and 94, the timer goes off
  2^32 ticks late. `TimerSpec` states both (`InWord`). A tick or another task between line 93 and `io_cli` also means that a short wait may be over before the timer is linked;
  it goes off at the first tick after it was.
* `TIMER.C:67`: `timer_alloc` tests and sets `flags` with interrupts enabled, so two tasks can get one timer, and the later one marks it allocated while the
  first has it running; `TIMER.C:139` relies on all timers of the list being in use (`Undisturbed = FALSE` in `Timer` refutes `ListedInUse`).
* `TIMER.C:78`: API 19 (`CONSOLE.C:1251`) frees any timer, and `timer_free` leaves a running one on the list,
  to be handed out and linked again (`Careful = FALSE` in `Timer` refutes `TimerList`).
* `TIMER.C:247`: `timer_cancelall` takes timers by their FIFO, which `timer_alloc` does not reset, so a timer an application has just allocated may still name the FIFO of one that ends, and is
  freed under it (`Undisturbed = FALSE`).
* `sqlite_os.c:193`: `fat32Open` opens a file that is open already. As only eight characters of a name count, a database and its `-journal` are then one file with two handles, and what is changed
  through one leaves the size and start of the other behind (`fat32.c:278, 310, 382`; TLC refutes `SizeTold` of `Fat32`).
* `sqlite_os.c:169` claims `SQLITE_IOCAP_SAFE_APPEND`; `fat32.c:307-315` puts the new size on the disk before the data (TLC refutes `SafeAppend` of `Fat32`).
* `fat32.c:273`: the entry of a new file is on the disk before the table. If power fails between, the entry names a cluster that is free in the table, and after the next start `fat32_find_node_from_fat` may give that cluster to another
  file; nothing repairs it. `CrashKeeps` promises only the other files; the restart itself is not modelled.
* `fat32.c:382`: through a handle that is not current (`Careful = FALSE` in `Fat32`) a file cut to nothing is cut again after its cluster went to another file, and `ChainsApart` is refuted. A write through such a handle,
  whose chain has become shorter than its size, gets the missing clusters one at a time (`fat32.c:141-145`); the model stops there (`broken`).
* `MTASK.C:382` tests `flags_a & ((1<<3)==1)`, so a task marked for destruction keeps running; `MTASK.C` tests bit 2 the same way.
* `CONSOLE.C:1208`: API 15 and 28 take a datum after `task_sleep` without testing; the -1 of an empty FIFO passes for a cursor tick. `CursorOnce`
  excludes the state after such a wakeup.
* `CONSOLE.C:1223`: a second X click on a console under an application reads `cons->sht` after it became 0.
* `cache.c:106`: a hit on a block not read yet takes a request without testing for a full table (`Careful = FALSE`).
* `CONSOLE.C:927` and others cast a 64-bit address to `int` before `memman_free_4k`.
* `BOOTPACK.C:739` frees 256*165 bytes of a buffer of another size.
* `fat32.c:5, 333, 348`: a full volume, cuts of an empty file and at the exact end, and writes through a handle of a file cut to nothing.
* `BOOTPACK.C:447`: a delayed slide moves `sht`, which the search at line 616 has set to the window under the pointer by then, so a fast drag moves
  another window than the one held.
* `BOOTPACK.C:540`: Alt+Fn while a console is held that has left shows its freed sheet, and after a press beside every window dereferences -1. Shift+F2 during
  a drag and then Alt+Fn leaves the focus on the hidden desktop. F11 without a window (`BOOTPACK.C:585`) puts the mouse under the
  background, which the next click takes for a window. (`Careful = FALSE` in `Desktop`.)
* `CONSOLE.C:297`: the test for the shown desktop is commented out, so consoles of the hidden one paint over the screen. A refresh of a window also
  paints over the glass of the title above it, or blends it twice.
* `0x0fe4` is read as the controller by `change_wtitle32`, API 5 and `cmd_start`, and written nowhere. `SHEET.C:460`: without a free id a sheet gets a height and no place.
* `MEMORY.C:489, 519, 535`: pages are never freed (`==` for `=`), and the 4 MB allocator steps over its own alignment (by reading).
* `stdfunc.c:228`: `malloc_map0` and `page_list_head` are shared by all consoles, whose memory managers and page tables cover the same addresses (`BOOTPACK.C:1113`). With a second
  console in `Heap`, both get an area at one address and the first to free it finds the entry of the other.
* `stdfunc.c:177`: `realloc` takes the size of a small block to be a size minus an address, and copies as much as the new block has, from behind the old one, where there may be no frame.
  `realloc_4k` (`stdfunc.c:216`) copies the whole old area into a smaller one. `malloc_4k` returns 0 without an area: `malloc` tests for it (`stdfunc.c:108`), but `malloc_4k` itself has by then linked pages and an entry for address 0, and `realloc_4k` writes through it (`stdfunc.c:216`). `Heap` records all three (`broken`).
* `MEMORY.C:902`: `linear_address & 0xfffffffffffff000 + i*0x1000` adds first, so only the first page of an area loses its frame.
* `BOOTPACK.C:588`: an answer of the keyboard that finds the FIFO full is lost, and `HariMain` never sends another byte; there is no timeout.
* `BOOTPACK.C:317-319`: `task` is written through before it has a value, and `task_a->fifo` is not initialised, so the timeouts of `ahci_init` go nowhere.
* `BOOTPACK.C:734`: a console's window id is looked up on the desktop shown when the close arrives, not on the console's. `BOOTPACK.C:397`: the system task is never started, so `cmd_exit`'s
  message to it goes through a null pointer; and the loop over its list tests `p->next==0` the wrong way round. `cmd_exit` (`CONSOLE.C:902-936`) unlinks the window's buffer before `sheet_free`
  and gives it to its own memory manager, not to the one it came from.

## 8. What is not modelled

* Pages: the set-up of the tables, the search for frames, the 2 MB and 32-bit pages and the pool of the firmware calls. Frames are taken and never given back, one call at a time; what is
  wrong there (section 7, and two tasks that find one free frame, `MEMORY.C:465`) is visible by reading.
* The main task's shift keys and `close_console`; the task tree and message boxes, which only code under development uses; the system task, which is never started; the console's commands and
  the other system calls, whose effects on tasks, timers, memory, files and windows are in the modules of those parts.
* The set-up of the disk controller, which runs once with one task; `mouse_decode`, a function of three or four bytes.
* Firmware, ACPI, PCIe, serial port, RTC, VMX and the graphics driver: set-up sequences over device registers
  with no state of their own to get wrong in an order a checker would find.
* Pictures, compression, encryption, printing and drawing: pure functions of long inputs, for unit tests.
* `sqlite3.c`'s header, the EDK headers and the tool set: vendored. The sample applications use the system calls only.
* The wording of messages, colours of the cursor (data 2 and 3 of the console), and file names are data no property tells apart.

## 9. What remains

Of the plan this project began with, these are left: a page table of several levels with two tasks that look for frames; `close_console` composed with `ConsoleInput` and `Desktop`; two consoles over one `Heap` as a run;
a call of `SHEET.C` statement by statement against `HariMain`.
