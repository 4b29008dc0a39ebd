# A verification of the vfio-pci driver kept in this repository

The repository is a blog on virtualisation with the code its articles discuss.
The one large program in it is the Linux vfio-pci driver,
`files/kernel/kernel_app/lock/vfio_pci.c` and `vfio_pci_intrs.c`, which gives a
PCI device to a user process such as a virtual machine monitor. This directory
holds TLA+ specifications of that driver, TLC runs that check them on small
instances, and proofs checked by TLAPS. Beside the driver there are seven short
kernel samples, a log removal script and a few one-instruction tools; the samples
that have something concurrent or stateful in them, and the script, are modelled too.

File names below are relative to `src/files/kernel/kernel_app/lock/`, with
`intrs.c` for `vfio_pci_intrs.c`.

## Inventory

| Component | State it keeps | Operations | What is hard |
|---|---|---|---|
| INTx delivery (`intrs.c` 28-237, 404-495) | `irq_type`, `ctx[0]`, `virq_disabled`, DisINTx, `disable_irq` depth | enable, set_signal, disable, mask, unmask, handler, unmask eventfd | four activities share `ctx[0]`; only `masked` is under `irqlock` |
| MSI, MSI-X (`intrs.c` 239-402, 497-546) | `ctx[]`, `num_ctx`, `msi_qmax`, vectors, eventfd references | enable, set_block, disable, loopback, handlers | each vector can fail half way and is rolled back while handlers run |
| SET_IRQS (`vfio_pci.c` 415-452, 783-852, 1159-1177, 1267-1293; `intrs.c` 548-680) | current mode, `err_trigger`, `req_trigger` | validate, dispatch, replace a trigger, relay a request or an error | what may be NULL, what outlives a mode or a user |
| Life cycle (`vfio_pci.c` 213-413, 1190-1402, 1446-1466) | the module's registration; `refcnt`, `needs_reset`, `reset_works`, power, references of vfio core and of the module | insmod, rmmod, probe, remove, open, release, bus reset, DEVICE_RESET | `driver_lock` against the device lock; rmmod against an open that has not pinned the module; resets and power states of neighbours |
| Regions (`vfio_pci.c` 113-179, 558-781, 1040-1157) | dummy resources, `bar_mmap_supported`, `barmap`, device specific regions, `has_vga` | probe_mmaps, device and region info, read and write dispatch, mmap | page boundaries; what is advertised against what is served; mmap runs under no driver lock |
| Hot reset (`vfio_pci.c` 454-556, 858-1035) | group references and lists of one call | info, reset | the bus is walked several times and changes in between |
| VGA arbitration (`vfio_pci.c` 60-106) | none | which VGA ranges a device decodes | bus numbers stand for the tree of bridges |
| Dynamic ids (`vfio_pci.c` 1404-1444) | the id table of the driver | fill_ids | - |
| Samples `work_queue`, `tasklet` | a work item and its memory, a tasklet | init, the deferred function, exit | rmmod while the work is queued or asleep |
| Sample `mmio` | two threads, the parameters `addr` and `rw_flag` | init, both threads, exit, a write to a parameter | exit stops what its parameters say, not what init started |
| Samples `list`, `rb_tree` | three linked nodes | insert, remove during the walk | the step on from a node that is gone |
| Samples `atomic`, `lock/atomic`, `mmap` | an atomic, a mapping | init, exit, one mapping | - |
| `files/me/remove_log.sh` | the logs, the mail files it shares between runs | remove the oldest while the disk is full, mail what was removed | termination beside tests that write logs; an rm that fails; two runs at once |
| cpuid, msr and tsc tools; articles; copies of the samples under `_posts` | - | - | - |

How they interact: the user's open files call the driver (`open`, `release`,
`ioctl`, `mmap`); SET_IRQS calls run under `igate`; `driver_lock` serialises first
opens and last releases over all devices; the interrupt core calls the handlers,
the eventfd core the unmask virqfd, and the config space code (not in the
repository) `vfio_pci_intx_mask` and `_unmask`; the driver core calls `probe` and
`remove` with the device's lock held.

What makes each component correct: no callback without its context, the physical
mask equal to the virtual one, no interrupt lost (INTx); references balanced,
blocks all or nothing, vectors freed without handlers (MSI); no data read that was
not passed, modes exclusive, enabled only what was advertised (SET_IRQS); no vdev
used after it is freed, no device in use reset or asleep, no dirty device
forgotten, unbind and rmmod terminate, and towards its users the contract of
`DeviceUse` (life cycle); private pages only, advertised equals served, nothing
held after release (regions); references balanced, only validated devices reset
(hot reset); legacy VGA decoding given up exactly below a bridge of one's own
(VGA); nothing used after it is gone, exit returns (samples); the last logs kept,
the mail complete (script). `PROJECT.json` lists the hazards, each at its
line, with the properties that watch it.

## Modules

| Module | Models | State and actions |
|---|---|---|
| `IrqLifecycle` | what a device promises the interrupt core, whatever the mode | one mode at a time; handlers only within a mode; a mode is left without handlers |
| `VfioIntx` | INTx | `pc[t]` is the place of the ioctl thread, of a config write, of the virqfd (handler and inject work) and of the interrupt handler. A section under `irqlock` is two steps, the test of `irq_type` and the use of `ctx[0]`, because `irq_type` and `ctx` are written without the lock. `depth` counts `disable_irq` |
| `VfioMsi` | MSI and MSI-X | `phase` says which loop (install, undo, teardown) calls `vfio_msi_set_vector_signal`, `j` for which vector, `pc` where in it. `free_irq` is two steps: the handler is taken off, then its end is awaited |
| `VfioSetIrqs` | the ioctl and the two single triggers | a request is a record (index, action, data, start, count); each handler is an action guarded by `Handler(r)`; `nullread` records a read of data that was not passed; `Request` and `Error` are the callbacks of an unbind and of AER |
| `DeviceUse` | what users rely on: opened only while bound, unbound only once closed, undone only by its user | `bound`, `open` and `dirty` devices |
| `VfioLifecycle` | insmod, rmmod, probe, remove, open, release, bus reset, power | `entering[d]`, `opening[d]` and `releasing[d]` count the threads that have yet to pin the module and those that wait for `driver_lock`; `pc` is the place of the one that holds it, `admin[d]` that of bind or unbind; `driver` that of the module; `devlock[d]` is the device lock of the driver core |
| `VfioRegions` | one BAR in a small address space, and the other regions | `mapping[u]` are the pages mapped; other devices come and go; mmap is test, request, iomap. `RegionInfo(i)` is what a user is told of region `i`, `Serves(i, op)` what read and write answer it |
| `VfioHotReset` | both hot reset ioctls | one action per walk of the bus; hot-plug and group close in between |
| `VfioVga` | `vfio_pci_set_vga_decode` | an operator over a tree of buses |
| `VfioBus` | `VfioVga` over the devices that `VfioHotReset` plugs and unplugs, beside those of the host | |
| `SampleWork` | `work_queue/hwork_queue.c`, `tasklet/htasklet.c` | `wq` and `tk` are the places of insmod and rmmod; `work` and `tasklet` those of the worker and the softirq |
| `SampleMmio` | `mmio/bmmio.c` | `mod` is the place of insmod and rmmod; `pointer[t]` is what exit looks at, `thread[t]` the thread; a failed `ioremap` or `kthread_create` is an outcome of its step |
| `SampleLists` | `list/hlist.c`, `rb_tree/hrbtree.c` | the list and the links of the tree, node by node; one action per turn of each loop; `stale` records a step through a node that is gone |
| `RemoveLog` | `files/me/remove_log.sh` | one action per command of the loop, `pc[r]` the place of run `r`; `WriteLog` and `DiskUse` are the world around it; an rm removes what it names or fails; `failed` and `mailed` are history, for the properties |
| `ShortPrograms` | the four modules above | each behaviour is one of `program`; the others rest |
| `<Module>Proofs` | the theorems about `<Module>`; `VfioHotResetProofs` also those about `VfioBus` | |
| `MC*` | instances for TLC | |

`VfioIntx` and `VfioMsi` each instantiate `IrqLifecycle` with a refinement mapping
and are checked to implement it. `VfioLifecycle` implements `DeviceUse`: a device
is bound from `ProbeAdd` on until its vdev is freed, and open while it is enabled,
so that the reset of an open that fails, the function reset of a release and the
bus reset are steps of the contract only if they find no other user's session. `VfioSetIrqs`
takes enabling and disabling of the modes as single steps, which `igate` justifies.

What is not under `src/` (interrupt, PCI, eventfd, vfio and memory cores, the config
space code, the user) is modelled from how the driver uses it and is marked
external in the map.

## Runs

| Run | Question | Bounds and why they are enough |
|---|---|---|
| `VfioIntx` | do callbacks ever run without their context; is the life cycle implemented? | one eventfd, depth up to 3: the four threads hold at most two disables at once |
| `VfioIntxSerial` | does the physical mask follow the virtual one; is an interrupt lost? | DisINTx devices, config writes only between ioctls (see Known limits), fairness |
| `VfioMsi` | references, blocks, queue size, NoINTx, termination; the life cycle, in which vectors are freed only without handlers | three vectors (the first number that is no power of two, and the first block with a middle), one eventfd; a partial allocation only for devices with INTx (see the finding) |
| `VfioSetIrqs` | NULL data, trigger references, exclusive and advertised modes | two users, three eventfds, two vectors, three opens; start and count from 0 to one past the largest legal block |
| `VfioLifecycle` | use after free or unload, module count, dirty devices; is `DeviceUse` implemented? | two devices, two overlapping files each, every failure of an open; symmetric devices |
| `VfioLifecyclePower` | power states; do unbind and rmmod terminate? | two devices, two overlapping files each, fairness; no open of a device during its own bind or unbind (see the finding) |
| `VfioRegions` | what can be mapped; is what is advertised served, and nothing else; what is left behind | pages of four units; every naturally aligned BAR of less than, exactly and four times a page; tables at, before and across page boundaries; a VGA device or not, no ROM, a dead one or a good one; with or without the two IGD regions |
| `VfioHotReset` | references, list size, who is reset; who decodes legacy VGA | two users, two groups, four devices: the function, a bridge in its slot, a device behind the bridge, a device in another slot; for VGA also a root bus with a VGA device, and a second domain with the same bus numbers |
| `ShortPrograms` | is anything used after it is gone; do exit and the script end; are logs and mail right, also when an rm fails? | the samples have three nodes, two threads and one work as their sources say; an address of zero and two others; at most five logs, of which the last two are kept (30 in the script): none, one or several removals in a run, and logs written meanwhile; two runs, one after the other |

The other three runs are findings: each checks one property that a comment of the
source states and that the code does not keep.

| Run | What happens |
|---|---|
| `VfioIntxNoDisIntx` | without DisINTx, the handler runs between `request_irq` and the relock at `intrs.c:221`; the line is disabled twice for one mask, and the unmask leaves it disabled |
| `VfioMsiPartial` | `intrs.c:267` frees a partial allocation, which clears DisINTx, without the restore that `vfio_msi_disable` has for NoINTx devices |
| `VfioLifecycleOpenRace` | `vfio_pci.c:229` waits for the device lock with `driver_lock` and a reference held; an unbind holds the device lock and waits for the reference |

Every property of a passing run has a mutant in `PROJECT.json`: a definition with a
plausible fault that makes TLC refute it. The faulty versions stand next to the
right ones in the modules, marked "mutant".

Deadlock is checked in every run but `VfioLifecycle` and `VfioLifecycleOpenRace`,
where the finding just named really stops the system, and `ShortPrograms`, where
an oops ends a sample.

### Known limits

Other disagreements of the code with its comments, met while modelling. They are
excluded from the passing runs by a named constant, or by the run not checking the
property; setting the constant the other way shows each of them.

- A config write between the sample of `virq_disabled` and the publication of the
  mode (`intrs.c:165-169`) breaks `PhysicalFollowsVirtual`: `SerialUser = FALSE`.
- A config write that has passed the `is_intx` test uses `ctx[0]` after
  `intrs.c:236` freed it: `ConfigSeesLiveContext`, `SerialUser = FALSE`.
- INTx without a trigger eventfd is legal, yet `intrs.c:36` signals it without a
  test: `SignalFindsTrigger`.
- The error and request triggers outlive the user who set them
  (`vfio_pci.c:302-305` ends the mode only): `RequestReachesUser`.
- `vfio_pci.c:1238` puts a device to sleep that line 1214 has let users open:
  `UsedDeviceHasPower`, with `CarefulAdmin = FALSE` and devices that have no reset
  of their own (with one, the open waits for probe).
- A failed `pci_enable_device` or `vfio_config_init` leaves the device in D0:
  `IdleDeviceSleeps`, with "device" or "config" in `EnableFails`.
- A failed IGD setup in the first open of a device (`vfio_pci.c:284`) calls
  `vfio_pci_disable` before `dummy_resources_list` is initialised (line 289), and
  the walk of line 322 starts from a null pointer: `IgdFailureIsAnError`, with
  `Igd = TRUE`. A comment says that the setup failed, none that the open
  survives it, so that this is no finding; states after it (`Oops`) are left out.
- An unbind frees vdev (`vfio_pci.c:1248-1253`) without putting an error or request
  trigger that a release has left.
- Two concurrent first mmaps of a BAR (`vfio_pci.c:1138-1144`): one is refused by
  the other's request, `NeverBusyWithItself`.
- A device plugged in between validation and reset is reset without having been
  tested (`vfio_pci.c:1021-1027`): `ResetWithinGroups`, `QuietBus = FALSE`.
- `kmalloc`, `ioremap` and `kthread_create` are unchecked or wrongly checked in the
  samples (`work_queue/hwork_queue.c:38`, `mmio/bmmio.c:80,86,96`,
  `list/hlist.c:24`, `rb_tree/hrbtree.c:41`); the models end in "oops" there. The
  mapping of `bmmio.c` and the nodes of `hrbtree.c` (`kfree` is commented out, line
  65) are never released.
- Root may change `rw_flag`, and set `addr` to zero, while `bmmio.c` is loaded. Exit
  then stops a thread that was never created, or leaves one running in unloaded
  code: `NoStaleUse` of `SampleMmio`, `FixedMode = FALSE`.
- Two overlapping runs of `remove_log.sh` share the mail files and count the same
  log: `MailTellsAll` and `LogsKept`, `Serial = FALSE`. `MinLogNum + 2` of them can
  find no log left to pick, and the rm then gets the folder. A run that removes nothing
  leaves the mail files behind, which line 20 says it does not, and a run that is
  killed leaves logs removed of which no mail tells.
- `remove_log.sh:98` records the name of a log and line 99 does not look at the status
  of the rm. A log that cannot be removed is mailed among "the moved logs" (lines 35
  and 51), once per turn of the loop: `MailIsTrue`. It stays the oldest, is picked in
  every turn, and no other is removed in its place.
- The loop of `remove_log.sh:81-104` has no limit of its own. On a disk that stays full
  it never ends while every rm fails, or while tests write a log for each that is
  removed. `ProgramsEnd` therefore says that a run ends if from some time on the disk
  is not full, or no test writes and every rm works.

### Fairness

- `VfioIntx`: a kernel thread that has started goes on. Where a step needs
  `irqlock`, fairness is strong: the spin lock serves waiters in order, so one that
  is enabled again and again gets it. An enabled, asserted line interrupts. The
  user eventually unmasks what it has masked or been signalled for; without that
  promise no level interrupt is delivered twice on any machine.
- `VfioMsi`: a call keeps running and an entered handler returns (weak fairness);
  nothing is assumed of interrupts arriving or of the user.
- `VfioLifecycle`: kernel threads run (weak), a mutex is handed over in turn
  (strong), and a user asked for its device by `vfio_pci_request` closes it
  (`Polite` keeps it from opening it again): `vfio_pci.c:1173` says the unbind is
  otherwise "blocked until released by user". An open that holds its device goes on
  to pin the module or to be refused (weak).
- `ShortPrograms`: the worker, the softirq and the waits of exit make progress,
  threads that are to stop run, and so do insmod, rmmod and the script (all weak,
  step by step of one program). That tests stop writing, that rm works and that the
  disk has room are no fairness but hypotheses of `RunEnds`, stated in the property.
  `MaxLogs` bounds the logs ever written, so that no behaviour of the instance has
  tests that write for ever: the run checks `RunEnds` for finitely many writes, and the
  case of a disk with room beside endless writes is not checked. Without the hypothesis
  on rm, TLC refutes it.

## Proofs

Every invariant and every safety property that a passing run checks is proved, for
every value of the constants that the assumption in its module admits, and so are
the three refinements. Most of these properties are not inductive. Each proof module
therefore first states what is, and the theorem about the property follows from it.
A preservation proof has one step per action, or per group of actions that leave the
same variables alone.

| Module | Inductive invariant, and why it is needed | Theorems | Hypotheses besides the module's assumption |
|---|---|---|---|
| `VfioIntxProofs` | `ContextInv` (in `VfioIntx`, checked by its run): an installed handler or virqfd pins the context and the mode, and each place of the ioctl thread says what enable has built or disable has taken down so far. Without it nothing says why a handler that starts in the next step finds the context | `TypeCorrect`, `ContextCorrect`, `CallbacksSafe`, `ImplementsLifecycle` | none: users write config space at any time, and both kinds of device |
| | `SerialInv`: the section under `irqlock` finds the mode its test found, and `disintx = masked` holds from `en_type` on, before the mode is published | `MaskFollowsVirtual` | `SerialUser`; DisINTx devices only (`FALSE \notin PciKinds`) |
| `VfioMsiProofs` | `MsiInv`: where a call is (`Places`), what each vector has (`VectorsInv`: its handler is its trigger's but between `free_irq` and `request_irq`), what a call has done to it (`ProgressInv`), and the references | `MsiCorrect`, `TypeCorrect`, `ReferencesAreBalanced`, `HandlersSignalLive`, `BlocksAreAllOrNothing`, `ImplementsLifecycle` | none |
| | `IntxHiddenInv`: DisINTx of a NoINTx device is clear on the way out of a mode only | `IntxStaysHidden` | no partial allocation (`TRUE \notin PartialKinds`) |
| `VfioSetIrqsProofs` | `RequestInv`: a mode fits what was advertised, and is on only while somebody has the device open | `RequestsCorrect`, `TypeCorrect`, `NoNullRead`, `TriggersAreBalanced`, `OnlyAdvertised`, `ModesExclude` | none |
| `VfioLifecycleProofs` | `CountInv`: who holds `driver_lock` and on what (`LockHolder`), who holds each reference (`Accounting`), one pin per file | `CountCorrect`, `TypeCorrect`, `ModuleIsPinned`, `VdevIsSafe` | none |
| | `DirtyInv`, `EnabledInv`: from which line on a dirty device is marked; when a device is enabled | `DirtIsRemembered`, `KeepsContract` | none |
| | `PowerInv`: nobody has a file of a device that probe is about to put to sleep, and a device with users is awake | `UsedDevicesHavePower` | `CarefulAdmin` |
| | `IdleInv`: who keeps a device awake that has no file | `IdleDevicesSleep` | `EnableFails \subseteq {"igd"}` |
| `VfioRegionsProofs` | `RegionsInv`: one mmap at most is between request and `barmap` (`ClaimInv`), who maps has the device open (`UserInv`), what is mappable is whole pages of the BAR's own (`ProbeInv`), every page mapped would be accepted alone (`MapInv`) | `RegionsCorrect`, `TypeCorrect`, `NothingIsLeftBehind`, `MappedIsPrivate`, `AdvertisedIsTrue` | none |
| `VfioHotResetProofs` | `HotResetInv`: a list fits its array and lives only while it is copied (`ListInv`), what a call has got is a prefix of its fds (`CallInv`), what it holds stays its user's or is closed (`OwnerInv`), and the references | `HotResetCorrect`, `TypeCorrect`, `ReferencesAreBalanced` | none |
| | `TestedInv`: what was tested is still what the reset will hit | `ResetStaysWithinGroups`, `ResetSparesOtherUsers` | `QuietBus` |
| `VfioVgaProofs` | no state: a bus number is in the range of a bus exactly if the one is below the other (`NumbersShowTheTree`) | `VgaDecodeIsRight`, and with the bus of `VfioHotReset` `VgaDecodeStaysRight` | buses are numbered as the PCI core does (`Numbered`) |
| `ShortProgramsProofs` | `WorkInv`, `MmioInv`, `ListsInv`: where the works, threads and nodes of the samples are at each place of insmod and rmmod | `NothingIsStale`, from `WorkIsSafe`, `MmioIsSafe`, `ListsCorrect` | `FixedMode` |
| | `LogInv`: runs do not overlap, the log a run is at is the oldest, and what the mail file lists is gone or could not be removed, but for the log whose rm comes next | `MailIsComplete`, `LastLogsAreKept` | `Serial` |
| | no more than the types | `TypeCorrect` | none |

The named hypotheses are the exclusions of Known limits and of the findings, and no
others: without each of them TLC refutes the property, on the instance of the
property's own run with that constant changed. The assumptions of the modules
say that sets of devices and users are finite, that the values standing for "none"
are in none of the sets, and what the hardware or the kernel outside `src/`
guarantees: BARs are naturally aligned (`RegionsAssumption`), the functions that are
used are on one bus of which nothing above matters (`HotResetAssumption`), buses are
numbered in nested ranges (`BusAssumption`). TLC evaluates them in the runs.

How some of the proofs go:

- References and pins are sums. They are stated as the cardinality of the set of
  those who hold one (`Pins`, `TriggeredBy`, `Held`), so that a step adds one element,
  removes one, or leaves the set as it is, and a lemma for each follows from
  `FS_AddElement` and `FS_RemoveElement` of `FiniteSetTheorems`.
- Recursive functions (`fls`, `OnTop`, `BelowSlot`, the walks of the tree) are
  `CHOOSE` of a solution of their equation. A lemma exhibits a solution, and so they
  unfold. Facts about all their values follow by least counterexample, from
  `NatLessThanWellFounded` and `WFMin`: thus `FlsIsMostSignificantBit`, which needs that
  2^(n+1) is twice 2^n and has this from the number of subsets (`PowerDoubles`), and
  `WalksReachAbove`, by which the walk over buses and slots hits the devices below a
  slot and no others.
- What is above a bus or a device is the smallest set closed under "the bridge to
  it" (`Upstream`, `Above`), which needs no recursion to reason about.

Model-checked only:

- `NoLostInterrupt`, `CallsReturn`, `RemovalCompletes` and `ProgramsEnd`: liveness under
  fairness is not within the prover's reach;
- that the three findings are violations.

## Not modelled

- In `VfioIntx`: `free_irq` is one step taken when no handler runs; one wake-up of the
  virqfd at a time; DATA_BOOL false and refused arguments, which change nothing.
- In `VfioMsi`: the MSI-X message written back from the cache; the irq bypass
  consumer; the mask and unmask virqfds of MSI, which are never enabled.
- In `VfioLifecycle`: power states the user writes in config space; the content of
  the saved PCI state (a reset, not its restoring, makes a device clean); `dirty`
  starts anew with each binding; `vfio_pci_try_bus_reset` ending for want of memory
  and for want of a reset method are one action.
- In `VfioRegions`: the other five BARs, which are handled alike; what a read or
  write of a region does once it is dispatched, since `vfio_pci_rdwr.c`,
  `vfio_pci_config.c` and `vfio_pci_igd.c` are not in the repository, and so neither is
  their use of `barmap`; the layout of the capability chain that carries the areas.
- In `VfioHotReset`: the buffer of the info call is large enough (-ENOSPC only
  reports the count).
- `vfio_pci_fill_ids` (`vfio_pci.c:1404-1444`): a loop over an id string that adds to
  the devices that can be bound; in `VfioLifecycle` every device can be.
- `VfioVga` stands for no state: the arbiter that calls it, and what it makes of the
  answer, are in other parts of the kernel.
- Of the red-black tree, as much as three nodes inserted in the order of the source
  need: one rotation, and the erasure of nodes with at most one child (`TypeOK` of
  `SampleLists` checks that no other is erased).
- In `RemoveLog`: an rm that removes part of a log, which makes it the newest by time;
  how often a mail lists a log, and the number of lines it states; a mail that cannot
  be sent, or a name that cannot be recorded.
- Samples: `lock/atomic` never gets past its exit, which waits for a value nobody
  writes (`hatomic.c:22`), and `atomic` names functions that do not exist and does not
  compile, so that neither has a behaviour to check; the mmap sample is one
  sequence of system calls in one process.
- Tools and tsc tests: they execute one instruction and print the result. The
  articles, and the copies of the samples under `_posts` (`src/_posts/kernel/kernel_app/mmio/bmmio.c` is an
  earlier version, whose init does not return unless its address is zero).

## Plan

Built, in this order: INTx with its proofs, MSI, SET_IRQS, life cycle, regions,
hot reset; then AER, the module in the life cycle and its contract `DeviceUse`, the
other kinds of region, VGA arbitration, the samples and the script; then the proofs
of all safety properties of all modules.

What is left:

1. A composition of SET_IRQS dispatch with both delivery modes, in place of the
   single steps of `VfioSetIrqs`, and the proof that `VfioIntx` and `VfioMsi` implement
   those single steps as seen by the user.
2. The liveness arguments, step by step: which invariant makes each helpful action
   enabled, as far as that can be said without ENABLED (a call of `VfioMsi` is never at
   a place without a step; an unbind that waits has a user who can close).
3. For the known limits, the weakest hypotheses under which the properties hold, in
   place of `SerialUser`, `CarefulAdmin` and `QuietBus`.
