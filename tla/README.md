# SQ8000 diagnostics firmware: a verification project

The repository is the diagnostics firmware of Socle's development boards (the
modelled platform is `PDK_PC9220`, an ARM9): a menu program, one test per
peripheral, and the small run-time system the tests share: an interrupt
dispatcher, a DMA channel service, a GPIO interrupt demultiplexer and bounded
waits.  There is no operating system: one main program, and the IRQ exception,
which interrupts it between two instructions and is not nested.  Everything that
is hard about this code comes from those two threads of control, from hardware
that works beside both of them, from waits that give up and waits that never do,
and from what one test leaves behind for the next.

## Inventory

| Part | State | Operations | Talks to | What makes it correct |
|---|---|---|---|---|
| Start-up, `src/main.c` | – | `TestEntry`: interrupt, DMA, GPIO, PWM services in order, then the menu | all services | services start empty |
| Menu, `lib/socle_lib/test_item.c` | a call of `test_item_ctrl` per open menu | show, choose, auto-test | tests | every layer entered is left; automatic tests fail exactly when one does |
| Interrupt controller, `platform/PDK_PC9220/irq.c` | vector table, enable and mask registers | `request_irq`, `free_irq`, `irq_dispatch` | every driver | no handler with the wrong parameter; no empty entry enabled; every request served |
| DMA service and driver, `src/DMA/dma.c`, `panther7-hdma.c` | channels, containers, one status register | request, free, enable, disable, shared handler | `irq.c`, notifiers | no call through null; a freed channel is silent; completions reach their user |
| Bounded waits, `lib/socle_lib/board.c` | – | wait for a flag or a register | handlers | they end |
| HDMA test, `src/PANTHER7-HDMA` | flag, channel | channel tests, burn-in | DMA service | a completion belongs to the transfer that waits |
| UART, `src/UART` | pattern, indices, interrupt enables, two channels | loop-back by interrupts, by DMA | `irq.c`, DMA service | fails exactly when bytes are lost; channels given back |
| GPIO, `src/GPIO/gpio.c` and the keypad test | pin table, `irq_num`; keys | request, free, enable, disable, handler | `irq.c` | a pin's routine runs for its own events; the port never spins |
| EHCI and OHCI hosts, `src/EHCI`, `src/OHCI` | schedules, six free rings, completion flags, the device's address | transfer functions, menus, handlers | a USB device | descriptors come back once; a wait ends with its own transfer; host and device agree on the address |
| USB device, `src/UDC` | block counters, control phase, endpoints | control requests, bulk loop-back, reset | a USB host | counters count; blocks in order |
| Ethernet, `src/MAC` | two descriptor rings, scheduled flags; test parameters | init, send, receive, filters, test cases | the MAC | each frame once and in order; every buffer back; verdicts right |
| NAND, NOR, Reed-Solomon | flash, ECC registers and codes, buffers | program, read, erase, copy, correct | controller, chip | passes only on flash handled as told |
| SD/MMC, `src/SDMMC` | `card_int`, buffers, card state | commands, transfers, cases | card, DMA | no case out of step passes falsely |
| SPI, `src/SPI` | slave's phase and FIFOs; master's tests | commands, reset | the other board | master and slave agree whose turn it is |
| I2C, `src/I2C` | messages, slave index and address state | transfer with retries, both ends in a handler | memory chip, itself | retries leave no state behind |
| I2S, `src/I2S` | FIFOs, ring in memory, positions | play, record, loop-back | codec, DMA | samples in order |
| RTC, timers, PWM and converter | alarm, chain mode, claims | alarm tests, counts, capture, conversion | `irq.c` | a pass is the pass of this test |
| Video in and out, `src/VIP_VOP` | static choices of nested menus, frame buffers | runs | two chips over I2C | what runs is what the path says; frames come back |
| LCD, LCM, SCU, WDT, MEM, C library | – | register writes, drawing, formatting | – | not modelled, see below |

`PROJECT.json` lists the parts one by one with their sources and status, and the
hazards at their lines.

## The modules

| Module | Models | Composes |
|---|---|---|
| `InterruptController` | `irq.c`, store by store, against the exception | – |
| `Panther7Hdma` | `dma.c` over `panther7-hdma.c` and the engine | `InterruptController` (INSTANCE) |
| `Board` | the bounded waits, as actions with a counter | – |
| `Panther7HdmaTest` | the memory-to-memory test and burn-in | `Panther7Hdma`, `Board` |
| `UartHwdma` | the UART hardware-DMA loop-back, two channels at a time | `Panther7Hdma`, `Board` |
| `GpioIrq` | `gpio.c`, the interrupt service of one group of pins | `InterruptController` (INSTANCE) |
| `KeypadTest` | the keypad test, which borrows the group's interrupt | `GpioIrq` |
| `EhciHost`, `OhciHost` | the two USB host tests | – |
| `DescriptorRing`, `FreePool` | the six free rings, and the pool they promise | `FreePool` (INSTANCE ... WITH) |
| `UsbHosts` | a session with either host, and the rings | the four above |
| `UsbDevice` | the USB device, its handler and the host | – |
| `MacDriver`, `MacTest` | the Ethernet driver's rings; the shell of cases | – |
| `SerialBench` | a session with one of the serial tests | `UartHwdma`, `UsbDevice`, `MacDriver`, `MacTest` |
| `NandTest`, `ReedSolomon`, `NorFlash`, `SdmmcTest` | storage | – |
| `SpiProtocol`, `I2cLoop`, `I2sAudio`, `UartLoop` | buses | – |
| `RtcTest`, `TimerTest`, `PwmAdcTest` | clocks | – |
| `TestMenu`, `VideoTest` | the menu shell; the video tests below it | `TestMenu` |
| `TestBench` | a session with one of the tests of the menu | `KeypadTest` and the twelve of the four rows above |
| `*_proofs` | theorems | – |
| `MC*` | constants for TLC | – |

Tests of one session share no state with those of another: the firmware runs one
at a time.  So a bench picks a test in its initial state, and a component whose
program counter is `"off"` takes no step.

### State and actions against the code

`InterruptController`.  `vec`/`pparam` are the two fields of `irq_vector_table`,
`iecr`/`imr` the enable and mask registers as sets of bits, `irqOn` the CPSR.
`main` is the call frame of the main program and `isr` that of the exception.
Every store of `request_irq`, `free_irq` and `init_irq_controller` is an action,
because the exception can come between any two.  With `LateIrq` the core may
execute instructions of the main program between the request and the exception.
Device, controller chip and drivers are external: the chip latches edges until
the clear register is written, and a level stays pending while its line is high;
a driver arms its device after `request_irq`, and one in `Quiesced` stops it
before `free_irq`.

`Panther7Hdma`.  `lock`, `active`, `notifier`, `mode` are fields of
`struct socle_dma`, `container` the shared-interrupt containers, `act`/`mask` the
flag and mask bits of `PANTHER7_HDMA_ISR`, `hw` the engine.  `drv` is the service
call the main program is in and `hisr` the handler with its locals; both keep the
snapshot of a read-modify-write, since the engine sets flags between the read and
the write.  A flag is cleared by writing 0 to it (`panther7-hdma-regs.h:119-147`).
The client is any sequence of service calls, with one restriction every driver
meets: channels are requested while none is active.  `Panther7HdmaTest` and
`UartHwdma` replace that client by one test each and add its flags and its wait.

`GpioIrq`.  `lock`, `active`, `sub_routine`, `sub_param` are the fields of
`struct socle_gpio_irq_s`, `irq_num` the count of requested pins, `ie` the mask
register, `hisr` is `socle_gpio_com_isr` with its snapshot of the status and its
count of served pins.  `KeypadTest` takes the same interrupt over with
`request_irq` and gives it back with `socle_init_gpio_irq`, whose `memset` leaves
`ie` alone.

`EhciHost`, `OhciHost`.  About fifty transfer functions are copies of one another.
Each is a record: the descriptors it takes, which of them interrupt, which of them
may be answered short, whether it may go through a hub, what it does with a good
answer.  The copied code is
modelled once: take descriptors, link, wait, unlink, return.  The controller, an
external component, executes, fails or delays any descriptor, and reports a short
answer as a completion (EHCI, with IOC or without); the device is
plugged and pulled, and answers at its own address only.  `DescriptorRing` models
`ehcimem.c` and `ohcimem.c` word by word; `queue`, the promise, is a history
variable.

`UsbDevice`.  `udCtl.need` and `udLoop.count` are `uNeedDoProcCtrlBlockNum` and
`uLoopbackCount`; the main loop's test and its masked section are separate
actions, and the handler comes in between.

`MacDriver`.  The two rings with OWN bits, the driver's and the MAC's own places
in them, `rxScheduled`/`txScheduled`, the handler.  `MacTest` has the parameters
the cases change, the address filter, the pool of received frames, and each case
as a program (a sequence of steps) with its automatic list.

`NandTest`, `SdmmcTest`.  Cases are programs of operations; an operation sets the
controller up, starts it and waits for the handler.  Flags, buffers, the chip or
card with its contents, and one fault at a time.  `NorFlash` has the flash as a
machine that ignores commands and answers with its status while it is busy.
`ReedSolomon` is the library over a smaller field, an element being the set of its
one bits.

`SpiProtocol` has both boards: the master's tests, the bus byte by byte, the
slave's handler and its main loop.  `I2cLoop` has `i2c_transfer` with its retries
and the one handler that plays master and slave.  `I2sAudio` has FIFOs, ring and
the positions of the handler and of the main program.  `UartLoop` has the 16550
with the priorities of its interrupts.

`RtcTest`, `TimerTest`, `PwmAdcTest`.  Time is an external action that counts
sixteenths, seconds, or goes from one edge of a signal to the next.

`TestMenu` is a stack of calls of `test_item_ctrl`, each with the places of the items
it shows (`test_item_ctrl` builds an array of them; its order is theirs);
`VideoTest` gives it the main menu and the video menus with their static variables.

## The runs

| Run | Question | Result |
|---|---|---|
| `irq_calls` | drivers of any mixture: entries whole, no empty entry enabled; when all quiesce their device, is every request served and does every call return? | holds |
| `irq_storm` | does `free_irq` always get to disable its source? | no: the entry is emptied first, and a request in that window is dispatched for ever |
| `hdma_service` | any sequence of service calls on two channels: null calls, silent free channels? | holds |
| `hdma_test` | completion flags of the memory test: never stale, never lost? every transfer ends? | holds |
| `gpio_service` | any calls on two pins, one level triggered: entries whole, no pin left out, every edge served? | holds |
| `keypad_menu` | does the menu come back after the keypad test? | no: the port is left unmasked with no pin requested |
| `usb_hosts` | every session of keys at EHCI and OHCI: descriptors returned once, waits ended by their own transfer, addresses agreed, transfers that end, rings that are pools? | holds |
| `ohci_early` | does a transfer function of OHCI return only what has been executed, when a controller hands its done queue over earlier? | no: it ends with the first hand-over |
| `serial_bench` | UART over DMA, USB device, MAC driver and MAC test: clean, in order, complete, right? | holds |
| `usb_device_abort` | do the shared counters of the USB device count, when the host drops a request? | no: `uNeedDoProcCtrlBlockNum` wraps |
| `mac_late` | is every received frame taken? | no: one that arrives before `rxScheduled` is cleared is forgotten |
| `test_bench` | are the verdicts of thirteen tests right, in sessions of two? | holds, with the exceptions the properties name |

### What the verdict properties say

The usual property of a test program would be that it passes on a good device.
Most here say more: it passes *exactly* when the device did what it should, *after
any session before it*.  Where that is not so, the property names the exception,
and the exception is an observation below.  `FlashRight` is `NandRight`,
`RsRight` (the code of its parity) and `SdRight`; `ClocksRight` is `TimerRight` and
`PwmRight`.

### Bounds

Every bound is a constant named in its module and given its value in a `.cfg`.

- Two interrupt sources, two handlers, three raises (`MaxRaises`): a request can
  arrive in every window of a call, be served, and arrive again.  Two channels are
  all the chip has.  `Threshold` polls (2 or 3) stand for the 30 seconds, so both
  outcomes of a wait occur; `MaxBurn` 3 transfers follow one another.
- Two pins, an edge and a level, three events; two keys and four events let the
  keypad test run twice with a stray key between.
- USB hosts: the rings have the sizes of the code in the tests and three
  descriptors in `DescriptorRing`, where a longer ring behaves as one of three.  A
  session is not bounded: 288,742 states.
- USB device: three blocks, so that the toggling buffer is used again.  MAC:
  the two setup buffers and 3 frames of up to two buffers wrap a transmit ring of 5
  and leave one of 7 receive descriptors; `mtRounds` 4 of repeated cases, which
  differ from there on in a count only.
- Flash: 2 pages of a block, 2 cases; 2 sectors and the divided first one for NOR
  (`nrSec` 16, `nrSize` 32), 1 poll, 2 tests.  Field of 8 elements with up to 4
  symbols of parity and 2 of damage; its shift register has the same form.
- SD: 3 blocks, 2 cases, 1 busy answer.  SPI: 8 bytes, 2 tests, 1 run of the
  slave.  I2C: 8 bytes in pages of 2 on a chip of 4, three refused bytes, which with
  a busy bus are as many attempts as the code makes but one.  I2S: 8 periods
  through a ring of 4.  UART: 12 bytes through FIFOs of 4, two runs.
- Clocks: 160 sixteenths are the 10 seconds; one tick outside of a wait; 2 tests;
  one late conversion.  Six keys are enough for every action of the menus and of the
  video runs.

### Fairness

`FairSpec` of `InterruptController`: the core executes, so a started call goes on, a
pending exception is taken, a running one goes on; devices and drivers may stay
silent.  The test programs add that the program itself goes on.  The USB device's
fairness has the main loop, the handler and a host that takes what is offered; the
MAC's has the MAC, which sends what it owns.  For the hosts: waits are polled,
controllers execute linked descriptors, frames end, handlers run; a controller
that never finishes would hang the code, as its waits have no bound.  No fairness
is assumed of the DMA engine or of the person at the menu.

## What is proved

For every value of the constants, with TLAPS, from the named assumptions of the
modules (`ControllerAssumption`, `HdmaAssumption`, `GpioAssumption` and those of
the tests).

`Controllers_proofs`, of the interrupt controller: `TypeOK`, `HandlerGetsItsParam`,
`EmptyEntryDisabled`, `NoSpuriousDispatch`.  None is inductive.  `IInv` adds what
`request_irq` has stored so far and that its source is still disabled
(`RequestProgress`), that `free_irq` empties the handler first (`FreeProgress`),
that an enabled source has a whole entry or is being freed (`EnabledEntry`), that
the exception runs only for an enabled source (`RunningIsr`), and that quiesced
devices have neither line nor latched edge and armed ones are registered
(`QuiescedSilent`, `ArmedRegistered`).

`Panther7Hdma_proofs`: `TypeOK`, `NoWildCall`, `FreeChannelSilent`.  An inactive
channel has been stopped and has no flag in the status register, once its disable
has got that far (`InactiveStopped`); so a flag the handler finds belongs to a held
channel, and a held channel has a notifier (`HeldNotifier`); requests happen while
no channel is active, so no exception can run while a container is half filled
(`RequestQuiet`, `ContainerOwned`).

`Panther7HdmaTest_proofs`: `CompletionIsCurrent`, `CompletionOnItsWay`.  `TInv` is
the driver's invariant and the test's: where the program is decides which channel
is held and in which call (`Place`, `Locks`, `Irqs`); a flag that is up, or a
handler about to raise it, is that of the transfer enabled last (`Current`); and
while a wait goes on, the completion is at one of the places between the engine and
the flag (`Carried`).

`UartHwdma_proofs`: `LeftClean`, by `UInv`, the same first parts for two channels
held at a time, which are requested and freed one after the other.

`Controllers_proofs`, of the USB hosts: `QueueLinked`, and that every ring implements the pool of
`FreePool`, for any set of descriptors and whatever a transfer function writes into
those it holds.  The link words of the queue's neighbours are the induction
hypothesis; a ring that is not closed when it begins is closed by its second `Add`.
Above the rings, for every sequence of keys, answers and interrupts: `PoolsWhole`,
`EhNoStaleFlag`, `EhFreesWhenDone`, `OhFinished`, `HostKnowsAddress`.  That a
completion is that of the transfer that waits for it follows from its phase: a
transfer is executed, reported and waited for one after the other (`EhQuiet` and
`EhOneQueue`, while no descriptor was returned in use; `OhPhase`).  Of EHCI there is one
exception: the short answer of a control read sets the flag while the status stage is
to come, and `EhOneQueue` says that nothing else is left then, so `EhFreesWhenDone`
says exactly what may be in use when a function returns its descriptors.  The device
changes its address with the last descriptor of `SetAddress` (`EhAddressing`,
`OhAddressing`).  For OHCI this needs `ohFast`, a controller that executes within a
frame what is linked: `ohci_early` shows that without it the functions return early.
`EhciAddressAgrees` and `PoolsAreWhole` do not need it.

`TestBench_proofs`, of the GPIO service: `TypeOK`, `PinHasItsRoutine`,
`OnlyEnabledPinsRun`, `CountIsHeld`, `NoPinLeftOut`, for any number of pins.  `IInv`
adds which call holds what (`CallPhase`), that the entry of a held pin is whole unless
its request is filling it (`HeldEntry`), that an unmasked pin is held and counted
(`Unmasked`), that `irq_num` is the number of held pins but for the stores that follow
(`Counted`), and that the handler has no more pins before it than it will serve
(`Snapshot`).  The last two make it sound that the handler stops at `irq_num`: the
argument is one of cardinalities, which a run on two pins cannot stand for.

`TestBench_proofs`, of the tests of the menu: `EndsWithAllKeys`, for every set of keys,
since no key is forgotten before the next test begins; and `MenuRight`, `UartRight`,
`I2sRight`, `NorRight` and `ClocksRight`, from the invariants of `MenuUartAudio_proofs`
and `Timers_proofs` (modules of their own, which see only the tests they are about),
since a step of the bench is a step of the test that runs (`BenchSteps`).

- `MenuRight`, by `VvInv`: the stack of calls of `test_item_ctrl` is a path of the menu
  tree (`VvPath`), the static choices and the items left enabled agree with it
  (`VvChosen`), the two devices are as the place in a run says (`VvDevices`), and a
  failure of an item called is noted by the call above it (`VvFailed`).  The tree itself
  is proved about as a table of five menus (`VvIsMenu`), so that no proof looks at a
  menu twice.
- `UartRight`, by `UlInv`, for patterns and FIFOs of any size and any number of runs.
  From the trigger to the comparison the bytes sent are in the compare buffer, the
  receive FIFO, the line and the transmit FIFO, one after the other and each in its
  place, unless the line has lost or spoilt one; then one is missing or wrong among
  those received (`UlChain`).  As long as some are left to be sent, there is a byte to
  go out, an empty FIFO to be reported, or a handler about to write (`UlAlive`).  When
  no run goes on nothing is on its way, though the interrupts stay enabled (`UlCalm`).
- `I2sRight`, by `IsInv`, for recordings, rings and FIFOs of any size and any number of
  tests.  The last `isRing` periods put into a ring are in their places (`IsInRing`);
  as many have been played as were put in, less a ring, plus those by which the handler
  is ahead (`IsAhead`) and one if its interrupt is pending (`IsFed`); and it is less
  than a ring ahead, unless an interrupt came between the clearing of
  `socle_i2s_period_int_flag` and the reading of the place, of which the model has a
  record (`IsCaught`).  A recording is the same, seen from the other side
  (`IsRecorded`); a loop-back is at most one period behind (`IsLooped`); and without DMA
  the words in the FIFOs follow one another (`IsPlayed`, `IsTook`).  The proof needs
  that a FIFO is not larger than the recording (`isDepth <= isSize` of `IsAssumption`):
  8 or 32 words (`i2s-regs.h`) against 5 MB.
- `NorRight`, by `NrInv`, for sectors and flashes of any size, either mode and any number
  of tests.  That the first sector is divided into eight makes no difference: the units
  of a sector are those whose `NrSectorOf` it is, and follow one another in it
  (`NrSectorUnits`, `NrUnitNext`), for whatever `NrAssumption` admits.  A sector found
  erased shows that the flash is idle, so from then on it does only what this test has
  told it (`NrObeys`), and programs cells that are erased (`NrWithin`); the sectors
  before hold their pattern (`NrBehind`), those outside the test what they held
  (`NrOutside`).  The exception is there because it is true: what a flash is still busy
  with when a test begins may be in any sector, and the copy `mxic_flash_write` makes is
  then one of its status; `NrKnown` says from where on the flash is known.
- `ClocksRight`, for any number of tests, early ticks and late conversions.  Of the timer
  tests, by `TrInv`: between tests every timer is off (`TrResting`); in a test only its
  own are on, chained or not as it says (`TrSetUp`), and the last of them interrupts
  when the seconds left to it, counted through the chain (`TrDue`), have passed
  (`TrFirst`, `TrTimes`), which a chain with a timer that stands still never sees
  (`TrNever`).  Of the PWM timers and the converter, by `PaInv`: a timer that works
  comes again and again, a wrong one once (`PaTimer`); the edges of a signal alternate,
  and the pair that is read is at most one edge behind it (`PaSignals`, `PaRead`), so a
  pair that makes a whole period gives the duty exactly; and a signal that does not
  follow the duty leaves the limits of the voltages or of their sum (`PaConverter`,
  `PaGood`, `PaWrong`).

`SerialBench_proofs`: `MacInOrder`, for every number of frames and rings of every
size that `MacAssumption` admits.  The receive ring, the parts in the air and the
transmit ring are one queue in three pieces: each part in it comes after the one
before it, the oldest is what the pool wants next, and what is sent next comes after
the newest (`MacRxChain`, `MacAirChain`, `MacTxChain`, `MacSendsNext`).  Which
descriptors belong to it, the OWN bits say: those between the driver's place and the
MAC's, going round (`MacRxRing`, `MacTxRing`, with descriptor 1 of test 8 apart).
`MacTaken` is proved from `~macLate`: a whole frame in the ring, or a receiver that
starves, is noted by `rxScheduled` or by a cause that is pending (`MacNotice`); the
run `mac_late` shows that the hypothesis is needed.

`BlocksComeBack` and `CountersCount` are proved from `~udAborts`, a host that drops
neither a request nor a loop-back, for a buffer of any number of blocks (`UdInv`).
The blocks sent and not read back are those on their way, those counted in the buffer
and one just received, in this order (`UdBulk`); a request is pending, has its one
packet with the main loop, in the endpoint or taken, or awaits its status
(`UdControl`).  So the main loop may look at a counter before it masks interrupts;
`usb_device_abort` shows that it may not when the host aborts.

Model-checked only: all liveness; `FlashRight` (its parity needs the recursive
definitions of a code, and it is about concrete programs over concrete data), and for
the latter reason `RtcRight`, `SpRight`, `I2cRight` and `MtVerdict`; `RtcRight` and
`I2cRight` also hold only for waits as long, and for as few refusals, as the bounds
say; and the properties that fail.

## Observations

What the modelling met in the code and no run lists as a finding.  Lines are those
of the file named first.

- UART (`uart-ctrl.c`): -1 of `rx_complete_flag` is never seen by the test, since
  the wait looks for 1 only (537); the interrupts stay enabled after the normal
  test, and the handler then takes what the GPS test polls for.  The hardware-DMA
  test clears its flags before it stops the channels of an expired wait (657): a
  late page interrupt ends the next wait.  Freeing one HDMA channel frees the
  interrupt both share; a read-modify-write of its status register may clear a flag
  raised meanwhile.
- GPIO (`gpio.c`): the interrupt is cleared after the sub-routine has run (830), a
  second edge meanwhile is lost.  `tsc2000-test.c`: the free of the pin stands after
  the return (205), and a pin held low starves the main program (55).
- EHCI (`ehcictrl.c`): `GetDescriptor` and the other reads return their descriptors,
  and report an error, before the status stage is executed when the answer is shorter
  than the length asked for (1021-1025), which the keys let one type.  A failed
  BulkLoop returns descriptors in use, and a freed
  queue head is cleared and linked again while the schedule runs; an automatic run
  returns 0 whatever happened and skips `EHCI_Stop`; `EHCI_Reset` leaves
  `USBINTR` 0, so the next transfer waits for ever.
- OHCI (`ohcictrl.c`): `ResetChange` is never cleared; `BulkLoopData` returns 1 on
  both ways (4193-4199); a failed isochronous receive keeps its descriptors (4476);
  `TailP` of a third descriptor is uninitialised at 1191, 2058, 2231 and 3100.
- USB device (`usbctrl.c`): `initUDCController` writes beyond `ChannelSet`; the
  transmit-error branch of `process_bulk_in` cannot be reached.  The waits on the
  status of an endpoint test a copy of the register (874, 902), so on a bus error they
  have no end; the model has a bus without errors.
- MAC: a frame received with errors is discarded (`if_socle.c:1106-1114`); the model
  has a line without.  The branch of `sMacRecv` for a full pool loops for ever; cases `t` and `n`
  may pass on frames of an earlier case; case `y` leaves `Test_Ethernet_Frame` set.
- NAND (`nand-flsh-ctrl.c`): the pattern of every page is the same, so a wrong page
  is not noticed; `nand_test` writes a reset before the base is known (157); the
  results of `ecc_read` and `ecc_program` are ignored; DMA time-outs return with the
  chip selected; `correct_data` takes a time-out for a syndrome error; the menu of
  8-byte parity offers four errors of which three can be corrected.
- Reed-Solomon: corrections of the 10-bit parity are truncated to 8 bits.
- NOR (`nor-mxic-ctrl.c`): an erase that takes longer than the delay leaves the
  flash busy, and the next write copies its status into the sector (298, 311); range
  checks let the first offset beyond the flash through, and an odd or too large
  offset is reported and then used (156).
- SD (`sdmmc-ctrl.c`): no flag of `card_int` is cleared before a command, so after a
  late interrupt cases run out of step, and a multiple-block case can pass falsely;
  a failed transfer leaves the card in its data state; the handler clears its causes
  with a read-modify-write (2009-2023), and a bit lost so is one of the mishaps of the
  model; error returns leave the
  interrupt requested; -1 of CMD55 is taken for a card that does not answer.
- SPI (`spi-slave-ctrl.c`): a reset between the assignment of `state` and the
  clearing of the flags is lost; the last full FIFO of `write_data` goes beyond the
  data; the time-outs of the DMA run return without freeing channel and interrupt.
- I2C (`i2c.c`): `!(!flags & NOSTART)` is always true; the low byte of a 10-bit
  address is masked with 0x7f on both sides; waits have no bound.
- I2S (`i2s-ctrl.c`): what is left in ring or FIFO when the program stops is not
  played; the comparison finds nothing wrong in silence; time-outs return with the
  interrupt requested.
- RTC (`rtc-ctrl.c`): an old alarm that comes between 674 and the setting of the new
  one makes a test pass; `f_time` and `f_date` are exchanged at 118-121.
- Timers and converter: `socle_pwmt_capture_mode_test` keeps the transmitting timer
  when the other is busy (`adc_pwmt-ctrl.c:830`); `hrc_val` is written beyond its end
  when a signal changes faster than the loop reads; `socle_adc_ready` is not cleared
  before a conversion, so a late one is taken for the next.
- Menu and video: a key that is no digit runs the last item again; a run given up
  because a chip does not answer leaves the interrupt requested.
- Interrupt self-test: requests for entries the services hold fail without a word,
  and the frees after them take the services' interrupts away.

## Not modelled

- UART: the GPS receiver.  MAC: the cases that wait for a user or for ever (`r`,
  `w`, `v`).  NAND: small pages, never selected; the cache controller, not in this
  build.  I2S: the codecs' registers.  PWM: the current sense, disabled here.
- GPIO loop-back, interrupt self-test: sequences of calls that `GpioIrq` and
  `InterruptController` check in any order.
- The general DMA controllers: not on this chip.
- Start-up, clock unit, panels, memory test, watchdog, I2C peripherals, C library:
  register programming, drawing, comparing and formatting by one thread.
- Under `src/UDC`, the three earlier variants of the same file; the tool in `scripts/`.
