# x86-simu: TLA+ models, checks and proofs

x86-simu is a Windows program that simulates a PC: an x86 processor and the chipset
around it (8259, 8253, 8042, 8237, CMOS, floppy, IDE, local and I/O APIC, PCI, power management). This
directory models the processor between and inside its instructions, the devices with control logic of
their own, and what the program's two threads do to each other. Paths are relative to `src/`.

## 1. The system

### Threads

| thread | started | what it runs |
|---|---|---|
| clock | `simu-isa/main.cpp` -> `sys_run` | `run_clock` (`sys/clock.cpp:22-57`): one processor step per round, and every 256 rounds the timer, RTC, TCO, ACPI timer, SMI, ATAPI, VGA, the command ring and the floppy; at `sys_hb = 0` the APIC bus and USB |
| window | `sys/system.cpp:192` | the message loop; `WndProc` (`vt/mainwnd.cpp:62-159`) calls `key_hit`, `reset(3)`, `post_main_thread_msg` and the mount dialogs |

The program takes no lock anywhere and declares nothing volatile. Whatever both threads touch is shared
memory with plain loads and stores: the 8042's ring and status, the 8259's registers (through
`assert_irq`), INTR, the command ring, the mounted images and, on a reset from the menu, the 8042, the
8237, the 8259, the bridge, A20, SMI and the processors (`sys/reset.cpp:23-45`).

### Components

| component (files) | state | operations | talks to | what makes it correct |
|---|---|---|---|---|
| 8259 pair (`sys/8259.cpp`) | irr, isr, ocw1, ocw3, icw state, vector base | port reads and writes, assert, deassert, acknowledge, reset | devices above, INTR of cpu[0] below | no unmasked request without INTR or a level in service; no INTR without a request; highest level first; requests retired only by their owner |
| 8042 (`sys/8042.cpp`) | ring of 16 bytes, status, command byte, command in progress, output port | key_hit, ports 60h and 64h, reset | window thread, IRQ1, A20, system reset | the ring is a bounded buffer; every byte announced and interrupted for |
| A20 and port 92h (`sys/a20.cpp`) | port92, the mask of the MMU | a20_sync, reset_a20, port writes | 8042's output port | A20 is a function of the two gates |
| command ring (`vt/main_thread.cpp`, `vt/vt.cpp`) | 16 slots, head, tail | post_main_thread_msg, do_vt | window to clock thread | a FIFO queue that is emptied |
| interrupt wiring (`sys/irq-wire.cpp`) | imcr | assert_irq, deassert_irq, assert_intr, deassert_intr | 8259, I/O APIC, local APIC | level changes reach both fabrics |
| 8253 (`sys/8253.cpp`) | three counters, latches, read/write state | do_8253, ports 40h-43h | IRQ0, port 61h | a written counter never interrupts in every pulse; a period that nobody disturbs is what was loaded |
| local APIC, I/O APIC, bus (`sys/apic.cpp`) | irr, vector in service, cached request, tpr, LVT, redirection table | register access, do_clock, set_pin_status, transfer_msg | processor, wiring, 8259 | the cached request is the register's; only vectors above the task priority are delivered; EOI retires one vector and looks for the next |
| CMOS/RTC (`sys/cmos.cpp`) | 128 bytes, digits that count, registers A-D | ports 70h/71h, do_cmos_rtc | IRQ8 | an alarm rings; register C collects flags until it is read |
| 8237 (`sys/8237.cpp`) | channels, flip-flop, mask | ports, run_dma_task | floppy | what was moved is what was counted |
| floppy (`sys/floppy.cpp`) | command and result queues, phase, place of each drive | ports 3f0h-3f7h, do_floppy | 8237, IRQ6, image | phases alternate; a transfer ends on its terminal count, in the order of the disk |
| IDE, ATAPI (`sys/ide-io.cpp`, `ide-cmd.cpp`, `atapi.cpp`) | task file, data pointers, counters | registers, commands, do_atapi | IRQ14/15, image | the two counters hold the words still owed; a block of a read ends where its interrupt is |
| PCI, MCH, ICH (`sys/pci*.cpp`, `mch.cpp`, `ich.cpp`, `828*.cpp`) | configuration registers, routing below 1 MB | 0cf8h/0cfch | address map | the two routings agree with the registers; a lock holds |
| address map (`sys/addressmap.cpp`, `mem.cpp`, `ports.cpp`) | list of windows | add, remove, dispatch | processor, devices | accesses go where the bridge says |
| SMI, ACPI, TCO (`sys/smi82801.cpp`, `acpi82801.cpp`, `cpu-simu/smi.cpp`) | status and enable registers | do_smi, do_acpi_timer, SMI entry, RSM | processor | a cause that is enabled reaches the handler |
| processor step (`cpu-simu/run.cpp`) | registers, halt, pending exceptions | CCPU::step | 8259, local APIC, MMU | interrupts between instructions only; the program's instructions retire in order, once each |
| control transfer (`cpu-simu/int.cpp`, `iret.cpp`, `call.cpp`, `ret.cpp`, `task.cpp`) | segment registers, stacks | int, iret, call, ret | MMU | level, selectors and stacks agree; every return restores what was left; a handler finds the frame it expects |
| MMU, TLB, LSQ (`cpu-simu/mmu.cpp`, `tlb.cpp`, `lsq.cpp`, `fetch.cpp`) | TLB, load/store queue | translate, flush, access | memory | an address that was invalidated is translated by the tables |
| memory instructions (`cpu-simu/stack.cpp`, `string.cpp`, `enter-leave.cpp`, ...) | registers | execute, fault, repeat | MMU | an instruction repeated after faults ends as if undisturbed |
| ALU, shifts, multiply (`cpu-simu/alucore.cpp`, `mult-exec.cpp`) | flags, a global CF | pure but for the CF | - | programs compute what they are written for |
| FPU (`cpu-simu/fpu.cpp`, `fpu-exec.cpp`) | register stack, TOP, condition codes | x87 instructions | - | the registers are the stack of the manual |
| snapshot (`sys/system.cpp:239-314`) | a file | save, load | memory, processor, some devices | load restores what save wrote |
| video, fonts, mounting (`vt/`, `sys/video.cpp`) | pixels, images | paint, mount | window | - |
| SSE, decoder (`COMMON/`), generators (`import/`), run-time library, ALU tests, uncompiled sources | tables | pure | - | - |

`PROJECT.json` lists the components with their status and, under `hazards`, what in this code is hard to
test, each at its line, with the properties that watch it.

## 2. Modules

| module | models | how |
|---|---|---|
| `Pic8259` | `sys/8259.cpp` | both controllers with `NPins` pins (8 in the code); one action per port write, assert, deassert, acknowledge, reset; `stale` records that an initialisation byte changed registers without `fresh_int` |
| `KbdBuffer` | (abstract) | what the 8042's ring promises: a bounded sequence in which keys go to the back, responses to the front, and nothing else moves |
| `Kbc8042` | `sys/8042.cpp`, `sys/a20.cpp`, the 8042's part of `sys/reset.cpp` | each handler one action, with the whole command set of ports 64h, 60h and 92h |
| `KbcRing` | the ring of `sys/8042.cpp` | the same ring at the grain of single loads and stores by two threads |
| `CommandQueue` | (abstract) | a bounded FIFO queue whose consumer works on one command at a time |
| `VtRing` | `vt/main_thread.cpp`, `do_vt` | the command ring at the grain of single loads and stores |
| `PicThreads` | `sys/8259.cpp`, `sys/irq-wire.cpp` | the master 8259 with both threads inside it: read-modify-write of irr, the reads of `fresh_int` and the drive of INTR are separate steps |
| `KeyboardPath` | the composition | instances of `Kbc8042` and `Pic8259` with the wire between them, the acceptance of INTR and a guest that boots, handles IRQ1 and ends interrupts |
| `Timer8253` | `sys/8253.cpp`, port 61h | three counters with the guest's half accesses and `do_pulse`; a half is a number below `Base` (256 in the code) |
| `LocalApic` | `sys/apic.cpp` | the one local APIC the program registers (`sys/system.cpp:166`), the I/O APIC and the messages between them |
| `Transfer` | `cpu-simu/int.cpp`, `iret.cpp`, `call.cpp`, `ret.cpp`, `jump.cpp`, `exception-int.cpp` | gates, levels, V86 and real mode, stacks as sequences of groups of words |
| `CpuStep` | `cpu-simu/run.cpp`, `smi.cpp` | the end of a step: faults, HLT and its wake-ups, INTR, single step, SMI and RSM, over a program of `Length` instructions |
| `Restart` | `stack.cpp`, `string.cpp`, `enter-leave.cpp`, `call.cpp`, `ret.cpp`, `cmpxchg.cpp`, `alu-exec.cpp` | instructions stopped by a page fault and repeated, in a memory of a few bytes |
| `Paging` | `mmu.cpp`, `tlb.cpp`, `cpu.cpp`, `mrom-exec.cpp`, `task.cpp` | the walk, both buffers and everything that invalidates |
| `Alu` | `alucore.cpp`, `mult-exec.cpp`, decimal adjustments, conditions | short programs at operand size 8 against what they are written to compute |
| `X87` | `fpu.cpp`, `fpu-exec.cpp` | the register stack and the comparisons over a small field, beside the manual's stack |
| `HostBridge` | `sys/82845-host.cpp`, `pci.cpp`, `mch.cpp` | PAM and SMRAM registers, their locks, both codings of the routing, shadowed segments |
| `Power` | `sys/acpi82801.cpp`, `smi82801.cpp`, the SMI pin in `cpu-simu/run.cpp` | the causes of an SMI, `do_smi`, the processor that takes the pin unless it is halted with IF = 1, a handler that reads and writes back status; one cause is watched |
| `Rtc` | `sys/cmos.cpp` | the digits that count, the registers that show them, alarm, flags, IRQ8 |
| `Dma8237`, `Floppy` | `sys/8237.cpp`, `sys/floppy.cpp` | the channel's count and mask; phases, commands, DOR, sectors moved by `do_floppy` |
| `Ide` | `sys/ide-io.cpp`, `ide-cmd.cpp`, `atapi.cpp` | one controller, two drives, a guest driver, by interrupts or polling, that moves one block at a time |
| `Interrupts`, `RingAndApic`, `Threads`, `Storage`, `Processor` | the compositions that are run | see below |
| `MC*` | - | the small instances |
| `Rings_proofs` | - | lemmas about rings of any size, shared |
| `*_proofs` | - | section 4 |

A composition EXTENDS one component and INSTANCEs others, with a variable `part` that is chosen once: a
behaviour exercises one part while the others rest. The parts of one composition share no state, so a
property of a part is the same there as on its own; what does share state is composed step by step
(`KeyboardPath`, `PicThreads`, `Floppy` over `Dma8237`). The properties of a composition name those of its
parts.

| composition | parts |
|---|---|
| `Interrupts` | the 8259 pair (extended), `Transfer`, `HostBridge`, `Power` watching one cause, with two sets of them, `Rtc` |
| `RingAndApic` | `LocalApic` (extended), `KbcRing` |
| `Threads` | `Timer8253` (extended), `VtRing`, `PicThreads`, `KeyboardPath` |
| `Storage` | `Floppy` (extended), `Ide` |
| `Processor` | `CpuStep` (extended), `Alu`, `Restart`, `Paging` with one and with two entries, `X87` |

Definitions named as a slip (`EoiNoRefresh`, `TakeNoWrap`, ...) are plausible mistakes in one handler.
They are not part of a specification; `PROJECT.json` pairs each with the property that notices it when
it takes the handler's place.

### Correspondence worth knowing

* `Pic8259.Inta` overwrites the in-service register with the one level it selected (`isr = 1 << n` in
  the code) and keeps the request; `Eoi` clears both. That is what the code does, and the properties
  are about that chip, not about Intel's. Reads change nothing; `ReadSource` says which register they
  return.
* `Kbc8042.irq` and `data` are outputs of the last operation: IRQ1 asserted, byte returned. In
  `KeyboardPath` the conjunct `Wire` turns `irq` into the 8259's `AssertIrq` in the same step, as the call
  in the code does. Consumed slots keep their bytes: reading an empty buffer returns the byte last there.
* A build may keep `wr_ptr++` or `head++` and the wrap around that follows as two stores or as one;
  `KbcRing.Advance` and `VtRing.Publish` choose freely. `race` and `replay` are histories: one of the
  windows in which a torn index is seen was hit.
* `Timer8253.since` counts the pulses since a counter was last loaded, `loaded` says whether it ever was
  written, and `whole` that it has passed zero since the last write: histories, without which no property
  could speak of a period. The six counting modes differ in nothing but the byte that is stored. A write
  loads the counter at once; `PeriodKept` speaks of periods that no write cuts short (section 5).
* `Transfer` keeps the selector of a data segment and not the descriptor behind it: no transfer changes
  that one. `Usual` clears a selector that the new level may not use, as `null_invalid_sreg_selector` does,
  and the segment stays usable in the code all the same. PUSH and POP go by supervisor rights, so a
  kernel's stack takes the frame whatever level is interrupted. `due.short` marks a handler entered from
  V86 mode without its error code; it takes the wrong words for a return address, and its return is
  left out.
* `Power.carryEn` is bit 6 of register 38h. The code tests the field named `dwSMIControlEnable` for register
  30h, but with the default alignment of the struct (`sys/include/acpi82801.h:8-57`) it lies 8 bytes
  further on. `sleep` is halt, with IF (`open`) or without; halted with IF the processor looks at interrupts
  only. A reset forgets the recorded causes, so `owed` ends with it.
* `LocalApic.Selected` searches like the code: bytes of the request register from the top, bits of a
  byte from the bottom. A message that reaches nobody and a pin that is masked change nothing, so
  addressing is left out.
* `CpuStep` has one action per way a step can end. What an instruction does to registers is left out;
  `next` and `left` follow the program's own order. `Hlt` includes what its own step does with a pending
  interrupt.
* `Restart` compares with the same instruction run in a memory where every page is present, which is
  what "restartable" means to the system software.
* `Paging.resized` names addresses whose page changed its size since their last invalidation: the only
  ones that may have two copies.
* `X87.spoiled` is set by those instructions whose result the code and the manual disagree about
  (listed below); from then on nothing is claimed of that program.
* `Floppy.Place.sn` counts modulo `SnWrap` (256 in the code, a char): a write of the digital output
  register in the middle of a transfer selects another drive, and the sector number of that one may
  already be past the end of the track.
* `Ide.Sectors` rounds the byte count limit of a packet up to sectors, as `atapi.cpp:171` and `ide-io.cpp:409` do,
  while `told`, the count the guest is shown, is the limit itself; both are in words here, a byte count
  being even. Only for an `Aligned` limit do they agree.
* `Ide.owed` and `from` are histories: words the command has still to move, and the drive it was given
  to. The driver moves as many words as the device told it and does not look at the status in between.
* The guests of `KeyboardPath`, `Ide`, `Power` and `Restart` are the usual drivers, not code of this
  repository. The guest of `Floppy` obeys the main status register: it writes and reads the data port only
  when asked to, but masks, resets and reprograms the channel and the digital output register at any
  time. The guest of `Transfer` is balanced: a handler removes what it pushed. The 8259, 8042, 8253, bridge
  and APIC modules meet guests that write anything at any time.

## 3. Runs

| run | question | instance |
|---|---|---|
| `interrupts` | Do INTR and the 8259's requests agree under any guest, and is the timer served? Do levels, stacks and returns match through nested interrupts, faults and far calls? Do both routings of the bridge agree with its registers? Does every cause of an SMI reach the handler, through halts and resets? Does the alarm ring? | 2 pins per controller; 5 gates, programs of 2 addresses, 2 returns outstanding; 2 PAM registers with 3 values, one segment followed; 2 causes at a time; days of 3 hours of 3 minutes of 4 seconds with 2 alarms |
| `kbc` | Is the ring the buffer it stands for, every byte announced and interrupted for? Does A20 follow its gates? | ring of 3; three guests: keys and ring commands, gates and resets, remaining commands |
| `ring_apic` | What do two threads on the 8042's ring do to keys? Is the APIC's cached request the register's, is a request announced or remembered, is priority honoured? | ring of 3, 4 keys, 2 responses, 1 clear; 3 vectors, 1 pin, 2 priorities, fixed and INIT |
| `threads` | Does a counter that nobody writes keep its period, whatever is read, latched or half written? Is the command ring a queue that is emptied? Does an interleaving inside the 8259 strand a request? Do 8042, 8259, processor and driver deliver every byte? | `Base = 2`, counters 0 and 2; 3 slots, 2 commands; 2 pins, one per thread, 2 masks; ring of 4, one key |
| `storage` | Do phases, counts and the words moved agree, do blocks end where their interrupt is, does a transfer end? | tracks of 2 sectors of 2 bytes, 2 cylinders, one drive; sectors of 2 words, packets of 1, a disk and a CD, blocks of 2, up to 3 sectors, byte count limits of nothing, of two sectors and of one and a half |
| `processor` | Do short programs compute what they are written for? Is the FPU a stack? Do faulting instructions end as if undisturbed? Do the buffers agree with the tables? Does the program retire in order? | 6 operands, 23 programs; field of 5 numbers, 3 registers; 36 bytes in 3 pages; 1 and 2 entries; 2 instructions, 2 handlers |
| `kbc_full` | comment `sys/8042.cpp:139` | a response to a full ring empties it |
| `path_eoi` | comment `sys/8042.cpp:201` | the end of interrupt takes the request of the remaining bytes |
| `v86` | comment `cpu-simu/int.cpp:351` | a fault of a V86 program enters its handler without an error code |
| `rotate` | table `cpu-simu/alucore.cpp:26` | RCR turns in what the last ALU function left, not the carry flag |
| `cr3` | comment `cpu-simu/tlb.cpp:181` | a task switch loads CR3 and flushes nothing |
| `halt` | comment `cpu-simu/run.cpp:45` | an interrupt pending at HLT leaves the processor halted in front of its handler |

The first six hold; TLC refutes the six others, and `findings` quotes what each contradicts. Deadlock is
checked everywhere but in `processor` and `rotate`: a program of `Alu` ends.

What the properties of the six say:

* `NoForgottenRequest`, `NoPhantomIntr`, `RequestSurvives`, `AcknowledgesHighest`, `TimerTaken`: the 8259.
  `RequestSurvives` lets an acknowledge clear the request it takes, as the comment at `sys/8259.cpp:157` has
  it, or keep it, as the code does; what it forbids is the loss of any other request.
* `LevelsAgree`, `ReturnsExact`: CPL, selectors and stack agree; a return restores what was interrupted or
  called from.
* `BridgeRight`: the two codings of the routing agree, reads and writes of a segment go where its
  register says, a closed segment keeps its contents, a locked SMRAM is not written outside SMM.
* `CausesServed`, `AlarmRings`: leads-to, for a cause that was recorded and for an alarm time. Excepted from
  the first: SMIs switched off, resets, and SMM that the processor never leaves.
* `DataAnnounced`, `RingIsBuffer`, `NewFrontInterrupts`, `A20FollowsGates`: the 8042. `RingIsBuffer` is a
  refinement of `KbdBuffer`.
* `KeysNeverReplayed`, `NothingLost`, `EveryKeyRead`: the ring between two threads, outside three named
  windows. `CacheFresh`, `RequestNotForgotten`, `PriorityHonoured`, `RequestEnds`, `RequestResurfaces`: the APIC.
* `NoStorm`, `PeriodKept`: the timer, the latter while nobody writes it. `RingIsQueue` (a refinement of `CommandQueue`), `CommandsCarriedOut`:
  the command ring. `AgreesUnlessMixed`, `StrandedRequestHeals`: one undisturbed `fresh_int` repairs the
  8259. `RequestsMatchBytes`, `FrontIsRead`: the path of a key.
* `AccountsAgree`, `TransfersRight`, `TransfersEnd`: floppy and IDE. `TransfersRight` asks of a CD's blocks only if
  the byte count limit is a whole number of sectors; with others the guest and the drive do part (section 5).
* `ProgramsRight`, `StackIsStack`, `Restartable`, `TranslationsRight`, `ProgramInOrder`, `Completes`, `SmiServed`:
  the processor.

### Bounds and why they suffice

* `NPins = 2`: priority, masking and cascading distinguish pins only by order, so two per controller give
  every relation between a request, a mask, a level in service and the other controller.
* `Base = 2`: a counter of four values still has a zero to replace, two halves to swap and a count that
  wraps.
* Rings of 3 (two usable slots) and 4: empty, full, wrapped around, and a response placed in front of a
  key all occur. `MaxKeys = 4` lets the write index pass the end once and reach the read index again;
  responses and clears are bounded because two of each already combine with every step of `key_hit`.
* Vectors: two of one byte of the request register and one of another class; the task priorities lie
  among them and above all.
* `Nest = 2`, `Depth = 2`: one handler over another, which is where what was saved could be mixed up. The
  programs have as many addresses as are needed to tell "next" from "same".
* Two PAM registers, the first, which routes one area, and one that routes two; closed, writes only, and reads and
  writes; the segment that is followed belongs to the first.
* A memory of three pages of twelve bytes has words that lie on two pages, copies that run into a page
  that is absent, and one eviction between a fault and its repetition.
* `Eot = 2`, `Cylinders = 2`: the end of a track, of a cylinder and of the disk. `AllSectors = 3` with blocks of
  2: a block, and a rest shorter than a block; `PerBlock * 3 < Wrap = 10`, so that a count below zero is
  told from one that is not. A limit of 3 words is one and a half sectors.
* `MCStorage` keeps the guest of the `storage` run to four habits, because the states it would add repeat others:
  it leaves the 8237 alone while it gives a floppy command or reads the results, and completes a count before it
  gives one (`Between`: no command looks at the flip-flop); it sets a block size for the disk only; and a CD is
  mounted only beside the disk (`DisksFirst`). Either image can still be removed in the middle of a transfer.
* The command bytes in the `MC` modules have one representative of each branch of a handler.

The proofs of section 4 are for every value of these constants.

### Fairness

* `Pic8259`: `CCPU::step` polls INTR before each instruction while interrupts are on; handlers end with
  an end of interrupt; an initialisation that was begun is completed and followed by a mask. Weak
  fairness on each, nothing on devices.
* `KbcRing`: the window thread finishes a `key_hit`; the clock thread runs the guest, which polls.
* `Timer8253`, `VtRing`, `Rtc`, `Power`, `Floppy`: `run_clock` calls `do_8253`, `do_vt`, `do_cmos_rtc`,
  `do_smi`, `do_floppy` for ever (`sys/clock.cpp:22-57`). Nothing is assumed of the window. In `Power` the
  processor takes the pin when it may, the handler goes on to its RSM, and some interrupt ends a HLT with
  IF = 1 (an assumption about the guest: an SMI does not, `cpu-simu/run.cpp:47-77`).
* `Ide`: the same of `do_atapi`, and the driver moves its words and looks when it is interrupted.
* `LocalApic`: `CCPU::step` asks `int_pending` between instructions while interrupts are on, and handlers
  end with an EOI. Weak fairness on both, nothing on devices.
* `PicThreads`: both threads finish what they began; the timer ticks on; interrupts are taken and
  retired. Strong fairness, because the other thread may disable these steps now and then.
* `KeyboardPath`: the clock thread runs the driver; a tick of the timer takes at least 256 steps
  (`sys/clock.cpp:32`), so the timer's higher priority does not shut out the keyboard for ever: strong
  fairness of taking the keyboard's interrupt. That somebody types on is an assumption of `FrontIsRead`,
  and `path_eoi` shows why it is needed.
* `CpuStep`: the clock thread goes on stepping; no instruction faults for ever and a handler comes to its
  end, over whatever it was called: strong fairness, since interrupts may come in between.
* `Restart`: the processor executes, and the system software answers each fault.

## 4. Proofs

Every theorem is proved for all values of the constants under the assumption its module states of them
(`PicAssumption`, `RingAssumption`, `VtAssumption`, ...): that numbers are numbers, rings have at least two
slots, bytes are bytes. Some say more. `X87Assumption` asks that every number but 0 divides, as in a field.
`IdeAssumption` asks that a CD transfer's count fits the counter and that there is a largest byte count;
`FloppyAssumption` that a sector number has room for one more than the last sector of a track. `SetupsAssumption` says
that SP, SI and DI hold addresses to begin with. All hold of the code's values. `TransferAssumption` is about the guest's IDT: a gate of the kernel's segment names it
with RPL 0, and one with an error code serves #GP; DPL, width and redirection are free.

| module | theorem | states |
|---|---|---|
| `Interrupts_proofs` | `TypeCorrect` | types of the 8259 pair |
| | `RequestsAreNotForgotten` | `Spec => []NoForgottenRequest` |
| | `IntrIsNotPhantom` | `Spec => []NoPhantomIntr` |
| | `AcknowledgeIsHighest`, `RequestsSurvive` | the action properties `AcknowledgesHighest`, `RequestSurvives` |
| | `BridgeTypes`, `BridgeIsRight` | types of the bridge; `B!Spec => BridgeRight` |
| | `TransferIsSafe`, `LevelsAlwaysAgree` | `T!Spec => []TransferInv`, the chain of waiting programs; `T!Spec => []LevelsAgree` |
| | `ReturnsAreExact` | the action property `ReturnsExact` |
| `Kbc8042_proofs` | `TypeCorrect`, `DataIsAnnounced` | types; `Spec => []DataAnnounced` |
| | `RingImplementsBuffer` | refinement: `Spec => RingIsBuffer`, a ring of any size is the bounded buffer |
| | `GatesMoveA20`, `FrontInterruptsGuest` | `A20FollowsGates`, `NewFrontInterrupts` |
| `RingAndApic_proofs` | `TypeCorrect`, `CacheIsFresh`, `RequestsAreNotForgotten` | `LocalApic`: types, `CacheFresh`, `RequestNotForgotten` |
| | `PriorityIsHonoured`, `RequestsEndProperly` | `PriorityHonoured`, `RequestEnds` |
| | `KeyRingTypes`, `KeysInOrder`, `NoKeyLost` | `KbcRing`: types, `KeysNeverReplayed`, `NothingLost` |
| `Threads_proofs` | `CommandRingTypes`, `CommandRingIsQueue` | `VtRing`: types; refinement `RingIsQueue` |
| | `PicThreadsTypes`, `FreshIntRepairs` | `PicThreads`: types; `AgreesUnlessMixed` |
| | `RequestsHaveBytes` | `KeyboardPath`: `K!Spec => []RequestsMatchBytes` |
| `Timer8253_proofs` | `TypeCorrect`, `NoInterruptStorm`, `CountsEveryPulse` | types, `NoStorm`, `PeriodKept` |
| | `InterruptEndsPeriod` | while nobody writes counter 0, IRQ0 in the pulse that ends a full period and in no other |
| `Storage_proofs` | `StorageInvariant` | both inductive invariants, for the two controllers together |
| | `StorageAccounts`, `StorageTransfers` | `PartsSpec => []AccountsAgree`, `PartsSpec => TransfersRight` |
| `Processor_proofs` | `TypeCorrect`, `ProgramOrder` | `CpuStep`: types, `ProgramInOrder` |
| | `BuffersAgree` | `T!Spec => []TranslationsRight` |
| | `StackIsRight` | `X!Spec => []StackIsStack` |
| | `SingleRestarts` | `Redo!Spec => [](insn \in Single => Redo!Restartable)`, for the nine instructions nothing repeats |

The inductive invariants, and why the property alone is not inductive:

* **8259**: types with both halves of "INTR tells whether an unmasked request is pending". The acknowledge
  keeps one half only because the level it selects goes into service; the other needs the first to
  know what `fresh_int` computes. Lemmas: what `FreshInt` leaves behind, what `Highest` selects.
* **Host bridge** (`BridgeInv`): the routings agree; a register that nobody writes is blank; a lock is never
  without its two effects, the read-only register and the closed memory. Without the last one a write
  of a locked register could not be shown harmless.
* **Control transfer** (`TransferInv`): types; what a data selector may be (`Segments`); and `Chain`. The programs
  that wait for a return, outermost first, and the one that runs, form a row in which the level never
  moves outward and two on the same stack lie one above the other. Between neighbours there is a
  `Link`: either the group of words that leads back is right above the earlier one's stack pointer and
  only error codes and parameters stand over it, or the later one has entered the kernel from another
  level, and the group with what leads back to the other stack is near the bottom of the kernel's. Neither property is
  inductive: an IRET sets level, selector and stack from words that were pushed many steps ago, under
  others pushed and removed since. That two programs cannot both wait at a crossing is not assumed but
  follows, because past the first all are in the kernel. `DispatchUser` and `DispatchV86`
  make a frame that no interrupt pushed and forget who was waiting; a program started so may use the
  stack it finds only because no address of a return stands there (`OutsideIsPlain`). A handler that was entered short of its error code waits with the others, and its
  return is the one that leaves no claim. TLC checked the invariant for two nested returns before it was proved.
* **8042**: types with `DataAnnounced`. For the refinement, `Rings_proofs` shows once, for any size, what a
  ring between two indices holds after something is put at the back or at the front, or taken; each
  handler is then a step of the buffer or a stutter, and a handler that resets is a clearing.
* **8042's ring between two threads** (`KeyInv`): types; before any of the named windows is hit, keys are in
  turn, and what is about to be stored is newer than all that is held (`InTurn`); without responses and
  clears, what was read followed by what is held is what was accepted (`Kept`), stated at every program
  point of `key_hit` and of a read.
* **Command ring** (`VtInv`): head is past the end only between its two stores; the window's command is a
  command; until the torn window was seen, what each thread concluded from the indices still holds
  (`Sound`): not full for the one that stores, not empty for the one that takes.
* **8259 between two threads** (`PicInv`): a thread inside `fresh_int` that nobody has disturbed knows the
  registers it has read; only one is undisturbed; who is about to store irr has read it for a purpose.
* **Path of a key** (`PathInv`): what the boot code has written so far to both chips; no request of the
  keyboard before its interrupt is enabled; a byte wherever a request is not yet in service, and INTR with
  it; the handler that reads port 60h is the one level in service. The EOI's clearing of a request (8259)
  and the assertion by the read of the byte before it (8042) meet only in this invariant.
* **8253**: types, both properties and `RunsAreWords`: count and pulses elapsed fit a word together, without
  which the pulses counted between two loads would not stay one.
* **Local APIC**: types, `CacheFresh`, `RequestNotForgotten`. After an acceptance the vector in service must
  not be 0, and that follows only because the cached vector exceeded the task priority (`IntPending`)
  and is the one taken (`CacheFresh`). `SelectedInSet` shows that the search of a non-empty register ends
  at a set bit; it ranks vectors by the order of the search.
* **Floppy** (`FloppyInv`): types, phase and counts, and two facts the guest cannot see: which stale bytes of a
  command are left by a reset in the middle (`CommandKnown`), and when a terminal count is left standing
  (`StaleKnown`). The proof found that a sector number leaves its track when the drive is changed in the
  middle of a transfer; the model now counts it as the code's char does. `NextIsConsecutive` shows by
  arithmetic that head, cylinder and sector carry as one number.
* **IDE** (`IdeInv`): the pointer stays in the buffer (`PointerInside`), a waiting driver has moved its block,
  data goes to the drive it was asked of unless a mount came between, `OwedRight`, and for reads the
  relation that carries the announcement: the words the driver has still to move in its block are those
  up to the controller's next interrupt, a smaller of two counters times the words of a sector minus
  the pointer (`DiskBlock`, `CdBlock`). The CD's counter wraps below zero; that a driver whom
  no mount disturbs and whose limit is whole sectors does not get there is part of it (`Exact`). `SectorsFit`
  bounds what the rounding makes of any limit.
* **Processor step**: types; every frame, on the stack, in the SMM save area or due, is one that the program
  could have been left at; while the program runs, its next instruction is the one in order.
* **Translation buffers** (`BuffersRight`): besides agreement with the tables, an address that kept its page
  size has one copy at most, so that INVLPG, which removes the first match only, removes it.
* **Restarted instructions** (`SingleInv`): that the machine is `Unharmed` as long as the instruction is not done:
  registers, flags and ports are those it began with, and memory too but for the byte that a store across two
  pages may have left, which is one the instruction writes again (`Targets`). Each instruction is
  compared access by access with itself where every page is present (`Outcome`): it is stopped with the
  machine unharmed, or what it read and wrote is what it would have.
* **FPU** (`FpuInv`): the registers from TOP on hold the manual's stack, where it has something, and the
  condition codes its last comparison, until a result the code gets wrong was seen.

Only model-checked:

* every liveness property (`TimerTaken`, `CausesServed`, `AlarmRings`, `EveryKeyRead`, `RequestResurfaces`,
  `CommandsCarriedOut`, `StrandedRequestHeals`, `FrontIsRead`, `TransfersEnd`, `Completes`, `SmiServed`): the prover
  has no rule for fairness and ENABLED;
* `ProgramsRight`, and `Restartable` for the repeated string instructions: what a loop over bits, digits or the
  count in CX computes needs induction over data. For the other instructions it speaks of,
  `Restartable` is `SingleRestarts`.

No module contains a recursive operator.

## 5. Where code and comment, or code and hardware, part

Made into runs: the six violations of section 3. Met while modelling, and modelled as the code does it:

**Interrupt controllers and timer.** `sys/8259.cpp:24` stands there twice for the master and never for the
slave. `sys/8259.cpp:39`: ICW1 clears irr and isr without `fresh_int` (`stale`). `sys/8259.cpp:58-60`: ICW3 is
expected when SNGL is set. `sys/8259.cpp:157-160`: the comment says that the acknowledge resets the
request; the line that would is commented out, and the end of interrupt does it. `RequestSurvives` takes no side.
`sys/apic.cpp:229` says "clear isr" and clears the request bit. `sys/apic.cpp:325-329`: both branches of the
LINT0 mask do the same. `sys/apic.cpp:450-468`: the same message for a pin that rises and one that falls.
`sys/8253.cpp:156` replaces 0 by 0xffff after each half, so LSB 0 over MSB 0 and then MSB m loads m*256+255,
against `sys/include/8253.h:36`. `sys/8253.cpp:51-62` (comments in code that is switched off) have a mode 2 or 3
counter finish its period before a new value counts; `write_timer` loads it at once, so a write in mid-period
cuts the period short. `PeriodKept` speaks of no period that a write cut.

**8042 and A20.** `sys/8042.cpp:366-371`: identify answers without an acknowledge. `sys/8042.cpp:305-310`: "BAT
passed" sets the system flag and the reset that follows clears it. `sys/a20.cpp:57-63`: A20 is open from
program start, with both gates 0, until the first `a20_sync`.

**Control transfer.** A hardware interrupt is delivered as INTn = 1, so a gate of DPL 0 refuses it from ring
3, and in V86 mode it uses the redirection bitmap (`exception-int.cpp:6-9` against `run.cpp:216-236`). CLI
and STI need no privilege. Trap gates clear IF, task gates are refused. A 16-bit gate to an inner level
pushes the address of the instruction itself. IRET to an outer level compares the new CPL with IOPL;
in V86 mode with IOPL < 3 it does nothing. PUSH and POP store and load with supervisor rights at every
level (`stack.cpp:323,345,392,414`). A segment whose selector was cleared stays usable through its hidden
descriptor, and a return to V86 mode loads selectors only, so that the program goes on with the handler's
segments (`iret.cpp:138-141`). A far call to a conforming segment pushes no return address.
RETF to an outer level reads ESP inside `assert()`. `switch_task` writes the link into the old TSS and never
sets NT, busy or CR0.TS.

**Processor step.** An SMI is not looked at while halted with IF = 1 (`run.cpp:69`); one taken in HLT's own
step leaves halt set in SMM. `jmp $` is ended by the first interrupt. An exception during delivery is
dropped. Single step works only with IF = 0; STI has no shadow. Entering and leaving SMM drops INTR.

**Memory.** A TLB hit checks the last level's rights only and sets no dirty bit; INVLPG removes the first
match only; CR0.WP is not implemented; the A20 mask applies only while paging is on. INS reads the port
before it checks memory; POP m moves SP first; a read-modify-write across two pages is applied twice when
the second faults; RET imm releases parameters though the pop failed.

**Arithmetic.** SUB sets OF whenever its second operand is the most negative; NEG sets no AF; SHLD and SHRD
do not store CF; multiplication sets neither CF nor OF; IDIV of 16 bits divides by a char and does not look
for zero; DIV cuts an overflow; DAA loses a carry. FPATAN's result is lost, FCMOVcc pushes, FNSTCW returns
the status word, FTST sets C0 for greater, FYL2X takes the natural logarithm; stores pop before they
write.

**Storage.** READ and WRITE SECTORS are in the table as not implemented; the last sector of a write
interrupts even with nIEN; enabling the interrupt always requests one; READ NATIVE MAX selects drive 0;
a mount selects its drive in the middle of a transfer; READ(10) of zero blocks wraps its count.
A byte count limit that is no multiple of 512 (FFFEh is common) is rounded up to sectors (`atapi.cpp:171`,
`ide-io.cpp:409`) while the guest is told the limit itself: it moves less than a block per interrupt, falls
out of step with the blocks, and at the end may go on reading, until the count wraps. The model has such
limits; odd ones and FFFFh, which the code takes for 8000h, are left out. A stale
terminal count ends a floppy transfer after one sector; a masked channel makes `do_floppy` spin; a DOR
write in the middle of a command leaves its bytes; auto-initialisation of the 8237 is ignored and a master
clear resets both controllers.

**Chipset.** `sys/apm.cpp:43` tests 0e1h in both branches. `sys/acpi82801.cpp:181`: the comment and the bit of
the carry differ, and the field tested there lies at 38h instead of 30h. A write to a status register clears the whole byte; the TCO count wraps. `reset()` never
leaves SMM. RTC: 00 is never shown, an alarm at :00 never rings, the hour advances in every second of
minute 59; the periodic rates are shifted by one; IRQ8 is never deasserted. Only the first register of a
wide configuration write gets its callback; a reset leaves the PAM and SMRAM registers; PCI memory BARs
transfer nothing.

## 6. Not modelled, and what is next

Next, in this order:

1. The IMCR of `sys/irq-wire.cpp`: pins that go to both fabrics, INTR on LINT0, the APIC's EOI that retires
   levels of the 8259 as well.
2. The snapshot (`sys/system.cpp:239-314`): the 8042 and port 92h are not saved, so that a load leaves the
   guest's view of them behind.
3. The processor's registers under a reset from the window thread; hidden descriptors of data segments.
4. Programming interfaces: super I/O configuration, the task switch as a whole.

Parts of what is modelled that are left out: the I/O permission check of INS and OUTS (`string.cpp:477-485`,
`518-526`), ENTER with a nesting level above 0, the IDE commands `idle` and `config_set`, tears inside one call
while an image is mounted (a mount is one step), returns of handlers that miss their error code, and
processors other than the first.

Left out for good: SSE (the same on vectors of numbers, without control), USB (register stubs), tables
(decoder, PCI identification), drawing, logging and debug dumps, generators, the run-time library, and
sources no project file compiles.
