-------------------------------- MODULE Boot --------------------------------
(***************************************************************************)
(* The start of the kernel (main.c) with the interrupt hardware it sets up *)
(* on the way: the IDT (idt.c), the ACPI tables and the MADT (acpi.c,      *)
(* madt.c), the local APIC and the PIC (lapic.c), the IO APIC (ioapic.c),  *)
(* the calibration of the timer (timer.c) and the real time clock (rtc.c). *)
(*                                                                         *)
(* kernel_start is one process; after its sti the keyboard, the PIT and    *)
(* the APIC timer interrupt it between any two steps.  A handler runs with *)
(* interrupts disabled and ends with an EOI, so it is one step.  The parts *)
(* that other modules model in detail (memory, heap, files, tasks) appear  *)
(* here as members of ready.  A board is what the firmware and the boot    *)
(* loader hand over: a module is [magic, exec], the kind its first bytes   *)
(* give it away as, and what a tar archive has under the name of the       *)
(* program ("elf", "other", or "none" for no such file).                   *)
(*                                                                         *)
(* A fault and an unexpected vector end in hlt with interrupts disabled:   *)
(* pc = "halted".                                                          *)
(***************************************************************************)
EXTENDS Integers, Sequences, FiniteSets, FiniteSetsExt

CONSTANTS Boards,
          CALIBRATION_MS_TO_WAIT,
          PitPeriod,        \* steps of time between two PIT interrupts
          ApicMax,          \* (uint32_t)-1: where the APIC counter ends
          RtcBase,          \* the values of one register of the clock
          IO_APIC_SOURCE_OVERRIDE_MAX_ITEMS,
          MaxKeys           \* bound: keys pressed and spurious interrupts

ASSUME BootAssumption ==
  /\ CALIBRATION_MS_TO_WAIT \in Nat \ {0} /\ PitPeriod \in Nat \ {0}
  /\ ApicMax \in Nat /\ ApicMax > CALIBRATION_MS_TO_WAIT * PitPeriod
  /\ RtcBase \in Nat \ {0, 1} /\ MaxKeys \in Nat
  /\ IO_APIC_SOURCE_OVERRIDE_MAX_ITEMS \in Nat \ {0}

APIC_TIMER_INTERRUPT == 32
KEYBOARD_INTERRUPT == 33
PIT_INTERRUPT == 34
SYSCALL_VECTOR_NUMBER == 128
APIC_SPURIOUS_INTERRUPT == 255
KEYBOARD_IRQ == 1
PIT_IRQ == 2                \* the code's number for the PIT
Pins == 0..3

\* What the firmware and the boot loader may hand over.
Items == [type : STRING, irq : Nat, gsi : Pins]
SdtTables == [signature : STRING, items : Seq(Items)]
ASSUME BoardAssumption ==
  \A b \in Boards :
    /\ b.apic \in {"none", "x", "x2"} /\ {b.enabled, b.pic} \subseteq BOOLEAN
    /\ b.tables \in Seq(SdtTables) /\ b.wiring \in Seq(Items)
    /\ b.modules \in Seq([magic : STRING, exec : STRING])

VARIABLES board, pc, ready,
          iflag,            \* the interrupt flag
          idt,              \* the vectors with a present gate
          sdt,              \* the tables below rsdt_root or xsdt_root
          elf_module,       \* a number of a boot module, 0 for NULL
          tar_module,
          elf_start,        \* the program found in the archive, "none" for NULL
          lapic,            \* "unknown", "none", "disabled", "on"
          picLive,          \* the PIC delivers interrupts
          ioapic,           \* io_apic_hh_base_address is set
          overrides,        \* io_apic_source_overrides
          redtbl,           \* [Pins -> [vector, masked]]
          irr,              \* the vectors the local APIC has pending
          keys,             \* events of the bound still to come
          full,             \* a scancode waits in the keyboard controller
          phase, pitTicks, elapsed, timer_ticks_base,
          early,            \* PIT interrupts that came before the APIC counter started
          timerOn,          \* the APIC timer is periodic and unmasked
          time, uip,        \* the clock: its two registers, update flag
          regs, last, got,  \* read_rtc_time: registers read, next to read
          truth,            \* the time when the reading of the registers began
          late, window,     \* an interrupt came since; the flag was clear then
          stale             \* the clock ticked since the last step

timing == <<phase, pitTicks, elapsed, timer_ticks_base, early, timerOn>>
reading == <<regs, last, got, truth, late, window>>
modules == <<elf_module, tar_module, elf_start>>
rtc == <<time, uip, reading, stale>>
chips == <<lapic, picLive, ioapic, overrides, redtbl>>
kbd == <<keys, full>>
vars == <<board, pc, ready, iflag, idt, sdt, modules, chips, irr, kbd, timing, rtc>>

-----------------------------------------------------------------------------
(* ACPI tables                                                             *)

NoTable == [signature |-> "none", items |-> <<>>]

\* parse_SDT: the root table of the version the boot loader passed; its
\* checksum is computed and not used.
parse_SDT(b) == IF b.rsdp \in {"RSDT_V1", "RSDT_V2"} THEN b.tables ELSE <<>>

get_SDT_item(name) ==
  LET hits == {i \in DOMAIN sdt : sdt[i].signature = name}
  IN  IF hits = {} THEN NoTable ELSE sdt[Min(hits)]

OfType(table, type) == {i \in DOMAIN table.items : table.items[i].type = type}

\* The item of the type with that number, counted from 0: <<>> for NULL.
get_MADT_item(table, type, offset) ==
  LET hits == {i \in OfType(table, type) :
                 Cardinality({j \in OfType(table, type) : j < i}) = offset}
  IN  IF hits = {} THEN <<>> ELSE <<table.items[Min(hits)]>>

\* One override after the other, as many as there are and the array holds.
parse_io_apic_interrupt_source_overrides(table) ==
  LET size == Min({Cardinality(OfType(table, "OVERRIDE")), IO_APIC_SOURCE_OVERRIDE_MAX_ITEMS})
  IN  [n \in 1..size |-> get_MADT_item(table, "OVERRIDE", n - 1)[1]]

-----------------------------------------------------------------------------
(* kernel_start                                                            *)

Init ==
  /\ board \in Boards
  /\ pc = "early" /\ ready = {} /\ iflag = FALSE /\ idt = {} /\ sdt = <<>>
  /\ elf_module = 0 /\ tar_module = 0 /\ elf_start = "none"
  /\ lapic = "unknown" /\ picLive = board.pic /\ ioapic = FALSE /\ overrides = <<>>
  /\ redtbl = [p \in Pins |-> [vector |-> 0, masked |-> TRUE]]
  /\ irr = {} /\ keys = MaxKeys /\ full = FALSE
  /\ phase = 0 /\ pitTicks = 0 /\ elapsed = 0 /\ timer_ticks_base = 0
  /\ early = 0 /\ timerOn = FALSE
  /\ time \in 0..(RtcBase * RtcBase - 1) /\ uip = FALSE
  /\ regs = <<0, 0>> /\ last = <<0, 0>> /\ got = 0
  /\ truth = <<0, 0>> /\ late = FALSE /\ window = TRUE /\ stale = FALSE

Halt == pc' = "halted" /\ iflag' = FALSE
\* It only describes the fault; nothing is mapped at NULL.
page_fault_handler == Halt
Step(from, to) == pc = from /\ pc' = to /\ stale' = FALSE

init_idt ==
  /\ Step("early", "basic")
  /\ idt' = (0..18) \cup {APIC_TIMER_INTERRUPT, KEYBOARD_INTERRUPT, PIT_INTERRUPT, APIC_SPURIOUS_INTERRUPT}
  /\ UNCHANGED <<board, ready, iflag, sdt, modules, chips, irr, kbd, timing, time, uip, reading>>

\* The first bytes tell an ELF file, the ustar id a tar archive.
_is_module_elf_hh(loaded_module) == loaded_module.magic = "elf"
_is_module_tar_hh(loaded_module) == loaded_module.magic = "ustar"

\* Of several modules of a kind the last one stays.
_init_basic_system ==
  /\ Step("basic", "syscalls")
  /\ sdt' = parse_SDT(board)
  /\ elf_module' = Max({0} \cup {i \in DOMAIN board.modules : _is_module_elf_hh(board.modules[i])})
  /\ tar_module' = Max({0} \cup {i \in DOMAIN board.modules : _is_module_tar_hh(board.modules[i])})
  /\ ready' = ready \cup {"memory", "framebuffer"}
  /\ UNCHANGED <<board, iflag, idt, elf_start, chips, irr, kbd, timing, time, uip, reading>>

\* _syscalls_init and initialize_kheap.
_syscalls_init ==
  /\ Step("syscalls", "apic")
  /\ idt' = idt \cup {SYSCALL_VECTOR_NUMBER}
  /\ ready' = ready \cup {"heap"}
  /\ UNCHANGED <<board, iflag, sdt, modules, chips, irr, kbd, timing, time, uip, reading>>

disable_pic == picLive' = FALSE

\* Without an APIC, or with one that is disabled, it returns before
\* disable_pic; turning on the x2 mode of a disabled one faults.
mut_init_apic_keeps_pic ==
  /\ pc = "apic" /\ stale' = FALSE
  /\ pc' = "madt" /\ lapic' = "on"
  /\ UNCHANGED <<board, ready, iflag, idt, sdt, modules, picLive, ioapic, overrides, redtbl, irr, kbd, timing,
                 time, uip, reading>>
init_apic ==
  /\ pc = "apic" /\ stale' = FALSE
  /\ \/ /\ board.apic = "x2" /\ ~board.enabled
        /\ Halt /\ UNCHANGED <<lapic, picLive>>
     \/ /\ board.apic = "none" \/ (board.apic = "x" /\ ~board.enabled)
        /\ pc' = "madt" /\ lapic' = IF board.apic = "none" THEN "none" ELSE "disabled"
        /\ UNCHANGED <<picLive, iflag>>
     \/ /\ board.apic # "none" /\ board.enabled
        /\ pc' = "madt" /\ lapic' = "on" /\ disable_pic /\ UNCHANGED iflag
  /\ UNCHANGED <<board, ready, idt, sdt, modules, ioapic, overrides, redtbl, irr, kbd, timing,
                 time, uip, reading>>

\* A missing MADT is read through a null pointer, and so is the first source
\* override of a MADT that has none.
init_ioapic ==
  /\ pc = "madt" /\ stale' = FALSE
  /\ LET madt  == get_SDT_item("APIC")
         found == get_MADT_item(madt, "IO_APIC", 0) # <<>>
         over  == parse_io_apic_interrupt_source_overrides(madt)
     IN  \/ /\ madt = NoTable \/ (found /\ over = <<>>)
            /\ page_fault_handler /\ UNCHANGED <<ioapic, overrides>>
         \/ /\ madt # NoTable /\ ~(found /\ over = <<>>)
            /\ pc' = "keyboard" /\ ioapic' = found
            /\ overrides' = IF found THEN over ELSE <<>>
            /\ UNCHANGED iflag
  /\ UNCHANGED <<board, ready, idt, sdt, modules, lapic, picLive, redtbl, irr, kbd, timing,
                 time, uip, reading>>

init_keyboard ==
  /\ Step("keyboard", "irqs")
  /\ full' = FALSE /\ ready' = ready \cup {"keyboard"}
  /\ UNCHANGED <<board, iflag, idt, sdt, modules, chips, irr, keys, timing, time, uip, reading>>

\* The entry of the table is the one the caller names; the pin of a source
\* override is looked up and not used.
set_irq(table, redirect_table_pos, idt_entry, masked) ==
  [table EXCEPT ![redirect_table_pos] = [vector |-> idt_entry, masked |-> masked]]
set_irq_mask(table, redirect_table_pos, masked) ==
  [table EXCEPT ![redirect_table_pos].masked = masked]

SetIrqs ==
  /\ pc = "irqs" /\ stale' = FALSE
  /\ \/ ~ioapic /\ page_fault_handler /\ UNCHANGED redtbl
     \/ /\ ioapic /\ pc' = "tss" /\ UNCHANGED iflag
        /\ redtbl' = set_irq(set_irq(redtbl, KEYBOARD_IRQ, KEYBOARD_INTERRUPT, FALSE),
                             PIT_IRQ, PIT_INTERRUPT, TRUE)
  /\ UNCHANGED <<board, ready, idt, sdt, modules, lapic, picLive, ioapic, overrides, irr, kbd, timing,
                 time, uip, reading>>

initialize_tss ==
  /\ Step("tss", "calibrate")
  /\ ready' = ready \cup {"tss"} /\ iflag' = TRUE
  /\ UNCHANGED <<board, idt, sdt, modules, chips, irr, kbd, timing, time, uip, reading>>

\* calibrate_apic up to the unmasking of the PIT's pin, at any point of the
\* PIT's period.
calibrate_apic ==
  /\ pc = "calibrate" /\ stale' = FALSE
  /\ \/ lapic = "none" /\ page_fault_handler /\ UNCHANGED <<pitTicks, redtbl, phase>>
     \/ /\ lapic # "none" /\ pc' = "unmasked"
        /\ pitTicks' = 0 /\ phase' \in 0..(PitPeriod - 1)
        /\ redtbl' = set_irq_mask(redtbl, PIT_IRQ, FALSE)
        /\ UNCHANGED iflag
  /\ UNCHANGED <<board, ready, idt, sdt, modules, lapic, picLive, ioapic, overrides, irr, kbd,
                 elapsed, timer_ticks_base, early, timerOn, time, uip, reading>>

\* Interrupts are on: the PIT may have interrupted before the APIC counter
\* starts, or is about to.
StartCounter ==
  /\ Step("unmasked", "calibrating")
  /\ elapsed' = 0
  /\ early' = IF PIT_INTERRUPT \in irr THEN pitTicks + 1 ELSE pitTicks
  /\ UNCHANGED <<board, ready, iflag, idt, sdt, modules, chips, irr, kbd, phase, pitTicks,
                 timer_ticks_base, timerOn, time, uip, reading>>

mut_calibrated_stops_early ==
  /\ pc = "calibrating" /\ pitTicks >= CALIBRATION_MS_TO_WAIT - 1
  /\ pc' = "rtc_wait" /\ stale' = FALSE
  /\ timer_ticks_base' = elapsed \div CALIBRATION_MS_TO_WAIT
  /\ redtbl' = set_irq_mask(redtbl, PIT_IRQ, TRUE)
  /\ ready' = ready \cup {"vfs"}
  /\ phase' = 0 /\ elapsed' = 0 /\ early' = 0
  /\ UNCHANGED <<board, iflag, idt, sdt, modules, lapic, picLive, ioapic, overrides, irr, kbd,
                 pitTicks, timerOn, time, uip, reading>>
\* The loop ends: the counter is read and stopped and the pin is masked, so
\* the phase of the PIT is not seen again; then vfs_init.
Calibrated ==
  /\ pc = "calibrating" /\ pitTicks >= CALIBRATION_MS_TO_WAIT
  /\ pc' = "rtc_wait" /\ stale' = FALSE
  /\ timer_ticks_base' = elapsed \div CALIBRATION_MS_TO_WAIT
  /\ redtbl' = set_irq_mask(redtbl, PIT_IRQ, TRUE)
  /\ ready' = ready \cup {"vfs"}
  /\ phase' = 0 /\ elapsed' = 0 /\ early' = 0
  /\ UNCHANGED <<board, iflag, idt, sdt, modules, lapic, picLive, ioapic, overrides, irr, kbd,
                 pitTicks, timerOn, time, uip, reading>>

\* Two registers, seconds first, stand for the six of the clock.
Registers == <<time % RtcBase, time \div RtcBase>>

mut_wait_ignores_update ==
  /\ pc \in {"rtc_wait", "rtc_again"} /\ stale' = FALSE
  /\ pc' = IF pc = "rtc_wait" THEN "rtc_read" ELSE "rtc_reread"
  /\ last' = regs /\ got' = 0 /\ truth' = Registers /\ late' = FALSE /\ window' = ~uip
  /\ UNCHANGED <<board, ready, iflag, idt, sdt, modules, chips, irr, kbd, timing, time, uip, regs>>
\* while (is_rtc_updating()): the flag is clear, the registers are read next.
is_rtc_updating ==
  /\ pc \in {"rtc_wait", "rtc_again"} /\ ~uip /\ stale' = FALSE
  /\ pc' = IF pc = "rtc_wait" THEN "rtc_read" ELSE "rtc_reread"
  /\ last' = regs /\ got' = 0 /\ truth' = Registers /\ late' = FALSE /\ window' = ~uip
  /\ UNCHANGED <<board, ready, iflag, idt, sdt, modules, chips, irr, kbd, timing, time, uip, regs>>

read_rtc_register ==
  /\ pc \in {"rtc_read", "rtc_reread"} /\ got < 2 /\ stale' = FALSE
  /\ regs' = [regs EXCEPT ![got + 1] = Registers[got + 1]] /\ got' = got + 1
  /\ UNCHANGED <<board, pc, ready, iflag, idt, sdt, modules, chips, irr, kbd, timing, time, uip, last, truth, late, window>>

\* The first reading always starts the loop; the loop goes on while two
\* readings are the same.
read_rtc_time ==
  /\ pc \in {"rtc_read", "rtc_reread"} /\ got = 2 /\ stale' = FALSE
  /\ pc' = IF pc = "rtc_read" \/ last = regs THEN "rtc_again" ELSE "seek"
  /\ UNCHANGED <<board, ready, iflag, idt, sdt, modules, chips, irr, kbd, timing, time, uip, reading>>

\* The program of the archive, whose magic number is only logged.
FindExecutable ==
  /\ Step("seek", "ps2")
  /\ elf_start' = IF tar_module = 0 THEN "none" ELSE board.modules[tar_module].exec
  /\ UNCHANGED <<board, ready, iflag, idt, sdt, elf_module, tar_module, chips, irr, kbd, timing,
                 time, uip, reading>>

\* Then each part in its order: the keyboard driver, the test of the VMM, the
\* scheduler and the idle task.
Parts == <<"ps2", "vmm", "scheduler", "idle", "elf">>
KernelParts ==
  /\ \E i \in 1..(Len(Parts) - 1) : Step(Parts[i], Parts[i + 1])
  /\ ready' = ready \cup {pc}
  /\ UNCHANGED <<board, iflag, idt, sdt, modules, chips, irr, kbd, timing, time, uip, reading>>

\* The program of the task: the one of the archive, the ELF module, or what
\* lies at physical address 0.
Program ==
  CASE elf_start # "none"                   -> elf_start
    [] elf_start = "none" /\ elf_module # 0 -> "elf"
    [] elf_start = "none" /\ elf_module = 0 -> "memory"

\* Program headers that are none lead anywhere.
CreateElfTask ==
  /\ pc = "elf" /\ stale' = FALSE
  /\ \/ pc' = "files" /\ ready' = ready \cup {"elf"} /\ UNCHANGED iflag
     \/ Program # "elf" /\ page_fault_handler /\ UNCHANGED ready
  /\ UNCHANGED <<board, idt, sdt, modules, chips, irr, kbd, timing, time, uip, reading>>

\* ustar_driver_init, then README.md is opened: ustar_seek reads the archive.
ReadFile ==
  /\ pc = "files" /\ stale' = FALSE
  /\ \/ tar_module = 0 /\ page_fault_handler /\ UNCHANGED ready
     \/ tar_module # 0 /\ pc' = "timer" /\ ready' = ready \cup {"files"} /\ UNCHANGED iflag
  /\ UNCHANGED <<board, idt, sdt, modules, chips, irr, kbd, timing, time, uip, reading>>

start_apic_timer ==
  /\ Step("timer", "loop")
  /\ timerOn' = TRUE /\ iflag' = TRUE
  /\ UNCHANGED <<board, ready, idt, sdt, modules, chips, irr, kbd, phase, pitTicks, elapsed,
                 timer_ticks_base, early, time, uip, reading>>

-----------------------------------------------------------------------------
(* Interrupts and devices                                                  *)

pit_irq_handler(ticks) == Min({ticks + 1, CALIBRATION_MS_TO_WAIT})

\* interrupts_handler: the handler of the vector, then the EOI.
mut_pit_not_counted(v) ==
  /\ iflag /\ v \in irr /\ irr' = irr \ {v}
  /\ full' = IF v = KEYBOARD_INTERRUPT THEN FALSE ELSE full
  /\ UNCHANGED <<board, pc, iflag, ready, idt, sdt, modules, chips, keys, timing, rtc>>
interrupts_handler(v) ==
  /\ iflag /\ v \in irr /\ irr' = irr \ {v}
  /\ IF v \in idt \cap {APIC_TIMER_INTERRUPT, KEYBOARD_INTERRUPT, PIT_INTERRUPT, APIC_SPURIOUS_INTERRUPT}
     THEN UNCHANGED <<pc, iflag>> ELSE Halt
  /\ pitTicks' = IF v = PIT_INTERRUPT THEN pit_irq_handler(pitTicks) ELSE pitTicks
  /\ full' = IF v = KEYBOARD_INTERRUPT THEN FALSE ELSE full
  /\ late' = (late \/ pc \in {"rtc_read", "rtc_reread"})
  /\ UNCHANGED <<board, ready, idt, sdt, modules, chips, keys, phase, elapsed, timer_ticks_base, early, timerOn,
                 time, uip, regs, last, got, truth, window, stale>>

\* An edge on a pin: a masked pin forgets it.
Edge(pin) ==
  irr' = IF lapic = "on" /\ ~redtbl[pin].masked THEN irr \cup {redtbl[pin].vector} ELSE irr

\* Where the board wires an interrupt of the PC: a source override says so.
PinOf(b, irq) ==
  LET over == {i \in DOMAIN b.wiring : b.wiring[i].irq = irq}
  IN  IF over = {} THEN irq ELSE b.wiring[Min(over)].gsi

\* The controller raises its line when a scancode arrives in an empty buffer.
PressKey ==
  /\ keys > 0 /\ pc # "halted" /\ keys' = keys - 1 /\ full' = TRUE
  /\ IF full THEN UNCHANGED irr ELSE Edge(PinOf(board, KEYBOARD_IRQ))
  /\ UNCHANGED <<board, pc, ready, iflag, idt, sdt, modules, chips, timing, rtc>>

\* Time during the calibration: the PIT counts, and the APIC once it started.
PassTime ==
  /\ pc \in {"unmasked", "calibrating"}
  /\ phase' = (phase + 1) % PitPeriod
  /\ elapsed' = IF pc = "calibrating" THEN Min({elapsed + 1, ApicMax}) ELSE elapsed
  /\ IF phase' = 0 THEN Edge(PinOf(board, 0)) ELSE UNCHANGED irr
  /\ UNCHANGED <<board, pc, ready, iflag, idt, sdt, modules, chips, kbd, pitTicks,
                 timer_ticks_base, early, timerOn, rtc>>

ApicTimer ==
  /\ timerOn /\ pc # "halted" /\ irr' = irr \cup {APIC_TIMER_INTERRUPT}
  /\ UNCHANGED <<board, pc, ready, iflag, idt, sdt, modules, chips, kbd, timing, rtc>>

\* A line that drops again before it is served.
Spurious ==
  /\ lapic = "on" /\ pc # "halted" /\ irr' = irr \cup {APIC_SPURIOUS_INTERRUPT}
  /\ keys > 0 /\ keys' = keys - 1
  /\ UNCHANGED <<board, pc, ready, iflag, idt, sdt, modules, chips, full, timing, rtc>>

\* The PIC interrupts when nothing masked it.
PicInterrupt ==
  /\ iflag /\ picLive /\ Halt
  /\ UNCHANGED <<board, ready, idt, sdt, modules, chips, irr, kbd, timing, rtc>>

\* The clock announces an update, then ticks.  The flag is clear for long
\* enough to read the registers, unless an interrupt comes between; and the
\* clock does not announce the next one between two steps of the kernel.
Reading == pc \in {"rtc_read", "rtc_reread"}
RtcAnnounce ==
  /\ ~uip /\ ~stale /\ pc \in {"rtc_wait", "rtc_again", "rtc_read", "rtc_reread"} /\ uip' = TRUE
  /\ UNCHANGED <<board, pc, ready, iflag, idt, sdt, modules, chips, irr, kbd, timing, time, reading, stale>>
RtcUpdate ==
  /\ uip /\ (Reading => late \/ ~window)
  /\ pc \in {"rtc_wait", "rtc_again", "rtc_read", "rtc_reread"}
  /\ time' = (time + 1) % (RtcBase * RtcBase) /\ uip' = FALSE /\ stale' = TRUE
  /\ UNCHANGED <<board, pc, ready, iflag, idt, sdt, modules, chips, irr, kbd, timing, reading>>

Kernel ==
  \/ init_idt \/ _init_basic_system \/ _syscalls_init \/ init_apic \/ init_ioapic
  \/ init_keyboard \/ SetIrqs \/ initialize_tss \/ calibrate_apic \/ StartCounter \/ Calibrated
  \/ is_rtc_updating \/ read_rtc_register \/ read_rtc_time \/ FindExecutable \/ KernelParts
  \/ CreateElfTask \/ ReadFile \/ start_apic_timer

Serve == \E v \in irr : interrupts_handler(v)
Clock == RtcAnnounce \/ RtcUpdate

Next == Kernel \/ Serve \/ PressKey \/ PassTime \/ ApicTimer \/ Spurious \/ PicInterrupt \/ Clock

-----------------------------------------------------------------------------
(* Properties                                                              *)

\* The boards the code is written for: an enabled APIC, a (first) MADT with an
\* IO APIC and a source override, the keyboard on pin 1 and the PIT on pin 2, and
\* boot modules that hold the archive and a program: in the archive the file
\* is an ELF file, or it is missing there and a module is one.
Supported(b) ==
  LET tar   == Max({0} \cup {i \in DOMAIN b.modules : b.modules[i].magic = "ustar"})
      madts == {i \in DOMAIN b.tables : b.tables[i].signature = "APIC"}
  IN  /\ b.apic # "none" /\ b.enabled /\ b.rsdp \in {"RSDT_V1", "RSDT_V2"}
      /\ madts # {}
      /\ \A type \in {"IO_APIC", "OVERRIDE"} : OfType(b.tables[Min(madts)], type) # {}
      /\ PinOf(b, KEYBOARD_IRQ) = 1 /\ PinOf(b, 0) = PIT_IRQ
      /\ tar # 0
      /\ \/ b.modules[tar].exec = "elf"
         \/ b.modules[tar].exec = "none" /\ \E i \in DOMAIN b.modules : b.modules[i].magic = "elf"

\* On a supported board (the others may halt, and the run has one for each
\* reason) no interrupt after the sti of kernel_start, in whatever order they
\* come, ends in hlt (idt.c), and a program is found for the ELF task.  The
\* timer, whose handler calls schedule, is not pending before the scheduler
\* has its idle thread and every task of kernel_start exists.  Of the other
\* handlers only the vector is looked at: a key may well come before the
\* drivers of kernel_start's later lines are there.
InterruptsExpected ==
  Supported(board) =>
    /\ pc # "halted"
    /\ APIC_TIMER_INTERRUPT \in irr => {"scheduler", "idle", "elf", "heap", "tss"} \subseteq ready

\* calibrate_apic counts PIT interrupts that other interrupts delay and that
\* are lost while one is pending; both make the time base longer.  Those that
\* come between the unmasking of the PIT and the start of the APIC counter
\* make it shorter, each by a period: the base is never shorter than the
\* remaining whole periods give, and as short as that when they came.  A board
\* with the keyboard on the pin the code takes for the PIT counts keys as well.
CalibrationLongEnough ==
  [][pc = "calibrating" /\ pc' = "rtc_wait" /\ PinOf(board, KEYBOARD_IRQ) # PIT_IRQ =>
       timer_ticks_base' >=
         ((CALIBRATION_MS_TO_WAIT - 1 - early) * PitPeriod + 1) \div CALIBRATION_MS_TO_WAIT]_vars

\* read_rtc_time returns a time the clock showed, all registers of the same
\* second, when no interrupt came between its last reads: waiting for the
\* update flag is enough then, for the clock announces an update longer ahead
\* than an undisturbed reading takes (RtcUpdate).  With an interrupt between
\* them the registers may be of different seconds, and the loop, which goes on
\* while two readings agree, does not notice.
TimeIsReal ==
  (pc = "seek" /\ ~late) => regs = truth

\* A supported board reaches the loop at the end of kernel_start: the
\* calibration and the reading of the clock both end.
BootCompletes == Supported(board) ~> pc = "loop"

\* The kernel runs, a pending interrupt is served, time passes.
Fairness ==
  /\ WF_vars(Kernel) /\ WF_vars(PassTime) /\ WF_vars(RtcAnnounce) /\ WF_vars(RtcUpdate)
  /\ \A v \in {APIC_TIMER_INTERRUPT, KEYBOARD_INTERRUPT, PIT_INTERRUPT, APIC_SPURIOUS_INTERRUPT} :
       WF_vars(interrupts_handler(v))

Spec == Init /\ [][Next]_vars /\ Fairness
=============================================================================
