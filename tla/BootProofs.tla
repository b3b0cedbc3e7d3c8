----------------------------- MODULE BootProofs -----------------------------
(***************************************************************************)
(* Proofs about Boot, for any boards, any periods of the timers and any    *)
(* number of key presses: which interrupts can be pending when, how long   *)
(* the calibration waits, and that no board the code is written for ends   *)
(* in hlt.                                                                 *)
(***************************************************************************)
EXTENDS Boot, FiniteSetTheorems, NaturalsInduction, TLAPS

\* The order of kernel_start: the calibration is one stage and so is reading the
\* clock; halted is none.
Stage ==
  [halted |-> 0, early |-> 1, basic |-> 2, syscalls |-> 3, apic |-> 4, madt |-> 5,
   keyboard |-> 6, irqs |-> 7, tss |-> 8, calibrate |-> 9,
   unmasked |-> 10, calibrating |-> 10,
   rtc_wait |-> 11, rtc_read |-> 11, rtc_again |-> 11, rtc_reread |-> 11,
   seek |-> 12, ps2 |-> 13, vmm |-> 14, scheduler |-> 15, idle |-> 16, elf |-> 17,
   files |-> 18, timer |-> 19, loop |-> 20]
Since(s) == Stage[pc] >= Stage[s]

-----------------------------------------------------------------------------
(* The pins: all are masked but the keyboard's, and the PIT's during the   *)
(* calibration.                                                            *)

Vectors == {APIC_TIMER_INTERRUPT, KEYBOARD_INTERRUPT, PIT_INTERRUPT, APIC_SPURIOUS_INTERRUPT}
Entries == [vector : Nat, masked : BOOLEAN]
Tables == [Pins -> Entries]
PinsInv ==
  /\ board \in Boards /\ pc \in DOMAIN Stage
  /\ redtbl \in Tables
  /\ \A p \in Pins : ~redtbl[p].masked =>
       \/ p = KEYBOARD_IRQ /\ redtbl[p].vector = KEYBOARD_INTERRUPT
       \/ /\ p = PIT_IRQ /\ redtbl[p].vector = PIT_INTERRUPT
          /\ pc \in {"unmasked", "calibrating", "halted"}
  /\ Since("tss") => redtbl[PIT_IRQ].vector = PIT_INTERRUPT
  /\ PIT_INTERRUPT \in irr => Since("calibrating") \/ pc = "halted"
  /\ irr \subseteq Vectors

\* The time that k interrupts take, counted from the start of the counter.
Periods(k) == elapsed >= (k - 1) * PitPeriod + 1 + phase \/ elapsed = ApicMax
LongEnough ==
  timer_ticks_base' >= ((CALIBRATION_MS_TO_WAIT - 1 - early) * PitPeriod + 1) \div CALIBRATION_MS_TO_WAIT

\* The interrupts that are not early, and the pending one, took their time.
CalInv ==
  /\ elapsed \in 0..ApicMax /\ phase \in 0..(PitPeriod - 1)
  /\ pitTicks \in Nat /\ timer_ticks_base \in Nat /\ early \in Nat
  /\ (pc = "calibrating" /\ PinOf(board, KEYBOARD_IRQ) # PIT_IRQ) =>
        /\ pitTicks > early => Periods(pitTicks - early)
        /\ PIT_INTERRUPT \in irr /\ pitTicks + 1 > early => Periods(pitTicks + 1 - early)

\* What a board the code is written for has got at each stage.
Last(magic) == Max({0} \cup {i \in DOMAIN board.modules : board.modules[i].magic = magic})
Reached(n) ==
  /\ n >= 2 => Vectors \subseteq idt
  /\ n >= 3 => sdt = board.tables /\ tar_module = Last("ustar") /\ elf_module = Last("elf")
  /\ n >= 4 => "heap" \in ready
  /\ n >= 5 => lapic = "on" /\ ~picLive
  /\ n >= 6 => ioapic
  /\ n >= 9 => "tss" \in ready
  /\ n >= 13 => elf_start = board.modules[tar_module].exec
  /\ n >= 16 => "scheduler" \in ready
  /\ n >= 17 => "idle" \in ready
  /\ n >= 18 => "elf" \in ready
Equipped ==
  /\ pc # "halted"
  /\ Reached(Stage[pc])
  /\ iflag => Since("calibrate")
  /\ timerOn => pc = "loop"
  /\ APIC_TIMER_INTERRUPT \in irr => timerOn
ExpectedInv == Supported(board) => Equipped

BootInv == PinsInv /\ CalInv /\ ExpectedInv

-----------------------------------------------------------------------------
(* Facts about the operators.                                              *)

LEMMA StageNumbers ==
  /\ DOMAIN Stage = {"halted", "early", "basic", "syscalls", "apic", "madt", "keyboard", "irqs",
       "tss", "calibrate", "unmasked", "calibrating", "rtc_wait", "rtc_read", "rtc_again", "rtc_reread",
       "seek", "ps2", "vmm", "scheduler", "idle", "elf", "files", "timer", "loop"}
  /\ Stage["halted"] = 0 /\ Stage["early"] = 1 /\ Stage["basic"] = 2 /\ Stage["syscalls"] = 3
  /\ Stage["apic"] = 4 /\ Stage["madt"] = 5 /\ Stage["keyboard"] = 6 /\ Stage["irqs"] = 7
  /\ Stage["tss"] = 8 /\ Stage["calibrate"] = 9 /\ Stage["unmasked"] = 10
  /\ Stage["calibrating"] = 10
  /\ Stage["rtc_wait"] = 11 /\ Stage["rtc_read"] = 11 /\ Stage["rtc_again"] = 11
  /\ Stage["rtc_reread"] = 11 /\ Stage["seek"] = 12 /\ Stage["ps2"] = 13 /\ Stage["vmm"] = 14
  /\ Stage["scheduler"] = 15 /\ Stage["idle"] = 16 /\ Stage["elf"] = 17 /\ Stage["files"] = 18
  /\ Stage["timer"] = 19 /\ Stage["loop"] = 20
BY DEF Stage

\* A non-empty set of naturals has a smallest element, which Min returns.
LEMMA MinMember ==
  ASSUME NEW S \in SUBSET Nat, S # {}
  PROVE  Min(S) \in S /\ \A c \in S : Min(S) <= c
<1>1. PICK b \in S : \A c \in S : ~(<<c, b>> \in OpToRel(<, Nat))
  BY NatLessThanWellFounded, WFMin, Zenon
<1>2. \A c \in S : ~(c < b)
  BY <1>1, Zenon DEF OpToRel
<1>3. \A c \in S : b <= c
  BY <1>2
<1> QED BY <1>3, Zenon DEF Min

LEMMA MinPair ==
  ASSUME NEW m \in Nat, NEW n \in Nat
  PROVE  /\ Min({m, n}) \in Nat /\ (m <= n => Min({m, n}) = m) /\ (n <= m => Min({m, n}) = n)
BY MinMember

\* The pin of an interrupt of the PC.
LEMMA PinIsPin ==
  ASSUME NEW b \in Boards, NEW irq \in Pins PROVE PinOf(b, irq) \in Pins
<1> DEFINE over == {i \in DOMAIN b.wiring : b.wiring[i].irq = irq}
<1>1. b.wiring \in Seq(Items)
  BY BoardAssumption
<1>2. over \in SUBSET Nat
  <2>1. DOMAIN b.wiring = 1..Len(b.wiring) /\ Len(b.wiring) \in Nat
    BY <1>1
  <2> QED BY <2>1
<1>3. CASE over = {}
  BY <1>3 DEF PinOf
<1>4. CASE over # {}
  <2>0. Min(over) \in over
    <3> HIDE DEF over
    <3> QED BY <1>2, <1>4, MinMember
  <2>1. PICK k \in DOMAIN b.wiring : k = Min(over)
    BY <2>0, Zenon
  <2>2. b.wiring[k] \in Items
    BY <1>1
  <2>3. b.wiring[k].gsi \in Pins
    BY <2>2 DEF Items
  <2> QED BY <1>4, <2>1, <2>3 DEF PinOf
<1> QED BY <1>3, <1>4

LEMMA PartsInOrder ==
  ASSUME KernelParts
  PROVE  \/ pc = "ps2" /\ pc' = "vmm"
         \/ pc = "vmm" /\ pc' = "scheduler"
         \/ pc = "scheduler" /\ pc' = "idle"
         \/ pc = "idle" /\ pc' = "elf"
<1>1. PICK i \in 1..(Len(Parts) - 1) : pc = Parts[i] /\ pc' = Parts[i + 1]
  BY DEF KernelParts, Step
<1>2. /\ Len(Parts) = 5 /\ Parts[1] = "ps2" /\ Parts[2] = "vmm" /\ Parts[3] = "scheduler"
      /\ Parts[4] = "idle" /\ Parts[5] = "elf"
  BY DEF Parts
<1>3. i \in 1..4
  BY <1>2
<1>4. \/ i = 1 /\ i + 1 = 2
      \/ i = 2 /\ i + 1 = 3
      \/ i = 3 /\ i + 1 = 4
      \/ i = 4 /\ i + 1 = 5
  BY <1>3
<1> QED BY <1>1, <1>2, <1>4

-----------------------------------------------------------------------------
(* The pins and the pending interrupts.                                    *)

\* A step that leaves the pins alone, does not raise the line of the PIT and
\* does not leave the calibration.
LEMMA PinsKept ==
  ASSUME PinsInv, board' = board, redtbl' = redtbl, pc' \in DOMAIN Stage,
         pc' = pc \/ pc' \in {"calibrating", "halted"} \/ pc \notin {"unmasked", "calibrating", "halted"},
         pc' = "halted" \/ Stage[pc'] >= Stage[pc],
         Stage[pc'] >= Stage["tss"] => Since("tss"),
         irr' \subseteq irr \cup (Vectors \ {PIT_INTERRUPT})
  PROVE  PinsInv'
<1> USE StageNumbers
<1>1. \A p \in Pins : ~redtbl[p].masked =>
       \/ p = KEYBOARD_IRQ /\ redtbl[p].vector = KEYBOARD_INTERRUPT
       \/ /\ p = PIT_IRQ /\ redtbl[p].vector = PIT_INTERRUPT
          /\ pc' \in {"unmasked", "calibrating", "halted"}
  BY DEF PinsInv
<1>2. Stage[pc'] >= Stage["tss"] => redtbl[PIT_IRQ].vector = PIT_INTERRUPT
  BY DEF PinsInv
<1>3. PIT_INTERRUPT \in irr' => Stage[pc'] >= Stage["calibrating"] \/ pc' = "halted"
  BY DEF PinsInv, Since
<1>4. irr' \subseteq Vectors
  BY DEF PinsInv, Vectors
<1> QED BY <1>1, <1>2, <1>3, <1>4 DEF PinsInv, Since, Vectors

\* An edge on a pin makes the vector of the pin pending, if any.
LEMMA EdgeOnPin ==
  ASSUME PinsInv, NEW pin \in Pins, Edge(pin)
  PROVE  /\ irr' \subseteq irr \cup {KEYBOARD_INTERRUPT, PIT_INTERRUPT}
         /\ PIT_INTERRUPT \in irr' =>
              PIT_INTERRUPT \in irr \/ (pin = PIT_IRQ /\ pc \in {"unmasked", "calibrating", "halted"})
BY DEF PinsInv, Edge, PIT_INTERRUPT, KEYBOARD_INTERRUPT

LEMMA InitPins == Init => PinsInv
BY StageNumbers DEF Init, PinsInv, Tables, Entries, Since, Pins

LEMMA NextPins == PinsInv /\ [Next]_vars => PinsInv'
<1> SUFFICES ASSUME PinsInv, [Next]_vars PROVE PinsInv'
  OBVIOUS
<1> USE DEF chips
<1>1. CASE init_idt
  BY <1>1, PinsKept, StageNumbers DEF init_idt, Step, Since
<1>2. CASE _init_basic_system
  BY <1>2, PinsKept, StageNumbers DEF _init_basic_system, Step, Since
<1>3. CASE _syscalls_init
  BY <1>3, PinsKept, StageNumbers DEF _syscalls_init, Step, Since
<1>4. CASE init_apic
  BY <1>4, PinsKept, StageNumbers DEF init_apic, Halt, Since
<1>5. CASE init_ioapic
  BY <1>5, PinsKept, StageNumbers DEF init_ioapic, page_fault_handler, Halt, Since
<1>6. CASE init_keyboard
  BY <1>6, PinsKept, StageNumbers DEF init_keyboard, Step, Since
<1>7. CASE SetIrqs
  <2>1. CASE pc' = "halted"
    BY <1>7, <2>1, PinsKept, StageNumbers DEF SetIrqs, page_fault_handler, Halt, Since
  <2>2. CASE pc' # "halted"
    <3>1. /\ pc = "irqs" /\ pc' = "tss" /\ board' = board /\ irr' = irr
          /\ redtbl' = set_irq(set_irq(redtbl, KEYBOARD_IRQ, KEYBOARD_INTERRUPT, FALSE),
                               PIT_IRQ, PIT_INTERRUPT, TRUE)
      BY <1>7, <2>2, Zenon DEF SetIrqs, page_fault_handler, Halt
    <3>2. /\ redtbl' \in Tables
          /\ redtbl'[KEYBOARD_IRQ].vector = KEYBOARD_INTERRUPT
          /\ redtbl'[PIT_IRQ].vector = PIT_INTERRUPT /\ redtbl'[PIT_IRQ].masked = TRUE
          /\ \A p \in Pins \ {KEYBOARD_IRQ, PIT_IRQ} : redtbl'[p] = redtbl[p]
      <4> DEFINE e == [vector |-> KEYBOARD_INTERRUPT, masked |-> FALSE]
                 f == [vector |-> PIT_INTERRUPT, masked |-> TRUE]
      <4>1. /\ KEYBOARD_IRQ \in Pins /\ PIT_IRQ \in Pins /\ KEYBOARD_IRQ # PIT_IRQ
            /\ KEYBOARD_INTERRUPT \in Nat /\ PIT_INTERRUPT \in Nat /\ redtbl \in Tables
        BY DEF PinsInv, Pins, KEYBOARD_IRQ, PIT_IRQ, PIT_INTERRUPT, KEYBOARD_INTERRUPT
      <4>2. /\ e \in Entries /\ e.vector = KEYBOARD_INTERRUPT
            /\ f \in Entries /\ f.vector = PIT_INTERRUPT /\ f.masked = TRUE
        BY <4>1 DEF Entries
      <4>3. redtbl' = [[redtbl EXCEPT ![KEYBOARD_IRQ] = e] EXCEPT ![PIT_IRQ] = f]
        BY <3>1 DEF set_irq
      <4> HIDE DEF e, f
      <4>4. /\ redtbl' \in Tables /\ redtbl'[KEYBOARD_IRQ] = e /\ redtbl'[PIT_IRQ] = f
            /\ \A p \in Pins \ {KEYBOARD_IRQ, PIT_IRQ} : redtbl'[p] = redtbl[p]
        BY <4>1, <4>2, <4>3 DEF Tables
      <4> QED BY <4>2, <4>4
    <3>3. \A p \in Pins : ~redtbl'[p].masked => p = KEYBOARD_IRQ
      BY <3>1, <3>2, Zenon DEF PinsInv
    <3>4. PIT_INTERRUPT \notin irr
      BY <3>1, StageNumbers DEF PinsInv, Since
    <3> QED BY <3>1, <3>2, <3>3, <3>4, StageNumbers, Zenon DEF PinsInv
  <2> QED BY <2>1, <2>2
<1>8. CASE initialize_tss
  BY <1>8, PinsKept, StageNumbers DEF initialize_tss, Step, Since
<1>9. CASE calibrate_apic
  <2>1. CASE pc' = "halted"
    BY <1>9, <2>1, PinsKept, StageNumbers DEF calibrate_apic, page_fault_handler, Halt, Since
  <2>2. CASE pc' # "halted"
    <3>1. /\ pc = "calibrate" /\ pc' = "unmasked" /\ board' = board /\ irr' = irr
          /\ redtbl' = set_irq_mask(redtbl, PIT_IRQ, FALSE)
      BY <1>9, <2>2, Zenon DEF calibrate_apic, page_fault_handler, Halt
    <3>2. /\ redtbl' \in Tables
          /\ redtbl'[PIT_IRQ].vector = redtbl[PIT_IRQ].vector
          /\ \A p \in Pins \ {PIT_IRQ} : redtbl'[p] = redtbl[p]
      <4> DEFINE e == [redtbl[PIT_IRQ] EXCEPT !.masked = FALSE]
      <4>1. PIT_IRQ \in Pins /\ redtbl \in Tables
        BY DEF PinsInv, Pins, PIT_IRQ
      <4>2. e \in Entries /\ e.vector = redtbl[PIT_IRQ].vector
        BY <4>1, Zenon DEF Tables, Entries
      <4>3. redtbl' = [redtbl EXCEPT ![PIT_IRQ] = e]
        BY <3>1 DEF set_irq_mask
      <4> HIDE DEF e
      <4> QED BY <4>1, <4>2, <4>3 DEF Tables
    <3>3. redtbl[PIT_IRQ].vector = PIT_INTERRUPT
      BY <3>1, StageNumbers DEF PinsInv, Since
    <3>4. ASSUME NEW p \in Pins, ~redtbl'[p].masked
          PROVE  \/ p = KEYBOARD_IRQ /\ redtbl'[p].vector = KEYBOARD_INTERRUPT
                 \/ p = PIT_IRQ /\ redtbl'[p].vector = PIT_INTERRUPT
      <4>1. CASE p = PIT_IRQ
        BY <3>2, <3>3, <4>1
      <4>2. CASE p # PIT_IRQ
        BY <3>2, <3>4, <4>2 DEF PinsInv
      <4> QED BY <4>1, <4>2
    <3>5. PIT_INTERRUPT \in irr' => Stage[pc'] >= Stage["calibrating"] \/ pc' = "halted"
      BY <3>1, StageNumbers
    <3> QED BY <3>1, <3>2, <3>3, <3>4, <3>5, StageNumbers, Zenon DEF PinsInv, Since
  <2> QED BY <2>1, <2>2
<1>9a. CASE StartCounter
  BY <1>9a, PinsKept, StageNumbers DEF StartCounter, Step, Since
<1>10. CASE Calibrated
  <2>1. /\ pc = "calibrating" /\ pc' = "rtc_wait" /\ board' = board /\ irr' = irr
        /\ redtbl' = set_irq_mask(redtbl, PIT_IRQ, TRUE)
    BY <1>10 DEF Calibrated
  <2>2. /\ redtbl' \in Tables
        /\ redtbl'[PIT_IRQ].vector = redtbl[PIT_IRQ].vector /\ redtbl'[PIT_IRQ].masked = TRUE
        /\ \A p \in Pins \ {PIT_IRQ} : redtbl'[p] = redtbl[p]
    <3> DEFINE e == [redtbl[PIT_IRQ] EXCEPT !.masked = TRUE]
    <3>1. PIT_IRQ \in Pins /\ redtbl \in Tables
      BY DEF PinsInv, Pins, PIT_IRQ
    <3>2. e \in Entries /\ e.vector = redtbl[PIT_IRQ].vector /\ e.masked = TRUE
      BY <3>1, Zenon DEF Tables, Entries
    <3>3. redtbl' = [redtbl EXCEPT ![PIT_IRQ] = e]
      BY <2>1 DEF set_irq_mask
    <3> HIDE DEF e
    <3> QED BY <3>1, <3>2, <3>3 DEF Tables
  <2>3. redtbl[PIT_IRQ].vector = PIT_INTERRUPT
    BY <2>1, StageNumbers DEF PinsInv, Since
  <2>4. ASSUME NEW p \in Pins, ~redtbl'[p].masked
        PROVE  p = KEYBOARD_IRQ /\ redtbl'[p].vector = KEYBOARD_INTERRUPT
    <3>1. p # PIT_IRQ /\ redtbl'[p] = redtbl[p]
      BY <2>2, <2>4
    <3> QED BY <2>4, <3>1 DEF PinsInv
  <2>5. PIT_INTERRUPT \in irr' => Stage[pc'] >= Stage["calibrating"] \/ pc' = "halted"
    BY <2>1, StageNumbers
  <2> QED BY <2>1, <2>2, <2>3, <2>4, <2>5, StageNumbers, Zenon DEF PinsInv, Since
<1>11. CASE is_rtc_updating
  BY <1>11, PinsKept, StageNumbers DEF is_rtc_updating, Since
<1>12. CASE read_rtc_register
  BY <1>12, PinsKept, StageNumbers DEF read_rtc_register, Since, PinsInv
<1>13. CASE read_rtc_time
  BY <1>13, PinsKept, StageNumbers DEF read_rtc_time, Since
<1>14. CASE FindExecutable
  BY <1>14, PinsKept, StageNumbers DEF FindExecutable, Step, Since
<1>15. CASE KernelParts
  <2>1. \/ pc = "ps2" /\ pc' = "vmm"
        \/ pc = "vmm" /\ pc' = "scheduler"
        \/ pc = "scheduler" /\ pc' = "idle"
        \/ pc = "idle" /\ pc' = "elf"
    BY <1>15, PartsInOrder
  <2> QED BY <1>15, <2>1, PinsKept, StageNumbers, SMTT(30) DEF KernelParts, Since
<1>16. CASE CreateElfTask
  BY <1>16, PinsKept, StageNumbers DEF CreateElfTask, page_fault_handler, Halt, Since
<1>17. CASE ReadFile
  BY <1>17, PinsKept, StageNumbers DEF ReadFile, page_fault_handler, Halt, Since
<1>18. CASE start_apic_timer
  BY <1>18, PinsKept, StageNumbers DEF start_apic_timer, Step, Since
<1>19. CASE Serve
  <2>1. /\ UNCHANGED <<board, redtbl>> /\ (pc' = pc \/ pc' = "halted") /\ irr' \subseteq irr
    BY <1>19, Zenon DEF Serve, interrupts_handler, Halt
  <2> QED BY <2>1, PinsKept, StageNumbers DEF Since, PinsInv
<1>20. CASE PressKey
  <2>1. KEYBOARD_IRQ \in Pins /\ board \in Boards
    BY DEF PinsInv, KEYBOARD_IRQ, Pins
  <2>2. PinOf(board, KEYBOARD_IRQ) \in Pins
    BY <2>1, PinIsPin
  <2>3. UNCHANGED <<board, pc, redtbl>> /\ pc # "halted"
    BY <1>20 DEF PressKey
  <2>4. \/ irr' = irr
        \/ /\ irr' \subseteq irr \cup {KEYBOARD_INTERRUPT, PIT_INTERRUPT}
           /\ PIT_INTERRUPT \in irr' =>
                PIT_INTERRUPT \in irr \/ pc \in {"unmasked", "calibrating", "halted"}
    BY <1>20, <2>2, EdgeOnPin DEF PressKey
  <2> QED BY <2>3, <2>4, StageNumbers DEF PinsInv, Since, Vectors
<1>21. CASE PassTime
  <2>1. 0 \in Pins /\ board \in Boards
    BY DEF PinsInv, Pins
  <2>2. PinOf(board, 0) \in Pins
    BY <2>1, PinIsPin
  <2>3. UNCHANGED <<board, pc, redtbl>> /\ pc \in {"unmasked", "calibrating"}
    BY <1>21 DEF PassTime
  <2>4. irr' = irr \/ irr' \subseteq irr \cup {KEYBOARD_INTERRUPT, PIT_INTERRUPT}
    BY <1>21, <2>2, EdgeOnPin DEF PassTime
  <2> QED BY <2>3, <2>4, StageNumbers DEF PinsInv, Since, Vectors
<1>22. CASE ApicTimer
  BY <1>22, PinsKept, StageNumbers
     DEF ApicTimer, PinsInv, Since, Vectors, APIC_TIMER_INTERRUPT, PIT_INTERRUPT
<1>23. CASE Spurious
  BY <1>23, PinsKept, StageNumbers
     DEF Spurious, PinsInv, Since, Vectors, APIC_SPURIOUS_INTERRUPT, PIT_INTERRUPT
<1>24. CASE PicInterrupt
  BY <1>24, PinsKept, StageNumbers DEF PicInterrupt, Halt, Since
<1>25. CASE Clock
  BY <1>25, PinsKept, StageNumbers DEF Clock, RtcAnnounce, RtcUpdate, PinsInv, Since
<1>26. CASE UNCHANGED vars
  BY <1>26, PinsKept, StageNumbers DEF vars, PinsInv, Since
<1> QED BY <1>1, <1>2, <1>3, <1>4, <1>5, <1>6, <1>7, <1>8, <1>9, <1>9a, <1>10, <1>11, <1>12, <1>13, SMTT(30),
          <1>14, <1>15, <1>16, <1>17, <1>18, <1>19, <1>20, <1>21, <1>22, <1>23, <1>24, <1>25,
          <1>26 DEF Next, Kernel

-----------------------------------------------------------------------------
(* The calibration.                                                        *)

\* The PIT's phase and the APIC counter after one more step of time.
LEMMA OneTick ==
  ASSUME NEW e \in 0..ApicMax, NEW p \in 0..(PitPeriod - 1)
  PROVE  /\ (p + 1) % PitPeriod = IF p + 1 = PitPeriod THEN 0 ELSE p + 1
         /\ Min({e + 1, ApicMax}) = IF e = ApicMax THEN ApicMax ELSE e + 1
<1>1. PitPeriod \in Nat \ {0} /\ ApicMax \in Nat
  BY BootAssumption
<1>2. (p + 1) % PitPeriod = IF p + 1 = PitPeriod THEN 0 ELSE p + 1
  BY <1>1
<1>3. Min({e + 1, ApicMax}) = IF e = ApicMax THEN ApicMax ELSE e + 1
  BY <1>1, MinPair
<1> QED BY <1>2, <1>3

LEMMA FewerPeriods ==
  ASSUME NEW k \in Nat, NEW j \in Nat, j <= k, elapsed \in Nat, phase \in Nat, Periods(k)
  PROVE  Periods(j)
<1>1. PitPeriod \in Nat
  BY BootAssumption
<1>2. (j - 1) * PitPeriod <= (k - 1) * PitPeriod
  BY <1>1
<1>3. (j - 1) * PitPeriod \in Int /\ (k - 1) * PitPeriod \in Int /\ ApicMax \in Nat
  BY <1>1, BootAssumption
<1> QED BY <1>2, <1>3 DEF Periods

LEMMA DivMonotone ==
  ASSUME NEW m \in Int, NEW n \in Nat, m <= n, NEW d \in Nat \ {0}
  PROVE  m \div d <= n \div d /\ n \div d \in Nat /\ m \div d \in Int
OBVIOUS

LEMMA CalKept ==
  ASSUME CalInv, UNCHANGED <<board, elapsed, phase, pitTicks, timer_ticks_base, early>>,
         pc' = "calibrating" => pc = "calibrating",
         (pc = "calibrating" /\ PinOf(board, KEYBOARD_IRQ) # PIT_IRQ /\ PIT_INTERRUPT \in irr')
            => PIT_INTERRUPT \in irr
  PROVE  CalInv'
<1>1. \A k : Periods(k) => Periods(k)'
  BY DEF Periods
<1> QED BY <1>1 DEF CalInv

LEMMA InitCal == Init => CalInv
<1>1. PitPeriod \in Nat \ {0} /\ ApicMax \in Nat
  BY BootAssumption
<1> QED BY <1>1, SMTT(30) DEF Init, CalInv

\* A step of kernel_start outside the calibration.
LEMMA CalOutside ==
  ASSUME CalInv, UNCHANGED <<board, irr, timing>>, pc' # "calibrating"
  PROVE  CalInv'
BY CalKept DEF timing

LEMMA NextCal == PinsInv /\ CalInv /\ [Next]_vars => CalInv'
<1> SUFFICES ASSUME PinsInv, CalInv, [Next]_vars PROVE CalInv'
  OBVIOUS
<1>0. /\ PitPeriod \in Nat \ {0} /\ ApicMax \in Nat /\ CALIBRATION_MS_TO_WAIT \in Nat \ {0}
      /\ ApicMax > CALIBRATION_MS_TO_WAIT * PitPeriod
  BY BootAssumption
<1>1. CASE init_idt
  BY <1>1, CalOutside, StageNumbers DEF init_idt, Step, Since
<1>2. CASE _init_basic_system
  BY <1>2, CalOutside, StageNumbers DEF _init_basic_system, Step, Since
<1>3. CASE _syscalls_init
  BY <1>3, CalOutside, StageNumbers DEF _syscalls_init, Step, Since
<1>4. CASE init_apic
  BY <1>4, CalOutside, StageNumbers DEF init_apic, Halt, Since
<1>5. CASE init_ioapic
  BY <1>5, CalOutside, StageNumbers DEF init_ioapic, page_fault_handler, Halt, Since
<1>6. CASE init_keyboard
  BY <1>6, CalOutside, StageNumbers DEF init_keyboard, Step, Since
<1>7. CASE SetIrqs
  <2>1. UNCHANGED <<board, irr, timing>> /\ pc = "irqs" /\ pc' \in {"halted", "tss"}
    BY <1>7, Zenon DEF SetIrqs, page_fault_handler, Halt
  <2> QED BY <2>1, CalOutside, StageNumbers
<1>8. CASE initialize_tss
  BY <1>8, CalOutside, StageNumbers DEF initialize_tss, Step, Since
<1>9. CASE calibrate_apic
  <2>1. CASE pc' = "halted"
    <3>1. UNCHANGED <<board, irr, timing>> /\ pc = "calibrate"
      BY <1>9, <2>1 DEF calibrate_apic, timing
    <3> QED BY <2>1, <3>1, CalOutside, StageNumbers
  <2>2. CASE pc' # "halted"
    <3>1. /\ pc' = "unmasked" /\ pitTicks' = 0 /\ phase' \in 0..(PitPeriod - 1)
          /\ UNCHANGED <<elapsed, timer_ticks_base, early>>
      BY <1>9, <2>2, Zenon DEF calibrate_apic, page_fault_handler, Halt
    <3> QED BY <3>1 DEF CalInv
  <2> QED BY <2>1, <2>2
<1>9a. CASE StartCounter
  <2>1. /\ elapsed' = 0 /\ early' = IF PIT_INTERRUPT \in irr THEN pitTicks + 1 ELSE pitTicks
        /\ UNCHANGED <<irr, phase, pitTicks, timer_ticks_base>>
    BY <1>9a DEF StartCounter
  <2>2. ~(pitTicks' > early') /\ (PIT_INTERRUPT \in irr' => ~(pitTicks' + 1 > early')) /\ early' \in Nat
    BY <2>1 DEF CalInv
  <2> QED BY <1>0, <2>1, <2>2 DEF CalInv
<1>10. CASE Calibrated
  <2>1. /\ pc' = "rtc_wait" /\ UNCHANGED pitTicks
        /\ timer_ticks_base' = elapsed \div CALIBRATION_MS_TO_WAIT
        /\ phase' = 0 /\ elapsed' = 0 /\ early' = 0
    BY <1>10 DEF Calibrated
  <2>2. elapsed \in Nat /\ pitTicks \in Nat
    BY DEF CalInv
  <2>3. timer_ticks_base' \in Nat
    BY <1>0, <2>1, <2>2, DivMonotone
  <2> QED BY <1>0, <2>1, <2>2, <2>3 DEF CalInv
<1>11. CASE is_rtc_updating
  BY <1>11, CalOutside, StageNumbers DEF is_rtc_updating, Since
<1>12. CASE read_rtc_register
  BY <1>12, CalOutside, StageNumbers DEF read_rtc_register, Since
<1>13. CASE read_rtc_time
  BY <1>13, CalOutside, StageNumbers DEF read_rtc_time, Since
<1>14. CASE FindExecutable
  BY <1>14, CalOutside, StageNumbers DEF FindExecutable, Step, Since
<1>15. CASE KernelParts
  <2>1. UNCHANGED <<board, irr, timing>>
    BY <1>15 DEF KernelParts
  <2>2. pc' # "calibrating"
    BY <1>15, PartsInOrder
  <2> QED BY <2>1, <2>2, CalOutside
<1>16. CASE CreateElfTask
  BY <1>16, CalOutside, StageNumbers DEF CreateElfTask, page_fault_handler, Halt, Since
<1>17. CASE ReadFile
  BY <1>17, CalOutside, StageNumbers DEF ReadFile, page_fault_handler, Halt, Since
<1>18. CASE start_apic_timer
  <2>1. pc' = "loop" /\ UNCHANGED <<board, irr, elapsed, phase, pitTicks, timer_ticks_base, early>>
    BY <1>18 DEF start_apic_timer, Step
  <2> QED BY <2>1, CalKept
<1>19. CASE Serve
  <2>1. PICK v \in irr : interrupts_handler(v)
    BY <1>19 DEF Serve
  <2>2. /\ UNCHANGED <<board, elapsed, phase, timer_ticks_base, early>>
        /\ pc' = pc \/ pc' = "halted"
        /\ irr' = irr \ {v}
        /\ pitTicks' = IF v = PIT_INTERRUPT THEN pit_irq_handler(pitTicks) ELSE pitTicks
    BY <2>1, Zenon DEF interrupts_handler, Halt
  <2>3. CASE v # PIT_INTERRUPT
    BY <2>2, <2>3, CalKept, StageNumbers DEF Since
  <2>4. CASE v = PIT_INTERRUPT
    <3>0. elapsed \in Nat /\ phase \in Nat /\ pitTicks \in Nat /\ early \in Nat
      BY DEF CalInv
    <3>1. pitTicks' \in Nat /\ pitTicks' <= pitTicks + 1
      BY <1>0, <2>2, <2>4, <3>0, MinPair DEF pit_irq_handler
    <3>2. ASSUME pc = "calibrating", PinOf(board, KEYBOARD_IRQ) # PIT_IRQ, pitTicks' > early
          PROVE  Periods(pitTicks - early)'
      <4>0. /\ pitTicks + 1 - early \in Nat /\ pitTicks' - early \in Nat
            /\ pitTicks' - early <= pitTicks + 1 - early
        <5>1. PICK p \in Nat, q \in Nat, e \in Nat :
                p = pitTicks /\ q = pitTicks' /\ e = early /\ q <= p + 1 /\ q > e
          BY <3>0, <3>1, <3>2, Zenon
        <5>2. q <= p + 1 /\ q > e
          BY <5>1, Zenon
        <5>3. p + 1 - e \in Nat /\ q - e \in Nat /\ q - e <= p + 1 - e
          BY <5>2
        <5> QED BY <5>1, <5>3, Zenon
      <4>1. PICK k \in Nat, j \in Nat : k = pitTicks + 1 - early /\ j = pitTicks' - early /\ j <= k
        BY <4>0, Zenon
      <4>2. Periods(k)
        BY <2>4, <3>0, <3>1, <3>2, <4>1 DEF CalInv
      <4>3. Periods(j)
        BY <3>0, <4>1, <4>2, FewerPeriods
      <4> QED BY <2>2, <4>1, <4>3 DEF Periods
    <3>3. PIT_INTERRUPT \notin irr'
      BY <2>2, <2>4
    <3> QED BY <2>2, <3>0, <3>1, <3>2, <3>3 DEF CalInv
  <2> QED BY <2>3, <2>4
<1>20. CASE PressKey
  <2>1. KEYBOARD_IRQ \in Pins /\ board \in Boards
    BY DEF PinsInv, KEYBOARD_IRQ, Pins
  <2>2. PinOf(board, KEYBOARD_IRQ) \in Pins
    BY <2>1, PinIsPin
  <2>3. UNCHANGED <<board, pc, elapsed, phase, pitTicks, timer_ticks_base, early>>
    BY <1>20 DEF PressKey, timing
  <2>4. (PIT_INTERRUPT \in irr' /\ PinOf(board, KEYBOARD_IRQ) # PIT_IRQ) => PIT_INTERRUPT \in irr
    BY <1>20, <2>2, EdgeOnPin, SMTT(30) DEF PressKey
  <2> QED BY <2>3, <2>4, CalKept DEF Since
<1>21. CASE PassTime
  <2>1. /\ UNCHANGED <<board, pc, pitTicks, timer_ticks_base, early>>
        /\ phase' = (phase + 1) % PitPeriod
        /\ elapsed' = IF pc = "calibrating" THEN Min({elapsed + 1, ApicMax}) ELSE elapsed
        /\ (phase' # 0) => irr' = irr
    BY <1>21 DEF PassTime
  <2>2. /\ elapsed \in 0..ApicMax /\ phase \in 0..(PitPeriod - 1)
        /\ pitTicks \in Nat /\ early \in Nat
    BY DEF CalInv
  <2>3. /\ phase' = IF phase + 1 = PitPeriod THEN 0 ELSE phase + 1
        /\ elapsed' = IF pc # "calibrating" \/ elapsed = ApicMax THEN elapsed ELSE elapsed + 1
    BY <2>1, <2>2, OneTick
  <2>4. elapsed' \in 0..ApicMax /\ phase' \in 0..(PitPeriod - 1)
    BY <1>0, <2>2, <2>3
  <2>5. ASSUME NEW k \in Nat, Periods(k), pc = "calibrating"
        PROVE  Periods(k)' /\ (phase' = 0 => Periods(k + 1)')
    <3>1. (k - 1) * PitPeriod \in Int /\ ((k + 1) - 1) * PitPeriod = (k - 1) * PitPeriod + PitPeriod
      BY <1>0
    <3> QED BY <1>0, <2>2, <2>3, <2>5, <3>1 DEF Periods
  <2>6. pc = "calibrating" /\ phase' = 0 => Periods(1)'
    <3>1. (1 - 1) * PitPeriod = 0
      BY <1>0
    <3> QED BY <1>0, <2>2, <2>3, <3>1 DEF Periods
  <2>7. ASSUME pc = "calibrating", PinOf(board, KEYBOARD_IRQ) # PIT_IRQ
        PROVE  /\ pitTicks > early => Periods(pitTicks - early)'
               /\ PIT_INTERRUPT \in irr' /\ pitTicks + 1 > early => Periods(pitTicks + 1 - early)'
    <3>1. ASSUME pitTicks + 1 > early
          PROVE  /\ pitTicks > early => Periods(pitTicks - early)'
                 /\ PIT_INTERRUPT \in irr' => Periods(pitTicks + 1 - early)'
      <4>1. PICK k \in Nat : k = pitTicks - early /\ k + 1 = pitTicks + 1 - early
        BY <2>2, <3>1
      <4>2. /\ k >= 1 => Periods(k)
            /\ PIT_INTERRUPT \in irr => Periods(k + 1)
        BY <2>2, <2>7, <3>1, <4>1 DEF CalInv
      <4>3. k >= 1 => Periods(k)' /\ (phase' = 0 => Periods(k + 1)')
        BY <2>5, <2>7, <4>2
      <4>4. PIT_INTERRUPT \in irr => Periods(k + 1)'
        BY <2>5, <2>7, <4>2
      <4>5. phase' = 0 => Periods(k + 1)'
        <5>1. CASE k = 0
          BY <2>6, <2>7, <5>1
        <5> QED BY <4>3, <5>1
      <4>6. pitTicks' = pitTicks /\ early' = early /\ (pitTicks > early => k >= 1)
        BY <2>1, <2>2, <4>1
      <4> QED BY <2>1, <4>1, <4>3, <4>4, <4>5, <4>6 DEF Periods
    <3>2. pitTicks > early => pitTicks + 1 > early
      BY <2>2
    <3> QED BY <3>1, <3>2
  <2> QED BY <2>1, <2>2, <2>4, <2>7 DEF CalInv
<1>22. CASE ApicTimer
  BY <1>22, CalKept DEF ApicTimer, timing, APIC_TIMER_INTERRUPT, PIT_INTERRUPT
<1>23. CASE Spurious
  BY <1>23, CalKept DEF Spurious, timing, APIC_SPURIOUS_INTERRUPT, PIT_INTERRUPT
<1>24. CASE PicInterrupt
  BY <1>24, CalKept, StageNumbers DEF PicInterrupt, Halt, timing
<1>25. CASE Clock
  BY <1>25, CalKept DEF Clock, RtcAnnounce, RtcUpdate, timing
<1>26. CASE UNCHANGED vars
  BY <1>26, CalKept DEF vars, timing
<1> QED BY <1>1, <1>2, <1>3, <1>4, <1>5, <1>6, <1>7, <1>8, <1>9, <1>9a, <1>10, <1>11, <1>12, <1>13,
          <1>14, <1>15, <1>16, <1>17, <1>18, <1>19, <1>20, <1>21, <1>22, <1>23, <1>24, <1>25,
          <1>26 DEF Next, Kernel

-----------------------------------------------------------------------------
(* The boards the code is written for.                                     *)

LEMMA MaxMember ==
  ASSUME NEW n \in Nat, NEW S \in SUBSET (0..n), S # {}
  PROVE  Max(S) \in S /\ \A c \in S : Max(S) >= c
<1> DEFINE T == {n - x : x \in S}
<1>0. \A x \in S : x \in Nat /\ x <= n /\ n - x \in Nat
  OBVIOUS
<1>1. T \in SUBSET Nat /\ T # {}
  BY <1>0, Zenon
<1>2. Min(T) \in T /\ \A c \in T : Min(T) <= c
  <2> HIDE DEF T
  <2> QED BY <1>1, MinMember
<1>3. PICK x \in S : Min(T) = n - x
  BY <1>2, Zenon
<1>4. \A c \in S : n - x <= n - c
  BY <1>2, <1>3, Zenon
<1>5. \A c \in S : x >= c
  BY <1>0, <1>4
<1> QED BY <1>5, Zenon DEF Max

\* The last of the modules that have something is none only if none has it.
LEMMA LastModule ==
  ASSUME board \in Boards, NEW magic, NEW i \in DOMAIN board.modules,
         board.modules[i].magic = magic
  PROVE  Last(magic) # 0
<1> DEFINE S == {0} \cup {k \in DOMAIN board.modules : board.modules[k].magic = magic}
<1>1. board.modules \in Seq([magic : STRING, exec : STRING])
  BY BoardAssumption
<1>2. DOMAIN board.modules = 1..Len(board.modules) /\ Len(board.modules) \in Nat
  BY <1>1
<1>3. S \in SUBSET (0..Len(board.modules)) /\ i \in S /\ i >= 1
  BY <1>2
<1>4. Max(S) >= i
  <2> HIDE DEF S
  <2> QED BY <1>2, <1>3, MaxMember, Zenon
<1>5. Max(S) \in Nat
  <2> HIDE DEF S
  <2>1. Max(S) \in S
    BY <1>2, <1>3, MaxMember, Zenon
  <2> QED BY <1>2, <1>3, <2>1
<1>6. Last(magic) = Max(S)
  BY DEF Last
<1> HIDE DEF S
<1> QED BY <1>2, <1>3, <1>4, <1>5, <1>6

\* get_MADT_item finds the first item of a type that is there, and the table
\* of the overrides is not empty when there is one.
LEMMA FirstItem ==
  ASSUME NEW t, t.items \in Seq(Items), NEW type, OfType(t, type) # {}
  PROVE  get_MADT_item(t, type, 0) # <<>>
<1> DEFINE S == OfType(t, type)
           m == Min(S)
           hits == {i \in S : Cardinality({j \in S : j < i}) = 0}
<1>1. S \in SUBSET Nat
  <2>1. DOMAIN t.items = 1..Len(t.items) /\ Len(t.items) \in Nat
    OBVIOUS
  <2> QED BY <2>1 DEF OfType
<1>0. S # {}
  OBVIOUS
<1>2. m \in S /\ \A c \in S : m <= c
  <2> HIDE DEF S
  <2> QED BY <1>0, <1>1, MinMember
<1>3. {j \in S : j < m} = {}
  <2>1. \A j \in S : j \in Nat /\ m \in Nat /\ m <= j
    <3> HIDE DEF S, m
    <3> QED BY <1>1, <1>2
  <2>2. \A j \in S : ~(j < m)
    <3> HIDE DEF S, m
    <3> QED BY <2>1
  <2> QED BY <2>2
<1>4. Cardinality({j \in S : j < m}) = 0
  BY <1>3, FS_EmptySet, Zenon
<1>5. m \in hits
  <2> HIDE DEF S, m
  <2> QED BY <1>2, <1>4
<1>6. hits # {}
  BY <1>5
<1>7. get_MADT_item(t, type, 0) = IF hits = {} THEN <<>> ELSE <<t.items[Min(hits)]>>
  BY DEF get_MADT_item
<1> HIDE DEF hits
<1>8. get_MADT_item(t, type, 0) = <<t.items[Min(hits)]>>
  BY <1>6, <1>7
<1>9. ASSUME NEW x PROVE <<x>> # <<>>
  OBVIOUS
<1> QED BY <1>8, <1>9, Zenon

LEMMA SomeOverride ==
  ASSUME NEW t, t.items \in Seq(Items), OfType(t, "OVERRIDE") # {}
  PROVE  parse_io_apic_interrupt_source_overrides(t) # <<>>
<1> DEFINE S == OfType(t, "OVERRIDE")
           n == Cardinality(S)
           size == Min({n, IO_APIC_SOURCE_OVERRIDE_MAX_ITEMS})
<1>1. IsFiniteSet(S)
  <2>1. DOMAIN t.items = 1..Len(t.items) /\ Len(t.items) \in Nat
    OBVIOUS
  <2>2. IsFiniteSet(1..Len(t.items))
    BY <2>1, FS_Interval
  <2>3. S \subseteq 1..Len(t.items)
    BY <2>1 DEF OfType
  <2> QED BY <2>2, <2>3, FS_Subset
<1>0. S # {}
  OBVIOUS
<1>2. n \in Nat \ {0}
  <2> HIDE DEF S
  <2> QED BY <1>0, <1>1, FS_CardinalityType, FS_EmptySet
<1>3. size \in Nat /\ size >= 1
  <2>1. IO_APIC_SOURCE_OVERRIDE_MAX_ITEMS \in Nat \ {0}
    BY BootAssumption
  <2> HIDE DEF n
  <2> QED BY <1>2, <2>1, MinPair
<1>4. parse_io_apic_interrupt_source_overrides(t)
        = [k \in 1..size |-> get_MADT_item(t, "OVERRIDE", k - 1)[1]]
  BY DEF parse_io_apic_interrupt_source_overrides
<1> HIDE DEF size
<1>5. DOMAIN parse_io_apic_interrupt_source_overrides(t) = 1..size
  BY <1>4
<1> QED BY <1>3, <1>5

LEMMA MadtFound ==
  ASSUME board \in Boards, Supported(board), sdt = board.tables
  PROVE  LET madt == get_SDT_item("APIC")
         IN  /\ madt # NoTable
             /\ get_MADT_item(madt, "IO_APIC", 0) # <<>>
             /\ parse_io_apic_interrupt_source_overrides(madt) # <<>>
<1> DEFINE hits == {i \in DOMAIN board.tables : board.tables[i].signature = "APIC"}
<1>1. board.tables \in Seq(SdtTables)
  BY BoardAssumption
<1>2. hits \in SUBSET Nat
  <2>1. DOMAIN board.tables = 1..Len(board.tables) /\ Len(board.tables) \in Nat
    BY <1>1, SMTT(30)
  <2> QED BY <2>1
<1>3. hits # {} /\ \A type \in {"IO_APIC", "OVERRIDE"} : OfType(board.tables[Min(hits)], type) # {}
  BY Zenon DEF Supported
<1>4. Min(hits) \in hits
  <2> HIDE DEF hits
  <2> QED BY <1>2, <1>3, MinMember
<1>5. PICK k \in DOMAIN board.tables : k = Min(hits) /\ board.tables[k].signature = "APIC"
  BY <1>4, Zenon
<1>6. get_SDT_item("APIC") = board.tables[k]
  BY <1>3, <1>5 DEF get_SDT_item
<1>7. board.tables[k].items \in Seq(Items)
  <2>1. board.tables[k] \in SdtTables
    BY <1>1
  <2> QED BY <2>1 DEF SdtTables
<1>8. OfType(board.tables[k], "IO_APIC") # {} /\ OfType(board.tables[k], "OVERRIDE") # {}
  BY <1>3, <1>5, Zenon
<1>9. board.tables[k] # NoTable
  <2>1. NoTable.signature = "none"
    BY DEF NoTable
  <2> QED BY <1>5, <2>1
<1> QED BY <1>6, <1>7, <1>8, <1>9, FirstItem, SomeOverride

\* The program of the ELF task is an ELF file.
LEMMA ProgramIsElf ==
  ASSUME board \in Boards, Supported(board), tar_module = Last("ustar"), elf_module = Last("elf"),
         elf_start = board.modules[tar_module].exec
  PROVE  tar_module # 0 /\ Program = "elf"
<1>1. /\ Last("ustar") # 0
      /\ \/ board.modules[Last("ustar")].exec = "elf"
         \/ /\ board.modules[Last("ustar")].exec = "none"
            /\ \E i \in DOMAIN board.modules : board.modules[i].magic = "elf"
  BY Zenon DEF Supported, Last
<1>2. (\E i \in DOMAIN board.modules : board.modules[i].magic = "elf") => elf_module # 0
  BY LastModule
<1> QED BY <1>1, <1>2 DEF Program

LEMMA InitEquipped == Init => Equipped
<1> SUFFICES ASSUME Init PROVE Equipped
  OBVIOUS
<1>1. pc = "early" /\ iflag = FALSE /\ timerOn = FALSE /\ irr = {}
  BY DEF Init
<1>2. Stage[pc] = 1
  BY <1>1, StageNumbers
<1>3. Reached(1)
  BY SMTT(30) DEF Reached
<1> QED BY <1>1, <1>2, <1>3 DEF Equipped

LEMMA BoardStays == [Next]_vars => board' = board
BY Zenon DEF Next, Kernel, init_idt, _init_basic_system, _syscalls_init, init_apic, init_ioapic,
       init_keyboard, SetIrqs, initialize_tss, calibrate_apic, StartCounter, Calibrated, is_rtc_updating,
       read_rtc_register, read_rtc_time, FindExecutable, KernelParts, CreateElfTask, ReadFile,
       start_apic_timer, Serve, interrupts_handler, PressKey, PassTime, ApicTimer, Spurious,
       PicInterrupt, Clock, RtcAnnounce, RtcUpdate, vars

\* What a step adds to idt and ready takes nothing away from what was reached.
LEMMA ReachedKept ==
  ASSUME NEW n \in Nat, Reached(n), board' = board, idt \subseteq idt', ready \subseteq ready',
         UNCHANGED <<sdt, elf_module, tar_module, elf_start, lapic, picLive, ioapic>>
  PROVE  Reached(n)'
<1>1. \A m : Last(m)' = Last(m)
  BY DEF Last
<1> QED BY <1>1 DEF Reached

\* An interrupt or a device: kernel_start stays where it is.
LEMMA EquippedQuiet ==
  ASSUME PinsInv, Equipped, board' = board,
         UNCHANGED <<pc, ready, iflag, idt, sdt, elf_module, tar_module, elf_start,
                     lapic, picLive, ioapic, timerOn>>,
         APIC_TIMER_INTERRUPT \in irr' => APIC_TIMER_INTERRUPT \in irr \/ timerOn
  PROVE  Equipped'
<1>1. PICK n \in Nat : n = Stage[pc]
  BY StageNumbers DEF PinsInv
<1>2. Stage[pc'] = n
  BY <1>1
<1>3. Reached(n)
  BY <1>1 DEF Equipped
<1>4. Reached(n)'
  BY <1>3, ReachedKept
<1>5. pc # "halted" /\ (iflag => Since("calibrate")) /\ (timerOn => pc = "loop")
      /\ (APIC_TIMER_INTERRUPT \in irr => timerOn)
  BY DEF Equipped
<1>6. (iflag => Since("calibrate"))'
  BY <1>5 DEF Since
<1> QED BY <1>2, <1>4, <1>5, <1>6, SMTT(30) DEF Equipped

\* A step of kernel_start to the stage with number n.
LEMMA EquippedMoves ==
  ASSUME Equipped, NEW n \in Nat, pc' # "halted", Stage[pc'] = n, Reached(n)',
         iflag' => n >= 9, ~timerOn', irr' = irr, ~timerOn
  PROVE  Equipped'
<1>1. (iflag => Since("calibrate"))'
  <2>1. Stage["calibrate"] = 9
    BY StageNumbers
  <2> QED BY <2>1 DEF Since
<1>2. APIC_TIMER_INTERRUPT \notin irr'
  BY DEF Equipped
<1> QED BY <1>1, <1>2 DEF Equipped

\* Where the stage with number n is, n has been reached, interrupts are enabled
\* from stage 9 on, and the timer runs at the end only.
LEMMA EquippedAt ==
  ASSUME Equipped, NEW n \in Nat, n = Stage[pc]
  PROVE  Reached(n) /\ (iflag => n >= 9) /\ (pc # "loop" => ~timerOn)
<1>1. Stage["calibrate"] = 9
  BY StageNumbers
<1>2. Reached(Stage[pc]) /\ (iflag => Since("calibrate")) /\ (timerOn => pc = "loop")
  BY DEF Equipped
<1> QED BY <1>1, <1>2 DEF Since

LEMMA EquippedStep ==
  ASSUME PinsInv, Supported(board), Equipped, [Next]_vars
  PROVE  Equipped'
<1>0. board \in Boards /\ board' = board
  BY BoardStays DEF PinsInv
<1>a. \A m : Last(m)' = Last(m)
  BY <1>0, SMTT(30) DEF Last
<1>c. Last("ustar") # 0
  BY DEF Supported, Last
<1> DEFINE Gear == <<sdt, elf_module, tar_module, elf_start, lapic, picLive, ioapic>>
<1>b. ASSUME NEW k \in Nat, NEW n \in Nat, Stage[pc] = k,
             n >= k, iflag' = iflag, pc # "loop",
             pc' # "halted", Stage[pc'] = n, Reached(n)', timerOn' = timerOn, irr' = irr
      PROVE  Equipped'
  <2>1. (iflag => k >= 9) /\ ~timerOn
    BY <1>b, EquippedAt
  <2> QED BY <1>b, <2>1, EquippedMoves
<1>1. CASE init_idt
  <2>1. /\ pc = "early" /\ pc' = "basic" /\ iflag' = iflag /\ timerOn' = timerOn /\ irr' = irr
        /\ Vectors \subseteq idt'
    BY <1>1 DEF init_idt, Step, timing, Vectors
  <2>2. Stage[pc] = 1 /\ Stage[pc'] = 2
    BY <2>1, StageNumbers
  <2>3. Reached(2)'
    BY <2>1 DEF Reached
  <2> QED BY <1>b, <2>1, <2>2, <2>3
<1>2. CASE _init_basic_system
  <2>1. /\ pc = "basic" /\ pc' = "syscalls" /\ iflag' = iflag /\ timerOn' = timerOn
        /\ irr' = irr /\ idt' = idt
    BY <1>2 DEF _init_basic_system, Step, timing
  <2>2. Stage[pc] = 2 /\ Stage[pc'] = 3
    BY <2>1, StageNumbers, SMTT(30)
  <2>3. sdt' = board.tables
    BY <1>2, Zenon DEF _init_basic_system, parse_SDT, Supported
  <2>4. tar_module' = Last("ustar") /\ elf_module' = Last("elf")
    BY <1>2 DEF _init_basic_system, Last, _is_module_tar_hh, _is_module_elf_hh
  <2>5. Vectors \subseteq idt
    BY <2>2, EquippedAt, SMTT(30) DEF Reached
  <2>6. Reached(3)'
    BY <1>0, <1>a, <2>1, <2>3, <2>4, <2>5 DEF Reached
  <2> QED BY <1>b, <2>1, <2>2, <2>6, SMTT(30)
<1>3. CASE _syscalls_init
  <2>1. /\ pc = "syscalls" /\ pc' = "apic" /\ iflag' = iflag /\ timerOn' = timerOn /\ irr' = irr
        /\ idt \subseteq idt' /\ ready' = ready \cup {"heap"}
    BY <1>3 DEF _syscalls_init, Step, timing
  <2>2. Stage[pc] = 3 /\ Stage[pc'] = 4
    BY <2>1, StageNumbers
  <2>3. UNCHANGED Gear
    BY <1>3 DEF _syscalls_init, modules, chips
  <2>4. Reached(3)'
    BY <1>0, <2>1, <2>2, <2>3, EquippedAt, ReachedKept
  <2>5. Reached(4)'
    BY <2>1, <2>4 DEF Reached
  <2> QED BY <1>b, <2>1, <2>2, <2>5
<1>4. CASE init_apic
  <2>1. board.apic # "none" /\ board.enabled
    BY Zenon DEF Supported
  <2>2. /\ pc = "apic" /\ pc' = "madt" /\ iflag' = iflag /\ timerOn' = timerOn /\ irr' = irr
        /\ idt' = idt /\ ready' = ready /\ lapic' = "on" /\ picLive' = FALSE
    BY <1>4, <2>1 DEF init_apic, Halt, disable_pic, timing
  <2>3. UNCHANGED <<sdt, elf_module, tar_module>>
    BY <1>4 DEF init_apic, modules
  <2>4. Stage[pc] = 4 /\ Stage[pc'] = 5
    BY <2>2, StageNumbers
  <2>5. Reached(4)
    BY <2>4, EquippedAt
  <2>6. Reached(5)'
    BY <1>0, <1>a, <2>2, <2>3, <2>5 DEF Reached
  <2> QED BY <1>b, <2>2, <2>4, <2>6, SMTT(30)
<1>5. CASE init_ioapic
  <2>1. pc = "madt" /\ timerOn' = timerOn /\ irr' = irr /\ idt' = idt /\ ready' = ready
    BY <1>5 DEF init_ioapic, timing
  <2>2. Stage[pc] = 5
    BY <2>1, StageNumbers
  <2>3. Reached(5)
    BY <2>2, EquippedAt
  <2>4. sdt = board.tables
    BY <2>3 DEF Reached
  <2>5. pc' = "keyboard" /\ ioapic' /\ iflag' = iflag
    BY <1>0, <1>5, <2>4, MadtFound, Zenon DEF init_ioapic
  <2>6. Stage[pc'] = 6
    BY <2>5, StageNumbers
  <2>7. UNCHANGED <<sdt, elf_module, tar_module, lapic, picLive>>
    BY <1>5 DEF init_ioapic, modules
  <2>8. Reached(6)'
    BY <1>0, <1>a, <2>1, <2>3, <2>5, <2>7 DEF Reached
  <2> QED BY <1>b, <2>1, <2>2, <2>5, <2>6, <2>8, SMTT(30)
<1>6. CASE init_keyboard
  <2>1. /\ pc = "keyboard" /\ pc' = "irqs" /\ iflag' = iflag /\ timerOn' = timerOn /\ irr' = irr
        /\ idt' = idt /\ ready \subseteq ready'
    BY <1>6 DEF init_keyboard, Step, timing
  <2>2. Stage[pc] = 6 /\ Stage[pc'] = 7
    BY <2>1, StageNumbers
  <2>3. UNCHANGED Gear
    BY <1>6 DEF init_keyboard, modules, chips
  <2>4. Reached(6)'
    BY <1>0, <2>1, <2>2, <2>3, EquippedAt, ReachedKept
  <2>5. Reached(7)'
    BY <2>4 DEF Reached
  <2> QED BY <1>b, <2>1, <2>2, <2>5
<1>7. CASE SetIrqs
  <2>1. pc = "irqs" /\ timerOn' = timerOn /\ irr' = irr /\ idt' = idt /\ ready' = ready
    BY <1>7 DEF SetIrqs, timing
  <2>2. Stage[pc] = 7
    BY <2>1, StageNumbers
  <2>3. Reached(7)
    BY <2>2, EquippedAt
  <2>4. ioapic
    BY <2>3 DEF Reached
  <2>5. pc' = "tss" /\ iflag' = iflag
    BY <1>7, <2>4 DEF SetIrqs
  <2>6. Stage[pc'] = 8
    BY <2>5, StageNumbers
  <2>7. UNCHANGED Gear
    BY <1>7 DEF SetIrqs, modules
  <2>8. Reached(7)'
    BY <1>0, <2>1, <2>3, <2>7, ReachedKept
  <2>9. Reached(8)'
    BY <2>8 DEF Reached
  <2> QED BY <1>b, <2>1, <2>2, <2>5, <2>6, <2>9, SMTT(30)
<1>8. CASE initialize_tss
  <2>1. /\ pc = "tss" /\ pc' = "calibrate" /\ timerOn' = timerOn /\ irr' = irr
        /\ idt' = idt /\ ready' = ready \cup {"tss"}
    BY <1>8 DEF initialize_tss, Step, timing
  <2>2. Stage[pc] = 8 /\ Stage[pc'] = 9
    BY <2>1, StageNumbers
  <2>3. UNCHANGED Gear
    BY <1>8 DEF initialize_tss, modules, chips
  <2>4. Reached(8)'
    BY <1>0, <2>1, <2>2, <2>3, EquippedAt, ReachedKept
  <2>5. Reached(9)'
    BY <2>1, <2>4 DEF Reached
  <2>6. ~timerOn
    BY <2>1, <2>2, EquippedAt
  <2> QED BY <2>1, <2>2, <2>5, <2>6, EquippedMoves
<1>9. CASE calibrate_apic
  <2>1. pc = "calibrate" /\ timerOn' = timerOn /\ irr' = irr /\ idt' = idt /\ ready' = ready
    BY <1>9 DEF calibrate_apic
  <2>2. Stage[pc] = 9
    BY <2>1, StageNumbers
  <2>3. Reached(9)
    BY <2>2, EquippedAt
  <2>4. lapic = "on"
    BY <2>3 DEF Reached
  <2>5. pc' = "unmasked" /\ iflag' = iflag
    BY <1>9, <2>4 DEF calibrate_apic
  <2>6. Stage[pc'] = 10
    BY <2>5, StageNumbers
  <2>7. UNCHANGED Gear
    BY <1>9 DEF calibrate_apic, modules
  <2>8. Reached(9)'
    BY <1>0, <2>1, <2>3, <2>7, ReachedKept
  <2>9. Reached(10)'
    BY <2>8 DEF Reached
  <2> QED BY <1>b, <2>1, <2>2, <2>5, <2>6, <2>9
<1>9a. CASE StartCounter
  <2>1. /\ pc = "unmasked" /\ pc' = "calibrating" /\ iflag' = iflag /\ timerOn' = timerOn
        /\ irr' = irr /\ idt' = idt /\ ready' = ready
    BY <1>9a DEF StartCounter, Step
  <2>2. Stage[pc] = 10 /\ Stage[pc'] = 10
    BY <2>1, StageNumbers
  <2>3. UNCHANGED Gear
    BY <1>9a DEF StartCounter, modules, chips
  <2>4. Reached(10)'
    BY <1>0, <2>1, <2>2, <2>3, EquippedAt, ReachedKept
  <2> QED BY <1>b, <2>1, <2>2, <2>4
<1>10. CASE Calibrated
  <2>1. /\ pc = "calibrating" /\ pc' = "rtc_wait" /\ iflag' = iflag /\ timerOn' = timerOn
        /\ irr' = irr /\ idt' = idt /\ ready \subseteq ready'
    BY <1>10 DEF Calibrated
  <2>2. Stage[pc] = 10 /\ Stage[pc'] = 11
    BY <2>1, StageNumbers
  <2>3. UNCHANGED Gear
    BY <1>10 DEF Calibrated, modules
  <2>4. Reached(10)'
    BY <1>0, <2>1, <2>2, <2>3, EquippedAt, ReachedKept
  <2>5. Reached(11)'
    BY <2>4 DEF Reached
  <2> QED BY <1>b, <2>1, <2>2, <2>5
<1>11. CASE is_rtc_updating
  <2>1. /\ pc \in {"rtc_wait", "rtc_again"} /\ pc' \in {"rtc_read", "rtc_reread"}
        /\ iflag' = iflag /\ timerOn' = timerOn /\ irr' = irr /\ idt' = idt /\ ready' = ready
    BY <1>11, SMTT(30) DEF is_rtc_updating, timing
  <2>2. Stage[pc] = 11 /\ Stage[pc'] = 11
    BY <2>1, StageNumbers, SMTT(30)
  <2>3. UNCHANGED Gear
    BY <1>11 DEF is_rtc_updating, modules, chips
  <2>4. Reached(11)'
    BY <1>0, <2>1, <2>2, <2>3, EquippedAt, ReachedKept
  <2> QED BY <1>b, <2>1, <2>2, <2>4, SMTT(30)
<1>12. CASE read_rtc_register
  <2>1. UNCHANGED <<pc, ready, iflag, idt, timerOn, irr>>
    BY <1>12 DEF read_rtc_register, timing
  <2>2. UNCHANGED Gear
    BY <1>12 DEF read_rtc_register, modules, chips
  <2> QED BY <1>0, <2>1, <2>2, EquippedQuiet
<1>13. CASE read_rtc_time
  <2>1. /\ pc \in {"rtc_read", "rtc_reread"} /\ pc' \in {"rtc_again", "seek"}
        /\ iflag' = iflag /\ timerOn' = timerOn /\ irr' = irr /\ idt' = idt /\ ready' = ready
    BY <1>13, SMTT(30) DEF read_rtc_time, timing
  <2>2. Stage[pc] = 11 /\ Stage[pc'] \in {11, 12}
    BY <2>1, StageNumbers, SMTT(30)
  <2>3. UNCHANGED Gear
    BY <1>13, SMTT(30) DEF read_rtc_time, modules, chips
  <2>4. Reached(11)'
    BY <1>0, <2>1, <2>2, <2>3, EquippedAt, ReachedKept, SMTT(30)
  <2>5. Reached(12)'
    BY <2>4 DEF Reached
  <2> QED BY <1>b, <2>1, <2>2, <2>4, <2>5, SMTT(30)
<1>14. CASE FindExecutable
  <2>1. /\ pc = "seek" /\ pc' = "ps2" /\ iflag' = iflag /\ timerOn' = timerOn /\ irr' = irr
        /\ idt' = idt /\ ready' = ready
    BY <1>14, SMTT(30) DEF FindExecutable, Step, timing
  <2>2. Stage[pc] = 12 /\ Stage[pc'] = 13
    BY <2>1, StageNumbers
  <2>3. Reached(12)
    BY <2>2, EquippedAt, SMTT(30)
  <2>4. tar_module # 0
    BY <1>c, <2>3, SMTT(30) DEF Reached
  <2>5. elf_start' = board.modules[tar_module].exec
    BY <1>14, <2>4, Zenon DEF FindExecutable
  <2>6. UNCHANGED <<sdt, elf_module, tar_module, lapic, picLive, ioapic>>
    BY <1>14, Zenon DEF FindExecutable, chips
  <2>7. Reached(13)'
    BY <1>0, <1>a, <2>1, <2>3, <2>5, <2>6 DEF Reached
  <2> QED BY <1>b, <2>1, <2>2, <2>7, SMTT(30)
<1>15. CASE KernelParts
  <2>1. ready' = ready \cup {pc}
    BY <1>15 DEF KernelParts
  <2>2. UNCHANGED <<iflag, idt, irr, timerOn>>
    BY <1>15 DEF KernelParts, timing
  <2>3. UNCHANGED Gear
    BY <1>15 DEF KernelParts, modules, chips
  <2>4. \/ pc = "ps2" /\ pc' = "vmm"
        \/ pc = "vmm" /\ pc' = "scheduler"
        \/ pc = "scheduler" /\ pc' = "idle"
        \/ pc = "idle" /\ pc' = "elf"
    BY <1>15, PartsInOrder, SMTT(30)
  <2>5. PICK k \in 13..16 : k = Stage[pc] /\ Stage[pc'] = k + 1
    BY <2>4, StageNumbers, SMTT(30)
  <2>6. (k = 15 => pc = "scheduler") /\ (k = 16 => pc = "idle")
    BY <2>4, <2>5, StageNumbers, SMTT(30)
  <2>7. Reached(k)'
    BY <1>0, <2>1, <2>2, <2>3, <2>5, EquippedAt, ReachedKept, SMTT(30)
  <2>8. Reached(k + 1)'
    BY <2>1, <2>6, <2>7 DEF Reached
  <2>9. pc # "loop" /\ pc' # "halted"
    BY <2>4
  <2> QED BY <1>b, <2>2, <2>5, <2>8, <2>9
<1>16. CASE CreateElfTask
  <2>1. pc = "elf" /\ timerOn' = timerOn /\ irr' = irr /\ idt' = idt
    BY <1>16, SMTT(30) DEF CreateElfTask, timing
  <2>2. Stage[pc] = 17
    BY <2>1, StageNumbers
  <2>3. Reached(17)
    BY <2>2, EquippedAt
  <2>4. /\ tar_module = Last("ustar") /\ elf_module = Last("elf")
        /\ elf_start = board.modules[tar_module].exec
    BY <2>3, SMTT(30) DEF Reached
  <2>5. Program = "elf"
    BY <1>0, <2>4, ProgramIsElf, SMTT(30)
  <2>6. pc' = "files" /\ ready' = ready \cup {"elf"} /\ iflag' = iflag
    BY <1>16, <2>5, SMTT(30) DEF CreateElfTask
  <2>7. Stage[pc'] = 18
    BY <2>6, StageNumbers, SMTT(30)
  <2>8. UNCHANGED Gear
    BY <1>16, SMTT(30) DEF CreateElfTask, modules, chips
  <2>9. Reached(17)'
    BY <1>0, <2>1, <2>3, <2>6, <2>8, ReachedKept, SMTT(30)
  <2>10. Reached(18)'
    BY <2>6, <2>9 DEF Reached
  <2> QED BY <1>b, <2>1, <2>2, <2>6, <2>7, <2>10, SMTT(30)
<1>17. CASE ReadFile
  <2>1. pc = "files" /\ timerOn' = timerOn /\ irr' = irr /\ idt' = idt
    BY <1>17, SMTT(30) DEF ReadFile, timing
  <2>2. Stage[pc] = 18
    BY <2>1, StageNumbers
  <2>3. Reached(18)
    BY <2>2, EquippedAt, SMTT(30)
  <2>4. tar_module # 0
    BY <1>c, <2>3, SMTT(30) DEF Reached
  <2>5. pc' = "timer" /\ ready \subseteq ready' /\ iflag' = iflag
    BY <1>17, <2>4, SMTT(30) DEF ReadFile
  <2>6. Stage[pc'] = 19
    BY <2>5, StageNumbers, SMTT(30)
  <2>7. UNCHANGED Gear
    BY <1>17, SMTT(30) DEF ReadFile, modules, chips
  <2>8. Reached(18)'
    BY <1>0, <2>1, <2>3, <2>5, <2>7, ReachedKept, SMTT(30)
  <2>9. Reached(19)'
    BY <2>8, SMTT(30) DEF Reached
  <2> QED BY <1>b, <2>1, <2>2, <2>5, <2>6, <2>9, SMTT(30)
<1>18. CASE start_apic_timer
  <2>1. /\ pc = "timer" /\ pc' = "loop" /\ timerOn' = TRUE /\ irr' = irr /\ idt' = idt
        /\ ready' = ready
    BY <1>18, SMTT(30) DEF start_apic_timer, Step
  <2>2. Stage[pc] = 19 /\ Stage[pc'] = 20 /\ Stage["calibrate"] = 9
    BY <2>1, StageNumbers, SMTT(30)
  <2>3. UNCHANGED Gear
    BY <1>18, SMTT(30) DEF start_apic_timer, modules, chips
  <2>4. Reached(19)'
    BY <1>0, <2>1, <2>2, <2>3, EquippedAt, ReachedKept, SMTT(30)
  <2>5. Reached(20)'
    BY <2>4 DEF Reached
  <2> QED BY <2>1, <2>2, <2>5, SMTT(30) DEF Equipped, Since
<1>19. CASE Serve
  <2>1. PICK v \in irr : interrupts_handler(v)
    BY <1>19, SMTT(30) DEF Serve
  <2>2. iflag /\ irr' = irr \ {v}
    BY <2>1, SMTT(30) DEF interrupts_handler
  <2>3. PICK n \in Nat : n = Stage[pc]
    BY StageNumbers DEF PinsInv
  <2>4. Reached(n) /\ n >= 9
    BY <2>2, <2>3, EquippedAt, SMTT(30)
  <2>5. v \in Vectors /\ Vectors \subseteq idt
    BY <2>4 DEF PinsInv, Reached
  <2>6. UNCHANGED <<pc, iflag>>
    BY <2>1, <2>5, Zenon DEF interrupts_handler, Vectors
  <2>7. UNCHANGED <<ready, idt, timerOn>>
    BY <2>1, SMTT(30) DEF interrupts_handler
  <2>8. UNCHANGED Gear
    BY <2>1 DEF interrupts_handler, modules, chips
  <2> QED BY <1>0, <2>2, <2>6, <2>7, <2>8, EquippedQuiet
<1>20. CASE PressKey
  <2>1. KEYBOARD_IRQ \in Pins
    BY DEF KEYBOARD_IRQ, Pins
  <2>2. PinOf(board, KEYBOARD_IRQ) \in Pins
    BY <1>0, <2>1, PinIsPin
  <2>3. irr' = irr \/ irr' \subseteq irr \cup {KEYBOARD_INTERRUPT, PIT_INTERRUPT}
    BY <1>20, <2>2, EdgeOnPin DEF PressKey
  <2>4. APIC_TIMER_INTERRUPT \in irr' => APIC_TIMER_INTERRUPT \in irr
    BY <2>3 DEF KEYBOARD_INTERRUPT, PIT_INTERRUPT, APIC_TIMER_INTERRUPT
  <2>5. UNCHANGED <<pc, ready, iflag, idt, timerOn>>
    BY <1>20, SMTT(30) DEF PressKey, timing
  <2>6. UNCHANGED Gear
    BY <1>20 DEF PressKey, modules, chips
  <2> QED BY <1>0, <2>4, <2>5, <2>6, EquippedQuiet
<1>21. CASE PassTime
  <2>1. 0 \in Pins
    BY DEF Pins
  <2>2. PinOf(board, 0) \in Pins
    BY <1>0, <2>1, PinIsPin, SMTT(30)
  <2>3. irr' = irr \/ irr' \subseteq irr \cup {KEYBOARD_INTERRUPT, PIT_INTERRUPT}
    BY <1>21, <2>2, EdgeOnPin, SMTT(30) DEF PassTime
  <2>4. APIC_TIMER_INTERRUPT \in irr' => APIC_TIMER_INTERRUPT \in irr
    BY <2>3 DEF KEYBOARD_INTERRUPT, PIT_INTERRUPT, APIC_TIMER_INTERRUPT
  <2>5. UNCHANGED <<pc, ready, iflag, idt, timerOn>>
    BY <1>21, SMTT(30) DEF PassTime
  <2>6. UNCHANGED Gear
    BY <1>21, SMTT(30) DEF PassTime, modules, chips
  <2> QED BY <1>0, <2>4, <2>5, <2>6, EquippedQuiet
<1>22. CASE ApicTimer
  <2>1. UNCHANGED <<pc, ready, iflag, idt, timerOn>> /\ timerOn
    BY <1>22, SMTT(30) DEF ApicTimer, timing
  <2>2. UNCHANGED Gear
    BY <1>22, SMTT(30) DEF ApicTimer, modules, chips
  <2> QED BY <1>0, <2>1, <2>2, EquippedQuiet, SMTT(30)
<1>23. CASE Spurious
  <2>1. APIC_TIMER_INTERRUPT \in irr' => APIC_TIMER_INTERRUPT \in irr
    BY <1>23, SMTT(30) DEF Spurious, APIC_TIMER_INTERRUPT, APIC_SPURIOUS_INTERRUPT
  <2>2. UNCHANGED <<pc, ready, iflag, idt, timerOn>>
    BY <1>23, SMTT(30) DEF Spurious, timing
  <2>3. UNCHANGED Gear
    BY <1>23, SMTT(30) DEF Spurious, modules, chips
  <2> QED BY <1>0, <2>1, <2>2, <2>3, EquippedQuiet
<1>24. CASE PicInterrupt
  <2>1. iflag /\ picLive
    BY <1>24, SMTT(30) DEF PicInterrupt
  <2>2. PICK n \in Nat : n = Stage[pc]
    BY StageNumbers DEF PinsInv
  <2>3. Reached(n) /\ n >= 9
    BY <2>1, <2>2, EquippedAt, SMTT(30)
  <2> QED BY <2>1, <2>3 DEF Reached
<1>25. CASE Clock
  <2>1. UNCHANGED <<pc, ready, iflag, idt, irr, timerOn>>
    BY <1>25, SMTT(30) DEF Clock, RtcAnnounce, RtcUpdate, timing
  <2>2. UNCHANGED Gear
    BY <1>25, SMTT(30) DEF Clock, RtcAnnounce, RtcUpdate, modules, chips
  <2> QED BY <1>0, <2>1, <2>2, EquippedQuiet, SMTT(30)
<1>26. CASE UNCHANGED vars
  <2>1. UNCHANGED <<pc, ready, iflag, idt, irr, timerOn>>
    BY <1>26, SMTT(30) DEF vars, timing
  <2>2. UNCHANGED Gear
    BY <1>26 DEF vars, modules, chips
  <2> QED BY <1>0, <2>1, <2>2, EquippedQuiet, SMTT(30)
<1> QED BY <1>1, <1>2, <1>3, <1>4, <1>5, <1>6, <1>7, <1>8, <1>9, <1>9a, <1>10, <1>11, <1>12, <1>13, SMTT(30),
          <1>14, <1>15, <1>16, <1>17, <1>18, <1>19, <1>20, <1>21, <1>22, <1>23, <1>24, <1>25,
          <1>26 DEF Next, Kernel

-----------------------------------------------------------------------------
(* The properties.                                                         *)

LEMMA BootInvariant == Spec => []BootInv
<1>1. Init => BootInv
  BY InitPins, InitCal, InitEquipped DEF BootInv, ExpectedInv
<1>2. BootInv /\ [Next]_vars => BootInv'
  <2> SUFFICES ASSUME BootInv, [Next]_vars PROVE BootInv'
    OBVIOUS
  <2>1. PinsInv' /\ CalInv'
    BY NextPins, NextCal DEF BootInv
  <2>2. board' = board
    BY BoardStays
  <2>3. ExpectedInv'
    BY <2>2, EquippedStep DEF BootInv, ExpectedInv
  <2> QED BY <2>1, <2>3 DEF BootInv
<1> QED BY <1>1, <1>2, PTL DEF Spec

\* On every board that is Supported, whatever interrupts come after the sti of
\* kernel_start and in whatever order, none of them ends in hlt, and the timer
\* is pending only when all that its handler uses is there.
THEOREM NothingUnexpected == Spec => []InterruptsExpected
<1>1. BootInv => InterruptsExpected
  <2> SUFFICES ASSUME BootInv, Supported(board) PROVE
        /\ pc # "halted"
        /\ APIC_TIMER_INTERRUPT \in irr => {"scheduler", "idle", "elf", "heap", "tss"} \subseteq ready
    BY DEF InterruptsExpected
  <2>1. Equipped
    BY DEF BootInv, ExpectedInv
  <2>2. ASSUME APIC_TIMER_INTERRUPT \in irr
        PROVE  {"scheduler", "idle", "elf", "heap", "tss"} \subseteq ready
    <3>1. pc = "loop"
      BY <2>1, <2>2, SMTT(30) DEF Equipped
    <3>2. Stage[pc] = 20
      BY <3>1, StageNumbers
    <3>3. Reached(20)
      BY <2>1, <3>2 DEF Equipped
    <3> QED BY <3>3 DEF Reached
  <2>3. pc # "halted"
    BY <2>1, SMTT(30) DEF Equipped
  <2> QED BY <2>2, <2>3
<1> QED BY <1>1, BootInvariant, PTL

\* Only the end of the calibration leads to the reading of the clock.
LEMMA OnlyCalibrated ==
  ASSUME [Next]_vars, pc = "calibrating", pc' = "rtc_wait"
  PROVE  Calibrated
BY PartsInOrder
   DEF Next, Kernel, init_idt, _init_basic_system, _syscalls_init, init_apic, init_ioapic,
       init_keyboard, SetIrqs, initialize_tss, calibrate_apic, StartCounter, is_rtc_updating,
       read_rtc_register, read_rtc_time, FindExecutable, CreateElfTask, ReadFile,
       start_apic_timer, Serve, interrupts_handler, PressKey, PassTime, ApicTimer, Spurious,
       PicInterrupt, Clock, RtcAnnounce, RtcUpdate, vars, Step, Halt, page_fault_handler

\* The base that calibrate_apic computes.
LEMMA CalibratedIsLong ==
  ASSUME CalInv, Calibrated, PinOf(board, KEYBOARD_IRQ) # PIT_IRQ
  PROVE  LongEnough
<1>0. /\ PitPeriod \in Nat \ {0} /\ ApicMax \in Nat /\ CALIBRATION_MS_TO_WAIT \in Nat \ {0}
      /\ ApicMax > CALIBRATION_MS_TO_WAIT * PitPeriod
  BY BootAssumption
<1>1. /\ pc = "calibrating" /\ pitTicks >= CALIBRATION_MS_TO_WAIT
      /\ timer_ticks_base' = elapsed \div CALIBRATION_MS_TO_WAIT
  BY DEF Calibrated
<1>2. elapsed \in Nat /\ phase \in Nat /\ pitTicks \in Nat /\ early \in Nat
  BY DEF CalInv
<1> DEFINE k == CALIBRATION_MS_TO_WAIT - early
           w == (k - 1) * PitPeriod + 1
<1>3. k \in Int /\ k <= CALIBRATION_MS_TO_WAIT /\ CALIBRATION_MS_TO_WAIT - 1 - early = k - 1
  BY <1>0, <1>2
<1>4. w \in Int /\ w <= elapsed
  <2>1. CASE k >= 1
    <3>1. pitTicks - early \in Nat /\ k \in Nat /\ k <= pitTicks - early /\ pitTicks > early
      BY <1>0, <1>1, <1>2, <1>3, <2>1
    <3>2. Periods(pitTicks - early)
      BY <1>1, <3>1 DEF CalInv
    <3>3. Periods(k)
      <4>1. PICK n \in Nat, j \in Nat : n = pitTicks - early /\ j = k /\ j <= n
        BY <3>1
      <4> HIDE DEF k
      <4> QED BY <1>2, <3>2, <4>1, FewerPeriods
    <3> HIDE DEF k
    <3>4. (k - 1) * PitPeriod \in Nat /\ (k - 1) * PitPeriod <= (CALIBRATION_MS_TO_WAIT - 1) * PitPeriod
      BY <1>0, <1>3, <3>1, <2>1
    <3>5. (CALIBRATION_MS_TO_WAIT - 1) * PitPeriod = CALIBRATION_MS_TO_WAIT * PitPeriod - PitPeriod
          /\ CALIBRATION_MS_TO_WAIT * PitPeriod \in Nat
      BY <1>0
    <3>6. w \in Nat /\ w <= ApicMax
      BY <1>0, <3>4, <3>5
    <3> QED BY <1>2, <3>3, <3>4, <3>6 DEF Periods
  <2>2. CASE k < 1
    <3> HIDE DEF k
    <3>1. (k - 1) * PitPeriod \in Int /\ (k - 1) * PitPeriod <= -PitPeriod
      BY <1>0, <1>3, <2>2
    <3> QED BY <1>0, <1>2, <3>1
  <2> QED BY <1>3, <2>1, <2>2
<1>5. w \div CALIBRATION_MS_TO_WAIT <= elapsed \div CALIBRATION_MS_TO_WAIT
  <2> HIDE DEF w
  <2> QED BY <1>0, <1>2, <1>4, DivMonotone
<1>6. (CALIBRATION_MS_TO_WAIT - 1 - early) * PitPeriod + 1 = w
  BY <1>3
<1>7. /\ w \div CALIBRATION_MS_TO_WAIT \in Int
      /\ elapsed \div CALIBRATION_MS_TO_WAIT \in Int
  <2> HIDE DEF w
  <2> QED BY <1>0, <1>2, <1>4, DivMonotone
<1> HIDE DEF w
<1> QED BY <1>1, <1>5, <1>6, <1>7 DEF LongEnough

\* However the interrupts of the PIT are delayed or lost, and however many of
\* them come before calibrate_apic starts the APIC counter, the base it
\* computes is that of the other ones' whole periods at least.
THEOREM CalibrationIsLong == Spec => CalibrationLongEnough
<1> DEFINE Long == pc = "calibrating" /\ pc' = "rtc_wait" /\ PinOf(board, KEYBOARD_IRQ) # PIT_IRQ => LongEnough
<1>1. BootInv /\ [Next]_vars => [Long]_vars
  BY OnlyCalibrated, CalibratedIsLong DEF BootInv
<1>2. CalibrationLongEnough <=> [][Long]_vars
  BY DEF CalibrationLongEnough, LongEnough
<1> HIDE DEF Long
<1> QED BY <1>1, <1>2, BootInvariant, PTL DEF Spec
=============================================================================
