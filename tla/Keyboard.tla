------------------------------ MODULE Keyboard ------------------------------
(***************************************************************************)
(* Reading from the keyboard: the interrupt handler (kernel/hardware/      *)
(* keyboard.c), the list of pending operations of the PS/2 driver          *)
(* (drivers/ps2/ps2_keyboard_driver.c) and sys_read_keyboard               *)
(* (kernel/syscalls/sys_read.c).                                           *)
(*                                                                         *)
(* The keyboard sends scancode set 1: a key is sent as its code, preceded  *)
(* by 0xE0 for an extended key, with bit 7 set when it is released.  Every *)
(* byte raises one interrupt, and the controller takes the next key event  *)
(* when all bytes of the last one have been read.  A reader has at most    *)
(* one operation in the list, so the reader also names its operation.      *)
(* Characters are their ASCII codes.                                       *)
(*                                                                         *)
(* An operator whose name starts with mut_ is a wrong version of the one   *)
(* that follows it and is used by no definition.                           *)
(***************************************************************************)
EXTENDS Integers, Sequences, FiniteSets

CONSTANTS Keys,      \* the physical keys: [ext, code]
          Legend,    \* what a key means: [plain, shifted, modifier], 0 or {} if nothing
          Readers,   \* the threads that call sys_read
          Lengths,   \* the nbytes they ask for
          Garbage,   \* what memory nobody initialised may hold
          RingSize,  \* MAX_KEYB_BUFFER_SIZE
          Null

ASSUME KeyboardAssumption ==
  /\ Keys \subseteq [ext : BOOLEAN, code : (1..127) \ {96}]  \* 96 released is the prefix
  /\ Legend \in [Keys -> [plain : Nat, shifted : Nat, modifier : SUBSET STRING]]
  /\ Lengths \subseteq Nat
  /\ Garbage \subseteq 0..255
  /\ RingSize \in Nat \ {0}
  /\ Null \notin Readers

VARIABLES wire,               \* the bytes of the last key event not read yet
          event,              \* that key event, Null when all its bytes have been read
          down,               \* the keys held down
          decodes,            \* translation_enabled or scancode_set = 1
          keyboard_buffer,    \* the ring of key_status
          buf_position,
          current_modifiers,  \* the bits that are set
          extended_read,
          op,                 \* the reader's pending_operation_t
          buffer,             \* what the operation has put into its buffer
          _ps2_op_head,
          _ps2_op_tail,
          reading,            \* the reader is inside sys_read_keyboard
          ret,                \* what its last sys_read returned
          waiting             \* readers with an incomplete operation, oldest first

keyboard_vars == <<wire, event, down, decodes>>
ring_vars == <<keyboard_buffer, buf_position, current_modifiers, extended_read>>
list_vars == <<op, buffer, _ps2_op_head, _ps2_op_tail, waiting>>
vars == <<keyboard_vars, ring_vars, list_vars, reading, ret>>

EXTENDED_PREFIX == 224
KEY_RELEASE_MASK == 128
Modifiers == {"left_shift", "right_shift", "left_alt", "right_alt",
              "left_ctrl", "right_ctrl", "left_gui", "right_gui"}

NoKey == [code |-> 0, is_pressed |-> FALSE, modifiers |-> {}]
NoOp  == [length |-> 0, nbytes |-> 0, read |-> FALSE, next |-> Null]

-----------------------------------------------------------------------------
(* Decoding.                                                               *)

Released(scancode) == scancode >= KEY_RELEASE_MASK
Stripped(scancode) == scancode % KEY_RELEASE_MASK

\* The modifier bit a code stands for in the switch of translate.
mut_modifier_ignores_prefix(code, ext) ==
  CASE code = 29 -> {"left_ctrl"}
    [] code = 42 -> {"left_shift"}
    [] OTHER -> {}
ModifierOf(code, ext) ==
  CASE code = 29 -> {IF ext THEN "right_ctrl" ELSE "left_ctrl"}
    [] code = 56 -> {IF ext THEN "right_alt" ELSE "left_alt"}
    [] code = 91 -> {"left_gui"}
    [] code = 92 -> {"right_gui"}
    [] code = 42 -> {"left_shift"}
    [] code = 54 -> {"right_shift"}
    [] OTHER -> {}

update_modifiers(modifier, is_pressed) ==
  IF is_pressed THEN current_modifiers \cup modifier
                ELSE current_modifiers \ modifier

\* scancode_mappings: the identity up to F10, then F11, F12, NUM_LOCK,
\* SCROLL_LOCK and the keypad; beyond its 86 entries lies other memory.
scancode_mappings(i) ==
  CASE i < 69 -> {i}
    [] i \in {69, 70} -> {i + 18}
    [] i \in 71..85 -> {i - 2}
    [] OTHER -> Garbage

\* The codes translate may return for a byte that is not the prefix.
translate(scancode) ==
  LET code == Stripped(scancode)
  IN  scancode_mappings(IF code \in {91, 92} \/ code >= 96 THEN 0 ELSE code)

keymap == << 0, 1, 49, 50, 51, 52, 53, 54, 55, 56, 57, 48, 45, 61, 8,
             9, 113, 119, 101, 114, 116, 121, 117, 105, 111, 112, 91, 93, 10,
             0, 97, 115, 100, 102, 103, 104, 106, 107, 108, 59, 39, 96,
             0, 92, 122, 120, 99, 118, 98, 110, 109, 44, 46, 47, 0,
             0, 0, 32, 0,
             0, 0, 0, 0, 0, 0, 0, 0, 0, 0,
             0, 0, 0, 0,
             55, 56, 57, 45, 52, 53, 54, 43, 49, 50, 51, 48, 46 >>

Shifted(c) == IF c \in 97..122 THEN c - 32
              ELSE IF c \in 48..57 THEN c - 16 ELSE c

Shift == {"left_shift", "right_shift"}

\* The characters kgetch may return for a pressed key.
kgetch(key) ==
  LET chars == IF key.code < Len(keymap) THEN {keymap[key.code + 1]} ELSE Garbage
      shift == key.modifiers \cap Shift # {}
  IN  {IF shift THEN Shifted(c) ELSE c : c \in chars}

\* What the property about characters takes for granted: a key has the modifier
\* scancode set 1 gives it (the Windows keys are extended keys, the shift keys
\* are not), and the kernel's tables know the characters of the keys.
SetOneModifiers ==
  { <<FALSE, 29, "left_ctrl">>, <<TRUE, 29, "right_ctrl">>,
    <<FALSE, 42, "left_shift">>, <<FALSE, 54, "right_shift">>,
    <<FALSE, 56, "left_alt">>, <<TRUE, 56, "right_alt">>,
    <<TRUE, 91, "left_gui">>, <<TRUE, 92, "right_gui">> }

ASSUME LegendAssumption ==
  /\ \A k \in Keys :
       /\ <<k.ext, k.code>> \notin {<<TRUE, 42>>, <<TRUE, 54>>, <<FALSE, 91>>, <<FALSE, 92>>}
       /\ Legend[k].modifier = {m \in Modifiers : <<k.ext, k.code, m>> \in SetOneModifiers}
  /\ \A k \in Keys, held \in SUBSET Modifiers : \A c \in translate(k.code) :
       kgetch([code |-> c, is_pressed |-> TRUE, modifiers |-> held]) =
         {IF held \cap Shift # {} THEN Legend[k].shifted ELSE Legend[k].plain}

BUF_STEP(x) == IF x < RingSize - 1 THEN x + 1 ELSE 0

-----------------------------------------------------------------------------
(* The interrupt handler.                                                  *)

\* The readers that wait when the operation of r has got all its characters.
Without(w, r) ==
  LET i == CHOOSE k \in 1..Len(w) : w[k] = r
  IN  SubSeq(w, 1, i - 1) \o SubSeq(w, i + 1, Len(w))

mut_complete_one_early(n, o) == n + 1 >= o.length
Complete(n, o) == n = o.length

\* A character for the operation at the head of the list, if there is one.
Deliver(c) ==
  LET r == _ps2_op_head
      o == op[r]
      n == IF o.nbytes < o.length THEN o.nbytes + 1 ELSE o.nbytes
  IN  IF r = Null THEN UNCHANGED list_vars
      ELSE IF o.read THEN UNCHANGED list_vars
      ELSE /\ buffer' = IF o.nbytes < o.length
                        THEN [buffer EXCEPT ![r] = Append(@, c)] ELSE buffer
           /\ op' = [op EXCEPT ![r] = [o EXCEPT !.nbytes = n, !.read = Complete(n, o)]]
           /\ _ps2_op_head' = IF Complete(n, o) THEN o.next ELSE r
           /\ waiting' = IF n < o.length THEN waiting ELSE Without(waiting, r)
           /\ UNCHANGED _ps2_op_tail

\* The prefix is stored in the ring but the position stays.
HandlePrefix ==
  /\ extended_read' = TRUE
  /\ keyboard_buffer' = [keyboard_buffer EXCEPT ![buf_position].code = EXTENDED_PREFIX]
  /\ UNCHANGED <<buf_position, current_modifiers, list_vars>>

HandleKey(scancode) ==
  /\ extended_read' = FALSE
  /\ current_modifiers' =
       update_modifiers(ModifierOf(Stripped(scancode), extended_read), ~Released(scancode))
  /\ \E code \in translate(scancode) :
       LET key == [code |-> code, is_pressed |-> ~Released(scancode),
                   modifiers |-> current_modifiers']
       IN  /\ keyboard_buffer' = [keyboard_buffer EXCEPT ![buf_position] = key]
           /\ \/ Released(scancode) /\ UNCHANGED list_vars
              \/ ~Released(scancode) /\ \E c \in kgetch(key) : Deliver(c)
  /\ buf_position' = BUF_STEP(buf_position)

handle_keyboard_interrupt ==
  /\ wire # <<>>
  /\ wire' = Tail(wire)
  /\ \/ ~decodes /\ UNCHANGED <<ring_vars, list_vars>>
     \/ decodes /\ Head(wire) = EXTENDED_PREFIX /\ HandlePrefix
     \/ decodes /\ Head(wire) # EXTENDED_PREFIX /\ HandleKey(Head(wire))
  /\ event' = IF wire' = <<>> THEN Null ELSE event
  /\ UNCHANGED <<down, decodes, reading, ret>>

-----------------------------------------------------------------------------
(* sys_read_keyboard.                                                      *)

mut_add_at_head(r) ==
  /\ _ps2_op_head' = r
  /\ _ps2_op_tail' = IF _ps2_op_head = Null THEN r ELSE _ps2_op_tail
mut_add_keeps_tail(r) ==
  /\ _ps2_op_head' = IF _ps2_op_head = Null THEN r ELSE _ps2_op_head
  /\ UNCHANGED _ps2_op_tail
_ps2_keyboard_add_operation(r) ==
  /\ _ps2_op_head' = IF _ps2_op_head = Null THEN r ELSE _ps2_op_head
  /\ _ps2_op_tail' = r

\* The operation of reader r after it has been allocated and, unless nothing
\* is asked for, initialised; and the link from the tail to it.
NewOperation(r, n, g) ==
  LET fresh == [length |-> n, nbytes |-> IF n > 0 THEN 0 ELSE g,
                read |-> FALSE, next |-> Null]
  IN  [q \in Readers |->
         CASE q = r -> fresh
           [] q # r /\ n > 0 /\ _ps2_op_head # Null /\ q = _ps2_op_tail ->
                [op[q] EXCEPT !.next = r]
           [] OTHER -> op[q]]

SysReadCall(r) ==
  /\ reading[r] = FALSE
  /\ \E n \in Lengths, g \in Garbage :
       /\ op' = NewOperation(r, n, g)
       /\ \/ n > 0 /\ _ps2_keyboard_add_operation(r) /\ waiting' = Append(waiting, r)
          \/ n = 0 /\ UNCHANGED <<_ps2_op_head, _ps2_op_tail, waiting>>
  /\ reading' = [reading EXCEPT ![r] = TRUE]
  /\ ret' = [ret EXCEPT ![r] = 0]
  /\ UNCHANGED <<keyboard_vars, ring_vars, buffer>>

\* vm_copy_from_different_space found no mapping for the buffer.
SysReadUnmapped(r) ==
  /\ reading[r] = FALSE
  /\ ret' = [ret EXCEPT ![r] = 0]
  /\ UNCHANGED <<keyboard_vars, ring_vars, list_vars, reading>>

Finished(o) == o.nbytes >= o.length

\* The operation, which is never freed, is out of everybody's reach from here
\* on: it has left the list.
SysReadReturn(r) ==
  /\ reading[r] = TRUE
  /\ Finished(op[r])
  /\ ret' = [ret EXCEPT ![r] = op[r].nbytes]
  /\ reading' = [reading EXCEPT ![r] = FALSE]
  /\ op' = [op EXCEPT ![r] = NoOp] /\ buffer' = [buffer EXCEPT ![r] = <<>>]
  /\ UNCHANGED <<keyboard_vars, ring_vars, _ps2_op_head, _ps2_op_tail, waiting>>

-----------------------------------------------------------------------------
(* The keyboard.                                                           *)

Bytes(k, pressed) ==
  LET last == IF pressed THEN k.code ELSE k.code + KEY_RELEASE_MASK
  IN  IF k.ext THEN <<EXTENDED_PREFIX, last>> ELSE <<last>>

\* A key goes down, or repeats while it is held.
PressKey(k) ==
  /\ wire = <<>>
  /\ wire' = Bytes(k, TRUE)
  /\ event' = [key |-> k, pressed |-> TRUE]
  /\ down' = down \cup {k}
  /\ UNCHANGED <<decodes, ring_vars, list_vars, reading, ret>>

ReleaseKey(k) ==
  /\ wire = <<>> /\ k \in down
  /\ wire' = Bytes(k, FALSE)
  /\ event' = [key |-> k, pressed |-> FALSE]
  /\ down' = down \ {k}
  /\ UNCHANGED <<decodes, ring_vars, list_vars, reading, ret>>

-----------------------------------------------------------------------------
\* init_keyboard and _ps2_keyboard_driver_init.
Init ==
  /\ wire = <<>> /\ event = Null /\ down = {}
  /\ decodes \in BOOLEAN
  /\ keyboard_buffer = [i \in 0..(RingSize - 1) |-> NoKey]
  /\ buf_position = 0
  /\ current_modifiers = {} /\ extended_read = FALSE
  /\ op = [r \in Readers |-> NoOp] /\ buffer = [r \in Readers |-> <<>>]
  /\ _ps2_op_head = Null /\ _ps2_op_tail = Null /\ waiting = <<>>
  /\ reading = [r \in Readers |-> FALSE] /\ ret = [r \in Readers |-> 0]

Next ==
  \/ \E k \in Keys : PressKey(k) \/ ReleaseKey(k)
  \/ handle_keyboard_interrupt
  \/ \E r \in Readers : SysReadCall(r) \/ SysReadUnmapped(r) \/ SysReadReturn(r)

\* The interrupt of a byte on the wire is taken, and a reader that polls sees
\* that its operation is complete.  Nobody has to type or to read.
Fairness ==
  /\ WF_vars(handle_keyboard_interrupt)
  /\ \A r \in Readers : WF_vars(SysReadReturn(r))

Spec == Init /\ [][Next]_vars /\ Fairness

-----------------------------------------------------------------------------
(* Properties.                                                             *)

\* The linked list from _ps2_op_head is exactly the readers whose operation is
\* incomplete, in the order of their calls, whatever interrupts came between
\* the calls; _ps2_op_tail, which is not reset when the list runs empty, is its
\* last element whenever the next call relies on it.  An operation's read flag
\* is set exactly when it has all its characters, and then it has left the
\* list; the position in the ring stays inside the ring.
QueueIsFifo ==
  /\ _ps2_op_head = IF waiting = <<>> THEN Null ELSE Head(waiting)
  /\ waiting # <<>> => _ps2_op_tail = waiting[Len(waiting)]
  /\ \A i \in 1..Len(waiting) :
       op[waiting[i]].next = IF i = Len(waiting) THEN Null ELSE waiting[i + 1]
  /\ \A r \in Readers : op[r].nbytes < op[r].length =>
       Cardinality({i \in 1..Len(waiting) : waiting[i] = r}) = 1
  /\ \A r \in Readers : op[r].length > 0 =>
       /\ op[r].read <=> op[r].nbytes = op[r].length
       /\ op[r].nbytes = Len(buffer[r])
       /\ op[r].read => \A i \in 1..Len(waiting) : waiting[i] # r
  /\ buf_position \in 0..(RingSize - 1)

\* Between two key events current_modifiers are the modifiers of the keys held
\* down, the left and the right ones apart, whatever keys share their codes.
ModifiersAreHeld ==
  decodes /\ wire = <<>> =>
    current_modifiers = UNION {Legend[k].modifier : k \in down}

\* The character the keys held down mean.
Typed(k) ==
  IF \E m \in down : Legend[m].modifier \cap Shift # {}
  THEN Legend[k].shifted ELSE Legend[k].plain

\* A key press reaches the reader that has waited longest and no other, as the
\* character of the pressed key under the shift keys held at that time; a press
\* nobody waits for and a release reach nobody.
PressGoesToOldest ==
  [][\A r \in Readers : buffer'[r] # buffer[r] =>
       \/ buffer'[r] = <<>> /\ ~reading'[r]
       \/ /\ waiting # <<>> /\ r = Head(waiting)
          /\ event.pressed
          /\ buffer'[r] = Append(buffer[r], Typed(event.key))]_vars

\* As long as keys are pressed again and again, every reader is served in the
\* end: no operation is lost from the list and none stays behind a complete one.
ReadersServed ==
  []<><<\E k \in Keys : PressKey(k)>>_vars =>
    \A r \in Readers : reading[r] /\ decodes ~> ~reading[r]
=============================================================================
