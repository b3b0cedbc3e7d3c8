------------------------------- MODULE SysRead -------------------------------
(***************************************************************************)
(* The read system call on the scheduler: the threads of module Scheduler  *)
(* are the readers of module Keyboard.                                     *)
(*                                                                         *)
(* A reader polls its operation inside the system call, with interrupts    *)
(* off, and calls scheduler_yield between two looks.  So a key can only    *)
(* be delivered while some other context runs, and the reader only finds   *)
(* out when the scheduler gives it the processor again.                    *)
(***************************************************************************)
EXTENDS Integers, Sequences, FiniteSets

CONSTANTS Threads, idle, Boot, Null, NTicks, MaxMillis,
          Keys, Legend, Lengths, Garbage, RingSize

VARIABLES thread_list, thread_list_size, current, status, ticks, frame, wakeup,
          due, pc, cpu, cr3, rsp0, timer_on, irq, prev_tid, cand
VARIABLES wire, event, down, decodes, keyboard_buffer, buf_position,
          current_modifiers, extended_read, op, buffer, _ps2_op_head,
          _ps2_op_tail, reading, ret, waiting

S == INSTANCE Scheduler
K == INSTANCE Keyboard WITH Readers <- Threads \ {idle}

scheduler_vars == <<thread_list, thread_list_size, current, status, ticks, frame,
                    wakeup, due, pc, cpu, cr3, rsp0, timer_on, irq, prev_tid, cand>>
keyboard_vars == <<wire, event, down, decodes, keyboard_buffer, buf_position,
                   current_modifiers, extended_read, op, buffer, _ps2_op_head,
                   _ps2_op_tail, reading, ret, waiting>>
vars == <<scheduler_vars, keyboard_vars>>
Users == Threads \ {idle}

Init == S!Init /\ K!Init

\* sys_read_keyboard up to the poll loop; or its early return.
ReadCall(t) ==
  \/ S!SysReadBegin(t) /\ K!SysReadCall(t)
  \/ S!Executes(t) /\ pc[t] = "run" /\ K!SysReadUnmapped(t) /\ UNCHANGED scheduler_vars

\* One look of the poll loop that finds the operation incomplete.
mut_poll_without_yield(t) ==
  /\ S!Executes(t) /\ pc[t] = "polling" /\ ~K!Finished(op[t])
  /\ UNCHANGED vars
PollYield(t) ==
  /\ S!scheduler_yield(t) /\ ~K!Finished(op[t])
  /\ UNCHANGED keyboard_vars

ReadReturn(t) == S!SysReadEnd(t) /\ K!SysReadReturn(t)

Poll == \E t \in Users : PollYield(t) \/ ReadReturn(t)

\* interrupts_handler, case KEYBOARD_INTERRUPT.
KeyboardInterrupt ==
  /\ S!InterruptsOn
  /\ K!handle_keyboard_interrupt
  /\ UNCHANGED scheduler_vars

Typing ==
  /\ \E k \in Keys : K!PressKey(k) \/ K!ReleaseKey(k)
  /\ UNCHANGED scheduler_vars

start_apic_timer == S!start_apic_timer /\ UNCHANGED keyboard_vars
TimerInterrupt == S!TimerInterrupt /\ UNCHANGED keyboard_vars
Scan == S!Scan /\ UNCHANGED keyboard_vars

OtherThreadStep(t) ==
  /\ S!create_thread(t) \/ S!SysExit(t) \/ S!thread_suicide_trap(t) \/ S!thread_sleep(t)
  /\ UNCHANGED keyboard_vars

Next ==
  \/ \E t \in Users : ReadCall(t)
  \/ Poll
  \/ KeyboardInterrupt
  \/ Typing
  \/ start_apic_timer \/ TimerInterrupt \/ Scan
  \/ \E t \in Threads : OtherThreadStep(t)

\* As in Scheduler; the keyboard's interrupt, too, stays pending while
\* interrupts are off.  Nobody has to type.
Fairness ==
  /\ WF_vars(start_apic_timer)
  /\ SF_vars(TimerInterrupt)
  /\ SF_vars(KeyboardInterrupt)
  /\ WF_vars(Scan)
  /\ WF_vars(Poll)

Spec == Init /\ [][Next]_vars /\ Fairness

-----------------------------------------------------------------------------
(* Properties.                                                             *)

\* A thread polls exactly while it is inside sys_read_keyboard, and it can only
\* die or sleep outside: an operation in the list belongs to a live reader.
ReadersAreAlive ==
  \A t \in Users :
    /\ pc[t] = "polling" <=> reading[t]
    /\ reading[t] => status[t] \in {"RUN", "READY"}
    /\ op[t].nbytes < op[t].length => reading[t]

\* Scheduler and keyboard keep their promises with readers that poll: the
\* composition implements both, their fairness included.  That a byte on the
\* wire is handled and that a reader notices its complete operation, which
\* Keyboard assumes, follows from the scheduling, although readers poll with
\* interrupts off.
PartsKept == S!Spec /\ K!Spec /\ []ReadersAreAlive

\* The user goes on pressing keys whenever the keyboard can send one.
KeepsTyping == WF_vars(Typing /\ event'.pressed)

\* A read completes when keys go on being pressed, whatever the others do: no
\* reader that polls with interrupts off keeps the keys from another, and no
\* operation is lost between calls.
ReadsComplete ==
  decodes /\ KeepsTyping => \A t \in Users : pc[t] = "polling" ~> pc[t] = "run"
=============================================================================
