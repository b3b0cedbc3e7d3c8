------------------------------ MODULE Scheduler ------------------------------
(***************************************************************************)
(* The round-robin scheduler of the kernel (kernel/scheduling) together    *)
(* with the code that drives it: the APIC timer interrupt, the SYS_EXIT    *)
(* and SYS_READ system calls and thread_sleep.                             *)
(*                                                                         *)
(* The machine has one core and every IDT gate is an interrupt gate, so a  *)
(* handler runs with interrupts off.  A call of schedule() is therefore    *)
(* one entry step followed by one step per iteration of its scan loop; no  *)
(* other action is enabled while the scan is in progress.  Thread code     *)
(* runs with interrupts on and can be preempted between any two steps.     *)
(*                                                                         *)
(* Time.  The code compares kernel_uptime with an absolute wakeup_time.    *)
(* Only their difference matters, and only until it is negative, so        *)
(* wakeup[t] is wakeup_time - kernel_uptime, cut off at -1.                *)
(*                                                                         *)
(* Every task is created with exactly one thread, so a thread also stands  *)
(* for its parent_task (cr3 is the owner of the loaded root page table).   *)
(*                                                                         *)
(* An operator whose name starts with mut_ is a wrong version of the one   *)
(* that follows it.  No definition uses it: it is there to show that a     *)
(* property notices the mistake.                                           *)
(***************************************************************************)
EXTENDS Integers, Sequences, FiniteSets

CONSTANTS Threads,    \* the thread_t objects that may be created
          idle,       \* the thread kernel_start stores in idle_thread
          Boot,       \* the context of kernel_start itself
          Null,       \* the NULL thread pointer
          NTicks,     \* SCHEDULER_NUMBER_OF_TICKS
          MaxMillis   \* the longest sleep a thread asks for

ASSUME SchedulerAssumption ==
  /\ idle \in Threads
  /\ Boot \notin Threads
  /\ Null \notin Threads
  /\ NTicks \in Nat
  /\ MaxMillis \in Nat

VARIABLES thread_list,       \* the singly linked run list, head first
          thread_list_size,
          current,           \* current_executing_thread
          status,            \* thread_t.status ("ABSENT": not created yet)
          ticks,             \* thread_t.ticks
          frame,             \* whose context thread_t.execution_frame holds
          wakeup,            \* thread_t.wakeup_time, relative to kernel_uptime
          due,               \* thread_sleep's local kernel_uptime + millis, relative
          pc,                \* where a thread is inside thread_sleep or sys_read
          cpu,               \* whose context the processor executes
          cr3,               \* whose root page table is loaded
          rsp0,              \* whose kernel stack kernel_tss.rsp0 points to
          timer_on,          \* start_apic_timer has been called
          irq,               \* the handler whose schedule() is scanning
          prev_tid,          \* schedule()'s prev_thread_tid
          cand               \* schedule()'s current_thread

queue_vars == <<thread_list, thread_list_size>>
cpu_vars   == <<current, frame, cpu, cr3, rsp0>>
time_vars  == <<wakeup, due>>
scan_vars  == <<irq, prev_tid, cand>>
vars == <<queue_vars, cpu_vars, time_vars, scan_vars, status, ticks, pc, timer_on>>

Statuses == {"ABSENT", "NEW", "RUN", "READY", "SLEEP", "DEAD"}
PCs      == {"run", "marked", "read", "stored", "trapped", "polling"}

-----------------------------------------------------------------------------
(* The run list.                                                           *)

Queued == {thread_list[i] : i \in 1..Len(thread_list)}

\* scheduler_delete_thread: unlink the node at position i, keep the order.
Unlink(l, i) == [j \in 1..(Len(l) - 1) |-> IF j < i THEN l[j] ELSE l[j + 1]]

\* scheduler_get_next_thread: the successor of current, or the head after the tail.
scheduler_get_next_thread(l, t) ==
  LET i == CHOOSE k \in 1..Len(l) : l[k] = t
  IN  IF i = Len(l) THEN l[1] ELSE l[i + 1]

Expired(t) == wakeup[t] < 0

-----------------------------------------------------------------------------
(* Boot: kernel_start creates the idle task first, then the others, and    *)
(* starts the timer last.                                                  *)

Init ==
  /\ thread_list = <<>> /\ thread_list_size = 0
  /\ current = Null
  /\ status = [t \in Threads |-> "ABSENT"]
  /\ ticks = [t \in Threads |-> 0]
  /\ frame = [t \in Threads |-> Null]
  /\ wakeup = [t \in Threads |-> 0] /\ due = [t \in Threads |-> 0]
  /\ pc = [t \in Threads |-> "run"]
  /\ cpu = Boot /\ cr3 = Boot /\ rsp0 = Boot
  /\ timer_on = FALSE
  /\ irq = "none" /\ prev_tid = Null /\ cand = Null

scheduler_add_thread(t) ==
  /\ thread_list' = <<t>> \o thread_list
  /\ thread_list_size' = thread_list_size + 1
  /\ current' = IF current = Null THEN t ELSE current

create_thread(t) ==
  /\ ~timer_on
  /\ status[t] = "ABSENT"
  /\ t = idle \/ status[idle] # "ABSENT"
  /\ status' = [status EXCEPT ![t] = "NEW"]
  /\ wakeup' = [wakeup EXCEPT ![t] = 0]
  /\ ticks' = [ticks EXCEPT ![t] = 0]
  /\ frame' = [frame EXCEPT ![t] = t]
  /\ scheduler_add_thread(t)
  /\ UNCHANGED <<due, scan_vars, pc, cpu, cr3, rsp0, timer_on>>

start_apic_timer ==
  /\ ~timer_on
  /\ status[idle] # "ABSENT"
  /\ timer_on' = TRUE
  /\ UNCHANGED <<queue_vars, cpu_vars, time_vars, scan_vars, status, ticks, pc>>

-----------------------------------------------------------------------------
(* schedule().                                                             *)

\* kernel_uptime++ seen from the relative clocks.
Elapse(clock) == [t \in Threads |-> IF clock[t] < 0 THEN -1 ELSE clock[t] - 1]

AdvanceUptime ==
  /\ wakeup' = Elapse(wakeup)
  /\ due' = Elapse(due)

TimePassesIf(handler) ==
  IF handler \in {"timer", "yield"} THEN AdvanceUptime ELSE UNCHANGED time_vars

\* A context goes on while its quantum lasts: ticks++ < SCHEDULER_NUMBER_OF_TICKS.
mut_stays_one_more(t) == t <= NTicks
Stays(t) == t < NTicks

\* The frame of a NEW thread is the one create_thread built: it is kept.
mut_saves_always(s) == FALSE
KeepsFrame(s) == s = "NEW"

\* The status an outgoing thread is left with.
mut_outgoing_stays_run(s) == s
mut_outgoing_revives(s) == IF s = "SLEEP" THEN s ELSE "READY"
Outgoing(s) == IF s \in {"SLEEP", "DEAD"} THEN s ELSE "READY"

\* The entry of schedule(), up to the first candidate.  st and tk are status
\* and ticks as the caller (handler h) leaves them.
ScheduleEntry(h, st, tk) ==
  LET s == st[current]
      t == IF s = "SLEEP" THEN NTicks ELSE tk[current]
  IN  /\ ticks' = [tk EXCEPT ![current] = t + 1]
      /\ \/ /\ Stays(t)
            /\ status' = st
            /\ TimePassesIf(h)
            /\ UNCHANGED <<frame, scan_vars>>
         \/ /\ ~Stays(t)
            /\ frame' = IF KeepsFrame(s) THEN frame ELSE [frame EXCEPT ![current] = cpu]
            /\ status' = [st EXCEPT ![current] = Outgoing(s)]
            /\ irq' = h
            /\ prev_tid' = current
            /\ cand' = scheduler_get_next_thread(thread_list, current)
            /\ UNCHANGED time_vars
      /\ UNCHANGED <<queue_vars, current, cpu, cr3, rsp0, timer_on>>

\* The ticks of the thread that gets the processor.
FreshQuantum(t) == [ticks EXCEPT ![t] = 0]

\* The end of schedule() and the return through the handler that called it.
Dispatch(t) ==
  /\ status' = [status EXCEPT ![t] = "RUN"]
  /\ ticks' = FreshQuantum(t)
  /\ current' = t
  /\ cr3' = t
  /\ rsp0' = t
  /\ cpu' = frame[t]
  /\ irq' = "none" /\ prev_tid' = Null /\ cand' = Null
  /\ TimePassesIf(irq)
  /\ UNCHANGED <<queue_vars, frame, pc, timer_on>>

Scanning == irq # "none"

mut_eligible_not_new(t) == status[t] = "READY" \/ (status[t] = "SLEEP" /\ Expired(t))
Eligible(t) == \/ status[t] \in {"READY", "NEW"}
               \/ status[t] = "SLEEP" /\ Expired(t)

ScanPick ==
  /\ Scanning /\ cand # prev_tid
  /\ Eligible(cand)
  /\ Dispatch(cand)

mut_delete_keeps_size(t) ==
  LET i == CHOOSE k \in 1..Len(thread_list) : thread_list[k] = t
  IN  thread_list' = Unlink(thread_list, i) /\ UNCHANGED thread_list_size
mut_delete_nothing(t) == UNCHANGED queue_vars
scheduler_delete_thread(t) ==
  LET i == CHOOSE k \in 1..Len(thread_list) : thread_list[k] = t
  IN  /\ thread_list' = Unlink(thread_list, i)
      /\ thread_list_size' = thread_list_size - 1

mut_reap_stale_next ==
  /\ Scanning /\ cand # prev_tid
  /\ status[cand] = "DEAD"
  /\ scheduler_delete_thread(cand)
  /\ prev_tid' = cand
  /\ cand' = scheduler_get_next_thread(thread_list, current)
  /\ UNCHANGED <<cpu_vars, time_vars, irq, status, ticks, pc, timer_on>>
ScanReap ==
  /\ Scanning /\ cand # prev_tid
  /\ status[cand] = "DEAD"
  /\ scheduler_delete_thread(cand)
  /\ prev_tid' = cand
  /\ cand' = scheduler_get_next_thread(thread_list', current)
  /\ UNCHANGED <<cpu_vars, time_vars, irq, status, ticks, pc, timer_on>>

ScanSkip ==
  /\ Scanning /\ cand # prev_tid
  /\ status[cand] # "DEAD" /\ ~Eligible(cand)
  /\ prev_tid' = cand
  /\ cand' = scheduler_get_next_thread(thread_list, current)
  /\ UNCHANGED <<queue_vars, cpu_vars, time_vars, irq, status, ticks, pc, timer_on>>

ScanIdle ==
  /\ Scanning /\ cand = prev_tid
  /\ Dispatch(idle)

Scan == ScanPick \/ ScanReap \/ ScanSkip \/ ScanIdle

-----------------------------------------------------------------------------
(* What the interrupted or calling context does.                           *)

\* The gate of vector 0x80 is an interrupt gate too, so the kernel code of
\* sys_read runs with interrupts off.
InterruptsOn == ~Scanning /\ (cpu \in Threads => pc[cpu] # "polling")

\* interrupts_handler, case APIC_TIMER_INTERRUPT.
TimerInterrupt ==
  /\ timer_on /\ InterruptsOn
  /\ ScheduleEntry("timer", status, ticks)
  /\ UNCHANGED pc

\* Thread t executes: it is on the processor and no handler is running.
Executes(t) == cpu = t /\ ~Scanning

\* syscall_dispatch, case SYS_EXIT: sys_thread_exit, then schedule.
SysExit(t) ==
  /\ Executes(t) /\ t # idle /\ pc[t] = "run"
  /\ ScheduleEntry("exit", [status EXCEPT ![current] = "DEAD"],
                           [ticks EXCEPT ![current] = NTicks])
  /\ UNCHANGED pc

\* thread_suicide_trap: DEAD, then an endless loop until the timer fires.
thread_suicide_trap(t) ==
  /\ Executes(t) /\ t # idle /\ pc[t] = "run"
  /\ status' = [status EXCEPT ![current] = "DEAD"]
  /\ pc' = [pc EXCEPT ![t] = "trapped"]
  /\ UNCHANGED <<queue_vars, cpu_vars, time_vars, scan_vars, ticks, timer_on>>

\* thread_sleep: status, then the read of the uptime, then wakeup_time, then
\* scheduler_yield, which raises the timer's own vector.
SleepMark(t) ==
  /\ Executes(t) /\ t # idle /\ pc[t] = "run"
  /\ status' = [status EXCEPT ![current] = "SLEEP"]
  /\ pc' = [pc EXCEPT ![t] = "marked"]
  /\ UNCHANGED <<queue_vars, cpu_vars, time_vars, scan_vars, ticks, timer_on>>

SleepReadUptime(t) ==
  /\ Executes(t) /\ pc[t] = "marked"
  /\ \E millis \in 0..MaxMillis : due' = [due EXCEPT ![t] = millis]
  /\ pc' = [pc EXCEPT ![t] = "read"]
  /\ UNCHANGED <<queue_vars, cpu_vars, wakeup, scan_vars, status, ticks, timer_on>>

SleepStore(t) ==
  /\ Executes(t) /\ pc[t] = "read"
  /\ wakeup' = [wakeup EXCEPT ![current] = due[t]]
  /\ pc' = [pc EXCEPT ![t] = "stored"]
  /\ UNCHANGED <<queue_vars, cpu_vars, due, scan_vars, status, ticks, timer_on>>

SleepYield(t) ==
  /\ Executes(t) /\ pc[t] = "stored"
  /\ pc' = [pc EXCEPT ![t] = "run"]
  /\ ScheduleEntry("yield", status, ticks)

thread_sleep(t) ==
  SleepMark(t) \/ SleepReadUptime(t) \/ SleepStore(t) \/ SleepYield(t)

\* syscall_dispatch, case SYS_READ: sys_read_keyboard polls its operation and
\* calls scheduler_yield until the operation is complete.  What completes it
\* is the keyboard's business (module SysRead).
SysReadBegin(t) ==
  /\ Executes(t) /\ t # idle /\ pc[t] = "run"
  /\ pc' = [pc EXCEPT ![t] = "polling"]
  /\ UNCHANGED <<queue_vars, cpu_vars, time_vars, scan_vars, status, ticks, timer_on>>

scheduler_yield(t) ==
  /\ Executes(t) /\ pc[t] = "polling"
  /\ ScheduleEntry("yield", status, ticks)
  /\ UNCHANGED pc

SysReadEnd(t) ==
  /\ Executes(t) /\ pc[t] = "polling"
  /\ pc' = [pc EXCEPT ![t] = "run"]
  /\ UNCHANGED <<queue_vars, cpu_vars, time_vars, scan_vars, status, ticks, timer_on>>

Poll == \E t \in Threads : scheduler_yield(t) \/ SysReadEnd(t)

-----------------------------------------------------------------------------
Next ==
  \/ \E t \in Threads : create_thread(t)
  \/ start_apic_timer
  \/ TimerInterrupt
  \/ Scan
  \/ Poll
  \/ \E t \in Threads :
       SysExit(t) \/ thread_suicide_trap(t) \/ thread_sleep(t) \/ SysReadBegin(t)

\* The APIC timer is periodic, and its interrupt stays pending while interrupts
\* are off: it is taken when they are on again, so it is strongly fair.  The
\* processor never stops in a handler, be it schedule() or sys_read's poll loop.
\* kernel_start reaches start_apic_timer; a thread need not do anything.
Fairness ==
  /\ WF_vars(start_apic_timer)
  /\ SF_vars(TimerInterrupt)
  /\ WF_vars(Scan)
  /\ WF_vars(Poll)

Spec == Init /\ [][Next]_vars /\ Fairness

-----------------------------------------------------------------------------
(* Properties.                                                             *)

\* Every variable keeps its type; in particular thread_t.ticks never passes
\* the quantum by more than the one increment of the switching tick.
TypeOK ==
  /\ thread_list \in Seq(Threads)
  /\ thread_list_size \in Nat
  /\ current \in Threads \cup {Null}
  /\ status \in [Threads -> Statuses]
  /\ ticks \in [Threads -> 0..(NTicks + 1)]
  /\ frame \in [Threads -> Threads \cup {Boot, Null}]
  /\ wakeup \in [Threads -> -1..MaxMillis]
  /\ due \in [Threads -> -1..MaxMillis]
  /\ pc \in [Threads -> PCs]
  /\ cpu \in Threads \cup {Boot}
  /\ cr3 \in Threads \cup {Boot}
  /\ rsp0 \in Threads \cup {Boot}
  /\ timer_on \in BOOLEAN
  /\ irq \in {"none", "timer", "yield", "exit"}
  /\ prev_tid \in Threads \cup {Null}
  /\ cand \in Threads \cup {Null}

\* The run list holds no thread twice, thread_list_size counts it (as
\* scheduler_get_queue_size does), no thread that can still run has dropped
\* out of it, and the idle thread stays at its tail.
RunListIntact ==
  /\ thread_list_size = Len(thread_list)
  /\ \A i, j \in 1..Len(thread_list) :
        thread_list[i] = thread_list[j] => i = j
  /\ \A t \in Threads : status[t] \notin {"ABSENT", "DEAD"} => t \in Queued
  /\ status[idle] # "ABSENT" =>
        Len(thread_list) > 0 /\ thread_list[Len(thread_list)] = idle

\* current_executing_thread is never unlinked, not even when it is DEAD:
\* scheduler_get_next_thread follows its next pointer.  The same holds of the
\* candidate schedule() is about to examine.
CurrentQueued ==
  /\ current # Null => current \in Queued
  /\ cand # Null => cand \in Queued

\* execution_frame of a thread always holds the thread's own context (never
\* the one of kernel_start, which runs while current_executing_thread is the
\* idle thread), and outside schedule() the context, the address space and
\* the kernel stack in use all belong to current_executing_thread.
OwnContext ==
  /\ \A t \in Threads : status[t] # "ABSENT" => frame[t] = t
  /\ cpu # Boot => cpu = current /\ cr3 = current /\ rsp0 = current
  /\ cpu = Boot => current \in {Null, idle}

\* At most one thread is RUN, and it is the one on the processor; while
\* schedule() looks for a successor there is none.
OneRunning ==
  \A t \in Threads : status[t] = "RUN" => t = cpu /\ ~Scanning

\* A context that runs outside schedule() has not used up its quantum: the
\* tick that would pass it enters the scan.
QuantumBound == current # Null /\ ~Scanning => ticks[current] <= NTicks

\* DEAD is final: no step revives a DEAD thread and none gives it the processor.
DeadIsFinal ==
  [][\A t \in Threads : status[t] = "DEAD" =>
        status'[t] = "DEAD" /\ (cpu' = t => cpu = t)]_vars

\* No starvation: the scan only looks at the successor of the running thread,
\* yet every created thread that is not DEAD gets the processor again, also
\* when it sleeps or sits in the list behind threads that sleep.
EveryThreadRuns ==
  \A t \in Threads :
    status[t] \in {"NEW", "READY", "SLEEP"} ~> status[t] = "RUN"

\* A DEAD thread is unlinked by scheduler_delete_thread in the end, although
\* only the successor of the running thread is ever reaped.
DeadIsReaped ==
  \A t \in Threads : status[t] = "DEAD" ~> t \notin Queued

\* What the comment in schedule() says of a thread placed to sleep: the yield
\* that ends thread_sleep makes schedule() look for another thread.
SleepTakesEffect ==
  [][\A t \in Threads : pc[t] = "stored" /\ pc'[t] = "run" => irq' # "none"]_vars
=============================================================================
