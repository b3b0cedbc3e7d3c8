-------------------------- MODULE SchedulerProofs --------------------------
(***************************************************************************)
(* Proofs about Scheduler, for every set of threads, every quantum and     *)
(* every bound on the length of a sleep.                                   *)
(*                                                                         *)
(* The danger is scheduler_delete_thread unlinking the thread that         *)
(* current_executing_thread still points to.  It cannot: the candidate of  *)
(* a scan is always the successor of the current thread, so it is the      *)
(* current thread itself only in a list of one, and that one is the idle   *)
(* thread, which is never DEAD.                                            *)
(***************************************************************************)
EXTENDS Scheduler, SequenceTheorems, TLAPS

Elems(l) == {l[i] : i \in 1..Len(l)}
Injective(l) == \A i, j \in 1..Len(l) : l[i] = l[j] => i = j

\* A thread is in the list from its creation on, unless it is DEAD.
ListedAreCreated == \A t \in Threads : t \in Queued => status[t] # "ABSENT"

\* The idle thread neither sleeps nor exits.
IdleLives ==
  /\ status[idle] \in {"ABSENT", "NEW", "READY", "RUN"}
  /\ current = Null <=> status[idle] = "ABSENT"
  /\ timer_on => status[idle] # "ABSENT"
  /\ thread_list = <<>> <=> current = Null

\* kernel_start's own context is on the processor only until the first switch.
BootIsFirst ==
  /\ cpu = Boot /\ ~Scanning /\ current # Null => status[idle] = "NEW"
  /\ cpu # Boot \/ Scanning => timer_on

\* What schedule() knows in the middle of its scan.
ScanState ==
  IF Scanning
  THEN /\ current # Null
       /\ cand = scheduler_get_next_thread(thread_list, current)
  ELSE cand = Null /\ prev_tid = Null

Inv == /\ TypeOK /\ RunListIntact /\ CurrentQueued /\ OwnContext /\ OneRunning
       /\ QuantumBound /\ ListedAreCreated /\ IdleLives /\ BootIsFirst /\ ScanState

-----------------------------------------------------------------------------
(* The run list.                                                           *)

\* scheduler_get_next_thread stays inside the list, and returns its argument
\* only when the list holds nothing else.
LEMMA NextInList ==
  ASSUME NEW S, NEW l \in Seq(S), NEW t \in Elems(l), Injective(l)
  PROVE  /\ scheduler_get_next_thread(l, t) \in Elems(l)
         /\ scheduler_get_next_thread(l, t) \in S
         /\ scheduler_get_next_thread(l, t) = t => Len(l) = 1
<1> DEFINE i == CHOOSE k \in 1..Len(l) : l[k] = t
<1>1. i \in 1..Len(l) /\ l[i] = t
  BY DEF Elems
<1>2. scheduler_get_next_thread(l, t) = IF i = Len(l) THEN l[1] ELSE l[i + 1]
  BY DEF scheduler_get_next_thread
<1> HIDE DEF i
<1>3. Len(l) \in Nat /\ \A k \in 1..Len(l) : l[k] \in S
  BY ElementOfSeq, LenProperties
<1>4. 1 \in 1..Len(l) /\ (i # Len(l) => i + 1 \in 1..Len(l))
  BY <1>1, <1>3
<1>5. i = Len(l) /\ l[1] = t => Len(l) = 1
  BY <1>1, <1>4 DEF Injective
<1>6. i # Len(l) => l[i + 1] # t
  BY <1>1, <1>3, <1>4 DEF Injective
<1> QED BY <1>2, <1>3, <1>4, <1>5, <1>6 DEF Elems

\* Unlinking a node keeps the others, each once, and keeps the tail unless it
\* is the node that goes.
LEMMA UnlinkNode ==
  ASSUME NEW S, NEW l \in Seq(S), NEW i \in 1..Len(l), Injective(l)
  PROVE  /\ Unlink(l, i) \in Seq(S)
         /\ Len(Unlink(l, i)) = Len(l) - 1
         /\ Injective(Unlink(l, i))
         /\ Elems(Unlink(l, i)) = Elems(l) \ {l[i]}
         /\ i # Len(l) => Unlink(l, i)[Len(l) - 1] = l[Len(l)]
<1> DEFINE u == Unlink(l, i)
           n == Len(l) - 1
<1>1. n \in Nat /\ \A k \in 1..Len(l) : l[k] \in S
  BY ElementOfSeq, LenProperties
<1>2. u \in [1..n -> S]
  BY <1>1 DEF Unlink
<1>3. u \in Seq(S) /\ Len(u) = n
  <2>1. u \in Seq(S)
    BY <1>1, <1>2, SeqDef
  <2> QED BY <1>1, <1>2, <2>1, LenProperties
<1>4. \A j \in 1..n : u[j] = IF j < i THEN l[j] ELSE l[j + 1]
  BY DEF Unlink
<1> HIDE DEF u
<1>5. Injective(u)
  BY <1>1, <1>3, <1>4 DEF Injective
<1>6. \A j \in 1..n : u[j] \in Elems(l) /\ u[j] # l[i]
  BY <1>1, <1>4 DEF Injective, Elems
<1>7. ASSUME NEW k \in 1..Len(l), k # i PROVE l[k] \in Elems(u)
  <2>1. CASE k < i
    <3>1. k \in 1..n /\ u[k] = l[k]
      BY <1>1, <1>4, <2>1
    <3> QED BY <1>3, <3>1 DEF Elems
  <2>2. CASE k > i
    <3>1. k - 1 \in 1..n /\ u[k - 1] = l[k]
      BY <1>1, <1>4, <2>2
    <3> QED BY <1>3, <3>1 DEF Elems
  <2> QED BY <1>1, <1>7, <2>1, <2>2
<1>8. Elems(u) = Elems(l) \ {l[i]}
  BY <1>3, <1>6, <1>7, Zenon DEF Elems
<1>9. i # Len(l) => u[n] = l[Len(l)]
  BY <1>1, <1>4
<1> QED BY <1>3, <1>5, <1>8, <1>9 DEF u

\* Pushing a thread at the head of the list.
LEMMA PushHead ==
  ASSUME NEW S, NEW l \in Seq(S), NEW t \in S, t \notin Elems(l), Injective(l)
  PROVE  /\ <<t>> \o l \in Seq(S)
         /\ Len(<<t>> \o l) = Len(l) + 1
         /\ Injective(<<t>> \o l)
         /\ Elems(<<t>> \o l) = Elems(l) \cup {t}
         /\ (<<t>> \o l)[Len(l) + 1] = IF l = <<>> THEN t ELSE l[Len(l)]
<1> DEFINE p == <<t>> \o l
<1>1. Len(l) \in Nat /\ <<t>> \in Seq(S) /\ Len(<<t>>) = 1 /\ <<t>>[1] = t
  BY LenProperties
<1>2. p \in Seq(S) /\ Len(p) = Len(l) + 1
  BY <1>1, ConcatProperties
<1>3. p[1] = t /\ \A i \in 1..Len(l) : p[i + 1] = l[i]
  BY <1>1, ConcatProperties
<1> HIDE DEF p
<1>4. \A i \in 1..Len(p) : i = 1 \/ (i - 1 \in 1..Len(l) /\ p[i] = l[i - 1])
  BY <1>1, <1>2, <1>3
<1>5. Injective(p)
  <2>1. \A i \in 1..Len(p) : i # 1 => p[i] # t
    BY <1>4 DEF Elems
  <2>2. \A i, j \in 1..Len(p) : i # 1 /\ j # 1 /\ p[i] = p[j] => i - 1 = j - 1
    BY <1>4 DEF Injective
  <2>3. \A i, j \in 1..Len(p) : i - 1 = j - 1 => i = j
    BY <1>1, <1>2
  <2> QED BY <1>3, <2>1, <2>2, <2>3 DEF Injective
<1>6. Elems(p) \subseteq Elems(l) \cup {t}
  BY <1>3, <1>4 DEF Elems
<1>7. t \in Elems(p)
  BY <1>1, <1>2, <1>3 DEF Elems
<1>8. \A i \in 1..Len(l) : l[i] \in Elems(p)
  BY <1>1, <1>2, <1>3 DEF Elems
<1>9. p[Len(l) + 1] = IF l = <<>> THEN t ELSE l[Len(l)]
  BY <1>1, <1>3, EmptySeq
<1> QED BY <1>2, <1>5, <1>6, <1>7, <1>8, <1>9 DEF p, Elems

-----------------------------------------------------------------------------
(* The invariant.                                                          *)

LEMMA InitInv == Init => Inv
<1> SUFFICES ASSUME Init PROVE Inv
  OBVIOUS
<1> USE SchedulerAssumption DEF Init
<1>1. TypeOK
  <2>1. 0 \in 0..(NTicks + 1) /\ 0 \in -1..MaxMillis
    OBVIOUS
  <2>2. <<>> \in Seq(Threads)
    BY EmptySeq
  <2> QED BY <2>1, <2>2, Zenon DEF TypeOK, Statuses, PCs
<1>2. Len(thread_list) = 0 /\ Queued = {}
  BY EmptySeq DEF Queued
<1>3. RunListIntact
  BY <1>2 DEF RunListIntact
<1>4. CurrentQueued /\ OwnContext /\ OneRunning /\ QuantumBound
  BY DEF CurrentQueued, OwnContext, OneRunning, QuantumBound
<1>5. ListedAreCreated /\ IdleLives /\ BootIsFirst /\ ScanState
  BY <1>2 DEF ListedAreCreated, IdleLives, BootIsFirst, ScanState, Scanning
<1> QED BY <1>1, <1>3, <1>4, <1>5 DEF Inv

\* What the invariant says about the current thread.
LEMMA CurrentThread ==
  ASSUME Inv, current # Null
  PROVE  /\ current \in Threads /\ current \in Queued
         /\ status[current] # "ABSENT" /\ frame[current] = current
         /\ Injective(thread_list) /\ Queued = Elems(thread_list)
         /\ scheduler_get_next_thread(thread_list, current) \in Queued
         /\ scheduler_get_next_thread(thread_list, current) \in Threads
<1>1. current \in Threads /\ current \in Queued
  BY DEF Inv, TypeOK, CurrentQueued
<1>2. Injective(thread_list) /\ Queued = Elems(thread_list)
  BY DEF Inv, RunListIntact, Injective, Queued, Elems
<1>3. status[current] # "ABSENT" /\ frame[current] = current
  BY <1>1 DEF Inv, ListedAreCreated, OwnContext
<1>4. thread_list \in Seq(Threads)
  BY DEF Inv, TypeOK
<1> QED BY <1>1, <1>2, <1>3, <1>4, NextInList

\* The clocks stay in their range.
LEMMA TimeType ==
  ASSUME TypeOK, NEW h, TimePassesIf(h)
  PROVE  wakeup' \in [Threads -> -1..MaxMillis] /\ due' \in [Threads -> -1..MaxMillis]
<1>1. ASSUME NEW c \in [Threads -> -1..MaxMillis]
      PROVE  Elapse(c) \in [Threads -> -1..MaxMillis]
  BY <1>1, SchedulerAssumption DEF Elapse
<1>2. CASE h \in {"timer", "yield"}
  BY <1>1, <1>2, Zenon DEF TimePassesIf, AdvanceUptime, TypeOK
<1>3. CASE h \notin {"timer", "yield"}
  BY <1>3, Zenon DEF TimePassesIf, time_vars, TypeOK
<1> QED BY <1>2, <1>3

\* The entry of schedule(), from the timer, from a yield or from SYS_EXIT.
LEMMA EntryStep ==
  ASSUME Inv, ~Scanning, current # Null,
         timer_on, NEW h \in {"timer", "yield", "exit"}, NEW st \in [Threads -> Statuses],
         NEW tk \in [Threads -> 0..(NTicks + 1)], tk[current] <= NTicks,
         \A t \in Threads : t # current => st[t] = status[t],
         st[current] = status[current] \/ (st[current] = "DEAD" /\ current # idle),
         ScheduleEntry(h, st, tk), pc' \in [Threads -> PCs]
  PROVE  Inv'
<1> USE SchedulerAssumption
<1> DEFINE s == st[current]
           t == IF s = "SLEEP" THEN NTicks ELSE tk[current]
<1>1. TypeOK /\ RunListIntact /\ CurrentQueued /\ OwnContext /\ OneRunning
      /\ ListedAreCreated /\ IdleLives /\ BootIsFirst
  BY DEF Inv
<1>2. current \in Threads /\ current \in Queued /\ status[current] # "ABSENT"
      /\ frame[current] = current
  BY CurrentThread
<1>3. s \in Statuses /\ s # "ABSENT" /\ t \in 0..NTicks
  BY <1>2
<1>4. /\ ticks' = [tk EXCEPT ![current] = t + 1]
      /\ UNCHANGED <<thread_list, thread_list_size, current, cpu, cr3, rsp0, timer_on>>
  BY DEF ScheduleEntry, queue_vars
<1>5. ticks' \in [Threads -> 0..(NTicks + 1)]
  BY <1>2, <1>3, <1>4
<1>6. Queued' = Queued
  BY <1>4 DEF Queued
<1>7. CASE /\ Stays(t) /\ status' = st /\ TimePassesIf(h)
           /\ UNCHANGED <<frame, scan_vars>>
  <2>1. frame' = frame /\ irq' = irq /\ prev_tid' = prev_tid /\ cand' = cand
    BY <1>7 DEF scan_vars
  <2>2. TypeOK'
    BY <1>1, <1>4, <1>5, <1>7, <2>1, TimeType, Zenon DEF TypeOK
  <2>3. RunListIntact' /\ CurrentQueued' /\ ListedAreCreated'
    BY <1>1, <1>2, <1>3, <1>4, <1>6, <1>7, <2>1, Zenon
    DEF RunListIntact, CurrentQueued, ListedAreCreated
  <2>4. OwnContext' /\ OneRunning' /\ IdleLives' /\ ScanState'
    BY <1>1, <1>2, <1>3, <1>4, <1>7, <2>1
    DEF OwnContext, OneRunning, IdleLives, ScanState, Scanning, Inv
  <2>5. QuantumBound'
    BY <1>2, <1>3, <1>4, <1>7 DEF QuantumBound, Stays, TypeOK
  <2>6. BootIsFirst'
    BY <1>1, <1>2, <1>3, <1>4, <1>7, <2>1 DEF BootIsFirst, OwnContext, Scanning
  <2> QED BY <2>2, <2>3, <2>4, <2>5, <2>6 DEF Inv
<1>8. CASE /\ ~Stays(t)
           /\ frame' = IF KeepsFrame(s) THEN frame ELSE [frame EXCEPT ![current] = cpu]
           /\ status' = [st EXCEPT ![current] = Outgoing(s)]
           /\ irq' = h /\ prev_tid' = current
           /\ cand' = scheduler_get_next_thread(thread_list, current)
           /\ UNCHANGED time_vars
  <2>1. Scanning' /\ wakeup' = wakeup /\ due' = due
    BY <1>8 DEF Scanning, time_vars
  <2>2. cand' \in Threads /\ cand' \in Queued
    BY <1>8, CurrentThread
  <2>3. Outgoing(s) \in {"READY", "SLEEP", "DEAD"} /\ (Outgoing(s) = "DEAD" <=> s = "DEAD")
    BY DEF Outgoing
  <2>4. /\ status' \in [Threads -> Statuses]
        /\ status'[current] = Outgoing(s)
        /\ \A u \in Threads : u # current => status'[u] = status[u]
    BY <1>2, <1>8, <2>3 DEF Statuses
  <2>5. cpu = Boot => s = "NEW"
    BY <1>1, <1>2 DEF OwnContext, BootIsFirst
  <2>6. frame' = frame
    <3>1. cpu # Boot => cpu = current
      BY <1>1 DEF OwnContext
    <3>2. CASE s = "NEW"
      BY <1>8, <3>2 DEF KeepsFrame
    <3>3. CASE s # "NEW"
      <4>1. frame' = [frame EXCEPT ![current] = current]
        BY <1>8, <2>5, <3>1, <3>3, Zenon DEF KeepsFrame
      <4> QED BY <1>1, <1>2, <4>1 DEF TypeOK
    <3> QED BY <3>2, <3>3
  <2>7. TypeOK'
    BY <1>1, <1>2, <1>4, <1>5, <1>8, <2>1, <2>2, <2>4, <2>6, Zenon DEF TypeOK
  <2>8. RunListIntact' /\ CurrentQueued' /\ ListedAreCreated'
    BY <1>1, <1>2, <1>4, <1>6, <2>2, <2>3, <2>4, Zenon
    DEF RunListIntact, CurrentQueued, ListedAreCreated
  <2>9. OwnContext'
    BY <1>1, <1>2, <1>4, <2>4, <2>6 DEF OwnContext
  <2>10. OneRunning'
    BY <1>1, <1>2, <2>3, <2>4, <1>4 DEF OneRunning, OwnContext
  <2>11. IdleLives'
    <3>1. current = idle => Outgoing(s) = "READY"
      BY <1>1 DEF IdleLives, Outgoing
    <3> QED BY <1>1, <1>2, <1>4, <2>4, <3>1 DEF IdleLives
  <2>12. QuantumBound' /\ BootIsFirst'
    BY <1>4, <2>1 DEF QuantumBound, BootIsFirst
  <2>13. ScanState'
    BY <1>4, <1>8, <2>1 DEF ScanState
  <2> QED BY <2>7, <2>8, <2>9, <2>10, <2>11, <2>12, <2>13 DEF Inv
<1> QED BY <1>7, <1>8 DEF ScheduleEntry

\* The end of schedule(): a listed thread that is not DEAD gets the processor.
LEMMA DispatchStep ==
  ASSUME Inv, Scanning, NEW t \in Threads, t \in Queued, status[t] # "DEAD", Dispatch(t)
  PROVE  Inv'
<1> USE SchedulerAssumption
<1>1. TypeOK /\ RunListIntact /\ CurrentQueued /\ OwnContext /\ OneRunning
      /\ ListedAreCreated /\ IdleLives /\ BootIsFirst /\ ScanState
  BY DEF Inv
<1>2. /\ status' = [status EXCEPT ![t] = "RUN"]
      /\ ticks' = [ticks EXCEPT ![t] = 0]
      /\ current' = t /\ cr3' = t /\ rsp0' = t /\ cpu' = frame[t]
      /\ irq' = "none" /\ prev_tid' = Null /\ cand' = Null
      /\ UNCHANGED <<thread_list, thread_list_size, frame, pc, timer_on>>
  BY DEF Dispatch, FreshQuantum, queue_vars
<1>3. TimePassesIf(irq)
  BY DEF Dispatch
<1>4. status[t] # "ABSENT" /\ frame[t] = t
  BY <1>1 DEF ListedAreCreated, OwnContext
<1>5. Queued' = Queued /\ ~Scanning' /\ t # Boot /\ t # Null /\ current # Null
  BY <1>1, <1>2 DEF Queued, Scanning, ScanState
<1>6. status' \in [Threads -> Statuses] /\ ticks' \in [Threads -> 0..(NTicks + 1)]
  BY <1>1, <1>2 DEF TypeOK, Statuses
<1>7. TypeOK'
  BY <1>1, <1>2, <1>3, <1>4, <1>6, TimeType, Zenon DEF TypeOK
<1>8. RunListIntact'
  BY <1>1, <1>2, <1>4, <1>5, Zenon DEF RunListIntact, TypeOK
<1>9. CurrentQueued' /\ ListedAreCreated'
  BY <1>1, <1>2, <1>4, <1>5 DEF CurrentQueued, ListedAreCreated, TypeOK
<1>10. OwnContext'
  BY <1>1, <1>2, <1>4, <1>5 DEF OwnContext, TypeOK
<1>11. OneRunning'
  BY <1>1, <1>2, <1>4, <1>5 DEF OneRunning, TypeOK
<1>12. QuantumBound'
  BY <1>1, <1>2 DEF QuantumBound, TypeOK
<1>13. IdleLives'
  BY <1>1, <1>2, <1>4, <1>5 DEF IdleLives, TypeOK
<1>14. BootIsFirst' /\ ScanState'
  BY <1>1, <1>2, <1>4, <1>5 DEF BootIsFirst, ScanState
<1> QED BY <1>7, <1>8, <1>9, <1>10, <1>11, <1>12, <1>13, <1>14 DEF Inv

\* A DEAD successor is unlinked: it is neither the current nor the idle thread.
LEMMA ReapStep == ASSUME Inv, ScanReap PROVE Inv'
<1> USE SchedulerAssumption
<1>1. TypeOK /\ RunListIntact /\ CurrentQueued /\ OwnContext /\ OneRunning
      /\ ListedAreCreated /\ IdleLives /\ BootIsFirst /\ ScanState
      /\ Scanning /\ status[cand] = "DEAD"
  BY DEF Inv, ScanReap
<1>2. current # Null /\ cand = scheduler_get_next_thread(thread_list, current)
  BY <1>1 DEF ScanState
<1>3. /\ current \in Threads /\ cand \in Threads /\ current \in Queued /\ cand \in Queued
      /\ Injective(thread_list) /\ Queued = Elems(thread_list)
      /\ thread_list \in Seq(Threads)
  BY <1>1, <1>2, CurrentThread DEF TypeOK
<1>4. Len(thread_list) > 0 /\ thread_list[Len(thread_list)] = idle /\ cand # idle
  BY <1>1, <1>2 DEF RunListIntact, IdleLives
<1>5. cand # current
  <2>1. SUFFICES ASSUME cand = current PROVE FALSE
    OBVIOUS
  <2>2. Len(thread_list) = 1
    BY <1>2, <1>3, <2>1, NextInList, Zenon
  <2>3. current = thread_list[1]
    BY <1>3, <2>2 DEF Elems
  <2> QED BY <1>4, <2>1, <2>2, <2>3
<1> DEFINE i == CHOOSE k \in 1..Len(thread_list) : thread_list[k] = cand
<1>6. i \in 1..Len(thread_list) /\ thread_list[i] = cand
  BY <1>3 DEF Elems
<1>7. thread_list' = Unlink(thread_list, i) /\ thread_list_size' = thread_list_size - 1
  BY DEF ScanReap, scheduler_delete_thread
<1> HIDE DEF i
<1>8. /\ thread_list' \in Seq(Threads) /\ Len(thread_list') = Len(thread_list) - 1
      /\ Injective(thread_list') /\ Elems(thread_list') = Queued \ {cand}
      /\ thread_list'[Len(thread_list) - 1] = idle
  BY <1>3, <1>4, <1>6, <1>7, UnlinkNode
<1>9. Queued' = Queued \ {cand}
  BY <1>8, Zenon DEF Queued, Elems
<1>10. /\ prev_tid' = cand /\ cand' = scheduler_get_next_thread(thread_list', current)
       /\ UNCHANGED <<current, frame, cpu, cr3, rsp0, wakeup, due, irq, status, ticks, pc, timer_on>>
  BY DEF ScanReap, cpu_vars, time_vars
<1>11. cand' \in Threads /\ cand' \in Queued'
  BY <1>3, <1>5, <1>8, <1>9, <1>10, NextInList
<1>12. Len(thread_list) \in Nat /\ Len(thread_list') > 0
  <2>1. current \in Elems(thread_list')
    BY <1>3, <1>5, <1>8
  <2>2. Len(thread_list) \in Nat /\ Len(thread_list') \in Nat
    BY <1>3, <1>8, LenProperties
  <2> QED BY <2>1, <2>2 DEF Elems
<1>13. TypeOK'
  <2>1. thread_list_size' \in Nat
    BY <1>1, <1>4, <1>7, <1>12 DEF RunListIntact
  <2> QED BY <1>1, <1>3, <1>8, <1>10, <1>11, <2>1, Zenon DEF TypeOK
<1>14. RunListIntact'
  BY <1>1, <1>7, <1>8, <1>9, <1>10, <1>12 DEF RunListIntact, Injective
<1>15. CurrentQueued' /\ ListedAreCreated'
  BY <1>1, <1>3, <1>5, <1>9, <1>10, <1>11 DEF CurrentQueued, ListedAreCreated
<1>16. OwnContext' /\ OneRunning' /\ QuantumBound' /\ BootIsFirst'
  BY <1>1, <1>10 DEF OwnContext, OneRunning, QuantumBound, BootIsFirst, Scanning
<1>17. IdleLives'
  <2>1. thread_list' # <<>>
    BY <1>12, EmptySeq
  <2> QED BY <1>1, <1>2, <1>10, <2>1 DEF IdleLives
<1>18. ScanState'
  BY <1>1, <1>2, <1>10 DEF ScanState, Scanning
<1> QED BY <1>13, <1>14, <1>15, <1>16, <1>17, <1>18 DEF Inv

\* A successor that still sleeps is passed over.
LEMMA SkipStep == ASSUME Inv, ScanSkip PROVE Inv'
<1>1. current # Null /\ Scanning
  BY DEF Inv, ScanSkip, ScanState
<1>2. cand \in Threads /\ cand = scheduler_get_next_thread(thread_list, current)
  BY <1>1, CurrentThread DEF Inv, ScanState
<1>3. /\ prev_tid' = cand /\ cand' = cand
      /\ UNCHANGED <<thread_list, thread_list_size, current, frame, cpu, cr3, rsp0,
                     wakeup, due, irq, status, ticks, pc, timer_on>>
  BY <1>2 DEF ScanSkip, queue_vars, cpu_vars, time_vars
<1>4. TypeOK'
  BY <1>2, <1>3, Zenon DEF Inv, TypeOK
<1>5. RunListIntact' /\ CurrentQueued' /\ ListedAreCreated'
  BY <1>3 DEF Inv, RunListIntact, CurrentQueued, ListedAreCreated, Queued
<1>6. OwnContext' /\ OneRunning' /\ QuantumBound'
  BY <1>3 DEF Inv, OwnContext, OneRunning, QuantumBound, Scanning
<1>7. IdleLives' /\ BootIsFirst'
  BY <1>3 DEF Inv, IdleLives, BootIsFirst, Scanning
<1>8. ScanState'
  BY <1>1, <1>2, <1>3 DEF ScanState, Scanning
<1> QED BY <1>4, <1>5, <1>6, <1>7, <1>8 DEF Inv

LEMMA ScanStep == ASSUME Inv, Scan PROVE Inv'
<1> USE SchedulerAssumption
<1>1. Scanning /\ current # Null
  BY DEF Inv, Scan, ScanPick, ScanReap, ScanSkip, ScanIdle, ScanState
<1>2. cand \in Threads /\ cand \in Queued
  BY <1>1, CurrentThread DEF Inv, ScanState
<1>3. CASE ScanPick
  BY <1>1, <1>2, <1>3, DispatchStep DEF ScanPick, Eligible
<1>4. CASE ScanIdle
  <2>1. idle \in Queued /\ status[idle] # "DEAD"
    BY <1>1 DEF Inv, RunListIntact, IdleLives
  <2> QED BY <1>1, <1>4, <2>1, DispatchStep DEF ScanIdle
<1> QED BY <1>3, <1>4, ReapStep, SkipStep DEF Scan

\* kernel_start creates a thread, the idle thread first.
LEMMA CreateStep == ASSUME Inv, NEW t \in Threads, create_thread(t) PROVE Inv'
<1> USE SchedulerAssumption
<1>1. TypeOK /\ RunListIntact /\ CurrentQueued /\ OwnContext /\ OneRunning /\ QuantumBound
      /\ ListedAreCreated /\ IdleLives /\ BootIsFirst /\ ScanState
  BY DEF Inv
<1>2. /\ ~timer_on /\ status[t] = "ABSENT" /\ (t = idle \/ status[idle] # "ABSENT")
      /\ status' = [status EXCEPT ![t] = "NEW"]
      /\ frame' = [frame EXCEPT ![t] = t]
      /\ wakeup' = [wakeup EXCEPT ![t] = 0]
      /\ ticks' = [ticks EXCEPT ![t] = 0]
      /\ thread_list' = <<t>> \o thread_list
      /\ thread_list_size' = thread_list_size + 1
      /\ current' = (IF current = Null THEN t ELSE current)
      /\ UNCHANGED <<due, irq, prev_tid, cand, pc, cpu, cr3, rsp0, timer_on>>
  BY DEF create_thread, scheduler_add_thread, scan_vars
<1>3. thread_list \in Seq(Threads) /\ Injective(thread_list) /\ Queued = Elems(thread_list)
  BY <1>1 DEF TypeOK, RunListIntact, Injective, Queued, Elems
<1>4. t \notin Elems(thread_list)
  BY <1>1, <1>2, <1>3 DEF ListedAreCreated
<1>5. /\ thread_list' \in Seq(Threads) /\ Len(thread_list') = Len(thread_list) + 1
      /\ Injective(thread_list') /\ Elems(thread_list') = Queued \cup {t}
      /\ thread_list'[Len(thread_list) + 1] =
           IF thread_list = <<>> THEN t ELSE thread_list[Len(thread_list)]
  BY <1>2, <1>3, <1>4, PushHead
<1>6. Queued' = Queued \cup {t}
  BY <1>5, Zenon DEF Queued, Elems
<1>7. status' \in [Threads -> Statuses] /\ status'[t] = "NEW"
      /\ \A u \in Threads : u # t => status'[u] = status[u]
  BY <1>1, <1>2 DEF TypeOK, Statuses
<1>8. current' \in Threads /\ current' # Null /\ (t = idle <=> current = Null)
  <2>1. current = Null <=> status[idle] = "ABSENT"
    BY <1>1 DEF IdleLives
  <2>2. status[t] = "ABSENT" /\ (t = idle \/ status[idle] # "ABSENT")
    BY <1>2
  <2>3. current' = (IF current = Null THEN t ELSE current) /\ current \in Threads \cup {Null}
    BY <1>1, <1>2 DEF TypeOK
  <2> QED BY <2>1, <2>2, <2>3
<1>9. TypeOK'
  BY <1>1, <1>2, <1>5, <1>7, <1>8, SMTT(30) DEF TypeOK
<1>10. RunListIntact'
  <2>1. Len(thread_list) \in Nat
    BY <1>3, LenProperties
  <2>2. thread_list_size' = Len(thread_list')
    BY <1>1, <1>2, <1>5 DEF RunListIntact
  <2>3. \A u \in Threads : status'[u] \notin {"ABSENT", "DEAD"} => u \in Queued'
    BY <1>1, <1>6, <1>7 DEF RunListIntact
  <2>4. thread_list'[Len(thread_list')] = idle /\ Len(thread_list') > 0
    BY <1>1, <1>2, <1>5, <1>8, <2>1 DEF IdleLives, RunListIntact
  <2> QED BY <1>5, <2>2, <2>3, <2>4 DEF RunListIntact, Injective
<1>11. CurrentQueued' /\ ListedAreCreated'
  BY <1>1, <1>2, <1>6, <1>7 DEF CurrentQueued, ListedAreCreated
<1>12. OwnContext'
  <2>1. \A u \in Threads : status'[u] # "ABSENT" => frame'[u] = u
    BY <1>1, <1>2, <1>7, SMTT(30) DEF OwnContext, TypeOK
  <2>2. cpu # Boot => cpu = current /\ current # Null
    BY <1>1 DEF OwnContext, TypeOK
  <2> QED BY <1>1, <1>2, <1>8, <2>1, <2>2 DEF OwnContext
<1>13. OneRunning' /\ ScanState'
  <2>1. ~Scanning
    BY <1>1, <1>2 DEF BootIsFirst
  <2> QED BY <1>1, <1>2, <1>7, <2>1 DEF OneRunning, ScanState, Scanning
<1>14. QuantumBound'
  BY <1>1, <1>2, <1>8 DEF QuantumBound, Scanning, TypeOK
<1>15. IdleLives'
  BY <1>1, <1>2, <1>5, <1>7, <1>8, EmptySeq DEF IdleLives
<1>16. BootIsFirst'
  BY <1>1, <1>2, <1>7, <1>8 DEF BootIsFirst, Scanning
<1> QED BY <1>9, <1>10, <1>11, <1>12, <1>13, <1>14, <1>15, <1>16 DEF Inv

\* A step of the executing thread outside schedule(): it may mark itself.
LEMMA ThreadStep ==
  ASSUME Inv, ~Scanning, NEW st \in {"SLEEP", "DEAD"}, current # Null,
         status' = status \/ (current # idle /\ status' = [status EXCEPT ![current] = st]),
         pc' \in [Threads -> PCs],
         wakeup' \in [Threads -> -1..MaxMillis], due' \in [Threads -> -1..MaxMillis],
         UNCHANGED <<queue_vars, cpu_vars, scan_vars, ticks, timer_on>>
  PROVE  Inv'
<1> USE SchedulerAssumption
<1>1. TypeOK /\ RunListIntact /\ CurrentQueued /\ OwnContext /\ OneRunning
      /\ QuantumBound /\ ListedAreCreated /\ IdleLives /\ BootIsFirst /\ ScanState
  BY DEF Inv
<1>2. UNCHANGED <<thread_list, thread_list_size, current, frame, cpu, cr3, rsp0,
                  irq, prev_tid, cand, ticks, timer_on>>
  BY DEF queue_vars, cpu_vars, scan_vars
<1>3. current \in Threads /\ current \in Queued /\ status[current] # "ABSENT"
  BY CurrentThread
<1>4. /\ status' \in [Threads -> Statuses]
      /\ \A u \in Threads : \/ status'[u] = status[u]
                            \/ u = current /\ u # idle /\ status'[u] \in {"SLEEP", "DEAD"}
  BY <1>1, <1>3, Zenon DEF TypeOK, Statuses
<1>5. TypeOK'
  BY <1>1, <1>2, <1>4, Zenon DEF TypeOK
<1>6. RunListIntact' /\ CurrentQueued' /\ ListedAreCreated'
  BY <1>1, <1>2, <1>3, <1>4, SMTT(30) DEF RunListIntact, CurrentQueued, ListedAreCreated, Queued
<1>7. OwnContext' /\ OneRunning' /\ QuantumBound'
  BY <1>1, <1>2, <1>3, <1>4 DEF OwnContext, OneRunning, QuantumBound, Scanning
<1>8. IdleLives' /\ BootIsFirst' /\ ScanState'
  BY <1>1, <1>2, <1>4 DEF IdleLives, BootIsFirst, ScanState, Scanning
<1> QED BY <1>5, <1>6, <1>7, <1>8 DEF Inv

\* A thread that executes is the current one, and the timer has been started.
LEMMA ExecutingThread ==
  ASSUME Inv, NEW t \in Threads, Executes(t)
  PROVE  current = t /\ current # Null /\ timer_on /\ ~Scanning
BY SchedulerAssumption DEF Inv, Executes, OwnContext, BootIsFirst

LEMMA InvStep == Inv /\ [Next]_vars => Inv'
<1> SUFFICES ASSUME Inv, [Next]_vars PROVE Inv'
  OBVIOUS
<1> USE SchedulerAssumption
<1>0. TypeOK /\ QuantumBound /\ RunListIntact /\ CurrentQueued /\ ListedAreCreated
  BY DEF Inv
<1>1. CASE UNCHANGED vars
  <2>1. UNCHANGED <<thread_list, thread_list_size, current, frame, cpu, cr3, rsp0, wakeup, due,
                    irq, prev_tid, cand, status, ticks, pc, timer_on>>
    BY <1>1 DEF vars, queue_vars, cpu_vars, time_vars, scan_vars
  <2>2. TypeOK'
    BY <2>1, Zenon DEF Inv, TypeOK
  <2>3. RunListIntact' /\ CurrentQueued' /\ ListedAreCreated'
    <3>1. Queued' = Queued
      BY <2>1 DEF Queued
    <3>2. RunListIntact'
      BY <1>0, <2>1, <3>1 DEF RunListIntact
    <3> QED BY <1>0, <2>1, <3>1, <3>2 DEF CurrentQueued, ListedAreCreated
  <2>4. OwnContext' /\ OneRunning' /\ QuantumBound'
    BY <2>1 DEF Inv, OwnContext, OneRunning, QuantumBound, Scanning
  <2>5. IdleLives' /\ BootIsFirst' /\ ScanState'
    BY <2>1 DEF Inv, IdleLives, BootIsFirst, ScanState, Scanning
  <2> QED BY <2>2, <2>3, <2>4, <2>5 DEF Inv
<1>2. CASE start_apic_timer
  <2>1. /\ status[idle] # "ABSENT" /\ timer_on' = TRUE
        /\ UNCHANGED <<thread_list, thread_list_size, current, frame, cpu, cr3, rsp0, wakeup, due,
                       irq, prev_tid, cand, status, ticks, pc>>
    BY <1>2 DEF start_apic_timer, queue_vars, cpu_vars, time_vars, scan_vars
  <2>2. TypeOK'
    BY <2>1, Zenon DEF Inv, TypeOK
  <2>3. RunListIntact' /\ CurrentQueued' /\ ListedAreCreated'
    <3>1. Queued' = Queued
      BY <2>1 DEF Queued
    <3>2. RunListIntact'
      BY <1>0, <2>1, <3>1 DEF RunListIntact
    <3> QED BY <1>0, <2>1, <3>1, <3>2 DEF CurrentQueued, ListedAreCreated
  <2>4. OwnContext' /\ OneRunning' /\ QuantumBound'
    BY <2>1 DEF Inv, OwnContext, OneRunning, QuantumBound, Scanning
  <2>5. IdleLives' /\ BootIsFirst' /\ ScanState'
    BY <2>1 DEF Inv, IdleLives, BootIsFirst, ScanState, Scanning
  <2> QED BY <2>2, <2>3, <2>4, <2>5 DEF Inv
<1>3. ASSUME NEW h \in {"timer", "yield"}, ~Scanning, current # Null, timer_on,
             pc' \in [Threads -> PCs], ScheduleEntry(h, status, ticks)
      PROVE  Inv'
  <2>1. status \in [Threads -> Statuses] /\ ticks \in [Threads -> 0..(NTicks + 1)]
        /\ ticks[current] <= NTicks
    BY <1>0, <1>3, Zenon DEF TypeOK, QuantumBound
  <2>2. h \in {"timer", "yield", "exit"}
    BY <1>3
  <2> QED BY <1>0, <1>3, <2>1, <2>2, EntryStep
<1>4. CASE TimerInterrupt
  <2>1. current # Null
    BY <1>4 DEF Inv, IdleLives, TimerInterrupt
  <2> QED BY <1>0, <1>3, <1>4, <2>1 DEF TimerInterrupt, InterruptsOn, TypeOK
<1>5. ASSUME NEW t \in Threads, SysExit(t) PROVE Inv'
  <2> DEFINE st == [status EXCEPT ![current] = "DEAD"]
             tk == [ticks EXCEPT ![current] = NTicks]
  <2>1. current = t /\ t # idle /\ current # Null /\ timer_on /\ ~Scanning
    BY <1>5, ExecutingThread DEF SysExit
  <2>2. st \in [Threads -> Statuses] /\ st[current] = "DEAD"
        /\ \A u \in Threads : u # current => st[u] = status[u]
    BY <1>0, <2>1 DEF TypeOK, Statuses
  <2>3. tk \in [Threads -> 0..(NTicks + 1)] /\ tk[current] <= NTicks
    BY <1>0, <2>1 DEF TypeOK
  <2>4. ScheduleEntry("exit", st, tk) /\ pc' \in [Threads -> PCs]
    BY <1>0, <1>5 DEF SysExit, TypeOK
  <2> HIDE DEF st, tk
  <2> QED BY <2>1, <2>2, <2>3, <2>4, EntryStep
<1>6. ASSUME NEW t \in Threads, thread_suicide_trap(t) PROVE Inv'
  <2>1. current = t /\ t # idle /\ current # Null /\ ~Scanning
    BY <1>6, ExecutingThread DEF thread_suicide_trap
  <2>2. pc' \in [Threads -> PCs] /\ wakeup' = wakeup /\ due' = due
    BY <1>0, <1>6 DEF thread_suicide_trap, TypeOK, PCs, time_vars
  <2> QED BY <1>0, <1>6, <2>1, <2>2, ThreadStep DEF thread_suicide_trap, TypeOK
<1>7. ASSUME NEW t \in Threads, SleepMark(t) PROVE Inv'
  <2>1. current = t /\ t # idle /\ current # Null /\ ~Scanning
    BY <1>7, ExecutingThread DEF SleepMark
  <2>2. pc' \in [Threads -> PCs] /\ wakeup' = wakeup /\ due' = due
    BY <1>0, <1>7 DEF SleepMark, TypeOK, PCs, time_vars
  <2> QED BY <1>0, <1>7, <2>1, <2>2, ThreadStep DEF SleepMark, TypeOK
<1>8. ASSUME NEW t \in Threads, SleepReadUptime(t) PROVE Inv'
  <2>1. current # Null /\ ~Scanning
    BY <1>8, ExecutingThread DEF SleepReadUptime
  <2>2. pc' \in [Threads -> PCs] /\ due' \in [Threads -> -1..MaxMillis]
    <3>1. \A millis \in 0..MaxMillis : millis \in -1..MaxMillis
      OBVIOUS
    <3>2. due' \in [Threads -> -1..MaxMillis]
      BY <1>0, <1>8, <3>1 DEF SleepReadUptime, TypeOK
    <3> QED BY <1>0, <1>8, <3>2, Zenon DEF SleepReadUptime, TypeOK, PCs
  <2> QED BY <1>0, <1>8, <2>1, <2>2, ThreadStep, SMTT(30) DEF SleepReadUptime, TypeOK
<1>9. ASSUME NEW t \in Threads, SleepStore(t) PROVE Inv'
  <2>1. current # Null /\ ~Scanning
    BY <1>9, ExecutingThread DEF SleepStore
  <2>2. pc' \in [Threads -> PCs] /\ wakeup' \in [Threads -> -1..MaxMillis]
    BY <1>0, <1>9, Zenon DEF SleepStore, TypeOK, PCs
  <2> QED BY <1>0, <1>9, <2>1, <2>2, ThreadStep DEF SleepStore, TypeOK
<1>10. ASSUME NEW t \in Threads, SleepYield(t) PROVE Inv'
  <2>1. pc' \in [Threads -> PCs]
    BY <1>0, <1>10 DEF SleepYield, TypeOK, PCs
  <2> QED BY <1>3, <1>10, <2>1, ExecutingThread DEF SleepYield
<1>11. ASSUME NEW t \in Threads, SysReadBegin(t) \/ SysReadEnd(t) PROVE Inv'
  <2>1. current # Null /\ ~Scanning
    BY <1>11, ExecutingThread DEF SysReadBegin, SysReadEnd
  <2>2. /\ pc' = [pc EXCEPT ![t] = "polling"] \/ pc' = [pc EXCEPT ![t] = "run"]
        /\ UNCHANGED <<queue_vars, cpu_vars, time_vars, scan_vars, status, ticks, timer_on>>
    BY <1>11 DEF SysReadBegin, SysReadEnd
  <2>3. pc' \in [Threads -> PCs]
    BY <1>0, <2>2, Zenon DEF TypeOK, PCs
  <2>4. wakeup' \in [Threads -> -1..MaxMillis] /\ due' \in [Threads -> -1..MaxMillis]
    BY <1>0, <2>2, Zenon DEF TypeOK, time_vars
  <2> QED BY <2>1, <2>2, <2>3, <2>4, ThreadStep
<1>12. ASSUME NEW t \in Threads, scheduler_yield(t) PROVE Inv'
  BY <1>0, <1>3, <1>12, ExecutingThread DEF scheduler_yield, TypeOK
<1> QED
  BY <1>1, <1>2, <1>4, <1>5, <1>6, <1>7, <1>8, <1>9, <1>10, <1>11, <1>12, CreateStep, ScanStep
  DEF Next, Poll, thread_sleep

-----------------------------------------------------------------------------
(* The theorems.                                                           *)

\* Inv is an invariant of the scheduler.
THEOREM Invariance == Spec => []Inv
BY InitInv, InvStep, PTL DEF Spec

\* Every variable of the scheduler keeps its type.
THEOREM TypeCorrect == Spec => []TypeOK
<1>1. Inv => TypeOK
  BY DEF Inv
<1> QED BY <1>1, Invariance, PTL

\* scheduler_add_thread and scheduler_delete_thread keep the run list intact.
THEOREM RunListStaysIntact == Spec => []RunListIntact
<1>1. Inv => RunListIntact
  BY DEF Inv
<1> QED BY <1>1, Invariance, PTL

\* schedule() never unlinks the current thread, nor its own candidate.
THEOREM CurrentStaysQueued == Spec => []CurrentQueued
<1>1. Inv => CurrentQueued
  BY DEF Inv
<1> QED BY <1>1, Invariance, PTL

\* A context switch never mixes the contexts of two threads.
THEOREM ContextsNeverMix == Spec => []OwnContext
<1>1. Inv => OwnContext
  BY DEF Inv
<1> QED BY <1>1, Invariance, PTL

\* At most one thread is RUN, the one on the processor.
THEOREM OneThreadRuns == Spec => []OneRunning
<1>1. Inv => OneRunning
  BY DEF Inv
<1> QED BY <1>1, Invariance, PTL

\* No thread runs beyond its quantum.
THEOREM QuantumIsBound == Spec => []QuantumBound
<1>1. Inv => QuantumBound
  BY DEF Inv
<1> QED BY <1>1, Invariance, PTL

\* A step that ends a scan gives the processor to a thread that is not DEAD.
LEMMA DispatchSparesDead ==
  ASSUME Inv, NEW u \in Threads, status[u] # "DEAD", Dispatch(u), u \in Queued,
         NEW t \in Threads, status[t] = "DEAD"
  PROVE  status'[t] = "DEAD" /\ (cpu' = t => cpu = t)
<1>1. frame[u] = u /\ t # u
  BY SMTT(30) DEF Inv, OwnContext, ListedAreCreated
<1> QED BY <1>1 DEF Dispatch, Inv, TypeOK

\* A DEAD thread executes only in the endless loop of thread_suicide_trap.
DeadIsTrapped == \A t \in Threads : status[t] = "DEAD" /\ Executes(t) => pc[t] = "trapped"

LEMMA TrapStep == Inv /\ DeadIsTrapped /\ [Next]_vars => DeadIsTrapped'
<1> SUFFICES ASSUME Inv, DeadIsTrapped, [Next]_vars,
                    NEW t \in Threads, status'[t] = "DEAD", Executes(t)'
             PROVE  pc'[t] = "trapped"
  BY Zenon DEF DeadIsTrapped
<1> USE SchedulerAssumption
<1>0. status \in [Threads -> Statuses] /\ pc \in [Threads -> PCs] /\ ticks \in [Threads -> 0..(NTicks + 1)]
  BY Zenon DEF Inv, TypeOK
<1>2. ASSUME NEW h, NEW tk, ScheduleEntry(h, status, tk), h # "none", ~Scanning, pc' = pc
      PROVE  pc'[t] = "trapped"
  BY <1>2 DEF ScheduleEntry, DeadIsTrapped, Executes, Scanning
<1>3. CASE UNCHANGED vars
  BY <1>3 DEF vars, cpu_vars, scan_vars, DeadIsTrapped, Executes, Scanning
<1>4. CASE start_apic_timer
  BY <1>4 DEF start_apic_timer, cpu_vars, scan_vars, DeadIsTrapped, Executes, Scanning
<1>5. ASSUME NEW u \in Threads, create_thread(u) PROVE pc'[t] = "trapped"
  BY <1>0, <1>5 DEF create_thread, scan_vars, DeadIsTrapped, Executes, Scanning
<1>6. CASE TimerInterrupt
  BY <1>2, <1>6 DEF TimerInterrupt, InterruptsOn
<1>7. CASE Scan
  <2>1. Scanning /\ current # Null
    BY <1>7, SMTT(30) DEF Inv, Scan, ScanPick, ScanReap, ScanSkip, ScanIdle, ScanState
  <2>2. cand \in Threads /\ cand \in Queued
    BY <2>1, CurrentThread DEF Inv, ScanState
  <2>3. ASSUME NEW u \in Threads, u \in Queued, Dispatch(u) PROVE FALSE
    <3>1. frame[u] = u
      BY <2>3 DEF Inv, OwnContext, ListedAreCreated
    <3> QED BY <1>0, <2>3, <3>1 DEF Dispatch, Executes
  <2>4. idle \in Queued
    BY <2>1 DEF Inv, RunListIntact, IdleLives
  <2>5. CASE ScanReap \/ ScanSkip
    BY <2>1, <2>5 DEF ScanReap, ScanSkip, Executes, Scanning
  <2> QED BY <1>7, <2>2, <2>3, <2>4, <2>5 DEF Scan, ScanPick, ScanIdle
<1>8. ASSUME NEW u \in Threads, SysExit(u) PROVE pc'[t] = "trapped"
  <2>1. current = u
    BY <1>8, ExecutingThread DEF SysExit
  <2> DEFINE st == [status EXCEPT ![current] = "DEAD"]
             tk == [ticks EXCEPT ![current] = NTicks]
  <2>2. st[current] = "DEAD" /\ tk[current] = NTicks
    BY <1>0, <2>1
  <2>3. ScheduleEntry("exit", st, tk)
    BY <1>8 DEF SysExit
  <2> HIDE DEF st, tk
  <2>4. irq' = "exit"
    BY <2>2, <2>3 DEF ScheduleEntry, Stays
  <2> QED BY <2>4 DEF Executes, Scanning
<1>9. ASSUME NEW u \in Threads, thread_suicide_trap(u) PROVE pc'[t] = "trapped"
  <2>1. cpu' = cpu /\ cpu = u
    BY <1>9 DEF thread_suicide_trap, cpu_vars, Executes
  <2> QED BY <1>0, <1>9, <2>1 DEF thread_suicide_trap, Executes
<1>10. ASSUME NEW u \in Threads, SleepMark(u) PROVE FALSE
  <2>1. current = u /\ cpu' = u
    BY <1>10, ExecutingThread DEF SleepMark, cpu_vars, Executes
  <2> QED BY <1>0, <1>10, <2>1 DEF SleepMark, Executes
<1>11. ASSUME NEW u \in Threads, SleepReadUptime(u) \/ SleepStore(u) \/ SysReadBegin(u) \/ SysReadEnd(u)
       PROVE  FALSE
  <2>1. cpu = u /\ cpu' = u /\ status' = status /\ pc[u] # "trapped" /\ ~Scanning
    BY <1>11 DEF SleepReadUptime, SleepStore, SysReadBegin, SysReadEnd, cpu_vars, Executes
  <2> QED BY <2>1 DEF Executes, DeadIsTrapped
<1>12. ASSUME NEW u \in Threads, SleepYield(u) PROVE FALSE
  <2>1. cpu = u /\ cpu' = u /\ pc[u] # "trapped" /\ ~Scanning
    BY <1>12, Zenon DEF SleepYield, ScheduleEntry, Executes
  <2>2. status' = status \/ irq' = "yield"
    BY <1>12 DEF SleepYield, ScheduleEntry
  <2> QED BY <2>1, <2>2, SMTT(30) DEF Executes, DeadIsTrapped, Scanning
<1>13. ASSUME NEW u \in Threads, scheduler_yield(u) PROVE pc'[t] = "trapped"
  BY <1>2, <1>13 DEF scheduler_yield, Executes
<1> QED
  BY <1>3, <1>4, <1>5, <1>6, <1>7, <1>8, <1>9, <1>10, <1>11, <1>12, <1>13, Zenon DEF Next, Poll, thread_sleep

\* No step of the scheduler revives a DEAD thread or runs one again.
LEMMA DeadStep ==
  ASSUME Inv, DeadIsTrapped, [Next]_vars, NEW t \in Threads, status[t] = "DEAD"
  PROVE  status'[t] = "DEAD" /\ (cpu' = t => cpu = t)
<1> USE SchedulerAssumption
<1>0. status \in [Threads -> Statuses]
  BY DEF Inv, TypeOK
<1>1. ASSUME NEW h, NEW st \in [Threads -> Statuses], NEW tk, st[t] = "DEAD",
             ScheduleEntry(h, st, tk)
      PROVE  status'[t] = "DEAD" /\ cpu' = cpu
  BY <1>1 DEF ScheduleEntry, Outgoing
<1>2. CASE UNCHANGED vars
  BY <1>2 DEF vars, cpu_vars
<1>3. CASE start_apic_timer
  BY <1>3 DEF start_apic_timer, cpu_vars
<1>4. ASSUME NEW u \in Threads, create_thread(u) PROVE status'[t] = "DEAD" /\ cpu' = cpu
  BY <1>0, <1>4 DEF create_thread
<1>5. CASE TimerInterrupt
  BY <1>0, <1>1, <1>5 DEF TimerInterrupt
<1>6. CASE Scan
  <2>1. Scanning /\ current # Null
    BY <1>6, SMTT(30) DEF Inv, Scan, ScanPick, ScanReap, ScanSkip, ScanIdle, ScanState
  <2>2. cand \in Threads /\ cand \in Queued
    BY <2>1, CurrentThread DEF Inv, ScanState
  <2>3. CASE ScanPick
    BY <2>2, <2>3, DispatchSparesDead DEF ScanPick, Eligible
  <2>4. CASE ScanIdle
    <3>1. idle \in Queued /\ status[idle] # "DEAD"
      BY <2>1 DEF Inv, RunListIntact, IdleLives
    <3> QED BY <2>4, <3>1, DispatchSparesDead DEF ScanIdle
  <2>5. CASE ScanReap \/ ScanSkip
    BY <2>5 DEF ScanReap, ScanSkip, cpu_vars
  <2> QED BY <1>6, <2>3, <2>4, <2>5 DEF Scan
<1>7. ASSUME NEW u \in Threads, SysExit(u) PROVE status'[t] = "DEAD" /\ cpu' = cpu
  <2> DEFINE st == [status EXCEPT ![current] = "DEAD"]
  <2>1. st \in [Threads -> Statuses] /\ st[t] = "DEAD"
    BY <1>0, Zenon DEF Statuses
  <2>2. ScheduleEntry("exit", st, [ticks EXCEPT ![current] = NTicks])
    BY <1>7 DEF SysExit
  <2> HIDE DEF st
  <2> QED BY <1>1, <2>1, <2>2
<1>8. ASSUME NEW u \in Threads, thread_suicide_trap(u) PROVE status'[t] = "DEAD" /\ cpu' = cpu
  BY <1>0, <1>8 DEF thread_suicide_trap, cpu_vars
<1>9. ASSUME NEW u \in Threads, SleepMark(u) PROVE status'[t] = "DEAD" /\ cpu' = cpu
  <2>1. current = u /\ Executes(u) /\ pc[u] = "run"
    BY <1>9, ExecutingThread DEF SleepMark
  <2>2. t # current
    BY <2>1 DEF DeadIsTrapped
  <2> QED BY <1>0, <1>9, <2>2 DEF SleepMark, cpu_vars
<1>10. ASSUME NEW u \in Threads, SleepReadUptime(u) \/ SleepStore(u) PROVE status' = status /\ cpu' = cpu
  BY <1>10 DEF SleepReadUptime, SleepStore, cpu_vars
<1>11. ASSUME NEW u \in Threads, SleepYield(u) \/ scheduler_yield(u)
       PROVE  status'[t] = "DEAD" /\ cpu' = cpu
  BY <1>0, <1>1, <1>11 DEF SleepYield, scheduler_yield
<1>12. ASSUME NEW u \in Threads, SysReadBegin(u) \/ SysReadEnd(u) PROVE status' = status /\ cpu' = cpu
  BY <1>12 DEF SysReadBegin, SysReadEnd, cpu_vars
<1> QED
  BY <1>2, <1>3, <1>4, <1>5, <1>6, <1>7, <1>8, <1>9, <1>10, <1>11, <1>12 DEF Next, Poll, thread_sleep

\* DEAD is final: no step of schedule(), of a system call or of thread_sleep
\* changes the status of a DEAD thread or gives it the processor.
THEOREM DeadStaysDead == Spec => DeadIsFinal
<1>1. Init => DeadIsTrapped
  BY DEF Init, DeadIsTrapped
<1>2. Inv /\ DeadIsTrapped /\ [Next]_vars =>
        [\A t \in Threads : status[t] = "DEAD" =>
           status'[t] = "DEAD" /\ (cpu' = t => cpu = t)]_vars
  BY DeadStep
<1> QED BY <1>1, <1>2, TrapStep, Invariance, PTL DEF Spec, DeadIsFinal
=============================================================================
