--------------------------- MODULE KeyboardProofs ---------------------------
(***************************************************************************)
(* Proofs about Keyboard, for every set of keys and readers, every length  *)
(* of a read and every size of the ring.                                   *)
(*                                                                         *)
(* The list of operations (QueueInv) and the decoding of the bytes         *)
(* (DecodeInv) are proved apart: the list does not depend on what the      *)
(* bytes mean.  QueueIsFifo is not inductive as it stands: that the head   *)
(* of the list is not complete, and so is not passed over, needs to be     *)
(* known of every element, and that a reader is in the list at most once   *)
(* needs to be known together with the fact that a reader that is not      *)
(* inside sys_read has no operation.                                       *)
(***************************************************************************)
EXTENDS Keyboard, SequenceTheorems, FiniteSetTheorems, TLAPS

Operations == [length : Nat, nbytes : Nat, read : BOOLEAN, next : Readers \cup {Null}]

ListTypeOK ==
  /\ wire \in Seq(0..255)
  /\ buf_position \in 0..(RingSize - 1)
  /\ op \in [Readers -> Operations]
  /\ buffer \in [Readers -> Seq(Nat)]
  /\ _ps2_op_head \in Readers \cup {Null} /\ _ps2_op_tail \in Readers \cup {Null}
  /\ waiting \in Seq(Readers)
  /\ reading \in [Readers -> BOOLEAN]

Incomplete(r) == op[r].nbytes < op[r].length
Injective(w) == \A i, j \in 1..Len(w) : w[i] = w[j] => i = j
Elems(w) == {w[i] : i \in 1..Len(w)}

\* The linked list is the sequence waiting.
Linked ==
  /\ _ps2_op_head = IF waiting = <<>> THEN Null ELSE waiting[1]
  /\ waiting # <<>> => _ps2_op_tail = waiting[Len(waiting)]
  /\ \A i \in 1..Len(waiting) :
       op[waiting[i]].next = IF i = Len(waiting) THEN Null ELSE waiting[i + 1]

\* An operation that asks for something belongs to a call in progress and
\* counts what is in its buffer.
Counted(r) ==
  /\ op[r].length > 0 => /\ reading[r]
                         /\ op[r].nbytes <= op[r].length
                         /\ op[r].nbytes = Len(buffer[r])
                         /\ op[r].read <=> op[r].nbytes = op[r].length
  /\ op[r].length = 0 => buffer[r] = <<>>

QueueInv ==
  /\ ListTypeOK
  /\ Injective(waiting)
  /\ \A r \in Readers : Incomplete(r) <=> r \in Elems(waiting)
  /\ Linked
  /\ \A r \in Readers : Counted(r)

-----------------------------------------------------------------------------
(* Sequences.                                                              *)

\* The oldest reader leaves from the front.
LEMMA WithoutHead ==
  ASSUME NEW S, NEW w \in Seq(S), w # <<>>, Injective(w)
  PROVE  /\ Without(w, w[1]) \in Seq(S)
         /\ Len(Without(w, w[1])) = Len(w) - 1
         /\ \A i \in 1..(Len(w) - 1) : Without(w, w[1])[i] = w[i + 1]
<1> DEFINE i == CHOOSE k \in 1..Len(w) : w[k] = w[1]
<1>1. Len(w) \in Nat /\ 1 \in 1..Len(w)
  BY EmptySeq, LenProperties
<1>2. i \in 1..Len(w) /\ w[i] = w[1]
  BY <1>1
<1>3. i = 1
  BY <1>1, <1>2 DEF Injective
<1>4. Without(w, w[1]) = SubSeq(w, 1, i - 1) \o SubSeq(w, i + 1, Len(w))
  BY DEF Without
<1> HIDE DEF i
<1>5. Without(w, w[1]) = <<>> \o SubSeq(w, 2, Len(w))
  BY <1>1, <1>3, <1>4, SubSeqEmpty
<1>6. Tail(w) = SubSeq(w, 2, Len(w)) /\ Tail(w) \in Seq(S)
  BY TailIsSubSeq, HeadTailProperties
<1>7. Without(w, w[1]) = Tail(w)
  BY <1>5, <1>6, ConcatEmptySeq
<1> QED BY <1>7, HeadTailProperties

-----------------------------------------------------------------------------
(* Characters.                                                             *)

\* translate returns a code, and kgetch a character, whatever the byte is.
LEMMA TranslateType ==
  ASSUME NEW scancode \in 0..255, NEW code \in translate(scancode)
  PROVE  code \in Nat
<1> DEFINE stripped == scancode % 128
           i == IF stripped \in {91, 92} \/ stripped >= 96 THEN 0 ELSE stripped
<1>1. i \in Nat /\ code \in scancode_mappings(i)
  BY DEF translate, Stripped, KEY_RELEASE_MASK
<1> HIDE DEF i
<1> QED BY <1>1, KeyboardAssumption DEF scancode_mappings

LEMMA KeymapType ==
  /\ Len(keymap) = 86
  /\ \A i \in 1..86 : keymap[i] \in Nat
BY DEF keymap

LEMMA KgetchType ==
  ASSUME NEW key, key.code \in Nat, NEW c \in kgetch(key)
  PROVE  c \in Nat
<1> DEFINE chars == IF key.code < Len(keymap) THEN {keymap[key.code + 1]} ELSE Garbage
<1>1. \A d \in chars : d \in Nat
  <2>1. CASE key.code < Len(keymap)
    <3>1. key.code + 1 \in 1..86
      BY <2>1, KeymapType
    <3> QED BY <2>1, <3>1, KeymapType
  <2>2. CASE ~(key.code < Len(keymap))
    <3>1. chars = Garbage
      BY <2>2
    <3>2. Garbage \subseteq Nat
      BY KeyboardAssumption
    <3> QED BY <3>1, <3>2, Zenon
  <2> QED BY <2>1, <2>2
<1> HIDE DEF chars
<1>2. \E d \in chars : c = Shifted(d) \/ c = d
  BY DEF kgetch, chars
<1>3. \A d \in Nat : Shifted(d) \in Nat
  BY DEF Shifted
<1> QED BY <1>1, <1>2, <1>3

-----------------------------------------------------------------------------
(* The list of operations.                                                 *)

\* Nothing but the ring and the wire change: the list stays as it is.
LEMMA ListUntouched ==
  ASSUME QueueInv, UNCHANGED <<list_vars, reading>>,
         wire' \in Seq(0..255), buf_position' \in 0..(RingSize - 1)
  PROVE  QueueInv'
BY DEF QueueInv, ListTypeOK, Linked, Counted, Incomplete, Elems, Injective, list_vars

\* A character goes to the operation at the head, which leaves the list when
\* it is complete.
LEMMA DeliverKeepsQueue ==
  ASSUME QueueInv, NEW c \in Nat, Deliver(c), UNCHANGED reading,
         wire' \in Seq(0..255), buf_position' \in 0..(RingSize - 1)
  PROVE  QueueInv'
<1>0. Null \notin Readers
  BY KeyboardAssumption
<1>h. PICK r : r = _ps2_op_head
  OBVIOUS
<1> DEFINE o == op[r]
           n == o.nbytes + 1
<1>1. CASE r = Null \/ o.read
  <2>1. UNCHANGED list_vars
    BY <1>1, <1>h DEF Deliver
  <2> QED BY <2>1, ListUntouched
<1>2. CASE r # Null /\ ~o.read
  <2>1. /\ waiting \in Seq(Readers) /\ waiting # <<>> /\ r = waiting[1]
        /\ Len(waiting) \in Nat /\ Len(waiting) >= 1 /\ r \in Readers
    BY <1>2, <1>h, EmptySeq DEF QueueInv, ListTypeOK, Linked
  <2>2. r \in Elems(waiting)
    BY <2>1 DEF Elems
  <2>3. o \in Operations /\ o.nbytes < o.length /\ o.length > 0
    BY <2>1, <2>2 DEF QueueInv, ListTypeOK, Incomplete, Operations
  <2>4. /\ buffer' = [buffer EXCEPT ![r] = Append(@, c)]
        /\ op' = [op EXCEPT ![r] = [o EXCEPT !.nbytes = n, !.read = (n = o.length)]]
        /\ _ps2_op_head' = IF n = o.length THEN o.next ELSE r
        /\ waiting' = IF n < o.length THEN waiting ELSE Without(waiting, r)
        /\ _ps2_op_tail' = _ps2_op_tail
    BY <1>2, <1>h, <2>3 DEF Deliver, Complete
  <2>5. /\ op' \in [Readers -> Operations]
        /\ op'[r].nbytes = n /\ op'[r].length = o.length
        /\ op'[r].read <=> n = o.length
        /\ \A q \in Readers : op'[q].next = op[q].next
        /\ \A q \in Readers : q # r => op'[q] = op[q]
    <3>b. PICK b \in BOOLEAN : b = (n = o.length)
      BY Zenon
    <3> DEFINE p == [o EXCEPT !.nbytes = n, !.read = b]
    <3>1. /\ p \in Operations /\ p.nbytes = n /\ p.length = o.length
          /\ p.read = b
          /\ p.next = o.next
      <4>1. n \in Nat
        BY <2>3 DEF Operations
      <4>2. o \in Operations
        BY <2>3
      <4> HIDE DEF o, n
      <4> QED BY <4>1, <4>2, Zenon DEF Operations
    <3>2. op \in [Readers -> Operations]
      BY DEF QueueInv, ListTypeOK
    <3>3. op' = [op EXCEPT ![r] = p]
      BY <2>4, <3>b
    <3> HIDE DEF p
    <3> QED BY <2>1, <3>b, <3>1, <3>2, <3>3, Zenon
  <2>6. /\ buffer' \in [Readers -> Seq(Nat)]
        /\ Len(buffer'[r]) = Len(buffer[r]) + 1
        /\ \A q \in Readers : q # r => buffer'[q] = buffer[q]
    <3>1. buffer[r] \in Seq(Nat)
      BY <2>1 DEF QueueInv, ListTypeOK
    <3>2. Append(buffer[r], c) \in Seq(Nat) /\ Len(Append(buffer[r], c)) = Len(buffer[r]) + 1
      BY <3>1, AppendProperties
    <3> QED BY <2>1, <2>4, <3>2 DEF QueueInv, ListTypeOK
  <2>7. \A q \in Readers : Counted(q)'
    <3>1. Counted(r)'
      <4>1. Counted(r) /\ reading'[r] = reading[r]
        BY <2>1 DEF QueueInv
      <4>2. n \in Nat /\ o.length \in Nat /\ n <= o.length
        BY <2>3 DEF Operations
      <4>3. reading[r] /\ o.nbytes = Len(buffer[r])
        BY <2>3, <4>1 DEF Counted
      <4> QED BY <2>3, <2>5, <2>6, <4>1, <4>2, <4>3 DEF Counted
    <3>2. ASSUME NEW q \in Readers, q # r PROVE Counted(q)'
      BY <2>5, <2>6, <3>2, SMTT(30) DEF QueueInv, Counted
    <3> QED BY <3>1, <3>2
  <2>8. CASE n < o.length
    <3>1. waiting' = waiting /\ _ps2_op_head' = _ps2_op_head
      BY <1>h, <2>3, <2>4, <2>8 DEF Operations
    <3>2. ListTypeOK'
      BY <2>4, <2>5, <2>6, <3>1 DEF QueueInv, ListTypeOK
    <3>3. Injective(waiting)'
      BY <3>1 DEF QueueInv, Injective
    <3>4. ASSUME NEW q \in Readers PROVE Incomplete(q)' <=> q \in Elems(waiting)'
      BY <2>2, <2>5, <2>8, <3>1 DEF QueueInv, Incomplete, Elems
    <3>5. Linked'
      <4>1. \A i \in 1..Len(waiting) : waiting[i] \in Readers
        BY <2>1
      <4> QED BY <2>4, <2>5, <3>1, <4>1 DEF QueueInv, Linked
    <3> QED BY <2>7, <3>2, <3>3, <3>4, <3>5 DEF QueueInv
  <2>9. CASE n = o.length
    <3>1. waiting' = Without(waiting, r) /\ _ps2_op_head' = o.next
      BY <2>3, <2>4, <2>9 DEF Operations
    <3>2. /\ waiting' \in Seq(Readers) /\ Len(waiting') = Len(waiting) - 1
          /\ \A i \in 1..(Len(waiting) - 1) : waiting'[i] = waiting[i + 1]
      BY <2>1, <3>1, WithoutHead DEF QueueInv
    <3>3. ListTypeOK'
      BY <2>3, <2>4, <2>5, <2>6, <3>1, <3>2, Zenon DEF QueueInv, ListTypeOK, Operations
    <3>4. Injective(waiting)'
      BY <2>1, <3>2 DEF QueueInv, Injective
    <3>5. r \notin Elems(waiting)'
      <4>1. \A i \in 1..Len(waiting') : i + 1 \in 1..Len(waiting) /\ i + 1 # 1
        BY <2>1, <3>2
      <4>2. \A i \in 1..Len(waiting') : waiting'[i] # r
        BY <2>1, <3>2, <4>1 DEF QueueInv, Injective
      <4> QED BY <4>2 DEF Elems
    <3>6. ASSUME NEW q \in Readers, q # r PROVE q \in Elems(waiting)' <=> q \in Elems(waiting)
      <4>1. ASSUME q \in Elems(waiting)' PROVE q \in Elems(waiting)
        BY <2>1, <3>2, <4>1 DEF Elems
      <4>2. ASSUME q \in Elems(waiting) PROVE q \in Elems(waiting)'
        <5>1. PICK i \in 1..Len(waiting) : waiting[i] = q
          BY <4>2 DEF Elems
        <5>2. i # 1 /\ i - 1 \in 1..Len(waiting')
          BY <2>1, <3>2, <3>6, <5>1
        <5>3. waiting'[i - 1] = q
          BY <2>1, <3>2, <5>1, <5>2
        <5> QED BY <5>2, <5>3 DEF Elems
      <4> QED BY <4>1, <4>2
    <3>7. ASSUME NEW q \in Readers PROVE Incomplete(q)' <=> q \in Elems(waiting)'
      <4>1. CASE q = r
        BY <2>3, <2>5, <2>9, <3>5, <4>1 DEF Incomplete, Operations
      <4>2. CASE q # r
        BY <2>5, <3>6, <4>2 DEF QueueInv, Incomplete
      <4> QED BY <4>1, <4>2
    <3>8. Linked'
      <4>1. o.next = IF 1 = Len(waiting) THEN Null ELSE waiting[2]
        <5>1. 1 \in 1..Len(waiting)
          BY <2>1
        <5>2. op[waiting[1]].next = IF 1 = Len(waiting) THEN Null ELSE waiting[1 + 1]
          BY <5>1, Zenon DEF QueueInv, Linked
        <5> QED BY <2>1, <5>2
      <4>2. waiting' = <<>> <=> Len(waiting) = 1
        BY <2>1, <3>2, EmptySeq
      <4>3. _ps2_op_head' = IF waiting' = <<>> THEN Null ELSE waiting'[1]
        BY <2>1, <3>1, <3>2, <4>1, <4>2
      <4>4. waiting' # <<>> => _ps2_op_tail' = waiting'[Len(waiting')]
        <5>1. _ps2_op_tail = waiting[Len(waiting)]
          BY <2>1 DEF QueueInv, Linked
        <5>2. Len(waiting) # 1 => waiting'[Len(waiting) - 1] = waiting[Len(waiting)]
          BY <2>1, <3>2
        <5> QED BY <2>4, <3>2, <4>2, <5>1, <5>2
      <4>5. ASSUME NEW i \in 1..Len(waiting')
            PROVE  op'[waiting'[i]].next = IF i = Len(waiting') THEN Null ELSE waiting'[i + 1]
        <5>1. i + 1 \in 1..Len(waiting) /\ waiting'[i] = waiting[i + 1] /\ waiting[i + 1] \in Readers
          BY <2>1, <3>2, ElementOfSeq
        <5>2. op[waiting[i + 1]].next = IF i + 1 = Len(waiting) THEN Null ELSE waiting[i + 2]
          BY <2>1, <5>1 DEF QueueInv, Linked
        <5>3. op'[waiting'[i]].next = op[waiting[i + 1]].next
          BY <2>5, <5>1
        <5>4. i # Len(waiting') => waiting'[i + 1] = waiting[i + 2]
          BY <2>1, <3>2
        <5> QED BY <2>1, <3>2, <5>2, <5>3, <5>4
      <4> QED BY <4>3, <4>4, <4>5 DEF Linked
    <3> QED BY <2>7, <3>3, <3>4, <3>7, <3>8 DEF QueueInv
  <2> QED BY <2>3, <2>8, <2>9 DEF Operations
<1> QED BY <1>1, <1>2

\* A call of sys_read puts its operation at the end of the list; one that asks
\* for nothing leaves the list alone.
LEMMA CallKeepsQueue ==
  ASSUME QueueInv, NEW r \in Readers, SysReadCall(r)
  PROVE  QueueInv'
<1>0. Null \notin Readers /\ Lengths \subseteq Nat /\ Garbage \subseteq Nat
  BY KeyboardAssumption
<1>1. PICK n \in Lengths, g \in Garbage :
        /\ op' = NewOperation(r, n, g)
        /\ \/ n > 0 /\ _ps2_keyboard_add_operation(r) /\ waiting' = Append(waiting, r)
           \/ n = 0 /\ UNCHANGED <<_ps2_op_head, _ps2_op_tail, waiting>>
  BY DEF SysReadCall
<1>2. /\ reading \in [Readers -> BOOLEAN] /\ ~reading[r]
      /\ reading' = [reading EXCEPT ![r] = TRUE]
      /\ wire' = wire /\ buf_position' = buf_position /\ buffer' = buffer
  BY DEF SysReadCall, keyboard_vars, ring_vars, QueueInv, ListTypeOK
<1>3. /\ op \in [Readers -> Operations] /\ waiting \in Seq(Readers) /\ Len(waiting) \in Nat
      /\ _ps2_op_head \in Readers \cup {Null} /\ _ps2_op_tail \in Readers \cup {Null}
  BY DEF QueueInv, ListTypeOK
<1>4. op[r] \in Operations /\ op[r].length = 0 /\ buffer[r] = <<>>
  <2>1. op[r] \in Operations
    BY <1>3
  <2>2. Counted(r)
    BY DEF QueueInv
  <2>3. op[r].length = 0
    BY <1>2, <2>1, <2>2 DEF Counted, Operations
  <2> QED BY <2>1, <2>2, <2>3 DEF Counted
<1>5. r \notin Elems(waiting)
  BY <1>3, <1>4 DEF QueueInv, Incomplete, Operations
<1> DEFINE fresh == [length |-> n, nbytes |-> IF n > 0 THEN 0 ELSE g,
                     read |-> FALSE, next |-> Null]
           links == n > 0 /\ _ps2_op_head # Null
<1>6. fresh \in Operations
  <2>1. n \in Nat /\ g \in Nat
    BY <1>0
  <2> QED BY <2>1 DEF Operations
<1>7. /\ op' \in [Readers -> Operations]
      /\ op'[r] = fresh
      /\ \A q \in Readers : q # r =>
           /\ op'[q].length = op[q].length /\ op'[q].nbytes = op[q].nbytes
           /\ op'[q].read = op[q].read
           /\ op'[q].next = IF links /\ q = _ps2_op_tail THEN r ELSE op[q].next
  <2>1. op' = [q \in Readers |->
                 CASE q = r -> fresh
                   [] q # r /\ n > 0 /\ _ps2_op_head # Null /\ q = _ps2_op_tail ->
                        [op[q] EXCEPT !.next = r]
                   [] OTHER -> op[q]]
    BY <1>1 DEF NewOperation
  <2>2. \A q \in Readers : LET p == [op[q] EXCEPT !.next = r] IN
          /\ p \in Operations /\ p.length = op[q].length /\ p.nbytes = op[q].nbytes
          /\ p.read = op[q].read /\ p.next = r
    BY <1>3 DEF Operations
  <2> HIDE DEF fresh
  <2>3. op'[r] = fresh
    BY <2>1
  <2>4. ASSUME NEW q \in Readers, q # r
        PROVE  op'[q] = IF links /\ q = _ps2_op_tail THEN [op[q] EXCEPT !.next = r] ELSE op[q]
    BY <2>1, <2>4
  <2>5. ASSUME NEW q \in Readers, q # r
        PROVE  /\ op'[q] \in Operations
               /\ op'[q].length = op[q].length /\ op'[q].nbytes = op[q].nbytes
               /\ op'[q].read = op[q].read
               /\ op'[q].next = IF links /\ q = _ps2_op_tail THEN r ELSE op[q].next
    <3>1. CASE links /\ q = _ps2_op_tail
      BY <2>2, <2>4, <2>5, <3>1, Zenon
    <3>2. CASE ~(links /\ q = _ps2_op_tail)
      BY <1>3, <2>4, <2>5, <3>2, Zenon
    <3> QED BY <3>1, <3>2
  <2>6. DOMAIN op' = Readers /\ \A q \in Readers : op'[q] \in Operations
    BY <1>6, <2>1, <2>3, <2>5
  <2>7. op' \in [Readers -> Operations]
    BY <2>1, <2>6
  <2> QED BY <2>3, <2>5, <2>7
<1>8. \A q \in Readers : Counted(q)'
  <2>1. ASSUME NEW q \in Readers, q # r PROVE Counted(q)'
    BY <1>2, <1>7, <2>1 DEF QueueInv, Counted
  <2>2. Counted(r)'
    BY <1>0, <1>1, <1>2, <1>4, <1>7, EmptySeq DEF Counted
  <2> QED BY <2>1, <2>2
<1>9. CASE n = 0
  <2>1. UNCHANGED <<_ps2_op_head, _ps2_op_tail, waiting>>
    BY <1>1, <1>9
  <2>2. ListTypeOK'
    BY <1>2, <1>7, <2>1, Zenon DEF QueueInv, ListTypeOK
  <2>3. Injective(waiting)' /\ Elems(waiting)' = Elems(waiting)
    BY <2>1 DEF QueueInv, Injective, Elems
  <2>4. ASSUME NEW q \in Readers PROVE Incomplete(q)' <=> q \in Elems(waiting)'
    <3>1. CASE q = r
      BY <1>0, <1>1, <1>5, <1>7, <1>9, <2>3, <3>1 DEF Incomplete
    <3>2. CASE q # r
      BY <1>7, <2>3, <3>2 DEF QueueInv, Incomplete
    <3> QED BY <3>1, <3>2
  <2>5. Linked'
    <3>1. ASSUME NEW i \in 1..Len(waiting) PROVE op'[waiting[i]].next = op[waiting[i]].next
      <4>1. waiting[i] \in Readers /\ waiting[i] # r
        BY <1>3, <1>5 DEF Elems
      <4> QED BY <1>7, <1>9, <4>1
    <3> QED BY <2>1, <3>1 DEF QueueInv, Linked
  <2> QED BY <1>8, <2>2, <2>3, <2>4, <2>5 DEF QueueInv
<1>10. CASE n > 0
  <2>1. /\ waiting' = Append(waiting, r)
        /\ _ps2_op_head' = IF _ps2_op_head = Null THEN r ELSE _ps2_op_head
        /\ _ps2_op_tail' = r
    BY <1>1, <1>10 DEF _ps2_keyboard_add_operation
  <2>2. /\ waiting' \in Seq(Readers) /\ Len(waiting') = Len(waiting) + 1
        /\ \A i \in 1..Len(waiting) : waiting'[i] = waiting[i]
        /\ waiting'[Len(waiting) + 1] = r
        /\ waiting' # <<>>
    BY <1>3, <2>1, AppendProperties
  <2>3. ListTypeOK'
    BY <1>2, <1>3, <1>7, <2>1, <2>2, Zenon DEF QueueInv, ListTypeOK
  <2>4. \A i \in 1..Len(waiting) : waiting[i] # r /\ waiting[i] \in Readers
    BY <1>3, <1>5 DEF Elems
  <2>5. \A i \in 1..Len(waiting') : i \in 1..Len(waiting) \/ i = Len(waiting) + 1
    BY <1>3, <2>2
  <2>6. Injective(waiting)'
    BY <2>2, <2>4, <2>5 DEF QueueInv, Injective
  <2>7. ASSUME NEW q \in Readers PROVE q \in Elems(waiting)' <=> q \in Elems(waiting) \/ q = r
    <3>1. \A i \in 1..Len(waiting) : i \in 1..Len(waiting')
      BY <1>3, <2>2
    <3>2. Len(waiting) + 1 \in 1..Len(waiting')
      BY <1>3, <2>2
    <3> QED BY <2>2, <2>5, <3>1, <3>2 DEF Elems
  <2>8. ASSUME NEW q \in Readers PROVE Incomplete(q)' <=> q \in Elems(waiting)'
    <3>1. CASE q = r
      BY <1>0, <1>7, <1>10, <2>7, <3>1 DEF Incomplete
    <3>2. CASE q # r
      BY <1>7, <2>7, <3>2 DEF QueueInv, Incomplete
    <3> QED BY <3>1, <3>2
  <2>9. Linked'
    <3>1. waiting = <<>> <=> Len(waiting) = 0
      BY <1>3, EmptySeq
    <3>2. _ps2_op_head = Null <=> Len(waiting) = 0
      <4>1. waiting # <<>> => waiting[1] \in Readers
        BY <1>3, <3>1
      <4> QED BY <1>0, <3>1, <4>1 DEF QueueInv, Linked
    <3>3. _ps2_op_head' = waiting'[1]
      <4>1. CASE Len(waiting) = 0
        BY <2>1, <2>2, <3>2, <4>1
      <4>2. CASE Len(waiting) # 0
        <5>1. 1 \in 1..Len(waiting)
          BY <1>3, <4>2
        <5> QED BY <2>1, <2>2, <3>1, <3>2, <4>2, <5>1 DEF QueueInv, Linked
      <4> QED BY <4>1, <4>2
    <3>4. _ps2_op_tail' = waiting'[Len(waiting')]
      BY <2>1, <2>2
    <3>5. ASSUME NEW i \in 1..Len(waiting')
          PROVE  op'[waiting'[i]].next = IF i = Len(waiting') THEN Null ELSE waiting'[i + 1]
      <4>1. CASE i = Len(waiting) + 1
        BY <1>7, <2>2, <4>1
      <4>2. CASE i \in 1..Len(waiting) /\ i # Len(waiting)
        <5>1. i + 1 \in 1..Len(waiting) /\ i # Len(waiting')
          BY <1>3, <2>2, <4>2
        <5>2. Len(waiting) \in 1..Len(waiting) /\ waiting # <<>>
          BY <1>3, <3>1, <4>2
        <5>3. waiting[i] # _ps2_op_tail
          BY <4>2, <5>2 DEF QueueInv, Linked, Injective
        <5>4. op'[waiting[i]].next = op[waiting[i]].next
          BY <1>7, <2>4, <4>2, <5>3
        <5>5. op[waiting[i]].next = waiting[i + 1]
          BY <4>2 DEF QueueInv, Linked
        <5> QED BY <2>2, <4>2, <5>1, <5>4, <5>5
      <4>3. CASE i = Len(waiting) /\ i \in 1..Len(waiting)
        <5>1. i # Len(waiting') /\ Len(waiting) # 0
          BY <1>3, <2>2, <4>3
        <5>2. waiting[i] = _ps2_op_tail
          BY <3>1, <4>3, <5>1 DEF QueueInv, Linked
        <5>3. op'[waiting[i]].next = r
          BY <1>7, <1>10, <2>4, <3>2, <4>3, <5>1, <5>2
        <5> QED BY <2>2, <4>3, <5>1, <5>3
      <4> QED BY <2>5, <4>1, <4>2, <4>3
    <3> QED BY <2>2, <3>3, <3>4, <3>5 DEF Linked
  <2> QED BY <1>8, <2>3, <2>6, <2>8, <2>9 DEF QueueInv
<1> QED BY <1>0, <1>1, <1>9, <1>10

\* A reader returns only when its operation is complete, which has left the
\* list by then.
LEMMA ReturnKeepsQueue ==
  ASSUME QueueInv, NEW r \in Readers, SysReadReturn(r)
  PROVE  QueueInv'
<1>0. Null \notin Readers
  BY KeyboardAssumption
<1>1. /\ op \in [Readers -> Operations] /\ waiting \in Seq(Readers)
      /\ buffer \in [Readers -> Seq(Nat)] /\ reading \in [Readers -> BOOLEAN]
  BY DEF QueueInv, ListTypeOK
<1>2. /\ op' = [op EXCEPT ![r] = NoOp] /\ buffer' = [buffer EXCEPT ![r] = <<>>]
      /\ reading' = [reading EXCEPT ![r] = FALSE]
      /\ wire' = wire /\ buf_position' = buf_position
      /\ UNCHANGED <<_ps2_op_head, _ps2_op_tail, waiting>>
      /\ op[r].nbytes >= op[r].length
  BY DEF SysReadReturn, Finished, keyboard_vars, ring_vars
<1>3. r \notin Elems(waiting)
  <2>1. op[r].nbytes \in Nat /\ op[r].length \in Nat
    BY <1>1 DEF Operations
  <2> QED BY <1>2, <2>1 DEF QueueInv, Incomplete
<1>4. /\ op' \in [Readers -> Operations] /\ op'[r] = NoOp
      /\ \A q \in Readers : q # r => op'[q] = op[q]
  <2>1. NoOp \in Operations
    BY DEF NoOp, Operations
  <2> QED BY <1>1, <1>2, <2>1
<1>5. ListTypeOK'
  BY <1>1, <1>2, <1>4, SMTT(30) DEF QueueInv, ListTypeOK
<1>6. Injective(waiting)' /\ Elems(waiting)' = Elems(waiting)
  BY <1>2 DEF QueueInv, Injective, Elems
<1>7. ASSUME NEW q \in Readers PROVE Incomplete(q)' <=> q \in Elems(waiting)'
  <2>1. CASE q = r
    BY <1>3, <1>4, <1>6, <2>1 DEF Incomplete, NoOp
  <2>2. CASE q # r
    BY <1>4, <1>6, <2>2 DEF QueueInv, Incomplete
  <2> QED BY <2>1, <2>2
<1>8. Linked'
  <2>1. ASSUME NEW i \in 1..Len(waiting) PROVE op'[waiting[i]] = op[waiting[i]]
    BY <1>1, <1>3, <1>4 DEF Elems
  <2> QED BY <1>2, <2>1 DEF QueueInv, Linked
<1>9. ASSUME NEW q \in Readers PROVE Counted(q)'
  <2>1. CASE q = r
    BY <1>1, <1>2, <1>4, <2>1 DEF Counted, NoOp
  <2>2. CASE q # r
    BY <1>1, <1>2, <1>4, <2>2 DEF QueueInv, Counted
  <2> QED BY <2>1, <2>2
<1> QED BY <1>5, <1>6, <1>7, <1>8, <1>9 DEF QueueInv

\* A key event puts one byte, or the prefix and one byte, on the wire; the last
\* byte is never the prefix and tells the key and whether it went down.
LastByte(k, pressed) == IF pressed THEN k.code ELSE k.code + KEY_RELEASE_MASK

LEMMA LastByteTells ==
  ASSUME NEW k \in Keys, NEW pressed \in BOOLEAN
  PROVE  /\ LastByte(k, pressed) \in (0..255) \ {EXTENDED_PREFIX}
         /\ Stripped(LastByte(k, pressed)) = k.code
         /\ Released(LastByte(k, pressed)) <=> ~pressed
<1>1. k.ext \in BOOLEAN /\ k.code \in (1..127) \ {96}
  BY KeyboardAssumption
<1>2. CASE pressed
  BY <1>1, <1>2 DEF LastByte, Stripped, Released, EXTENDED_PREFIX, KEY_RELEASE_MASK
<1>3. CASE ~pressed
  BY <1>1, <1>3 DEF LastByte, Stripped, Released, EXTENDED_PREFIX, KEY_RELEASE_MASK
<1> QED BY <1>2, <1>3

LEMMA BytesType ==
  ASSUME NEW k \in Keys, NEW pressed \in BOOLEAN
  PROVE  /\ Bytes(k, pressed) =
              IF k.ext THEN <<EXTENDED_PREFIX, LastByte(k, pressed)>> ELSE <<LastByte(k, pressed)>>
         /\ Bytes(k, pressed) \in Seq(0..255)
         /\ Bytes(k, pressed) # <<>>
<1>1. Bytes(k, pressed) =
        IF k.ext THEN <<EXTENDED_PREFIX, LastByte(k, pressed)>> ELSE <<LastByte(k, pressed)>>
  BY DEF Bytes, LastByte
<1>2. LastByte(k, pressed) \in 0..255 /\ EXTENDED_PREFIX \in 0..255
  BY LastByteTells DEF EXTENDED_PREFIX
<1>3. \A a, b \in 0..255 : /\ <<a>> \in Seq(0..255) /\ <<a>> # <<>>
                           /\ <<a, b>> \in Seq(0..255) /\ <<a, b>> # <<>>
  BY SMTT(30)
<1>4. CASE k.ext
  BY <1>1, <1>2, <1>3, <1>4, Zenon
<1>5. CASE ~k.ext
  BY <1>1, <1>2, <1>3, <1>5, Zenon
<1> QED BY <1>1, <1>4, <1>5

LEMMA InitQueue == Init => QueueInv
<1> SUFFICES ASSUME Init PROVE QueueInv
  OBVIOUS
<1>1. NoOp \in Operations
  BY DEF NoOp, Operations
<1>2. RingSize \in Nat \ {0}
  BY KeyboardAssumption
<1>3. ListTypeOK
  BY <1>1, <1>2 DEF Init, ListTypeOK
<1>4. waiting = <<>> /\ Len(waiting) = 0
  BY DEF Init
<1>5. Injective(waiting) /\ Linked /\ Elems(waiting) = {}
  BY <1>4 DEF Init, Injective, Linked, Elems
<1>6. \A r \in Readers : ~Incomplete(r) /\ Counted(r)
  BY DEF Init, Incomplete, Counted, NoOp
<1> QED BY <1>3, <1>5, <1>6 DEF QueueInv

\* The list survives the interrupt of any byte.
LEMMA InterruptKeepsQueue ==
  ASSUME QueueInv, handle_keyboard_interrupt
  PROVE  QueueInv'
<1>1. /\ wire \in Seq(0..255) /\ wire # <<>> /\ wire' = Tail(wire) /\ reading' = reading
      /\ buf_position \in 0..(RingSize - 1)
  BY DEF QueueInv, ListTypeOK, handle_keyboard_interrupt
<1>2. wire' \in Seq(0..255) /\ Head(wire) \in 0..255
  BY <1>1, HeadTailProperties
<1>3. RingSize \in Nat \ {0}
  BY KeyboardAssumption
<1>4. BUF_STEP(buf_position) \in 0..(RingSize - 1)
  BY <1>1, <1>3 DEF BUF_STEP
<1>5. CASE UNCHANGED <<ring_vars, list_vars>>
  BY <1>1, <1>2, <1>5, ListUntouched DEF ring_vars
<1>6. CASE HandlePrefix
  BY <1>1, <1>2, <1>6, ListUntouched DEF HandlePrefix
<1>7. CASE HandleKey(Head(wire))
  <2>1. PICK code \in translate(Head(wire)) :
          \/ UNCHANGED list_vars
          \/ \E c \in kgetch([code |-> code, is_pressed |-> ~Released(Head(wire)),
                              modifiers |-> current_modifiers']) : Deliver(c)
    BY <1>7 DEF HandleKey
  <2>2. buf_position' \in 0..(RingSize - 1)
    BY <1>4, <1>7 DEF HandleKey
  <2>3. code \in Nat
    BY <1>2, TranslateType, Zenon
  <2>4. \A c \in kgetch([code |-> code, is_pressed |-> ~Released(Head(wire)),
                         modifiers |-> current_modifiers']) : c \in Nat
    BY <2>3, KgetchType
  <2> QED BY <1>1, <1>2, <2>1, <2>2, <2>4, ListUntouched, DeliverKeepsQueue, SMTT(30)
<1> QED BY <1>5, <1>6, <1>7 DEF handle_keyboard_interrupt

LEMMA NextQueue == QueueInv /\ [Next]_vars => QueueInv'
<1> SUFFICES ASSUME QueueInv, [Next]_vars PROVE QueueInv'
  OBVIOUS
<1>1. ASSUME NEW k \in Keys, PressKey(k) PROVE QueueInv'
  <2>1. /\ wire' = Bytes(k, TRUE) /\ UNCHANGED <<list_vars, reading>>
        /\ buf_position' = buf_position
    BY <1>1 DEF PressKey, ring_vars
  <2> QED BY <2>1, BytesType, ListUntouched, Zenon DEF QueueInv, ListTypeOK
<1>2. ASSUME NEW k \in Keys, ReleaseKey(k) PROVE QueueInv'
  <2>1. /\ wire' = Bytes(k, FALSE) /\ UNCHANGED <<list_vars, reading>>
        /\ buf_position' = buf_position
    BY <1>2 DEF ReleaseKey, ring_vars
  <2> QED BY <2>1, BytesType, ListUntouched, Zenon DEF QueueInv, ListTypeOK
<1>3. ASSUME handle_keyboard_interrupt PROVE QueueInv'
  BY <1>3, InterruptKeepsQueue
<1>4. ASSUME NEW r \in Readers, SysReadCall(r) PROVE QueueInv'
  BY <1>4, CallKeepsQueue
<1>5. ASSUME NEW r \in Readers, SysReadUnmapped(r) PROVE QueueInv'
  BY <1>5, ListUntouched DEF SysReadUnmapped, keyboard_vars, ring_vars, QueueInv, ListTypeOK
<1>6. ASSUME NEW r \in Readers, SysReadReturn(r) PROVE QueueInv'
  BY <1>6, ReturnKeepsQueue
<1>7. CASE UNCHANGED vars
  BY <1>7, ListUntouched DEF vars, keyboard_vars, ring_vars, QueueInv, ListTypeOK
<1> QED BY <1>1, <1>2, <1>3, <1>4, <1>5, <1>6, <1>7 DEF Next

\* What the invariant says of the list is what the property asks for.
LEMMA QueueInvImplies == QueueInv => QueueIsFifo
<1> SUFFICES ASSUME QueueInv PROVE QueueIsFifo
  OBVIOUS
<1>1. /\ waiting \in Seq(Readers) /\ Len(waiting) \in Nat
      /\ op \in [Readers -> Operations] /\ buf_position \in 0..(RingSize - 1)
  BY DEF QueueInv, ListTypeOK
<1>2. waiting # <<>> => Head(waiting) = waiting[1]
  BY <1>1
<1>3. /\ _ps2_op_head = IF waiting = <<>> THEN Null ELSE Head(waiting)
      /\ waiting # <<>> => _ps2_op_tail = waiting[Len(waiting)]
      /\ \A i \in 1..Len(waiting) :
           op[waiting[i]].next = IF i = Len(waiting) THEN Null ELSE waiting[i + 1]
  BY <1>2 DEF QueueInv, Linked
<1>4. ASSUME NEW r \in Readers, op[r].nbytes < op[r].length
      PROVE  Cardinality({i \in 1..Len(waiting) : waiting[i] = r}) = 1
  <2>1. r \in Elems(waiting)
    BY <1>4 DEF QueueInv, Incomplete
  <2>2. PICK i \in 1..Len(waiting) : waiting[i] = r
    BY <2>1 DEF Elems
  <2>3. {j \in 1..Len(waiting) : waiting[j] = r} = {i}
    BY <2>2 DEF QueueInv, Injective
  <2> QED BY <2>3, FS_Singleton, Zenon
<1>5. ASSUME NEW r \in Readers, op[r].length > 0
      PROVE  /\ op[r].read <=> op[r].nbytes = op[r].length
             /\ op[r].nbytes = Len(buffer[r])
             /\ op[r].read => \A i \in 1..Len(waiting) : waiting[i] # r
  <2>1. /\ op[r].read <=> op[r].nbytes = op[r].length
        /\ op[r].nbytes = Len(buffer[r])
    BY <1>5 DEF QueueInv, Counted
  <2>2. ASSUME op[r].read PROVE \A i \in 1..Len(waiting) : waiting[i] # r
    <3>1. op[r].nbytes = op[r].length /\ op[r].length \in Nat
      BY <1>1, <2>1, <2>2 DEF Operations
    <3>2. r \notin Elems(waiting)
      BY <3>1 DEF QueueInv, Incomplete
    <3> QED BY <3>2 DEF Elems
  <2> QED BY <2>1, <2>2
<1> QED BY <1>1, <1>3, <1>4, <1>5 DEF QueueIsFifo

\* The list of pending operations is the readers with an incomplete operation
\* in the order of their calls, for any number of readers, any lengths and any
\* bytes from the keyboard.
THEOREM FifoQueue == Spec => []QueueIsFifo
<1>1. Spec => []QueueInv
  BY InitQueue, NextQueue, PTL DEF Spec
<1> QED BY <1>1, QueueInvImplies, PTL

-----------------------------------------------------------------------------
(* The modifiers.                                                          *)

Held(keys) == UNION {Legend[k].modifier : k \in keys}

\* The modifiers once the interrupt handler has seen the last byte of an event.
After(k, pressed) ==
  IF pressed THEN current_modifiers \cup Legend[k].modifier
             ELSE current_modifiers \ Legend[k].modifier

\* What is still on the wire belongs to one event, the prefix of which has been
\* seen if it is not on the wire any more; the event ends with the modifiers of
\* the keys held.
Pending(k, pressed) ==
  /\ event = [key |-> k, pressed |-> pressed]
  /\ \/ wire = Bytes(k, pressed) /\ (decodes => ~extended_read)
     \/ k.ext /\ wire = <<LastByte(k, pressed)>> /\ (decodes => extended_read)
  /\ decodes => After(k, pressed) = Held(down)

DecodeInv ==
  /\ down \subseteq Keys
  /\ decodes \in BOOLEAN /\ extended_read \in BOOLEAN
  /\ wire = <<>> => (decodes => ~extended_read /\ current_modifiers = Held(down))
  /\ wire # <<>> => \E k \in Keys, pressed \in BOOLEAN : Pending(k, pressed)

InSetOne(x, c, m) ==
  \/ x = FALSE /\ c = 29 /\ m = "left_ctrl"
  \/ x = TRUE /\ c = 29 /\ m = "right_ctrl"
  \/ x = FALSE /\ c = 42 /\ m = "left_shift"
  \/ x = FALSE /\ c = 54 /\ m = "right_shift"
  \/ x = FALSE /\ c = 56 /\ m = "left_alt"
  \/ x = TRUE /\ c = 56 /\ m = "right_alt"
  \/ x = TRUE /\ c = 91 /\ m = "left_gui"
  \/ x = TRUE /\ c = 92 /\ m = "right_gui"

\* The rows of the table of modifiers.
LEMMA SetOneMembers ==
  ASSUME NEW x, NEW c, NEW m
  PROVE  <<x, c, m>> \in SetOneModifiers <=> InSetOne(x, c, m)
<1>1. \A y, d, n : <<x, c, m>> = <<y, d, n>> <=> x = y /\ c = d /\ m = n
  OBVIOUS
<1> DEFINE p == <<x, c, m>>
<1>2. p \in SetOneModifiers <=>
        \/ p = <<FALSE, 29, "left_ctrl">>
        \/ p = <<TRUE, 29, "right_ctrl">>
        \/ p = <<FALSE, 42, "left_shift">>
        \/ p = <<FALSE, 54, "right_shift">>
        \/ p = <<FALSE, 56, "left_alt">>
        \/ p = <<TRUE, 56, "right_alt">>
        \/ p = <<TRUE, 91, "left_gui">>
        \/ p = <<TRUE, 92, "right_gui">>
  <2> HIDE DEF p
  <2> QED BY Zenon DEF SetOneModifiers
<1> QED BY <1>1, <1>2, Zenon DEF InSetOne

\* The switch of translate gives a key the modifier that is printed on it.
LEMMA ModifierOfKey ==
  ASSUME NEW k \in Keys
  PROVE  ModifierOf(k.code, k.ext) = Legend[k].modifier
<1> DEFINE x == k.ext
           c == k.code
<1>1. /\ x \in BOOLEAN /\ c \in 1..127
      /\ <<x, c>> \notin {<<TRUE, 42>>, <<TRUE, 54>>, <<FALSE, 91>>, <<FALSE, 92>>}
      /\ Legend[k].modifier = {m \in Modifiers : <<x, c, m>> \in SetOneModifiers}
  <2>1. x \in BOOLEAN /\ c \in 1..127
    BY KeyboardAssumption
  <2>2. <<x, c>> \notin {<<TRUE, 42>>, <<TRUE, 54>>, <<FALSE, 91>>, <<FALSE, 92>>}
    BY LegendAssumption, Zenon
  <2>3. Legend[k].modifier = {m \in Modifiers : <<x, c, m>> \in SetOneModifiers}
    BY LegendAssumption, Zenon
  <2> QED BY <2>1, <2>2, <2>3, Zenon
<1> HIDE DEF x, c
<1>2. ASSUME NEW m PROVE m \in Legend[k].modifier <=> m \in ModifierOf(c, x)
  <2>1. m \in Legend[k].modifier <=> <<x, c, m>> \in SetOneModifiers
    <3>1. <<x, c, m>> \in SetOneModifiers => m \in Modifiers
      BY SetOneMembers, Zenon DEF Modifiers, InSetOne
    <3> QED BY <1>1, <3>1
  <2>0. m \in Legend[k].modifier <=> InSetOne(x, c, m)
    BY <2>1, SetOneMembers
  <2>2. x = TRUE => c # 42 /\ c # 54
    BY <1>1
  <2>3. x = FALSE => c # 91 /\ c # 92
    BY <1>1, Zenon
  <2>4. CASE x = TRUE
    BY <1>1, <2>0, <2>2, <2>4 DEF ModifierOf, InSetOne
  <2>5. CASE x = FALSE
    BY <1>1, <2>0, <2>3, <2>5 DEF ModifierOf, InSetOne
  <2> QED BY <1>1, <2>4, <2>5, Zenon
<1> QED BY <1>2, Zenon DEF x, c

\* No two keys have the same modifier.
LEMMA ModifiersApart ==
  ASSUME NEW k \in Keys, NEW l \in Keys, k # l
  PROVE  Legend[k].modifier \cap Legend[l].modifier = {}
<1>1. /\ Legend[k].modifier = {m \in Modifiers : <<k.ext, k.code, m>> \in SetOneModifiers}
      /\ Legend[l].modifier = {m \in Modifiers : <<l.ext, l.code, m>> \in SetOneModifiers}
  BY LegendAssumption, Zenon
<1>2. k.ext # l.ext \/ k.code # l.code
  <2>1. k \in [ext : BOOLEAN, code : (1..127) \ {96}] /\ l \in [ext : BOOLEAN, code : (1..127) \ {96}]
    BY KeyboardAssumption
  <2> QED BY <2>1
<1>3. ASSUME NEW m, <<k.ext, k.code, m>> \in SetOneModifiers, <<l.ext, l.code, m>> \in SetOneModifiers
      PROVE  FALSE
  <2> DEFINE x == k.ext
             c == k.code
             y == l.ext
             d == l.code
  <2>1. InSetOne(x, c, m) /\ InSetOne(y, d, m)
    BY <1>3, SetOneMembers
  <2>2. x # y \/ c # d
    BY <1>2
  <2> HIDE DEF x, c, y, d
  <2> QED BY <2>1, <2>2, Zenon DEF InSetOne
<1> QED BY <1>1, <1>3

\* A key that goes down adds its modifier; one that comes up takes away its own
\* and no other's.
LEMMA HeldModifiers ==
  ASSUME NEW keys \in SUBSET Keys, NEW k \in Keys
  PROVE  /\ Held(keys \cup {k}) = Held(keys) \cup Legend[k].modifier
         /\ k \in keys => Held(keys \ {k}) = Held(keys) \ Legend[k].modifier
         /\ Held(keys) \subseteq Modifiers
         /\ Held(keys) \cap Shift # {} <=> \E m \in keys : Legend[m].modifier \cap Shift # {}
<1>1. Held(keys \cup {k}) = Held(keys) \cup Legend[k].modifier
  BY DEF Held
<1>2. ASSUME k \in keys PROVE Held(keys \ {k}) = Held(keys) \ Legend[k].modifier
  BY ModifiersApart DEF Held
<1>3. \A l \in Keys : Legend[l].modifier \subseteq Modifiers
  BY LegendAssumption, Zenon
<1>4. Held(keys) \subseteq Modifiers
  BY <1>3 DEF Held
<1>5. Held(keys) \cap Shift # {} <=> \E m \in keys : Legend[m].modifier \cap Shift # {}
  BY DEF Held
<1> QED BY <1>1, <1>2, <1>4, <1>5

\* An event is complete on the wire when the keyboard sends it.
LEMMA EventSent ==
  ASSUME DecodeInv, NEW k \in Keys, NEW pressed \in BOOLEAN,
         wire = <<>>, wire' = Bytes(k, pressed),
         event' = [key |-> k, pressed |-> pressed],
         down' = IF pressed THEN down \cup {k} ELSE down \ {k}, pressed \/ k \in down,
         UNCHANGED <<decodes, current_modifiers, extended_read>>
  PROVE  DecodeInv'
<1>1. wire' # <<>>
  BY BytesType
<1>2. down' \in SUBSET Keys
  BY DEF DecodeInv
<1>3. decodes => After(k, pressed)' = Held(down)'
  <2>1. SUFFICES ASSUME decodes PROVE After(k, pressed)' = Held(down)'
    OBVIOUS
  <2>2. current_modifiers' = Held(down) /\ down \in SUBSET Keys
    BY <2>1 DEF DecodeInv
  <2>3. CASE pressed
    BY <2>2, <2>3, HeldModifiers, Zenon DEF After
  <2>4. CASE ~pressed
    BY <2>2, <2>4, HeldModifiers DEF After
  <2> QED BY <2>3, <2>4
<1>4. Pending(k, pressed)'
  BY <1>3 DEF Pending, DecodeInv
<1> QED BY <1>1, <1>2, <1>4 DEF DecodeInv

\* What a byte is when the handler reads it: the prefix of an event, or its
\* last byte.
LEMMA ByteRead ==
  ASSUME DecodeInv, wire # <<>>
  PROVE  \E k \in Keys, pressed \in BOOLEAN :
           /\ Pending(k, pressed)
           /\ \/ /\ Head(wire) = EXTENDED_PREFIX /\ Tail(wire) = <<LastByte(k, pressed)>>
                 /\ k.ext
              \/ /\ Head(wire) = LastByte(k, pressed) /\ Tail(wire) = <<>>
                 /\ decodes => extended_read = k.ext
<1>1. PICK k \in Keys, pressed \in BOOLEAN : Pending(k, pressed)
  BY DEF DecodeInv
<1> DEFINE last == LastByte(k, pressed)
<1>2. k.ext \in BOOLEAN
  BY KeyboardAssumption
<1>3. /\ Head(<<last>>) = last /\ Tail(<<last>>) = <<>>
      /\ Head(<<EXTENDED_PREFIX, last>>) = EXTENDED_PREFIX
      /\ Tail(<<EXTENDED_PREFIX, last>>) = <<last>>
  <2> HIDE DEF last
  <2> QED OBVIOUS
<1>4. CASE wire = Bytes(k, pressed) /\ k.ext
  BY <1>1, <1>3, <1>4, BytesType, Zenon
<1>5. CASE wire = Bytes(k, pressed) /\ ~k.ext /\ (decodes => ~extended_read)
  <2>1. wire = <<last>>
    BY <1>5, BytesType
  <2>2. decodes => extended_read = k.ext
    BY <1>2, <1>5 DEF DecodeInv
  <2> QED BY <1>1, <1>3, <2>1, <2>2
<1>6. CASE k.ext /\ wire = <<last>> /\ (decodes => extended_read)
  <2>2. decodes => extended_read = k.ext
    BY <1>2, <1>6 DEF DecodeInv
  <2> QED BY <1>1, <1>3, <1>6, <2>2, Zenon
<1> QED BY <1>1, <1>4, <1>5, <1>6, Zenon DEF Pending

\* The last byte of an event leaves the modifiers of the keys held down.
LEMMA LastByteRead ==
  ASSUME NEW k \in Keys, NEW pressed \in BOOLEAN, Pending(k, pressed), decodes,
         Head(wire) = LastByte(k, pressed), extended_read = k.ext, HandleKey(Head(wire))
  PROVE  current_modifiers' = Held(down)
<1>1. current_modifiers' = update_modifiers(ModifierOf(k.code, k.ext), pressed)
  BY LastByteTells DEF HandleKey
<1>2. update_modifiers(ModifierOf(k.code, k.ext), pressed) = After(k, pressed)
  BY ModifierOfKey DEF update_modifiers, After
<1> QED BY <1>1, <1>2 DEF Pending

LEMMA NextDecode == DecodeInv /\ [Next]_vars => DecodeInv'
<1> SUFFICES ASSUME DecodeInv, [Next]_vars PROVE DecodeInv'
  OBVIOUS
<1>1. ASSUME NEW k \in Keys, PressKey(k) PROVE DecodeInv'
  BY <1>1, EventSent, Zenon DEF PressKey, ring_vars
<1>2. ASSUME NEW k \in Keys, ReleaseKey(k) PROVE DecodeInv'
  BY <1>2, EventSent, Zenon DEF ReleaseKey, ring_vars
<1>3. ASSUME handle_keyboard_interrupt PROVE DecodeInv'
  <2>1. /\ wire # <<>> /\ wire' = Tail(wire) /\ down' = down /\ decodes' = decodes
        /\ event' = IF wire' = <<>> THEN Null ELSE event
    BY <1>3 DEF handle_keyboard_interrupt
  <2>2. PICK k \in Keys, pressed \in BOOLEAN :
          /\ Pending(k, pressed)
          /\ \/ /\ Head(wire) = EXTENDED_PREFIX /\ Tail(wire) = <<LastByte(k, pressed)>>
                /\ k.ext
             \/ /\ Head(wire) = LastByte(k, pressed) /\ Tail(wire) = <<>>
                /\ decodes => extended_read = k.ext
    BY <2>1, ByteRead
  <2>3. LastByte(k, pressed) # EXTENDED_PREFIX /\ <<LastByte(k, pressed)>> # <<>>
    BY LastByteTells
  <2>4. CASE Head(wire) = EXTENDED_PREFIX /\ Tail(wire) = <<LastByte(k, pressed)>> /\ k.ext
    <3>1. /\ event' = event /\ current_modifiers' = current_modifiers
          /\ extended_read' \in BOOLEAN /\ (decodes => extended_read')
      BY <1>3, <2>1, <2>3, <2>4, Zenon DEF handle_keyboard_interrupt, HandlePrefix, ring_vars, DecodeInv
    <3>2. Pending(k, pressed)'
      <4>1. After(k, pressed)' = After(k, pressed) /\ Held(down)' = Held(down)
        BY <2>1, <3>1 DEF After, Held
      <4> QED BY <2>1, <2>2, <2>4, <3>1, <4>1 DEF Pending
    <3> QED BY <2>1, <2>3, <2>4, <3>1, <3>2 DEF DecodeInv
  <2>5. CASE /\ Head(wire) = LastByte(k, pressed) /\ Tail(wire) = <<>>
             /\ decodes => extended_read = k.ext
    <3>1. CASE ~decodes
      BY <1>3, <2>1, <2>5, <3>1 DEF handle_keyboard_interrupt, ring_vars, DecodeInv
    <3>2. CASE decodes
      <4>1. HandleKey(Head(wire))
        BY <1>3, <2>3, <2>5, <3>2 DEF handle_keyboard_interrupt
      <4>2. current_modifiers' = Held(down) /\ extended_read' = FALSE
        BY <2>2, <2>5, <3>2, <4>1, LastByteRead, Zenon DEF HandleKey
      <4> QED BY <2>1, <2>5, <4>2, Zenon DEF DecodeInv
    <3> QED BY <3>1, <3>2
  <2> QED BY <2>2, <2>4, <2>5
<1>4. ASSUME UNCHANGED <<wire, event, down, decodes, current_modifiers, extended_read>>
      PROVE  DecodeInv'
  BY <1>4 DEF DecodeInv, Pending, After, Held
<1>5. ASSUME NEW r \in Readers, SysReadCall(r) \/ SysReadUnmapped(r) \/ SysReadReturn(r)
      PROVE  DecodeInv'
  BY <1>4, <1>5 DEF SysReadCall, SysReadUnmapped, SysReadReturn, keyboard_vars, ring_vars
<1>6. CASE UNCHANGED vars
  BY <1>4, <1>6 DEF vars, keyboard_vars, ring_vars
<1> QED BY <1>1, <1>2, <1>3, <1>5, <1>6 DEF Next

LEMMA InitDecode == Init => DecodeInv
<1> SUFFICES ASSUME Init PROVE DecodeInv
  OBVIOUS
<1>1. Held({}) = {}
  BY DEF Held
<1> QED BY <1>1, Zenon DEF Init, DecodeInv

\* Between two key events the kernel's modifiers are those of the keys held
\* down, for any keyboard whose modifier keys have the codes of set 1 and any
\* sequence of presses, repeats and releases.
THEOREM HeldModifiersKnown == Spec => []ModifiersAreHeld
<1>1. Spec => []DecodeInv
  BY InitDecode, NextDecode, PTL DEF Spec
<1>2. DecodeInv => ModifiersAreHeld
  BY SMTT(30) DEF DecodeInv, ModifiersAreHeld, Held
<1> QED BY <1>1, <1>2, PTL

\* A step changes a buffer only when its reader returns, or when the reader has
\* waited longest and a key was pressed, whose character it gets.
LEMMA BufferStep ==
  ASSUME QueueInv, DecodeInv, [Next]_vars, NEW r \in Readers, buffer'[r] # buffer[r]
  PROVE  \/ buffer'[r] = <<>> /\ ~reading'[r]
         \/ /\ waiting # <<>> /\ r = Head(waiting)
            /\ event.pressed
            /\ buffer'[r] = Append(buffer[r], Typed(event.key))
<1>1. ASSUME NEW q \in Readers, SysReadReturn(q) PROVE buffer'[r] = <<>> /\ ~reading'[r]
  BY <1>1 DEF SysReadReturn, QueueInv, ListTypeOK
<1>2. ASSUME handle_keyboard_interrupt
      PROVE  /\ waiting # <<>> /\ r = Head(waiting)
             /\ event.pressed
             /\ buffer'[r] = Append(buffer[r], Typed(event.key))
  <2>1. wire # <<>> /\ decodes /\ Head(wire) # EXTENDED_PREFIX /\ HandleKey(Head(wire))
    BY <1>2 DEF handle_keyboard_interrupt, HandlePrefix, list_vars
  <2>2. PICK k \in Keys, pressed \in BOOLEAN :
          /\ Pending(k, pressed)
          /\ Head(wire) = LastByte(k, pressed) /\ extended_read = k.ext
    BY <2>1, ByteRead, SMTT(30)
  <2>3. PICK code \in translate(Head(wire)) :
          \/ Released(Head(wire)) /\ UNCHANGED list_vars
          \/ /\ ~Released(Head(wire))
             /\ \E c \in kgetch([code |-> code, is_pressed |-> ~Released(Head(wire)),
                                 modifiers |-> current_modifiers']) : Deliver(c)
    BY <2>1 DEF HandleKey
  <2>4. ~Released(Head(wire)) /\ pressed = TRUE
    BY <2>2, <2>3, LastByteTells DEF list_vars
  <2>5. event.pressed /\ event.key = k /\ Head(wire) = k.code
    BY <2>2, <2>4 DEF Pending, LastByte
  <2>6. current_modifiers' = Held(down)
    BY <2>1, <2>2, LastByteRead
  <2>7. PICK c \in kgetch([code |-> code, is_pressed |-> TRUE, modifiers |-> Held(down)]) :
          Deliver(c)
    BY <2>3, <2>4, <2>6, Zenon
  <2>8. c = Typed(k)
    <3>1. down \in SUBSET Keys /\ Held(down) \in SUBSET Modifiers
      BY HeldModifiers, <2>2, Zenon DEF DecodeInv
    <3>2. kgetch([code |-> code, is_pressed |-> TRUE, modifiers |-> Held(down)]) =
            {IF Held(down) \cap Shift # {} THEN Legend[k].shifted ELSE Legend[k].plain}
      BY <2>3, <2>5, <3>1, LegendAssumption
    <3>3. Held(down) \cap Shift # {} <=> \E m \in down : Legend[m].modifier \cap Shift # {}
      BY <3>1, <2>2, HeldModifiers, Zenon
    <3> QED BY <2>7, <3>2, <3>3, Zenon DEF Typed
  <2>9. /\ buffer \in [Readers -> Seq(Nat)] /\ waiting \in Seq(Readers)
        /\ _ps2_op_head = IF waiting = <<>> THEN Null ELSE waiting[1]
    BY DEF QueueInv, ListTypeOK, Linked
  <2>10. /\ _ps2_op_head # Null
         /\ buffer' = [buffer EXCEPT ![_ps2_op_head] = Append(@, c)]
    BY <2>7 DEF Deliver, list_vars
  <2>11. r = _ps2_op_head /\ buffer'[r] = Append(buffer[r], c)
    BY <2>9, <2>10
  <2>12. waiting # <<>> /\ r = Head(waiting)
    BY <2>9, <2>10, <2>11
  <2> QED BY <2>5, <2>8, <2>11, <2>12
<1>3. ASSUME NEW k \in Keys, PressKey(k) \/ ReleaseKey(k) PROVE FALSE
  BY <1>3, Zenon DEF PressKey, ReleaseKey, list_vars
<1>4. ASSUME NEW q \in Readers, SysReadCall(q) \/ SysReadUnmapped(q) PROVE FALSE
  BY <1>4 DEF SysReadCall, SysReadUnmapped, list_vars
<1>5. ASSUME UNCHANGED vars PROVE FALSE
  BY <1>5 DEF vars, list_vars
<1> QED BY <1>1, <1>2, <1>3, <1>4, <1>5 DEF Next

\* Every character goes to the reader that has waited longest, and it is the
\* one the keys held down mean.
THEOREM OldestGetsPress == Spec => PressGoesToOldest
<1>1. Spec => []QueueInv
  BY InitQueue, NextQueue, PTL DEF Spec
<1>2. Spec => []DecodeInv
  BY InitDecode, NextDecode, PTL DEF Spec
<1>3. QueueInv /\ DecodeInv /\ [Next]_vars =>
        [\A r \in Readers : buffer'[r] # buffer[r] =>
           \/ buffer'[r] = <<>> /\ ~reading'[r]
           \/ /\ waiting # <<>> /\ r = Head(waiting)
              /\ event.pressed
              /\ buffer'[r] = Append(buffer[r], Typed(event.key))]_vars
  BY BufferStep
<1> QED BY <1>1, <1>2, <1>3, PTL DEF Spec, PressGoesToOldest
=============================================================================
