------------------------------ MODULE Library ------------------------------
(***************************************************************************)
(* The pure routines the kernel is built on: strings and memory            *)
(* (libc/string.c), numbers as text (base/numbers.c), formatted text       *)
(* (libc/stdio.c) and the date of the clock as a time stamp (rtc.c).  Each *)
(* is written as its loop runs and compared with what it is for, on every  *)
(* input of a bound.                                                       *)
(*                                                                         *)
(* Memory is a function from addresses to bytes, and a pointer an address; *)
(* NULL is 0.                                                              *)
(***************************************************************************)
EXTENDS Integers, Sequences, SequencesExt, FiniteSetsExt

CONSTANTS MemInputs,      \* [m, d, s, n, c]: memory, two pointers, a count, a character
          NumInputs,      \* [v, base]: a number of the word and a base
          FmtInputs,      \* [fmt, args]: a format and its arguments
          DateInputs,     \* [year, month, day, hour, bcd, h24]: a date, the clock's modes
          Word,           \* bits of a long
          IntBits,        \* bits of an int
          MEMMOVE_SMALL_COPY_SIZE

ASSUME LibraryAssumption ==
  Word \in Nat \ {0} /\ IntBits \in 1..Word /\ MEMMOVE_SMALL_COPY_SIZE \in Nat

VARIABLE input            \* the call that is looked at

NULL == 0

-----------------------------------------------------------------------------
(* string.c                                                                *)

\* The first position from p on where a loop that advances by one stops.
Scan(p, last, Stop(_)) ==
  LET scan[i \in p..last] == IF Stop(i) \/ i = last THEN i ELSE scan[i + 1] IN scan[p]
Top(m) == Len(m)

strlen(m, str) == Scan(str, Top(m), LAMBDA i : m[i] = 0) - str

\* Bytes 0..count-1, in this order, each read when it is copied.
memcpy(m, dest, src, count) ==
  FoldLeft(LAMBDA a, i : [a EXCEPT ![dest + i - 1] = a[src + i - 1]], m, [i \in 1..count |-> i])
memset(m, dest, ch, count) ==
  FoldLeft(LAMBDA a, i : [a EXCEPT ![dest + i - 1] = ch % 256], m, [i \in 1..count |-> i])

\* Places that overlap or touch get a buffer, a large one from the heap; buff is
\* what kmalloc returns.  The second loop copies from the source and not from
\* the buffer that the first one filled.  kfree gets the buffers of the stack,
\* which it does not know and leaves alone; those of the heap stay allocated.
memmove(m, dest, src, count, buff) ==
  LET apart == dest + count < src \/ src + count < dest
      heap == ~apart /\ count > MEMMOVE_SMALL_COPY_SIZE
  IN  [m |-> memcpy(m, dest, src, count), leak |-> heap /\ buff # NULL, wild |-> heap /\ buff = NULL]

strcpy(m, dst, src) == LET n == strlen(m, src) IN [memcpy(m, dst, src, n) EXCEPT ![dst + n] = 0]
strncpy(m, dest, src, num) ==
  LET n == Min({strlen(m, src), num})
  IN  memset(memcpy(m, dest, src, n), dest + n, 0, num - n)

strncat(m, dest, src, count) ==
  LET n == Min({strlen(m, src), count})
      begin == strlen(m, dest)
  IN  [memcpy(m, dest + begin, src, n) EXCEPT ![dest + begin + n] = 0]
strcat(m, dest, src) == strncat(m, dest, src, strlen(m, src))

Sign(x) == IF x < 0 THEN -1 ELSE IF x > 0 THEN 1 ELSE 0
strcmp(m, s1, s2) ==
  LET cmp[i \in 0..Top(m)] ==
        IF m[s1 + i] # 0 /\ m[s1 + i] = m[s2 + i] THEN cmp[i + 1] ELSE Sign(m[s1 + i] - m[s2 + i])
  IN  cmp[0]
strncmp(m, s1, s2, n) ==
  LET cmp[i \in 0..Top(m)] ==
        IF i < n - 1 /\ m[s1 + i] # 0 /\ m[s1 + i] = m[s2 + i] THEN cmp[i + 1]
        ELSE Sign(m[s1 + i] - m[s2 + i])
  IN  IF n = 0 THEN 0 ELSE cmp[0]

\* A byte read as a char, which is signed, and made an int.
Char(b) == IF b > 127 THEN b - 256 ELSE b
strchr(m, src, ch) ==
  LET scan == Scan(src, Top(m), LAMBDA i : Char(m[i]) = ch \/ m[i] = 0)
  IN  IF m[scan] = 0 /\ ch # 0 THEN NULL ELSE scan
strrchr(m, src, ch) ==
  LET back[i \in (src - 1)..Top(m)] ==
        IF i < src THEN NULL ELSE IF Char(m[i]) = ch THEN i ELSE back[i - 1]
  IN  back[src + strlen(m, src)]
memchr(m, src, ch, count) ==
  LET scan == Scan(src, src + count, LAMBDA i : i = src + count \/ m[i] = ch)
  IN  IF scan = src + count THEN NULL ELSE scan
memcmp(m, a, b, limit) ==
  LET cmp[i \in 0..limit] ==
        IF i = limit THEN 0 ELSE IF m[a + i] = m[b + i] THEN cmp[i + 1] ELSE Sign(m[a + i] - m[b + i])
  IN  cmp[0]

-----------------------------------------------------------------------------
(* numbers.c: digits, the least significant first, then turned around      *)

\* The text, the size that is returned, and whether a NUL ends the text.
Text(digits, ended) == [text |-> digits, size |-> Len(digits), ended |-> ended]
\* A call that never returns, and one that writes nothing.
Endless == [text |-> <<>>, size |-> -1, ended |-> FALSE]
Refused == [text |-> <<>>, size |-> 0, ended |-> FALSE]

mut_numeric_string_last_digit(number, base) ==
  LET low[n \in 0..number] == IF n = 0 THEN <<>> ELSE <<n % base>> \o low[n \div base]
  IN  IF base < 1 \/ base > 36 THEN Refused
      ELSE IF number = 0 THEN Text(<<0>>, FALSE)
      ELSE IF base = 1 THEN Endless
      ELSE Text(low[number], TRUE)
\* Dividing by a base of 1 never makes the number 0.
_getNumericString(number, base) ==
  LET low[n \in 0..number] == IF n = 0 THEN <<>> ELSE <<n % base>> \o low[n \div base]
  IN  IF base < 1 \/ base > 36 THEN Refused
      ELSE IF number = 0 THEN Text(<<0>>, FALSE)
      ELSE IF base = 1 THEN Endless
      ELSE Text(Reverse(low[number]), TRUE)

Minus == -1               \* the character, beside the digits
_getUnsignedDecString(number) == _getNumericString(number, 10)
_getDecString(number) ==
  IF number >= 0 THEN _getUnsignedDecString(number)
  ELSE LET u == _getUnsignedDecString((number * (2 ^ Word - 1)) % 2 ^ Word)
       IN  Text(<<Minus>> \o u.text, u.ended)

\* The number of digits first, then each digit by its shift.
_getHexString(hexnumber) ==
  LET shift[n \in 0..hexnumber] == IF n >= 16 THEN 1 + shift[n \div 16] ELSE 0
      top == shift[hexnumber]
  IN  Text([i \in 1..(top + 1) |-> (hexnumber \div 16 ^ (top + 1 - i)) % 16], TRUE)

-----------------------------------------------------------------------------
(* stdio.c: a format in memory is a sequence of characters, conversions    *)
(* and NULs                                                                *)

\* A conversion that is not known prints nothing and takes no argument; a
\* precision is used by %s only, -1 is none.  An int is the low half of the
\* argument.
Known == {"d", "u", "x", "X", "o", "c", "s"}
strnlen(s, count) == IF count < 0 THEN Len(s) ELSE Min({Len(s), count})
UnsignedInt(arg) == arg % 2 ^ IntBits
SignedInt(arg) ==
  IF UnsignedInt(arg) >= 2 ^ (IntBits - 1) THEN UnsignedInt(arg) - 2 ^ IntBits ELSE UnsignedInt(arg)
Convert(f, arg) ==
  CASE f.conv = "d" -> _getDecString(SignedInt(arg)).text
    [] f.conv = "u" -> _getUnsignedDecString(UnsignedInt(arg)).text
    [] f.conv \in {"x", "X"} -> _getHexString(arg).text
    [] f.conv = "o" -> _getNumericString(arg, 8).text
    [] f.conv = "c" -> <<SignedInt(arg) % 256>>
    [] f.conv = "s" -> SubSeq(arg, 1, strnlen(arg, f.precision))
\* The loop ends at a NUL.  A % before the NUL takes it for its conversion
\* ("lone"), and the loop goes on behind it.
End(fmt) == Min({i \in DOMAIN fmt : fmt[i].conv = "NUL"})
vsprintf(fmt, args) ==
  FoldLeft(LAMBDA a, f :
      IF f.conv = "char" THEN [a EXCEPT !.str = @ \o <<f.ch>>]
      ELSE IF f.conv \in Known THEN [str |-> a.str \o Convert(f, Head(a.args)), args |-> Tail(a.args)]
      ELSE a,
    [str |-> <<>>, args |-> args], SubSeq(fmt, 1, End(fmt) - 1)).str

-----------------------------------------------------------------------------
(* rtc.c: from the registers to seconds since 1970                         *)

convert_bcd_to_binary(value) == (value \div 16) * 10 + (value % 16)
daysPerMonth == <<31, 28, 31, 30, 31, 30, 31, 31, 30, 31, 30, 31>>

\* Bit 7 of the hours is PM in the mode with 12 hours; it is looked at after
\* the conversion.
HourOf(hours, h24) == IF ~h24 /\ hours >= 128 THEN ((hours % 128) + 12) % 24 ELSE hours

mut_leap_late(d) ==
  LET f(v) == IF d.bcd THEN convert_bcd_to_binary(v) ELSE v
      years == 2000 + f(d.year) - 1970
      month == f(d.month)
  IN  ((years * 365 - 1) + years \div 4
        + FoldLeft(+, 0, SubSeq(daysPerMonth, 1, month - 1)) + f(d.day)) * 24 + HourOf(f(d.hour), d.h24)
\* The hours since the epoch; minutes and seconds are only added.
HoursSinceEpoch(d) ==
  LET f(v) == IF d.bcd THEN convert_bcd_to_binary(v) ELSE v
      yearsSinceEpoch == 2000 + f(d.year) - 1970
      leapYears == yearsSinceEpoch \div 4 + (IF yearsSinceEpoch % 4 > 1 THEN 1 ELSE 0)
      daysCurrentYear == FoldLeft(+, 0, SubSeq(daysPerMonth, 1, f(d.month) - 1)) + f(d.day)
  IN  ((yearsSinceEpoch * 365 - 1) + leapYears + daysCurrentYear) * 24 + HourOf(f(d.hour), d.h24)

-----------------------------------------------------------------------------
(* What each is for                                                        *)

NoInput == [kind |-> "none"]
Kind(k, in) == [kind |-> k, in |-> in]
Inputs ==
  {Kind("mem", i) : i \in MemInputs} \cup {Kind("num", i) : i \in NumInputs}
  \cup {Kind("fmt", i) : i \in FmtInputs} \cup {Kind("date", i) : i \in DateInputs}

\* The string at an address, and the order of two strings.
Str(m, p) == SubSeq(m, p, Min({i \in p..Top(m) : m[i] = 0}) - 1)
Order(a, b) ==
  LET diff == {i \in 1..Min({Len(a), Len(b)}) : a[i] # b[i]}
  IN  IF diff # {} THEN Sign(a[Min(diff)] - b[Min(diff)]) ELSE Sign(Len(a) - Len(b))
Prefix(a, n) == SubSeq(a, 1, Min({n, Len(a)}))
Apart(p, n, q, k) == p + n <= q \/ q + k <= p
\* m with the text at p, and nothing else changed.
Holds(m2, m, p, text) ==
  \A i \in 1..Top(m) : m2[i] = IF i \in p..(p + Len(text) - 1) THEN text[i - p + 1] ELSE m[i]


\* The digits of a number in a base, and of a negative one in base 10.
Digits(v, base) ==
  LET k == CHOOSE k \in 1..Word : v < base ^ k /\ (k = 1 \/ v >= base ^ (k - 1))
  IN  [i \in 1..k |-> (v \div base ^ (k - i)) % base]
Decimal(v) == IF v < 0 THEN <<Minus>> \o Digits(-v, 10) ELSE Digits(v, 10)
Low(v, bits) == v % 2 ^ bits
LowSigned(v, bits) == ((v + 2 ^ (bits - 1)) % 2 ^ bits) - 2 ^ (bits - 1)

\* A number as text has the digits of the number and their count as its size,
\* the smallest negative number of the word included, in every base from 2 to
\* 36; base 1 never returns for a number that is not zero (numbers.c:98), and
\* the text of zero is not ended by a NUL, except in hexadecimal
\* (numbers.c:23).  vsprintf (stdio.c) gives each conversion it knows the
\* argument of its own position among them, of which %d and %u print the
\* low bits that make an int, and keeps every other character, in order; a
\* format that ends in % is read on behind its end (stdio.c:48).
NumbersRight ==
  /\ input.kind = "num" =>
       LET v == input.in.v   u == v % 2 ^ Word   base == input.in.base
       IN  /\ _getNumericString(u, base) =
                CASE base \in 2..36 -> Text(Digits(u, base), u # 0)
                  [] base = 1 -> (IF u = 0 THEN Text(<<0>>, FALSE) ELSE Endless)
                  [] OTHER -> Refused
           /\ _getHexString(u) = Text(Digits(u, 16), TRUE)
           /\ _getDecString(v) = Text(Decimal(v), v # 0)
  /\ input.kind = "fmt" =>
       LET fmt == input.in.fmt
           At(i) == Cardinality({j \in 1..i : fmt[j].conv \in Known})
           Arg(i) == input.in.args[At(i)]
           piece(i) == CASE fmt[i].conv = "char" -> <<fmt[i].ch>>
                         [] fmt[i].conv = "d" -> Decimal(LowSigned(Arg(i), IntBits))
                         [] fmt[i].conv = "u" -> Decimal(Low(Arg(i), IntBits))
                         [] fmt[i].conv \in {"x", "X"} -> Digits(Arg(i), 16)
                         [] fmt[i].conv = "o" -> Digits(Arg(i), 8)
                         [] fmt[i].conv = "c" -> <<Arg(i)>>
                         [] fmt[i].conv = "s" -> (IF fmt[i].precision < 0 THEN Arg(i) ELSE Prefix(Arg(i), fmt[i].precision))
                         [] OTHER -> <<>>
           first == CHOOSE i \in DOMAIN fmt : fmt[i].conv = "NUL" /\ \A j \in 1..(i - 1) : fmt[j].conv # "NUL"
       IN  vsprintf(fmt, input.in.args) = FlattenSeq([i \in 1..(first - 1) |-> piece(i)])

\* The sum that read_rtc_time makes of a date is that of the calendar, in
\* binary and BCD, for every year of the century from 2000 on, but for these
\* errors (rtc.c:65-84): it is a day ahead in January and February of a leap
\* year, whose extra day it counts from the first of January on; a clock with
\* 12 hours puts it 12 hours ahead at midnight and behind at noon, and in BCD
\* the mark of the afternoon is taken for 80 hours.
DatesRight ==
  input.kind = "date" =>
       LET d == input.in
           Bcd(x) == IF d.bcd THEN (x \div 10) * 16 + (x % 10) ELSE x
           Leap(y) == y % 4 = 0
           Days(y) == IF Leap(y) THEN 366 ELSE 365
           before == FoldLeft(LAMBDA t, y : t + Days(1969 + y), 0, [y \in 1..(30 + d.year) |-> y])
           inYear == FoldLeft(+, 0, SubSeq(daysPerMonth, 1, d.month - 1))
                     + (IF Leap(d.year) /\ d.month > 2 THEN 1 ELSE 0) + d.day - 1
           pm == d.hour >= 12
           h12 == IF d.hour % 12 = 0 THEN 12 ELSE d.hour % 12
           register == IF d.h24 THEN Bcd(d.hour) ELSE (IF pm THEN 128 ELSE 0) + Bcd(h12)
           dayAhead == IF Leap(d.year) /\ d.month <= 2 THEN 24 ELSE 0
           hoursAhead == CASE d.h24 -> 0
                           [] d.bcd /\ pm -> 80 + h12 - d.hour
                           [] d.hour = 0 -> 12
                           [] d.hour = 12 -> -12
                           [] OTHER -> 0
       IN  HoursSinceEpoch([d EXCEPT !.year = Bcd(@), !.month = Bcd(@), !.day = Bcd(@), !.hour = register])
             = (before + inYear) * 24 + d.hour + dayAhead + hoursAhead
=============================================================================
