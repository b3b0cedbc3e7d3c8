------------------------------- MODULE Screen -------------------------------
(***************************************************************************)
(* The text on the framebuffer (framebuffer.c, psf.c, window.c):           *)
(* characters are painted pixel by pixel, the screen scrolls around the    *)
(* pinned logo.                                                            *)
(*                                                                         *)
(* The framebuffer is the memory at its address, one value per pixel; a    *)
(* glyph paints all its pixels with the value of its character.  A write   *)
(* behind the end of the framebuffer is recorded and not carried out.      *)
(***************************************************************************)
EXTENDS Integers, Sequences, SequencesExt, FiniteSetsExt

CONSTANTS Width, Height,      \* of the framebuffer, in pixels
          GlyphWidth, GlyphHeight,
          Logos,              \* where the logo may be: windows inside the screen
          Texts,              \* what is printed: sequences of characters
          Positions,          \* where it may be printed: <<column, line>>
          UintSize,           \* 2^32: coordinates are uint32_t
          MaxPrints           \* bound: calls

ASSUME ScreenAssumption ==
  /\ Width \in Nat \ {0} /\ Height \in Nat \ {0}
  /\ GlyphWidth \in 1..Width /\ GlyphHeight \in 1..Height
  /\ Positions \subseteq Nat \X Nat
  /\ UintSize \in Nat /\ UintSize > 2 * (Width + Height)
  /\ MaxPrints \in Nat

VARIABLES fb,                 \* the pixels
          cur_fb_line, cur_fb_column,
          logo,               \* logo_area_ptr
          spilled,            \* a write behind the end
          prints

vars == <<fb, cur_fb_line, cur_fb_column, logo, spilled, prints>>

Black == 0
Tab == 9
Newline == 10
LogoPixel == 99
Unknown == 98                 \* what is read behind the end
NoLogo == [x_orig |-> 0, y_orig |-> 0, width |-> 0, height |-> 0]
number_of_lines == Height \div GlyphHeight
Address(x, y) == y * Width + x
s0 == [fb |-> fb, line |-> cur_fb_line, column |-> cur_fb_column, spilled |-> spilled]

-----------------------------------------------------------------------------
(* window.c                                                                *)

Window(x, y, w, h) == [x_orig |-> x, y_orig |-> y, width |-> w, height |-> h]
Right(w) == w.x_orig + w.width
Bottom(w) == w.y_orig + w.height

mut_rectangles_overlap(main, area) ==
  (IF main.x_orig < area.x_orig
   THEN <<Window(main.x_orig, main.y_orig, area.x_orig - main.x_orig, main.height)>> ELSE <<>>)
  \o (IF Bottom(area) < Bottom(main)
      THEN <<Window(main.x_orig, Bottom(area), main.width, Bottom(main) - Bottom(area))>> ELSE <<>>)
\* Left, right, above and below the area, those that are not empty.
_fb_get_rectangles(main, area) ==
  (IF main.x_orig < area.x_orig
   THEN <<Window(main.x_orig, main.y_orig, area.x_orig - main.x_orig, main.height)>> ELSE <<>>)
  \o (IF Right(area) < Right(main)
      THEN <<Window(Right(area), main.y_orig, Right(main) - Right(area), main.height)>> ELSE <<>>)
  \o (IF main.y_orig < area.y_orig
      THEN <<Window(area.x_orig, main.y_orig, area.width, area.y_orig - main.y_orig)>> ELSE <<>>)
  \o (IF Bottom(area) < Bottom(main)
      THEN <<Window(area.x_orig, Bottom(area), area.width, Bottom(main) - Bottom(area))>> ELSE <<>>)

-----------------------------------------------------------------------------
(* framebuffer.c: s is a screen with its cursor                            *)

\* _fb_put_pixel on a block of pixels, row by row.
_fb_put_pixel(s, x, y, w, h, color) ==
  LET block == {Address(i, j) : i \in x..(x + w - 1), j \in y..(y + h - 1)}
  IN  [s EXCEPT !.fb = [p \in DOMAIN @ |-> IF p \in block THEN color ELSE @[p]],
                !.spilled = @ \/ \E p \in block : p >= Width * Height]

_fb_putcharAt(s, symbol, cx, cy) ==
  _fb_put_pixel(s, cx * GlyphWidth, cy * GlyphHeight, GlyphWidth, GlyphHeight, symbol)

Rows(from, to) == [k \in 1..(IF to > from THEN to - from ELSE 0) |-> from + k - 1]

\* Row by row: each pixel takes the value of the one a line below, which is
\* then cleared.  The last row is computed without a sign: a region at the top
\* that is lower than a line has no end.
ScrollRectangle(s, w) ==
  LET end == (Bottom(w) - GlyphHeight) % UintSize
      Span(y) == Address(w.x_orig, y)..(Address(Right(w), y) - 1)
      Row(a, y) == [p \in DOMAIN a |->
                      IF p \in Span(y) THEN IF p + Width * GlyphHeight \in DOMAIN a
                                            THEN a[p + Width * GlyphHeight] ELSE Unknown
                      ELSE IF p \in Span(y + GlyphHeight) THEN Black ELSE a[p]]
  IN  [s EXCEPT !.fb = FoldLeft(Row, @, Rows(w.y_orig, Min({end, Height}))),
                !.spilled = @ \/ (w.y_orig < end /\ end + GlyphHeight > Height)]

MainWindow == Window(0, 0, Width, Height)
_fb_scroll(s, pinned) ==
  LET parts == IF pinned = NoLogo THEN <<>> ELSE _fb_get_rectangles(MainWindow, pinned)
  IN  FoldLeft(ScrollRectangle, s, IF parts = <<>> THEN <<MainWindow>> ELSE parts)

\* A new line on the last line scrolls and stays there; a tab is four blanks.
_fb_printStrAt(s, text, cx, cy) ==
  FoldLeft(LAMBDA a, ch :
      CASE ch = Newline ->
             IF a.y + 1 >= number_of_lines
             THEN [s |-> _fb_scroll([a.s EXCEPT !.line = a.y], logo), x |-> 0, y |-> a.y]
             ELSE [s |-> [a.s EXCEPT !.line = a.y + 1], x |-> 0, y |-> a.y + 1]
        [] ch = Tab ->
             [a EXCEPT !.x = @ + 4,
                       !.s = FoldLeft(LAMBDA b, i : _fb_putcharAt(b, Black, a.x + i, a.y), @, Rows(0, 4))]
        [] OTHER -> [a EXCEPT !.x = @ + 1, !.s = _fb_putcharAt(@, ch, a.x, a.y)],
    [s |-> s, x |-> cx, y |-> cy], text).s

\* The next line, after a scroll if there is none.
_fb_increaseLine(s) ==
  IF s.line + 1 >= number_of_lines THEN _fb_scroll(s, logo) ELSE [s EXCEPT !.line = @ + 1]

mut_print_no_scroll(s, text) ==
  LET t == _fb_printStrAt(s, text, 0, s.line) IN [t EXCEPT !.line = @ + 1, !.column = 0]
_fb_printStr(s, text) ==
  LET t == _fb_printStrAt(s, text, 0, s.line) IN [_fb_increaseLine(t) EXCEPT !.column = 0]

\* The number stands behind the text, as many places on as the text has
\* characters.
_fb_printStrAndNumber(s, text, digits) ==
  LET y == s.line
      t == _fb_printStrAt(_fb_printStrAt(s, text, 0, y), digits, Len(text), y)
  IN  [_fb_increaseLine(t) EXCEPT !.column = 0]

\* Nothing stops the cursor at the right or at the bottom.
_fb_putchar(s, symbol) ==
  IF symbol = Newline THEN [s EXCEPT !.line = @ + 1, !.column = 0]
  ELSE [_fb_putcharAt(s, symbol, s.column, s.line) EXCEPT !.column = @ + 1]

\* draw_logo: the picture, pixel by pixel, and the area that is pinned.
DrawLogo(s, w) == _fb_put_pixel(s, w.x_orig, w.y_orig, w.width, w.height, LogoPixel)

-----------------------------------------------------------------------------
(* Actions                                                                 *)

Init ==
  /\ fb = [p \in 0..(Width * Height - 1) |-> Black]
  /\ cur_fb_line = 0 /\ cur_fb_column = 0 /\ logo = NoLogo
  /\ spilled = FALSE /\ prints = 0

Shows(s) ==
  /\ fb' = s.fb /\ cur_fb_line' = s.line /\ cur_fb_column' = s.column /\ spilled' = s.spilled
Call == prints < MaxPrints /\ prints' = prints + 1

draw_logo ==
  /\ Call /\ prints = 0
  /\ \E w \in Logos : logo' = w /\ Shows(DrawLogo(s0, w))

PrintNumber ==
  /\ Call /\ \E t \in Texts : Shows(_fb_printStrAndNumber(s0, t, <<8>>))
  /\ UNCHANGED logo

\* SYS_PRINT, and the prints of the kernel: on the line of the cursor, or at a
\* position, which is not compared with the size of the screen.
sys_print(pos_x, pos_y) ==
  /\ Call
  /\ \E t \in Texts :
       Shows(IF pos_x = 0 /\ pos_y = 0 THEN _fb_printStr(s0, t) ELSE _fb_printStrAt(s0, t, pos_x, pos_y))
  /\ UNCHANGED logo

\* The echo of a key.
PutChar ==
  /\ Call /\ \E ch \in {5, Newline} : Shows(_fb_putchar(s0, ch))
  /\ UNCHANGED logo

Next ==
  \/ draw_logo \/ PrintNumber \/ PutChar
  \/ \E at \in Positions : sys_print(at[1], at[2])

-----------------------------------------------------------------------------
(* Properties                                                              *)

In(x, y, w) == x \in w.x_orig..(Right(w) - 1) /\ y \in w.y_orig..(Bottom(w) - 1)

\* The logo leaves less than a line above it.
NarrowTop == logo.y_orig \in 1..(GlyphHeight - 1)

\* Around the logo the regions of _fb_get_rectangles tile the screen, and a
\* scroll, whatever is on the screen, leaves the pinned logo as it is
\* (PIN_LOGO), moves every other pixel up by a line, inside its region, leaves
\* the last line of each region of two lines or more blank, and writes nothing
\* behind the screen: unless there is less than a line above the logo, when it
\* does not end before it has left the framebuffer (framebuffer.c:244).
\* kernel_start draws the logo at the top.
ScrollKeepsLogo ==
  LET after == _fb_scroll([s0 EXCEPT !.spilled = FALSE], logo)
      parts == IF logo = NoLogo THEN <<MainWindow>> ELSE _fb_get_rectangles(MainWindow, logo)
  IN  IF NarrowTop THEN after.spilled
      ELSE /\ ~after.spilled
           /\ \A x \in 0..(Width - 1), y \in 0..(Height - 1) :
                LET mine == {i \in DOMAIN parts : In(x, y, parts[i])}
                IN  IF In(x, y, logo) THEN mine = {} /\ after.fb[Address(x, y)] = fb[Address(x, y)]
                    ELSE /\ Cardinality(mine) = 1
                         /\ \A i \in mine :
                              IF y + GlyphHeight < Bottom(parts[i])
                              THEN after.fb[Address(x, y)] = fb[Address(x, y + GlyphHeight)]
                              ELSE parts[i].height >= 2 * GlyphHeight => after.fb[Address(x, y)] = Black

\* The cursor leaves the screen in two ways only: an echoed key, which moves it
\* without a bound (_fb_putchar), and a print at a line below the screen, whose
\* new line takes the cursor there (framebuffer.c:118).  Every other print that
\* begins on the screen and whose lines fit it ends on it, whatever lines and
\* scrolls its text takes, and writes nothing behind the end of the framebuffer.
CursorStays ==
  [][ (/\ cur_fb_line < number_of_lines /\ ~PutChar /\ ~NarrowTop
       /\ ~\E at \in Positions : at[2] >= number_of_lines /\ sys_print(at[1], at[2])) =>
        cur_fb_line' < number_of_lines /\ spilled' = spilled ]_vars
=============================================================================
