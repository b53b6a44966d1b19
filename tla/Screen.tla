------------------------------- MODULE Screen -------------------------------
(***************************************************************************)
(* The text screen and its log (kernel/vga/vgatext.cpp), and error() of    *)
(* kernel/error.cpp, which prints on it and may switch the log off.        *)
(*                                                                         *)
(* Screen and log are sequences of cells in the order of memory, so that a *)
(* column past the right edge is a cell of the next row, as in the code.   *)
(* A tab may take the column past the largest number of an i8: it becomes  *)
(* negative.  Colours are left out.                                        *)
(* Every operation masks interrupts and is one step; the interrupts that   *)
(* call them arrive while malloc is working too, which is all that         *)
(* MallocBegin and MallocEnd stand for.                                    *)
(***************************************************************************)
EXTENDS Integers, Sequences

CONSTANTS
    Width,          \* m_width
    Height,         \* m_height
    TabSize,        \* m_tabSize
    MaxX,           \* the largest i8, which is what m_curX is (127)
    MaxLines        \* bound on the lines of the log

ASSUME ScreenAssumption ==
    /\ {Width, Height, TabSize} \subseteq Nat \ {0} /\ Width > 1
    /\ MaxX \in Nat /\ MaxX >= Width /\ MaxX >= TabSize
    /\ MaxLines \in Nat /\ MaxLines >= Height

VARIABLES
    scr,            \* the static members of VGAText, the framebuffer and two
                    \* histories: fence, the number of cells on the screen before the
                    \* rubout limit; unlogged, a cell was erased on the screen and
                    \* not in the log
    mallocReady,    \* Malloc::isMallocReady()
    up              \* boot() has initialised malloc and called enableLog

screenVars == <<scr, mallocReady, up>>

Blank == " "
LF    == "nl"
BKSP  == "bs"
TAB   == "tab"
CR    == "cr"
ScreenChars == {"a", LF, BKSP, TAB, CR}

PageCells == Width * Height
Blanks(n) == [i \in 1 .. n |-> Blank]

\* The part of the log that is one screen, from its cell number c on.
Window(log, c) == SubSeq(log, c + 1, c + PageCells)

\* The last screen of the log: m_logLim - 2*m_width*m_height.
LastPage(log) == Len(log) - PageCells

\* After clear().
ScreenInit ==
    /\ scr = [cells |-> Blanks(PageCells), x |-> 0, y |-> 0,
              logOn |-> FALSE, log |-> <<>>, cur |-> 0,
              limX |-> 0, limY |-> 0, fence |-> 0, unlogged |-> FALSE]
    /\ mallocReady = FALSE
    /\ up = FALSE

-----------------------------------------------------------------------------
(***************************************************************************)
(* The operations, from a state s of the screen to the next.               *)
(***************************************************************************)
Render(s) == [s EXCEPT !.cells = Window(s.log, s.cur), !.unlogged = FALSE]

ScrollDown(s) == Render([s EXCEPT !.cur = LastPage(s.log)])

OnPage(off) == off \in 0 .. PageCells - 1

\* A character goes to the framebuffer, where what is not on the page is not seen,
\* and, when it is on, to the log; a cell outside of the log is memory of somebody
\* else, and what that does to the heap is not followed here.
Store(s, off, c) ==
    LET seen  == IF OnPage(off) THEN [s EXCEPT !.cells[off + 1] = c] ELSE s
        place == s.cur + off
    IN  IF s.logOn /\ place \in 0 .. Len(s.log) - 1 THEN [seen EXCEPT !.log[place + 1] = c]
        ELSE seen

Offset(s) == s.x + Width * s.y

\* Nothing answers in front of the framebuffer (external): what is read is not 0.
IsBlank(s, off) == OnPage(off) /\ s.cells[off + 1] = Blank

\* The columns, counted from 1, of the row that ends at off with something in them,
\* and 0: rubout looks for the last.
Filled(s, off) == {0} \cup {i \in 1 .. Width : ~IsBlank(s, off - Width + i)}

EndOfText(s, off) == CHOOSE i \in Filled(s, off) : \A k \in Filled(s, off) : k <= i

\* rubout() in column 0, or before it: the last line of the log is removed, if there
\* is one more than a screen, or else a cell is erased, on the screen only; then the
\* cursor goes to the end of the text in that row.
RuboutLine(s) ==
    LET off == Offset(s) - 1
        cut == Render([s EXCEPT !.cur = @ - Width, !.log = SubSeq(@, 1, Len(@) - Width)])
        out == [s EXCEPT !.y = @ - 1, !.unlogged = s.logOn,
                         !.cells = IF OnPage(off) THEN [@ EXCEPT ![off + 1] = Blank] ELSE @]
    IN  IF s.y <= 0 THEN s
        ELSE IF s.logOn /\ s.cur >= Width THEN [cut EXCEPT !.x = EndOfText(cut, off + Width)]
        ELSE [out EXCEPT !.x = EndOfText(out, off)]

\* rubout()
Rubout(s) ==
    IF s.x > 0 THEN Store([s EXCEPT !.x = @ - 1], Offset(s) - 1, Blank)
    ELSE RuboutLine(s)

\* Mutant of MayRubout: the limit's column is not looked at.
MayRuboutLine(s) == s.y >= s.limY /\ s.x > 0

MayRubout(s) == s.y >= s.limY /\ s.x > s.limX

\* What an i8 makes of a number a little too large.
Narrow(n) == IF n > MaxX THEN n - 2 * (MaxX + 1) ELSE n

\* m_curX % m_tabSize, which is negative or 0 for a negative column.
PastTab(x) == IF x < 0 THEN -((-x) % TabSize) ELSE x % TabSize

\* The character itself, before new lines are added.
PutChar(s, c) ==
    CASE c = LF   -> [s EXCEPT !.x = 0, !.y = @ + 1]
      [] c = BKSP -> IF MayRubout(s) THEN Rubout(s) ELSE s
      [] c = TAB  -> [s EXCEPT !.x = Narrow(@ + TabSize - PastTab(@))]
      [] c = CR   -> [s EXCEPT !.x = 0]
      [] OTHER    -> LET w == Store(s, Offset(s), c)
                     IN  IF Narrow(s.x + 1) >= Width THEN [w EXCEPT !.x = 0, !.y = @ + 1]
                         ELSE [w EXCEPT !.x = Narrow(@ + 1)]

\* newLines: the cursor and the framebuffer.
ShiftUp(s, n) ==
    [s EXCEPT !.y = @ - n,
              !.fence = IF @ < n * Width THEN 0 ELSE @ - n * Width,
              !.cells = SubSeq(@, n * Width + 1, PageCells) \o Blanks(n * Width)]

\* Mutant of GrowLog: only the last screen is copied to the new memory.
GrowLogPage(s, n) ==
    LET l == Blanks(LastPage(s.log)) \o Window(s.log, LastPage(s.log)) \o Blanks(n * Width)
    IN  [s EXCEPT !.log = l, !.cur = LastPage(l)]

\* newLines: the log is reallocated with n empty lines more.
GrowLog(s, n) ==
    LET l == s.log \o Blanks(n * Width)
    IN  [s EXCEPT !.log = l, !.cur = LastPage(l)]

\* Mutant of ToEnd: a character is put on whatever part of the log is shown.
ToEndNot(s) == s

\* put shows the end of the log first.
ToEnd(s) == IF s.logOn /\ s.cur # LastPage(s.log) THEN ScrollDown(s) ELSE s

\* Mutant of NewLinesDue: a row too late.
NewLinesDueLate(s) == s.y - Height

NewLinesDue(s) == 1 + s.y - Height

\* put, where newLines meets no busy malloc: the log is off, or malloc is ready.
PutReady(s, c) ==
    LET p == PutChar(ToEnd(s), c)
        n == NewLinesDue(p)
    IN  IF n <= 0 THEN p
        ELSE IF p.logOn THEN GrowLog(ShiftUp(p, n), n)
        ELSE ShiftUp(p, n)

\* enableLog(false); the log's memory is only given back when malloc can take it.
DisableLog(s, ready) ==
    [s EXCEPT !.logOn = FALSE, !.log = IF ready THEN <<>> ELSE @]

\* print(msg): every message of an error is one line.
PrintLine(s) == PutReady(PutReady(s, "a"), LF)

\* error(): "The log would use new/kmalloc, and we need to display the error anyway".
Error(s, ready) ==
    IF ~ready /\ s.logOn THEN PrintLine(PrintLine(DisableLog(s, ready)))
    ELSE PrintLine(s)

\* put.  With the log on and malloc busy, newLines switches the log off and says so.
Put(s, c, ready) ==
    LET p == PutChar(ToEnd(s), c)
        n == NewLinesDue(p)
    IN  IF ready \/ ~s.logOn \/ n <= 0 THEN PutReady(s, c)
        ELSE Error([ShiftUp(p, n) EXCEPT !.logOn = FALSE], ready)

\* enableLog(true)
EnableLog(s, ready) ==
    IF s.logOn THEN s
    ELSE IF ~ready THEN Error(s, ready)
    ELSE [s EXCEPT !.logOn = TRUE, !.log = s.cells, !.cur = 0, !.unlogged = FALSE]

\* moveCursor from showCursor: a column past either edge is refused with an error.
ShowCursor(s, ready) == IF s.x < 0 \/ s.x > Width THEN Error(s, ready) ELSE s

\* scroll(-1)
ScrollUp1(s, ready) ==
    IF ~s.logOn THEN Error(s, ready)
    ELSE IF s.cur = 0 THEN s
    ELSE Render([s EXCEPT !.cur = IF @ < Width THEN 0 ELSE @ - Width])

\* scroll(1)
ScrollDown1(s, ready) ==
    IF ~s.logOn THEN Error(s, ready)
    ELSE LET c == s.cur + Width
         IN  IF c >= LastPage(s.log)
             THEN Render(ShowCursor([s EXCEPT !.cur = LastPage(s.log)], ready))
             ELSE Render([s EXCEPT !.cur = c])

-----------------------------------------------------------------------------
(***************************************************************************)
(* Steps.                                                                  *)
(***************************************************************************)
\* The screen becomes s, within the bounds of the model.
Become(s) ==
    /\ Len(s.log) <= MaxLines * Width
    /\ scr' = s

\* A character printed by boot(), by a system call, or echoed by the keyboard.
DoPut ==
    /\ \E c \in ScreenChars : Become(Put(scr, c, mallocReady))
    /\ UNCHANGED <<mallocReady, up>>

\* Any of the kernel's error messages.
DoError ==
    /\ Become(Error(scr, mallocReady))
    /\ UNCHANGED <<mallocReady, up>>

\* boot() after Malloc::init.
DoEnableLog ==
    /\ ~up
    /\ up' = TRUE
    /\ mallocReady' = TRUE
    /\ Become(EnableLog(scr, mallocReady'))

\* isr_kbd_int: Page Up and Page Down.
DoScroll ==
    /\ up
    /\ \/ Become(ScrollUp1(scr, mallocReady))
       \/ Become(ScrollDown1(scr, mallocReady))
    /\ UNCHANGED <<mallocReady, up>>

\* The cells on the screen before the cursor.
Before(s) == IF Offset(s) < 0 THEN 0 ELSE Offset(s)

\* setRuboutLimit(), when a task starts to read a line, and (0,0) at its end.
SetRuboutLimit ==
    /\ up
    /\ \/ Become([scr EXCEPT !.limX = scr.x, !.limY = scr.y, !.fence = Before(scr)])
       \/ Become([scr EXCEPT !.limX = 0, !.limY = 0, !.fence = 0])
    /\ UNCHANGED <<mallocReady, up>>

\* A system call enters malloc or free, in which interrupts stay enabled, and
\* leaves it.
MallocBegin ==
    /\ up /\ mallocReady
    /\ mallocReady' = FALSE
    /\ UNCHANGED <<scr, up>>

MallocEnd ==
    /\ up /\ ~mallocReady
    /\ mallocReady' = TRUE
    /\ UNCHANGED <<scr, up>>

ScreenNext ==
    \/ DoPut \/ DoError \/ DoEnableLog \/ DoScroll \/ SetRuboutLimit
    \/ MallocBegin \/ MallocEnd

ScreenSpec == ScreenInit /\ [][ScreenNext]_screenVars

-----------------------------------------------------------------------------
(***************************************************************************)
(* Properties.                                                             *)
(***************************************************************************)
ScreenCells == {Blank, "a"}

\* The members have their types, the column in an i8; the cursor's row is on the
\* screen and the shown part of the log inside the log after every operation.
ScreenTypeOK ==
    /\ scr.cells \in Seq(ScreenCells) /\ Len(scr.cells) = PageCells
    /\ scr.x \in -(MaxX + 1) .. MaxX /\ scr.y \in 0 .. Height - 1
    /\ scr.log \in Seq(ScreenCells) /\ Len(scr.log) % Width = 0
    /\ scr.logOn => scr.cur \in 0 .. LastPage(scr.log)

\* "When true, write to the log and screen" (vgatext.h): with the log on, the
\* screen shows the log, through every mix of printing, erasing, scrolling, new
\* lines and errors, and whatever tabs do to the column.  Only a backspace in column
\* 0 or before it, with a rubout limit before it, erases a cell on the screen and
\* not in the log, and only until the screen is rendered again.
ScreenShowsLog ==
    scr.logOn /\ ~scr.unlogged => scr.cells = Window(scr.log, scr.cur)

\* As long as the log stays on, a line that has left the screen at its upper edge
\* is there to scroll back to, unchanged: nothing that is printed, erased or
\* scrolled with a column of 0 or more touches the log above its last screen.
LogKeepsHistory ==
    [][scr.logOn /\ scr'.logOn /\ scr.x >= 0 =>
          SubSeq(scr'.log, 1, LastPage(scr.log)) = SubSeq(scr.log, 1, LastPage(scr.log))]_screenVars

\* The end of what was printed.
Page(s) == IF s.logOn THEN Window(s.log, LastPage(s.log)) ELSE s.cells

\* "Block erasing characters before the limit" (vgatext.h): no backspace erases
\* what was on the screen before a rubout limit with a column of 0 or more was set,
\* even when lines were added since and the limit stayed where it was, and wherever
\* tabs have taken the column since.
RuboutStopsAtLimit ==
    [][scr.logOn = scr'.logOn /\ scr.fence = scr'.fence /\ scr.limX >= 0 =>
          \A i \in 1 .. PageCells :
              i <= scr.fence /\ Page(scr)[i] # Blank => Page(scr')[i] # Blank]_screenVars

=============================================================================
