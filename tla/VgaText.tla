------------------------------ MODULE VgaText -------------------------------
(***************************************************************************)
(* devices/vga.c: the text screen and its cursor, one vga_putc a step,     *)
(* next to what it should show: the end of an endless sheet of paper.      *)
(***************************************************************************)
EXTENDS Integers, Sequences

CONSTANTS COL_CNT, ROW_CNT, \* size of the screen
          TabStop,          \* 8
          RegMod,           \* 256: what a register holds
          Letters,          \* characters that are printed
          MaxLines          \* bound: lines on the paper

ASSUME VgAssumption == {COL_CNT, ROW_CNT, TabStop, RegMod, MaxLines} \subseteq Nat \ {0} /\ " " \notin Letters

VARIABLES fb, cx, cy,   \* frame buffer and where the next character goes
          regs,         \* the cursor registers of the hardware: high and low byte
          paper, row    \* all lines since the last form feed; the line printed on
VgVars == <<fb, cx, cy, regs, paper, row>>

Blank == [x \in 1 .. COL_CNT |-> " "]
BlankScreen == [y \in 1 .. ROW_CNT |-> Blank]

move_cursor(x, y) ==
  LET cp == x + COL_CNT * y IN regs' = <<cp \div RegMod, cp % RegMod>>

find_cursor == LET cp == regs[1] * RegMod + regs[2] IN <<cp % COL_CNT, cp \div COL_CNT>>

\* init: the boot loader left the cursor somewhere on the screen.
VgInit == /\ fb = BlankScreen /\ paper = BlankScreen
          /\ \E cp \in 0 .. COL_CNT * ROW_CNT - 1 : regs = <<cp \div RegMod, cp % RegMod>>
          /\ cx = find_cursor[1] /\ cy = find_cursor[2] /\ row = cy + 1

\* Scrolls at the bottom; screen is the frame buffer with what was just written.
newline(screen) ==
  /\ cx' = 0
  /\ IF cy + 1 >= ROW_CNT
     THEN cy' = ROW_CNT - 1 /\ fb' = [y \in 1 .. ROW_CNT |-> IF y < ROW_CNT THEN screen[y + 1] ELSE Blank]
     ELSE cy' = cy + 1 /\ fb' = screen

Advance(x, screen) == IF x >= COL_CNT THEN newline(screen) ELSE cx' = x /\ fb' = screen /\ UNCHANGED cy

PaperLine(p) == /\ row' = row + 1 /\ paper' = IF row = Len(p) THEN Append(p, Blank) ELSE p

\* ROUND_UP (cx + 1, 8)
Tab(x) == ((x + TabStop) \div TabStop) * TabStop

Put(c) ==
  \/ /\ c = "newline" /\ newline(fb) /\ PaperLine(paper)
  \/ /\ c = "formfeed" /\ fb' = BlankScreen /\ cx' = 0 /\ cy' = 0 /\ paper' = BlankScreen /\ row' = 1
  \/ /\ c = "backspace" /\ cx' = (IF cx > 0 THEN cx - 1 ELSE cx) /\ UNCHANGED <<fb, cy, paper, row>>
  \/ /\ c = "return" /\ cx' = 0 /\ UNCHANGED <<fb, cy, paper, row>>
  \/ /\ c = "bell" /\ UNCHANGED <<fb, cx, cy, paper, row>>
  \/ /\ c = "tab" /\ Advance(Tab(cx), fb)
     /\ IF cx + TabStop >= COL_CNT + (cx % TabStop) THEN PaperLine(paper) ELSE UNCHANGED <<paper, row>>
  \/ /\ c \in Letters /\ Advance(cx + 1, [fb EXCEPT ![cy + 1][cx + 1] = c])
     /\ LET written == [paper EXCEPT ![row][cx + 1] = c]
        IN IF cx + 1 = COL_CNT THEN PaperLine(written) ELSE paper' = written /\ UNCHANGED row

\* The switch, and the hardware cursor after it.
vga_putc(c) == Put(c) /\ move_cursor(cx', cy')

VgNext == \E c \in Letters \cup {"newline", "formfeed", "backspace", "return", "bell", "tab"} :
            (Len(paper) < MaxLines \/ c \in {"formfeed", "backspace", "return", "bell"}) /\ vga_putc(c)

-----------------------------------------------------------------------------
\* The hardware cursor is on the screen and where the next character goes, and the screen shows the last lines of what was
\* printed, whole and in order, whatever control characters came between.
ScreenShowsPaper ==
  /\ cx \in 0 .. COL_CNT - 1 /\ cy \in 0 .. ROW_CNT - 1 /\ find_cursor = <<cx, cy>>
  /\ LET top == Len(paper) - ROW_CNT
     IN row = top + cy + 1 /\ \A y \in 1 .. ROW_CNT : fb[y] = paper[top + y]
=============================================================================
