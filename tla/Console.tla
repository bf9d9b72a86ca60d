------------------------------- MODULE Console -------------------------------
(***************************************************************************)
(* console.c and puts.c: the text screen.                                  *)
(*                                                                         *)
(* write_console works on copies of line and cell and stores them at its   *)
(* end; newline changes the stored ones.  acquire_console does nothing, so *)
(* that the timer handler prints in the middle of a call.  A position is   *)
(* two cells wide; what is written behind the last line is not on the      *)
(* screen and never comes there.  frame_index stays 0 and enable_scrolling *)
(* 1.                                                                      *)
(***************************************************************************)
EXTENDS Integers, SequencesExt

CONSTANTS
  MaxCells,   \* MAX_CELLS, cut down
  MaxLines,   \* MAX_LINES, cut down
  Text,       \* what is written: sequences of characters
  TickText,   \* what timer_interrupt puts
  MaxPrints   \* bound on the calls

CharWidth == 2
Columns == MaxCells \div CharWidth

ASSUME ConsoleAssumption == MaxCells % 8 = 0 /\ MaxCells > 0 /\ MaxLines \in Nat \ {0} /\ MaxPrints \in Nat

VARIABLES
  cs,      \* line and cell of the console_state
  screen,  \* vga_buffer by positions; attributes are left out
  call,    \* the call in progress: its line and cell and what is left to do
  prints,  \* calls so far
  shown    \* what the screen should show: lines, and whether that can be said

consoleVars == <<cs, screen, call, prints, shown>>

Position == 0 .. Columns * MaxLines - 1
Idle == [state |-> "idle"]
Origin == [line |-> 0, cell |-> 0]

ConsoleInit ==
  /\ cs = Origin
  /\ screen = [p \in Position |-> " "]
  /\ call = Idle
  /\ prints = 0
  /\ shown = [lines |-> <<<<>>>>, known |-> TRUE]

ScrollDown(scr) ==
  [p \in Position |-> IF p + Columns \in Position THEN scr[p + Columns] ELSE " "]

(* newline on c, which holds cs and screen; the next line after the last   *)
(* is one behind the screen                                                *)
Newline(c) ==
  [c EXCEPT !.cs = [line |-> @.line + 1, cell |-> 0],
            !.screen = IF c.cs.line + 1 = MaxLines THEN ScrollDown(@) ELSE @]

Scrolled(c) == IF c.line = MaxLines THEN [c EXCEPT !.screen = ScrollDown(@)] ELSE c

(* a tab beyond the end of the line: newline moves the stored line only *)
Tab(c) ==
  LET next == (c.cell \div 8 + 1) * 8
  IN  IF next >= MaxCells THEN [Newline(c) EXCEPT !.cell = next % MaxCells]
      ELSE [c EXCEPT !.cell = next]

(* a character in the last column: the call goes on behind it with its own *)
(* line and cell                                                           *)
Visible(c, chr) ==
  LET p == c.line * Columns + c.cell \div CharWidth
      d == [c EXCEPT !.screen = IF p \in Position THEN [@ EXCEPT ![p] = chr] ELSE @,
                     !.cell = @ + CharWidth]
  IN  IF d.cell = MaxCells THEN Newline(d) ELSE d

\* Fault: a new line goes on below the end of the last.
FaultyWriteByte(c, chr) ==
  Scrolled(CASE chr = "\t" -> Tab(c)
             [] chr = "\n" -> [c EXCEPT !.line = @ + 1]
             [] chr = "\r" -> [c EXCEPT !.cell = 0]
             [] OTHER -> Visible(c, chr))

(* one round of the loop of write_console, on cs, screen, line and cell *)
WriteByte(c, chr) ==
  Scrolled(CASE chr = "\t" -> Tab(c)
             [] chr = "\n" -> [c EXCEPT !.line = @ + 1, !.cell = 0]
             [] chr = "\r" -> [c EXCEPT !.cell = 0]
             [] OTHER -> Visible(c, chr))

Now(position) == [cs |-> cs, screen |-> screen, line |-> position.line, cell |-> position.cell]

(* puts as a whole, as the handler runs it *)
Puts(text) ==
  LET w == FoldLeft(WriteByte, Now(cs), text)
  IN  Newline([w EXCEPT !.cs = [line |-> w.line, cell |-> w.cell]])

(* puts, or putchar and printf, which add no new line *)
Output(text, newline) ==
  /\ call = Idle /\ prints < MaxPrints
  /\ call' = [state |-> "writing", line |-> cs.line, cell |-> cs.cell,
              text |-> text, left |-> text, newline |-> newline]
  /\ prints' = prints + 1
  /\ UNCHANGED <<cs, screen, shown>>

WriteNext ==
  /\ call.state = "writing" /\ call.left # <<>>
  /\ LET w == WriteByte(Now(call), Head(call.left)) IN
     /\ cs' = w.cs /\ screen' = w.screen
     /\ call' = [call EXCEPT !.line = w.line, !.cell = w.cell, !.left = Tail(@)]
  /\ UNCHANGED <<prints, shown>>

(* The lines after text: whether they are known ends with a full line, a   *)
(* tab or a carriage return.                                               *)
Shown(text) ==
  LET Add(s, chr) ==
        IF chr = "\n" THEN [s EXCEPT !.lines = Append(@, <<>>)]
        ELSE LET line == Append(Last(s.lines), chr) IN
             [lines |-> Append(Front(s.lines), line),
              known |-> s.known /\ chr \notin {"\t", "\r"} /\ Len(line) < Columns]
  IN  FoldLeft(Add, shown, text)

(* the end of write_console, and the newline of puts *)
WriteEnd ==
  /\ call.state = "writing" /\ call.left = <<>>
  /\ cs' = [line |-> call.line, cell |-> call.cell]
  /\ call' = IF call.newline THEN [call EXCEPT !.state = "newline"] ELSE Idle
  /\ shown' = Shown(call.text)
  /\ UNCHANGED <<screen, prints>>

PutsNewline ==
  /\ call.state = "newline"
  /\ LET c == Newline(Now(cs)) IN cs' = c.cs /\ screen' = c.screen
  /\ call' = Idle
  /\ shown' = Shown(<<"\n">>)
  /\ UNCHANGED prints

(* timer_interrupt at the end of a time slice, at any point of a call *)
TimeIsUp ==
  /\ prints < MaxPrints
  /\ LET c == Puts(TickText) IN cs' = c.cs /\ screen' = c.screen
  /\ prints' = prints + 1
  /\ shown' = IF call.state = "writing" THEN [shown EXCEPT !.known = FALSE]
              ELSE Shown(TickText \o <<"\n">>)
  /\ UNCHANGED call

ConsoleNext ==
  \/ \E text \in Text, newline \in BOOLEAN : Output(text, newline)
  \/ WriteNext \/ WriteEnd \/ PutsNewline \/ TimeIsUp

ConsoleSpec == ConsoleInit /\ [][ConsoleNext]_consoleVars

-----------------------------------------------------------------------------

BehindScreen == cs.line >= MaxLines /\ (call.state = "writing" => call.line >= MaxLines)

ShowsLines ==
  call = Idle /\ shown.known =>
    IF Len(shown.lines) > MaxLines THEN BehindScreen
    ELSE \A p \in Position :
           LET line == p \div Columns + 1
               column == (p % Columns) + 1
           IN  screen[p] = IF line \in DOMAIN shown.lines /\ column \in DOMAIN shown.lines[line]
                           THEN shown.lines[line][column] ELSE " "

(* As long as no line is full and no handler prints within a call, the     *)
(* screen shows the lines that were written, until there are more than it  *)
(* has.  From then on the position stays behind the last line, whatever is *)
(* written and whoever interrupts: nothing new is ever seen, and what is   *)
(* there only scrolls away.                                                *)
ConsoleShows ==
  [][/\ ShowsLines'
     /\ BehindScreen =>
          /\ BehindScreen'
          /\ \A p \in Position : screen'[p] \in {" "} \cup
               {screen[q] : q \in {r \in Position : r >= p /\ r % Columns = p % Columns}}]_consoleVars
=============================================================================
