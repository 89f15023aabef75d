------------------------------ MODULE Display ------------------------------
(***************************************************************************)
(* display.c: NUM_TERMINALS terminals, each a buffer of characters with a  *)
(* cursor, one of which is shown: what is printed on it is copied to the   *)
(* video memory. Threads print by puts, a character at a time, and may be  *)
(* switched between any two steps; the interrupt handler of cpu.c prints   *)
(* on the terminal shown, and switches to the next terminal at F7, each    *)
(* time as a whole, since interrupts are off.                              *)
(*                                                                         *)
(* A cell stands for a character with its attribute, which never differs   *)
(* (nothing calls textcolor). The buffer has one line more than the        *)
(* screen. The cursor is read and written in steps of its own, as memory   *)
(* is. Which thread goes on after a step is left open.                     *)
(***************************************************************************)
EXTENDS Integers

CONSTANTS
  VIDEO_WIDTH, VIDEO_HEIGHT, NUM_TERMINALS,
  Writers,    \* the threads that print
  MaxChars,   \* how many characters they print
  MaxIrqs     \* how many interrupts print or switch terminals

\* A tab moves the cursor by 4 cells, and never over a whole line.
ASSUME VideoAssumption ==
  /\ VIDEO_WIDTH \in Nat /\ VIDEO_WIDTH >= 4
  /\ VIDEO_HEIGHT \in Nat /\ VIDEO_HEIGHT >= 2
  /\ NUM_TERMINALS \in Nat \ {0}
ASSUME BoundsAssumption == MaxChars \in Nat /\ MaxIrqs \in Nat

ScreenSize == VIDEO_WIDTH * VIDEO_HEIGHT
BuffSize   == ScreenSize + VIDEO_WIDTH

Terminals   == 0 .. NUM_TERMINALS - 1
Cells       == 0 .. BuffSize - 1      \* of terminals[n].buff
ScreenCells == 0 .. ScreenSize - 1    \* of the video memory

\* A printed character, a cleared cell, a cell of static memory nobody has written
\* and the character that scrolling leaves behind (see Scrolled).
CellValues == {"x", " ", "0", "cursor"}
Chars      == {"x", "\n", "\t"}

VARIABLES
  buff, tty_cursor, is_visible,   \* the fields of terminals[n]
  tmp_terminal_num,               \* display.tmp_terminal_num
  screen,                         \* the video memory
  pc,                             \* where a writer is in putchar
  term_num, char,                 \* its arguments
  reg, rem, byteReg, i,           \* its registers and its loop counter
  chars, irqs,                    \* what is left of MaxChars and MaxIrqs
  spilled,    \* ghost: a character was written outside its buffer
  crowded,    \* ghost: two threads were inside putchar of one terminal at a time
  torn        \* ghost: something was printed or switched in the middle of a copy

terminalVars == <<buff, tty_cursor, is_visible, tmp_terminal_num, screen>>
callVars     == <<term_num, char, reg, rem, byteReg, i, chars>>
vars == <<terminalVars, pc, callVars, irqs, spilled, crowded, torn>>

Labels == {"run", "p_write", "p_load", "p_store", "p_line", "p_rem", "p_sub", "p_test",
           "s_copy", "s_load", "s_store", "v_test", "b_load", "b_store"}

-----------------------------------------------------------------------------
(* putchar as a whole, as the interrupt handler runs it.                   *)

\* clear, of the buffer of a static terminal_t.
Cleared == [k \in Cells |-> IF k < ScreenSize THEN " " ELSE "0"]

\* The cursor after a character, before scrolling.
Advance(cursor, c) ==
  CASE c = "\n" -> (cursor + VIDEO_WIDTH) - ((cursor + VIDEO_WIDTH) % VIDEO_WIDTH)
    [] c = "\t" -> cursor + 4
    [] OTHER    -> cursor + 1

\* Scrolling moves every line up by one, the spare line too. Its loop ends one
\* byte late: the byte behind the buffer, the low byte of tty_cursor, becomes the
\* first character of the spare line, which the next scroll brings on the screen.
Scrolled(b) ==
  [k \in Cells |-> IF k < ScreenSize THEN b[k + VIDEO_WIDTH]
                   ELSE IF k = ScreenSize THEN "cursor" ELSE b[k]]

\* One character on a terminal [buff, tty_cursor, spilled].
Put(term, c) ==
  LET cursor  == Advance(term.tty_cursor, c)
      inside  == c # "x" \/ term.tty_cursor \in Cells
      written == IF c = "x" /\ inside
                 THEN [term.buff EXCEPT ![term.tty_cursor] = "x"] ELSE term.buff
  IN IF cursor >= ScreenSize
     THEN [buff |-> Scrolled(written), tty_cursor |-> cursor - VIDEO_WIDTH,
           spilled |-> term.spilled \/ ~inside]
     ELSE [buff |-> written, tty_cursor |-> cursor, spilled |-> term.spilled \/ ~inside]

\* buff_to_display.
Shown(b) == [k \in ScreenCells |-> b[k]]

-----------------------------------------------------------------------------
\* init_display and clear, and then some characters on the terminal shown, fewer than
\* the screen holds, so that it has not scrolled yet.
Init ==
  \E printed \in ScreenCells :
     LET written == [k \in Cells |-> IF k < printed THEN "x" ELSE Cleared[k]]
     IN /\ buff = [n \in Terminals |-> IF n = 0 THEN written ELSE Cleared]
        /\ tty_cursor = [n \in Terminals |-> IF n = 0 THEN printed ELSE 0]
        /\ is_visible = [n \in Terminals |-> n = 0]
        /\ tmp_terminal_num = 0
        /\ screen = Shown(written)
        /\ pc = [t \in Writers |-> "run"]
        /\ term_num = [t \in Writers |-> 0] /\ char = [t \in Writers |-> "x"]
        /\ reg = [t \in Writers |-> 0] /\ rem = [t \in Writers |-> 0]
        /\ byteReg = [t \in Writers |-> " "] /\ i = [t \in Writers |-> 0]
        /\ chars = MaxChars /\ irqs = MaxIrqs
        /\ spilled = FALSE /\ crowded = FALSE /\ torn = FALSE

Goto(t, label) == pc' = [pc EXCEPT ![t] = label]

At(t, label) == ~spilled /\ pc[t] = label

\* The threads inside putchar of terminal n, and those that copy it to the screen.
Inside(n)  == {t \in Writers : pc[t] # "run" /\ term_num[t] = n}
Copying(n) == {t \in Inside(n) : pc[t] \in {"b_load", "b_store"}}

-----------------------------------------------------------------------------
(* putchar by a thread. p_ the character and the cursor, s_ the scrolling, *)
(* v_ and b_ the copy to the screen.                                       *)

call(t, n, c) ==
  /\ At(t, "run") /\ chars > 0
  /\ chars' = chars - 1
  /\ term_num' = [term_num EXCEPT ![t] = n]
  /\ char' = [char EXCEPT ![t] = c]
  /\ Goto(t, IF c = "x" THEN "p_write" ELSE "p_load")
  /\ crowded' = (crowded \/ Inside(n) # {})
  /\ UNCHANGED <<terminalVars, reg, rem, byteReg, i, irqs, spilled, torn>>

\* A store to cell k of t's terminal; a copy of it that is under way is torn.
Store(t, k, value) ==
  /\ buff' = [buff EXCEPT ![term_num[t]][k] = value]
  /\ torn' = (torn \/ Copying(term_num[t]) # {})

\* The character at the cursor, wherever that is by now.
p_write(t) ==
  LET cursor == tty_cursor[term_num[t]] IN
  /\ At(t, "p_write")
  /\ IF cursor \in Cells
     THEN Store(t, cursor, "x") /\ UNCHANGED spilled
     ELSE spilled' = TRUE /\ UNCHANGED <<buff, torn>>
  /\ Goto(t, "p_load")
  /\ UNCHANGED <<tty_cursor, is_visible, tmp_terminal_num, screen, callVars, irqs, crowded>>

\* The cursor is read, and then written with what was read; the registers are then
\* of no more use, and zero in the model.
LoadCursor(t, from, to) ==
  /\ At(t, from)
  /\ reg' = [reg EXCEPT ![t] = tty_cursor[term_num[t]]]
  /\ Goto(t, to)
  /\ UNCHANGED <<terminalVars, term_num, char, rem, byteReg, i, chars, irqs, spilled,
                 crowded, torn>>

StoreCursor(t, from, to, value) ==
  /\ At(t, from)
  /\ tty_cursor' = [tty_cursor EXCEPT ![term_num[t]] = value]
  /\ reg' = [reg EXCEPT ![t] = 0] /\ rem' = [rem EXCEPT ![t] = 0]
  /\ Goto(t, to)
  /\ UNCHANGED <<buff, is_visible, tmp_terminal_num, screen, term_num, char, byteReg, i,
                 chars, irqs, spilled, crowded, torn>>

p_load(t) == LoadCursor(t, "p_load", "p_store")

Step(c) == CASE c = "\n" -> VIDEO_WIDTH [] c = "\t" -> 4 [] OTHER -> 1

p_store(t) ==
  StoreCursor(t, "p_store", IF char[t] = "\n" THEN "p_line" ELSE "p_test",
              reg[t] + Step(char[t]))

\* tty_cursor -= tty_cursor % VIDEO_WIDTH reads it twice.
p_line(t) == LoadCursor(t, "p_line", "p_rem")

p_rem(t) ==
  /\ At(t, "p_rem")
  /\ rem' = [rem EXCEPT ![t] = tty_cursor[term_num[t]] % VIDEO_WIDTH]
  /\ Goto(t, "p_sub")
  /\ UNCHANGED <<terminalVars, term_num, char, reg, byteReg, i, chars, irqs, spilled,
                 crowded, torn>>

p_sub(t) == StoreCursor(t, "p_sub", "p_test", reg[t] - rem[t])

\* Below the last line? Then scroll first.
p_test(t) ==
  /\ At(t, "p_test")
  /\ IF tty_cursor[term_num[t]] >= ScreenSize
     THEN Goto(t, "s_copy") /\ i' = [i EXCEPT ![t] = VIDEO_WIDTH]
     ELSE Goto(t, "v_test") /\ UNCHANGED i
  /\ UNCHANGED <<terminalVars, term_num, char, reg, rem, byteReg, chars, irqs, spilled,
                 crowded, torn>>

\* Cell by cell; the loop's last turn copies the byte behind the buffer.
s_copy(t) ==
  /\ At(t, "s_copy")
  /\ IF i[t] < BuffSize
     THEN /\ Store(t, i[t] - VIDEO_WIDTH, buff[term_num[t]][i[t]])
          /\ i' = [i EXCEPT ![t] = @ + 1]
          /\ UNCHANGED pc
     ELSE /\ Store(t, ScreenSize, "cursor")
          /\ i' = [i EXCEPT ![t] = 0]
          /\ Goto(t, "s_load")
  /\ UNCHANGED <<tty_cursor, is_visible, tmp_terminal_num, screen, term_num, char, reg,
                 rem, byteReg, chars, irqs, spilled, crowded>>

s_load(t) == LoadCursor(t, "s_load", "s_store")

\* Mutant: the text moves up, the cursor stays.
s_store_Stays(t) == StoreCursor(t, "s_store", "v_test", reg[t])

s_store(t) == StoreCursor(t, "s_store", "v_test", reg[t] - VIDEO_WIDTH)

Return(t) == Goto(t, "run")

v_test(t) ==
  /\ At(t, "v_test")
  /\ i' = [i EXCEPT ![t] = 0]
  /\ IF is_visible[term_num[t]] THEN Goto(t, "b_load") ELSE Return(t)
  /\ UNCHANGED <<terminalVars, term_num, char, reg, rem, byteReg, chars, irqs, spilled,
                 crowded, torn>>

\* buff_to_display by a thread: read a byte, write it to the screen, and so on.
b_load(t) ==
  /\ At(t, "b_load")
  /\ byteReg' = [byteReg EXCEPT ![t] = buff[term_num[t]][i[t]]]
  /\ Goto(t, "b_store")
  /\ UNCHANGED <<terminalVars, term_num, char, reg, rem, i, chars, irqs, spilled, crowded,
                 torn>>

b_store(t) ==
  /\ At(t, "b_store")
  /\ screen' = [screen EXCEPT ![i[t]] = byteReg[t]]
  /\ byteReg' = [byteReg EXCEPT ![t] = " "]
  /\ IF i[t] + 1 < ScreenSize
     THEN Goto(t, "b_load") /\ i' = [i EXCEPT ![t] = @ + 1]
     ELSE Return(t) /\ i' = [i EXCEPT ![t] = 0]
  /\ UNCHANGED <<buff, tty_cursor, is_visible, tmp_terminal_num, term_num, char, reg, rem,
                 chars, irqs, spilled, crowded, torn>>

putchar(t) ==
  \/ p_write(t) \/ p_load(t) \/ p_store(t) \/ p_line(t) \/ p_rem(t) \/ p_sub(t) \/ p_test(t)
  \/ s_copy(t) \/ s_load(t) \/ s_store(t)
  \/ v_test(t) \/ b_load(t) \/ b_store(t)

-----------------------------------------------------------------------------
(* irq_handler of cpu.c, between any two steps of the threads.             *)

Interrupt ==
  /\ ~spilled /\ irqs > 0
  /\ irqs' = irqs - 1
  /\ torn' = (torn \/ \E n \in Terminals : Copying(n) # {})
  /\ UNCHANGED <<pc, callVars>>

\* A key other than F7, or an interrupt the kernel does not expect: a line on the
\* terminal shown, which is visible, so that every character ends with a copy.
irq_puts ==
  LET n    == tmp_terminal_num
      here == [buff |-> buff[n], tty_cursor |-> tty_cursor[n], spilled |-> FALSE]
      term == Put(Put(here, "x"), "\n")
  IN /\ Interrupt
     /\ buff' = [buff EXCEPT ![n] = term.buff]
     /\ tty_cursor' = [tty_cursor EXCEPT ![n] = term.tty_cursor]
     /\ screen' = IF is_visible[n] THEN Shown(term.buff) ELSE screen
     /\ spilled' = term.spilled
     /\ UNCHANGED <<is_visible, tmp_terminal_num, crowded>>

\* Mutant: the terminal switched to is not redrawn before something is printed on it.
change_terminal_NoCopy(n) ==
  /\ is_visible' = [is_visible EXCEPT ![tmp_terminal_num] = FALSE, ![n] = TRUE]
  /\ tmp_terminal_num' = n
  /\ UNCHANGED screen

change_terminal(n) ==
  /\ is_visible' = [is_visible EXCEPT ![tmp_terminal_num] = FALSE, ![n] = TRUE]
  /\ tmp_terminal_num' = n
  /\ screen' = Shown(buff[n])

\* Mutant: terminals are counted from one.
irq_key_FromOne ==
  /\ Interrupt
  /\ is_visible' = [is_visible EXCEPT ![tmp_terminal_num] = FALSE]
  /\ tmp_terminal_num' = ((tmp_terminal_num + 1) % NUM_TERMINALS) + 1
  /\ UNCHANGED <<buff, tty_cursor, screen, spilled, crowded>>

\* F7.
irq_key ==
  /\ Interrupt
  /\ change_terminal((tmp_terminal_num + 1) % NUM_TERMINALS)
  /\ UNCHANGED <<buff, tty_cursor, spilled, crowded>>

-----------------------------------------------------------------------------
Next ==
  \/ irq_puts \/ irq_key
  \/ \E t \in Writers : putchar(t) \/ \E n \in Terminals, c \in Chars : call(t, n, c)

Spec == Init /\ [][Next]_vars

-----------------------------------------------------------------------------
(* Properties.                                                             *)

\* Every variable keeps to its type.
TypeOK ==
  /\ buff \in [Terminals -> [Cells -> CellValues]]
  /\ tty_cursor \in [Terminals -> Int] /\ is_visible \in [Terminals -> BOOLEAN]
  /\ tmp_terminal_num \in Terminals
  /\ screen \in [ScreenCells -> CellValues]
  /\ pc \in [Writers -> Labels]
  /\ term_num \in [Writers -> Terminals] /\ char \in [Writers -> Chars]
  /\ reg \in [Writers -> Int] /\ rem \in [Writers -> Int]
  /\ byteReg \in [Writers -> CellValues] /\ i \in [Writers -> 0 .. BuffSize]
  /\ chars \in Nat /\ irqs \in Nat
  /\ spilled \in BOOLEAN /\ crowded \in BOOLEAN /\ torn \in BOOLEAN

\* The interrupt handler may print between any two steps of a thread's putchar on
\* the same terminal: it moves the cursor under the thread, and characters may get
\* lost, but both stay inside the buffer, whose spare line takes up what is printed
\* between a thread's passing the last line and its scrolling. Only two threads can
\* leave it: at the top, when the two reads of tty_cursor in a new line differ, or
\* at the bottom.
PrintingStaysInside == spilled => crowded

\* When nobody is in the middle of printing on the terminal shown, the screen is
\* what its buffer holds, as long as no copy to the screen was overtaken by other
\* output or by the keyboard; and one terminal is visible, the one shown.
ScreenShowsTerminal ==
  /\ \A n \in Terminals : is_visible[n] <=> n = tmp_terminal_num
  /\ ~torn /\ ~spilled /\ Inside(tmp_terminal_num) = {} =>
       screen = Shown(buff[tmp_terminal_num])
=============================================================================
