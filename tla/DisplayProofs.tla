--------------------------- MODULE DisplayProofs ---------------------------
(***************************************************************************)
(* Proofs about Display, for every size of the screen, every number of     *)
(* terminals and threads, and however much they print. Three invariants    *)
(* beside the types carry them:                                            *)
(*   LoopInv    the counters of the two copying loops stay in their ranges *)
(*              (so that every load and store is to a cell there is);      *)
(*   CursorInv  how far the cursor may be from the screen while the only   *)
(*              thread inside its terminal is at each label, and what its  *)
(*              registers may hold meanwhile: the interrupt handler prints *)
(*              in between, and keeps to the same limits (PutInside);      *)
(*   ScreenInv  how much of the terminal shown each copy has brought to    *)
(*              the screen.                                                *)
(***************************************************************************)
EXTENDS Display, TLAPS

LoopInv ==
  \A t \in Writers :
     /\ pc[t] = "s_copy" => i[t] \in VIDEO_WIDTH .. BuffSize
     /\ pc[t] \in {"b_load", "b_store"} => i[t] \in ScreenCells

\* Where the cursor may be past the last line: moved, and not scrolled back yet.
PastLabels == {"p_line", "p_rem", "p_sub", "p_test", "s_copy", "s_load", "s_store"}

Alone ==
  \A t, u \in Writers :
     pc[t] # "run" /\ pc[u] # "run" /\ term_num[t] = term_num[u] => t = u

\* Within a new line the cursor is past the first line, and while t scrolls it is on
\* the screen's last line or past it, so that neither subtraction brings it below 0.
\* What the handler prints in between scrolls by itself before it passes the buffer.
WriterInv(t) ==
  LET cursor == tty_cursor[term_num[t]] IN
  /\ pc[t] = "p_store" => reg[t] \in ScreenCells
  /\ pc[t] \in {"p_line", "p_rem", "p_sub"} => cursor >= VIDEO_WIDTH
  /\ pc[t] \in {"p_rem", "p_sub"} => reg[t] >= VIDEO_WIDTH /\ reg[t] < BuffSize
  /\ pc[t] = "p_sub" => rem[t] \in 0 .. VIDEO_WIDTH - 1
  /\ pc[t] \in {"s_copy", "s_load", "s_store"} => cursor >= ScreenSize - VIDEO_WIDTH
  /\ pc[t] = "s_store" => reg[t] >= ScreenSize - VIDEO_WIDTH /\ reg[t] < BuffSize

CursorInv ==
  ~crowded =>
     /\ ~spilled
     /\ Alone
     /\ \A n \in Terminals : tty_cursor[n] \in Cells
     /\ \A n \in Terminals :
           tty_cursor[n] \in ScreenCells \/ \E t \in Inside(n) : pc[t] \in PastLabels
     /\ \A t \in Writers : WriterInv(t)

\* What t has copied so far, and the byte it is about to store, are what the buffer
\* of the terminal shown still holds.
CopyInv(t) ==
  pc[t] \in {"b_load", "b_store"} =>
     /\ term_num[t] = tmp_terminal_num
     /\ \A k \in ScreenCells : k < i[t] => screen[k] = buff[tmp_terminal_num][k]
     /\ pc[t] = "b_store" => byteReg[t] = buff[tmp_terminal_num][i[t]]

ScreenInv ==
  ScreenShowsTerminal /\ (~torn /\ ~spilled => \A t \in Writers : CopyInv(t))

IInv == TypeOK /\ LoopInv /\ CursorInv /\ ScreenInv

-----------------------------------------------------------------------------
(* Sizes and remainders.                                                   *)

LEMMA Geometry ==
  /\ VIDEO_WIDTH \in Nat /\ VIDEO_WIDTH >= 4
  /\ ScreenSize \in Nat /\ ScreenSize >= 2 * VIDEO_WIDTH
  /\ BuffSize = ScreenSize + VIDEO_WIDTH
<1>1. VIDEO_WIDTH \in Nat /\ VIDEO_WIDTH >= 4 /\ VIDEO_HEIGHT \in Nat /\ VIDEO_HEIGHT >= 2
  BY VideoAssumption
<1>2. PICK more \in Nat : VIDEO_HEIGHT = 2 + more
  <2>1. VIDEO_HEIGHT - 2 \in Nat /\ VIDEO_HEIGHT = 2 + (VIDEO_HEIGHT - 2)
    BY <1>1
  <2> QED
    BY <2>1
<1>3. VIDEO_WIDTH * more \in Nat
  BY <1>1, <1>2
<1>4. VIDEO_WIDTH * VIDEO_HEIGHT = 2 * VIDEO_WIDTH + VIDEO_WIDTH * more
  BY <1>1, <1>2
<1> QED
  BY <1>1, <1>3, <1>4 DEF ScreenSize, BuffSize

LEMMA RemainderInLine ==
  ASSUME NEW k \in Int
  PROVE  k % VIDEO_WIDTH \in 0 .. VIDEO_WIDTH - 1
BY Geometry

LEMMA NextTerminal ==
  tmp_terminal_num \in Terminals => (tmp_terminal_num + 1) % NUM_TERMINALS \in Terminals
<1>1. ASSUME NEW k \in Int PROVE k % NUM_TERMINALS \in 0 .. NUM_TERMINALS - 1
  BY VideoAssumption
<1>2. tmp_terminal_num \in Terminals => tmp_terminal_num + 1 \in Int
  BY VideoAssumption DEF Terminals
<1> QED
  BY <1>1, <1>2 DEF Terminals

-----------------------------------------------------------------------------
(* A character printed as a whole.                                         *)

Terminal == [buff : [Cells -> CellValues], tty_cursor : Int, spilled : BOOLEAN]

LEMMA AdvanceTyped ==
  ASSUME NEW k \in Int, NEW c
  PROVE  Advance(k, c) \in Int
<1>1. k + VIDEO_WIDTH \in Int /\ (k + VIDEO_WIDTH) % VIDEO_WIDTH \in 0 .. VIDEO_WIDTH - 1
  BY Geometry, RemainderInLine
<1> QED
  BY <1>1, Geometry DEF Advance

LEMMA ScrolledTyped ==
  ASSUME NEW b \in [Cells -> CellValues]
  PROVE  Scrolled(b) \in [Cells -> CellValues]
<1>1. ASSUME NEW k \in Cells, k < ScreenSize PROVE k + VIDEO_WIDTH \in Cells
  BY <1>1, Geometry DEF Cells
<1>2. "cursor" \in CellValues
  BY DEF CellValues
<1> QED
  BY <1>1, <1>2 DEF Scrolled

LEMMA PutTyped ==
  ASSUME NEW term \in Terminal, NEW c \in Chars
  PROVE  Put(term, c) \in Terminal
<1> DEFINE cursor  == Advance(term.tty_cursor, c)
           inside  == c # "x" \/ term.tty_cursor \in Cells
           written == IF c = "x" /\ inside
                      THEN [term.buff EXCEPT ![term.tty_cursor] = "x"] ELSE term.buff
<1>1. term.buff \in [Cells -> CellValues] /\ term.tty_cursor \in Int /\ term.spilled \in BOOLEAN
  BY DEF Terminal
<1>2. cursor \in Int
  BY <1>1, AdvanceTyped
<1>3. written \in [Cells -> CellValues]
  BY <1>1 DEF CellValues
<1>4. Scrolled(written) \in [Cells -> CellValues]
  BY <1>3, ScrolledTyped
<1>5. Put(term, c) = IF cursor >= ScreenSize
                     THEN [buff |-> Scrolled(written), tty_cursor |-> cursor - VIDEO_WIDTH,
                           spilled |-> term.spilled \/ ~inside]
                     ELSE [buff |-> written, tty_cursor |-> cursor,
                           spilled |-> term.spilled \/ ~inside]
  BY DEF Put
<1>6. cursor - VIDEO_WIDTH \in Int
  BY <1>2, Geometry
<1> HIDE DEF cursor, inside, written
<1> QED
  BY <1>1, <1>2, <1>3, <1>4, <1>5, <1>6 DEF Terminal

\* What the interrupt handler prints stays inside the buffer, on the screen if the
\* cursor was there, and moves the cursor up only by scrolling.
LEMMA PutInside ==
  ASSUME NEW term \in Terminal, NEW c \in {"x", "\n"},
         term.tty_cursor \in Cells, ~term.spilled
  PROVE  /\ ~Put(term, c).spilled
         /\ Put(term, c).tty_cursor \in Cells
         /\ term.tty_cursor \in ScreenCells => Put(term, c).tty_cursor \in ScreenCells
         /\ term.tty_cursor >= VIDEO_WIDTH => Put(term, c).tty_cursor >= VIDEO_WIDTH
         /\ term.tty_cursor >= ScreenSize - VIDEO_WIDTH =>
              Put(term, c).tty_cursor >= ScreenSize - VIDEO_WIDTH
<1> DEFINE k      == term.tty_cursor
           cursor == Advance(k, c)
<1>1. k \in Int /\ k >= 0 /\ k < ScreenSize + VIDEO_WIDTH
  BY Geometry DEF Terminal, Cells
<1>2. cursor \in Int /\ cursor > k /\ cursor <= k + VIDEO_WIDTH
  <2>1. k + VIDEO_WIDTH \in Int /\ (k + VIDEO_WIDTH) % VIDEO_WIDTH \in 0 .. VIDEO_WIDTH - 1
    BY <1>1, Geometry, RemainderInLine
  <2> DEFINE over == (k + VIDEO_WIDTH) % VIDEO_WIDTH
  <2>2. c = "\n" => cursor = (k + VIDEO_WIDTH) - over
    BY DEF Advance
  <2>3. c = "x" => cursor = k + 1
    BY DEF Advance
  <2> HIDE DEF over, cursor, k
  <2>4. over \in Int /\ over >= 0 /\ over < VIDEO_WIDTH
    BY <2>1, Geometry DEF over
  <2> QED
    BY <1>1, <2>2, <2>3, <2>4, Geometry
<1>3. /\ Put(term, c).tty_cursor = IF cursor >= ScreenSize THEN cursor - VIDEO_WIDTH ELSE cursor
      /\ Put(term, c).spilled = (term.spilled \/ ~(c # "x" \/ k \in Cells))
  BY DEF Put
<1>4. ~Put(term, c).spilled
  BY <1>3
<1> HIDE DEF k, cursor
<1>5. term.tty_cursor = k
  BY DEF k
<1> QED
  BY <1>1, <1>2, <1>3, <1>4, <1>5, Geometry DEF Cells, ScreenCells

-----------------------------------------------------------------------------
(* Types, and the loop counters that keep the stores inside their arrays.  *)

LEMMA StepValues ==
  /\ Step("\n") = VIDEO_WIDTH /\ Step("\t") = 4 /\ Step("x") = 1
BY DEF Step

LEMMA InitTyped == Init => TypeOK /\ LoopInv
<1> SUFFICES ASSUME Init PROVE TypeOK /\ LoopInv
  OBVIOUS
<1>1. LoopInv
  BY DEF Init, LoopInv
<1>2. PICK printed \in ScreenCells :
        LET written == [k \in Cells |-> IF k < printed THEN "x" ELSE Cleared[k]]
        IN /\ buff = [n \in Terminals |-> IF n = 0 THEN written ELSE Cleared]
           /\ tty_cursor = [n \in Terminals |-> IF n = 0 THEN printed ELSE 0]
           /\ screen = Shown(written)
  BY DEF Init
<1> DEFINE written == [k \in Cells |-> IF k < printed THEN "x" ELSE Cleared[k]]
<1>3. Cleared \in [Cells -> CellValues]
  BY DEF Cleared, CellValues
<1>4. written \in [Cells -> CellValues]
  BY <1>3 DEF CellValues
<1>5. \A k \in ScreenCells : k \in Cells /\ k \in Int
  BY Geometry DEF ScreenCells, Cells
<1>6. Shown(written) \in [ScreenCells -> CellValues]
  BY <1>4, <1>5 DEF Shown
<1> HIDE DEF written
<1>7. buff \in [Terminals -> [Cells -> CellValues]] /\ screen \in [ScreenCells -> CellValues]
  BY <1>2, <1>3, <1>4, <1>6 DEF written
<1>8. tty_cursor \in [Terminals -> Int]
  BY <1>2, <1>5
<1>9. 0 \in Terminals /\ 0 \in 0 .. BuffSize /\ 0 \in Int
  BY Geometry, VideoAssumption DEF Terminals
<1>10. "run" \in Labels /\ "x" \in Chars /\ " " \in CellValues
  BY DEF Labels, Chars, CellValues
<1>11. /\ is_visible = [n \in Terminals |-> n = 0] /\ tmp_terminal_num = 0
       /\ pc = [t \in Writers |-> "run"]
       /\ term_num = [t \in Writers |-> 0] /\ char = [t \in Writers |-> "x"]
       /\ reg = [t \in Writers |-> 0] /\ rem = [t \in Writers |-> 0]
       /\ byteReg = [t \in Writers |-> " "] /\ i = [t \in Writers |-> 0]
  BY DEF Init
<1>12. /\ tmp_terminal_num \in Terminals /\ pc \in [Writers -> Labels]
       /\ term_num \in [Writers -> Terminals] /\ char \in [Writers -> Chars]
       /\ reg \in [Writers -> Int] /\ rem \in [Writers -> Int]
       /\ byteReg \in [Writers -> CellValues] /\ i \in [Writers -> 0 .. BuffSize]
  BY <1>9, <1>10, <1>11
<1>13. is_visible \in [Terminals -> BOOLEAN]
  BY <1>11
<1>14. /\ chars \in Nat /\ irqs \in Nat
       /\ spilled \in BOOLEAN /\ crowded \in BOOLEAN /\ torn \in BOOLEAN
  BY BoundsAssumption, Zenon DEF Init
<1> QED
  BY <1>1, <1>7, <1>8, <1>12, <1>13, <1>14 DEF TypeOK

\* A store to one cell.
LEMMA StoreTyped ==
  ASSUME TypeOK, NEW t \in Writers, NEW k \in Cells, NEW value \in CellValues,
         Store(t, k, value)
  PROVE  buff' \in [Terminals -> [Cells -> CellValues]] /\ torn' \in BOOLEAN
BY DEF TypeOK, Store

LEMMA WriterTyped ==
  ASSUME TypeOK, LoopInv, NEW t \in Writers, putchar(t)
  PROVE  TypeOK' /\ LoopInv'
<1> USE DEF LoopInv, At, Goto, terminalVars, callVars
<1>0. /\ \A l \in {"run", "p_load", "p_store", "p_line", "p_rem", "p_sub", "p_test", "s_copy",
                   "s_load", "s_store", "v_test", "b_load", "b_store"} : l \in Labels
      /\ VIDEO_WIDTH \in Int
  BY Geometry DEF Labels
<1>1. CASE p_write(t)
  <2>1. tty_cursor[term_num[t]] \in Cells =>
           buff' \in [Terminals -> [Cells -> CellValues]] /\ torn' \in BOOLEAN
    BY <1>1, StoreTyped DEF p_write, CellValues
  <2> QED
    BY <1>0, <1>1, <2>1 DEF p_write, TypeOK
<1>2. ASSUME NEW from, NEW to \in Labels \ {"s_copy", "b_load", "b_store"},
             LoadCursor(t, from, to)
      PROVE  TypeOK' /\ LoopInv'
  BY <1>2 DEF LoadCursor, TypeOK
<1>3. ASSUME NEW from, NEW to \in Labels \ {"s_copy", "b_load", "b_store"}, NEW value \in Int,
             StoreCursor(t, from, to, value)
      PROVE  TypeOK' /\ LoopInv'
  BY <1>3 DEF StoreCursor, TypeOK
<1>4. CASE p_load(t)
  BY <1>0, <1>2, <1>4 DEF p_load
<1>5. CASE p_store(t)
  <2>1. reg[t] \in Int /\ char[t] \in Chars
    BY DEF TypeOK
  <2>2. reg[t] + Step(char[t]) \in Int
    BY <1>0, <2>1, StepValues DEF Chars
  <2> QED
    BY <1>0, <1>3, <1>5, <2>2 DEF p_store
<1>6. CASE p_line(t)
  BY <1>0, <1>2, <1>6 DEF p_line
<1>7. CASE p_rem(t)
  <2>1. tty_cursor[term_num[t]] \in Int
    BY DEF TypeOK
  <2>2. tty_cursor[term_num[t]] % VIDEO_WIDTH \in Int
    BY <2>1, RemainderInLine, Geometry
  <2> QED
    BY <1>0, <1>7, <2>2 DEF p_rem, TypeOK
<1>8. CASE p_sub(t)
  <2>1. reg[t] - rem[t] \in Int
    BY DEF TypeOK
  <2> QED
    BY <1>0, <1>3, <1>8, <2>1 DEF p_sub
<1>9. CASE p_test(t)
  <2>1. VIDEO_WIDTH \in 0 .. BuffSize /\ VIDEO_WIDTH \in VIDEO_WIDTH .. BuffSize
    BY Geometry
  <2> QED
    BY <1>0, <1>9, <2>1 DEF p_test, TypeOK
<1>10. CASE s_copy(t)
  <2>1. i[t] \in VIDEO_WIDTH .. BuffSize
    BY <1>10 DEF s_copy
  <2>2. CASE i[t] < BuffSize
    <3>1. i[t] \in Cells /\ i[t] - VIDEO_WIDTH \in Cells /\ i[t] + 1 \in VIDEO_WIDTH .. BuffSize
          /\ i[t] + 1 \in 0 .. BuffSize
      BY <2>1, <2>2, Geometry DEF Cells
    <3>2. buff[term_num[t]][i[t]] \in CellValues
      BY <3>1 DEF TypeOK
    <3>3. Store(t, i[t] - VIDEO_WIDTH, buff[term_num[t]][i[t]]) /\ i' = [i EXCEPT ![t] = @ + 1]
          /\ UNCHANGED pc
      BY <1>10, <2>2 DEF s_copy
    <3>4. buff' \in [Terminals -> [Cells -> CellValues]] /\ torn' \in BOOLEAN
      BY <3>1, <3>2, <3>3, StoreTyped
    <3> QED
      BY <1>0, <1>10, <3>1, <3>3, <3>4 DEF s_copy, TypeOK
  <2>3. CASE ~(i[t] < BuffSize)
    <3>1. ScreenSize \in Cells /\ "cursor" \in CellValues /\ 0 \in 0 .. BuffSize
      BY Geometry DEF Cells, CellValues
    <3>2. Store(t, ScreenSize, "cursor") /\ i' = [i EXCEPT ![t] = 0] /\ Goto(t, "s_load")
      BY <1>10, <2>3 DEF s_copy
    <3>3. buff' \in [Terminals -> [Cells -> CellValues]] /\ torn' \in BOOLEAN
      BY <3>1, <3>2, StoreTyped
    <3> QED
      BY <1>0, <1>10, <3>1, <3>2, <3>3 DEF s_copy, TypeOK
  <2> QED
    BY <2>2, <2>3
<1>11. CASE s_load(t)
  BY <1>0, <1>2, <1>11 DEF s_load
<1>12. CASE s_store(t)
  <2>1. reg[t] - VIDEO_WIDTH \in Int
    BY <1>0 DEF TypeOK
  <2> QED
    BY <1>0, <1>3, <1>12, <2>1 DEF s_store
<1>13. CASE v_test(t)
  <2>1. 0 \in 0 .. BuffSize /\ 0 \in ScreenCells
    BY Geometry DEF ScreenCells
  <2> QED
    BY <1>0, <1>13, <2>1 DEF v_test, TypeOK, Return
<1>14. CASE b_load(t)
  <2>1. i[t] \in Cells
    BY <1>14, Geometry DEF b_load, ScreenCells, Cells
  <2>2. buff[term_num[t]][i[t]] \in CellValues
    BY <2>1 DEF TypeOK
  <2> QED
    BY <1>0, <1>14, <2>2 DEF b_load, TypeOK
<1>15. CASE b_store(t)
  <2>1. i[t] \in ScreenCells /\ " " \in CellValues
    BY <1>15 DEF b_store, CellValues
  <2>2. /\ 0 \in 0 .. BuffSize /\ i[t] + 1 \in 0 .. BuffSize
        /\ i[t] + 1 < ScreenSize => i[t] + 1 \in ScreenCells
    <3> DEFINE k == i[t]
    <3>1. k \in ScreenCells
      BY <2>1
    <3> HIDE DEF k
    <3>2. /\ 0 \in 0 .. BuffSize /\ k + 1 \in 0 .. BuffSize
          /\ k + 1 < ScreenSize => k + 1 \in ScreenCells
      BY <3>1, Geometry DEF ScreenCells
    <3> QED
      BY <3>2 DEF k
  <2> QED
    BY <1>0, <1>15, <2>1, <2>2 DEF b_store, TypeOK, Return
<1> QED
  BY <1>1, <1>4, <1>5, <1>6, <1>7, <1>8, <1>9, <1>10, <1>11, <1>12, <1>13, <1>14, <1>15
  DEF putchar

LEMMA CallTyped ==
  ASSUME TypeOK, LoopInv, NEW t \in Writers, NEW n \in Terminals, NEW c \in Chars, call(t, n, c)
  PROVE  TypeOK' /\ LoopInv'
<1>1. "p_write" \in Labels /\ "p_load" \in Labels
  BY DEF Labels
<1> QED
  BY <1>1 DEF call, At, Goto, TypeOK, LoopInv, terminalVars

\* What irq_puts leaves of the terminal shown.
AfterIrq ==
  Put(Put([buff |-> buff[tmp_terminal_num], tty_cursor |-> tty_cursor[tmp_terminal_num],
           spilled |-> FALSE], "x"), "\n")

LEMMA AfterIrqTyped == TypeOK => AfterIrq \in Terminal
<1> SUFFICES ASSUME TypeOK PROVE AfterIrq \in Terminal
  OBVIOUS
<1>1. [buff |-> buff[tmp_terminal_num], tty_cursor |-> tty_cursor[tmp_terminal_num],
       spilled |-> FALSE] \in Terminal
  BY DEF TypeOK, Terminal
<1> QED
  BY <1>1, PutTyped DEF AfterIrq, Chars

LEMMA IrqTyped == TypeOK /\ LoopInv /\ (irq_puts \/ irq_key) => TypeOK' /\ LoopInv'
<1> SUFFICES ASSUME TypeOK, LoopInv, irq_puts \/ irq_key PROVE TypeOK' /\ LoopInv'
  OBVIOUS
<1>1. LoopInv'
  BY DEF irq_puts, irq_key, Interrupt, callVars, LoopInv
<1>2. irqs' \in Nat /\ torn' \in BOOLEAN
  <2>1. irqs' \in Nat
    BY DEF irq_puts, irq_key, Interrupt, TypeOK
  <2>2. torn' \in BOOLEAN
    BY Zenon DEF irq_puts, irq_key, Interrupt
  <2> QED
    BY <2>1, <2>2
<1>3. ASSUME NEW b \in [Cells -> CellValues] PROVE Shown(b) \in [ScreenCells -> CellValues]
  BY Geometry DEF Shown, ScreenCells, Cells
<1>4. CASE irq_puts
  <2>1. /\ AfterIrq.buff \in [Cells -> CellValues] /\ AfterIrq.tty_cursor \in Int
        /\ AfterIrq.spilled \in BOOLEAN
    BY AfterIrqTyped DEF Terminal
  <2>2. /\ buff' = [buff EXCEPT ![tmp_terminal_num] = AfterIrq.buff]
        /\ tty_cursor' = [tty_cursor EXCEPT ![tmp_terminal_num] = AfterIrq.tty_cursor]
        /\ screen' = IF is_visible[tmp_terminal_num] THEN Shown(AfterIrq.buff) ELSE screen
        /\ spilled' = AfterIrq.spilled
        /\ UNCHANGED <<is_visible, tmp_terminal_num, crowded>>
    BY <1>4 DEF irq_puts, AfterIrq
  <2>3. UNCHANGED <<pc, term_num, char, reg, rem, byteReg, i, chars>>
    BY <1>4 DEF irq_puts, Interrupt, callVars
  <2>4. Shown(AfterIrq.buff) \in [ScreenCells -> CellValues]
    BY <1>3, <2>1
  <2> QED
    BY <1>1, <1>2, <2>1, <2>2, <2>3, <2>4 DEF TypeOK
<1>5. CASE irq_key
  <2>1. UNCHANGED <<pc, term_num, char, reg, rem, byteReg, i, chars>>
    BY <1>5 DEF irq_key, Interrupt, callVars
  <2> DEFINE n == (tmp_terminal_num + 1) % NUM_TERMINALS
  <2>2. n \in Terminals
    BY NextTerminal DEF TypeOK
  <2>3. change_terminal(n) /\ UNCHANGED <<buff, tty_cursor, spilled, crowded>>
    BY <1>5 DEF irq_key
  <2> HIDE DEF n
  <2>4. Shown(buff[n]) \in [ScreenCells -> CellValues]
    BY <1>3, <2>2 DEF TypeOK
  <2> QED
    BY <1>1, <1>2, <2>1, <2>2, <2>3, <2>4 DEF TypeOK, change_terminal
<1> QED
  BY <1>4, <1>5

LEMMA TypesKept == TypeOK /\ LoopInv /\ [Next]_vars => TypeOK' /\ LoopInv'
<1>1. TypeOK /\ LoopInv /\ UNCHANGED vars => TypeOK' /\ LoopInv'
  BY DEF vars, terminalVars, callVars, TypeOK, LoopInv
<1> QED
  BY <1>1, WriterTyped, CallTyped, IrqTyped DEF Next

-----------------------------------------------------------------------------
(* The cursor, while no two threads print on one terminal.                 *)

LEMMA InitCursor == Init => CursorInv
<1> SUFFICES ASSUME Init PROVE CursorInv
  OBVIOUS
<1>1. PICK printed \in ScreenCells :
        tty_cursor = [n \in Terminals |-> IF n = 0 THEN printed ELSE 0]
  BY DEF Init
<1>2. \A k \in ScreenCells : k \in Cells
  BY Geometry DEF ScreenCells, Cells
<1>3. 0 \in ScreenCells
  BY Geometry DEF ScreenCells
<1>4. ~spilled /\ pc = [t \in Writers |-> "run"]
  BY DEF Init
<1> QED
  BY <1>1, <1>2, <1>3, <1>4 DEF CursorInv, Alone, WriterInv

\* A step of the only thread inside its terminal is nobody else's concern.
LEMMA OthersUndisturbed ==
  ASSUME TypeOK, CursorInv, ~crowded,
         NEW t \in Writers, pc[t] # "run", NEW l \in Labels, Goto(t, l),
         UNCHANGED <<term_num, spilled>>,
         \A n \in Terminals : n # term_num[t] => tty_cursor'[n] = tty_cursor[n],
         \A u \in Writers : u # t => reg'[u] = reg[u] /\ rem'[u] = rem[u],
         tty_cursor'[term_num[t]] \in Cells,
         tty_cursor'[term_num[t]] \in ScreenCells \/ l \in PastLabels,
         WriterInv(t)'
  PROVE  CursorInv'
<1>1. /\ Alone /\ ~spilled
      /\ \A n \in Terminals : tty_cursor[n] \in Cells
      /\ \A n \in Terminals :
            tty_cursor[n] \in ScreenCells \/ \E u \in Inside(n) : pc[u] \in PastLabels
      /\ \A u \in Writers : WriterInv(u)
  BY DEF CursorInv
<1>2. pc \in [Writers -> Labels] /\ term_num[t] \in Terminals /\ pc'[t] = l
      /\ \A u \in Writers : u # t => pc'[u] = pc[u]
  BY DEF TypeOK, Goto
<1>3. Alone'
  BY <1>1, <1>2 DEF Alone
<1>4. ASSUME NEW u \in Writers PROVE WriterInv(u)'
  <2>1. CASE u # t /\ pc[u] # "run"
    <3>1. term_num[u] # term_num[t] /\ term_num[u] \in Terminals
      BY <1>1, <2>1 DEF Alone, TypeOK
    <3>2. tty_cursor'[term_num'[u]] = tty_cursor[term_num[u]] /\ pc'[u] = pc[u]
          /\ reg'[u] = reg[u] /\ rem'[u] = rem[u]
      BY <1>2, <2>1, <3>1
    <3> QED
      BY <1>1, <3>2 DEF WriterInv
  <2>2. CASE u # t /\ pc[u] = "run"
    BY <1>2, <2>2 DEF WriterInv
  <2> QED
    BY <2>1, <2>2
<1>5. ASSUME NEW n \in Terminals
      PROVE  tty_cursor'[n] \in ScreenCells \/ \E u \in Inside(n)' : pc'[u] \in PastLabels
  <2>1. CASE n = term_num[t]
    <3>1. l \in PastLabels => t \in Inside(n)'
      BY <1>2, <2>1 DEF Inside, PastLabels
    <3> QED
      BY <1>2, <2>1, <3>1
  <2>2. CASE n # term_num[t]
    <3>1. \A u \in Inside(n) : u # t /\ u \in Writers
      BY <2>2 DEF Inside
    <3>2. \A u \in Inside(n) : u \in Inside(n)' /\ pc'[u] = pc[u]
      BY <1>2, <3>1 DEF Inside
    <3> QED
      BY <1>1, <2>2, <3>2
  <2> QED
    BY <2>1, <2>2
<1>6. \A n \in Terminals : tty_cursor'[n] \in Cells
  BY <1>1, <1>2
<1>7. ~spilled'
  BY <1>1
<1> QED
  BY <1>3, <1>4, <1>5, <1>6, <1>7 DEF CursorInv

\* A step that reads only.
LEMMA CursorRead ==
  ASSUME TypeOK, CursorInv, ~crowded,
         NEW t \in Writers, pc[t] # "run", NEW l \in Labels, Goto(t, l),
         UNCHANGED <<term_num, spilled, tty_cursor>>,
         \A u \in Writers : u # t => reg'[u] = reg[u] /\ rem'[u] = rem[u],
         pc[t] \in PastLabels /\ tty_cursor[term_num[t]] \notin ScreenCells => l \in PastLabels,
         WriterInv(t)'
  PROVE  CursorInv'
<1>1. term_num[t] \in Terminals /\ tty_cursor[term_num[t]] \in Cells
  BY DEF TypeOK, CursorInv
<1>2. tty_cursor[term_num[t]] \in ScreenCells \/ pc[t] \in PastLabels
  <2>1. ASSUME NEW u \in Inside(term_num[t]) PROVE u = t
    BY DEF Inside, CursorInv, Alone
  <2> QED
    BY <1>1, <2>1 DEF CursorInv
<1>3. tty_cursor'[term_num[t]] \in ScreenCells \/ l \in PastLabels
  BY <1>2
<1> QED
  BY <1>1, <1>3, OthersUndisturbed

LEMMA WriterKeepsCursor ==
  ASSUME TypeOK, CursorInv, NEW t \in Writers, putchar(t)
  PROVE  CursorInv'
<1> DEFINE n == term_num[t]
           cursor == tty_cursor[n]
<1>1. crowded' = crowded
  BY DEF putchar, p_write, p_load, p_store, p_line, p_rem, p_sub, p_test, s_copy, s_load,
         s_store, v_test, b_load, b_store, LoadCursor, StoreCursor
<1>2. CASE crowded
  BY <1>1, <1>2 DEF CursorInv
<1>3. CASE ~crowded
  <2>1. /\ ~spilled /\ WriterInv(t) /\ n \in Terminals /\ cursor \in Cells
        /\ reg \in [Writers -> Int] /\ rem \in [Writers -> Int]
        /\ tty_cursor \in [Terminals -> Int]
        /\ pc \in [Writers -> Labels] /\ char[t] \in Chars
    BY <1>3 DEF CursorInv, TypeOK
  <2>2. cursor \in ScreenCells \/ pc[t] \in PastLabels
    <3>1. ASSUME NEW u \in Inside(n), pc[u] \in PastLabels
          PROVE  pc[t] \in PastLabels \/ pc[t] = "run"
      BY <1>3, <3>1 DEF Inside, CursorInv, Alone, PastLabels
    <3>2. pc[t] # "run"
      BY DEF putchar, p_write, p_load, p_store, p_line, p_rem, p_sub, p_test, s_copy, s_load,
             s_store, v_test, b_load, b_store, LoadCursor, StoreCursor, At
    <3> QED
      BY <1>3, <2>1, <3>1, <3>2 DEF CursorInv
  <2>3. \A k \in Cells : k \in Int /\ k >= 0 /\ k < BuffSize
    BY Geometry DEF Cells
  <2>4. \A k \in ScreenCells : k \in Int /\ k >= 0 /\ k < ScreenSize
    BY Geometry DEF ScreenCells
  <2>5. cursor \in ScreenCells <=> cursor < ScreenSize
    BY <2>1, <2>3, Geometry DEF ScreenCells
  <2>6. /\ \A l \in {"run", "p_load", "p_store", "p_line", "p_rem", "p_sub", "p_test", "s_copy",
                     "s_load", "s_store", "v_test", "b_load", "b_store"} : l \in Labels
        /\ PastLabels \subseteq Labels
    BY DEF Labels, PastLabels
  <2> HIDE DEF n, cursor
  <2>7. n = term_num[t] /\ cursor = tty_cursor[n]
    BY DEF n, cursor
  <2> USE <1>3, <2>1, <2>2, <2>3, <2>4, <2>5, <2>6, <2>7 DEF terminalVars, callVars, At
  <2>8. CASE p_write(t)
    <3>1. /\ UNCHANGED <<term_num, spilled, tty_cursor, reg, rem>>
          /\ Goto(t, "p_load") /\ pc[t] = "p_write"
      BY <2>8 DEF p_write
    <3>2. WriterInv(t)'
      BY <3>1 DEF WriterInv, Goto
    <3> QED
      BY <3>1, <3>2, CursorRead DEF PastLabels
  <2>9. CASE p_load(t)
    <3>1. /\ UNCHANGED <<term_num, spilled, tty_cursor, rem>>
          /\ Goto(t, "p_store") /\ pc[t] = "p_load"
          /\ reg' = [reg EXCEPT ![t] = cursor]
      BY <2>9 DEF p_load, LoadCursor
    <3>2. cursor \in ScreenCells
      BY <3>1 DEF PastLabels
    <3>3. WriterInv(t)'
      BY <3>1, <3>2 DEF WriterInv, Goto
    <3> QED
      BY <3>1, <3>2, <3>3, CursorRead
  <2>10. CASE p_store(t)
    <3> DEFINE value == reg[t] + Step(char[t])
               l     == IF char[t] = "\n" THEN "p_line" ELSE "p_test"
    <3>1. /\ UNCHANGED <<term_num, spilled>> /\ Goto(t, l) /\ pc[t] = "p_store"
          /\ tty_cursor' = [tty_cursor EXCEPT ![n] = value]
          /\ reg' = [reg EXCEPT ![t] = 0] /\ rem' = [rem EXCEPT ![t] = 0]
      BY <2>10 DEF p_store, StoreCursor
    <3>2. Step(char[t]) \in 1 .. VIDEO_WIDTH /\ (char[t] = "\n" => Step(char[t]) = VIDEO_WIDTH)
      BY StepValues, Geometry DEF Chars
    <3>3. reg[t] \in ScreenCells
      BY <3>1 DEF WriterInv
    <3>4. value \in Cells /\ (char[t] = "\n" => value >= VIDEO_WIDTH)
      BY <3>2, <3>3, Geometry DEF Cells
    <3>5. l \in PastLabels
      BY DEF PastLabels
    <3> HIDE DEF value
    <3>6. tty_cursor'[n] = value /\ \A m \in Terminals : m # n => tty_cursor'[m] = tty_cursor[m]
      BY <3>1
    <3>7. WriterInv(t)'
      BY <3>1, <3>4, <3>6 DEF WriterInv, Goto
    <3> HIDE DEF l
    <3> QED
      BY <3>1, <3>4, <3>5, <3>6, <3>7, OthersUndisturbed
  <2>11. CASE p_line(t)
    <3>1. /\ UNCHANGED <<term_num, spilled, tty_cursor, rem>>
          /\ Goto(t, "p_rem") /\ pc[t] = "p_line"
          /\ reg' = [reg EXCEPT ![t] = cursor]
      BY <2>11 DEF p_line, LoadCursor
    <3>2. WriterInv(t)'
      BY <3>1 DEF WriterInv, Goto
    <3> QED
      BY <3>1, <3>2, CursorRead DEF PastLabels
  <2>12. CASE p_rem(t)
    <3> DEFINE over == cursor % VIDEO_WIDTH
    <3>1. /\ UNCHANGED <<term_num, spilled, tty_cursor, reg>>
          /\ Goto(t, "p_sub") /\ pc[t] = "p_rem"
          /\ rem' = [rem EXCEPT ![t] = over]
      BY <2>12 DEF p_rem
    <3>2. over \in 0 .. VIDEO_WIDTH - 1
      BY RemainderInLine
    <3> HIDE DEF over
    <3>3. WriterInv(t)'
      BY <3>1, <3>2 DEF WriterInv, Goto
    <3> QED
      BY <3>1, <3>3, CursorRead DEF PastLabels
  <2>13. CASE p_sub(t)
    <3> DEFINE value == reg[t] - rem[t]
    <3>1. /\ UNCHANGED <<term_num, spilled>> /\ Goto(t, "p_test") /\ pc[t] = "p_sub"
          /\ tty_cursor' = [tty_cursor EXCEPT ![n] = value]
          /\ reg' = [reg EXCEPT ![t] = 0] /\ rem' = [rem EXCEPT ![t] = 0]
      BY <2>13 DEF p_sub, StoreCursor
    <3>2. reg[t] >= VIDEO_WIDTH /\ reg[t] < BuffSize /\ rem[t] \in 0 .. VIDEO_WIDTH - 1
      BY <3>1 DEF WriterInv
    <3>3. value \in Cells
      BY <3>2, Geometry DEF Cells
    <3> HIDE DEF value
    <3>4. tty_cursor'[n] = value /\ \A m \in Terminals : m # n => tty_cursor'[m] = tty_cursor[m]
      BY <3>1
    <3>5. WriterInv(t)'
      BY <3>1 DEF WriterInv, Goto
    <3> QED
      BY <3>1, <3>3, <3>4, <3>5, OthersUndisturbed DEF PastLabels
  <2>14. CASE p_test(t)
    <3> DEFINE l == IF cursor >= ScreenSize THEN "s_copy" ELSE "v_test"
    <3>1. UNCHANGED <<term_num, spilled, tty_cursor, reg, rem>> /\ Goto(t, l) /\ pc[t] = "p_test"
      BY <2>14 DEF p_test
    <3>2. WriterInv(t)'
      BY <3>1, Geometry DEF WriterInv, Goto
    <3>3. l \in Labels /\ (cursor \notin ScreenCells => l \in PastLabels)
      BY Geometry DEF PastLabels
    <3> HIDE DEF l
    <3> QED
      BY <3>1, <3>2, <3>3, CursorRead
  <2>15. CASE s_copy(t)
    <3>1. /\ UNCHANGED <<term_num, spilled, tty_cursor, reg, rem>> /\ pc[t] = "s_copy"
          /\ Goto(t, "s_copy") \/ Goto(t, "s_load")
      BY <2>15 DEF s_copy, Goto
    <3>2. WriterInv(t)'
      BY <3>1 DEF WriterInv, Goto
    <3> QED
      BY <3>1, <3>2, CursorRead DEF PastLabels
  <2>16. CASE s_load(t)
    <3>1. /\ UNCHANGED <<term_num, spilled, tty_cursor, rem>>
          /\ Goto(t, "s_store") /\ pc[t] = "s_load"
          /\ reg' = [reg EXCEPT ![t] = cursor]
      BY <2>16 DEF s_load, LoadCursor
    <3>2. WriterInv(t)'
      BY <3>1 DEF WriterInv, Goto
    <3> QED
      BY <3>1, <3>2, CursorRead DEF PastLabels
  <2>17. CASE s_store(t)
    <3> DEFINE value == reg[t] - VIDEO_WIDTH
    <3>1. /\ UNCHANGED <<term_num, spilled>> /\ Goto(t, "v_test") /\ pc[t] = "s_store"
          /\ tty_cursor' = [tty_cursor EXCEPT ![n] = value]
          /\ reg' = [reg EXCEPT ![t] = 0] /\ rem' = [rem EXCEPT ![t] = 0]
      BY <2>17 DEF s_store, StoreCursor
    <3>2. reg[t] >= ScreenSize - VIDEO_WIDTH /\ reg[t] < BuffSize /\ reg[t] \in Int
      BY <3>1 DEF WriterInv
    <3>3. value \in Cells /\ value \in ScreenCells
      BY <3>2, Geometry DEF Cells, ScreenCells
    <3> HIDE DEF value
    <3>4. tty_cursor'[n] = value /\ \A m \in Terminals : m # n => tty_cursor'[m] = tty_cursor[m]
      BY <3>1
    <3>5. WriterInv(t)'
      BY <3>1 DEF WriterInv, Goto
    <3> QED
      BY <3>1, <3>3, <3>4, <3>5, OthersUndisturbed
  <2>18. ASSUME NEW l \in {"run", "b_load", "b_store"}, Goto(t, l),
                pc[t] \notin PastLabels, pc[t] # "run",
                UNCHANGED <<term_num, spilled, tty_cursor, reg, rem>>
         PROVE  CursorInv'
    <3>1. WriterInv(t)'
      BY <2>18 DEF WriterInv, Goto
    <3> QED
      BY <2>18, <3>1, CursorRead
  <2>19. CASE v_test(t)
    BY <2>18, <2>19 DEF v_test, Return, PastLabels
  <2>20. CASE b_load(t)
    BY <2>18, <2>20 DEF b_load, PastLabels
  <2>21. CASE b_store(t)
    BY <2>18, <2>21 DEF b_store, Return, PastLabels
  <2> QED
    BY <2>8, <2>9, <2>10, <2>11, <2>12, <2>13, <2>14, <2>15, <2>16, <2>17, <2>19, <2>20, <2>21
    DEF putchar
<1> QED
  BY <1>2, <1>3

LEMMA CallKeepsCursor ==
  ASSUME TypeOK, CursorInv, NEW t \in Writers, NEW n \in Terminals, NEW c \in Chars, call(t, n, c)
  PROVE  CursorInv'
<1>1. SUFFICES ASSUME ~crowded' PROVE CursorInv'
  BY DEF CursorInv
<1>2. ~crowded /\ Inside(n) = {}
  BY <1>1 DEF call
<1>3. /\ pc[t] = "run" /\ pc'[t] \in {"p_write", "p_load"} /\ term_num'[t] = n
      /\ \A u \in Writers : u # t => pc'[u] = pc[u] /\ term_num'[u] = term_num[u]
      /\ UNCHANGED <<tty_cursor, reg, rem, spilled>>
  BY DEF call, At, Goto, TypeOK, terminalVars
<1>4. \A u \in Writers : pc[u] # "run" => term_num[u] # n /\ u # t
  BY <1>2, <1>3 DEF Inside
<1>5. Alone'
  BY <1>2, <1>3, <1>4 DEF CursorInv, Alone
<1>6. ASSUME NEW u \in Writers PROVE WriterInv(u)'
  BY <1>2, <1>3 DEF CursorInv, WriterInv
<1>7. \A m \in Terminals : \A u \in Inside(m) : u \in Inside(m)' /\ pc'[u] = pc[u]
  BY <1>3 DEF Inside
<1> QED
  BY <1>2, <1>3, <1>5, <1>6, <1>7 DEF CursorInv

LEMMA IrqKeepsCursor ==
  ASSUME TypeOK, CursorInv, irq_puts \/ irq_key
  PROVE  CursorInv'
<1>1. UNCHANGED <<pc, term_num, reg, rem, crowded>>
  BY DEF irq_puts, irq_key, Interrupt, callVars
<1>2. CASE irq_key
  <2>1. UNCHANGED <<tty_cursor, spilled>>
    BY <1>2 DEF irq_key
  <2> QED
    BY <1>1, <2>1 DEF CursorInv, Alone, Inside, WriterInv
<1>3. CASE irq_puts
  <2> SUFFICES ASSUME ~crowded PROVE CursorInv'
    BY <1>1 DEF CursorInv
  <2> DEFINE n     == tmp_terminal_num
             here  == [buff |-> buff[n], tty_cursor |-> tty_cursor[n], spilled |-> FALSE]
             first == Put(here, "x")
  <2>1. n \in Terminals /\ here \in Terminal /\ here.tty_cursor = tty_cursor[n] /\ ~here.spilled
    BY DEF TypeOK, Terminal
  <2>2. here.tty_cursor \in Cells
    BY <2>1 DEF CursorInv
  <2>3. AfterIrq = Put(first, "\n")
    BY DEF AfterIrq
  <2> HIDE DEF n, here
  <2>4. first \in Terminal
    BY <2>1, PutTyped DEF Chars
  <2>5. /\ ~first.spilled /\ first.tty_cursor \in Cells
        /\ here.tty_cursor \in ScreenCells => first.tty_cursor \in ScreenCells
        /\ here.tty_cursor >= VIDEO_WIDTH => first.tty_cursor >= VIDEO_WIDTH
        /\ here.tty_cursor >= ScreenSize - VIDEO_WIDTH =>
              first.tty_cursor >= ScreenSize - VIDEO_WIDTH
    BY <2>1, <2>2, PutInside
  <2> HIDE DEF first
  <2>6. /\ ~AfterIrq.spilled /\ AfterIrq.tty_cursor \in Cells
        /\ tty_cursor[n] \in ScreenCells => AfterIrq.tty_cursor \in ScreenCells
        /\ tty_cursor[n] >= VIDEO_WIDTH => AfterIrq.tty_cursor >= VIDEO_WIDTH
        /\ tty_cursor[n] >= ScreenSize - VIDEO_WIDTH =>
              AfterIrq.tty_cursor >= ScreenSize - VIDEO_WIDTH
    BY <2>1, <2>3, <2>4, <2>5, PutInside
  <2>7. /\ tty_cursor' = [tty_cursor EXCEPT ![n] = AfterIrq.tty_cursor]
        /\ spilled' = AfterIrq.spilled
    BY <1>3 DEF irq_puts, AfterIrq, n
  <2>8. /\ tty_cursor'[n] = AfterIrq.tty_cursor
        /\ \A m \in Terminals : m # n => tty_cursor'[m] = tty_cursor[m]
    BY <2>1, <2>7 DEF TypeOK
  <2>9. ~spilled'
    BY <2>6, <2>7
  <2>10. \A m \in Terminals :
           /\ tty_cursor'[m] \in Cells
           /\ tty_cursor[m] \in ScreenCells => tty_cursor'[m] \in ScreenCells
           /\ tty_cursor[m] >= VIDEO_WIDTH => tty_cursor'[m] >= VIDEO_WIDTH
           /\ tty_cursor[m] >= ScreenSize - VIDEO_WIDTH =>
                 tty_cursor'[m] >= ScreenSize - VIDEO_WIDTH
    BY <2>6, <2>8 DEF CursorInv
  <2>11. Alone'
    BY <1>1 DEF CursorInv, Alone
  <2>12. ASSUME NEW u \in Writers PROVE WriterInv(u)'
    <3>1. WriterInv(u) /\ term_num[u] \in Terminals
      BY DEF CursorInv, TypeOK
    <3> QED
      BY <1>1, <2>10, <3>1 DEF WriterInv
  <2>13. \A m \in Terminals : Inside(m)' = Inside(m)
    BY <1>1 DEF Inside
  <2> QED
    BY <1>1, <2>9, <2>10, <2>11, <2>12, <2>13 DEF CursorInv
<1> QED
  BY <1>2, <1>3

LEMMA CursorKept == TypeOK /\ CursorInv /\ [Next]_vars => CursorInv'
<1>1. TypeOK /\ CursorInv /\ UNCHANGED vars => CursorInv'
  BY DEF vars, terminalVars, callVars, CursorInv, Alone, Inside, WriterInv
<1> QED
  BY <1>1, WriterKeepsCursor, CallKeepsCursor, IrqKeepsCursor DEF Next

-----------------------------------------------------------------------------
(* The screen, while no copy to it is overtaken.                           *)

LEMMA InitScreen == Init => ScreenInv
<1> SUFFICES ASSUME Init PROVE ScreenInv
  OBVIOUS
<1>1. PICK printed \in ScreenCells :
        LET written == [k \in Cells |-> IF k < printed THEN "x" ELSE Cleared[k]]
        IN /\ buff = [n \in Terminals |-> IF n = 0 THEN written ELSE Cleared]
           /\ screen = Shown(written)
  BY DEF Init
<1> DEFINE written == [k \in Cells |-> IF k < printed THEN "x" ELSE Cleared[k]]
<1>2. buff = [n \in Terminals |-> IF n = 0 THEN written ELSE Cleared] /\ screen = Shown(written)
  BY <1>1
<1> HIDE DEF written
<1>3. /\ is_visible = [n \in Terminals |-> n = 0] /\ tmp_terminal_num = 0
      /\ pc = [t \in Writers |-> "run"]
  BY DEF Init
<1>4. 0 \in Terminals
  BY VideoAssumption DEF Terminals
<1>5. buff[0] = written
  BY <1>2, <1>4
<1>6. \A n \in Terminals : is_visible[n] <=> n = tmp_terminal_num
  BY <1>3
<1>7. screen = Shown(buff[tmp_terminal_num])
  BY <1>2, <1>3, <1>5
<1>8. \A t \in Writers : CopyInv(t)
  BY <1>3 DEF CopyInv
<1> QED
  BY <1>6, <1>7, <1>8 DEF ScreenInv, ScreenShowsTerminal

LEMMA CopiersInside ==
  ASSUME TypeOK, ScreenInv, ~torn, ~spilled, Copying(tmp_terminal_num) = {}, NEW u \in Writers
  PROVE  pc[u] \notin {"b_load", "b_store"}
BY DEF ScreenInv, CopyInv, Copying, Inside

\* A step of a thread that is inside putchar, and not copying, before and after.
LEMMA ScreenLeftAlone ==
  ASSUME TypeOK, ScreenInv, NEW t \in Writers, NEW l \in Labels \ {"run", "b_load", "b_store"},
         pc[t] # "run", Goto(t, l),
         UNCHANGED <<is_visible, tmp_terminal_num, screen, term_num, byteReg>>,
         \A u \in Writers : u # t => i'[u] = i[u],
         ~spilled' => ~spilled,
         UNCHANGED <<buff, torn>> \/ \E k \in Cells, value \in CellValues : Store(t, k, value)
  PROVE  ScreenInv'
<1>1. /\ pc'[t] = l /\ \A u \in Writers : u # t => pc'[u] = pc[u]
      /\ term_num[t] \in Terminals /\ tmp_terminal_num \in Terminals
  BY DEF TypeOK, Goto
<1>2. \A n \in Terminals : is_visible'[n] <=> n = tmp_terminal_num'
  BY DEF ScreenInv, ScreenShowsTerminal
<1> SUFFICES ASSUME ~torn', ~spilled'
             PROVE  /\ \A u \in Writers : CopyInv(u)'
                    /\ Inside(tmp_terminal_num)' = {} => screen' = Shown(buff[tmp_terminal_num])'
  BY <1>2 DEF ScreenInv, ScreenShowsTerminal
<1>3. ~torn /\ ~spilled
  <2>1. CASE UNCHANGED <<buff, torn>>
    BY <2>1
  <2>2. ASSUME NEW k \in Cells, NEW value \in CellValues, Store(t, k, value) PROVE ~torn
    BY <2>2, Zenon DEF Store
  <2> QED
    BY <2>1, <2>2
<1>4. \A u \in Writers : CopyInv(u)
  BY <1>3 DEF ScreenInv
<1>5. Inside(tmp_terminal_num)' = Inside(tmp_terminal_num)
  BY <1>1 DEF Inside
<1>6. CASE buff'[tmp_terminal_num] = buff[tmp_terminal_num]
  <2>1. \A u \in Writers : CopyInv(u)'
    BY <1>1, <1>4, <1>6 DEF CopyInv
  <2> QED
    BY <1>3, <1>5, <1>6, <2>1 DEF ScreenInv, ScreenShowsTerminal
<1>7. CASE buff'[tmp_terminal_num] # buff[tmp_terminal_num]
  <2>1. term_num[t] = tmp_terminal_num /\ Copying(tmp_terminal_num) = {}
    BY <1>1, <1>7 DEF Store, TypeOK
  <2>2. t \in Inside(tmp_terminal_num)'
    BY <1>1, <2>1 DEF Inside
  <2>3. \A u \in Writers : pc'[u] \notin {"b_load", "b_store"}
    BY <1>1, <1>3, <2>1, CopiersInside
  <2> QED
    BY <2>2, <2>3 DEF CopyInv
<1> QED
  BY <1>6, <1>7

LEMMA WriterKeepsScreen ==
  ASSUME TypeOK, LoopInv, ScreenInv, NEW t \in Writers, putchar(t)
  PROVE  ScreenInv'
<1> USE DEF terminalVars, callVars, At
<1>1. \A l \in {"p_load", "p_store", "p_line", "p_rem", "p_sub", "p_test", "s_copy", "s_load",
                "s_store", "v_test"} : l \in Labels \ {"run", "b_load", "b_store"}
  BY DEF Labels
<1>2. CASE p_write(t)
  <2>1. "x" \in CellValues
    BY DEF CellValues
  <2> QED
    BY <1>1, <1>2, <2>1, ScreenLeftAlone DEF p_write
<1>3. ASSUME NEW from, from # "run", NEW to \in Labels \ {"run", "b_load", "b_store"},
             LoadCursor(t, from, to)
      PROVE  ScreenInv'
  BY <1>3, ScreenLeftAlone DEF LoadCursor
<1>4. ASSUME NEW from, from # "run", NEW to \in Labels \ {"run", "b_load", "b_store"}, NEW value,
             StoreCursor(t, from, to, value)
      PROVE  ScreenInv'
  BY <1>4, ScreenLeftAlone DEF StoreCursor
<1>5. CASE p_load(t) \/ p_line(t) \/ s_load(t)
  BY <1>1, <1>3, <1>5 DEF p_load, p_line, s_load
<1>6. CASE p_store(t) \/ p_sub(t) \/ s_store(t)
  BY <1>1, <1>4, <1>6 DEF p_store, p_sub, s_store
<1>7. CASE p_rem(t)
  BY <1>1, <1>7, ScreenLeftAlone DEF p_rem
<1>8. CASE p_test(t)
  <2>1. \A u \in Writers : u # t => i'[u] = i[u]
    BY <1>8 DEF p_test, TypeOK
  <2> QED
    BY <1>1, <1>8, <2>1, ScreenLeftAlone DEF p_test
<1>9. CASE s_copy(t)
  <2>1. pc[t] = "s_copy" /\ i[t] \in VIDEO_WIDTH .. BuffSize
    BY <1>9 DEF s_copy, LoopInv
  <2>2. i[t] < BuffSize => i[t] \in Cells /\ i[t] - VIDEO_WIDTH \in Cells
    BY <2>1, Geometry DEF Cells
  <2>3. i[t] < BuffSize => buff[term_num[t]][i[t]] \in CellValues
    BY <2>2 DEF TypeOK
  <2>4. ScreenSize \in Cells /\ "cursor" \in CellValues
    BY Geometry DEF Cells, CellValues
  <2>5. \E k \in Cells, value \in CellValues : Store(t, k, value)
    BY <1>9, <2>2, <2>3, <2>4 DEF s_copy
  <2>6. Goto(t, "s_copy") \/ Goto(t, "s_load")
    BY <1>9, <2>1 DEF s_copy, Goto, TypeOK
  <2>7. \A u \in Writers : u # t => i'[u] = i[u]
    BY <1>9 DEF s_copy, TypeOK
  <2>8. UNCHANGED <<is_visible, tmp_terminal_num, screen, term_num, byteReg, spilled>>
    BY <1>9 DEF s_copy
  <2> QED
    BY <1>1, <2>1, <2>5, <2>6, <2>7, <2>8, ScreenLeftAlone
<1>10. CASE v_test(t) \/ b_load(t) \/ b_store(t)
  <2> USE DEF Goto, Return
  <2>1. /\ UNCHANGED <<buff, is_visible, tmp_terminal_num, term_num, spilled, torn>>
        /\ pc \in [Writers -> Labels] /\ i \in [Writers -> 0 .. BuffSize]
        /\ byteReg \in [Writers -> CellValues] /\ screen \in [ScreenCells -> CellValues]
        /\ term_num[t] \in Terminals /\ tmp_terminal_num \in Terminals
        /\ \A n \in Terminals : is_visible[n] <=> n = tmp_terminal_num
        /\ pc[t] \in Labels \ {"run"}
    BY <1>10 DEF v_test, b_load, b_store, TypeOK, ScreenInv, ScreenShowsTerminal, Labels
  <2>2. \A u \in Writers : u # t => pc'[u] = pc[u] /\ i'[u] = i[u] /\ byteReg'[u] = byteReg[u]
    BY <1>10, <2>1 DEF v_test, b_load, b_store
  <2> SUFFICES ASSUME ~torn, ~spilled
               PROVE  /\ \A u \in Writers : CopyInv(u)'
                      /\ Inside(tmp_terminal_num)' = {} => screen' = Shown(buff[tmp_terminal_num])'
    BY <2>1 DEF ScreenInv, ScreenShowsTerminal
  <2>3. \A u \in Writers : CopyInv(u)
    BY DEF ScreenInv
  <2>4. Inside(tmp_terminal_num) = {} => screen = Shown(buff[tmp_terminal_num])
    BY DEF ScreenInv, ScreenShowsTerminal
  <2>5. term_num[t] # tmp_terminal_num => Inside(tmp_terminal_num)' = Inside(tmp_terminal_num)
    BY <2>1, <2>2 DEF Inside
  <2>6. term_num[t] = tmp_terminal_num /\ pc'[t] # "run" => Inside(tmp_terminal_num)' # {}
    BY <2>1 DEF Inside
  <2>7. CASE v_test(t)
    <3>1. /\ UNCHANGED <<screen, byteReg>>
          /\ i'[t] = 0 /\ pc'[t] = IF is_visible[term_num[t]] THEN "b_load" ELSE "run"
      BY <2>1, <2>7, Geometry DEF v_test
    <3>2. \A k \in ScreenCells : ~(k < 0)
      BY DEF ScreenCells
    <3>3. \A u \in Writers : CopyInv(u)'
      BY <2>1, <2>2, <2>3, <3>1, <3>2 DEF CopyInv
    <3> QED
      BY <2>1, <2>4, <2>5, <2>6, <3>1, <3>3
  <2>8. CASE b_load(t)
    <3>1. /\ UNCHANGED <<screen, i>> /\ pc[t] = "b_load" /\ pc'[t] = "b_store"
          /\ byteReg'[t] = buff[term_num[t]][i[t]]
      BY <2>1, <2>8 DEF b_load
    <3>2. \A u \in Writers : CopyInv(u)'
      BY <2>1, <2>2, <2>3, <3>1 DEF CopyInv
    <3> QED
      BY <2>1, <2>4, <2>5, <2>6, <3>1, <3>2
  <2>9. CASE b_store(t)
    <3> DEFINE here == i[t]
    <3>1. /\ pc[t] = "b_store" /\ term_num[t] = tmp_terminal_num
          /\ here \in ScreenCells /\ byteReg[t] = buff[tmp_terminal_num][here]
          /\ \A k \in ScreenCells : k < here => screen[k] = buff[tmp_terminal_num][k]
      BY <2>3, <2>9 DEF b_store, LoopInv, CopyInv
    <3>2. screen' = [screen EXCEPT ![here] = buff[tmp_terminal_num][here]]
      BY <2>9, <3>1 DEF b_store
    <3>3. \/ here + 1 < ScreenSize /\ pc'[t] = "b_load" /\ i'[t] = here + 1
          \/ ~(here + 1 < ScreenSize) /\ pc'[t] = "run"
      BY <2>1, <2>9 DEF b_store
    <3> HIDE DEF here
    <3>4. \A k \in ScreenCells : screen'[k] = screen[k] \/ screen'[k] = buff[tmp_terminal_num][k]
      BY <2>1, <3>1, <3>2
    <3>5. \A k \in ScreenCells : k < here + 1 => screen'[k] = buff[tmp_terminal_num][k]
      BY <2>1, <3>1, <3>2, Geometry DEF ScreenCells
    <3>6. ASSUME NEW u \in Writers, u # t PROVE CopyInv(u)'
      BY <2>1, <2>2, <2>3, <3>4, <3>6 DEF CopyInv
    <3>7. CopyInv(t)'
      BY <2>1, <3>1, <3>3, <3>5 DEF CopyInv
    <3>8. CASE here + 1 < ScreenSize
      BY <2>6, <3>1, <3>3, <3>6, <3>7, <3>8
    <3>9. CASE ~(here + 1 < ScreenSize)
      <4>1. \A k \in ScreenCells : k < here + 1
        BY <3>1, <3>9, Geometry DEF ScreenCells
      <4>2. screen' \in [ScreenCells -> CellValues]
        <5>1. TypeOK'
          BY WriterTyped
        <5> QED
          BY <5>1 DEF TypeOK
      <4>3. screen' = Shown(buff[tmp_terminal_num])
        BY <3>5, <4>1, <4>2 DEF Shown
      <4> QED
        BY <2>1, <3>6, <3>7, <4>3
    <3> QED
      BY <3>8, <3>9
  <2> QED
    BY <1>10, <2>7, <2>8, <2>9
<1> QED
  BY <1>2, <1>5, <1>6, <1>7, <1>8, <1>9, <1>10 DEF putchar

LEMMA CallKeepsScreen ==
  ASSUME TypeOK, ScreenInv, NEW t \in Writers, NEW n \in Terminals, NEW c \in Chars, call(t, n, c)
  PROVE  ScreenInv'
<1>1. /\ UNCHANGED <<buff, is_visible, tmp_terminal_num, screen, byteReg, i, spilled, torn>>
      /\ pc[t] = "run" /\ pc'[t] \in {"p_write", "p_load"}
      /\ \A u \in Writers : u # t => pc'[u] = pc[u] /\ term_num'[u] = term_num[u]
  BY DEF call, At, Goto, TypeOK, terminalVars
<1>2. \A u \in Inside(tmp_terminal_num) : u \in Inside(tmp_terminal_num)'
  BY <1>1 DEF Inside
<1>3. ~torn /\ ~spilled => \A u \in Writers : CopyInv(u)'
  BY <1>1 DEF ScreenInv, CopyInv
<1> QED
  BY <1>1, <1>2, <1>3 DEF ScreenInv, ScreenShowsTerminal

LEMMA IrqKeepsScreen ==
  ASSUME TypeOK, ScreenInv, irq_puts \/ irq_key
  PROVE  ScreenInv'
<1>1. /\ UNCHANGED <<pc, term_num>> /\ ~spilled /\ tmp_terminal_num \in Terminals
      /\ torn' = (torn \/ \E n \in Terminals : Copying(n) # {})
  BY DEF irq_puts, irq_key, Interrupt, callVars, TypeOK
<1>2. ~torn' => \A u \in Writers : CopyInv(u)'
  <2>1. ASSUME ~torn', NEW u \in Writers PROVE pc[u] \notin {"b_load", "b_store"}
    <3>1. ~torn /\ Copying(tmp_terminal_num) = {}
      BY <1>1, <2>1
    <3> QED
      BY <1>1, <3>1, CopiersInside
  <2> QED
    BY <1>1, <2>1 DEF CopyInv
<1>3. CASE irq_puts
  <2>1. /\ UNCHANGED <<is_visible, tmp_terminal_num>>
        /\ buff' = [buff EXCEPT ![tmp_terminal_num] = AfterIrq.buff]
        /\ screen' = IF is_visible[tmp_terminal_num] THEN Shown(AfterIrq.buff) ELSE screen
    BY <1>3 DEF irq_puts, AfterIrq
  <2>2. \A n \in Terminals : is_visible[n] <=> n = tmp_terminal_num
    BY DEF ScreenInv, ScreenShowsTerminal
  <2>3. buff'[tmp_terminal_num] = AfterIrq.buff
    BY <1>1, <2>1 DEF TypeOK
  <2>4. screen' = Shown(buff[tmp_terminal_num])'
    BY <1>1, <2>1, <2>2, <2>3 DEF Shown
  <2> QED
    BY <1>2, <2>1, <2>2, <2>4 DEF ScreenInv, ScreenShowsTerminal
<1>4. CASE irq_key
  <2> DEFINE next == (tmp_terminal_num + 1) % NUM_TERMINALS
  <2>1. next \in Terminals
    BY <1>1, NextTerminal
  <2>2. change_terminal(next) /\ UNCHANGED buff
    BY <1>4 DEF irq_key
  <2> HIDE DEF next
  <2>3. /\ tmp_terminal_num' = next /\ screen' = Shown(buff[next])
        /\ is_visible' = [is_visible EXCEPT ![tmp_terminal_num] = FALSE, ![next] = TRUE]
    BY <2>2 DEF change_terminal
  <2>4. \A n \in Terminals : is_visible'[n] <=> n = tmp_terminal_num'
    BY <1>1, <2>1, <2>3 DEF ScreenInv, ScreenShowsTerminal, TypeOK
  <2>5. screen' = Shown(buff[tmp_terminal_num])'
    BY <2>2, <2>3 DEF Shown
  <2> QED
    BY <1>2, <2>4, <2>5 DEF ScreenInv, ScreenShowsTerminal
<1> QED
  BY <1>3, <1>4

LEMMA ScreenKept == TypeOK /\ LoopInv /\ ScreenInv /\ [Next]_vars => ScreenInv'
<1>1. ScreenInv /\ UNCHANGED vars => ScreenInv'
  BY DEF vars, terminalVars, callVars, ScreenInv, ScreenShowsTerminal, CopyInv, Inside
<1> QED
  BY <1>1, WriterKeepsScreen, CallKeepsScreen, IrqKeepsScreen DEF Next

-----------------------------------------------------------------------------
LEMMA InitInv == Init => IInv
BY InitTyped, InitCursor, InitScreen DEF IInv

LEMMA NextKeepsInv == IInv /\ [Next]_vars => IInv'
BY TypesKept, CursorKept, ScreenKept DEF IInv

\* The inductive invariant holds in every state of every behaviour.
THEOREM Invariance == Spec => []IInv
BY InitInv, NextKeepsInv, PTL DEF Spec

\* Every variable keeps to its type, however the threads and the keyboard overlap:
\* what the loops of putchar and buff_to_display move about is cells of the arrays.
THEOREM TypeCorrect == Spec => []TypeOK
<1>1. IInv => TypeOK
  BY DEF IInv
<1> QED
  BY <1>1, Invariance, PTL

\* No character is written outside its terminal's buffer unless two threads have been
\* inside putchar of one terminal at a time: the interrupt handler, which prints
\* between any two steps of a thread's putchar, never brings it about (putchar of
\* display.c, irq_handler of cpu.c).
THEOREM StaysInside == Spec => []PrintingStaysInside
<1>1. IInv => PrintingStaysInside
  BY DEF IInv, CursorInv, PrintingStaysInside
<1> QED
  BY <1>1, Invariance, PTL

\* The terminal shown is the only one visible, and the screen shows its buffer when
\* nobody is inside its putchar and no copy has been overtaken (buff_to_display,
\* change_terminal of display.c).
THEOREM ShowsTerminal == Spec => []ScreenShowsTerminal
<1>1. IInv => ScreenShowsTerminal
  BY DEF IInv, ScreenInv
<1> QED
  BY <1>1, Invariance, PTL
=============================================================================
