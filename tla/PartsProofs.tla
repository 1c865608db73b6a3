---------------------------- MODULE PartsProofs -----------------------------
(***************************************************************************)
(* Proofs about parts that wait for nobody: the shell of hw1, for any      *)
(* number of children, the display and keyboard of the kernel, for every   *)
(* size of the screen and every keyboard, the routers of PA3, for every    *)
(* topology and any number of commands, and the DHCP servers of PA1.       *)
(***************************************************************************)
EXTENDS Shell, Terminal, Bgp, Dhcp, ListFacts, TLAPS
-----------------------------------------------------------------------------
(***************************************************************************)
(* The shell.                                                              *)
(***************************************************************************)

ShellChild == [state : {"free", "forked", "running", "stopped", "zombie", "reaped"},
               bg : BOOLEAN, found : BOOLEAN]

\* A child that may take or use the terminal was started without & and the shell
\* waits for it, so there is at most one; the terminal is the shell's otherwise.
ForegroundInv ==
    /\ sh_pc = "foreground" =>
        /\ sh_last \in ShellPid
        /\ \A p \in ShellPid \ {sh_last} :
              sh_child[p].state \in {"forked", "running"} => sh_child[p].bg
    /\ sh_pc # "foreground" =>
        /\ sh_tty = "shell"
        /\ \A p \in ShellPid : sh_child[p].state \in {"forked", "running"} => sh_child[p].bg

ShellInv == ShellTypeOK /\ ForegroundInv

\* A step that moves one child, p, to the state c and leaves pc and the terminal.
LEMMA ShellMove ==
    ASSUME ShellInv, NEW p \in ShellPid, NEW c \in ShellChild,
           sh_child' = [sh_child EXCEPT ![p] = c], c.bg = sh_child[p].bg,
           c.state \in {"forked", "running"} => sh_child[p].state \in {"forked", "running"},
           UNCHANGED <<sh_pc, sh_last>>,
           sh_tty' = sh_tty \/ (sh_tty' = p /\ sh_pc = "foreground")
    PROVE  ShellInv'
<1>1. sh_child \in [ShellPid -> ShellChild]
  BY DEF ShellInv, ShellTypeOK, ShellChild
<1>2. sh_child' \in [ShellPid -> ShellChild] /\ sh_child'[p] = c
      /\ \A q \in ShellPid \ {p} : sh_child'[q] = sh_child[q]
  BY <1>1
<1>3. ShellTypeOK'
  BY <1>2 DEF ShellInv, ShellTypeOK, ShellChild
<1>4. \A q \in ShellPid : /\ sh_child'[q].bg = sh_child[q].bg
                          /\ sh_child'[q].state \in {"forked", "running"}
                                => sh_child[q].state \in {"forked", "running"}
  BY <1>2
<1>5. ForegroundInv'
  BY <1>4 DEF ShellInv, ForegroundInv
<1> QED
  BY <1>3, <1>5 DEF ShellInv

LEMMA ShellStep == ShellInv /\ [ShellNext]_shellVars => ShellInv'
<1> SUFFICES ASSUME ShellInv, [ShellNext]_shellVars PROVE ShellInv'
  OBVIOUS
<1>0. sh_child \in [ShellPid -> ShellChild]
  BY DEF ShellInv, ShellTypeOK, ShellChild
<1>1. CASE cmd_quit \/ cmd_wait
  BY <1>1 DEF cmd_quit, cmd_wait, ShellInv, ShellTypeOK, ForegroundInv
<1>2. CASE parent
  <2>1. CASE sh_pc = "background" /\ UNCHANGED sh_child
    BY <1>2, <2>1 DEF parent, setctrl, ShellInv, ShellTypeOK, ForegroundInv
  <2>2. CASE sh_pc = "foreground"
    <3> DEFINE p == sh_last
               c == [sh_child[p] EXCEPT !.state = IF @ = "zombie" THEN "reaped" ELSE @]
    <3>1. /\ p \in ShellPid /\ sh_child[p].state \in {"zombie", "stopped"}
          /\ sh_child' = [sh_child EXCEPT ![p] = c]
          /\ sh_pc' = "prompt" /\ sh_tty' = "shell"
      BY <1>2, <2>2 DEF parent, setctrl, ShellInv, ForegroundInv
    <3>2. c \in ShellChild /\ c.state \notin {"forked", "running"}
      BY <1>0, <3>1 DEF ShellChild
    <3> HIDE DEF c
    <3>3. sh_child' \in [ShellPid -> ShellChild] /\ sh_child'[p] = c
          /\ \A q \in ShellPid \ {p} : sh_child'[q] = sh_child[q]
      BY <1>0, <3>1, <3>2
    <3>4. ShellTypeOK'
      BY <3>1, <3>3 DEF ShellTypeOK, ShellChild
    <3>5. ForegroundInv'
      BY <2>2, <3>1, <3>2, <3>3 DEF ShellInv, ForegroundInv
    <3> QED
      BY <3>4, <3>5 DEF ShellInv
  <2> QED
    BY <1>2, <2>1, <2>2 DEF parent
<1>3. ASSUME NEW p \in ShellPid, cmd_wait_loop(p) PROVE ShellInv'
  <2> DEFINE c == [sh_child[p] EXCEPT !.state = "reaped"]
  <2>1. sh_child' = [sh_child EXCEPT ![p] = c] /\ UNCHANGED <<sh_pc, sh_last>> /\ sh_tty' = sh_tty
    BY <1>3 DEF cmd_wait_loop
  <2>2. c \in ShellChild /\ c.bg = sh_child[p].bg /\ c.state = "reaped"
    BY <1>0 DEF ShellChild
  <2> HIDE DEF c
  <2> QED
    BY <2>1, <2>2, ShellMove
<1>4. ASSUME NEW p \in ShellPid, child(p) PROVE ShellInv'
  <2> DEFINE c == [sh_child[p] EXCEPT !.state = IF sh_child[p].found THEN "running" ELSE "zombie"]
  <2>1. /\ sh_child' = [sh_child EXCEPT ![p] = c] /\ UNCHANGED <<sh_pc, sh_last>>
        /\ sh_child[p].state = "forked"
        /\ IF sh_child[p].bg THEN sh_tty' = sh_tty ELSE sh_tty' = p
    BY <1>4 DEF child
  <2>2. c \in ShellChild /\ c.bg = sh_child[p].bg
    BY <1>0 DEF ShellChild
  <2> HIDE DEF c
  <2>3. sh_tty' = sh_tty \/ (sh_tty' = p /\ sh_pc = "foreground")
    BY <2>1 DEF ShellInv, ForegroundInv
  <2> QED
    BY <2>1, <2>2, <2>3, ShellMove
<1>5. ASSUME NEW p \in ShellPid, exits(p) PROVE ShellInv'
  <2> DEFINE c == [sh_child[p] EXCEPT !.state = "zombie"]
  <2>1. sh_child' = [sh_child EXCEPT ![p] = c] /\ UNCHANGED <<sh_pc, sh_last>> /\ sh_tty' = sh_tty
    BY <1>5 DEF exits
  <2>2. c \in ShellChild /\ c.bg = sh_child[p].bg /\ c.state = "zombie"
    BY <1>0 DEF ShellChild
  <2> HIDE DEF c
  <2> QED
    BY <2>1, <2>2, ShellMove
<1>6. ASSUME NEW p \in ShellPid, suspend(p) PROVE ShellInv'
  <2> DEFINE c == [sh_child[p] EXCEPT !.state = "stopped"]
  <2>1. sh_child' = [sh_child EXCEPT ![p] = c] /\ UNCHANGED <<sh_pc, sh_last>> /\ sh_tty' = sh_tty
    BY <1>6 DEF suspend
  <2>2. c \in ShellChild /\ c.bg = sh_child[p].bg /\ c.state = "stopped"
    BY <1>0 DEF ShellChild
  <2> HIDE DEF c
  <2> QED
    BY <2>1, <2>2, ShellMove
<1>7. ASSUME NEW p \in ShellPid, NEW ind \in -1 .. 1, NEW found \in BOOLEAN, fork(p, ind, found)
      PROVE  ShellInv'
  <2> DEFINE c == [state |-> "forked", bg |-> is_background(ind), found |-> found]
  <2>1. /\ sh_pc = "prompt" /\ sh_child' = [sh_child EXCEPT ![p] = c] /\ sh_last' = p
        /\ sh_pc' = IF is_background(ind) THEN "background" ELSE "foreground"
        /\ sh_tty' = sh_tty
    BY <1>7 DEF fork
  <2>2. c \in ShellChild /\ c.bg = is_background(ind)
    BY DEF ShellChild, is_background
  <2> HIDE DEF c
  <2>3. sh_child' \in [ShellPid -> ShellChild] /\ sh_child'[p] = c
        /\ \A q \in ShellPid \ {p} : sh_child'[q] = sh_child[q]
    BY <1>0, <2>1, <2>2
  <2>4. ShellTypeOK'
    BY <2>1, <2>3 DEF ShellInv, ShellTypeOK, ShellChild
  <2>5. CASE is_background(ind)
    <3>1. ForegroundInv'
      BY <2>1, <2>2, <2>3, <2>5 DEF ShellInv, ForegroundInv
    <3> QED
      BY <2>4, <3>1 DEF ShellInv
  <2>6. CASE ~ is_background(ind)
    <3>1. ForegroundInv'
      BY <2>1, <2>3, <2>6 DEF ShellInv, ForegroundInv
    <3> QED
      BY <2>4, <3>1 DEF ShellInv
  <2> QED
    BY <2>5, <2>6
<1>8. CASE UNCHANGED shellVars
  BY <1>8 DEF shellVars, ShellInv, ShellTypeOK, ForegroundInv
<1> QED
  BY <1>1, <1>2, <1>3, <1>4, <1>5, <1>6, <1>7, <1>8 DEF ShellNext, interrupt

\* In whatever order shell and child run after fork, and whatever the user types,
\* the shell has the terminal whenever it prompts, and everything it did not start
\* in the background has ended or is stopped.
THEOREM PromptKeepsTerminal == ShellSpec => []PromptHasTerminal
<1>1. ShellInit => ShellInv
  BY DEF ShellInit, ShellInv, ShellTypeOK, ForegroundInv
<1>2. ShellInv => PromptHasTerminal
  BY DEF ShellInv, ForegroundInv, PromptHasTerminal, Children
<1> QED
  BY <1>1, <1>2, ShellStep, PTL DEF ShellSpec
-----------------------------------------------------------------------------
(***************************************************************************)
(* The display.                                                            *)
(***************************************************************************)

Row == 0 .. ROW_CNT - 1
Column == 0 .. COL_CNT - 1
Line == [Column -> 0 .. 255]

\* A screen whose cursor is on it and which is empty below the cursor.
Screen(s) ==
    /\ s \in [fb : [Row -> Line], cx : Column, cy : Row]
    /\ \A y \in Row : y > s.cy => s.fb[y] = blank_row

LEMMA SizesPositive ==
    /\ COL_CNT \in Nat /\ ROW_CNT \in Nat /\ TabStop \in Nat
    /\ COL_CNT > 0 /\ ROW_CNT > 0 /\ TabStop > 0
    /\ 0 \in Column /\ 0 \in Row /\ ROW_CNT - 1 \in Row
<1>1. COL_CNT \in Nat /\ ROW_CNT \in Nat /\ TabStop \in Nat
      /\ COL_CNT > 0 /\ ROW_CNT > 0 /\ TabStop > 0
  BY TerminalAssumption
<1> QED
  BY <1>1 DEF Row, Column

LEMMA BlankRow == blank_row \in Line
BY SizesPositive DEF blank_row, Line, Column

\* newline () from any column, also from the one past the end.
LEMMA NewlineScreen ==
    ASSUME NEW fb \in [Row -> Line], NEW cx, NEW cy \in Row,
           \A y \in Row : y > cy => fb[y] = blank_row
    PROVE  Screen(newline([fb |-> fb, cx |-> cx, cy |-> cy]))
<1> DEFINE s == [fb |-> fb, cx |-> cx, cy |-> cy]
           n == newline(s)
<1>0. s.fb = fb /\ s.cy = cy /\ cy \in Int /\ ROW_CNT \in Int
  BY SizesPositive DEF Row
<1>1. CASE cy + 1 >= ROW_CNT
  <2>1. n = [fb |-> scrolled(fb), cx |-> 0, cy |-> ROW_CNT - 1]
    BY <1>0, <1>1 DEF newline
  <2>2. scrolled(fb) \in [Row -> Line]
    <3>1. \A y \in Row : y < ROW_CNT - 1 => y + 1 \in Row
      BY SizesPositive DEF Row
    <3>2. scrolled(fb) = [y \in Row |-> IF y < ROW_CNT - 1 THEN fb[y + 1] ELSE blank_row]
      BY DEF scrolled, Row
    <3> QED
      BY <3>1, <3>2, BlankRow
  <2>3. \A y \in Row : ~ (y > ROW_CNT - 1)
    BY SizesPositive DEF Row
  <2> HIDE DEF n
  <2>4. Screen(n)
    BY <2>1, <2>2, <2>3, SizesPositive DEF Screen
  <2> QED
    BY <2>4 DEF n
<1>2. CASE ~ (cy + 1 >= ROW_CNT)
  <2>1. n = [fb |-> fb, cx |-> 0, cy |-> cy + 1]
    BY <1>0, <1>2 DEF newline
  <2>2. cy + 1 \in Row /\ \A y \in Row : y > cy + 1 => y > cy
    BY <1>0, <1>2 DEF Row
  <2> HIDE DEF n
  <2>3. Screen(n)
    BY <2>1, <2>2, SizesPositive DEF Screen
  <2> QED
    BY <2>3 DEF n
<1> QED
  BY <1>1, <1>2

LEMMA WrappedScreen ==
    ASSUME NEW fb \in [Row -> Line], NEW cx \in Nat, NEW cy \in Row,
           \A y \in Row : y > cy => fb[y] = blank_row
    PROVE  Screen(wrapped([fb |-> fb, cx |-> cx, cy |-> cy]))
<1> DEFINE s == [fb |-> fb, cx |-> cx, cy |-> cy]
<1>1. CASE cx >= COL_CNT
  <2>1. wrapped(s) = newline(s)
    BY <1>1 DEF wrapped
  <2> QED
    BY <2>1, NewlineScreen
<1>2. CASE ~ (cx >= COL_CNT)
  <2>1. wrapped(s) = s
    BY <1>2 DEF wrapped
  <2>2. cx \in Column
    BY <1>2, SizesPositive DEF Column
  <2>3. Screen(s)
    BY <2>2 DEF Screen
  <2> QED
    BY <2>1, <2>3
<1> QED
  BY <1>1, <1>2

LEMMA TabColumn == ASSUME NEW cx \in Nat PROVE (cx \div TabStop + 1) * TabStop \in Nat
<1>1. TabStop \in Nat /\ TabStop > 0
  BY SizesPositive
<1> DEFINE q == cx \div TabStop
<1>2. q \in Nat
  BY <1>1
<1> HIDE DEF q
<1>3. (q + 1) * TabStop \in Nat
  BY <1>1, <1>2
<1> QED
  BY <1>3 DEF q

\* vga_putc keeps the cursor on the screen and the rows below it empty.
LEMMA WrittenScreen ==
    ASSUME NEW s, Screen(s), NEW c \in 0 .. 255
    PROVE  Screen(Written(s, c))
<1>0. /\ s = [fb |-> s.fb, cx |-> s.cx, cy |-> s.cy]
      /\ s.fb \in [Row -> Line] /\ s.cx \in Column /\ s.cy \in Row
      /\ \A y \in Row : y > s.cy => s.fb[y] = blank_row
      /\ s \in [fb : [Row -> Line], cx : Column, cy : Row]
  BY DEF Screen
<1>00. s.cx \in Nat /\ s.cx < COL_CNT
  BY <1>0, SizesPositive DEF Column
<1>1. CASE c = 10
  <2>1. Written(s, c) = newline(s)
    BY <1>1 DEF Written
  <2> QED
    BY <1>0, <2>1, NewlineScreen
<1>2. CASE c = 12
  <2>1. Written(s, c) = cls
    BY <1>2 DEF Written
  <2>2. cls = [fb |-> [y \in Row |-> blank_row], cx |-> 0, cy |-> 0]
    BY DEF cls, Row
  <2> QED
    BY <2>1, <2>2, BlankRow, SizesPositive DEF Screen
<1>3. CASE c = 8
  <2> DEFINE x == IF s.cx > 0 THEN s.cx - 1 ELSE 0
  <2>1. Written(s, c) = [s EXCEPT !.cx = x]
    BY <1>3 DEF Written
  <2>2. x \in Column
    BY <1>0, SizesPositive DEF Column
  <2> HIDE DEF x
  <2> QED
    BY <1>0, <2>1, <2>2 DEF Screen
<1>4. CASE c = 13
  <2>1. Written(s, c) = [s EXCEPT !.cx = 0]
    BY <1>4 DEF Written
  <2> QED
    BY <1>0, <2>1, SizesPositive DEF Screen
<1>5. CASE c = 9
  <2> DEFINE x == (s.cx \div TabStop + 1) * TabStop
  <2>1. Written(s, c) = wrapped([s EXCEPT !.cx = x])
    BY <1>5 DEF Written
  <2>2. x \in Nat
    BY <1>00, TabColumn
  <2> HIDE DEF x
  <2>3. [s EXCEPT !.cx = x] = [fb |-> s.fb, cx |-> x, cy |-> s.cy]
    BY <1>0
  <2> QED
    BY <1>0, <2>1, <2>2, <2>3, WrappedScreen
<1>6. CASE c = 7
  <2>1. Written(s, c) = s
    BY <1>6 DEF Written
  <2> QED
    BY <2>1
<1>7. CASE c \notin {10, 12, 8, 13, 9, 7}
  <2> DEFINE row == [s.fb[s.cy] EXCEPT ![s.cx] = c]
             fb == [s.fb EXCEPT ![s.cy] = row]
  <2>1. Written(s, c) = wrapped([s EXCEPT !.fb[s.cy][s.cx] = c, !.cx = @ + 1])
    BY <1>7 DEF Written
  <2>2. [s EXCEPT !.fb[s.cy][s.cx] = c, !.cx = @ + 1] = [fb |-> fb, cx |-> s.cx + 1, cy |-> s.cy]
    <3>1. [s EXCEPT !.fb[s.cy][s.cx] = c, !.cx = @ + 1] = [[s EXCEPT !.fb = fb] EXCEPT !.cx = s.cx + 1]
      BY <1>0
    <3> HIDE DEF fb
    <3>2. [s EXCEPT !.fb = fb] = [fb |-> fb, cx |-> s.cx, cy |-> s.cy]
      BY <1>0
    <3>3. [[fb |-> fb, cx |-> s.cx, cy |-> s.cy] EXCEPT !.cx = s.cx + 1]
             = [fb |-> fb, cx |-> s.cx + 1, cy |-> s.cy]
      OBVIOUS
    <3> QED
      BY <3>1, <3>2, <3>3, Zenon
  <2>3. row \in Line
    BY <1>0 DEF Line
  <2> HIDE DEF row
  <2>4. fb \in [Row -> Line] /\ \A y \in Row : y # s.cy => fb[y] = s.fb[y]
    BY <1>0, <2>3
  <2> HIDE DEF fb
  <2>5. \A y \in Row : y > s.cy => fb[y] = blank_row
    BY <1>0, <2>4 DEF Row
  <2>6. s.cx + 1 \in Nat
    BY <1>00
  <2> QED
    BY <1>0, <2>1, <2>2, <2>4, <2>5, <2>6, WrappedScreen
<1> QED
  BY <1>1, <1>2, <1>3, <1>4, <1>5, <1>6, <1>7
-----------------------------------------------------------------------------
(***************************************************************************)
(* The keyboard.                                                           *)
(***************************************************************************)

\* What a key stands for is a character, with Alt one of the upper half.
LEMMA KeyChar == ASSUME NEW k \in DOMAIN Keymap PROVE key_char(k) \in 0 .. 255
<1> DEFINE c == map_key(k)
           d == IF On("ctrl") /\ c \in 64 .. 95 THEN c - 64
                ELSE IF On("shift") = tm_caps THEN tolower(c) ELSE c
<1>1. c \in 0 .. 127
  BY TerminalAssumption DEF map_key
<1> HIDE DEF c
<1>2. tolower(c) \in 0 .. 127
  BY <1>1 DEF tolower
<1>3. d \in 0 .. 127
  <2>1. CASE On("ctrl") /\ c \in 64 .. 95
    BY <1>1, <2>1
  <2>2. CASE ~ (On("ctrl") /\ c \in 64 .. 95)
    BY <1>1, <1>2, <2>2
  <2> QED
    BY <2>1, <2>2
<1>4. key_char(k) = IF On("alt") THEN d + 128 ELSE d
  BY DEF key_char, c
<1> HIDE DEF d
<1> QED
  BY <1>3, <1>4

TerminalInv == TerminalSound /\ tm_cursor = <<tm_cursor[1], tm_cursor[2]>>

LEMMA PutcStep ==
    ASSUME TerminalInv, NEW c \in Printed, vga_putc(c)
    PROVE  TerminalInv'
<1> DEFINE s == [fb |-> tm_fb, cx |-> tm_cursor[1], cy |-> tm_cursor[2]]
           w == Written(s, c)
<1>1. Screen(s)
  BY SMTT(20) DEF TerminalInv, TerminalSound, TerminalTypeOK, Screen, Row, Column, Line
<1>2. Screen(w)
  BY <1>1, WrittenScreen, TerminalAssumption
<1>3. /\ tm_fb' = w.fb /\ tm_cursor' = <<w.cx, w.cy>> /\ tm_hw' = w.cx + COL_CNT * w.cy
      /\ UNCHANGED <<tm_down, tm_state, tm_caps, tm_typed>>
  BY DEF vga_putc
<1> HIDE DEF w
<1>4. /\ w.fb \in [Row -> Line] /\ w.cx \in Column /\ w.cy \in Row
      /\ \A y \in Row : y > w.cy => w.fb[y] = blank_row
  BY <1>2 DEF Screen
<1>5. tm_cursor'[1] = w.cx /\ tm_cursor'[2] = w.cy
  BY <1>3
<1>6. TerminalTypeOK'
  BY <1>3, <1>4 DEF TerminalInv, TerminalSound, TerminalTypeOK, Row, Column, Line
<1>7. blank_row' = blank_row
  BY DEF blank_row
<1>8. \A y \in tm_cursor'[2] + 1 .. ROW_CNT - 1 : tm_fb'[y] = blank_row
  <2>1. \A y \in w.cy + 1 .. ROW_CNT - 1 : y \in Row /\ y > w.cy
    BY <1>4, SizesPositive DEF Row
  <2> QED
    BY <1>3, <1>4, <1>5, <2>1
<1>9. tm_cursor' = <<tm_cursor'[1], tm_cursor'[2]>> /\ tm_hw' = tm_cursor'[1] + COL_CNT * tm_cursor'[2]
  BY <1>3, <1>5
<1> QED
  BY <1>3, <1>4, <1>5, <1>6, <1>7, <1>8, <1>9 DEF TerminalInv, TerminalSound, Row, Column

\* The keys that count as held, if those of D are down.
HeldOf(D) == {k \in D : k \in DOMAIN ShiftKeys /\ ShiftKeys[k] # "caps"}

LEMMA KeyStep ==
    ASSUME TerminalInv, NEW k \in DOMAIN Keymap \cup DOMAIN ShiftKeys,
           NEW release \in BOOLEAN, NEW full \in BOOLEAN, keyboard_interrupt(k, release, full)
    PROVE  TerminalInv'
<1>0. /\ tm_state = HeldOf(tm_down) /\ tm_state \subseteq DOMAIN ShiftKeys
      /\ tm_caps \in BOOLEAN /\ tm_typed \in 0 .. 255
  BY DEF TerminalInv, TerminalSound, TerminalTypeOK, HeldOf
<1>1. /\ UNCHANGED <<tm_fb, tm_cursor, tm_hw>>
      /\ tm_down' = IF release THEN tm_down \ {k} ELSE tm_down \cup {k}
  BY DEF keyboard_interrupt
<1>2. CASE k \in DOMAIN ShiftKeys /\ ShiftKeys[k] = "caps"
  <2>1. tm_caps' = (IF release THEN tm_caps ELSE ~ tm_caps) /\ UNCHANGED <<tm_state, tm_typed>>
    BY <1>2 DEF keyboard_interrupt
  <2>2. HeldOf(tm_down') = HeldOf(tm_down)
    BY <1>1, <1>2 DEF HeldOf
  <2>3. tm_caps' \in BOOLEAN
    BY <1>0, <2>1
  <2> QED
    BY <1>0, <1>1, <2>1, <2>2, <2>3
       DEF TerminalInv, TerminalSound, TerminalTypeOK, HeldOf, blank_row
<1>3. CASE ~ (k \in DOMAIN ShiftKeys /\ ShiftKeys[k] = "caps") /\ k \in DOMAIN Keymap
  <2>1. /\ tm_typed' = (IF release \/ full THEN tm_typed ELSE key_char(k))
        /\ UNCHANGED <<tm_state, tm_caps>>
    BY <1>3 DEF keyboard_interrupt
  <2>2. k \notin DOMAIN ShiftKeys
    BY <1>3, TerminalAssumption
  <2>3. HeldOf(tm_down') = HeldOf(tm_down)
    BY <1>1, <2>2 DEF HeldOf
  <2>4. tm_typed' \in 0 .. 255
    BY <1>0, <1>3, <2>1, KeyChar
  <2> QED
    BY <1>0, <1>1, <2>1, <2>3, <2>4
       DEF TerminalInv, TerminalSound, TerminalTypeOK, HeldOf, blank_row
<1>4. CASE ~ (k \in DOMAIN ShiftKeys /\ ShiftKeys[k] = "caps") /\ k \notin DOMAIN Keymap
  <2>1. tm_state' = held(k, release) /\ UNCHANGED <<tm_caps, tm_typed>>
    BY <1>4 DEF keyboard_interrupt
  <2>2. k \in DOMAIN ShiftKeys /\ ShiftKeys[k] # "caps"
    BY <1>4
  <2>3. tm_state' = HeldOf(tm_down') /\ tm_state' \subseteq DOMAIN ShiftKeys
    BY <1>0, <1>1, <2>1, <2>2 DEF HeldOf, held
  <2> QED
    BY <1>0, <1>1, <2>1, <2>3
       DEF TerminalInv, TerminalSound, TerminalTypeOK, HeldOf, blank_row
<1> QED
  BY <1>2, <1>3, <1>4

\* For every size of the screen: the cursor never leaves it, however lines wrap and
\* scroll, and the kernel never takes a shift key for pressed that is not, or the
\* other way round.
THEOREM TerminalStaysSound == TerminalSpec => []TerminalSound
<1>1. TerminalInit => TerminalInv
  <2> SUFFICES ASSUME TerminalInit PROVE TerminalInv
    OBVIOUS
  <2>1. PICK z \in 0 .. ROW_CNT - 1 : tm_cursor = <<0, z>>
    BY DEF TerminalInit
  <2>2. tm_cursor[1] = 0 /\ tm_cursor[2] = z /\ tm_cursor = <<tm_cursor[1], tm_cursor[2]>>
    BY <2>1
  <2>3. tm_fb = [y \in Row |-> IF y < z THEN [x \in Column |-> 35] ELSE blank_row]
    BY <2>2 DEF TerminalInit, Row, Column
  <2>4. tm_fb \in [Row -> Line]
    <3>1. [x \in Column |-> 35] \in Line
      BY DEF Line
    <3> QED
      BY <2>3, <3>1, BlankRow
  <2>5. TerminalTypeOK
    <3>1. tm_caps = FALSE /\ tm_state = {} /\ tm_typed = 0
      BY DEF TerminalInit
    <3>2. tm_caps \in BOOLEAN
      BY <3>1
    <3>3. tm_state \subseteq DOMAIN ShiftKeys /\ tm_typed \in 0 .. 255
      BY <3>1
    <3> QED
      BY <2>4, <3>2, <3>3 DEF TerminalTypeOK, Row, Column, Line
  <2>6. \A y \in tm_cursor[2] + 1 .. ROW_CNT - 1 : tm_fb[y] = blank_row
    <3>1. \A y \in z + 1 .. ROW_CNT - 1 : y \in Row /\ ~ (y < z)
      BY <2>1, SizesPositive DEF Row
    <3> QED
      BY <2>2, <2>3, <3>1
  <2>7. tm_hw = tm_cursor[1] + COL_CNT * tm_cursor[2]
    <3>1. tm_hw = COL_CNT * z
      BY <2>2 DEF TerminalInit
    <3>2. COL_CNT * z \in Int
      BY <2>1, SizesPositive
    <3> QED
      BY <2>2, <3>1, <3>2
  <2>8. tm_cursor[1] \in 0 .. COL_CNT - 1 /\ tm_cursor[2] \in 0 .. ROW_CNT - 1
    BY <2>1, <2>2, SizesPositive
  <2>9. tm_state = {k \in tm_down : k \in DOMAIN ShiftKeys /\ ShiftKeys[k] # "caps"}
    BY DEF TerminalInit
  <2> QED
    BY <2>2, <2>5, <2>6, <2>7, <2>8, <2>9 DEF TerminalInv, TerminalSound
<1>2. TerminalInv /\ [TerminalNext]_terminalVars => TerminalInv'
  <2> SUFFICES ASSUME TerminalInv, [TerminalNext]_terminalVars PROVE TerminalInv'
    OBVIOUS
  <2>1. CASE UNCHANGED terminalVars
    <3>1. blank_row' = blank_row
      BY DEF blank_row
    <3> QED
      BY <2>1, <3>1 DEF terminalVars, TerminalInv, TerminalSound, TerminalTypeOK
  <2> QED
    BY <2>1, PutcStep, KeyStep DEF TerminalNext
<1>3. TerminalInv => TerminalSound
  BY DEF TerminalInv
<1> QED
  BY <1>1, <1>2, <1>3, PTL DEF TerminalSpec
-----------------------------------------------------------------------------
(***************************************************************************)
(* The routers.                                                            *)
(***************************************************************************)

FrameType == {"SYN", "SYNACK", "ACK", "OPEN", "KEEPALIVE", "UPDATE"}
Interface == [current_state : BgpState, RTO : 0 .. MAX_RTO, CRT : 0 .. MAX_CRT, HT : 0 .. MAX_HT,
         syn_sent : BOOLEAN, synAck_sent : BOOLEAN]
RelationType == {"CUSTOMER", "PEER", "PROVIDER"}
BgpRoute == [ases : Seq(Router), dest : Prefix]
BgpPath == [ases : Seq(Router), dest : Prefix, via : Router,
         advertiser : RelationType \cup {"MYASSET"},
         priority : {0, 80, 90, 100} \cup BgpPriority]
BgpFrame == [type : FrameType, withdrawn : {<<>>} \cup Prefix, routes : Seq(BgpRoute)]

\* A path of r to dest that ends at an owner of dest, or at one of the liars L, and
\* on which nobody carries traffic between two providers or two peers.
SoundRoute(L, r, ases, dest) ==
    /\ Len(ases) >= 1 /\ ases[1] = r
    /\ \A i, j \in 1 .. Len(ases) : ases[i] = ases[j] => i = j
    /\ \A i \in 1 .. Len(ases) - 1 : ases[i + 1] \in Neighbours(ases[i])
    /\ dest \in ToSet(bgp_top.asset[ases[Len(ases)]]) \/ <<ases[Len(ases)], dest>> \in L
    /\ \A i \in 2 .. Len(ases) - 1 :
          \/ Relation(ases[i], ases[i - 1]) # Relation(ases[i], ases[i + 1])
          \/ Relation(ases[i], ases[i - 1]) = "CUSTOMER"

\* A path that r keeps was learned from the next router on it.
PathOK(L, r, p) ==
    /\ SoundRoute(L, r, p.ases, p.dest)
    /\ p.via \in Neighbours(r)
    /\ Len(p.ases) >= 2 => p.via = p.ases[2] /\ p.advertiser = Relation(r, p.ases[2])
PathsOK(L, r, known) ==
    /\ known \in Seq(BgpPath)
    /\ \A i \in 1 .. Len(known) : PathOK(L, r, known[i])
    /\ \A i, j \in 1 .. Len(known) : known[i].dest = known[j].dest =>
          known[i].ases[Len(known[i].ases)] = known[j].ases[Len(known[j].ases)]

\* A route that n advertises to r is one that n may carry traffic to for r, unless
\* r is on it itself.
RouteOK(L, n, r, route) ==
    /\ SoundRoute(L, n, route.ases, route.dest)
    /\ Len(route.ases) >= 2 =>
          \/ route.ases[2] = r
          \/ Relation(n, r) = "CUSTOMER"
          \/ Relation(n, r) # Relation(n, route.ases[2])
UpdateOK(L, n, r, f) ==
    /\ f.withdrawn # <<>> => f.routes = <<>>
    /\ \A i \in 1 .. Len(f.routes) : RouteOK(L, n, r, f.routes[i])
LinkOK(L, n, r, frames) ==
    /\ frames \in Seq(BgpFrame)
    /\ \A i \in 1 .. Len(frames) : UpdateOK(L, n, r, frames[i])

BgpInv ==
    /\ bgp_top \in Topology /\ bgp_typed \in 0 .. bgp_top.lines
    /\ bgp_if \in [Direction(bgp_top) -> Interface]
    /\ DOMAIN bgp_paths = Router /\ \A r \in Router : PathsOK(bgp_liars, r, bgp_paths[r])
    /\ DOMAIN bgp_link = Direction(bgp_top)
    /\ \A d \in Direction(bgp_top) : LinkOK(bgp_liars, d[1], d[2], bgp_link[d])
-----------------------------------------------------------------------------
LEMMA TopologyFacts ==
    ASSUME bgp_top \in Topology
    PROVE  /\ \A r \in Router : /\ Neighbours(r) \subseteq Router
                                /\ bgp_top.neighbour[r] \in Seq(Router)
                                /\ bgp_top.neighbour[r] # <<>>
                                /\ bgp_top.asset[r] \in Seq(ToSet(bgp_top.asset[r]))
           /\ \A r \in Router : \A n \in Neighbours(r) :
                 /\ r \in Neighbours(n) /\ Relation(r, n) \in RelationType
           /\ \A d : d \in Direction(bgp_top) <=>
                        \E r \in Router, n \in Router : d = <<r, n>> /\ n \in Neighbours(r)
           /\ bgp_top.lines \in Nat
<1>1. TopologyOK(bgp_top)
  BY BgpAssumption
<1>2. \A r \in Router : /\ bgp_top.neighbour[r] \in Seq(Router)
                        /\ bgp_top.neighbour[r] # <<>>
                        /\ bgp_top.asset[r] \in Seq(ToSet(bgp_top.asset[r]))
  BY <1>1 DEF TopologyOK, Router
<1>3. \A r \in Router : Neighbours(r) \subseteq Router
  <2> TAKE r \in Router
  <2> DEFINE q == bgp_top.neighbour[r]
  <2>1. q \in Seq(Router) /\ DOMAIN q = 1 .. Len(q) /\ \A i \in 1 .. Len(q) : q[i] \in Router
    BY <1>2, ElementOfSeq, LenProperties
  <2> QED
    BY <2>1 DEF Neighbours, ToSet
<1>4. \A r \in Router : \A n \in Neighbours(r) :
          r \in Neighbours(n) /\ Relation(r, n) \in RelationType
  BY <1>1 DEF TopologyOK, Router, Neighbours, Relation, RelationType
<1>5. \A d : d \in Direction(bgp_top) <=>
                 \E r \in Router, n \in Router : d = <<r, n>> /\ n \in Neighbours(r)
  BY DEF Direction, Router, Neighbours
<1>6. bgp_top.lines \in Nat
  BY <1>1 DEF TopologyOK
<1> QED
  BY <1>2, <1>3, <1>4, <1>5, <1>6

\* More liars make no path worse.
LEMMA MoreLiars ==
    ASSUME NEW L, NEW M, L \subseteq M, NEW r, NEW known, NEW n, NEW frames
    PROVE  /\ PathsOK(L, r, known) => PathsOK(M, r, known)
           /\ LinkOK(L, n, r, frames) => LinkOK(M, n, r, frames)
<1>1. \A q, ases, dest : SoundRoute(L, q, ases, dest) => SoundRoute(M, q, ases, dest)
  BY DEF SoundRoute
<1>2. PathsOK(L, r, known) => PathsOK(M, r, known)
  BY <1>1 DEF PathsOK, PathOK
<1>3. LinkOK(L, n, r, frames) => LinkOK(M, n, r, frames)
  BY <1>1 DEF LinkOK, UpdateOK, RouteOK
<1> QED
  BY <1>2, <1>3

\* The topology stays.
LEMMA TopologyStays ==
    ASSUME bgp_top' = bgp_top
    PROVE  /\ Router' = Router /\ Prefix' = Prefix /\ Direction(bgp_top)' = Direction(bgp_top)
           /\ \A L, r, known : PathsOK(L, r, known) => PathsOK(L, r, known)'
           /\ \A L, n, r, frames : LinkOK(L, n, r, frames) => LinkOK(L, n, r, frames)'
<1>1. Router' = Router /\ Direction(bgp_top)' = Direction(bgp_top)
  BY DEF Router, Direction
<1>2. Prefix' = Prefix
  BY <1>1 DEF Prefix
<1>3. \A r : Neighbours(r)' = Neighbours(r)
  BY DEF Neighbours
<1>4. \A r, n : Relation(r, n)' = Relation(r, n)
  BY DEF Relation
<1>5. \A L, r, ases, dest : SoundRoute(L, r, ases, dest) => SoundRoute(L, r, ases, dest)'
  BY <1>3, <1>4 DEF SoundRoute
<1>6. BgpPath' = BgpPath /\ BgpFrame' = BgpFrame
  BY <1>1, <1>2 DEF BgpPath, BgpFrame, BgpRoute
<1>7. ASSUME NEW L, NEW r, NEW known, PathsOK(L, r, known) PROVE PathsOK(L, r, known)'
  BY <1>3, <1>4, <1>5, <1>6, <1>7 DEF PathsOK, PathOK
<1>8. ASSUME NEW L, NEW n, NEW r, NEW frames, LinkOK(L, n, r, frames)
      PROVE  LinkOK(L, n, r, frames)'
  BY <1>4, <1>5, <1>6, <1>8 DEF LinkOK, UpdateOK, RouteOK
<1> QED
  BY <1>1, <1>2, <1>7, <1>8

LEMMA BgpStep ==
    ASSUME BgpInv, bgp_top' = bgp_top, bgp_typed' \in 0 .. bgp_top.lines,
           bgp_if' \in [Direction(bgp_top) -> Interface],
           DOMAIN bgp_paths' = Router, \A r \in Router : PathsOK(bgp_liars', r, bgp_paths'[r]),
           DOMAIN bgp_link' = Direction(bgp_top),
           \A d \in Direction(bgp_top) : LinkOK(bgp_liars', d[1], d[2], bgp_link'[d])
    PROVE  BgpInv'
<1>1. \A r \in Router' : PathsOK(bgp_liars, r, bgp_paths[r])'
  BY TopologyStays
<1>2. \A d \in Direction(bgp_top)' : LinkOK(bgp_liars, d[1], d[2], bgp_link[d])'
  BY TopologyStays
<1> QED
  BY <1>1, <1>2, TopologyStays DEF BgpInv, Interface

-----------------------------------------------------------------------------
\* The frames of a link.
LEMMA LinkFacts ==
    ASSUME NEW L, NEW n, NEW r
    PROVE  /\ LinkOK(L, n, r, <<>>)
           /\ \A a, b : LinkOK(L, n, r, a) /\ LinkOK(L, n, r, b) => LinkOK(L, n, r, a \o b)
           /\ \A a : LinkOK(L, n, r, a) /\ a # <<>> =>
                 /\ LinkOK(L, n, r, Tail(a))
                 /\ Head(a) \in BgpFrame /\ UpdateOK(L, n, r, Head(a))
           /\ \A f \in BgpFrame : UpdateOK(L, n, r, f) => LinkOK(L, n, r, <<f>>)
           /\ \A a, f : LinkOK(L, n, r, a) /\ f \in BgpFrame /\ UpdateOK(L, n, r, f) =>
                 LinkOK(L, n, r, Append(a, f))
           /\ \A f, g \in BgpFrame : UpdateOK(L, n, r, f) /\ UpdateOK(L, n, r, g) =>
                 LinkOK(L, n, r, <<f, g>>)
<1>1. LinkOK(L, n, r, <<>>)
  BY DEF LinkOK
<1>2. ASSUME NEW a, NEW b, LinkOK(L, n, r, a), LinkOK(L, n, r, b)
      PROVE  LinkOK(L, n, r, a \o b)
  <2> DEFINE c == a \o b
  <2>1. a \in Seq(BgpFrame) /\ b \in Seq(BgpFrame)
    BY <1>2 DEF LinkOK
  <2>2. /\ c \in Seq(BgpFrame) /\ Len(c) = Len(a) + Len(b)
        /\ Len(a) \in Nat /\ Len(b) \in Nat
        /\ \A i \in 1 .. Len(c) : c[i] = IF i <= Len(a) THEN a[i] ELSE b[i - Len(a)]
    BY <2>1, ConcatProperties, LenProperties
  <2> HIDE DEF c
  <2>3. \A i \in 1 .. Len(c) : UpdateOK(L, n, r, c[i])
    <3> TAKE i \in 1 .. Len(c)
    <3>1. CASE i <= Len(a)
      BY <1>2, <2>2, <3>1 DEF LinkOK
    <3>2. CASE ~ i <= Len(a)
      <4>1. i - Len(a) \in 1 .. Len(b) /\ c[i] = b[i - Len(a)]
        BY <2>2, <3>2
      <4> QED
        BY <1>2, <4>1 DEF LinkOK
    <3> QED
      BY <3>1, <3>2
  <2>4. LinkOK(L, n, r, c)
    BY <2>2, <2>3 DEF LinkOK
  <2> QED
    BY <2>4 DEF c
<1>3. ASSUME NEW a, LinkOK(L, n, r, a), a # <<>>
      PROVE  /\ LinkOK(L, n, r, Tail(a))
             /\ Head(a) \in BgpFrame /\ UpdateOK(L, n, r, Head(a))
  <2>1. a \in Seq(BgpFrame) /\ \A i \in 1 .. Len(a) : UpdateOK(L, n, r, a[i])
    BY <1>3 DEF LinkOK
  <2>2. /\ Head(a) = a[1] /\ Head(a) \in BgpFrame /\ 1 \in 1 .. Len(a)
        /\ Tail(a) \in Seq(BgpFrame) /\ Len(Tail(a)) = Len(a) - 1 /\ Len(a) \in Nat
        /\ \A i \in 1 .. Len(Tail(a)) : Tail(a)[i] = a[i + 1]
    BY <1>3, <2>1, HeadTailProperties, LenProperties, EmptySeq
  <2>3. \A i \in 1 .. Len(Tail(a)) : i + 1 \in 1 .. Len(a)
    BY <2>2
  <2>4. \A i \in 1 .. Len(Tail(a)) : UpdateOK(L, n, r, Tail(a)[i])
    BY <2>1, <2>2, <2>3
  <2> QED
    BY <2>1, <2>2, <2>4 DEF LinkOK
<1>4. ASSUME NEW f \in BgpFrame, UpdateOK(L, n, r, f) PROVE LinkOK(L, n, r, <<f>>)
  <2>1. <<f>> \in Seq(BgpFrame) /\ Len(<<f>>) = 1 /\ <<f>>[1] = f
    OBVIOUS
  <2>2. \A i \in 1 .. 1 : i = 1
    OBVIOUS
  <2> QED
    BY <1>4, <2>1, <2>2 DEF LinkOK
<1>5. \A a, f : LinkOK(L, n, r, a) /\ f \in BgpFrame => Append(a, f) = a \o <<f>>
  BY DEF LinkOK
<1>6. ASSUME NEW f \in BgpFrame, NEW g \in BgpFrame, UpdateOK(L, n, r, f), UpdateOK(L, n, r, g)
      PROVE  LinkOK(L, n, r, <<f, g>>)
  <2>1. /\ <<f, g>> \in Seq(BgpFrame) /\ Len(<<f, g>>) = 2
        /\ <<f, g>>[1] = f /\ <<f, g>>[2] = g
    OBVIOUS
  <2>2. \A i \in 1 .. 2 : i = 1 \/ i = 2
    OBVIOUS
  <2> QED
    BY <1>6, <2>1, <2>2 DEF LinkOK
<1> QED
  BY <1>1, <1>2, <1>3, <1>4, <1>5, <1>6

\* A frame of the handshake has no route.
LEMMA HandshakeFrame ==
    ASSUME NEW L, NEW n, NEW r, NEW type \in FrameType
    PROVE  /\ Bgp(type) \in BgpFrame /\ UpdateOK(L, n, r, Bgp(type))
           /\ LinkOK(L, n, r, <<Bgp(type)>>)
<1>1. Bgp(type) \in BgpFrame /\ UpdateOK(L, n, r, Bgp(type))
  BY DEF Bgp, BgpFrame, UpdateOK
<1> QED
  BY <1>1, LinkFacts

\* A list of paths from which some were erased.
LEMMA ChosenPaths ==
    ASSUME NEW L, NEW r, NEW known, PathsOK(L, r, known), NEW I
    PROVE  PathsOK(L, r, Chosen(known, I))
<1> DEFINE left == Chosen(known, I)
<1>1. known \in Seq(BgpPath)
  BY DEF PathsOK
<1>2. /\ left \in Seq(BgpPath)
      /\ \A i \in 1 .. Len(left) : \E j \in 1 .. Len(known) : left[i] = known[j]
  <2> HIDE DEF left
  <2>1. /\ Chosen(known, I) \in Seq(BgpPath)
        /\ \A i \in 1 .. Len(Chosen(known, I)) :
              \E j \in 1 .. Len(known) : j \in I /\ Chosen(known, I)[i] = known[j]
    BY ONLY <1>1, ChosenFrom, SMTT(20)
  <2> QED
    BY <2>1 DEF left
<1> HIDE DEF left
<1>3. \A i \in 1 .. Len(left) : PathOK(L, r, left[i])
  BY <1>2 DEF PathsOK
<1>4. \A i, j \in 1 .. Len(left) : left[i].dest = left[j].dest =>
          left[i].ases[Len(left[i].ases)] = left[j].ases[Len(left[j].ases)]
  <2> TAKE i, j \in 1 .. Len(left)
  <2>1. PICK k \in 1 .. Len(known) : left[i] = known[k]
    BY <1>2
  <2>2. PICK l \in 1 .. Len(known) : left[j] = known[l]
    BY <1>2
  <2> QED
    BY <2>1, <2>2 DEF PathsOK
<1>5. PathsOK(L, r, left)
  BY <1>2, <1>3, <1>4 DEF PathsOK
<1> QED
  BY <1>5 DEF left

\* The path that r makes of a route that n advertised.
Learned(r, n, route) ==
    [ases |-> <<r>> \o route.ases, dest |-> route.dest, via |-> n,
     advertiser |-> Relation(r, n), priority |-> get_if_priority(Relation(r, n))]

LEMMA LearnedPath ==
    ASSUME bgp_top \in Topology, NEW L, NEW r \in Router, NEW n \in Neighbours(r),
           NEW route \in BgpRoute, RouteOK(L, n, r, route), ~ detect_loop(r, route.ases)
    PROVE  LET p == Learned(r, n, route)
           IN  /\ p \in BgpPath /\ PathOK(L, r, p) /\ p.dest = route.dest
               /\ p.ases[Len(p.ases)] = route.ases[Len(route.ases)]
<1> DEFINE p == Learned(r, n, route)
           old == route.ases
           ases == <<r>> \o old
<1>0. /\ n \in Router /\ r \in Neighbours(n) /\ Relation(r, n) \in RelationType
      /\ old \in Seq(Router) /\ Len(old) \in Nat /\ route.dest \in Prefix
      /\ \A i \in 1 .. Len(old) : old[i] \in Router
  BY TopologyFacts, ElementOfSeq, LenProperties DEF BgpRoute
<1>1. /\ Len(old) >= 1 /\ old[1] = n
      /\ \A i, j \in 1 .. Len(old) : old[i] = old[j] => i = j
      /\ \A i \in 1 .. Len(old) - 1 : old[i + 1] \in Neighbours(old[i])
      /\ route.dest \in ToSet(bgp_top.asset[old[Len(old)]]) \/ <<old[Len(old)], route.dest>> \in L
      /\ \A i \in 2 .. Len(old) - 1 :
            \/ Relation(old[i], old[i - 1]) # Relation(old[i], old[i + 1])
            \/ Relation(old[i], old[i - 1]) = "CUSTOMER"
  BY DEF RouteOK, SoundRoute
<1>2. \A i \in 1 .. Len(old) : old[i] # r
  <2>1. DOMAIN old = 1 .. Len(old)
    BY <1>0, LenProperties
  <2> QED
    BY <2>1 DEF detect_loop, ToSet
<1>3. Len(old) >= 2 => \/ Relation(n, r) = "CUSTOMER"
                       \/ Relation(n, r) # Relation(n, old[2])
  <2>1. Len(old) >= 2 => old[2] # r
    BY <1>0, <1>2
  <2> QED
    BY <2>1 DEF RouteOK
<1>4. /\ ases \in Seq(Router) /\ Len(ases) = Len(old) + 1 /\ ases[1] = r
      /\ \A i \in 1 .. Len(old) : ases[i + 1] = old[i]
      /\ \A i \in 2 .. Len(ases) : ases[i] = old[i - 1] /\ i - 1 \in 1 .. Len(old)
  <2>1. <<r>> \in Seq(Router) /\ Len(<<r>>) = 1 /\ <<r>>[1] = r
    OBVIOUS
  <2>2. /\ ases \in Seq(Router) /\ Len(ases) = Len(old) + 1
        /\ \A i \in 1 .. Len(ases) : ases[i] = IF i <= 1 THEN <<r>>[i] ELSE old[i - 1]
    BY <1>0, <2>1, ConcatProperties
  <2> HIDE DEF ases, old
  <2>3. \A i \in 2 .. Len(ases) : i - 1 \in 1 .. Len(old) /\ i \in 1 .. Len(ases) /\ ~ i <= 1
    BY <1>0, <2>2
  <2>4. \A i \in 1 .. Len(old) : i + 1 \in 2 .. Len(ases) /\ (i + 1) - 1 = i
    BY <1>0, <2>2
  <2>5. \A i \in 2 .. Len(ases) : ases[i] = old[i - 1]
    BY <2>2, <2>3
  <2>6. ases[1] = r
    BY <1>0, <2>1, <2>2
  <2>7. \A i \in 1 .. Len(old) : ases[i + 1] = old[i]
    BY <2>4, <2>5
  <2> QED
    BY <2>2, <2>3, <2>5, <2>6, <2>7
<1> HIDE DEF ases, old
<1>5. \A i, j \in 1 .. Len(ases) : ases[i] = ases[j] => i = j
  <2>1. \A i \in 1 .. Len(ases) : i = 1 \/ i \in 2 .. Len(ases)
    BY <1>0, <1>4
  <2>2. \A i \in 2 .. Len(ases) : ases[i] # r /\ ases[1] = r
    BY <1>2, <1>4
  <2>3. \A i, j \in 2 .. Len(ases) : ases[i] = ases[j] => i = j
    <3> TAKE i, j \in 2 .. Len(ases)
    <3>1. /\ ases[i] = old[i - 1] /\ i - 1 \in 1 .. Len(old)
          /\ ases[j] = old[j - 1] /\ j - 1 \in 1 .. Len(old)
      BY <1>4
    <3>2. ases[i] = ases[j] => i - 1 = j - 1
      BY <1>1, <3>1
    <3> QED
      BY <3>2
  <2> QED
    BY <2>1, <2>2, <2>3
<1>6. \A i \in 1 .. Len(ases) - 1 : ases[i + 1] \in Neighbours(ases[i])
  <2> TAKE i \in 1 .. Len(ases) - 1
  <2>1. i \in 1 .. Len(old) /\ ases[i + 1] = old[i]
    BY <1>0, <1>4
  <2>2. CASE i = 1
    BY <1>1, <1>4, <2>1, <2>2
  <2>3. CASE i # 1
    <3>1. i - 1 \in 1 .. Len(old) - 1 /\ (i - 1) + 1 = i /\ ases[i] = old[i - 1]
      BY <1>0, <1>4, <2>1, <2>3
    <3> QED
      BY <1>1, <2>1, <3>1
  <2> QED
    BY <2>2, <2>3
<1>7. ases[Len(ases)] = old[Len(old)]
  BY <1>0, <1>1, <1>4
<1>8. \A i \in 2 .. Len(ases) - 1 :
          \/ Relation(ases[i], ases[i - 1]) # Relation(ases[i], ases[i + 1])
          \/ Relation(ases[i], ases[i - 1]) = "CUSTOMER"
  <2> TAKE i \in 2 .. Len(ases) - 1
  <2>1. i \in 1 .. Len(old) /\ ases[i + 1] = old[i] /\ ases[i] = old[i - 1]
    BY <1>0, <1>4
  <2>2. CASE i = 2
    BY <1>0, <1>1, <1>3, <1>4, <2>1, <2>2
  <2>3. CASE i # 2
    <3>1. /\ i - 1 \in 2 .. Len(old) - 1 /\ (i - 1) + 1 = i
          /\ ases[i - 1] = old[(i - 1) - 1]
      BY <1>0, <1>4, <2>1, <2>3
    <3> QED
      BY <1>1, <2>1, <3>1
  <2> QED
    BY <2>2, <2>3
<1>9. SoundRoute(L, r, ases, route.dest)
  BY <1>0, <1>1, <1>4, <1>5, <1>6, <1>7, <1>8 DEF SoundRoute
<1>10. ases[2] = n
  BY <1>0, <1>1, <1>4
<1>11. get_if_priority(Relation(r, n)) \in {0, 80, 90, 100}
  BY <1>0 DEF RelationType, get_if_priority
<1>12. p.ases = ases /\ p.dest = route.dest /\ p.via = n /\ p.advertiser = Relation(r, n)
  BY DEF ases, old, Learned
<1>13. p \in BgpPath
  BY <1>0, <1>4, <1>11 DEF BgpPath, Learned, ases, old
<1>14. PathOK(L, r, p)
  BY <1>9, <1>10, <1>12 DEF PathOK
<1> QED
  BY <1>7, <1>12, <1>13, <1>14 DEF old

\* One advertised route (take_route).
LEMMA RouteTaken ==
    ASSUME bgp_top \in Topology, NEW L, NEW r \in Router, NEW n \in Neighbours(r),
           NEW known, PathsOK(L, r, known), NEW route \in BgpRoute, RouteOK(L, n, r, route)
    PROVE  PathsOK(L, r, take_route(r, n, known, route))
<1> DEFINE p == Learned(r, n, route)
           more == Append(known, p)
<1>1. take_route(r, n, known, route) = known \/ take_route(r, n, known, route) = more
  BY DEF take_route, Learned
<1>2. SUFFICES ASSUME take_route(r, n, known, route) = more, more # known
               PROVE  PathsOK(L, r, more)
  BY <1>1
<1>3. ~ detect_loop(r, route.ases) /\ ~ detect_thief(known, route.ases, route.dest)
  BY <1>2 DEF take_route
<1>5. /\ p \in BgpPath /\ PathOK(L, r, p) /\ p.dest = route.dest
      /\ p.ases[Len(p.ases)] = route.ases[Len(route.ases)]
  BY <1>3, LearnedPath
<1> HIDE DEF p
<1>6. /\ more \in Seq(BgpPath) /\ Len(more) = Len(known) + 1 /\ Len(known) \in Nat
      /\ \A i \in 1 .. Len(known) : more[i] = known[i]
      /\ more[Len(known) + 1] = p
  BY <1>5, AppendProperties, LenProperties DEF PathsOK
<1>7. \A i \in 1 .. Len(more) : i \in 1 .. Len(known) \/ i = Len(known) + 1
  BY <1>6
<1>8. \A i \in 1 .. Len(known) : known[i].dest = p.dest =>
          known[i].ases[Len(known[i].ases)] = p.ases[Len(p.ases)]
  <2>1. DOMAIN known = 1 .. Len(known)
    BY LenProperties DEF PathsOK
  <2> QED
    BY <1>3, <1>5, <2>1 DEF detect_thief, ToSet, Last
<1> HIDE DEF more
<1>9. \A i \in 1 .. Len(more) : PathOK(L, r, more[i])
  BY <1>5, <1>6, <1>7 DEF PathsOK
<1>10. \A i, j \in 1 .. Len(more) : more[i].dest = more[j].dest =>
          more[i].ases[Len(more[i].ases)] = more[j].ases[Len(more[j].ases)]
  <2> TAKE i, j \in 1 .. Len(more)
  <2>1. CASE i \in 1 .. Len(known) /\ j \in 1 .. Len(known)
    <3>1. more[i] = known[i] /\ more[j] = known[j]
      BY <1>6, <2>1
    <3>2. \A k, l \in 1 .. Len(known) : known[k].dest = known[l].dest =>
              known[k].ases[Len(known[k].ases)] = known[l].ases[Len(known[l].ases)]
      BY DEF PathsOK
    <3> QED
      BY <2>1, <3>1, <3>2
  <2>2. CASE i = Len(known) + 1 /\ j \in 1 .. Len(known)
    BY <1>6, <1>8, <2>2
  <2>3. CASE j = Len(known) + 1 /\ i \in 1 .. Len(known)
    BY <1>6, <1>8, <2>3
  <2>4. CASE i = Len(known) + 1 /\ j = Len(known) + 1
    BY <2>4
  <2> QED
    BY <1>7, <2>1, <2>2, <2>3, <2>4
<1> QED
  BY <1>6, <1>9, <1>10 DEF PathsOK

\* The first n routes of an advertisement (handle_advertisement).
TakenUpTo(r, n, known, routes, f, k) ==
    f = [i \in 0 .. k |-> IF i = 0 THEN known ELSE take_route(r, n, f[i - 1], routes[i])]

LEMMA AdvertisementTaken ==
    ASSUME bgp_top \in Topology, NEW L, NEW r \in Router, NEW n \in Neighbours(r),
           NEW known, PathsOK(L, r, known),
           NEW routes \in Seq(BgpRoute), \A i \in 1 .. Len(routes) : RouteOK(L, n, r, routes[i])
    PROVE  PathsOK(L, r, handle_advertisement(r, n, known, routes))
<1> DEFINE D == {k \in Nat : \E f : TakenUpTo(r, n, known, routes, f, k)}
<1>1. 0 \in D
  <2>1. TakenUpTo(r, n, known, routes, [i \in 0 .. 0 |-> known], 0)
    BY DEF TakenUpTo
  <2> QED
    BY <2>1
<1>2. ASSUME NEW k \in Nat, k \in D PROVE k + 1 \in D
  <2>1. PICK f : TakenUpTo(r, n, known, routes, f, k)
    BY <1>2
  <2> DEFINE g == [i \in 0 .. k + 1 |-> IF i <= k THEN f[i]
                                        ELSE take_route(r, n, f[k], routes[i])]
  <2>2. \A i \in 0 .. k : f[i] = IF i = 0 THEN known
                                 ELSE take_route(r, n, f[i - 1], routes[i])
    BY <2>1 DEF TakenUpTo
  <2>3. \A i \in 0 .. k + 1 : g[i] = IF i = 0 THEN known
                                     ELSE take_route(r, n, g[i - 1], routes[i])
    BY <2>2
  <2>4. g = [i \in 0 .. k + 1 |-> g[i]]
    OBVIOUS
  <2> HIDE DEF g
  <2>5. TakenUpTo(r, n, known, routes, g, k + 1)
    BY <2>3, <2>4 DEF TakenUpTo
  <2> QED
    BY <2>5
<1> HIDE DEF D
<1>3. Len(routes) \in D /\ Len(routes) \in Nat
  BY <1>1, <1>2, Induction, LenProperties
<1> DEFINE taken[i \in 0 .. Len(routes)] ==
            IF i = 0 THEN known ELSE take_route(r, n, taken[i - 1], routes[i])
<1>4. handle_advertisement(r, n, known, routes) = taken[Len(routes)]
  BY DEF handle_advertisement
<1>5. TakenUpTo(r, n, known, routes, taken, Len(routes))
  BY <1>3 DEF D, TakenUpTo
<1> HIDE DEF taken
<1>6. \A i \in 0 .. Len(routes) : taken[i] = IF i = 0 THEN known
                                   ELSE take_route(r, n, taken[i - 1], routes[i])
  BY <1>5 DEF TakenUpTo
<1> DEFINE E == {k \in Nat : k <= Len(routes) => PathsOK(L, r, taken[k])}
<1>7. 0 \in E
  <2>1. 0 \in 0 .. Len(routes)
    BY <1>3
  <2> QED
    BY <1>6, <2>1
<1>8. ASSUME NEW k \in Nat, k \in E PROVE k + 1 \in E
  <2> SUFFICES ASSUME k + 1 <= Len(routes) PROVE PathsOK(L, r, taken[k + 1])
    OBVIOUS
  <2>1. k + 1 \in 1 .. Len(routes) /\ k <= Len(routes) /\ k + 1 # 0 /\ (k + 1) - 1 = k
    BY <1>3
  <2>2. taken[k + 1] = take_route(r, n, taken[k], routes[k + 1])
    BY <1>6, <2>1
  <2>3. PathsOK(L, r, taken[k])
    BY <1>8, <2>1
  <2>4. routes[k + 1] \in BgpRoute /\ RouteOK(L, n, r, routes[k + 1])
    BY <2>1, ElementOfSeq
  <2> QED
    BY <2>2, <2>3, <2>4, RouteTaken
<1> HIDE DEF E
<1>9. Len(routes) \in E
  BY <1>3, <1>7, <1>8, Induction
<1> QED
  BY <1>3, <1>4, <1>9 DEF E
-----------------------------------------------------------------------------
\* The interfaces: a frame of the handshake and a second leave an interface.
LEMMA FaceFacts ==
    ASSUME NEW i \in Interface
    PROVE  /\ \A type \in FrameType : handshake(i, type).face \in Interface
           /\ \A L, n, r : \A type \in FrameType : LinkOK(L, n, r, handshake(i, type).out)
           /\ retransmission(hold_time(i)) \in Interface
           /\ [i EXCEPT !.HT = MAX_HT] \in Interface
           /\ [i EXCEPT !.current_state = "CONNECT", !.RTO = MAX_RTO, !.CRT = MAX_CRT,
                        !.syn_sent = TRUE] \in Interface
<1>1. /\ MAX_RTO \in 0 .. MAX_RTO /\ MAX_CRT \in 0 .. MAX_CRT /\ MAX_HT \in 0 .. MAX_HT
      /\ 0 \in 0 .. MAX_RTO
      /\ \A k \in 0 .. MAX_RTO : Down(k) \in 0 .. MAX_RTO
      /\ \A k \in 0 .. MAX_CRT : Down(k) \in 0 .. MAX_CRT
      /\ \A k \in 0 .. MAX_HT : Down(k) \in 0 .. MAX_HT
  BY BgpAssumption DEF Down
<1>2. ASSUME NEW j \in Interface
      PROVE  /\ opened(j) \in Interface /\ connecting(j) \in Interface
             /\ [j EXCEPT !.synAck_sent = TRUE, !.RTO = MAX_RTO] \in Interface
             /\ [j EXCEPT !.current_state = "O_CONFIRM", !.HT = MAX_HT] \in Interface
             /\ [j EXCEPT !.current_state = "ESTABLISHED", !.HT = MAX_HT] \in Interface
             /\ [j EXCEPT !.HT = MAX_HT] \in Interface
             /\ [j EXCEPT !.HT = Down(@)] \in Interface
             /\ [j EXCEPT !.CRT = Down(@)] \in Interface
             /\ [j EXCEPT !.RTO = Down(@), !.CRT = Down(@)] \in Interface
             /\ [j EXCEPT !.RTO = 0, !.CRT = MAX_CRT,
                          !.current_state = "ACTIVE_STATE"] \in Interface
             /\ [connecting(j) EXCEPT !.HT = j.HT] \in Interface
             /\ [j EXCEPT !.current_state = "CONNECT", !.RTO = MAX_RTO, !.CRT = MAX_CRT,
                          !.syn_sent = TRUE] \in Interface
  BY <1>1 DEF Interface, BgpState, opened, connecting, set_timers
<1>3. ASSUME NEW type \in FrameType
      PROVE  /\ handshake(i, type).face \in Interface
             /\ \A L, n, r : LinkOK(L, n, r, handshake(i, type).out)
  <2>1. handshake(i, type).face \in Interface
    BY <1>2 DEF handshake
  <2>2. \/ handshake(i, type).out = <<>>
        \/ \E t \in FrameType : handshake(i, type).out = <<Bgp(t)>>
        \/ handshake(i, type).out = <<Bgp("ACK"), Bgp("OPEN")>>
    BY DEF handshake, FrameType
  <2>3. ASSUME NEW L, NEW n, NEW r PROVE LinkOK(L, n, r, handshake(i, type).out)
    <3>1. LinkOK(L, n, r, <<>>) /\ \A t \in FrameType : LinkOK(L, n, r, <<Bgp(t)>>)
      BY LinkFacts, HandshakeFrame
    <3>3. LinkOK(L, n, r, <<Bgp("ACK"), Bgp("OPEN")>>)
      <4>1. "ACK" \in FrameType /\ "OPEN" \in FrameType
        BY DEF FrameType
      <4> QED
        BY <4>1, LinkFacts, HandshakeFrame
    <3> QED
      BY <2>2, <3>1, <3>3
  <2> QED
    BY <2>1, <2>3
<1>4. hold_time(i) \in Interface
  BY <1>2 DEF hold_time
<1>5. \A j \in Interface : connect_retry(j) \in Interface
  BY <1>2 DEF connect_retry
<1>6. \A j \in Interface : retransmission(j) \in Interface
  BY <1>2, <1>5 DEF retransmission
<1> QED
  BY <1>2, <1>3, <1>4, <1>6

\* A router that advertises what get_admissible_routes lets through (advertise).
LEMMA AdmissibleRoutes ==
    ASSUME BgpInv, NEW r \in Router, NEW n \in Neighbours(r)
    PROVE  LET a == get_admissible_routes(r, n)
               f == Update(<<>>, [i \in DOMAIN a |-> [ases |-> a[i].ases, dest |-> a[i].dest]])
           IN  f \in BgpFrame /\ UpdateOK(bgp_liars, r, n, f)
<1> DEFINE a == get_admissible_routes(r, n)
           routes == [i \in DOMAIN a |-> [ases |-> a[i].ases, dest |-> a[i].dest]]
           f == Update(<<>>, routes)
           known == bgp_paths[r]
           I == {i \in DOMAIN known : \/ known[i].via = n
                                      \/ Relation(r, n) = "CUSTOMER"
                                      \/ known[i].advertiser # Relation(r, n)}
<1>1. PathsOK(bgp_liars, r, known)
  BY DEF BgpInv
<1>2. a = Chosen(known, I)
  BY DEF get_admissible_routes
<1>3. /\ a \in Seq(BgpPath)
      /\ \A i \in 1 .. Len(a) : \E j \in 1 .. Len(known) : j \in I /\ a[i] = known[j]
  <2> HIDE DEF known, I, a
  <2> QED
    BY <1>1, <1>2, ChosenFrom DEF PathsOK
<1> HIDE DEF a
<1>4. DOMAIN a = 1 .. Len(a) /\ Len(a) \in Nat
  BY <1>3, LenProperties
<1>5. \A i \in 1 .. Len(a) : a[i] \in BgpPath /\ a[i].ases \in Seq(Router) /\ a[i].dest \in Prefix
  <2>1. \A i \in 1 .. Len(a) : a[i] \in BgpPath
    BY <1>3, ElementOfSeq
  <2> QED
    BY <2>1 DEF BgpPath
<1>6. /\ routes \in Seq(BgpRoute) /\ Len(routes) = Len(a)
      /\ \A i \in 1 .. Len(a) : routes[i].ases = a[i].ases /\ routes[i].dest = a[i].dest
  <2>1. routes \in [1 .. Len(a) -> BgpRoute]
    BY <1>4, <1>5 DEF BgpRoute
  <2>2. DOMAIN routes = 1 .. Len(a)
    BY <1>4
  <2>3. \A i \in 1 .. Len(a) : routes[i].ases = a[i].ases /\ routes[i].dest = a[i].dest
    BY <1>4
  <2> HIDE DEF routes
  <2>4. routes \in Seq(BgpRoute)
    BY <1>4, <2>1, SeqDef
  <2> QED
    BY <1>4, <2>2, <2>3, <2>4, LenProperties
<1> HIDE DEF routes
<1>7. \A i \in 1 .. Len(routes) : RouteOK(bgp_liars, r, n, routes[i])
  <2> TAKE i \in 1 .. Len(routes)
  <2>1. PICK j \in 1 .. Len(known) : j \in I /\ a[i] = known[j]
    BY <1>3, <1>6
  <2>2. PathOK(bgp_liars, r, a[i])
    BY <1>1, <2>1 DEF PathsOK
  <2>3. \/ a[i].via = n
        \/ Relation(r, n) = "CUSTOMER"
        \/ a[i].advertiser # Relation(r, n)
    BY <2>1
  <2> HIDE DEF known, I
  <2> QED
    BY <1>6, <2>2, <2>3 DEF PathOK, RouteOK
<1>8. f \in BgpFrame /\ UpdateOK(bgp_liars, r, n, f)
  BY <1>6, <1>7 DEF Update, BgpFrame, FrameType, UpdateOK
<1> QED
  BY <1>8 DEF routes, a

\* What a router sends on the links of its sessions.
LEMMA ToEstablished ==
    ASSUME BgpInv, bgp_liars \subseteq bgp_liars', bgp_top' = bgp_top, NEW r \in Router, NEW frame,
           \A n \in Neighbours(r) :
              frame[n] \in BgpFrame /\ UpdateOK(bgp_liars', r, n, frame[n]),
           to_established(r, frame)
    PROVE  /\ DOMAIN bgp_link' = Direction(bgp_top)
           /\ \A d \in Direction(bgp_top) : LinkOK(bgp_liars', d[1], d[2], bgp_link'[d])
<1>1. /\ DOMAIN bgp_link' = Direction(bgp_top)
      /\ \A d \in Direction(bgp_top) :
            \/ bgp_link'[d] = bgp_link[d] \o <<>>
            \/ /\ d[1] = r /\ d[2] \in Neighbours(r)
               /\ bgp_link'[d] = bgp_link[d] \o <<frame[d[2]]>>
  BY DEF BgpInv, to_established, emit, established
<1>2. ASSUME NEW d \in Direction(bgp_top) PROVE LinkOK(bgp_liars', d[1], d[2], bgp_link'[d])
  <2>1. LinkOK(bgp_liars', d[1], d[2], bgp_link[d])
    BY MoreLiars DEF BgpInv
  <2>2. CASE bgp_link'[d] = bgp_link[d] \o <<>>
    BY <2>1, <2>2, LinkFacts
  <2>3. CASE /\ d[1] = r /\ d[2] \in Neighbours(r)
             /\ bgp_link'[d] = bgp_link[d] \o <<frame[d[2]]>>
    <3>1. LinkOK(bgp_liars', d[1], d[2], <<frame[d[2]]>>)
      BY <2>3, LinkFacts
    <3> QED
      BY <2>1, <2>3, <3>1, LinkFacts
  <2> QED
    BY <1>1, <2>2, <2>3
<1> QED
  BY <1>1, <1>2
-----------------------------------------------------------------------------
\* The parts of the invariant that most actions leave.
LEMMA PathsStay ==
    ASSUME BgpInv, UNCHANGED <<bgp_paths, bgp_liars>>
    PROVE  DOMAIN bgp_paths' = Router /\ \A r \in Router : PathsOK(bgp_liars', r, bgp_paths'[r])
  BY DEF BgpInv

\* The command start connection on.
LEMMA ConnectionStarted ==
    ASSUME BgpInv, NEW r \in Router, NEW n \in Neighbours(r), start_connection(r, n)
    PROVE  BgpInv'
<1> DEFINE d0 == <<r, n>>
<1>1. d0 \in Direction(bgp_top) /\ n \in Router
  BY TopologyFacts DEF BgpInv
<1>2. bgp_if' \in [Direction(bgp_top) -> Interface]
  <2> DEFINE i == [bgp_if[d0] EXCEPT !.current_state = "CONNECT", !.RTO = MAX_RTO,
                                     !.CRT = MAX_CRT, !.syn_sent = TRUE]
  <2>1. bgp_if \in [Direction(bgp_top) -> Interface] /\ bgp_if[d0] \in Interface
    BY <1>1 DEF BgpInv
  <2>2. i \in Interface
    BY <2>1, FaceFacts
  <2>3. bgp_if' = [bgp_if EXCEPT ![d0] = i]
    BY <1>1, <2>1 DEF start_connection, Interface
  <2> HIDE DEF i, d0
  <2> QED
    BY <1>1, <2>1, <2>2, <2>3
<1>3. /\ DOMAIN bgp_link' = Direction(bgp_top)
      /\ \A d \in Direction(bgp_top) : LinkOK(bgp_liars', d[1], d[2], bgp_link'[d])
  <2>1. /\ DOMAIN bgp_link' = Direction(bgp_top) /\ bgp_liars' = bgp_liars
        /\ \A d \in Direction(bgp_top) :
              bgp_link'[d] = bgp_link[d] \/ bgp_link'[d] = Append(bgp_link[d], Bgp("SYN"))
    BY DEF start_connection, BgpInv
  <2>2. \A m, q : Bgp("SYN") \in BgpFrame /\ UpdateOK(bgp_liars, m, q, Bgp("SYN"))
    BY HandshakeFrame DEF FrameType
  <2>3. ASSUME NEW d \in Direction(bgp_top) PROVE LinkOK(bgp_liars', d[1], d[2], bgp_link'[d])
    <3>1. LinkOK(bgp_liars', d[1], d[2], bgp_link[d])
      BY <2>1 DEF BgpInv
    <3>2. LinkOK(bgp_liars', d[1], d[2], Append(bgp_link[d], Bgp("SYN")))
      BY <2>1, <2>2, <3>1, LinkFacts
    <3> QED
      BY <2>1, <3>1, <3>2
  <2> QED
    BY <2>1, <2>3
<1>4. bgp_top' = bgp_top /\ bgp_typed' = bgp_typed /\ UNCHANGED <<bgp_paths, bgp_liars>>
  BY DEF start_connection
<1> QED
  BY <1>2, <1>3, <1>4, PathsStay, BgpStep DEF BgpInv

\* The commands typed at a console.
LEMMA CommandTyped ==
    ASSUME BgpInv, NEW r \in Router, bgp_run(r)
    PROVE  BgpInv'
<1>1. /\ bgp_top' = bgp_top /\ bgp_if' \in [Direction(bgp_top) -> Interface]
      /\ bgp_typed' \in 0 .. bgp_top.lines
  <2>1. bgp_typed \in 0 .. bgp_top.lines /\ bgp_typed < bgp_top.lines /\ bgp_top.lines \in Nat
    BY TopologyFacts DEF BgpInv, bgp_run
  <2>2. bgp_typed' = bgp_typed + 1 /\ UNCHANGED <<bgp_top, bgp_if>>
    BY DEF bgp_run
  <2> QED
    BY <2>1, <2>2 DEF BgpInv
<1> DEFINE PathsGood == /\ DOMAIN bgp_paths' = Router
                        /\ \A q \in Router : PathsOK(bgp_liars', q, bgp_paths'[q])
           LinksGood == /\ DOMAIN bgp_link' = Direction(bgp_top)
                        /\ \A d \in Direction(bgp_top) :
                              LinkOK(bgp_liars', d[1], d[2], bgp_link'[d])
<1>2. ASSUME NEW known, PathsOK(bgp_liars, r, known), bgp_liars' = bgp_liars,
             bgp_paths' = [bgp_paths EXCEPT ![r] = known]
      PROVE  PathsGood
  BY <1>2 DEF BgpInv
<1>3. CASE advertise(r)
  <2> DEFINE frame == [n \in Neighbours(r) |->
          Update(<<>>, [i \in DOMAIN get_admissible_routes(r, n) |->
                           [ases |-> get_admissible_routes(r, n)[i].ases,
                            dest |-> get_admissible_routes(r, n)[i].dest]])]
  <2>1. to_established(r, frame) /\ UNCHANGED <<bgp_paths, bgp_liars>>
    BY <1>3 DEF advertise
  <2>2. \A n \in Neighbours(r) : frame[n] \in BgpFrame /\ UpdateOK(bgp_liars', r, n, frame[n])
    <3> TAKE n \in Neighbours(r)
    <3>1. frame[n] = Update(<<>>, [i \in DOMAIN get_admissible_routes(r, n) |->
                           [ases |-> get_admissible_routes(r, n)[i].ases,
                            dest |-> get_admissible_routes(r, n)[i].dest]])
      OBVIOUS
    <3> HIDE DEF frame
    <3> QED
      BY <2>1, <3>1, AdmissibleRoutes
  <2> HIDE DEF frame
  <2>3. LinksGood
    BY <1>1, <2>1, <2>2, ToEstablished
  <2>4. PathsGood
    BY <2>1, PathsStay
  <2> QED
    BY <1>1, <2>3, <2>4, BgpStep
<1>4. ASSUME NEW prefix \in Prefix, withdraw(r, prefix) PROVE BgpInv'
  <2> DEFINE frame == [n \in Neighbours(r) |-> Update(prefix, <<>>)]
  <2>1. to_established(r, frame) /\ bgp_liars' = bgp_liars
    BY <1>4 DEF withdraw
  <2>2. \A n \in Neighbours(r) : frame[n] \in BgpFrame /\ UpdateOK(bgp_liars', r, n, frame[n])
    BY DEF Update, BgpFrame, UpdateOK, FrameType
  <2> HIDE DEF frame
  <2>3. LinksGood
    BY <1>1, <2>1, <2>2, ToEstablished
  <2>4. bgp_paths' = [bgp_paths EXCEPT ![r] = empty_trash_path(bgp_paths[r], prefix)]
    BY <1>4 DEF withdraw
  <2>5. PathsOK(bgp_liars, r, empty_trash_path(bgp_paths[r], prefix))
    BY ChosenPaths DEF empty_trash_path, BgpInv
  <2>6. PathsGood
    BY <1>2, <2>1, <2>4, <2>5
  <2> QED
    BY <1>1, <2>3, <2>6, BgpStep
<1>5. ASSUME NEW prefix \in Prefix, highjack(r, prefix) PROVE BgpInv'
  <2> DEFINE claim == [ases |-> <<r>>, dest |-> prefix]
             frame == [n \in Neighbours(r) |-> Update(<<>>, <<claim>>)]
  <2>1. /\ to_established(r, frame) /\ UNCHANGED bgp_paths
        /\ bgp_liars' = bgp_liars \cup {<<r, prefix>>}
    BY <1>5 DEF highjack
  <2>2. /\ claim \in BgpRoute /\ claim.ases = <<r>> /\ claim.dest = prefix
        /\ Len(<<r>>) = 1 /\ <<r>>[1] = r
    BY DEF BgpRoute
  <2> HIDE DEF claim
  <2>3. SoundRoute(bgp_liars', r, claim.ases, claim.dest)
    <3>1. /\ \A i \in 1 .. 1 : i = 1
          /\ \A i \in 1 .. 1 - 1 : FALSE
          /\ \A i \in 2 .. 1 - 1 : FALSE
      OBVIOUS
    <3> QED
      BY <2>1, <2>2, <3>1 DEF SoundRoute
  <2>4. \A n : RouteOK(bgp_liars', r, n, claim)
    BY <2>2, <2>3 DEF RouteOK
  <2>5. /\ <<claim>> \in Seq(BgpRoute) /\ Len(<<claim>>) = 1 /\ <<claim>>[1] = claim
        /\ \A i \in 1 .. 1 : i = 1
    BY <2>2
  <2>6. Update(<<>>, <<claim>>) \in BgpFrame
    BY <2>5 DEF Update, BgpFrame, FrameType
  <2>7. \A n : UpdateOK(bgp_liars', r, n, Update(<<>>, <<claim>>))
    BY <2>4, <2>5 DEF Update, UpdateOK
  <2>8. \A n \in Neighbours(r) : frame[n] \in BgpFrame /\ UpdateOK(bgp_liars', r, n, frame[n])
    BY <2>6, <2>7
  <2> HIDE DEF frame
  <2>9. LinksGood
    BY <1>1, <2>1, <2>8, ToEstablished
  <2>10. PathsGood
    BY <2>1, MoreLiars DEF BgpInv
  <2> QED
    BY <1>1, <2>9, <2>10, BgpStep
<1>6. ASSUME NEW n \in Neighbours(r), NEW priority \in BgpPriority,
             setting_priority(r, n, priority)
      PROVE  BgpInv'
  <2> DEFINE old == bgp_paths[r]
             new == [i \in DOMAIN old |->
                        IF old[i].via = n THEN [old[i] EXCEPT !.priority = priority] ELSE old[i]]
  <2>1. bgp_paths' = [bgp_paths EXCEPT ![r] = new] /\ UNCHANGED <<bgp_link, bgp_liars>>
    BY <1>6 DEF setting_priority
  <2>2. PathsOK(bgp_liars, r, old)
    BY DEF BgpInv
  <2> HIDE DEF old
  <2>3. /\ DOMAIN old = 1 .. Len(old) /\ Len(old) \in Nat
        /\ \A i \in 1 .. Len(old) : old[i] \in BgpPath
    BY <2>2, LenProperties, ElementOfSeq DEF PathsOK
  <2>4. \A i \in 1 .. Len(old) : /\ new[i] \in BgpPath
                                 /\ new[i].ases = old[i].ases /\ new[i].dest = old[i].dest
                                 /\ new[i].via = old[i].via
                                 /\ new[i].advertiser = old[i].advertiser
    BY <2>3 DEF BgpPath
  <2>5. new \in [1 .. Len(old) -> BgpPath] /\ DOMAIN new = 1 .. Len(old)
    <3>1. new = [i \in 1 .. Len(old) |-> new[i]]
      BY <2>3
    <3> HIDE DEF new
    <3> QED
      BY <2>4, <3>1
  <2> HIDE DEF new
  <2>6. new \in Seq(BgpPath) /\ Len(new) = Len(old)
    <3>1. new \in Seq(BgpPath)
      BY <2>3, <2>5, SeqDef
    <3> QED
      BY <2>3, <2>5, <3>1, LenProperties
  <2>7. \A i \in 1 .. Len(old) : PathOK(bgp_liars, r, new[i])
    BY <2>2, <2>4 DEF PathsOK, PathOK
  <2>8. PathsOK(bgp_liars, r, new)
    BY <2>2, <2>4, <2>6, <2>7 DEF PathsOK
  <2>9. PathsGood
    BY <1>2, <2>1, <2>8
  <2>10. LinksGood
    BY <2>1 DEF BgpInv
  <2> QED
    BY <1>1, <2>9, <2>10, BgpStep
<1> QED
  BY <1>3, <1>4, <1>5, <1>6 DEF bgp_run

\* A frame taken from a link (processFrame).
LEMMA FrameProcessed ==
    ASSUME BgpInv, NEW r \in Router, NEW n \in Neighbours(r), bgp_processFrame(r, n)
    PROVE  BgpInv'
<1> DEFINE f == Head(bgp_link[<<n, r>>])
           i == bgp_if[<<r, n>>]
           h == handshake(i, f.type)
           u == handle_bgp_update(r, n, f)
           left == [bgp_link EXCEPT ![<<n, r>>] = Tail(bgp_link[<<n, r>>])]
<1>1. /\ <<r, n>> \in Direction(bgp_top) /\ <<n, r>> \in Direction(bgp_top)
      /\ n \in Router /\ r \in Neighbours(n)
  BY TopologyFacts DEF BgpInv
<1>2. /\ bgp_link[<<n, r>>] # <<>> /\ UNCHANGED <<bgp_top, bgp_ticked, bgp_typed, bgp_liars>>
      /\ \/ /\ f.type = "UPDATE"
            /\ bgp_paths' = [bgp_paths EXCEPT ![r] = u.paths]
            /\ bgp_if' = [bgp_if EXCEPT ![<<r, n>>].HT = MAX_HT]
            /\ bgp_link' = [d \in DOMAIN left |-> left[d] \o u.out[d]]
         \/ f.type = "UPDATE" /\ bgp_link' = left /\ UNCHANGED <<bgp_if, bgp_paths>>
         \/ /\ f.type # "UPDATE" /\ bgp_if' = [bgp_if EXCEPT ![<<r, n>>] = h.face]
            /\ bgp_link' = [left EXCEPT ![<<n, r>>] = left[<<n, r>>] \o h.out]
            /\ UNCHANGED bgp_paths
         \/ /\ f.type # "UPDATE" /\ bgp_if' = [bgp_if EXCEPT ![<<r, n>>] = h.face]
            /\ bgp_link' = [left EXCEPT ![<<r, n>>] = left[<<r, n>>] \o h.out]
            /\ UNCHANGED bgp_paths
  BY DEF bgp_processFrame
<1>3. f \in BgpFrame /\ UpdateOK(bgp_liars, n, r, f) /\ i \in Interface
  <2>1. LinkOK(bgp_liars, n, r, bgp_link[<<n, r>>]) /\ bgp_if[<<r, n>>] \in Interface
    BY <1>1 DEF BgpInv
  <2> QED
    BY <1>2, <2>1, LinkFacts
<1>4. /\ DOMAIN left = Direction(bgp_top)
      /\ \A d \in Direction(bgp_top) : LinkOK(bgp_liars, d[1], d[2], left[d])
  <2>1. LinkOK(bgp_liars, n, r, Tail(bgp_link[<<n, r>>]))
    BY <1>1, <1>2, LinkFacts DEF BgpInv
  <2> QED
    BY <1>1, <2>1 DEF BgpInv
<1>5. /\ f.withdrawn # <<>> => f.routes = <<>>
      /\ f.type \in FrameType /\ f.routes \in Seq(BgpRoute)
      /\ \A k \in 1 .. Len(f.routes) : RouteOK(bgp_liars, n, r, f.routes[k])
  BY <1>3 DEF UpdateOK, BgpFrame
<1> HIDE DEF f, i, h, u, left
<1>6. PathsOK(bgp_liars, r, u.paths)
  <2> DEFINE kept == IF f.withdrawn = <<>> THEN bgp_paths[r]
                     ELSE empty_trash_path(bgp_paths[r], f.withdrawn)
  <2>1. PathsOK(bgp_liars, r, bgp_paths[r])
    BY DEF BgpInv
  <2>2. PathsOK(bgp_liars, r, kept)
    BY <2>1, ChosenPaths DEF empty_trash_path
  <2>3. u.paths = handle_advertisement(r, n, kept, f.routes)
    BY DEF u, handle_bgp_update
  <2> HIDE DEF kept
  <2>4. bgp_top \in Topology
    BY DEF BgpInv
  <2> QED
    BY <1>5, <2>2, <2>3, <2>4, AdvertisementTaken
<1>7. \A d \in Direction(bgp_top) : LinkOK(bgp_liars, d[1], d[2], u.out[d])
  <2> TAKE d \in Direction(bgp_top)
  <2>1. u.out[d] = IF f.withdrawn # <<>> /\ d[1] = r /\ d[2] # n THEN <<f>> ELSE <<>>
    BY DEF u, handle_bgp_update, BgpInv
  <2>2. f.withdrawn # <<>> => UpdateOK(bgp_liars, d[1], d[2], f)
    BY <1>5 DEF UpdateOK
  <2> QED
    BY <1>3, <2>1, <2>2, LinkFacts
<1>8. h.face \in Interface /\ \A m, q : LinkOK(bgp_liars, m, q, h.out)
  BY <1>3, <1>5, FaceFacts DEF h
<1>9. bgp_if' \in [Direction(bgp_top) -> Interface]
  <2>1. bgp_if \in [Direction(bgp_top) -> Interface]
    BY DEF BgpInv
  <2>2. CASE bgp_if' = [bgp_if EXCEPT ![<<r, n>>].HT = MAX_HT]
    <3>1. bgp_if' = [bgp_if EXCEPT ![<<r, n>>] = [i EXCEPT !.HT = MAX_HT]]
      BY <2>2 DEF i
    <3>2. [i EXCEPT !.HT = MAX_HT] \in Interface
      BY <1>3, FaceFacts
    <3> QED
      BY <1>1, <2>1, <3>1, <3>2
  <2>3. CASE bgp_if' = bgp_if
    BY <2>1, <2>3
  <2>4. CASE bgp_if' = [bgp_if EXCEPT ![<<r, n>>] = h.face]
    BY <1>1, <1>8, <2>1, <2>4
  <2> QED
    BY <1>2, <2>2, <2>3, <2>4
<1>10. DOMAIN bgp_paths' = Router /\ \A q \in Router : PathsOK(bgp_liars', q, bgp_paths'[q])
  BY <1>2, <1>6 DEF BgpInv
<1>11. /\ DOMAIN bgp_link' = Direction(bgp_top)
       /\ \A d \in Direction(bgp_top) :
             \/ bgp_link'[d] = left[d]
             \/ bgp_link'[d] = left[d] \o u.out[d]
             \/ bgp_link'[d] = left[d] \o h.out
  BY <1>1, <1>2, <1>4
<1>12. \A d \in Direction(bgp_top) : LinkOK(bgp_liars', d[1], d[2], bgp_link'[d])
  <2> TAKE d \in Direction(bgp_top)
  <2>1. LinkOK(bgp_liars, d[1], d[2], left[d])
    BY <1>4
  <2>2. LinkOK(bgp_liars, d[1], d[2], left[d] \o u.out[d])
    BY <1>7, <2>1, LinkFacts
  <2>3. LinkOK(bgp_liars, d[1], d[2], left[d] \o h.out)
    BY <1>8, <2>1, LinkFacts
  <2> QED
    BY <1>2, <1>11, <2>1, <2>2, <2>3
<1> QED
  BY <1>2, <1>9, <1>10, <1>11, <1>12, BgpStep DEF BgpInv

\* A second passes at a router (manage_time).
LEMMA TimeManaged ==
    ASSUME BgpInv, NEW r \in Router, manage_time(r)
    PROVE  BgpInv'
<1>1. bgp_if' \in [Direction(bgp_top) -> Interface]
  <2>1. bgp_if \in [Direction(bgp_top) -> Interface]
    BY DEF BgpInv
  <2>2. \A d \in Direction(bgp_top) : retransmission(hold_time(bgp_if[d])) \in Interface
    BY <2>1, FaceFacts
  <2> QED
    BY <2>1, <2>2 DEF manage_time
<1>2. /\ DOMAIN bgp_link' = Direction(bgp_top) /\ bgp_liars' = bgp_liars
      /\ \A d \in Direction(bgp_top) :
            bgp_link'[d] = bgp_link[d] \o <<>> \/ bgp_link'[d] = bgp_link[d] \o <<Bgp("SYN")>>
  BY DEF manage_time, emit, BgpInv
<1>3. \A d \in Direction(bgp_top) : LinkOK(bgp_liars', d[1], d[2], bgp_link'[d])
  <2> TAKE d \in Direction(bgp_top)
  <2>1. LinkOK(bgp_liars, d[1], d[2], bgp_link[d])
    BY DEF BgpInv
  <2>2. LinkOK(bgp_liars, d[1], d[2], <<Bgp("SYN")>>)
    BY HandshakeFrame DEF FrameType
  <2>3. /\ LinkOK(bgp_liars, d[1], d[2], bgp_link[d] \o <<>>)
        /\ LinkOK(bgp_liars, d[1], d[2], bgp_link[d] \o <<Bgp("SYN")>>)
    BY <2>1, <2>2, LinkFacts
  <2> QED
    BY <1>2, <2>3
<1>4. bgp_top' = bgp_top /\ bgp_typed' = bgp_typed /\ UNCHANGED <<bgp_paths, bgp_liars>>
  BY DEF manage_time
<1> QED
  BY <1>1, <1>2, <1>3, <1>4, PathsStay, BgpStep DEF BgpInv

\* The routers when the topology was read.
LEMMA BgpStarts ==
    ASSUME BgpInit
    PROVE  BgpInv
<1>1. PICK top \in Topology : bgp_initialize(top)
  BY DEF BgpInit
<1>2. bgp_top = top /\ bgp_typed = 0 /\ bgp_liars = {}
  BY <1>1 DEF bgp_initialize
<1>3. bgp_top.lines \in Nat
  BY <1>2, TopologyFacts
<1>4. bgp_if \in [Direction(bgp_top) -> Interface]
  <2>1. [current_state |-> "IDLE", RTO |-> 0, CRT |-> 0, HT |-> 0,
         syn_sent |-> FALSE, synAck_sent |-> FALSE] \in Interface
    BY BgpAssumption DEF Interface, BgpState
  <2> QED
    BY <1>1, <1>2, <2>1 DEF bgp_initialize
<1>5. /\ DOMAIN bgp_link = Direction(bgp_top)
      /\ \A d \in Direction(bgp_top) : LinkOK(bgp_liars, d[1], d[2], bgp_link[d])
  <2>1. /\ DOMAIN bgp_link = Direction(bgp_top)
        /\ \A d \in Direction(bgp_top) : bgp_link[d] = <<>>
    BY <1>1, <1>2 DEF bgp_initialize
  <2> QED
    BY <2>1, LinkFacts
<1>6. DOMAIN bgp_paths = Router
  BY <1>1, <1>2 DEF bgp_initialize, Router
<1>7. ASSUME NEW r \in Router PROVE PathsOK(bgp_liars, r, bgp_paths[r])
  <2> DEFINE asset == bgp_top.asset[r]
             via == bgp_top.neighbour[r][1]
             own == bgp_paths[r]
  <2>1. own = [k \in DOMAIN asset |->
                  [ases |-> <<r>>, dest |-> asset[k], via |-> via,
                   advertiser |-> "MYASSET", priority |-> 0]]
    BY <1>1, <1>2, <1>7 DEF bgp_initialize, Router
  <2>2. asset \in Seq(ToSet(asset)) /\ via \in Neighbours(r) /\ via \in Router
    <3> DEFINE q == bgp_top.neighbour[r]
    <3>1. /\ q \in Seq(Router) /\ q # <<>> /\ Neighbours(r) \subseteq Router
          /\ asset \in Seq(ToSet(asset))
      BY <1>2, <1>7, TopologyFacts
    <3>2. DOMAIN q = 1 .. Len(q) /\ 1 \in 1 .. Len(q)
      BY <3>1, LenProperties, EmptySeq
    <3> QED
      BY <3>1, <3>2 DEF Neighbours, ToSet
  <2>3. \A k \in DOMAIN asset : asset[k] \in ToSet(asset) /\ asset[k] \in Prefix
    BY <1>7 DEF ToSet, Prefix
  <2> HIDE DEF asset, via, own
  <2>4. DOMAIN asset = 1 .. Len(asset) /\ Len(asset) \in Nat
    BY <2>2, LenProperties
  <2>5. \A k \in 1 .. Len(asset) : /\ own[k] \in BgpPath /\ own[k].via = via
                                   /\ own[k].ases = <<r>> /\ own[k].dest = asset[k]
    <3>1. <<r>> \in Seq(Router)
      BY <1>7
    <3> QED
      BY <2>1, <2>2, <2>3, <2>4, <3>1 DEF BgpPath
  <2>6. own \in Seq(BgpPath) /\ Len(own) = Len(asset)
    <3>1. own \in [1 .. Len(asset) -> BgpPath]
      BY <2>1, <2>4, <2>5
    <3>2. own \in Seq(BgpPath)
      BY <2>4, <3>1, SeqDef
    <3> QED
      BY <2>4, <3>1, <3>2, LenProperties
  <2>7. Len(<<r>>) = 1 /\ <<r>>[1] = r
    OBVIOUS
  <2>8. ASSUME NEW k \in 1 .. Len(asset) PROVE PathOK(bgp_liars, r, own[k])
    <3>1. /\ \A j \in 1 .. 1 : j = 1
          /\ \A j \in 1 .. 1 - 1 : FALSE
          /\ \A j \in 2 .. 1 - 1 : FALSE
      OBVIOUS
    <3>2. asset[k] \in ToSet(bgp_top.asset[r])
      BY <2>3, <2>4 DEF asset
    <3>3. SoundRoute(bgp_liars, r, <<r>>, asset[k])
      BY <2>7, <3>1, <3>2 DEF SoundRoute
    <3>4. own[k].ases = <<r>> /\ own[k].dest = asset[k] /\ own[k].via = via
      BY <2>5
    <3> QED
      BY <2>2, <2>7, <3>3, <3>4 DEF PathOK
  <2>9. PathsOK(bgp_liars, r, own)
    BY <2>5, <2>6, <2>8 DEF PathsOK
  <2> QED
    BY <2>9 DEF own
<1> QED
  BY <1>2, <1>3, <1>4, <1>5, <1>6, <1>7 DEF BgpInv

\* The invariant says more than the property.
LEMMA BgpInvSound ==
    ASSUME BgpInv
    PROVE  RoutesSound
<1>1. ASSUME NEW r \in Router, NEW p \in ToSet(bgp_paths[r])
      PROVE  /\ p \in BgpPath /\ PathOK(bgp_liars, r, p) /\ Head(p.ases) = r
             /\ DOMAIN p.ases = 1 .. Len(p.ases)
  <2>1. PathsOK(bgp_liars, r, bgp_paths[r])
    BY DEF BgpInv
  <2>2. PICK i \in 1 .. Len(bgp_paths[r]) : p = bgp_paths[r][i]
    BY <2>1, LenProperties DEF PathsOK, ToSet
  <2>3. p \in BgpPath /\ PathOK(bgp_liars, r, p)
    BY <2>1, <2>2, ElementOfSeq DEF PathsOK
  <2>4. p.ases \in Seq(Router)
    BY <2>3 DEF BgpPath
  <2>5. p.ases[1] = r /\ Len(p.ases) >= 1
    BY <2>3 DEF PathOK, SoundRoute
  <2> QED
    BY <2>3, <2>4, <2>5, LenProperties, HeadTailProperties, EmptySeq
<1>2. BgpTypeOK
  BY <1>1 DEF BgpInv, BgpTypeOK, Interface, BgpPath, PathOK
<1>3. ASSUME NEW r \in Router, NEW p \in ToSet(bgp_paths[r])
      PROVE  /\ Head(p.ases) = r /\ IsInjective(p.ases)
             /\ \A i \in 1..Len(p.ases) - 1 : p.ases[i + 1] \in Neighbours(p.ases[i])
             /\ \/ p.dest \in ToSet(bgp_top.asset[Last(p.ases)])
                \/ <<Last(p.ases), p.dest>> \in bgp_liars
             /\ \A i \in 2..Len(p.ases) - 1 :
                   LET y == p.ases[i]
                   IN  \/ Relation(y, p.ases[i - 1]) # Relation(y, p.ases[i + 1])
                       \/ Relation(y, p.ases[i - 1]) = "CUSTOMER"
  <2>1. /\ DOMAIN p.ases = 1 .. Len(p.ases) /\ Head(p.ases) = r
        /\ SoundRoute(bgp_liars, r, p.ases, p.dest)
    BY <1>1 DEF PathOK
  <2>2. IsInjective(p.ases)
    BY <2>1 DEF SoundRoute, IsInjective
  <2> QED
    BY <2>1, <2>2 DEF SoundRoute, Last
<1>4. ASSUME NEW r \in Router, NEW p \in ToSet(bgp_paths[r]), NEW q \in ToSet(bgp_paths[r]),
             p.dest = q.dest
      PROVE  Last(p.ases) = Last(q.ases)
  <2>1. PathsOK(bgp_liars, r, bgp_paths[r])
    BY DEF BgpInv
  <2>2. PICK i \in 1 .. Len(bgp_paths[r]) : p = bgp_paths[r][i]
    BY <2>1, LenProperties DEF PathsOK, ToSet
  <2>3. PICK j \in 1 .. Len(bgp_paths[r]) : q = bgp_paths[r][j]
    BY <2>1, LenProperties DEF PathsOK, ToSet
  <2> QED
    BY <1>4, <2>1, <2>2, <2>3 DEF PathsOK, Last
<1> QED
  BY <1>2, <1>3, <1>4 DEF RoutesSound

\* However long the chains of advertisements, withdrawals and hijacks get, in every
\* topology: a path a router keeps is a loop-free path of the topology from the
\* router itself to one that has the prefix or claimed it, all paths to a prefix
\* end at one router, and nobody on a path carries traffic between two of its
\* providers or two of its peers (detect_loop, detect_thief,
\* get_admissible_routes).  The invariant also holds the frames on every link to it:
\* a route in an update is one its sender may carry traffic to for the receiver.
THEOREM BgpRoutesSound == BgpSpec => []RoutesSound
<1>1. BgpInit => BgpInv
  BY BgpStarts
<1>2. BgpInv /\ [BgpNext]_bgpVars => BgpInv'
  <2> SUFFICES ASSUME BgpInv, [BgpNext]_bgpVars PROVE BgpInv'
    OBVIOUS
  <2>1. CASE BgpNext
    BY <2>1, ConnectionStarted, FrameProcessed, CommandTyped, TimeManaged DEF BgpNext
  <2>2. CASE UNCHANGED bgpVars
    <3>1. UNCHANGED <<bgp_top, bgp_if, bgp_paths, bgp_link, bgp_typed, bgp_liars>>
      BY <2>2 DEF bgpVars
    <3> QED
      BY <3>1, BgpStep DEF BgpInv
  <2> QED
    BY <2>1, <2>2
<1>3. BgpInv => RoutesSound
  BY BgpInvSound
<1> QED
  BY <1>1, <1>2, <1>3, PTL DEF BgpSpec
-----------------------------------------------------------------------------
(***************************************************************************)
(* The addresses of the DHCP servers.  The invariant DhcpInv says, without *)
(* counting, how a pool, its offers and its leases share the addresses out;*)
(* every handler keeps that (HandlerOK), every command too.                *)
(***************************************************************************)
IPv4 == 0 .. 255
PoolEntry == IPv4 \cup {Buf}
DhcpTime == 0 .. 2^TimeWidth - 1
DhcpFrameType == {"DISCOVER", "REQUEST", "ACK", "RELEASE", "REQUEST_EXTEND", "OFFER",
                  "RESPONSE_EXTEND", "TIMEOUT"}
DhcpFrame == [type : DhcpFrameType, MAC : DhcpClient, IP : IPv4, time : DhcpTime]
ServerRecord == [ip_pool : Seq(PoolEntry), offered_IPs : Seq(LeaseType),
                 given_IPs : Seq(LeaseType), buf : IPv4]
ClientRecord == [offers : Seq(LeaseType), current_ip : IPv4, old_IPs : SUBSET IPv4]

\* The addresses of a list of leases.
IPs(list) == [i \in DOMAIN list |-> list[i].IP]

\* A pool with a pointer into the buffer.
HasBuf(s) == \E i \in DOMAIN s.ip_pool : s.ip_pool[i] = Buf

\* The pool, the offers and the leases share the addresses A out among them.
ShareOut(pool, offered, given, A) ==
    /\ NoDup(pool) /\ NoDup(offered) /\ NoDup(given)
    /\ \A ip \in IPv4 :
          /\ ip \in A <=> OnList(ip, pool) \/ OnList(ip, offered) \/ OnList(ip, given)
          /\ ~ (OnList(ip, pool) /\ OnList(ip, offered))
          /\ ~ (OnList(ip, pool) /\ OnList(ip, given))
          /\ ~ (OnList(ip, offered) /\ OnList(ip, given))
Clean(s, A) == ~ HasBuf(s) /\ ShareOut(s.ip_pool, IPs(s.offered_IPs), IPs(s.given_IPs), A)

DhcpInv ==
    /\ dhcp_server \in [DhcpServer -> ServerRecord]
    /\ dhcp_client \in [DhcpClient -> ClientRecord]
    /\ dhcp_net \in [DhcpLink -> Seq(DhcpFrame)]
    /\ dhcp_typed \in 0 .. MaxCommands /\ dhcp_spoilt \in BOOLEAN
    /\ dhcp_added \in [DhcpServer -> SUBSET IPv4]
    /\ ~ dhcp_spoilt => \A m \in DhcpServer : Clean(dhcp_server[m], dhcp_added[m])
-----------------------------------------------------------------------------
LEMMA IPsFacts ==
    ASSUME NEW list \in Seq(LeaseType)
    PROVE  /\ IPs(list) \in Seq(IPv4) /\ Len(IPs(list)) = Len(list)
           /\ DOMAIN list = 1 .. Len(list) /\ DOMAIN IPs(list) = 1 .. Len(list)
           /\ Len(list) \in Nat
           /\ \A i \in 1 .. Len(list) : IPs(list)[i] = list[i].IP /\ list[i] \in LeaseType
<1>1. Len(list) \in Nat /\ DOMAIN list = 1 .. Len(list)
  BY LenProperties
<1>2. \A i \in 1 .. Len(list) : list[i] \in LeaseType
  BY ElementOfSeq
<1>3. \A i \in 1 .. Len(list) : list[i].IP \in IPv4
  BY <1>2 DEF LeaseType, IPv4
<1>4. DOMAIN IPs(list) = 1 .. Len(list) /\ \A i \in 1 .. Len(list) : IPs(list)[i] = list[i].IP
  BY <1>1 DEF IPs
<1>5. IPs(list) \in [1 .. Len(list) -> IPv4]
  BY <1>1, <1>3 DEF IPs
<1>6. IPs(list) \in Seq(IPv4)
  BY <1>1, <1>5, SeqDef
<1> QED
  BY <1>1, <1>2, <1>4, <1>6, LenProperties

LEMMA IPsConcat ==
    ASSUME NEW a \in Seq(LeaseType), NEW b \in Seq(LeaseType)
    PROVE  IPs(a \o b) = IPs(a) \o IPs(b)
<1> DEFINE c == a \o b
           d == IPs(a) \o IPs(b)
<1>1. /\ c \in Seq(LeaseType) /\ Len(c) = Len(a) + Len(b)
      /\ \A i \in 1 .. Len(a) + Len(b) : c[i] = IF i <= Len(a) THEN a[i] ELSE b[i - Len(a)]
  BY ConcatProperties
<1>2. /\ d \in Seq(IPv4) /\ Len(d) = Len(a) + Len(b)
      /\ \A i \in 1 .. Len(a) + Len(b) : d[i] = IF i <= Len(a) THEN IPs(a)[i] ELSE IPs(b)[i - Len(a)]
  <2> DEFINE x == IPs(a)
             y == IPs(b)
  <2>1. x \in Seq(IPv4) /\ y \in Seq(IPv4) /\ Len(x) = Len(a) /\ Len(y) = Len(b)
    BY IPsFacts
  <2> HIDE DEF x, y
  <2>2. /\ x \o y \in Seq(IPv4) /\ Len(x \o y) = Len(x) + Len(y)
        /\ \A i \in 1 .. Len(x) + Len(y) : (x \o y)[i] = IF i <= Len(x) THEN x[i] ELSE y[i - Len(x)]
    BY <2>1, ConcatProperties
  <2> QED
    BY <2>1, <2>2 DEF x, y
<1> HIDE DEF c, d
<1>3. IPs(c) \in Seq(IPv4) /\ Len(IPs(c)) = Len(d)
  BY <1>1, <1>2, IPsFacts
<1>4. ASSUME NEW i \in 1 .. Len(IPs(c)) PROVE IPs(c)[i] = d[i]
  <2>1. i \in 1 .. Len(c) /\ IPs(c)[i] = c[i].IP /\ Len(a) \in Nat /\ Len(b) \in Nat
    BY <1>1, <1>3, <1>4, IPsFacts
  <2>2. CASE i <= Len(a)
    <3>1. i \in 1 .. Len(a) /\ c[i] = a[i] /\ d[i] = IPs(a)[i]
      BY <1>1, <1>2, <2>1, <2>2
    <3> QED
      BY <2>1, <3>1, IPsFacts
  <2>3. CASE ~ i <= Len(a)
    <3>1. i - Len(a) \in 1 .. Len(b) /\ c[i] = b[i - Len(a)] /\ d[i] = IPs(b)[i - Len(a)]
      BY <1>1, <1>2, <2>1, <2>3
    <3> QED
      BY <2>1, <3>1, IPsFacts
  <2> QED
    BY <2>2, <2>3
<1>5. IPs(c) = d
  BY <1>2, <1>3, <1>4, SeqEqual
<1> QED
  BY <1>5 DEF c, d

LEMMA IPsSubSeq ==
    ASSUME NEW list \in Seq(LeaseType), NEW m \in 1 .. Len(list) + 1, NEW n \in 0 .. Len(list)
    PROVE  /\ SubSeq(list, m, n) \in Seq(LeaseType)
           /\ IPs(SubSeq(list, m, n)) = SubSeq(IPs(list), m, n)
<1> DEFINE c == SubSeq(list, m, n)
           d == SubSeq(IPs(list), m, n)
           N == IF m <= n THEN n - m + 1 ELSE 0
<1>1. /\ Len(list) \in Nat
      /\ \A i \in m .. n : /\ i \in 1 .. Len(list) /\ list[i] \in LeaseType
                           /\ IPs(list)[i] \in IPv4 /\ IPs(list)[i] = list[i].IP
  <2>1. Len(list) \in Nat
    BY IPsFacts
  <2>2. \A i \in m .. n : i \in 1 .. Len(list)
    BY <2>1
  <2>3. \A i \in 1 .. Len(list) : /\ list[i] \in LeaseType
                                  /\ IPs(list)[i] \in IPv4 /\ IPs(list)[i] = list[i].IP
    BY IPsFacts, ElementOfSeq
  <2> QED
    BY <2>1, <2>2, <2>3
<1>2. m \in Int /\ n \in Int /\ m >= 1 /\ n >= 0
  BY <1>1
<1>3. c \in Seq(LeaseType) /\ Len(c) = N /\ \A i \in 1 .. n - m + 1 : c[i] = list[m + i - 1]
  BY <1>1, <1>2, SubSeqProperties
<1>4. d \in Seq(IPv4) /\ Len(d) = N /\ \A i \in 1 .. n - m + 1 : d[i] = IPs(list)[m + i - 1]
  <2> DEFINE a == IPs(list)
  <2>1. \A i \in m .. n : a[i] \in IPv4
    BY <1>1
  <2> HIDE DEF a
  <2>2. /\ SubSeq(a, m, n) \in Seq(IPv4) /\ Len(SubSeq(a, m, n)) = N
        /\ \A i \in 1 .. n - m + 1 : SubSeq(a, m, n)[i] = a[m + i - 1]
    BY <1>2, <2>1, SubSeqProperties
  <2> QED
    BY <2>2 DEF a
<1> HIDE DEF c, d
<1>5. IPs(c) \in Seq(IPv4) /\ Len(IPs(c)) = Len(d) /\ Len(IPs(c)) = N
  BY <1>3, <1>4, IPsFacts
<1>6. ASSUME NEW i \in 1 .. Len(IPs(c)) PROVE IPs(c)[i] = d[i]
  <2>1. i \in 1 .. n - m + 1 /\ m + i - 1 \in m .. n /\ i \in 1 .. Len(c)
    BY <1>2, <1>3, <1>5
  <2>2. c[i] = list[m + i - 1] /\ d[i] = IPs(list)[m + i - 1]
    BY <1>3, <1>4, <2>1
  <2>3. IPs(c)[i] = c[i].IP
    BY <1>3, <2>1, IPsFacts
  <2> QED
    BY <1>1, <2>1, <2>2, <2>3
<1>7. IPs(c) = d
  BY <1>4, <1>5, <1>6, SeqEqual
<1> QED
  BY <1>3, <1>7 DEF c, d

LEMMA IPsAppend ==
    ASSUME NEW list \in Seq(LeaseType), NEW l \in LeaseType
    PROVE  Append(list, l) \in Seq(LeaseType) /\ IPs(Append(list, l)) = Append(IPs(list), l.IP)
<1>1. <<l>> \in Seq(LeaseType) /\ Len(<<l>>) = 1 /\ <<l>>[1] = l /\ l.IP \in IPv4
  BY DEF LeaseType, IPv4
<1>2. IPs(<<l>>) = <<l.IP>>
  <2>1. IPs(<<l>>) \in Seq(IPv4) /\ Len(IPs(<<l>>)) = 1 /\ IPs(<<l>>)[1] = l.IP
    <3>1. 1 \in 1 .. Len(<<l>>)
      BY <1>1
    <3> QED
      BY <1>1, <3>1, IPsFacts
  <2>2. <<l.IP>> \in Seq(IPv4) /\ Len(<<l.IP>>) = 1 /\ <<l.IP>>[1] = l.IP
    BY <1>1
  <2>3. \A i \in 1 .. 1 : i = 1
    OBVIOUS
  <2> HIDE DEF IPs
  <2>4. \A i \in 1 .. Len(IPs(<<l>>)) : IPs(<<l>>)[i] = <<l.IP>>[i]
    BY <2>1, <2>2, <2>3
  <2> QED
    BY <2>1, <2>2, <2>4, SeqEqual
<1>3. Append(list, l) = list \o <<l>> /\ Append(list, l) \in Seq(LeaseType)
  BY AppendIsConcat, AppendProperties
<1>4. Append(IPs(list), l.IP) = IPs(list) \o <<l.IP>>
  BY <1>1, IPsFacts, AppendIsConcat
<1> QED
  BY <1>1, <1>2, <1>3, <1>4, IPsConcat

LEMMA IPsErase ==
    ASSUME NEW list \in Seq(LeaseType), NEW i \in 1 .. Len(list)
    PROVE  erase(list, i) \in Seq(LeaseType) /\ IPs(erase(list, i)) = erase(IPs(list), i)
<1>1. Len(list) \in Nat /\ Len(IPs(list)) = Len(list)
  BY IPsFacts
<1>2. i - 1 \in 0 .. Len(list) /\ i + 1 \in 1 .. Len(list) + 1 /\ 1 \in 1 .. Len(list) + 1
      /\ Len(list) \in 0 .. Len(list)
  BY <1>1
<1>3. /\ SubSeq(list, 1, i - 1) \in Seq(LeaseType) /\ SubSeq(list, i + 1, Len(list)) \in Seq(LeaseType)
      /\ IPs(SubSeq(list, 1, i - 1)) = SubSeq(IPs(list), 1, i - 1)
      /\ IPs(SubSeq(list, i + 1, Len(list))) = SubSeq(IPs(list), i + 1, Len(list))
  BY <1>2, IPsSubSeq
<1>4. erase(list, i) \in Seq(LeaseType)
  BY <1>3, ConcatProperties DEF erase
<1> QED
  BY <1>1, <1>3, <1>4, IPsConcat DEF erase

\* find_IP finds a lease for the address, or says 0.
LEMMA LeaseFound ==
    ASSUME NEW list \in Seq(LeaseType), NEW x
    PROVE  /\ \/ find_IP(list, x) = 0
              \/ find_IP(list, x) \in 1 .. Len(list) /\ list[find_IP(list, x)].IP = x
           /\ find_MAC(list, x) = 0 \/ find_MAC(list, x) \in 1 .. Len(list)
<1>1. Len(list) \in Nat
  BY LenProperties
<1>2. ASSUME NEW hits, hits \subseteq 1 .. Len(list), hits # {}
      PROVE  (CHOOSE i \in hits : \A j \in hits : i <= j) \in hits
  <2>1. \E i \in hits : \A j \in hits : i <= j
    <3>1. hits \subseteq Nat
      BY <1>1, <1>2
    <3> QED
      BY <1>2, <3>1, LeastNumber
  <2> QED
    BY <2>1
<1>3. find_IP(list, x) = 0 \/ find_IP(list, x) \in {i \in 1 .. Len(list) : list[i].IP = x}
  <2> DEFINE hits == {i \in 1 .. Len(list) : list[i].IP = x}
  <2>1. find_IP(list, x) = IF hits = {} THEN 0 ELSE CHOOSE i \in hits : \A j \in hits : i <= j
    BY DEF find_IP
  <2>2. hits \subseteq 1 .. Len(list)
    OBVIOUS
  <2> HIDE DEF hits
  <2>3. find_IP(list, x) = 0 \/ find_IP(list, x) \in hits
    BY <1>2, <2>1, <2>2
  <2> QED
    BY <2>3 DEF hits
<1>4. find_MAC(list, x) = 0 \/ find_MAC(list, x) \in 1 .. Len(list)
  <2> DEFINE hits == {i \in 1 .. Len(list) : list[i].MAC = x}
  <2>1. find_MAC(list, x) = IF hits = {} THEN 0 ELSE CHOOSE i \in hits : \A j \in hits : i <= j
    BY DEF find_MAC
  <2>2. hits \subseteq 1 .. Len(list)
    OBVIOUS
  <2> HIDE DEF hits
  <2> QED
    BY <1>2, <2>1, <2>2
<1>5. ASSUME find_IP(list, x) \in {i \in 1 .. Len(list) : list[i].IP = x}
      PROVE  find_IP(list, x) \in 1 .. Len(list) /\ list[find_IP(list, x)].IP = x
  BY <1>5
<1> QED
  BY <1>3, <1>4, <1>5
-----------------------------------------------------------------------------
\* Times and addresses.
LEMMA DhcpNumbers ==
    /\ 0 \in IPv4 /\ 0 \in DhcpTime
    /\ \A t \in DhcpTime : DefaultTime(t) \in DhcpTime
    /\ \A n \in Int : Uint(n) \in DhcpTime
    /\ \A s \in ServerRecord, e \in PoolEntry : Address(s, e) \in IPv4
    /\ \A e \in IPv4 : e # Buf
    /\ \A l \in LeaseType : l.MAC \in DhcpClient /\ l.IP \in IPv4 /\ l.time \in DhcpTime
    /\ DhcpTime \subseteq Int /\ IPv4 \subseteq Int
<1> DEFINE M == 2^TimeWidth
<1>1. M \in Nat /\ 10 < M /\ Buf \notin Nat
  BY DhcpAssumption
<1>2. \A n \in Int : Uint(n) = n % M
  BY DEF Uint
<1>3. DhcpTime = 0 .. M - 1
  BY DEF DhcpTime
<1> HIDE DEF M
<1>4. \A n \in Int : n % M \in 0 .. M - 1
  BY <1>1
<1>5. \A n \in Int : Uint(n) \in DhcpTime
  BY <1>2, <1>3, <1>4
<1>6. \A t \in DhcpTime : DefaultTime(t) \in DhcpTime
  BY <1>1, <1>3 DEF DefaultTime
<1>7. \A s \in ServerRecord, e \in PoolEntry : Address(s, e) \in IPv4
  BY DEF ServerRecord, PoolEntry, Address
<1>8. 0 \in IPv4 /\ 0 \in DhcpTime
  BY <1>1, <1>3 DEF IPv4
<1>9. \A e \in IPv4 : e # Buf
  BY <1>1 DEF IPv4
<1>10. \A l \in LeaseType : l.MAC \in DhcpClient /\ l.IP \in IPv4 /\ l.time \in DhcpTime
  BY DEF LeaseType, IPv4, DhcpTime
<1>11. DhcpTime \subseteq Int /\ IPv4 \subseteq Int
  BY <1>3 DEF IPv4
<1> QED
  BY <1>5, <1>6, <1>7, <1>8, <1>9, <1>10, <1>11

\* The pool in order (sort_pool), and the lowest address taken from it.
LEMMA PoolSorted ==
    ASSUME NEW s \in ServerRecord
    PROVE  /\ sort_pool(s) \in Seq(PoolEntry) /\ Len(sort_pool(s)) = Len(s.ip_pool)
           /\ NoDup(s.ip_pool) => NoDup(sort_pool(s))
           /\ \A x : OnList(x, sort_pool(s)) <=> OnList(x, s.ip_pool)
           /\ s.ip_pool # <<>> => sort_pool(s) # <<>>
           /\ HasBuf(s) <=> OnList(Buf, s.ip_pool)
<1> DEFINE pool == s.ip_pool
           key == [i \in DOMAIN pool |-> Address(s, pool[i])]
<1>1. pool \in Seq(PoolEntry) /\ DOMAIN pool = 1 .. Len(pool) /\ Len(pool) \in Nat
  BY LenProperties DEF ServerRecord
<1>2. \A i \in 1 .. Len(pool) : Address(s, pool[i]) \in Int
  <2>1. \A i \in 1 .. Len(pool) : pool[i] \in PoolEntry
    BY <1>1, ElementOfSeq
  <2>2. \A i \in 1 .. Len(pool) : Address(s, pool[i]) \in IPv4
    BY <2>1, DhcpNumbers
  <2> HIDE DEF pool
  <2> QED
    BY <2>2, DhcpNumbers
<1>3. key \in [1 .. Len(pool) -> Int]
  BY <1>1, <1>2
<1>4. sort_pool(s) = Sorted(pool, key)
  BY DEF sort_pool
<1>5. HasBuf(s) <=> OnList(Buf, pool)
  BY <1>1 DEF HasBuf, OnList
<1> HIDE DEF pool, key
<1>6. /\ Sorted(pool, key) \in Seq(PoolEntry) /\ Len(Sorted(pool, key)) = Len(pool)
      /\ NoDup(pool) => NoDup(Sorted(pool, key))
      /\ \A x : OnList(x, Sorted(pool, key)) <=> OnList(x, pool)
  <2>1. PICK f : Reorders(f, pool, Sorted(pool, key))
    BY <1>1, <1>3, SortedOrder
  <2> QED
    BY <1>1, <2>1, ListReordered
<1>7. pool # <<>> => Len(Sorted(pool, key)) # 0
  BY <1>1, <1>6, EmptySeq
<1> QED
  BY <1>4, <1>5, <1>6, <1>7, EmptySeq DEF pool

LEMMA LowestTaken ==
    ASSUME NEW s \in ServerRecord, s.ip_pool # <<>>
    PROVE  /\ rest(s) \in Seq(PoolEntry) /\ lowest(s) \in IPv4
           /\ NoDup(s.ip_pool) =>
                 /\ NoDup(rest(s))
                 /\ \E e \in PoolEntry :
                       /\ lowest(s) = Address(s, e) /\ OnList(e, s.ip_pool)
                       /\ \A x : OnList(x, rest(s)) <=> OnList(x, s.ip_pool) /\ x # e
<1> DEFINE t == sort_pool(s)
<1>1. /\ t \in Seq(PoolEntry) /\ t # <<>> /\ \A x : OnList(x, t) <=> OnList(x, s.ip_pool)
      /\ NoDup(s.ip_pool) => NoDup(t)
  BY PoolSorted
<1>2. rest(s) = Tail(t) /\ lowest(s) = Address(s, t[1])
  BY DEF rest, lowest
<1> HIDE DEF t
<1>3. Head(t) = t[1] /\ t[1] \in PoolEntry /\ Tail(t) \in Seq(PoolEntry)
  BY <1>1, HeadTailProperties
<1>4. NoDup(t) => /\ NoDup(Tail(t)) /\ OnList(Head(t), t)
                  /\ \A x : OnList(x, Tail(t)) <=> OnList(x, t) /\ x # Head(t)
  BY <1>1, ListTail
<1> QED
  BY <1>1, <1>2, <1>3, <1>4, DhcpNumbers

-----------------------------------------------------------------------------
\* An address leaves a list of leases, or comes to it.
LEMMA LeaseErased ==
    ASSUME NEW list \in Seq(LeaseType), NEW i \in 1 .. Len(list)
    PROVE  /\ erase(list, i) \in Seq(LeaseType)
           /\ NoDup(IPs(list)) =>
                 /\ NoDup(IPs(erase(list, i))) /\ OnList(list[i].IP, IPs(list))
                 /\ \A ip \in IPv4 : OnList(ip, IPs(erase(list, i))) <=>
                                        OnList(ip, IPs(list)) /\ ip # list[i].IP
<1>1. erase(list, i) \in Seq(LeaseType) /\ IPs(erase(list, i)) = erase(IPs(list), i)
  BY IPsErase
<1>2. IPs(list) \in Seq(IPv4) /\ Len(IPs(list)) = Len(list) /\ IPs(list)[i] = list[i].IP
  BY IPsFacts
<1>3. NoDup(IPs(list)) =>
          /\ NoDup(erase(IPs(list), i))
          /\ \A ip \in IPv4 : OnList(ip, erase(IPs(list), i)) <=>
                                 OnList(ip, IPs(list)) /\ ip # IPs(list)[i]
  BY <1>2, ListRemove DEF erase
<1>4. OnList(list[i].IP, IPs(list))
  BY <1>2 DEF OnList
<1> QED
  BY <1>1, <1>2, <1>3, <1>4

LEMMA LeaseAdded ==
    ASSUME NEW list \in Seq(LeaseType), NEW l \in LeaseType
    PROVE  /\ Append(list, l) \in Seq(LeaseType)
           /\ NoDup(IPs(list)) /\ ~ OnList(l.IP, IPs(list)) =>
                 /\ NoDup(IPs(Append(list, l)))
                 /\ \A ip : OnList(ip, IPs(Append(list, l))) <=>
                                OnList(ip, IPs(list)) \/ ip = l.IP
<1>1. Append(list, l) \in Seq(LeaseType) /\ IPs(Append(list, l)) = Append(IPs(list), l.IP)
  BY IPsAppend
<1>2. IPs(list) \in Seq(IPv4) /\ l.IP \in IPv4
  BY IPsFacts DEF LeaseType, IPv4
<1> QED
  BY <1>1, <1>2, ListAppend

\* What a handler of the server r makes of s, which shares out the addresses A.
HandlerOK(s, A, r) ==
    /\ r.s \in ServerRecord /\ r.out \in Seq(DhcpFrame)
    /\ Clean(s, A) /\ ~ HasBuf(r.s) => Clean(r.s, A)

LEMMA NothingDone ==
    ASSUME NEW s \in ServerRecord, NEW A
    PROVE  HandlerOK(s, A, [s |-> s, out |-> <<>>])
  BY DEF HandlerOK

LEMMA Answered ==
    ASSUME NEW type \in DhcpFrameType, NEW l \in LeaseType
    PROVE  <<Frame(type, l.MAC, l.IP, l.time)>> \in Seq(DhcpFrame)
  BY DEF Frame, DhcpFrame, LeaseType, IPv4, DhcpTime

LEMMA LeaseMade ==
    ASSUME NEW mac \in DhcpClient, NEW ip \in IPv4, NEW time \in DhcpTime
    PROVE  Lease(mac, ip, time) \in LeaseType /\ Lease(mac, ip, time).IP = ip
  BY DEF Lease, LeaseType, IPv4, DhcpTime

\* r_dhcp_discover: the lowest address goes from the pool to the offers.
LEMMA DiscoverHandled ==
    ASSUME NEW s \in ServerRecord, NEW A, NEW f \in DhcpFrame
    PROVE  HandlerOK(s, A, r_dhcp_discover(s, f))
<1>1. CASE s.ip_pool = <<>>
  BY <1>1, NothingDone DEF r_dhcp_discover
<1>2. CASE s.ip_pool # <<>>
  <2> DEFINE o == Lease(f.MAC, lowest(s), DefaultTime(f.time))
             r == r_dhcp_discover(s, f)
  <2>1. /\ r.s = [s EXCEPT !.ip_pool = rest(s), !.offered_IPs = Append(s.offered_IPs, o)]
        /\ r.out = <<Frame("OFFER", o.MAC, o.IP, o.time)>>
    BY <1>2 DEF r_dhcp_discover
  <2>2. o \in LeaseType /\ o.IP = lowest(s)
    BY <1>2, LowestTaken, LeaseMade, DhcpNumbers DEF DhcpFrame
  <2> HIDE DEF o, r
  <2>3. r.out \in Seq(DhcpFrame)
    BY <2>1, <2>2, Answered DEF DhcpFrameType
  <2>4. /\ s.offered_IPs \in Seq(LeaseType) /\ s.given_IPs \in Seq(LeaseType)
        /\ s.ip_pool \in Seq(PoolEntry)
    BY DEF ServerRecord
  <2>5. Append(s.offered_IPs, o) \in Seq(LeaseType)
    BY <2>2, <2>4, LeaseAdded
  <2>6. /\ r.s \in ServerRecord /\ r.s.ip_pool = rest(s) /\ r.s.given_IPs = s.given_IPs
        /\ r.s.offered_IPs = Append(s.offered_IPs, o)
    BY <1>2, <2>1, <2>5, LowestTaken DEF ServerRecord
  <2>7. ASSUME Clean(s, A), ~ HasBuf(r.s) PROVE Clean(r.s, A)
    <3>1. NoDup(s.ip_pool) /\ ~ OnList(Buf, s.ip_pool)
      BY <2>7, PoolSorted DEF Clean, ShareOut
    <3>2. PICK e \in PoolEntry :
              /\ lowest(s) = Address(s, e) /\ OnList(e, s.ip_pool)
              /\ \A x : OnList(x, rest(s)) <=> OnList(x, s.ip_pool) /\ x # e
      BY <1>2, <3>1, LowestTaken
    <3>3. e \in IPv4 /\ o.IP = e
      BY <2>2, <3>1, <3>2 DEF Address, PoolEntry
    <3>4. /\ NoDup(IPs(Append(s.offered_IPs, o)))
          /\ \A x : OnList(x, IPs(Append(s.offered_IPs, o))) <=>
                       OnList(x, IPs(s.offered_IPs)) \/ x = e
      <4>1. NoDup(IPs(s.offered_IPs)) /\ ~ OnList(e, IPs(s.offered_IPs))
        BY <2>7, <3>2, <3>3 DEF Clean, ShareOut
      <4> QED
        BY <2>2, <2>4, <3>3, <4>1, LeaseAdded
    <3>5. NoDup(rest(s))
      BY <1>2, <3>1, LowestTaken
    <3> QED
      BY <2>6, <2>7, <3>2, <3>3, <3>4, <3>5 DEF Clean, ShareOut
  <2> QED
    BY <2>3, <2>6, <2>7 DEF HandlerOK, r
<1> QED
  BY <1>1, <1>2

\* r_dhcp_request: the offer becomes a lease.
LEMMA RequestHandled ==
    ASSUME NEW s \in ServerRecord, NEW A, NEW f \in DhcpFrame
    PROVE  HandlerOK(s, A, r_dhcp_request(s, f))
<1> DEFINE i == find_IP(s.offered_IPs, f.IP)
           g == Lease(f.MAC, f.IP, DefaultTime(f.time))
           r == r_dhcp_request(s, f)
<1>1. /\ s.offered_IPs \in Seq(LeaseType) /\ s.given_IPs \in Seq(LeaseType)
      /\ f.MAC \in DhcpClient /\ f.IP \in IPv4 /\ f.time \in DhcpTime
  BY DEF ServerRecord, DhcpFrame
<1>2. CASE i = 0
  BY <1>2, NothingDone DEF r_dhcp_request
<1>3. CASE i # 0
  <2>1. /\ r.s = [s EXCEPT !.given_IPs = Append(s.given_IPs, g),
                           !.offered_IPs = erase(s.offered_IPs, i)]
        /\ r.out = <<Frame("ACK", g.MAC, g.IP, g.time)>>
    BY <1>3 DEF r_dhcp_request
  <2>2. i \in 1 .. Len(s.offered_IPs) /\ s.offered_IPs[i].IP = f.IP
    BY <1>1, <1>3, LeaseFound
  <2>3. g \in LeaseType /\ g.IP = f.IP
    BY <1>1, LeaseMade, DhcpNumbers
  <2> HIDE DEF i, g, r
  <2>4. r.out \in Seq(DhcpFrame)
    BY <2>1, <2>3, Answered DEF DhcpFrameType
  <2>5. /\ erase(s.offered_IPs, i) \in Seq(LeaseType)
        /\ NoDup(IPs(s.offered_IPs)) =>
              /\ NoDup(IPs(erase(s.offered_IPs, i))) /\ OnList(f.IP, IPs(s.offered_IPs))
              /\ \A ip \in IPv4 : OnList(ip, IPs(erase(s.offered_IPs, i))) <=>
                                     OnList(ip, IPs(s.offered_IPs)) /\ ip # f.IP
    BY <1>1, <2>2, LeaseErased
  <2>6. /\ Append(s.given_IPs, g) \in Seq(LeaseType)
        /\ NoDup(IPs(s.given_IPs)) /\ ~ OnList(f.IP, IPs(s.given_IPs)) =>
              /\ NoDup(IPs(Append(s.given_IPs, g)))
              /\ \A ip : OnList(ip, IPs(Append(s.given_IPs, g))) <=>
                             OnList(ip, IPs(s.given_IPs)) \/ ip = f.IP
    BY <1>1, <2>3, LeaseAdded
  <2>7. /\ r.s \in ServerRecord /\ r.s.ip_pool = s.ip_pool
        /\ r.s.given_IPs = Append(s.given_IPs, g) /\ r.s.offered_IPs = erase(s.offered_IPs, i)
    BY <2>1, <2>5, <2>6 DEF ServerRecord
  <2>8. ASSUME Clean(s, A), ~ HasBuf(r.s) PROVE Clean(r.s, A)
    <3>1. OnList(f.IP, IPs(s.offered_IPs)) /\ ~ OnList(f.IP, IPs(s.given_IPs))
      BY <1>1, <2>5, <2>8 DEF Clean, ShareOut
    <3> QED
      BY <1>1, <2>5, <2>6, <2>7, <2>8, <3>1 DEF Clean, ShareOut
  <2> QED
    BY <2>4, <2>7, <2>8 DEF HandlerOK, r
<1> QED
  BY <1>2, <1>3

\* r_dhcp_ack: the address of an offer goes back to the pool.
LEMMA AckHandled ==
    ASSUME NEW s \in ServerRecord, NEW A, NEW f \in DhcpFrame
    PROVE  HandlerOK(s, A, r_dhcp_ack(s, f))
<1> DEFINE i == find_MAC(s.offered_IPs, f.MAC)
           ip0 == s.offered_IPs[i].IP
           r == r_dhcp_ack(s, f)
<1>1. s.offered_IPs \in Seq(LeaseType) /\ s.ip_pool \in Seq(PoolEntry)
  BY DEF ServerRecord
<1>2. CASE i = 0
  BY <1>2, NothingDone DEF r_dhcp_ack
<1>3. CASE i # 0
  <2>1. /\ r.s = [s EXCEPT !.ip_pool = Append(s.ip_pool, ip0),
                           !.offered_IPs = erase(s.offered_IPs, i)]
        /\ r.out = <<>>
    BY <1>3 DEF r_dhcp_ack
  <2>2. i \in 1 .. Len(s.offered_IPs)
    BY <1>1, <1>3, LeaseFound
  <2>3. ip0 \in IPv4 /\ ip0 \in PoolEntry
    <3>1. s.offered_IPs[i] \in LeaseType
      BY <1>1, <2>2, ElementOfSeq
    <3> QED
      BY <3>1, DhcpNumbers DEF PoolEntry
  <2>4. /\ erase(s.offered_IPs, i) \in Seq(LeaseType)
        /\ NoDup(IPs(s.offered_IPs)) =>
              /\ NoDup(IPs(erase(s.offered_IPs, i))) /\ OnList(ip0, IPs(s.offered_IPs))
              /\ \A ip \in IPv4 : OnList(ip, IPs(erase(s.offered_IPs, i))) <=>
                                     OnList(ip, IPs(s.offered_IPs)) /\ ip # ip0
    BY <1>1, <2>2, LeaseErased
  <2> HIDE DEF i, ip0, r
  <2>5. /\ Append(s.ip_pool, ip0) \in Seq(PoolEntry)
        /\ NoDup(s.ip_pool) /\ ~ OnList(ip0, s.ip_pool) =>
              /\ NoDup(Append(s.ip_pool, ip0))
              /\ \A x : OnList(x, Append(s.ip_pool, ip0)) <=> OnList(x, s.ip_pool) \/ x = ip0
    BY <1>1, <2>3, AppendProperties, ListAppend
  <2>6. /\ r.s \in ServerRecord /\ r.s.ip_pool = Append(s.ip_pool, ip0)
        /\ r.s.given_IPs = s.given_IPs /\ r.s.offered_IPs = erase(s.offered_IPs, i)
    BY <2>1, <2>4, <2>5 DEF ServerRecord
  <2>7. ASSUME Clean(s, A), ~ HasBuf(r.s) PROVE Clean(r.s, A)
    <3>1. OnList(ip0, IPs(s.offered_IPs)) /\ ~ OnList(ip0, s.ip_pool)
      BY <2>3, <2>4, <2>7 DEF Clean, ShareOut
    <3> QED
      BY <2>3, <2>4, <2>5, <2>6, <2>7, <3>1 DEF Clean, ShareOut
  <2> QED
    BY <2>1, <2>6, <2>7 DEF HandlerOK, r
<1> QED
  BY <1>2, <1>3

\* The server when lease i is taken back as a pointer into the buffer.
Back(s, i) == [s EXCEPT !.ip_pool = Append(s.ip_pool, Buf),
                        !.given_IPs = erase(s.given_IPs, i)]

\* A lease found for a frame's address is taken back.
LEMMA TakenBack ==
    ASSUME NEW s \in ServerRecord, NEW f \in DhcpFrame,
           NEW i, i = find_IP(s.given_IPs, f.IP), i # 0,
           NEW back, back = Back(s, i)
    PROVE  /\ i \in 1 .. Len(s.given_IPs) /\ s.given_IPs[i].IP = f.IP
           /\ s.given_IPs[i].time \in DhcpTime
           /\ back \in ServerRecord /\ back.ip_pool = Append(s.ip_pool, Buf)
           /\ back.ip_pool # <<>> /\ OnList(Buf, back.ip_pool) /\ HasBuf(back)
           /\ back.given_IPs = erase(s.given_IPs, i) /\ back.offered_IPs = s.offered_IPs
           /\ back.buf = s.buf
           /\ NoDup(s.ip_pool) /\ ~ HasBuf(s) =>
                 /\ NoDup(back.ip_pool)
                 /\ \A x : OnList(x, back.ip_pool) <=> OnList(x, s.ip_pool) \/ x = Buf
<1>1. s.given_IPs \in Seq(LeaseType) /\ s.ip_pool \in Seq(PoolEntry) /\ Buf \in PoolEntry
  BY DEF ServerRecord, PoolEntry
<1>2. i \in 1 .. Len(s.given_IPs) /\ s.given_IPs[i].IP = f.IP
  BY <1>1, LeaseFound
<1>3. s.given_IPs[i].time \in DhcpTime
  <2>1. s.given_IPs[i] \in LeaseType
    BY <1>1, <1>2, ElementOfSeq
  <2> QED
    BY <2>1, DhcpNumbers
<1>4. erase(s.given_IPs, i) \in Seq(LeaseType)
  BY <1>1, <1>2, LeaseErased
<1>5. /\ Append(s.ip_pool, Buf) \in Seq(PoolEntry) /\ Append(s.ip_pool, Buf) # <<>>
      /\ Len(Append(s.ip_pool, Buf)) = Len(s.ip_pool) + 1
      /\ Append(s.ip_pool, Buf)[Len(s.ip_pool) + 1] = Buf /\ Len(s.ip_pool) \in Nat
  BY <1>1, AppendProperties, LenProperties
<1>6. OnList(Buf, Append(s.ip_pool, Buf))
  BY <1>5 DEF OnList
<1>7. NoDup(s.ip_pool) /\ ~ OnList(Buf, s.ip_pool) =>
          /\ NoDup(Append(s.ip_pool, Buf))
          /\ \A x : OnList(x, Append(s.ip_pool, Buf)) <=> OnList(x, s.ip_pool) \/ x = Buf
  BY <1>1, ListAppend
<1>8. /\ back \in ServerRecord /\ back.ip_pool = Append(s.ip_pool, Buf)
      /\ back.given_IPs = erase(s.given_IPs, i) /\ back.offered_IPs = s.offered_IPs
      /\ back.buf = s.buf
  BY <1>4, <1>5 DEF ServerRecord, Back
<1>9. HasBuf(back)
  BY <1>6, <1>8, PoolSorted
<1>10. HasBuf(s) <=> OnList(Buf, s.ip_pool)
  BY PoolSorted
<1> QED
  BY <1>2, <1>3, <1>5, <1>6, <1>7, <1>8, <1>9, <1>10

\* r_dhcp_release.
LEMMA ReleaseHandled ==
    ASSUME NEW s \in ServerRecord, NEW A, NEW f \in DhcpFrame
    PROVE  HandlerOK(s, A, r_dhcp_release(s, f))
<1> DEFINE i == find_IP(s.given_IPs, f.IP)
           back == Back(s, i)
<1>1. CASE i = 0
  BY <1>1, NothingDone DEF r_dhcp_release
<1>2. CASE i # 0
  <2>1. r_dhcp_release(s, f) = [s |-> back, out |-> <<>>]
    BY <1>2 DEF r_dhcp_release, Back
  <2>2. i = find_IP(s.given_IPs, f.IP) /\ back = Back(s, i)
    OBVIOUS
  <2> HIDE DEF i, back
  <2>3. back \in ServerRecord /\ HasBuf(back)
    BY <1>2, <2>2, TakenBack
  <2> QED
    BY <2>1, <2>3 DEF HandlerOK
<1> QED
  BY <1>1, <1>2

\* r_dhcp_extend_request: unless a pointer into the buffer stays in the pool, it is
\* the pointer itself that was taken as the lowest address.
LEMMA ExtendHandled ==
    ASSUME NEW s \in ServerRecord, NEW A, NEW f \in DhcpFrame, s.buf = f.IP
    PROVE  HandlerOK(s, A, r_dhcp_extend_request(s, f))
<1> DEFINE i == find_IP(s.given_IPs, f.IP)
           back == Back(s, i)
           g == Lease(f.MAC, lowest(back), Uint(s.given_IPs[i].time + DefaultTime(f.time)))
           r == r_dhcp_extend_request(s, f)
<1>1. CASE i = 0
  BY <1>1, NothingDone DEF r_dhcp_extend_request
<1>2. CASE i # 0
  <2>1. /\ r.s = [back EXCEPT !.ip_pool = rest(back), !.given_IPs = Append(back.given_IPs, g)]
        /\ r.out = <<Frame("RESPONSE_EXTEND", g.MAC, g.IP, g.time)>>
    BY <1>2 DEF r_dhcp_extend_request, Back
  <2>2. /\ i \in 1 .. Len(s.given_IPs) /\ s.given_IPs[i].IP = f.IP
        /\ s.given_IPs[i].time \in DhcpTime
        /\ back \in ServerRecord
        /\ back.ip_pool # <<>> /\ OnList(Buf, back.ip_pool)
        /\ back.given_IPs = erase(s.given_IPs, i) /\ back.offered_IPs = s.offered_IPs
        /\ back.buf = s.buf
        /\ NoDup(s.ip_pool) /\ ~ HasBuf(s) =>
              /\ NoDup(back.ip_pool)
              /\ \A x : OnList(x, back.ip_pool) <=> OnList(x, s.ip_pool) \/ x = Buf
    <3>1. i = find_IP(s.given_IPs, f.IP) /\ back = Back(s, i)
      OBVIOUS
    <3> HIDE DEF i, back
    <3> QED
      BY <1>2, <3>1, TakenBack
  <2> HIDE DEF i, back
  <2>3. rest(back) \in Seq(PoolEntry) /\ lowest(back) \in IPv4
    BY <2>2, LowestTaken
  <2>4. g \in LeaseType /\ g.IP = lowest(back)
    <3>1. f.MAC \in DhcpClient /\ f.time \in DhcpTime
      BY DEF DhcpFrame
    <3>2. DefaultTime(f.time) \in Int /\ s.given_IPs[i].time \in Int
      BY <2>2, <3>1, DhcpNumbers
    <3>3. Uint(s.given_IPs[i].time + DefaultTime(f.time)) \in DhcpTime
      BY <3>2, DhcpNumbers
    <3> QED
      BY <2>3, <3>1, <3>3, LeaseMade
  <2> HIDE DEF g, r
  <2>5. r.out \in Seq(DhcpFrame)
    BY <2>1, <2>4, Answered DEF DhcpFrameType
  <2>6. /\ back.given_IPs \in Seq(LeaseType)
        /\ Append(back.given_IPs, g) \in Seq(LeaseType)
        /\ NoDup(IPs(back.given_IPs)) /\ ~ OnList(g.IP, IPs(back.given_IPs)) =>
              /\ NoDup(IPs(Append(back.given_IPs, g)))
              /\ \A ip : OnList(ip, IPs(Append(back.given_IPs, g))) <=>
                             OnList(ip, IPs(back.given_IPs)) \/ ip = g.IP
    <3>1. back.given_IPs \in Seq(LeaseType)
      BY <2>2 DEF ServerRecord
    <3> QED
      BY <2>4, <3>1, LeaseAdded
  <2>7. /\ r.s \in ServerRecord /\ r.s.ip_pool = rest(back)
        /\ r.s.given_IPs = Append(back.given_IPs, g) /\ r.s.offered_IPs = s.offered_IPs
    BY <2>1, <2>2, <2>3, <2>6 DEF ServerRecord
  <2>8. ASSUME Clean(s, A), ~ HasBuf(r.s) PROVE Clean(r.s, A)
    <3>1. /\ NoDup(s.ip_pool) /\ ~ HasBuf(s) /\ ~ OnList(Buf, s.ip_pool)
          /\ ~ OnList(Buf, rest(back))
      BY <2>7, <2>8, PoolSorted DEF Clean, ShareOut
    <3>2. /\ NoDup(back.ip_pool)
          /\ \A x : OnList(x, back.ip_pool) <=> OnList(x, s.ip_pool) \/ x = Buf
      BY <2>2, <3>1
    <3>3. PICK e \in PoolEntry :
              /\ NoDup(rest(back)) /\ lowest(back) = Address(back, e)
              /\ \A x : OnList(x, rest(back)) <=> OnList(x, back.ip_pool) /\ x # e
      BY <2>2, <3>2, LowestTaken
    <3>4. e = Buf
      BY <2>2, <3>1, <3>3
    <3>5. g.IP = f.IP
      BY <2>2, <2>4, <3>3, <3>4 DEF Address
    <3>6. \A x : OnList(x, rest(back)) <=> OnList(x, s.ip_pool)
      BY <3>1, <3>2, <3>3, <3>4
    <3>7. s.given_IPs \in Seq(LeaseType) /\ f.IP \in IPv4
      BY DEF ServerRecord, DhcpFrame
    <3>8. NoDup(IPs(s.given_IPs))
      BY <2>8 DEF Clean, ShareOut
    <3>9. /\ NoDup(IPs(back.given_IPs)) /\ OnList(f.IP, IPs(s.given_IPs))
          /\ \A ip \in IPv4 : OnList(ip, IPs(back.given_IPs)) <=>
                                 OnList(ip, IPs(s.given_IPs)) /\ ip # f.IP
      BY <2>2, <3>7, <3>8, LeaseErased
    <3>10. /\ NoDup(IPs(r.s.given_IPs))
           /\ \A ip \in IPv4 : OnList(ip, IPs(r.s.given_IPs)) <=> OnList(ip, IPs(s.given_IPs))
      BY <2>6, <2>7, <3>5, <3>7, <3>9
    <3> QED
      BY <2>7, <2>8, <3>3, <3>6, <3>10 DEF Clean, ShareOut
  <2> QED
    BY <2>5, <2>7, <2>8 DEF HandlerOK, r
<1> QED
  BY <1>1, <1>2

LEMMA FrameHandled ==
    ASSUME NEW s \in ServerRecord, NEW A, NEW f \in DhcpFrame, s.buf = f.IP
    PROVE  HandlerOK(s, A, server_processFrame(s, f))
<1> DEFINE r == server_processFrame(s, f)
<1>1. CASE f.type = "DISCOVER"
  <2>1. r = r_dhcp_discover(s, f)
    BY <1>1 DEF server_processFrame
  <2> QED
    BY <2>1, DiscoverHandled
<1>2. CASE f.type = "REQUEST"
  <2>1. r = r_dhcp_request(s, f)
    BY <1>2 DEF server_processFrame
  <2> QED
    BY <2>1, RequestHandled
<1>3. CASE f.type = "ACK"
  <2>1. r = r_dhcp_ack(s, f)
    BY <1>3 DEF server_processFrame
  <2> QED
    BY <2>1, AckHandled
<1>4. CASE f.type = "RELEASE"
  <2>1. r = r_dhcp_release(s, f)
    BY <1>4 DEF server_processFrame
  <2> QED
    BY <2>1, ReleaseHandled
<1>5. CASE f.type = "REQUEST_EXTEND"
  <2>1. r = r_dhcp_extend_request(s, f)
    BY <1>5 DEF server_processFrame
  <2> QED
    BY <2>1, ExtendHandled
<1>6. CASE f.type \notin {"DISCOVER", "REQUEST", "ACK", "RELEASE", "REQUEST_EXTEND"}
  <2>1. r = [s |-> s, out |-> <<>>]
    BY <1>6 DEF server_processFrame
  <2> QED
    BY <2>1, NothingDone
<1> QED
  BY <1>1, <1>2, <1>3, <1>4, <1>5, <1>6
-----------------------------------------------------------------------------
\* The frames on the links.
LEMMA SendsType ==
    ASSUME NEW net \in [DhcpLink -> Seq(DhcpFrame)], NEW frames \in Seq(DhcpFrame), NEW m, NEW S
    PROVE  sends(net, m, S, frames) \in [DhcpLink -> Seq(DhcpFrame)]
<1>1. ASSUME NEW l \in DhcpLink PROVE net[l] \o frames \in Seq(DhcpFrame)
  BY ConcatProperties
<1> QED
  BY <1>1 DEF sends

LEMMA FrameTaken ==
    ASSUME dhcp_net \in [DhcpLink -> Seq(DhcpFrame)], NEW l \in DhcpLink, dhcp_net[l] # <<>>
    PROVE  /\ Head(dhcp_net[l]) \in DhcpFrame
           /\ [dhcp_net EXCEPT ![l] = Tail(@)] \in [DhcpLink -> Seq(DhcpFrame)]
<1>1. dhcp_net[l] \in Seq(DhcpFrame)
  OBVIOUS
<1>2. Head(dhcp_net[l]) \in DhcpFrame /\ Tail(dhcp_net[l]) \in Seq(DhcpFrame)
  BY <1>1, HeadTailProperties
<1> QED
  BY <1>2

LEMMA ServerStep ==
    ASSUME DhcpInv, NEW m, NEW n, <<n, m>> \in DhcpLink, ServerReceives(m, n)
    PROVE  DhcpInv'
<1> DEFINE f == Head(dhcp_net[<<n, m>>])
           s == [dhcp_server[m] EXCEPT !.buf = f.IP]
           r == server_processFrame(s, f)
           net == [dhcp_net EXCEPT ![<<n, m>>] = Tail(@)]
<1>1. /\ m \in DhcpServer /\ dhcp_net[<<n, m>>] # <<>>
      /\ dhcp_server' = [dhcp_server EXCEPT ![m] = r.s]
      /\ dhcp_net' = sends(net, m, {n}, r.out)
      /\ dhcp_spoilt' = (dhcp_spoilt \/ HasBuf(r.s))
      /\ UNCHANGED <<dhcp_client, dhcp_typed, dhcp_added>>
  BY DEF ServerReceives, HasBuf
<1>2. f \in DhcpFrame /\ net \in [DhcpLink -> Seq(DhcpFrame)]
  BY <1>1, FrameTaken DEF DhcpInv
<1>3. dhcp_server[m] \in ServerRecord
  BY <1>1 DEF DhcpInv
<1> HIDE DEF f, net
<1>4. /\ s \in ServerRecord /\ s.buf = f.IP /\ s.ip_pool = dhcp_server[m].ip_pool
      /\ s.offered_IPs = dhcp_server[m].offered_IPs /\ s.given_IPs = dhcp_server[m].given_IPs
  BY <1>2, <1>3 DEF ServerRecord, DhcpFrame
<1> HIDE DEF s
<1>5. HandlerOK(s, dhcp_added[m], r)
  BY <1>2, <1>4, FrameHandled
<1>6. Clean(dhcp_server[m], dhcp_added[m]) => Clean(s, dhcp_added[m])
  BY <1>4 DEF Clean, HasBuf
<1> HIDE DEF r
<1>7. dhcp_server' \in [DhcpServer -> ServerRecord]
  BY <1>1, <1>5 DEF HandlerOK, DhcpInv
<1>8. dhcp_net' \in [DhcpLink -> Seq(DhcpFrame)]
  BY <1>1, <1>2, <1>5, SendsType DEF HandlerOK
<1>9. dhcp_spoilt' \in BOOLEAN
  BY <1>1 DEF DhcpInv
<1>10. ASSUME ~ dhcp_spoilt', NEW x \in DhcpServer PROVE Clean(dhcp_server[x], dhcp_added[x])'
  <2>1. ~ dhcp_spoilt /\ ~ HasBuf(r.s)
    BY <1>1, <1>10
  <2>2. Clean(dhcp_server[x], dhcp_added[x]) /\ Clean(dhcp_server[m], dhcp_added[m])
    BY <1>1, <2>1 DEF DhcpInv
  <2>3. Clean(r.s, dhcp_added[m])
    BY <1>5, <1>6, <2>1, <2>2 DEF HandlerOK
  <2>4. dhcp_server'[x] = IF x = m THEN r.s ELSE dhcp_server[x]
    BY <1>1 DEF DhcpInv
  <2>5. Clean(dhcp_server'[x], dhcp_added[x])
    BY <2>2, <2>3, <2>4
  <2> QED
    BY <1>1, <2>5 DEF Clean, HasBuf
<1> QED
  BY <1>1, <1>7, <1>8, <1>9, <1>10 DEF DhcpInv
-----------------------------------------------------------------------------
\* A new pool and new leases of a server.
LEMMA ServerChanged ==
    ASSUME NEW s \in ServerRecord, NEW pool \in Seq(PoolEntry), NEW given \in Seq(LeaseType),
           NEW A, ~ OnList(Buf, pool), ShareOut(pool, IPs(s.offered_IPs), IPs(given), A)
    PROVE  Clean([s EXCEPT !.ip_pool = pool, !.given_IPs = given], A)
<1> DEFINE t == [s EXCEPT !.ip_pool = pool, !.given_IPs = given]
<1>1. /\ t.ip_pool = pool /\ t.given_IPs = given /\ t.offered_IPs = s.offered_IPs
      /\ t \in ServerRecord
  BY DEF ServerRecord
<1> HIDE DEF t
<1>2. ~ HasBuf(t)
  BY <1>1, PoolSorted
<1>3. Clean(t, A)
  BY <1>1, <1>2 DEF Clean
<1> QED
  BY <1>3 DEF t

\* A command of an administrator, which concerns one server.
LEMMA CommandKeeps ==
    ASSUME DhcpInv, NEW m \in DhcpServer, NEW s \in ServerRecord, NEW A \in SUBSET IPv4,
           dhcp_server' = [dhcp_server EXCEPT ![m] = s],
           dhcp_added' = [dhcp_added EXCEPT ![m] = A],
           dhcp_net' \in [DhcpLink -> Seq(DhcpFrame)],
           dhcp_client' \in [DhcpClient -> ClientRecord], dhcp_typed' \in 0 .. MaxCommands,
           dhcp_spoilt' \in BOOLEAN,
           ~ dhcp_spoilt' => ~ dhcp_spoilt /\ Clean(s, A)
    PROVE  DhcpInv'
<1>1. dhcp_server' \in [DhcpServer -> ServerRecord] /\ dhcp_added' \in [DhcpServer -> SUBSET IPv4]
  BY DEF DhcpInv
<1>2. ASSUME ~ dhcp_spoilt', NEW x \in DhcpServer PROVE Clean(dhcp_server[x], dhcp_added[x])'
  <2>1. Clean(dhcp_server[x], dhcp_added[x]) /\ Clean(s, A)
    BY <1>2 DEF DhcpInv
  <2>2. /\ dhcp_server'[x] = IF x = m THEN s ELSE dhcp_server[x]
        /\ dhcp_added'[x] = IF x = m THEN A ELSE dhcp_added[x]
    BY DEF DhcpInv
  <2>3. Clean(dhcp_server'[x], dhcp_added'[x])
    BY <2>1, <2>2
  <2> QED
    BY <2>3 DEF Clean, HasBuf
<1> QED
  BY <1>1, <1>2 DEF DhcpInv

LEMMA InUseIs ==
    ASSUME NEW s \in ServerRecord
    PROVE  \A x : x \in InUse(s) <=> OnList(x, IPs(s.offered_IPs)) \/ OnList(x, IPs(s.given_IPs))
<1>1. s.offered_IPs \in Seq(LeaseType) /\ s.given_IPs \in Seq(LeaseType)
  BY DEF ServerRecord
<1>2. ASSUME NEW list \in Seq(LeaseType), NEW x
      PROVE  OnList(x, IPs(list)) <=> \E i \in 1 .. Len(list) : list[i].IP = x
  BY IPsFacts DEF OnList
<1>3. ASSUME NEW x
      PROVE  x \in InUse(s) <=> \/ \E i \in 1 .. Len(s.offered_IPs) : s.offered_IPs[i].IP = x
                                \/ \E i \in 1 .. Len(s.given_IPs) : s.given_IPs[i].IP = x
  BY DEF InUse
<1> QED
  BY <1>1, <1>2, <1>3

LEMMA PoolFound ==
    ASSUME NEW s \in ServerRecord, ~ HasBuf(s)
    PROVE  \A ip : find_ip_pool(s, ip) <=> OnList(ip, s.ip_pool)
<1>1. s.ip_pool \in Seq(PoolEntry) /\ DOMAIN s.ip_pool = 1 .. Len(s.ip_pool)
  BY LenProperties DEF ServerRecord
<1>2. \A i \in 1 .. Len(s.ip_pool) : Address(s, s.ip_pool[i]) = s.ip_pool[i]
  BY <1>1 DEF HasBuf, Address
<1> QED
  BY <1>2 DEF find_ip_pool, OnList

\* add_pool: what it adds is the part of the block that the pool lacks.
LEMMA BlockAddresses ==
    ASSUME NEW b \in DhcpBlock
    PROVE  block_addresses(b) \in Seq(IPv4)
<1> DEFINE M == 2^b.shift
<1>1. M \in Nat \ {0} /\ b.base \in 0 .. 255
  BY DhcpAssumption
<1>2. block_addresses(b) = [i \in 1 .. M |-> ((b.base \div M) * M + i - 1) % 256]
  BY DEF block_addresses
<1> HIDE DEF M
<1>3. (b.base \div M) * M \in Int
  BY <1>1
<1>4. \A i \in 1 .. M : ((b.base \div M) * M + i - 1) % 256 \in IPv4
  <2> DEFINE c == (b.base \div M) * M
  <2>1. \A n \in Int : n % 256 \in IPv4
    BY DEF IPv4
  <2>2. c \in Int
    BY <1>3
  <2> HIDE DEF c
  <2>3. \A i \in 1 .. M : c + i - 1 \in Int
    BY <1>1, <2>2
  <2>4. \A i \in 1 .. M : (c + i - 1) % 256 \in IPv4
    BY <2>1, <2>3
  <2> QED
    BY <2>4 DEF c
<1>5. block_addresses(b) \in [1 .. M -> IPv4]
  BY <1>2, <1>4
<1> QED
  BY <1>1, <1>5, SeqDef

LEMMA PoolGrows ==
    ASSUME DhcpInv, NEW m \in DhcpServer, NEW b \in DhcpBlock, add_pool(m, b),
           dhcp_typed' \in 0 .. MaxCommands
    PROVE  DhcpInv'
<1> DEFINE s == dhcp_server[m]
           block == block_addresses(b)
           I == {i \in DOMAIN block : /\ ~ find_ip_pool(s, block[i])
                                      /\ \A j \in 1 .. i - 1 : block[j] # block[i]}
           new == Chosen(block, I)
           A == dhcp_added[m] \cup {block[i] : i \in DOMAIN block}
           pool == s.ip_pool \o new
           t == [s EXCEPT !.ip_pool = pool, !.given_IPs = s.given_IPs]
<1>1. /\ dhcp_server' = [dhcp_server EXCEPT ![m].ip_pool = pool]
      /\ dhcp_added' = [dhcp_added EXCEPT ![m] = A]
      /\ dhcp_spoilt' = (dhcp_spoilt \/ \E i \in 1 .. Len(new) : new[i] \in InUse(s))
      /\ dhcp_client' = dhcp_client /\ dhcp_net' = dhcp_net
  BY DEF add_pool
<1>2. s \in ServerRecord /\ dhcp_added[m] \in SUBSET IPv4
  BY DEF DhcpInv
<1>3. block \in Seq(IPv4) /\ DOMAIN block = 1 .. Len(block) /\ Len(block) \in Nat
  BY BlockAddresses, LenProperties
<1> HIDE DEF block
<1>4. I \subseteq 1 .. Len(block)
  BY <1>3
<1>5. ASSUME NEW i \in I, NEW j \in I, block[i] = block[j] PROVE i = j
  <2>1. i \in Nat /\ j \in Nat /\ i >= 1 /\ j >= 1
    BY <1>3, <1>4
  <2>2. \A k \in 1 .. i - 1 : block[k] # block[i]
    OBVIOUS
  <2>3. \A k \in 1 .. j - 1 : block[k] # block[j]
    OBVIOUS
  <2> HIDE DEF I
  <2> QED
    BY <1>5, <2>1, <2>2, <2>3
<1>6. \A i \in 1 .. Len(block) :
          i \in I <=> ~ find_ip_pool(s, block[i]) /\ \A j \in 1 .. i - 1 : block[j] # block[i]
  BY <1>3
<1> HIDE DEF I
<1>7. /\ new \in Seq(IPv4) /\ NoDup(new)
      /\ \A x : OnList(x, new) <=> \E i \in I : block[i] = x
  BY <1>3, <1>4, <1>5, ChosenFrom, ListChosen
<1>8. A \in SUBSET IPv4 /\ \A x : x \in A <=> x \in dhcp_added[m] \/ OnList(x, block)
  <2>1. \A i \in 1 .. Len(block) : block[i] \in IPv4
    BY <1>3, ElementOfSeq
  <2> QED
    BY <1>2, <1>3, <2>1 DEF OnList
<1> HIDE DEF A, new, s
<1>9. new \in Seq(PoolEntry) /\ s.ip_pool \in Seq(PoolEntry)
  <2>1. \A i \in 1 .. Len(new) : new[i] \in IPv4
    BY <1>7, ElementOfSeq
  <2>2. new \in [1 .. Len(new) -> PoolEntry] /\ Len(new) \in Nat
    BY <1>7, <2>1, LenProperties DEF PoolEntry
  <2> QED
    BY <1>2, <2>2, SeqDef DEF ServerRecord
<1>10. pool \in Seq(PoolEntry)
  BY <1>9, ConcatProperties
<1> HIDE DEF pool
<1>11. t \in ServerRecord /\ dhcp_server' = [dhcp_server EXCEPT ![m] = t]
  BY <1>1, <1>2, <1>10 DEF ServerRecord, s
<1>12. ASSUME ~ dhcp_spoilt' PROVE ~ dhcp_spoilt /\ Clean(t, A)
  <2>1. ~ dhcp_spoilt /\ \A i \in 1 .. Len(new) : new[i] \notin InUse(s)
    BY <1>1, <1>12
  <2>2. \A x : OnList(x, new) => x \notin InUse(s)
    BY <2>1 DEF OnList
  <2>3. Clean(s, dhcp_added[m])
    BY <2>1 DEF DhcpInv, s
  <2>4. /\ ~ HasBuf(s) /\ ~ OnList(Buf, s.ip_pool)
        /\ ShareOut(s.ip_pool, IPs(s.offered_IPs), IPs(s.given_IPs), dhcp_added[m])
    BY <1>2, <2>3, PoolSorted DEF Clean
  <2>5. \A ip : find_ip_pool(s, ip) <=> OnList(ip, s.ip_pool)
    BY <1>2, <2>4, PoolFound
  <2>6. \A x : OnList(x, new) => OnList(x, block) /\ ~ OnList(x, s.ip_pool)
    BY <1>4, <1>6, <1>7, <2>5 DEF OnList
  <2>7. ASSUME NEW x, OnList(x, block), ~ OnList(x, s.ip_pool) PROVE OnList(x, new)
    <3> DEFINE hits == {i \in 1 .. Len(block) : block[i] = x}
    <3>1. hits \subseteq Nat /\ hits # {}
      BY <1>3, <2>7 DEF OnList
    <3>2. PICK i \in hits : \A j \in hits : i <= j
      BY <3>1, LeastNumber
    <3>3. \A j \in 1 .. i - 1 : block[j] # block[i]
      BY <1>3, <3>2
    <3>4. i \in I
      BY <1>6, <2>5, <2>7, <3>2, <3>3
    <3> QED
      BY <1>7, <3>2, <3>4
  <2>8. /\ NoDup(s.ip_pool \o new)
        /\ \A x \in PoolEntry : OnList(x, s.ip_pool \o new) <=> OnList(x, s.ip_pool) \/ OnList(x, new)
    <3>1. NoDup(s.ip_pool)
      BY <2>4 DEF ShareOut
    <3> QED
      BY <1>7, <1>9, <2>6, <3>1, ListConcat
  <2>9. ~ OnList(Buf, new)
    BY <1>7, ElementOfSeq, DhcpNumbers DEF OnList
  <2>10. ~ OnList(Buf, pool)
    BY <2>4, <2>8, <2>9 DEF PoolEntry, pool
  <2>11. ShareOut(pool, IPs(s.offered_IPs), IPs(s.given_IPs), A)
    <3>1. \A ip \in IPv4 : OnList(ip, pool) <=> OnList(ip, s.ip_pool) \/ OnList(ip, new)
      BY <2>8 DEF PoolEntry, pool
    <3>2. \A ip \in IPv4 : OnList(ip, new) => /\ ~ OnList(ip, IPs(s.offered_IPs))
                                              /\ ~ OnList(ip, IPs(s.given_IPs))
      BY <1>2, <2>2, InUseIs
    <3>3. \A ip \in IPv4 : ip \in A <=> ip \in dhcp_added[m] \/ OnList(ip, new)
      <4>1. \A ip \in IPv4 : OnList(ip, s.ip_pool) => ip \in dhcp_added[m]
        BY <2>4 DEF ShareOut
      <4> QED
        BY <1>8, <2>6, <2>7, <4>1
    <3>4. NoDup(pool)
      BY <2>8 DEF pool
    <3> QED
      BY <2>4, <3>1, <3>2, <3>3, <3>4 DEF ShareOut
  <2>12. s.given_IPs \in Seq(LeaseType)
    BY <1>2 DEF ServerRecord
  <2> QED
    BY <1>2, <1>10, <2>1, <2>10, <2>11, <2>12, ServerChanged
<1>13. dhcp_spoilt' \in BOOLEAN
  BY <1>1 DEF DhcpInv
<1> HIDE DEF t
<1>14. dhcp_net' \in [DhcpLink -> Seq(DhcpFrame)] /\ dhcp_client' \in [DhcpClient -> ClientRecord]
  BY <1>1 DEF DhcpInv
<1> QED
  BY <1>1, <1>8, <1>11, <1>12, <1>13, <1>14, CommandKeeps

\* print_pool.
LEMMA PoolPrinted ==
    ASSUME DhcpInv, NEW m \in DhcpServer, print_pool(m), dhcp_typed' \in 0 .. MaxCommands
    PROVE  DhcpInv'
<1> DEFINE s == dhcp_server[m]
           pool == sort_pool(s)
           A == dhcp_added[m]
           t == [s EXCEPT !.ip_pool = pool, !.given_IPs = s.given_IPs]
<1>1. /\ dhcp_server' = [dhcp_server EXCEPT ![m].ip_pool = pool]
      /\ dhcp_client' = dhcp_client /\ dhcp_net' = dhcp_net
      /\ dhcp_added' = dhcp_added /\ dhcp_spoilt' = dhcp_spoilt
  BY DEF print_pool
<1>2. s \in ServerRecord /\ A \in SUBSET IPv4
  BY DEF DhcpInv
<1>3. dhcp_added' = [dhcp_added EXCEPT ![m] = A]
  BY <1>1 DEF DhcpInv
<1>4. s.given_IPs \in Seq(LeaseType)
  BY <1>2 DEF ServerRecord
<1>5. /\ pool \in Seq(PoolEntry)
      /\ NoDup(s.ip_pool) => NoDup(pool)
      /\ \A x : OnList(x, pool) <=> OnList(x, s.ip_pool)
      /\ HasBuf(s) <=> OnList(Buf, s.ip_pool)
  BY <1>2, PoolSorted
<1> HIDE DEF pool, s, A
<1>6. t \in ServerRecord /\ dhcp_server' = [dhcp_server EXCEPT ![m] = t]
  <2>1. dhcp_server' = [dhcp_server EXCEPT ![m] = [s EXCEPT !.ip_pool = pool]]
    BY <1>1 DEF s
  <2>2. t = [s EXCEPT !.ip_pool = pool] /\ t \in ServerRecord
    BY <1>2, <1>5 DEF ServerRecord
  <2> QED
    BY <2>1, <2>2
<1>7. ASSUME ~ dhcp_spoilt PROVE Clean(t, A)
  <2>1. Clean(s, A)
    BY <1>7 DEF DhcpInv, s, A
  <2>2. ~ OnList(Buf, pool) /\ ShareOut(pool, IPs(s.offered_IPs), IPs(s.given_IPs), A)
    BY <1>5, <2>1 DEF Clean, ShareOut
  <2> QED
    BY <1>2, <1>4, <1>5, <2>2, ServerChanged
<1>8. /\ dhcp_net' \in [DhcpLink -> Seq(DhcpFrame)] /\ dhcp_client' \in [DhcpClient -> ClientRecord]
      /\ dhcp_spoilt' \in BOOLEAN
  BY <1>1 DEF DhcpInv
<1> HIDE DEF t
<1> QED
  BY <1>1, <1>2, <1>3, <1>6, <1>7, <1>8, CommandKeeps

\* add_time: the leases when the time has passed, in the order of the time left.
Aged(given, t) ==
    LET timed == [i \in DOMAIN given |-> [given[i] EXCEPT !.time = Uint(@ - t)]]
    IN  Sorted(timed, [i \in DOMAIN timed |-> timed[i].time])

LEMMA LeaseTimed ==
    ASSUME NEW l \in LeaseType, NEW time \in DhcpTime
    PROVE  [l EXCEPT !.time = time] \in LeaseType /\ [l EXCEPT !.time = time].IP = l.IP
<1>1. LeaseType = [MAC : DhcpClient, IP : IPv4, time : DhcpTime]
  BY DEF LeaseType, IPv4, DhcpTime
<1> QED
  BY <1>1

LEMMA LeasesAged ==
    ASSUME NEW given \in Seq(LeaseType), NEW t \in Int
    PROVE  /\ Aged(given, t) \in Seq(LeaseType)
           /\ NoDup(IPs(given)) => NoDup(IPs(Aged(given, t)))
           /\ \A x : OnList(x, IPs(Aged(given, t))) <=> OnList(x, IPs(given))
<1> DEFINE timed == [i \in DOMAIN given |-> [given[i] EXCEPT !.time = Uint(@ - t)]]
           key == [i \in DOMAIN timed |-> timed[i].time]
           aged == Sorted(timed, key)
<1>1. DOMAIN given = 1 .. Len(given) /\ Len(given) \in Nat
  BY LenProperties
<1>2. ASSUME NEW i \in 1 .. Len(given)
      PROVE  timed[i] \in LeaseType /\ timed[i].IP = given[i].IP /\ timed[i].time \in Int
  <2>1. given[i] \in LeaseType
    BY ElementOfSeq
  <2>2. given[i].time \in Int
    BY <2>1, DhcpNumbers
  <2>3. Uint(given[i].time - t) \in DhcpTime
    BY <2>2, DhcpNumbers
  <2>4. timed[i] = [given[i] EXCEPT !.time = Uint(given[i].time - t)]
    BY <1>1
  <2> HIDE DEF timed
  <2>5. timed[i] \in LeaseType
    BY <2>1, <2>3, <2>4, LeaseTimed
  <2>6. timed[i].IP = given[i].IP
    BY <2>1, <2>3, <2>4, LeaseTimed
  <2> QED
    BY <2>5, <2>6, DhcpNumbers
<1>3. DOMAIN timed = 1 .. Len(given)
  BY <1>1
<1> HIDE DEF timed
<1>4. timed \in Seq(LeaseType) /\ Len(timed) = Len(given)
  <2>1. timed \in [1 .. Len(given) -> LeaseType]
    <3>1. timed = [i \in 1 .. Len(given) |-> timed[i]]
      BY <1>1, <1>3 DEF timed
    <3> QED
      BY <1>2, <3>1
  <2>2. timed \in Seq(LeaseType)
    BY <1>1, <2>1, SeqDef
  <2> QED
    BY <1>1, <2>1, <2>2, LenProperties
<1>5. key \in [1 .. Len(timed) -> Int]
  BY <1>2, <1>3, <1>4
<1> HIDE DEF key
<1>6. PICK f : Reorders(f, timed, aged)
  BY <1>4, <1>5, SortedOrder
<1> HIDE DEF aged
<1>7. aged \in Seq(LeaseType) /\ Len(aged) = Len(timed)
  BY <1>4, <1>6, ListReordered
<1>8. IPs(timed) = IPs(given)
  <2>1. /\ IPs(timed) \in Seq(IPv4) /\ IPs(given) \in Seq(IPv4)
        /\ Len(IPs(timed)) = Len(given) /\ Len(IPs(given)) = Len(given)
    BY <1>4, IPsFacts
  <2>2. \A i \in 1 .. Len(given) : IPs(timed)[i] = IPs(given)[i]
    BY <1>2, <1>4, IPsFacts
  <2> QED
    BY <2>1, <2>2, SeqEqual
<1>9. Reorders(f, IPs(given), IPs(aged))
  <2>1. /\ f \in [1 .. Len(timed) -> 1 .. Len(timed)]
        /\ \A i, j \in 1 .. Len(timed) : f[i] = f[j] => i = j
        /\ \A i \in 1 .. Len(timed) : \E k \in 1 .. Len(timed) : f[k] = i
        /\ \A k \in 1 .. Len(timed) : aged[k] = timed[f[k]]
    BY <1>6 DEF Reorders
  <2>2. Len(IPs(given)) = Len(timed) /\ Len(IPs(aged)) = Len(timed)
    BY <1>4, <1>7, IPsFacts
  <2>3. \A k \in 1 .. Len(timed) : IPs(aged)[k] = IPs(given)[f[k]]
    <3> SUFFICES ASSUME NEW k \in 1 .. Len(timed) PROVE IPs(aged)[k] = IPs(given)[f[k]]
      OBVIOUS
    <3>1. IPs(aged)[k] = aged[k].IP
      BY <1>7, IPsFacts
    <3>2. f[k] \in 1 .. Len(timed) /\ aged[k] = timed[f[k]]
      BY <2>1
    <3>3. IPs(timed)[f[k]] = timed[f[k]].IP
      BY <1>4, <3>2, IPsFacts
    <3> QED
      BY <1>8, <3>1, <3>2, <3>3
  <2>4. IPs(aged) = [k \in 1 .. Len(timed) |-> IPs(given)[f[k]]]
    <3>1. IPs(aged) = [k \in 1 .. Len(timed) |-> IPs(aged)[k]]
      <4>1. DOMAIN aged = 1 .. Len(timed)
        BY <1>7, IPsFacts
      <4> QED
        BY <4>1 DEF IPs
    <3> QED
      BY <2>3, <3>1
  <2> QED
    BY <2>1, <2>2, <2>4 DEF Reorders
<1>10. IPs(given) \in Seq(IPv4)
  BY IPsFacts
<1>11. /\ NoDup(IPs(given)) => NoDup(IPs(aged))
       /\ \A x : OnList(x, IPs(aged)) <=> OnList(x, IPs(given))
  BY <1>9, <1>10, ListReordered
<1> QED
  BY <1>7, <1>11 DEF aged, key, timed, Aged

\* The first lease that has time left has a place.
LEMMA FirstValidFound ==
    ASSUME NEW aged \in Seq(LeaseType)
    PROVE  first_valid(aged) \in 1 .. Len(aged) + 1
<1> DEFINE Q(n) == /\ \A i \in 1 .. n - 1 : aged[i].time <= 0
                   /\ n <= Len(aged) => aged[n].time > 0
           left == {n \in 1 .. Len(aged) : aged[n].time > 0}
<1>1. Len(aged) \in Nat /\ \A n \in 1 .. Len(aged) : aged[n].time \in Int
  <2>1. \A n \in 1 .. Len(aged) : aged[n] \in LeaseType
    BY ElementOfSeq
  <2>2. \A n \in 1 .. Len(aged) : aged[n].time \in Int
    BY <2>1, DhcpNumbers
  <2> QED
    BY <2>2, LenProperties
<1>2. \E n \in 1 .. Len(aged) + 1 : Q(n)
  <2>1. CASE left = {}
    <3>1. Q(Len(aged) + 1)
      BY <1>1, <2>1
    <3> HIDE DEF Q
    <3> QED
      BY <1>1, <3>1
  <2>2. CASE left # {}
    <3>1. left \subseteq Nat
      BY <1>1
    <3>2. PICK n \in left : \A k \in left : n <= k
      BY <2>2, <3>1, LeastNumber
    <3>3. ASSUME NEW i \in 1 .. n - 1 PROVE aged[i].time <= 0
      <4>1. i \in 1 .. Len(aged) /\ i < n
        BY <1>1, <3>2
      <4>2. i \notin left
        BY <1>1, <3>2, <4>1
      <4> QED
        BY <1>1, <4>1, <4>2
    <3>4. Q(n) /\ n \in 1 .. Len(aged) + 1
      BY <1>1, <3>2, <3>3
    <3> HIDE DEF Q
    <3> QED
      BY <3>4
  <2> QED
    BY <2>1, <2>2
<1>3. first_valid(aged) = CHOOSE n \in 1 .. Len(aged) + 1 : Q(n)
  BY DEF first_valid
<1> HIDE DEF Q
<1> QED
  BY <1>2, <1>3

\* add_time: the addresses of the leases that have expired go to the pool.
LEMMA LeasesExpire ==
    ASSUME DhcpInv, NEW m \in DhcpServer, NEW t \in PassTime, add_time(m, t),
           dhcp_typed' \in 0 .. MaxCommands
    PROVE  DhcpInv'
<1> DEFINE s == dhcp_server[m]
           aged == Aged(s.given_IPs, t)
           n == first_valid(aged) - 1
           over == SubSeq(aged, 1, n)
           valid == SubSeq(aged, n + 1, Len(aged))
           pool == s.ip_pool \o IPs(over)
           A == dhcp_added[m]
           u == [s EXCEPT !.ip_pool = pool, !.given_IPs = valid]
<1>1. /\ dhcp_server' = [dhcp_server EXCEPT ![m].given_IPs = valid, ![m].ip_pool = pool]
      /\ dhcp_net' = sends(dhcp_net, m, Iface(m), t_dhcp_timeout(over))
      /\ dhcp_client' = dhcp_client /\ dhcp_added' = dhcp_added /\ dhcp_spoilt' = dhcp_spoilt
  BY DEF add_time, IPs, Aged
<1>2. s \in ServerRecord /\ A \in SUBSET IPv4 /\ dhcp_added' = [dhcp_added EXCEPT ![m] = A]
  BY <1>1 DEF DhcpInv
<1>3. t \in Int
  BY DhcpAssumption
<1>4. s.given_IPs \in Seq(LeaseType) /\ s.ip_pool \in Seq(PoolEntry)
  BY <1>2 DEF ServerRecord
<1> HIDE DEF s, A
<1>6. /\ aged \in Seq(LeaseType)
      /\ NoDup(IPs(s.given_IPs)) => NoDup(IPs(aged))
      /\ \A x : OnList(x, IPs(aged)) <=> OnList(x, IPs(s.given_IPs))
  BY <1>3, <1>4, LeasesAged
<1> HIDE DEF aged
<1>7. Len(aged) \in Nat /\ n \in 0 .. Len(aged)
  <2>1. Len(aged) \in Nat
    BY <1>6, LenProperties
  <2> QED
    BY <1>6, <2>1, FirstValidFound
<1> HIDE DEF n
<1>8. /\ over \in Seq(LeaseType) /\ IPs(over) = SubSeq(IPs(aged), 1, n)
      /\ valid \in Seq(LeaseType) /\ IPs(valid) = SubSeq(IPs(aged), n + 1, Len(IPs(aged)))
  <2>1. /\ 1 \in 1 .. Len(aged) + 1 /\ n + 1 \in 1 .. Len(aged) + 1 /\ Len(aged) \in 0 .. Len(aged)
        /\ Len(IPs(aged)) = Len(aged)
    BY <1>6, <1>7, IPsFacts
  <2> QED
    BY <1>6, <1>7, <2>1, IPsSubSeq
<1> HIDE DEF over, valid
<1>9. IPs(over) \in Seq(IPv4) /\ IPs(over) \in Seq(PoolEntry)
  <2>1. IPs(over) \in Seq(IPv4)
    BY <1>8, IPsFacts
  <2>2. \A i \in 1 .. Len(IPs(over)) : IPs(over)[i] \in IPv4
    BY <2>1, ElementOfSeq
  <2>3. IPs(over) \in [1 .. Len(IPs(over)) -> PoolEntry] /\ Len(IPs(over)) \in Nat
    BY <2>1, <2>2, LenProperties DEF PoolEntry
  <2> QED
    BY <2>1, <2>3, SeqDef
<1>10. pool \in Seq(PoolEntry)
  BY <1>4, <1>9, ConcatProperties
<1>11. t_dhcp_timeout(over) \in Seq(DhcpFrame)
  <2>1. Len(over) \in Nat /\ DOMAIN over = 1 .. Len(over)
    BY <1>8, LenProperties
  <2>2. \A i \in 1 .. Len(over) : over[i] \in LeaseType
    BY <1>8, ElementOfSeq
  <2>3. \A i \in 1 .. Len(over) : Frame("TIMEOUT", over[i].MAC, over[i].IP, 0) \in DhcpFrame
    BY <2>2, DhcpNumbers DEF Frame, DhcpFrame, DhcpFrameType
  <2>4. t_dhcp_timeout(over) \in [1 .. Len(over) -> DhcpFrame]
    BY <2>1, <2>3 DEF t_dhcp_timeout
  <2> QED
    BY <2>1, <2>4, SeqDef
<1>12. dhcp_net' \in [DhcpLink -> Seq(DhcpFrame)]
  BY <1>1, <1>11, SendsType DEF DhcpInv
<1>13. ASSUME Clean(s, A) PROVE Clean(u, A)
  <2>1. /\ ~ OnList(Buf, s.ip_pool)
        /\ ShareOut(s.ip_pool, IPs(s.offered_IPs), IPs(s.given_IPs), A)
    BY <1>2, <1>13, PoolSorted DEF Clean
  <2>2. NoDup(IPs(aged)) /\ IPs(aged) \in Seq(IPv4) /\ n \in 0 .. Len(IPs(aged))
    BY <1>6, <1>7, <2>1, IPsFacts DEF ShareOut
  <2>3. /\ NoDup(IPs(over)) /\ NoDup(IPs(valid))
        /\ \A x : OnList(x, IPs(over)) => OnList(x, IPs(aged))
        /\ \A x : OnList(x, IPs(valid)) <=> OnList(x, IPs(aged)) /\ ~ OnList(x, IPs(over))
    <3>1. /\ NoDup(IPs(over)) /\ NoDup(IPs(valid))
          /\ \A x : OnList(x, IPs(over)) <=> \E i \in 1 .. n : IPs(aged)[i] = x
          /\ \A x : OnList(x, IPs(valid)) <=> OnList(x, IPs(aged)) /\ ~ OnList(x, IPs(over))
      BY <1>8, <2>2, ListSplit
    <3>2. \A i \in 1 .. n : i \in 1 .. Len(IPs(aged))
      BY <2>2, LenProperties
    <3> QED
      BY <3>1, <3>2 DEF OnList
  <2>4. ~ OnList(Buf, IPs(over))
    BY <1>9, ElementOfSeq, DhcpNumbers DEF OnList
  <2>5. \A x \in PoolEntry : ~ (OnList(x, s.ip_pool) /\ OnList(x, IPs(over)))
    BY <1>6, <2>1, <2>3, <2>4 DEF ShareOut, PoolEntry
  <2>6. /\ NoDup(pool)
        /\ \A x \in PoolEntry : OnList(x, pool) <=> OnList(x, s.ip_pool) \/ OnList(x, IPs(over))
    <3>1. NoDup(s.ip_pool)
      BY <2>1 DEF ShareOut
    <3> QED
      BY <1>4, <1>9, <2>3, <2>5, <3>1, ListConcat
  <2> HIDE DEF pool
  <2>7. ~ OnList(Buf, pool)
    BY <2>1, <2>4, <2>6 DEF PoolEntry
  <2>8. ShareOut(pool, IPs(s.offered_IPs), IPs(valid), A)
    BY <1>6, <2>1, <2>3, <2>6 DEF ShareOut, PoolEntry
  <2> QED
    BY <1>2, <1>8, <1>10, <2>7, <2>8, ServerChanged
<1> HIDE DEF pool
<1>14. u \in ServerRecord /\ dhcp_server' = [dhcp_server EXCEPT ![m] = u]
  <2>1. dhcp_server' = [dhcp_server EXCEPT ![m] =
                           [[s EXCEPT !.given_IPs = valid] EXCEPT !.ip_pool = pool]]
    BY <1>1 DEF s, DhcpInv
  <2>2. u = [[s EXCEPT !.given_IPs = valid] EXCEPT !.ip_pool = pool] /\ u \in ServerRecord
    BY <1>2, <1>8, <1>10 DEF ServerRecord
  <2> QED
    BY <2>1, <2>2
<1> HIDE DEF u
<1>15. ~ dhcp_spoilt' => ~ dhcp_spoilt /\ Clean(u, A)
  BY <1>1, <1>13 DEF DhcpInv, s, A
<1>16. dhcp_client' \in [DhcpClient -> ClientRecord] /\ dhcp_spoilt' \in BOOLEAN
  BY <1>1 DEF DhcpInv
<1> QED
  BY <1>2, <1>12, <1>14, <1>15, <1>16, CommandKeeps
-----------------------------------------------------------------------------
\* The clients hold no addresses of their own making.
LEMMA ServersKept ==
    ASSUME DhcpInv, UNCHANGED <<dhcp_server, dhcp_added, dhcp_spoilt>>,
           dhcp_client' \in [DhcpClient -> ClientRecord],
           dhcp_net' \in [DhcpLink -> Seq(DhcpFrame)], dhcp_typed' \in 0 .. MaxCommands
    PROVE  DhcpInv'
<1>1. ASSUME ~ dhcp_spoilt', NEW x \in DhcpServer PROVE Clean(dhcp_server[x], dhcp_added[x])'
  <2>1. Clean(dhcp_server[x], dhcp_added[x])
    BY <1>1 DEF DhcpInv
  <2>2. Clean(dhcp_server'[x], dhcp_added'[x])
    BY <2>1
  <2> QED
    BY <2>2 DEF Clean, HasBuf
<1> QED
  BY <1>1 DEF DhcpInv

LEMMA OfferTaken ==
    ASSUME NEW c \in ClientRecord, NEW f \in DhcpFrame
    PROVE  r_dhcp_offer(c, f) \in ClientRecord
<1> DEFINE i == find_IP(c.offers, f.IP)
           l == [c.offers[i] EXCEPT !.time = f.time]
<1>1. c.offers \in Seq(LeaseType) /\ f.MAC \in DhcpClient /\ f.IP \in IPv4 /\ f.time \in DhcpTime
  BY DEF ClientRecord, DhcpFrame
<1>2. CASE i = 0
  <2>1. r_dhcp_offer(c, f) = [c EXCEPT !.offers = Append(c.offers, Lease(f.MAC, f.IP, f.time))]
    BY <1>2 DEF r_dhcp_offer
  <2>2. Append(c.offers, Lease(f.MAC, f.IP, f.time)) \in Seq(LeaseType)
    BY <1>1, LeaseMade, AppendProperties
  <2> QED
    BY <2>1, <2>2 DEF ClientRecord
<1>3. CASE i # 0
  <2>1. r_dhcp_offer(c, f) = [c EXCEPT !.offers = [c.offers EXCEPT ![i] = l]]
    BY <1>3 DEF r_dhcp_offer
  <2>2. i \in 1 .. Len(c.offers)
    BY <1>1, <1>3, LeaseFound
  <2> HIDE DEF i
  <2>3. l \in LeaseType
    <3>1. c.offers[i] \in LeaseType
      BY <1>1, <2>2, ElementOfSeq
    <3> QED
      BY <1>1, <3>1 DEF LeaseType, DhcpTime
  <2> HIDE DEF l
  <2>4. [c.offers EXCEPT ![i] = l] \in Seq(LeaseType)
    BY <1>1, <2>2, <2>3, ExceptSeq
  <2> QED
    BY <2>1, <2>4 DEF ClientRecord
<1> QED
  BY <1>2, <1>3

LEMMA ClientHandled ==
    ASSUME NEW c \in ClientRecord, NEW f \in DhcpFrame
    PROVE  client_processFrame(c, f) \in ClientRecord
<1> DEFINE r == client_processFrame(c, f)
<1>1. f.IP \in IPv4 /\ NoIP \in IPv4
  BY DhcpAssumption DEF DhcpFrame, IPv4
<1>2. client_r_dhcp_ack(c, f) \in ClientRecord
  BY <1>1 DEF client_r_dhcp_ack, ClientRecord
<1>3. r_dhcp_timeout(c, f) \in ClientRecord
  BY <1>1 DEF r_dhcp_timeout, ClientRecord
<1>4. \/ r = r_dhcp_offer(c, f) \/ r = client_r_dhcp_ack(c, f)
      \/ r = r_dhcp_timeout(c, f) \/ r = c
  <2>1. CASE f.type = "OFFER"
    BY <2>1 DEF client_processFrame
  <2>2. CASE f.type = "ACK"
    BY <2>2 DEF client_processFrame
  <2>3. CASE f.type = "RESPONSE_EXTEND"
    BY <2>3 DEF client_processFrame, r_dhcp_extend_response
  <2>4. CASE f.type = "TIMEOUT"
    BY <2>4 DEF client_processFrame
  <2>5. CASE f.type \notin {"OFFER", "ACK", "RESPONSE_EXTEND", "TIMEOUT"}
    BY <2>5 DEF client_processFrame
  <2> QED
    BY <2>1, <2>2, <2>3, <2>4, <2>5
<1> QED
  BY <1>2, <1>3, <1>4, OfferTaken

LEMMA ClientStep ==
    ASSUME DhcpInv, NEW m, NEW n, <<n, m>> \in DhcpLink, ClientReceives(m, n)
    PROVE  DhcpInv'
<1> DEFINE f == Head(dhcp_net[<<n, m>>])
           c == IF f.MAC = m THEN client_processFrame(dhcp_client[m], f) ELSE dhcp_client[m]
           net == [dhcp_net EXCEPT ![<<n, m>>] = Tail(@)]
<1>1. /\ m \in DhcpClient /\ dhcp_net[<<n, m>>] # <<>>
      /\ dhcp_client' = [dhcp_client EXCEPT ![m] = c]
      /\ dhcp_net' = IF f.MAC # m \/ f.type = "ACK" THEN distribute(net, m, n, f) ELSE net
      /\ UNCHANGED <<dhcp_server, dhcp_typed, dhcp_added, dhcp_spoilt>>
  BY DEF ClientReceives
<1>2. f \in DhcpFrame /\ net \in [DhcpLink -> Seq(DhcpFrame)]
  BY <1>1, FrameTaken DEF DhcpInv
<1> HIDE DEF f, net
<1>3. c \in ClientRecord
  BY <1>1, <1>2, ClientHandled DEF DhcpInv
<1> HIDE DEF c
<1>4. distribute(net, m, n, f) \in [DhcpLink -> Seq(DhcpFrame)]
  <2>1. <<f>> \in Seq(DhcpFrame)
    BY <1>2
  <2> QED
    BY <1>2, <2>1, SendsType DEF distribute
<1>5. /\ dhcp_client' \in [DhcpClient -> ClientRecord] /\ dhcp_net' \in [DhcpLink -> Seq(DhcpFrame)]
      /\ dhcp_typed' \in 0 .. MaxCommands
  BY <1>1, <1>2, <1>3, <1>4 DEF DhcpInv
<1> QED
  BY <1>1, <1>5, ServersKept

LEMMA Told ==
    ASSUME DhcpInv, NEW m \in DhcpClient, NEW type \in DhcpFrameType, NEW ip \in IPv4,
           NEW t \in DhcpTime, tell(m, type, ip, t),
           dhcp_client' \in [DhcpClient -> ClientRecord], dhcp_typed' \in 0 .. MaxCommands
    PROVE  DhcpInv'
<1>1. /\ dhcp_net' = sends(dhcp_net, m, Iface(m), <<Frame(type, m, ip, t)>>)
      /\ UNCHANGED <<dhcp_server, dhcp_added, dhcp_spoilt>>
  BY DEF tell
<1>2. <<Frame(type, m, ip, t)>> \in Seq(DhcpFrame)
  BY DEF Frame, DhcpFrame
<1>3. dhcp_net' \in [DhcpLink -> Seq(DhcpFrame)]
  BY <1>1, <1>2, SendsType DEF DhcpInv
<1> QED
  BY <1>1, <1>3, ServersKept

LEMMA ClientTyped ==
    ASSUME DhcpInv, NEW m \in DhcpClient, client_run(m), dhcp_typed' \in 0 .. MaxCommands
    PROVE  DhcpInv'
<1> DEFINE c == dhcp_client[m]
           Left == dhcp_client' = [dhcp_client EXCEPT ![m].current_ip = NoIP]
<1>1. c \in ClientRecord /\ dhcp_client \in [DhcpClient -> ClientRecord]
  BY DEF DhcpInv
<1>2. LeaseTime \subseteq DhcpTime /\ NoIP = 0 /\ NoIP \in IPv4 /\ 0 \in DhcpTime
  BY DhcpAssumption, DhcpNumbers DEF DhcpTime
<1>3. c.offers \in Seq(LeaseType) /\ c.current_ip \in IPv4
  BY <1>1 DEF ClientRecord
<1>4. ASSUME Left PROVE dhcp_client' \in [DhcpClient -> ClientRecord]
  <2>1. [c EXCEPT !.current_ip = NoIP] \in ClientRecord
    BY <1>1, <1>2 DEF ClientRecord
  <2> QED
    BY <1>1, <1>4, <2>1
<1>5. ASSUME NEW t \in LeaseTime, t_dhcp_discover(m, t) PROVE DhcpInv'
  <2>1. tell(m, "DISCOVER", NoIP, t) /\ dhcp_client' = dhcp_client
    BY <1>5 DEF t_dhcp_discover
  <2> QED
    BY <1>1, <1>2, <2>1, Told DEF DhcpFrameType
<1>6. ASSUME NEW t \in LeaseTime, extend_lease(m, t) PROVE DhcpInv'
  <2>1. tell(m, "REQUEST_EXTEND", c.current_ip, t) /\ Left
    BY <1>6 DEF extend_lease, t_dhcp_extend_request
  <2> HIDE DEF c, Left
  <2> QED
    BY <1>2, <1>3, <1>4, <2>1, Told DEF DhcpFrameType
<1>7. ASSUME NEW t \in LeaseTime, NEW i \in 1 .. Len(c.offers),
             accept_dhcp_offer(m, c.offers[i].IP, t)
      PROVE  DhcpInv'
  <2>1. tell(m, "REQUEST", c.offers[i].IP, t) /\ dhcp_client' = dhcp_client
    BY <1>7 DEF accept_dhcp_offer, t_dhcp_request
  <2>2. c.offers[i] \in LeaseType
    BY <1>3, ElementOfSeq
  <2>3. c.offers[i].IP \in IPv4
    BY <2>2, DhcpNumbers
  <2> HIDE DEF c
  <2> QED
    BY <1>1, <1>2, <2>1, <2>3, Told DEF DhcpFrameType
<1>8. ASSUME release_ip(m) PROVE DhcpInv'
  <2>1. tell(m, "RELEASE", c.current_ip, 0) /\ Left
    BY <1>8 DEF release_ip, t_dhcp_release
  <2> HIDE DEF c, Left
  <2> QED
    BY <1>2, <1>3, <1>4, <2>1, Told DEF DhcpFrameType
<1> QED
  BY <1>5, <1>6, <1>7, <1>8 DEF client_run
-----------------------------------------------------------------------------
LEMMA DhcpInvInit == DhcpInit => DhcpInv
<1> SUFFICES ASSUME DhcpInit PROVE DhcpInv
  OBVIOUS
<1> DEFINE s0 == [ip_pool |-> <<>>, offered_IPs |-> <<>>, given_IPs |-> <<>>, buf |-> NoIP]
           c0 == [offers |-> <<>>, current_ip |-> NoIP, old_IPs |-> {}]
<1>1. /\ dhcp_server = [s \in DhcpServer |-> s0] /\ dhcp_client = [c \in DhcpClient |-> c0]
      /\ dhcp_net = [l \in DhcpLink |-> <<>>] /\ dhcp_typed = 0
      /\ dhcp_added = [s \in DhcpServer |-> {}] /\ dhcp_spoilt = FALSE
  BY DEF DhcpInit
<1>2. NoIP \in IPv4 /\ 0 \in 0 .. MaxCommands
  BY DhcpAssumption DEF IPv4
<1>3. s0 \in ServerRecord /\ c0 \in ClientRecord
  BY <1>2 DEF ServerRecord, ClientRecord
<1>4. Clean(s0, {})
  <2>1. ~ HasBuf(s0) /\ s0.ip_pool = <<>>
    BY DEF HasBuf
  <2>2. IPs(s0.offered_IPs) = <<>> /\ IPs(s0.given_IPs) = <<>>
    <3>1. IPs(<<>>) \in Seq(IPv4) /\ Len(IPs(<<>>)) = 0
      <4>1. \A e \in Seq(LeaseType) : IPs(e) \in Seq(IPv4) /\ Len(IPs(e)) = Len(e)
        BY IPsFacts
      <4>2. <<>> \in Seq(LeaseType) /\ Len(<<>>) = 0
        OBVIOUS
      <4> HIDE DEF IPs
      <4> QED
        BY <4>1, <4>2
    <3>2. IPs(<<>>) = <<>>
      BY <3>1, EmptySeq
    <3> QED
      BY <3>2
  <2> HIDE DEF s0
  <2>3. NoDup(<<>>) /\ \A x : ~ OnList(x, <<>>)
    BY ListEmpty DEF NoDup
  <2> QED
    BY <2>1, <2>2, <2>3 DEF Clean, ShareOut
<1> HIDE DEF s0, c0
<1>5. /\ dhcp_server \in [DhcpServer -> ServerRecord] /\ dhcp_client \in [DhcpClient -> ClientRecord]
      /\ dhcp_net \in [DhcpLink -> Seq(DhcpFrame)] /\ dhcp_added \in [DhcpServer -> SUBSET IPv4]
  BY <1>1, <1>3
<1>6. \A m \in DhcpServer : Clean(dhcp_server[m], dhcp_added[m])
  BY <1>1, <1>4
<1> QED
  BY <1>1, <1>2, <1>5, <1>6 DEF DhcpInv

LEMMA DhcpInvStep == DhcpInv /\ [DhcpNext]_dhcpVars => DhcpInv'
<1> SUFFICES ASSUME DhcpInv, [DhcpNext]_dhcpVars PROVE DhcpInv'
  OBVIOUS
<1>1. ASSUME NEW l \in DhcpLink, ServerReceives(l[2], l[1]) \/ ClientReceives(l[2], l[1])
      PROVE  DhcpInv'
  <2>1. <<l[1], l[2]>> \in DhcpLink
    BY DhcpAssumption
  <2> QED
    BY <1>1, <2>1, ServerStep, ClientStep
<1>2. ASSUME NEW m \in DhcpMachine, Typed(m) PROVE DhcpInv'
  <2>1. dhcp_typed' \in 0 .. MaxCommands
    BY <1>2, DhcpAssumption DEF Typed, DhcpInv
  <2>2. CASE m \in DhcpServer
    <3>1. server_run(m)
      BY <1>2, <2>2 DEF Typed
    <3> QED
      BY <2>1, <2>2, <3>1, PoolGrows, LeasesExpire, PoolPrinted DEF server_run
  <2>3. CASE m \notin DhcpServer
    BY <1>2, <2>1, <2>3, ClientTyped DEF Typed, DhcpMachine
  <2> QED
    BY <2>2, <2>3
<1>3. CASE UNCHANGED dhcpVars
  BY <1>3, ServersKept DEF dhcpVars, DhcpInv
<1> QED
  BY <1>1, <1>2, <1>3 DEF DhcpNext
-----------------------------------------------------------------------------
\* How often an element is on a list, and on one without duplicates.
Occurs(x, q) == Cardinality({i \in DOMAIN q : q[i] = x})

LEMMA Occurrences ==
    ASSUME NEW S, NEW q \in Seq(S), NoDup(q), NEW x
    PROVE  Occurs(x, q) = IF OnList(x, q) THEN 1 ELSE 0
<1> DEFINE hits == {i \in DOMAIN q : q[i] = x}
<1>1. DOMAIN q = 1 .. Len(q)
  BY LenProperties
<1>2. CASE OnList(x, q)
  <2>1. PICK i \in 1 .. Len(q) : q[i] = x
    BY <1>2 DEF OnList
  <2>2. hits = {i}
    BY <1>1, <2>1 DEF NoDup
  <2> HIDE DEF hits
  <2>3. Cardinality(hits) = 1
    BY <2>2, FS_Singleton
  <2> QED
    BY <1>2, <2>3 DEF hits, Occurs
<1>3. CASE ~ OnList(x, q)
  <2>1. hits = {}
    BY <1>1, <1>3 DEF OnList
  <2> HIDE DEF hits
  <2>2. Cardinality(hits) = 0
    BY <2>1, FS_EmptySet
  <2> QED
    BY <1>3, <2>2 DEF hits, Occurs
<1> QED
  BY <1>2, <1>3

LEMMA OnePlaceEach ==
    ASSUME NEW s \in ServerRecord, NEW A \in SUBSET IPv4, Clean(s, A)
    PROVE  OnHand(s) = A /\ \A ip \in A : Places(s, ip) = 1
<1> DEFINE offered == IPs(s.offered_IPs)
           given == IPs(s.given_IPs)
<1>1. /\ s.ip_pool \in Seq(PoolEntry) /\ DOMAIN s.ip_pool = 1 .. Len(s.ip_pool)
      /\ s.offered_IPs \in Seq(LeaseType) /\ s.given_IPs \in Seq(LeaseType)
  BY LenProperties DEF ServerRecord
<1>2. ASSUME NEW i \in DOMAIN s.ip_pool
      PROVE  Address(s, s.ip_pool[i]) = s.ip_pool[i] /\ s.ip_pool[i] \in IPv4
  <2>1. s.ip_pool[i] # Buf
    BY <1>2 DEF Clean, HasBuf
  <2>2. s.ip_pool[i] \in PoolEntry
    BY <1>1, <1>2, ElementOfSeq
  <2> QED
    BY <2>1, <2>2 DEF Address, PoolEntry
<1>3. /\ offered \in Seq(IPv4) /\ given \in Seq(IPv4)
      /\ DOMAIN offered = DOMAIN s.offered_IPs /\ DOMAIN given = DOMAIN s.given_IPs
      /\ \A i \in DOMAIN offered : offered[i] = s.offered_IPs[i].IP
      /\ \A i \in DOMAIN given : given[i] = s.given_IPs[i].IP
  BY <1>1, IPsFacts
<1> HIDE DEF offered, given
<1>4. /\ NoDup(s.ip_pool) /\ NoDup(offered) /\ NoDup(given)
      /\ \A ip \in IPv4 :
            /\ ip \in A <=> OnList(ip, s.ip_pool) \/ OnList(ip, offered) \/ OnList(ip, given)
            /\ ~ (OnList(ip, s.ip_pool) /\ OnList(ip, offered))
            /\ ~ (OnList(ip, s.ip_pool) /\ OnList(ip, given))
            /\ ~ (OnList(ip, offered) /\ OnList(ip, given))
  BY DEF Clean, ShareOut, offered, given
<1>5. ASSUME NEW ip \in A PROVE Places(s, ip) = 1
  <2>1. Places(s, ip) = Occurs(ip, s.ip_pool) + Occurs(ip, offered) + Occurs(ip, given)
    <3>1. /\ {i \in DOMAIN s.ip_pool : Address(s, s.ip_pool[i]) = ip}
                 = {i \in DOMAIN s.ip_pool : s.ip_pool[i] = ip}
          /\ {i \in DOMAIN s.offered_IPs : s.offered_IPs[i].IP = ip}
                 = {i \in DOMAIN offered : offered[i] = ip}
          /\ {i \in DOMAIN s.given_IPs : s.given_IPs[i].IP = ip}
                 = {i \in DOMAIN given : given[i] = ip}
      BY <1>2, <1>3
    <3> QED
      BY <3>1 DEF Places, Occurs
  <2>2. Occurs(ip, s.ip_pool) = IF OnList(ip, s.ip_pool) THEN 1 ELSE 0
    BY <1>1, <1>4, Occurrences
  <2>3. Occurs(ip, offered) = IF OnList(ip, offered) THEN 1 ELSE 0
    BY <1>3, <1>4, Occurrences
  <2>4. Occurs(ip, given) = IF OnList(ip, given) THEN 1 ELSE 0
    BY <1>3, <1>4, Occurrences
  <2>5. ip \in IPv4
    OBVIOUS
  <2> QED
    BY <1>4, <2>1, <2>2, <2>3, <2>4, <2>5
<1>6. ASSUME NEW x PROVE x \in OnHand(s) <=> x \in A
  <2>1. x \in InUse(s) <=> OnList(x, offered) \/ OnList(x, given)
    BY InUseIs DEF offered, given
  <2>2. x \in {Address(s, s.ip_pool[i]) : i \in DOMAIN s.ip_pool} <=> OnList(x, s.ip_pool)
    BY <1>1, <1>2 DEF OnList
  <2>3. OnList(x, s.ip_pool) => x \in IPv4
    BY <1>1, <1>2 DEF OnList
  <2>4. OnList(x, offered) \/ OnList(x, given) => x \in IPv4
    BY <1>3, ElementOfSeq DEF OnList
  <2> QED
    BY <1>4, <2>1, <2>2, <2>3, <2>4 DEF OnHand
<1>7. OnHand(s) = A
  BY <1>6
<1> QED
  BY <1>5, <1>7

LEMMA DhcpInvSound == DhcpInv => AddressesConserved
<1> SUFFICES ASSUME DhcpInv PROVE AddressesConserved
  OBVIOUS
<1>1. ASSUME NEW s \in DhcpServer
      PROVE  /\ \A e \in {dhcp_server[s].ip_pool[i] : i \in DOMAIN dhcp_server[s].ip_pool} :
                    e \in 0 .. 255 \/ e = Buf
             /\ \A list \in {dhcp_server[s].offered_IPs, dhcp_server[s].given_IPs} :
                    \A i \in DOMAIN list : list[i] \in LeaseType
  <2>1. /\ dhcp_server[s].ip_pool \in Seq(PoolEntry)
        /\ dhcp_server[s].offered_IPs \in Seq(LeaseType)
        /\ dhcp_server[s].given_IPs \in Seq(LeaseType)
    BY DEF DhcpInv, ServerRecord
  <2>2. \A i \in DOMAIN dhcp_server[s].ip_pool : dhcp_server[s].ip_pool[i] \in PoolEntry
    BY <2>1, ElementOfSeq, LenProperties
  <2>3. \A list \in Seq(LeaseType) : \A i \in DOMAIN list : list[i] \in LeaseType
    BY ElementOfSeq, LenProperties
  <2> QED
    BY <2>1, <2>2, <2>3 DEF PoolEntry, IPv4
<1>2. \A c \in DhcpClient : dhcp_client[c].current_ip \in 0 .. 255
  BY DEF DhcpInv, ClientRecord, IPv4
<1>3. DhcpTypeOK
  BY <1>1, <1>2 DEF DhcpTypeOK, DhcpInv
<1>4. ASSUME ~ dhcp_spoilt, NEW m \in DhcpServer
      PROVE  /\ OnHand(dhcp_server[m]) = dhcp_added[m]
             /\ \A ip \in dhcp_added[m] : Places(dhcp_server[m], ip) = 1
  BY <1>4, OnePlaceEach DEF DhcpInv
<1> QED
  BY <1>3, <1>4 DEF AddressesConserved

\* A server never loses an address of its pool and never has it in two places,
\* whatever clients, links, times and blocks there are: r_dhcp_discover,
\* r_dhcp_request, r_dhcp_ack, r_dhcp_extend_request, add_time, sort_pool and
\* add_pool move an address between the pool, the offers and the leases, and
\* only a pointer into the frame buffer or a block added while in use breaks it.
THEOREM DhcpAddressesConserved == DhcpSpec => []AddressesConserved
<1>1. DhcpInit => DhcpInv
  BY DhcpInvInit
<1>2. DhcpInv /\ [DhcpNext]_dhcpVars => DhcpInv'
  BY DhcpInvStep
<1>3. DhcpInv => AddressesConserved
  BY DhcpInvSound
<1> QED
  BY <1>1, <1>2, <1>3, PTL DEF DhcpSpec
=============================================================================
