------------------------------ MODULE Terminal -------------------------------
(***************************************************************************)
(* The display and the keyboard of the kernel (devices/vga.c,              *)
(* devices/kbd.c).  Both run with interrupts off.  Characters are numbers; *)
(* a key is known by its scancode.                                         *)
(***************************************************************************)
EXTENDS Integers, FiniteSets, TLC

CONSTANTS
    COL_CNT, ROW_CNT, TabStop,     \* 80, 25, 8
    Keymap,        \* keys with a character: scancode to [plain, shifted]
    ShiftKeys,     \* the other keys: scancode to "shift", "alt", "ctrl" or "caps"
    Printed,       \* characters that are written
    MaxWritten, MaxKeyEvents

ASSUME TerminalAssumption ==
    /\ {COL_CNT, ROW_CNT, TabStop} \subseteq Nat \ {0} /\ {MaxWritten, MaxKeyEvents} \subseteq Nat
    /\ DOMAIN Keymap \cap DOMAIN ShiftKeys = {} /\ Printed \subseteq 0..255
    /\ \A k \in DOMAIN Keymap : {Keymap[k].plain, Keymap[k].shifted} \subseteq 0..127

VARIABLES
    tm_fb,        \* framebuffer: row to column to character
    tm_cursor,    \* <<cx, cy>>
    tm_hw,        \* the cursor of the hardware
    tm_down,      \* keys held down, as the user knows
    tm_state,     \* shift keys held down, as the kernel knows: set of scancodes
    tm_caps,      \* caps_lock
    tm_typed,     \* last character put into the input buffer, 0 at first
    tm_count      \* [written, keys] so far

terminalVars == <<tm_fb, tm_cursor, tm_hw, tm_down, tm_state, tm_caps, tm_typed, tm_count>>
-----------------------------------------------------------------------------
blank_row == [x \in 0..COL_CNT - 1 |-> 32]
cls == [fb |-> [y \in 0..ROW_CNT - 1 |-> blank_row], cx |-> 0, cy |-> 0]
scrolled(fb) == [y \in 0..ROW_CNT - 1 |-> IF y < ROW_CNT - 1 THEN fb[y + 1] ELSE blank_row]
newline(s) ==
    IF s.cy + 1 >= ROW_CNT THEN [fb |-> scrolled(s.fb), cx |-> 0, cy |-> ROW_CNT - 1]
    ELSE [s EXCEPT !.cx = 0, !.cy = @ + 1]
wrapped(s) == IF s.cx >= COL_CNT THEN newline(s) ELSE s

\* What a character makes of the screen; 7 only beeps.
Written(s, c) ==
    CASE c = 10 -> newline(s)
      [] c = 12 -> cls
      [] c = 8 -> [s EXCEPT !.cx = IF @ > 0 THEN @ - 1 ELSE 0]
      [] c = 13 -> [s EXCEPT !.cx = 0]
      [] c = 9 -> wrapped([s EXCEPT !.cx = (@ \div TabStop + 1) * TabStop])
      [] c = 7 -> s
      [] OTHER -> wrapped([s EXCEPT !.fb[s.cy][s.cx] = c, !.cx = @ + 1])
vga_putc(c) ==
    LET s == Written([fb |-> tm_fb, cx |-> tm_cursor[1], cy |-> tm_cursor[2]], c)
    IN  /\ tm_count.written < MaxWritten
        /\ tm_count' = [tm_count EXCEPT !.written = @ + 1]
        /\ tm_fb' = s.fb /\ tm_cursor' = <<s.cx, s.cy>>
        /\ tm_hw' = s.cx + COL_CNT * s.cy
        /\ UNCHANGED <<tm_down, tm_state, tm_caps, tm_typed>>
-----------------------------------------------------------------------------
On(kind) == \E k \in tm_state : ShiftKeys[k] = kind

\* map_key, then Ctrl over Shift and Caps Lock, then Alt.
map_key(k) == IF On("shift") THEN Keymap[k].shifted ELSE Keymap[k].plain
tolower(c) == IF c \in 65..90 THEN c + 32 ELSE c
key_char(k) ==
    LET c == map_key(k)
        d == IF On("ctrl") /\ c \in 64..95 THEN c - 64
             ELSE IF On("shift") = tm_caps THEN tolower(c) ELSE c
    IN  IF On("alt") THEN d + 128 ELSE d
reboots(k) == map_key(k) = 127 /\ On("ctrl") /\ On("alt")

\* Faulty: the kernel forgets that a key is still down.
held_last(k, release) == IF release THEN {} ELSE {k}
held(k, release) == IF release THEN tm_state \ {k} ELSE tm_state \cup {k}

\* A key goes down (again, when it repeats) or up; full: the input buffer is.
keyboard_interrupt(k, release, full) ==
    /\ tm_count.keys < MaxKeyEvents /\ (release => k \in tm_down)
    /\ tm_count' = [tm_count EXCEPT !.keys = @ + 1]
    /\ tm_down' = IF release THEN tm_down \ {k} ELSE tm_down \cup {k}
    /\ IF k \in DOMAIN ShiftKeys /\ ShiftKeys[k] = "caps"
       THEN tm_caps' = (IF release THEN tm_caps ELSE ~tm_caps) /\ UNCHANGED <<tm_state, tm_typed>>
       ELSE IF k \in DOMAIN Keymap
       THEN /\ ~release => ~reboots(k)
            /\ tm_typed' = IF release \/ full THEN tm_typed ELSE key_char(k)
            /\ UNCHANGED <<tm_state, tm_caps>>
       ELSE tm_state' = held(k, release) /\ UNCHANGED <<tm_caps, tm_typed>>
    /\ UNCHANGED <<tm_fb, tm_cursor, tm_hw>>
-----------------------------------------------------------------------------
\* find_cursor: below what the boot loader wrote.
TerminalInit ==
    /\ tm_cursor \in {<<0, y>> : y \in 0..ROW_CNT - 1}
    /\ tm_fb = [y \in 0..ROW_CNT - 1 |->
                  IF y < tm_cursor[2] THEN [x \in 0..COL_CNT - 1 |-> 35] ELSE blank_row]
    /\ tm_hw = COL_CNT * tm_cursor[2]
    /\ tm_down = {} /\ tm_state = {} /\ tm_caps = FALSE /\ tm_typed = 0
    /\ tm_count = [written |-> 0, keys |-> 0]
TerminalNext ==
    \/ \E c \in Printed : vga_putc(c)
    \/ \E k \in DOMAIN Keymap \cup DOMAIN ShiftKeys, release, full \in BOOLEAN :
          keyboard_interrupt(k, release, full)
TerminalSpec == TerminalInit /\ [][TerminalNext]_terminalVars
-----------------------------------------------------------------------------
(***************************************************************************)
(* Properties.                                                             *)
(***************************************************************************)

TerminalTypeOK ==
    /\ tm_fb \in [0..ROW_CNT - 1 -> [0..COL_CNT - 1 -> 0..255]] /\ tm_caps \in BOOLEAN
    /\ tm_state \subseteq DOMAIN ShiftKeys /\ tm_typed \in 0..255

\* The cursor stays on the screen, the hardware shows it there, and nothing is left
\* on the rows below it; the shift keys the kernel holds for pressed are those that
\* are, whatever is typed, repeated or lost meanwhile.
TerminalSound ==
    /\ TerminalTypeOK
    /\ tm_cursor[1] \in 0..COL_CNT - 1 /\ tm_cursor[2] \in 0..ROW_CNT - 1
    /\ tm_hw = tm_cursor[1] + COL_CNT * tm_cursor[2]
    /\ \A y \in tm_cursor[2] + 1..ROW_CNT - 1 : tm_fb[y] = blank_row
    /\ tm_state = {k \in tm_down : k \in DOMAIN ShiftKeys /\ ShiftKeys[k] # "caps"}
=============================================================================
