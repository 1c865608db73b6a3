------------------------------- MODULE Numbers -------------------------------
(***************************************************************************)
(* Arithmetic, formatting, bitmaps and clocks of the kernel                *)
(* (lib/arithmetic.c, threads/fixed-point.h, lib/stdio.c,                  *)
(* lib/kernel/bitmap.c, lib/random.c, devices/pit.c, devices/rtc.c and the *)
(* calibration of devices/timer.c), as operators that follow the code.  A  *)
(* behaviour calls one of them with one of the inputs; NumbersAgree        *)
(* compares what it returns with what it stands for.  The widths of words  *)
(* are parameters.                                                         *)
(***************************************************************************)
EXTENDS Integers, Sequences, FiniteSets, SequencesExt, FiniteSetsExt

CONSTANTS
    HalfBits,     \* bits of half a long long: 32
    FIX_Q,        \* fractional bits: 16
    ELEM_BITS,    \* bits of a word of a bitmap: 32
    RcSize,       \* bytes of the state of the generator: 256
    RefineBits,   \* bits timer_calibrate refines: 9
    PIT_HZ,
    Frequencies   \* frequencies the kernel asks for

ASSUME NumbersAssumption ==
    /\ {HalfBits, FIX_Q, ELEM_BITS, RcSize, RefineBits, PIT_HZ} \subseteq Nat \ {0} /\ Frequencies \subseteq Nat

VARIABLE nu_call      \* the function called and its arguments: [fn, a, b, c]
numbersVars == <<nu_call>>

Abs(x) == IF x < 0 THEN -x ELSE x
Sign(x) == IF x < 0 THEN -1 ELSE 1
Quot(n, d) == Sign(n) * Sign(d) * (Abs(n) \div Abs(d))     \* division in C
-----------------------------------------------------------------------------
(***************************************************************************)
(* arithmetic.c.                                                           *)
(***************************************************************************)

Half == 2^HalfBits
Full == Half * Half
\* -1: the processor traps.
divl(n, d) == IF n \div d < Half THEN n \div d ELSE -1
nlz(x) == CHOOSE s \in 0..HalfBits - 1 : x * 2^s \in Half \div 2..Half - 1

corrected(n, d, q) == IF (n - (q - 1) * d) % Full < d THEN q - 1 ELSE q
udiv64(n, d) ==
    IF d < Half
    THEN divl(Half * ((n \div Half) % d) + (n % Half), d) + Half * ((n \div Half) \div d)
    ELSE IF n < d THEN 0
    ELSE LET s == nlz(d \div Half)
         IN  corrected(n, d, divl(n \div 2, ((d * 2^s) % Full) \div Half) \div 2^(HalfBits - 1 - s))
\* The result is declared with half the bits.
umod64(n, d) == (n - d * udiv64(n, d)) % Half
sdiv64(n, d) ==
    LET q == udiv64(Abs(n), Abs(d)) IN IF (n < 0) = (d < 0) THEN q ELSE -q
-----------------------------------------------------------------------------
(***************************************************************************)
(* fixed-point.h: a number is its internal value.                          *)
(***************************************************************************)

FIX_F == 2^FIX_Q
fix_int(n) == n * FIX_F
fix_frac(n, d) == Quot(n * FIX_F, d)
fix_round(x) == Quot(x + FIX_F \div 2, FIX_F)
fix_trunc(x) == Quot(x, FIX_F)
fix_mul(x, y) == Quot(x * y, FIX_F)
fix_div(x, y) == Quot(x * FIX_F, y)
fix_inv(x) == fix_div(fix_int(1), x)
fix_compare(x, y) == IF x < y THEN -1 ELSE IF x > y THEN 1 ELSE 0
-----------------------------------------------------------------------------
(***************************************************************************)
(* stdio.c.  Output is a sequence; a digit is its value.                   *)
(***************************************************************************)

\* parse_conversion: which flags are left, and the width.
parse_conversion(flags, width, precision) ==
    LET f == IF "-" \in flags THEN flags \ {"0"} ELSE flags
        g == IF "+" \in f THEN f \ {" "} ELSE f
        h == IF width < 0 THEN g \cup {"-"} ELSE g
    IN  [flags |-> IF precision >= 0 THEN h \ {"0"} ELSE h, width |-> Abs(width),
         precision |-> IF precision < 0 THEN -1 ELSE precision]
output_dup(c, n) == [i \in 1..n |-> c]

\* The digits of the value, the last one first, with group marks.
RECURSIVE Accumulate(_, _, _, _)
Accumulate(value, base, marks, cnt) ==
    IF value = 0 THEN <<>>
    ELSE (IF marks /\ cnt > 0 /\ cnt % base.group = 0 THEN <<",">> ELSE <<>>)
         \o <<ToString(value % base.base)>> \o Accumulate(value \div base.base, base, marks, cnt + 1)
format_integer(value, signed, negative, base, c) ==
    LET sign == IF ~signed THEN <<>>
                ELSE IF negative THEN <<"-">>
                ELSE IF "+" \in c.flags THEN <<"+">> ELSE IF " " \in c.flags THEN <<" ">> ELSE <<>>
        x == IF "#" \in c.flags /\ value > 0 /\ base.base = 16 THEN <<"0", "x">> ELSE <<>>
        digits == Accumulate(value, base, "'" \in c.flags, 0)
        precision == IF c.precision < 0 THEN 1 ELSE c.precision
        padded == digits \o output_dup("0", IF Len(digits) < precision THEN precision - Len(digits) ELSE 0)
        octal == "#" \in c.flags /\ base.base = 8 /\ (padded = <<>> \/ padded[Len(padded)] # "0")
        buf == IF octal THEN Append(padded, "0") ELSE padded
        room == c.width - Len(buf) - Len(x) - Len(sign)
        pad_cnt == IF room < 0 THEN 0 ELSE room
    IN  (IF {"-", "0"} \cap c.flags = {} THEN output_dup(" ", pad_cnt) ELSE <<>>)
        \o sign \o x \o (IF "0" \in c.flags THEN output_dup("0", pad_cnt) ELSE <<>>)
        \o Reverse(buf) \o (IF "-" \in c.flags THEN output_dup(" ", pad_cnt) ELSE <<>>)
format_string(s, c) ==
    LET pad == output_dup(" ", IF c.width > Len(s) THEN c.width - Len(s) ELSE 0)
    IN  IF "-" \in c.flags THEN s \o pad ELSE pad \o s

\* vsnprintf_helper on every character of the output: what is in the buffer, and length.
vsnprintf(out, buf_size) ==
    LET max == IF buf_size > 0 THEN buf_size - 1 ELSE 0
    IN  [buf |-> SubSeq(out, 1, IF Len(out) < max THEN Len(out) ELSE max), ret |-> Len(out)]
RECURSIVE human(_, _)
human(size, factor) == IF size >= 1024 /\ factor < 5 THEN human(size \div 1024, factor + 1) ELSE <<size, factor>>
print_human_readable_size(size) == human(size, 1)
-----------------------------------------------------------------------------
(***************************************************************************)
(* bitmap.c: words of ELEM_BITS bits.                                      *)
(***************************************************************************)

elem_idx(i) == i \div ELEM_BITS
elem_cnt(bits) == (bits + ELEM_BITS - 1) \div ELEM_BITS
bit_mask(i) == 2^(i % ELEM_BITS)
last_mask(bits) == IF bits % ELEM_BITS # 0 THEN 2^(bits % ELEM_BITS) - 1 ELSE 2^ELEM_BITS - 1
bitmap_test(b, i) == (b[elem_idx(i)] \div bit_mask(i)) % 2 = 1
bitmap_mark(b, i) == IF bitmap_test(b, i) THEN b ELSE [b EXCEPT ![elem_idx(i)] = @ + bit_mask(i)]
bitmap_reset(b, i) == IF bitmap_test(b, i) THEN [b EXCEPT ![elem_idx(i)] = @ - bit_mask(i)] ELSE b
bitmap_flip(b, i) == IF bitmap_test(b, i) THEN bitmap_reset(b, i) ELSE bitmap_mark(b, i)
bitmap_create(bits) == [w \in 0..elem_cnt(bits) - 1 |-> 0]
bitmap_count(b, start, cnt, value) == Cardinality({i \in start..start + cnt - 1 : bitmap_test(b, i) = value})
\* bitmap_read: what is beyond the last bit is masked out of what the file holds.
bitmap_read(words, bits) ==
    [w \in DOMAIN words |-> IF w = elem_cnt(bits) - 1 THEN words[w] % (last_mask(bits) + 1) ELSE words[w]]
-----------------------------------------------------------------------------
(***************************************************************************)
(* random.c.                                                               *)
(***************************************************************************)

swap_byte(s, i, j) == [s EXCEPT ![i] = s[j], ![j] = s[i]]
RECURSIVE Schedule(_, _, _, _)
Schedule(s, i, j, seed) ==
    IF i = RcSize THEN s
    ELSE LET k == (j + s[i] + seed[(i % Len(seed)) + 1]) % RcSize
         IN  Schedule(swap_byte(s, i, k), i + 1, k, seed)
random_init(seed) == [s |-> Schedule([i \in 0..RcSize - 1 |-> i], 0, 0, seed), i |-> 0, j |-> 0, out |-> <<>>]
RECURSIVE random_bytes(_, _)
random_bytes(r, n) ==
    IF n = 0 THEN r
    ELSE LET i == (r.i + 1) % RcSize
             j == (r.j + r.s[i]) % RcSize
             s == swap_byte(r.s, i, j)
         IN  random_bytes([s |-> s, i |-> i, j |-> j, out |-> Append(r.out, s[(s[i] + s[j]) % RcSize])], n - 1)
-----------------------------------------------------------------------------
(***************************************************************************)
(* Clocks.                                                                 *)
(***************************************************************************)

\* pit_configure_channel: the count, 0 standing for 65536.
pit_count(frequency) ==
    IF frequency < 19 THEN 0 ELSE IF frequency > PIT_HZ THEN 2
    ELSE (PIT_HZ + frequency \div 2) \div frequency

\* A tick is as long as `real' loops.
too_many_loops(loops, real) == loops > real
RECURSIVE HighestBit(_, _)
HighestBit(loops, real) == IF too_many_loops(2 * loops, real) THEN loops ELSE HighestBit(2 * loops, real)
\* The bits are tried on top of the highest one, each alone.
timer_calibrate(real) ==
    LET high == HighestBit(1, real)
        bits == {b \in 1..RefineBits : high \div 2^b > 0 /\ ~too_many_loops(high + high \div 2^b, real)}
    IN  high + FoldSet(LAMBDA b, n : n + high \div 2^b, 0, bits)

bcd_to_bin(x) == (x % 16) + (x \div 16) * 10
days_per_month == <<31, 28, 31, 30, 31, 30, 31, 31, 30, 31, 30, 31>>
\* rtc_get_time, in days, once two reads of the clock agree; years of two digits.
rtc_get_days(yy, mon, mday) ==
    LET year == (IF yy < 70 THEN yy + 100 ELSE yy) - 70
    IN  year * 365 + Quot(year - 1, 4) + FoldLeft(+, 0, SubSeq(days_per_month, 1, mon))
        + (IF mon > 2 /\ year % 4 = 0 THEN 1 ELSE 0) + mday - 1
-----------------------------------------------------------------------------
Bases == {[base |-> 10, group |-> 3], [base |-> 8, group |-> 3], [base |-> 16, group |-> 4]}
AllFlags == {"-", "+", " ", "#", "0", "'"}
NumberCalls ==
    {[fn |-> "udiv", a |-> n, b |-> d] : n \in 0..Full - 1, d \in 1..Full - 1}
    \cup {[fn |-> "sdiv", a |-> n, b |-> d] : n \in -(Full \div 2) + 1..Full \div 2 - 1, d \in {-9, -8, -3, -1, 1, 3, 7, 8, 9}}
    \cup {[fn |-> "fix", a |-> x, b |-> y] : x \in -20..20, y \in -9..9}
    \cup {[fn |-> "bits", a |-> n, b |-> w] : n \in 1..2 * ELEM_BITS + 1, w \in 0..2^ELEM_BITS - 1}
    \cup {[fn |-> "random", a |-> x, b |-> y] : x \in 0..RcSize - 1, y \in 0..RcSize - 1}
    \cup {[fn |-> "pit", a |-> f, b |-> 0] : f \in Frequencies}
    \cup {[fn |-> "timer", a |-> n, b |-> 0] : n \in 1..300}
    \cup {[fn |-> "human", a |-> n, b |-> 0] : n \in {0, 1, 1023, 1024, 1025, 1048575, 1048576, 2147483647}}
    \cup {[fn |-> "rtc", a |-> y, b |-> m] : y \in {69, 70, 71, 72, 0, 26}, m \in 1..12}
FormatCalls == [fn : {"format"}, a : {0, 1, 8, 4095, 70000}, b : Bases, flags : SUBSET AllFlags,
                width : {-7, 0, 3, 9}, precision : {-1, 0, 5}, negative : BOOLEAN]
NoNumber == [fn |-> "none"]

NumbersInit == nu_call = NoNumber
Compute == nu_call = NoNumber /\ nu_call' \in NumberCalls
Format == nu_call = NoNumber /\ nu_call' \in FormatCalls
NumbersNext == Compute \/ Format
NumbersSpec == NumbersInit /\ [][NumbersNext]_numbersVars
-----------------------------------------------------------------------------
(***************************************************************************)
(* What the functions promise.                                             *)
(***************************************************************************)

Bits(b, n) == {i \in 0..n - 1 : bitmap_test(b, i)}
DigitOf(c) == CHOOSE d \in 0..15 : ToString(d) = c
ReadBack(s, base) == FoldLeft(LAMBDA v, c : v * base + DigitOf(c), 0, s)

\* The result of a conversion is as wide as asked for; without padding, sign, prefix
\* and marks it is the value again, with the digits of the precision at least.
FormatAgrees(c) ==
    LET conv == parse_conversion(c.flags, c.width, c.precision)
        negative == c.negative /\ c.a > 0
        out == format_integer(c.a, TRUE, negative, c.b, conv)
        core == SelectSeq(out, LAMBDA x : x \notin {" ", "+", "-", ",", "x"})
    IN  /\ Len(out) >= conv.width
        /\ ReadBack(core, c.b.base) = c.a
        /\ ("-" \in ToSet(out)) = negative
        /\ c.precision > 0 => Len(core) + Cardinality({i \in DOMAIN out : out[i] = ","}) >= c.precision
        /\ "-" \in conv.flags => out = <<>> \/ out[1] # " " \/ " " \in conv.flags \/ \A i \in DOMAIN out : out[i] = " "
        /\ \A n \in {0, 1, 4} :
              LET b == vsnprintf(out, n)
              IN  b.ret = Len(out) /\ IsPrefix(b.buf, out) /\ Len(b.buf) <= IF n = 0 THEN 0 ELSE n - 1

\* Division of two words by two words with the processor's division of two by one
\* never traps and is exact; the remainder is, for divisors that fit in a word.
\* Fixed-point products and quotients are less than one unit off, and rounding is to
\* the nearest integer for numbers that are not negative.  Bits of a bitmap do not
\* disturb each other, and bits beyond the last never count.  The state of the random
\* generator stays a permutation.  The timer gets a count its chip can take, as near
\* the frequency as can be.  The calibration is right to a factor of two.  The first
\* of a month is later than the first of the month before.
NumbersAgree ==
    LET c == nu_call
    IN  CASE c.fn = "udiv" ->
                udiv64(c.a, c.b) = c.a \div c.b /\ (c.b <= Half => umod64(c.a, c.b) = c.a % c.b)
          [] c.fn = "sdiv" -> sdiv64(c.a, c.b) = Quot(c.a, c.b)
          [] c.fn = "fix" ->
                /\ Abs(fix_mul(c.a, c.b) * FIX_F - c.a * c.b) < FIX_F
                /\ c.b # 0 => Abs(fix_div(c.a, c.b) * c.b - c.a * FIX_F) < Abs(c.b)
                /\ c.b # 0 => fix_div(fix_int(c.a), fix_int(c.b)) = fix_frac(c.a, c.b)
                /\ fix_trunc(fix_int(c.a)) = c.a /\ (c.a # 0 => fix_inv(c.a) = fix_frac(FIX_F, c.a))
                /\ c.a >= 0 => fix_round(fix_int(c.a)) = c.a /\ Abs(2 * (fix_int(fix_round(c.a)) - c.a)) <= FIX_F
                /\ fix_compare(c.a, c.b) = -fix_compare(c.b, c.a)
          [] c.fn = "bits" ->
                LET file == [w \in 0..elem_cnt(c.a) - 1 |-> c.b]
                    b == bitmap_read(file, c.a)
                IN  /\ \A i \in 0..c.a - 1 :
                          /\ Bits(bitmap_mark(b, i), c.a) = Bits(b, c.a) \cup {i}
                          /\ Bits(bitmap_reset(b, i), c.a) = Bits(b, c.a) \ {i}
                          /\ bitmap_flip(bitmap_flip(b, i), i) = b
                          /\ bitmap_count(b, i, c.a - i, TRUE) = Cardinality({j \in Bits(b, c.a) : j >= i})
                    /\ \A i \in c.a..elem_cnt(c.a) * ELEM_BITS - 1 : ~bitmap_test(b, i)
          [] c.fn = "random" ->
                LET r == random_bytes(random_init(<<c.a, c.b>>), 2 * RcSize)
                IN  {r.s[i] : i \in DOMAIN r.s} = 0..RcSize - 1 /\ ToSet(r.out) \subseteq 0..RcSize - 1
          [] c.fn = "pit" ->
                LET n == pit_count(c.a)
                IN  IF c.a < 19 THEN n = 0
                    ELSE n \in 2..65535 /\ 2 * Abs(n * c.a - PIT_HZ) <= c.a + 1
          [] c.fn = "timer" -> timer_calibrate(c.a) <= 2 * c.a /\ c.a < 2 * timer_calibrate(c.a)
          [] c.fn = "human" ->
                LET h == print_human_readable_size(c.a)
                IN  (h[1] < 1024 \/ h[2] = 5) /\ h[1] * 1024^(h[2] - 1) <= c.a
          [] c.fn = "rtc" ->
                /\ bcd_to_bin((c.b \div 10) * 16 + (c.b % 10)) = c.b
                /\ LET y == (c.a + c.b \div 12) % 100
                   IN  y # 70 => rtc_get_days(c.a, c.b, 1) < rtc_get_days(y, (c.b % 12) + 1, 1)
          [] c.fn = "format" -> FormatAgrees(c)
          [] OTHER -> TRUE
=============================================================================
