------------------------------- MODULE Strings -------------------------------
(***************************************************************************)
(* String, conversion, sorting and archive functions of the library        *)
(* (lib/string.c, lib/stdlib.c, lib/ustar.c), as operators that follow the *)
(* loops of the code.  A behaviour calls one of them with one of the       *)
(* inputs; StringsAgree compares what it returns with a definition that    *)
(* does not know the loop.  A C string is a sequence of nonzero bytes.     *)
(***************************************************************************)
EXTENDS Integers, Sequences, FiniteSets, SequencesExt, FiniteSetsExt

CONSTANTS
    Char,          \* bytes of the strings
    MaxString,     \* their longest
    SortKeys,      \* what arrays hold
    IntBits,       \* width of an int: 32
    NameBytes      \* characters a name may have in a header: 99

ASSUME StringsAssumption == Char \subseteq 1..255 /\ {MaxString, NameBytes} \subseteq Nat /\ IntBits \in Nat \ {0}

VARIABLE st_call      \* the function called and its arguments: [fn, a, b, n]
stringsVars == <<st_call>>

IntMin == -(2^(IntBits - 1))
Strs(n) == UNION {[1..i -> Char] : i \in 0..n}
SLASH == 47
DOT == 46
ZERO == 48
MINUS == 45
At(s, i) == IF i \in DOMAIN s THEN s[i] ELSE 0
Drop(s, i) == SubSeq(s, i + 1, Len(s))
Take(s, i) == SubSeq(s, 1, IF i < Len(s) THEN i ELSE Len(s))
-----------------------------------------------------------------------------
(***************************************************************************)
(* string.c.  Positions count from 1; 0 is the null pointer.               *)
(***************************************************************************)

RECURSIVE CopyUp(_, _, _, _)
CopyUp(m, dst, src, n) == IF n = 0 THEN m ELSE CopyUp([m EXCEPT ![dst] = m[src]], dst + 1, src + 1, n - 1)
RECURSIVE CopyDown(_, _, _, _)
CopyDown(m, dst, src, n) ==
    IF n = 0 THEN m ELSE CopyDown([m EXCEPT ![dst - 1] = m[src - 1]], dst - 1, src - 1, n - 1)
moves_up(dst, src) == dst < src
\* What it returns is the pointer the loop was run with.
memmove(m, dst, src, n) ==
    IF moves_up(dst, src) THEN [mem |-> CopyUp(m, dst, src, n), ret |-> dst + n]
    ELSE [mem |-> CopyDown(m, dst + n, src + n, n), ret |-> dst]

RECURSIVE memcmp(_, _, _)
memcmp(a, b, n) ==
    IF n = 0 THEN 0
    ELSE IF At(a, 1) # At(b, 1) THEN (IF At(a, 1) > At(b, 1) THEN 1 ELSE -1)
    ELSE memcmp(Drop(a, 1), Drop(b, 1), n - 1)
RECURSIVE strcmp(_, _)
strcmp(a, b) ==
    IF At(a, 1) # 0 /\ At(a, 1) = At(b, 1) THEN strcmp(Drop(a, 1), Drop(b, 1))
    ELSE IF At(a, 1) < At(b, 1) THEN -1 ELSE IF At(a, 1) > At(b, 1) THEN 1 ELSE 0

\* Every string has a null byte, at its end.
strchr(s, c) == IF c = 0 THEN Len(s) + 1 ELSE SelectInSeq(s, LAMBDA x : x = c)
strrchr(s, c) == SelectLastInSeq(s, LAMBDA x : x = c)
strpbrk(s, stop) == SelectInSeq(s, LAMBDA x : strchr(stop, x) # 0)
strcspn(s, stop) == LET i == strpbrk(s, stop) IN IF i = 0 THEN Len(s) ELSE i - 1
strspn(s, skip) ==
    LET i == SelectInSeq(s, LAMBDA x : strchr(skip, x) = 0) IN IF i = 0 THEN Len(s) ELSE i - 1
strnlen(s, max) == IF Len(s) < max THEN Len(s) ELSE max

RECURSIVE StrStrFrom(_, _, _)
StrStrFrom(h, needle, i) ==
    IF i > Len(h) - Len(needle) THEN 0
    ELSE IF memcmp(Drop(h, i), needle, Len(needle)) = 0 THEN i + 1 ELSE StrStrFrom(h, needle, i + 1)
strstr(h, needle) == IF Len(h) >= Len(needle) THEN StrStrFrom(h, needle, 0) ELSE 0

\* The next token from position pos of s (0: none), and where to go on.
strtok_r(s, delim, pos) ==
    LET from == pos + strspn(Drop(s, pos - 1), delim)
        len == strcspn(Drop(s, from - 1), delim)
        end == from + len
    IN  IF from > Len(s) THEN [token |-> 0, len |-> 0, save |-> from]
        ELSE [token |-> from, len |-> len, save |-> IF end <= Len(s) THEN end + 1 ELSE end]
RECURSIVE Tokens(_, _, _)
Tokens(s, delim, pos) ==
    LET r == strtok_r(s, delim, pos)
    IN  IF r.token = 0 THEN <<>> ELSE <<SubSeq(s, r.token, r.token + r.len - 1)>> \o Tokens(s, delim, r.save)

strlcpy(src, size) ==
    [str |-> IF size > 0 THEN Take(src, size - 1) ELSE <<>>,
     ret |-> Len(src)]
strlcat(dst, src, size) ==
    LET room == size - Len(dst) - 1
    IN  [str |-> IF size > 0 /\ Len(dst) < size
                 THEN dst \o Take(src, room) ELSE dst,
         ret |-> Len(src) + Len(dst)]
-----------------------------------------------------------------------------
(***************************************************************************)
(* stdlib.c.                                                               *)
(***************************************************************************)

isdigit(c) == c \in ZERO..ZERO + 9
\* The values the number goes through, the last first, and the sign it gets.
RECURSIVE Digits(_, _)
Digits(s, values) ==
    IF isdigit(At(s, 1)) THEN Digits(Drop(s, 1), <<values[1] * 10 - (s[1] - ZERO)>> \o values) ELSE values
atoi(s) ==
    LET t == Drop(s, strspn(s, <<32>>))
        negative == At(t, 1) = MINUS
        values == Digits(IF negative \/ At(t, 1) = 43 THEN Drop(t, 1) ELSE t, <<0>>)
    IN  [value |-> IF negative THEN values[1] ELSE -values[1], through |-> ToSet(values)]

do_swap(a, i, j) == [a EXCEPT ![i] = a[j], ![j] = a[i]]
RECURSIVE heapify(_, _, _)
heapify(a, i, cnt) ==
    LET l == IF 2 * i <= cnt /\ a[2 * i] > a[i] THEN 2 * i ELSE i
        max == IF 2 * i + 1 <= cnt /\ a[2 * i + 1] > a[l] THEN 2 * i + 1 ELSE l
    IN  IF max = i THEN a ELSE heapify(do_swap(a, i, max), max, cnt)
RECURSIVE BuildHeap(_, _)
BuildHeap(a, i) == IF i = 0 THEN a ELSE BuildHeap(heapify(a, i, Len(a)), i - 1)
RECURSIVE SortHeap(_, _)
SortHeap(a, i) == IF i <= 1 THEN a ELSE SortHeap(heapify(do_swap(a, 1, i), 1, i - 1), i - 1)
sort(a) == SortHeap(BuildHeap(a, Len(a) \div 2), Len(a))

\* Where key is in a[first .. last - 1], or 0.
RECURSIVE SearchIn(_, _, _, _)
SearchIn(key, a, first, last) ==
    LET middle == first + (last - first) \div 2
    IN  IF first >= last THEN 0
        ELSE IF key < a[middle] THEN SearchIn(key, a, first, middle)
        ELSE IF key > a[middle] THEN SearchIn(key, a, middle + 1, last)
        ELSE middle
binary_search(key, a) == SearchIn(key, a, 1, Len(a) + 1)
-----------------------------------------------------------------------------
(***************************************************************************)
(* ustar.c.  A header is the fields that differ between files.             *)
(***************************************************************************)

antisocial(s) ==
    \/ At(s, 1) = SLASH \/ memcmp(s, <<DOT, SLASH>>, 2) = 0 \/ memcmp(s, <<DOT, DOT, SLASH>>, 3) = 0
RECURSIVE Stripped(_)
Stripped(s) == IF antisocial(s) THEN Stripped(Drop(s, strchr(s, SLASH))) ELSE s
strip_antisocial_prefixes(s) ==
    LET t == Stripped(s) IN IF t = <<>> \/ strcmp(t, <<DOT, DOT>>) = 0 THEN <<DOT>> ELSE t

\* "%0no" and back.
RECURSIVE Octal(_, _)
Octal(v, n) == IF n = 0 THEN <<>> ELSE Append(Octal(v \div 8, n - 1), ZERO + (v % 8))
OctalValue(s) == FoldLeft(LAMBDA v, c : v * 8 + c - ZERO, 0, s)
parse_octal_field(s, size) ==
    LET n == Cardinality({i \in 1..size : \A j \in 1..i : At(s, j) \in ZERO..ZERO + 7})
    IN  IF n = size \/ n = 0 \/ At(s, n + 1) \notin {0, 32} THEN -1 ELSE OctalValue(Take(s, n))

calculate_chksum(h) == FoldLeft(+, h.typeflag, h.name \o h.size)
ustar_make_header(name, type, size) ==
    LET t == strip_antisocial_prefixes(name)
        h == [name |-> t, size |-> Octal(size, 3), typeflag |-> type, chksum |-> <<>>]
    IN  IF Len(t) > NameBytes THEN [error |-> "file name too long"]
        ELSE [h EXCEPT !.chksum = Octal(calculate_chksum(h), 4)]
ustar_parse_header(h) ==
    IF parse_octal_field(h.chksum, 5) # calculate_chksum(h) THEN [error |-> "checksum mismatch"]
    ELSE IF h.typeflag \notin {ZERO, ZERO + 5} THEN [error |-> "unimplemented file type"]
    ELSE IF h.typeflag = ZERO /\ parse_octal_field(h.size, 4) = -1 THEN [error |-> "corrupt file size field"]
    ELSE [name |-> strip_antisocial_prefixes(h.name), type |-> h.typeflag,
          size |-> IF h.typeflag = ZERO THEN parse_octal_field(h.size, 4) ELSE 0]
-----------------------------------------------------------------------------
Calls ==
    [fn : {"memmove"}, a : [1..MaxString -> Char], b : (1..MaxString) \X (1..MaxString), n : 0..MaxString]
    \cup [fn : {"compare", "find", "tokens"}, a : Strs(MaxString), b : Strs(2), n : {0}]
    \cup [fn : {"copy"}, a : Strs(MaxString), b : Strs(2), n : 0..MaxString + 1]
    \cup [fn : {"atoi"}, a : {<<>>}, b : {<<>>}, n : IntMin..-IntMin - 1]
    \cup [fn : {"sort"}, a : UNION {[1..i -> SortKeys] : i \in 0..5}, b : {<<>>}, n : SortKeys]
    \cup [fn : {"ustar"}, a : Strs(MaxString), b : {<<ZERO>>, <<ZERO + 5>>}, n : {0, 1, 8, 77}]
NoCall == [fn |-> "none", a |-> <<>>, b |-> <<>>, n |-> 0]

StringsInit == st_call = NoCall
Call ==
    /\ st_call = NoCall
    /\ st_call' \in {c \in Calls : c.fn = "memmove" => c.b[1] + c.n <= MaxString + 1 /\ c.b[2] + c.n <= MaxString + 1}
StringsNext == Call
StringsSpec == StringsInit /\ [][StringsNext]_stringsVars
-----------------------------------------------------------------------------
(***************************************************************************)
(* What the functions promise.                                             *)
(***************************************************************************)

Before(a, b) ==    \* a is before b in the order of a dictionary
    \E i \in 1..Len(b) : Take(a, i - 1) = Take(b, i - 1) /\ At(a, i) < At(b, i)
RECURSIVE Decimal(_)
Decimal(v) == (IF v < 10 THEN <<>> ELSE Decimal(v \div 10)) \o <<ZERO + (v % 10)>>
\* The maximal runs of s without a byte of delim, in order.
Runs(s, delim) ==
    LET in(i) == i \in DOMAIN s /\ s[i] \notin ToSet(delim)
        starts == SetToSortSeq({i \in DOMAIN s : in(i) /\ ~in(i - 1)}, <)
        End(i) == Max({j \in i..Len(s) : \A k \in i..j : in(k)})
    IN  [r \in DOMAIN starts |-> SubSeq(s, starts[r], End(starts[r]))]
FirstOf(S) == IF S = {} THEN 0 ELSE Min(S)

\* memmove moves blocks that overlap.  The comparisons are the order of a
\* dictionary.  The searches find the first and the last place there is.  strtok_r
\* returns the maximal runs without delimiters.  strlcpy and strlcat never write
\* SIZE characters or more and tell the length they wanted.  atoi reads every int
\* back, the smallest too, and no value on the way is out of range.  sort returns a
\* sorted permutation in which binary_search finds exactly what is there.  What
\* ustar_make_header makes of a file, ustar_parse_header reads back, under a name
\* that stays below the directory it is put in at its start.
StringsAgree ==
    LET c == st_call
        a == c.a
        b == c.b
    IN  CASE c.fn = "memmove" ->
                memmove(a, b[1], b[2], c.n).mem =
                   [i \in DOMAIN a |-> IF i \in b[1]..b[1] + c.n - 1 THEN a[i - b[1] + b[2]] ELSE a[i]]
          [] c.fn = "compare" ->
                /\ strcmp(a, b) = IF a = b THEN 0 ELSE IF Before(a, b) THEN -1 ELSE 1
                /\ (Len(a) = Len(b)) => memcmp(a, b, Len(a)) = strcmp(a, b)
          [] c.fn = "find" ->
                /\ strstr(a, b) = FirstOf({i \in 1..Len(a) + 1 : \E j \in 0..Len(a) : SubSeq(a, i, j) = b /\ j = i + Len(b) - 1})
                /\ strpbrk(a, b) = FirstOf({i \in DOMAIN a : a[i] \in ToSet(b)})
                /\ \A x \in Char : strrchr(a, x) = IF x \in ToSet(a) THEN Max({i \in DOMAIN a : a[i] = x}) ELSE 0
          [] c.fn = "tokens" -> Tokens(a, b, 1) = Runs(a, b)
          [] c.fn = "copy" ->
                /\ c.n > 0 => Len(strlcpy(a, c.n).str) < c.n /\ IsPrefix(strlcpy(a, c.n).str, a)
                /\ Len(b) < c.n => Len(strlcat(b, a, c.n).str) < c.n
                /\ strlcat(b, a, c.n).ret < c.n => strlcat(b, a, c.n).str = b \o a
          [] c.fn = "atoi" ->
                LET r == atoi(IF c.n < 0 THEN <<32, MINUS>> \o Decimal(-c.n) ELSE Decimal(c.n))
                IN  r.value = c.n /\ r.through \subseteq IntMin..-IntMin - 1
          [] c.fn = "sort" ->
                /\ \A i \in 1..Len(a) - 1 : sort(a)[i] <= sort(a)[i + 1]
                /\ \A x \in SortKeys : Cardinality({i \in DOMAIN a : a[i] = x}) = Cardinality({i \in DOMAIN a : sort(a)[i] = x})
                /\ LET i == binary_search(c.n, sort(a))
                   IN  IF c.n \in ToSet(a) THEN i \in DOMAIN a /\ sort(a)[i] = c.n ELSE i = 0
          [] c.fn = "ustar" ->
                LET h == ustar_make_header(a, b[1], c.n)
                IN  IF "error" \in DOMAIN h THEN Len(a) > NameBytes
                    ELSE LET f == ustar_parse_header(h)
                         IN  /\ f = [name |-> strip_antisocial_prefixes(a), type |-> b[1],
                                     size |-> IF b[1] = ZERO THEN c.n ELSE 0]
                             /\ At(f.name, 1) # SLASH /\ f.name # <<DOT, DOT>>
                             /\ Take(f.name, 3) # <<DOT, DOT, SLASH>>
          [] OTHER -> TRUE
=============================================================================
