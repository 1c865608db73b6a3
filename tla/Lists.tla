-------------------------------- MODULE Lists --------------------------------
(***************************************************************************)
(* What a loop over a list that skips or erases some elements leaves of it,*)
(* what std::sort makes of it, and what a loop finds that finds a list for *)
(* each element.                                                           *)
(***************************************************************************)
EXTENDS Integers, Sequences, FiniteSets

\* The elements of list s at the places in I, in their order.
Chosen(s, I) ==
    LET kept[i \in 0..Len(s)] ==
            IF i = 0 THEN <<>>
            ELSE IF i \in I THEN Append(kept[i - 1], s[i]) ELSE kept[i - 1]
    IN  kept[Len(s)]

\* List s in the order of the numbers in key; equal ones keep their order.
Sorted(s, key) ==
    LET Place(i) == Cardinality({j \in DOMAIN s : key[j] < key[i] \/ (key[j] = key[i] /\ j <= i)})
    IN  [k \in DOMAIN s |-> s[CHOOSE i \in DOMAIN s : Place(i) = k]]

\* The lists of list ss one after the other.
Joined(ss) ==
    LET upto[i \in 0..Len(ss)] == IF i = 0 THEN <<>> ELSE upto[i - 1] \o ss[i]
    IN  upto[Len(ss)]
=============================================================================
