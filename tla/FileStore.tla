------------------------------ MODULE FileStore ------------------------------
(***************************************************************************)
(* What the file system of PintOS promises its callers: names that refer   *)
(* to files, and files whose contents change only when an opener writes to *)
(* them.  A file lives as long as a name or an opener refers to it.        *)
(*                                                                         *)
(* A store s has s.names (what each name refers to), s.content (the        *)
(* contents of each file, Gone when there is no such file), s.held (the    *)
(* number of openers of each file), s.exec (the file that is executed, one *)
(* of its openers) and s.broken, the point after which the implementation  *)
(* promises nothing.  An operation relates the store s before it to the    *)
(* store t after it.                                                       *)
(***************************************************************************)
EXTENDS Integers, Sequences

CONSTANTS
    Name, Id,        \* names and files
    Pos, Buffer,     \* where and what callers write
    Zero, Gone, None

VARIABLE store

Zeros(n) == [k \in 1..n |-> Zero]

\* b written over c at position p, with zeros between the end of c and p.
Overlay(c, p, b) ==
    LET end == p + Len(b)
    IN  [k \in 1..(IF Len(c) > end THEN Len(c) ELSE end) |->
            IF k > p /\ k <= end THEN b[k - p] ELSE IF k <= Len(c) THEN c[k] ELSE Zero]

Referred(s, i) == s.held[i] > 0 \/ \E n \in Name : s.names[n] = i

\* Files that nothing refers to any more are gone, all others are as they were.
Collected(s, t) == [i \in Id |-> IF Referred(t, i) THEN s.content[i] ELSE Gone]

Create(s, t, n, i) ==
    /\ s.names[n] = None /\ s.content[i] = Gone
    /\ t = [s EXCEPT !.names[n] = i, !.content[i] = Zeros(Len(t.content[i]))]

Open(s, t, n) == s.names[n] # None /\ t = [s EXCEPT !.held[s.names[n]] = @ + 1]

Write(s, t, i, p, b) ==
    s.held[i] > 0 /\ i # s.exec /\ t = [s EXCEPT !.content[i] = Overlay(@, p, b)]

Remove(s, t, n) ==
    /\ s.names[n] # None
    /\ t = [s EXCEPT !.names[n] = None, !.content = Collected(s, t)]

Close(s, t, i) ==
    s.held[i] > 0 /\ t = [s EXCEPT !.held[i] = @ - 1, !.content = Collected(s, t)]

\* A program is started from file n, and ends.
Start(s, t, n) ==
    /\ s.names[n] # None /\ s.exec = None
    /\ t = [s EXCEPT !.held[s.names[n]] = @ + 1, !.exec = s.names[n]]
Finish(s, t) ==
    /\ s.exec # None
    /\ t = [s EXCEPT !.held[s.exec] = @ - 1, !.exec = None, !.content = Collected(s, t)]

\* All openers go at once, when the machine is switched off.
Halt(s, t) ==
    t = [s EXCEPT !.held = [i \in Id |-> 0], !.exec = None, !.content = Collected(s, t)]

Step(s, t) ==
    \/ t.broken /\ ~ s.broken
    \/ s = t \/ Halt(s, t) \/ Finish(s, t)
    \/ \E n \in Name : Open(s, t, n) \/ Start(s, t, n) \/ Remove(s, t, n)
                       \/ (t.names[n] # None /\ Create(s, t, n, t.names[n]))
    \/ \E i \in Id : Close(s, t, i)
    \/ \E i \in {j \in Id : s.content[j] # t.content[j]}, p \in Pos, b \in Buffer : Write(s, t, i, p, b)

StoreInit ==
    store = [names |-> [n \in Name |-> None], content |-> [i \in Id |-> Gone],
             held |-> [i \in Id |-> 0], exec |-> None, broken |-> FALSE]
StoreNext == \E s \in {store}, t \in {store'} : Step(s, t)
StoreSpec == StoreInit /\ [][StoreNext]_store
=============================================================================
