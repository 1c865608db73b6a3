--------------------------- MODULE ProcessProofs ---------------------------
(***************************************************************************)
(* Proofs about Process for every set of processes and exit statuses: the  *)
(* handshake of process_execute () with start_process (), on which the     *)
(* command pages, the file system lock and the result of exec rest, and    *)
(* the tree of processes with the records that parents and children share, *)
(* on which the result of wait rests.                                      *)
(***************************************************************************)
EXTENDS Process, ListFacts, TLAPS

\* The types of what the handshake uses; a process in process_execute () or
\* process_wait () knows which child it is about.
StartType ==
    /\ pc \in [All -> PC]
    /\ parent \in [Proc -> All \cup {None}]
    /\ arg \in [All -> Proc \cup {None}]
    /\ args \subseteq Proc
    /\ success \in [Proc -> BOOLEAN]
    /\ info \in [Proc -> Info]
    /\ fs_lock \in Proc \cup {None}
    /\ reported \in [Proc -> {"pending", "tid", "error"}]
    /\ \A p \in All :
          pc[p] \in {"init", "start_down", "wait_down", "wait_get"} => arg[p] \in Proc

\* p waits in process_execute (); c is in start_process ().
Parenting(p) == pc[p] \in {"init", "start_down"}
Starting(c) == pc[c] \in {"load", "set_tid", "start_up"}

\* While a child starts, its parent is in process_execute () for this child and
\* no other, cannot pass start_sema, and unless it is the initial thread holds
\* global_filesys_lock, as a process in a file call does.
HandshakeInv ==
    /\ \A p \in All : Parenting(p) =>
          /\ parent[arg[p]] = p /\ pc[arg[p]] # "none"
          /\ p # Main => fs_lock = p
    /\ \A c \in Proc : Starting(c) =>
          /\ parent[c] \in All /\ Parenting(parent[c]) /\ arg[parent[c]] = c
          /\ info[c].start_sema = 0 /\ c \in args
    /\ \A c \in Proc : pc[c] = "file" => fs_lock = c

\* The tid in the info block says whether the child loaded, from the time its
\* parent may look at it.
OutcomeInv ==
    \A c \in Proc :
        /\ pc[c] \in {"load", "set_tid"} => info[c].tid = TID_ERROR
        /\ pc[c] = "none" \/ Starting(c) => reported[c] = "pending"
        /\ pc[c] \notin {"none", "load", "set_tid"} =>
              info[c].tid = IF success[c] THEN c ELSE TID_ERROR
        /\ pc[c] \in {"user", "file", "init", "start_down", "wait_down", "wait_get"} => success[c]
        /\ reported[c] = "error" => ~ success[c]
        /\ reported[c] = "tid" => success[c]

\* The inductive invariant.
StartInv == StartType /\ HandshakeInv /\ OutcomeInv
-----------------------------------------------------------------------------
\* Assigning a value of its type to a field of an info block keeps it one.
LEMMA InfoUpdate ==
    ASSUME NEW r \in Info
    PROVE  /\ \A v \in {"none", "raw", "live", "freed"} : [r EXCEPT !.block = v] \in Info
           /\ \A v \in Proc \cup {TID_ERROR} : [r EXCEPT !.tid = v] \in Info
           /\ \A v \in Nat : [r EXCEPT !.start_sema = v] \in Info
           /\ [r EXCEPT !.orphan = TRUE] \in Info /\ [r EXCEPT !.exited = TRUE] \in Info
<1>1. \A v \in {"none", "raw", "live", "freed"} : [r EXCEPT !.block = v] \in Info
  BY DEF Info
<1>2. \A v \in Proc \cup {TID_ERROR} : [r EXCEPT !.tid = v] \in Info
  BY DEF Info
<1>3. \A v \in Nat : [r EXCEPT !.start_sema = v] \in Info
  BY DEF Info
<1>4. [r EXCEPT !.orphan = TRUE] \in Info
  BY DEF Info
<1>5. [r EXCEPT !.exited = TRUE] \in Info
  BY DEF Info
<1> QED
  BY <1>1, <1>2, <1>3, <1>4, <1>5

\* A reset info block is one, with its old tid and start_sema.
LEMMA InfoReset ==
    ASSUME NEW r \in Info, NEW v,
           v = [r EXCEPT !.block = "live", !.exited = FALSE, !.orphan = FALSE,
                         !.exit_status = -1, !.wait_exit_sema = 0]
    PROVE  v \in Info /\ v.tid = r.tid /\ v.start_sema = r.start_sema
<1>1. v = [block |-> "live", tid |-> r.tid, exited |-> FALSE, orphan |-> FALSE,
           exit_status |-> -1, start_sema |-> r.start_sema, wait_exit_sema |-> 0]
  BY DEF Info
<1>2. r.tid \in Proc \cup {TID_ERROR} /\ r.start_sema \in Nat
  BY DEF Info
<1>3. v.tid = r.tid /\ v.start_sema = r.start_sema
  BY <1>1
<1>4. v \in Info
  <2> DEFINE minus == -1
  <2>1. minus \in Int
    OBVIOUS
  <2> HIDE DEF minus
  <2>2. [block |-> "live", tid |-> r.tid, exited |-> FALSE, orphan |-> FALSE,
         exit_status |-> minus, start_sema |-> r.start_sema, wait_exit_sema |-> 0] \in Info
    BY <1>2, <2>1 DEF Info
  <2> QED
    BY <1>1, <2>2 DEF minus
<1> QED
  BY <1>3, <1>4

\* Initialising an info block moves its creator on and touches neither the tid
\* nor start_sema of any block.
LEMMA InitInfoFrame ==
    ASSUME StartType, NEW p \in All, InitInfo(p)
    PROVE  /\ pc[p] = "init" /\ pc' = [pc EXCEPT ![p] = "start_down"]
           /\ info' \in [Proc -> Info]
           /\ \A c \in Proc : info'[c].tid = info[c].tid /\ info'[c].start_sema = info[c].start_sema
           /\ UNCHANGED <<parent, arg, args, success, fs_lock, reported>>
<1>1. /\ pc[p] = "init" /\ pc' = [pc EXCEPT ![p] = "start_down"]
      /\ UNCHANGED <<parent, arg, args, success, fs_lock, reported>>
  BY DEF InitInfo, At, Goto, caller, child, files, ghosts
<1>2. arg[p] \in Proc /\ info \in [Proc -> Info]
  BY <1>1 DEF StartType
<1> DEFINE r == info[arg[p]]
           v == [r EXCEPT !.block = "live", !.exited = FALSE, !.orphan = FALSE,
                          !.exit_status = -1, !.wait_exit_sema = 0]
<1>3. info' = [info EXCEPT ![arg[p]] = v]
  BY <1>2 DEF InitInfo
<1>4. r \in Info
  BY <1>2
<1> HIDE DEF r
<1>5. v \in Info /\ v.tid = r.tid /\ v.start_sema = r.start_sema
  BY <1>4, InfoReset
<1> HIDE DEF v
<1>6. info' \in [Proc -> Info]
  BY <1>2, <1>3, <1>5
<1>7. \A c \in Proc : info'[c].tid = info[c].tid /\ info'[c].start_sema = info[c].start_sema
  BY <1>2, <1>3, <1>5 DEF r
<1> QED
  BY <1>1, <1>6, <1>7

\* Every step keeps the types.
LEMMA TypePreserved == StartType /\ [Next]_vars => StartType'
<1> SUFFICES ASSUME StartType, [Next]_vars PROVE StartType'
  OBVIOUS
<1> USE ProcessAssumption DEF All, TID_ERROR
<1>1. ASSUME NEW p \in All, ExecNoInfo(p) PROVE StartType'
  BY <1>1 DEF ExecNoInfo, Faults, caller, child, files, ghosts, StartType, Info, PC
<1>2. ASSUME NEW p \in All, NEW c \in Proc, Exec(p, c) PROVE StartType'
  <2> DEFINE r1 == [info[c] EXCEPT !.block = "raw"]
             r2 == [r1 EXCEPT !.tid = TID_ERROR]
             r == [r2 EXCEPT !.start_sema = 0]
  <2>3. r \in Info
    <3>1. r1 \in Info
      BY InfoUpdate DEF StartType
    <3>2. r2 \in Info
      <4> HIDE DEF r1
      <4> QED
        BY <3>1, InfoUpdate
    <3> HIDE DEF r2
    <3> QED
      BY <3>2, InfoUpdate
  <2>4. info' = [info EXCEPT ![c] = r]
    BY <1>2 DEF Exec, StartType, Info
  <2>1. info' \in [Proc -> Info] /\ fs_lock' \in Proc \cup {None}
    <3>1. info' \in [Proc -> Info]
      <4> HIDE DEF r
      <4> QED
        BY <2>3, <2>4 DEF StartType
    <3> QED
      BY <1>2, <3>1 DEF Exec, exec_lock, StartType
  <2>2. /\ pc' = [pc EXCEPT ![p] = "init", ![c] = "load"]
        /\ parent' = [parent EXCEPT ![c] = p] /\ arg' = [arg EXCEPT ![p] = c]
        /\ args' = args \cup {c} /\ success' = success /\ reported' = reported
    BY <1>2 DEF Exec, ghosts
  <2> QED
    BY <2>1, <2>2 DEF StartType, PC
<1>3. ASSUME NEW p \in All, NEW c \in Proc, Wait(p, c) PROVE StartType'
  BY <1>3 DEF Wait, wait_next, Goto, At, child, files, ghosts, StartType, Info, PC
<1>4. ASSUME NEW p \in All, InitInfo(p) PROVE StartType'
  BY <1>4, InitInfoFrame DEF StartType, PC
<1>5. ASSUME NEW p \in All, StartDown(p) PROVE StartType'
  <2>1. arg[p] \in Proc /\ info[arg[p]].start_sema - 1 \in Nat
    BY <1>5 DEF StartDown, At, start_loaded, StartType, Info
  <2> DEFINE b == IF info[arg[p]].tid # TID_ERROR THEN info[arg[p]].block ELSE "freed"
             r1 == [info[arg[p]] EXCEPT !.start_sema = info[arg[p]].start_sema - 1]
             r == [r1 EXCEPT !.block = b]
  <2>5. r \in Info
    <3>1. r1 \in Info
      BY <2>1, InfoUpdate DEF StartType
    <3>2. b \in {"none", "raw", "live", "freed"}
      BY <2>1 DEF StartType, Info
    <3> HIDE DEF r1, b
    <3> QED
      BY <3>1, <3>2, InfoUpdate
  <2>6. info' = [info EXCEPT ![arg[p]] = r]
    BY <1>5, <2>1 DEF StartDown, StartType, Info
  <2>2. info' \in [Proc -> Info]
    <3> HIDE DEF r
    <3> QED
      BY <2>1, <2>5, <2>6 DEF StartType
  <2>3. reported' \in [Proc -> {"pending", "tid", "error"}] /\ fs_lock' \in Proc \cup {None}
    BY <1>5 DEF StartDown, exec_unlock, StartType
  <2>4. /\ pc' = [pc EXCEPT ![p] = "user"] /\ arg' = [arg EXCEPT ![p] = None]
        /\ args' = args \ {arg[p]} /\ parent' = parent /\ success' = success
    BY <1>5 DEF StartDown, Return, Goto
  <2> QED
    BY <2>2, <2>3, <2>4 DEF StartType, PC
<1>6. ASSUME NEW p \in All, WaitDown(p) PROVE StartType'
  <2>1. arg[p] \in Proc /\ info[arg[p]].wait_exit_sema - 1 \in Nat
    BY <1>6 DEF WaitDown, At, wait_over, StartType, Info
  <2>2. info' \in [Proc -> Info]
    BY <1>6, <2>1 DEF WaitDown, StartType, Info
  <2> QED
    BY <1>6, <2>2 DEF WaitDown, Goto, At, caller, child, files, ghosts, StartType, PC
<1>7. ASSUME NEW p \in All, WaitGet(p) PROVE StartType'
  BY <1>7 DEF WaitGet, Return, free, Goto, At, child, files, StartType, Info, PC
<1>8. ASSUME NEW c \in Proc, FileCall(c) PROVE StartType'
  BY <1>8 DEF FileCall, Goto, At, caller, child, ghosts, StartType, Info, PC
<1>9. ASSUME NEW c \in Proc, Kill(c) PROVE StartType'
  BY <1>9 DEF Kill, Goto, At, caller, child, files, StartType, Info, PC
<1>10. ASSUME NEW c \in Proc, NEW s \in Code, Exit(c, s) PROVE StartType'
  BY <1>10 DEF Exit, Goto, At, caller, child, files, StartType, Info, PC
<1>11. ASSUME NEW c \in Proc, LoadNoMemory(c) PROVE StartType'
  BY <1>11 DEF LoadNoMemory, Goto, At, caller, files, ghosts, StartType, Info, PC
<1>12. ASSUME NEW c \in Proc, NEW ok \in BOOLEAN, Load(c, ok) PROVE StartType'
  BY <1>12 DEF Load, Goto, At, caller, files, ghosts, StartType, Info, PC
<1>13. ASSUME NEW c \in Proc, SetTid(c) PROVE StartType'
  BY <1>13 DEF SetTid, loaded_tid, Goto, At, caller, child, files, ghosts, StartType,
     Info, PC
<1>14. ASSUME NEW c \in Proc, StartUp(c) PROVE StartType'
  BY <1>14 DEF StartUp, start_up, Goto, At, caller, child, files, ghosts, StartType, Info,
     PC
<1>15. ASSUME NEW c \in Proc, FileReturn(c) PROVE StartType'
  BY <1>15 DEF FileReturn, Goto, At, caller, child, ghosts, StartType, Info, PC
<1>16. ASSUME NEW c \in Proc, ExitTest(c) PROVE StartType'
  <2>1. PICK x : info' = info \/ info' = [info EXCEPT ![x].block = "freed"]
    BY <1>16 DEF ExitTest, free
  <2>2. info' \in [Proc -> Info]
    <3>1. ASSUME NEW y \in Proc PROVE [info[y] EXCEPT !.block = "freed"] \in Info
      BY InfoUpdate DEF StartType
    <3>2. CASE x \in Proc
      BY <2>1, <3>1, <3>2 DEF StartType
    <3>3. CASE x \notin Proc
      BY <2>1, <3>3 DEF StartType
    <3> QED
      BY <3>2, <3>3
  <2>3. pc' = pc \/ pc' = [pc EXCEPT ![c] = "set_exited"] \/ pc' = [pc EXCEPT ![c] = "exit_orphan"]
    BY <1>16 DEF ExitTest, Goto
  <2> QED
    BY <1>16, <2>2, <2>3
       DEF ExitTest, At, caller, child, files, ghosts, StartType, PC
<1>17. ASSUME NEW c \in Proc, ExitOrphan(c) PROVE StartType'
  <2>1. PICK x : info' = [info EXCEPT ![x].orphan = TRUE]
    BY <1>17 DEF ExitOrphan
  <2>2. info' \in [Proc -> Info]
    <3>1. ASSUME NEW y \in Proc PROVE [info[y] EXCEPT !.orphan = TRUE] \in Info
      BY InfoUpdate DEF StartType
    <3>2. CASE x \in Proc
      BY <2>1, <3>1, <3>2 DEF StartType
    <3>3. CASE x \notin Proc
      BY <2>1, <3>3 DEF StartType
    <3> QED
      BY <3>2, <3>3
  <2> QED
    BY <1>17, <2>2 DEF ExitOrphan, Goto, At, caller, child, files, ghosts, StartType, PC
<1>18. ASSUME NEW c \in Proc, ExitNext(c) PROVE StartType'
  BY <1>18 DEF ExitNext, Faults, Goto, At, caller, child, files, ghosts, StartType, Info,
     PC
<1>19. ASSUME NEW c \in Proc, SetExited(c) PROVE StartType'
  <2>1. info' = info \/ info' = [info EXCEPT ![c].exited = TRUE]
    BY <1>19 DEF SetExited, Faults
  <2>2. info' \in [Proc -> Info]
    <3>1. [info[c] EXCEPT !.exited = TRUE] \in Info
      BY InfoUpdate DEF StartType
    <3>2. CASE info' = info
      BY <3>2 DEF StartType
    <3>3. CASE info' = [info EXCEPT ![c].exited = TRUE]
      BY <3>1, <3>3 DEF StartType
    <3> QED
      BY <2>1, <3>2, <3>3
  <2>3. pc' = pc \/ pc' = [pc EXCEPT ![c] = "exit_up"]
    BY <1>19 DEF SetExited, Faults, Goto
  <2> QED
    BY <1>19, <2>2, <2>3 DEF SetExited, Faults, At, caller, child, files, ghosts, StartType, PC
<1>20. ASSUME NEW c \in Proc, ExitUp(c) PROVE StartType'
  BY <1>20 DEF ExitUp, Faults, exit_up, Goto, At, caller, child, files, ghosts, StartType,
     Info, PC
<1>21. ASSUME NEW c \in Proc, ExitFree(c) PROVE StartType'
  BY <1>21 DEF ExitFree, Faults, free, Goto, At, caller, child, files, ghosts, StartType,
     Info, PC
<1>22. ASSUME NEW c \in Proc, CloseFiles(c) PROVE StartType'
  BY <1>22 DEF CloseFiles, Goto, At, child, ghosts, StartType, Info, PC
<1>23. CASE UNCHANGED vars
  BY <1>23 DEF vars, caller, child, files, ghosts, StartType, Info, PC
<1> QED
  BY <1>1, <1>2, <1>3, <1>4, <1>5, <1>6, <1>7, <1>8, <1>9, <1>10, <1>11, <1>12, <1>13,
     <1>14, <1>15, <1>16, <1>17, <1>18, <1>19, <1>20, <1>21, <1>22, <1>23 DEF Next,
     Call, Act, Continue, ChildStep

\* No step of any process breaks a handshake in progress.
LEMMA HandshakePreserved == StartType /\ HandshakeInv /\ [Next]_vars => HandshakeInv'
<1> SUFFICES ASSUME StartType, HandshakeInv, [Next]_vars PROVE HandshakeInv'
  OBVIOUS
<1> USE ProcessAssumption DEF All
<1>1. ASSUME NEW p \in All, ExecNoInfo(p) PROVE HandshakeInv'
  BY <1>1 DEF ExecNoInfo, Faults, caller, child, files, ghosts, StartType, HandshakeInv,
     Info, Parenting, Starting
<1>2. ASSUME NEW p \in All, NEW c \in Proc, Exec(p, c) PROVE HandshakeInv'
  <2>1. /\ pc[p] = "user" /\ pc[c] = "none" /\ p # c
        /\ pc' = [pc EXCEPT ![p] = "init", ![c] = "load"]
        /\ parent' = [parent EXCEPT ![c] = p] /\ arg' = [arg EXCEPT ![p] = c]
        /\ args' = args \cup {c}
    BY <1>2 DEF Exec, MayExec, At
  <2>2. /\ info'[c].start_sema = 0
        /\ \A d \in Proc \ {c} : info'[d] = info[d]
    BY <1>2 DEF Exec, StartType, Info
  <2>3. IF p = Main THEN fs_lock' = fs_lock ELSE fs_lock = None /\ fs_lock' = p
    BY <1>2 DEF Exec, exec_lock
  <2>4. ASSUME NEW q \in All, Parenting(q)'
        PROVE  parent'[arg'[q]] = q /\ pc'[arg'[q]] # "none" /\ (q # Main => fs_lock' = q)
    <3>1. CASE q = p
      BY <2>1, <2>3, <3>1 DEF StartType
    <3>2. CASE q # p
      <4>1. Parenting(q) /\ arg'[q] = arg[q] /\ arg[q] \in Proc
        BY <2>1, <2>4, <3>2 DEF StartType, Parenting
      <4>2. arg[q] # c /\ parent[arg[q]] = q /\ pc[arg[q]] # "none" /\ (q # Main => fs_lock = q)
        BY <2>1, <4>1 DEF HandshakeInv
      <4> QED
        BY <2>1, <2>3, <4>1, <4>2 DEF StartType
    <3> QED
      BY <3>1, <3>2
  <2>5. ASSUME NEW d \in Proc, Starting(d)'
        PROVE  /\ parent'[d] \in All /\ pc'[parent'[d]] \in {"init", "start_down"}
               /\ arg'[parent'[d]] = d /\ info'[d].start_sema = 0 /\ d \in args'
    <3>1. CASE d = c
      BY <2>1, <2>2, <3>1 DEF StartType
    <3>2. CASE d # c
      <4>1. Starting(d)
        BY <2>1, <2>5, <3>2 DEF StartType, Starting
      <4>2. /\ parent[d] \in All /\ Parenting(parent[d]) /\ arg[parent[d]] = d
            /\ info[d].start_sema = 0 /\ d \in args
        BY <4>1 DEF HandshakeInv
      <4>3. parent[d] # p /\ parent[d] # c
        BY <2>1, <4>2 DEF Parenting
      <4> QED
        BY <2>1, <2>2, <3>2, <4>2, <4>3 DEF StartType, Parenting
    <3> QED
      BY <3>1, <3>2
  <2>6. ASSUME NEW d \in Proc, pc'[d] = "file" PROVE fs_lock' = d
    BY <2>1, <2>3, <2>6 DEF StartType, HandshakeInv
  <2> QED
    BY <2>4, <2>5, <2>6 DEF HandshakeInv, Parenting, Starting
<1>3. ASSUME NEW p \in All, NEW c \in Proc, Wait(p, c) PROVE HandshakeInv'
  BY <1>3 DEF Wait, wait_next, Goto, At, child, files, ghosts, StartType, HandshakeInv,
     Info, Parenting, Starting
<1>4. ASSUME NEW p \in All, InitInfo(p) PROVE HandshakeInv'
  BY <1>4, InitInfoFrame DEF StartType, HandshakeInv, Parenting, Starting
<1>5. ASSUME NEW p \in All, StartDown(p) PROVE HandshakeInv'
  BY <1>5 DEF StartDown, exec_unlock, Return, start_loaded, Goto, At, StartType,
     HandshakeInv, Info, Parenting, Starting
<1>6. ASSUME NEW p \in All, WaitDown(p) PROVE HandshakeInv'
  BY <1>6 DEF WaitDown, Goto, At, caller, child, files, ghosts, StartType, HandshakeInv,
     Info, Parenting, Starting
<1>7. ASSUME NEW p \in All, WaitGet(p) PROVE HandshakeInv'
  BY <1>7 DEF WaitGet, Return, free, Goto, At, child, files, StartType, HandshakeInv,
     Info, Parenting, Starting
<1>8. ASSUME NEW c \in Proc, FileCall(c) PROVE HandshakeInv'
  BY <1>8 DEF FileCall, Goto, At, caller, child, ghosts, StartType, HandshakeInv, Info,
     Parenting, Starting
<1>9. ASSUME NEW c \in Proc, Kill(c) PROVE HandshakeInv'
  BY <1>9 DEF Kill, Goto, At, caller, child, files, StartType, HandshakeInv, Info,
     Parenting, Starting
<1>10. ASSUME NEW c \in Proc, NEW s \in Code, Exit(c, s) PROVE HandshakeInv'
  BY <1>10 DEF Exit, Goto, At, caller, child, files, StartType, HandshakeInv, Info,
     Parenting, Starting
<1>11. ASSUME NEW c \in Proc, LoadNoMemory(c) PROVE HandshakeInv'
  BY <1>11 DEF LoadNoMemory, Goto, At, caller, files, ghosts, StartType, HandshakeInv,
     Info, Parenting, Starting
<1>12. ASSUME NEW c \in Proc, NEW ok \in BOOLEAN, Load(c, ok) PROVE HandshakeInv'
  BY <1>12 DEF Load, Goto, At, caller, files, ghosts, StartType, HandshakeInv, Info,
     Parenting, Starting
<1>13. ASSUME NEW c \in Proc, SetTid(c) PROVE HandshakeInv'
  BY <1>13 DEF SetTid, loaded_tid, Goto, At, caller, child, files, ghosts, StartType,
     HandshakeInv, Info, Parenting, Starting
<1>14. ASSUME NEW c \in Proc, StartUp(c) PROVE HandshakeInv'
  BY <1>14 DEF StartUp, start_up, Goto, At, caller, child, files, ghosts, StartType,
     HandshakeInv, Info, Parenting, Starting
<1>15. ASSUME NEW c \in Proc, FileReturn(c) PROVE HandshakeInv'
  BY <1>15 DEF FileReturn, Goto, At, caller, child, ghosts, StartType, HandshakeInv, Info,
     Parenting, Starting
<1>16. ASSUME NEW c \in Proc, ExitTest(c) PROVE HandshakeInv'
  <2>1. PICK x : info' = info \/ info' = [info EXCEPT ![x].block = "freed"]
    BY <1>16 DEF ExitTest, free
  <2>2. \A d \in Proc : info'[d].tid = info[d].tid /\ info'[d].start_sema = info[d].start_sema
    BY <2>1 DEF StartType, Info
  <2>3. pc' = pc \/ pc' = [pc EXCEPT ![c] = "set_exited"] \/ pc' = [pc EXCEPT ![c] = "exit_orphan"]
    BY <1>16 DEF ExitTest, Goto
  <2> QED
    BY <1>16, <2>2, <2>3
       DEF ExitTest, At, caller, child, files, ghosts, StartType, HandshakeInv, Parenting, Starting
<1>17. ASSUME NEW c \in Proc, ExitOrphan(c) PROVE HandshakeInv'
  BY <1>17 DEF ExitOrphan, Goto, At, caller, child, files, ghosts, StartType,
     HandshakeInv, Info, Parenting, Starting
<1>18. ASSUME NEW c \in Proc, ExitNext(c) PROVE HandshakeInv'
  BY <1>18 DEF ExitNext, Faults, Goto, At, caller, child, files, ghosts, StartType,
     HandshakeInv, Info, Parenting, Starting
<1>19. ASSUME NEW c \in Proc, SetExited(c) PROVE HandshakeInv'
  BY <1>19 DEF SetExited, Faults, Goto, At, caller, child, files, ghosts, StartType,
     HandshakeInv, Info, Parenting, Starting
<1>20. ASSUME NEW c \in Proc, ExitUp(c) PROVE HandshakeInv'
  BY <1>20 DEF ExitUp, Faults, exit_up, Goto, At, caller, child, files, ghosts, StartType,
     HandshakeInv, Info, Parenting, Starting
<1>21. ASSUME NEW c \in Proc, ExitFree(c) PROVE HandshakeInv'
  BY <1>21 DEF ExitFree, Faults, free, Goto, At, caller, child, files, ghosts, StartType,
     HandshakeInv, Info, Parenting, Starting
<1>22. ASSUME NEW c \in Proc, CloseFiles(c) PROVE HandshakeInv'
  BY <1>22 DEF CloseFiles, Goto, At, child, ghosts, StartType, HandshakeInv, Info,
     Parenting, Starting
<1>23. CASE UNCHANGED vars
  BY <1>23 DEF vars, caller, child, files, ghosts, StartType, HandshakeInv, Info,
     Parenting, Starting
<1> QED
  BY <1>1, <1>2, <1>3, <1>4, <1>5, <1>6, <1>7, <1>8, <1>9, <1>10, <1>11, <1>12, <1>13,
     <1>14, <1>15, <1>16, <1>17, <1>18, <1>19, <1>20, <1>21, <1>22, <1>23 DEF Next,
     Call, Act, Continue, ChildStep

\* The tid and the result of exec follow the load.
LEMMA OutcomePreserved == StartType /\ HandshakeInv /\ OutcomeInv /\ [Next]_vars => OutcomeInv'
<1> SUFFICES ASSUME StartType, HandshakeInv, OutcomeInv, [Next]_vars PROVE OutcomeInv'
  OBVIOUS
<1> USE ProcessAssumption DEF All, TID_ERROR
<1>1. ASSUME NEW p \in All, ExecNoInfo(p) PROVE OutcomeInv'
  BY <1>1 DEF ExecNoInfo, Faults, caller, child, files, ghosts, StartType, HandshakeInv,
     OutcomeInv, Info, Parenting, Starting
<1>2. ASSUME NEW p \in All, NEW c \in Proc, Exec(p, c) PROVE OutcomeInv'
  BY <1>2 DEF Exec, exec_lock, MayExec, At, ghosts, StartType, HandshakeInv, OutcomeInv,
     Info, Parenting, Starting
<1>3. ASSUME NEW p \in All, NEW c \in Proc, Wait(p, c) PROVE OutcomeInv'
  BY <1>3 DEF Wait, wait_next, Goto, At, child, files, ghosts, StartType, HandshakeInv,
     OutcomeInv, Info, Parenting, Starting
<1>4. ASSUME NEW p \in All, InitInfo(p) PROVE OutcomeInv'
  BY <1>4, InitInfoFrame DEF StartType, OutcomeInv, Starting
<1>5. ASSUME NEW p \in All, StartDown(p) PROVE OutcomeInv'
  BY <1>5 DEF StartDown, exec_unlock, Return, start_loaded, Goto, At, StartType,
     HandshakeInv, OutcomeInv, Info, Parenting, Starting
<1>6. ASSUME NEW p \in All, WaitDown(p) PROVE OutcomeInv'
  BY <1>6 DEF WaitDown, Goto, At, caller, child, files, ghosts, StartType, HandshakeInv,
     OutcomeInv, Info, Parenting, Starting
<1>7. ASSUME NEW p \in All, WaitGet(p) PROVE OutcomeInv'
  BY <1>7 DEF WaitGet, Return, free, Goto, At, child, files, StartType, HandshakeInv,
     OutcomeInv, Info, Parenting, Starting
<1>8. ASSUME NEW c \in Proc, FileCall(c) PROVE OutcomeInv'
  BY <1>8 DEF FileCall, Goto, At, caller, child, ghosts, StartType, HandshakeInv,
     OutcomeInv, Info, Parenting, Starting
<1>9. ASSUME NEW c \in Proc, Kill(c) PROVE OutcomeInv'
  BY <1>9 DEF Kill, Goto, At, caller, child, files, StartType, HandshakeInv, OutcomeInv,
     Info, Parenting, Starting
<1>10. ASSUME NEW c \in Proc, NEW s \in Code, Exit(c, s) PROVE OutcomeInv'
  BY <1>10 DEF Exit, Goto, At, caller, child, files, StartType, HandshakeInv, OutcomeInv,
     Info, Parenting, Starting
<1>11. ASSUME NEW c \in Proc, LoadNoMemory(c) PROVE OutcomeInv'
  BY <1>11 DEF LoadNoMemory, Goto, At, caller, files, ghosts, StartType, HandshakeInv,
     OutcomeInv, Info, Parenting, Starting
<1>12. ASSUME NEW c \in Proc, NEW ok \in BOOLEAN, Load(c, ok) PROVE OutcomeInv'
  BY <1>12 DEF Load, Goto, At, caller, files, ghosts, StartType, HandshakeInv, OutcomeInv,
     Info, Parenting, Starting
<1>13. ASSUME NEW c \in Proc, SetTid(c) PROVE OutcomeInv'
  BY <1>13 DEF SetTid, loaded_tid, Goto, At, caller, child, files, ghosts, StartType,
     HandshakeInv, OutcomeInv, Info, Parenting, Starting
<1>14. ASSUME NEW c \in Proc, StartUp(c) PROVE OutcomeInv'
  BY <1>14 DEF StartUp, start_up, Goto, At, caller, child, files, ghosts, StartType,
     HandshakeInv, OutcomeInv, Info, Parenting, Starting
<1>15. ASSUME NEW c \in Proc, FileReturn(c) PROVE OutcomeInv'
  BY <1>15 DEF FileReturn, Goto, At, caller, child, ghosts, StartType, HandshakeInv,
     OutcomeInv, Info, Parenting, Starting
<1>16. ASSUME NEW c \in Proc, ExitTest(c) PROVE OutcomeInv'
  <2>1. PICK x : info' = info \/ info' = [info EXCEPT ![x].block = "freed"]
    BY <1>16 DEF ExitTest, free
  <2>2. \A d \in Proc : info'[d].tid = info[d].tid /\ info'[d].start_sema = info[d].start_sema
    BY <2>1 DEF StartType, Info
  <2>3. pc' = pc \/ pc' = [pc EXCEPT ![c] = "set_exited"] \/ pc' = [pc EXCEPT ![c] = "exit_orphan"]
    BY <1>16 DEF ExitTest, Goto
  <2> QED
    BY <1>16, <2>2, <2>3
       DEF ExitTest, At, caller, child, files, ghosts, StartType, OutcomeInv, Starting
<1>17. ASSUME NEW c \in Proc, ExitOrphan(c) PROVE OutcomeInv'
  BY <1>17 DEF ExitOrphan, Goto, At, caller, child, files, ghosts, StartType,
     HandshakeInv, OutcomeInv, Info, Parenting, Starting
<1>18. ASSUME NEW c \in Proc, ExitNext(c) PROVE OutcomeInv'
  BY <1>18 DEF ExitNext, Faults, Goto, At, caller, child, files, ghosts, StartType,
     HandshakeInv, OutcomeInv, Info, Parenting, Starting
<1>19. ASSUME NEW c \in Proc, SetExited(c) PROVE OutcomeInv'
  BY <1>19 DEF SetExited, Faults, Goto, At, caller, child, files, ghosts, StartType,
     HandshakeInv, OutcomeInv, Info, Parenting, Starting
<1>20. ASSUME NEW c \in Proc, ExitUp(c) PROVE OutcomeInv'
  BY <1>20 DEF ExitUp, Faults, exit_up, Goto, At, caller, child, files, ghosts, StartType,
     HandshakeInv, OutcomeInv, Info, Parenting, Starting
<1>21. ASSUME NEW c \in Proc, ExitFree(c) PROVE OutcomeInv'
  BY <1>21 DEF ExitFree, Faults, free, Goto, At, caller, child, files, ghosts, StartType,
     HandshakeInv, OutcomeInv, Info, Parenting, Starting
<1>22. ASSUME NEW c \in Proc, CloseFiles(c) PROVE OutcomeInv'
  BY <1>22 DEF CloseFiles, Goto, At, child, ghosts, StartType, HandshakeInv, OutcomeInv,
     Info, Parenting, Starting
<1>23. CASE UNCHANGED vars
  BY <1>23 DEF vars, caller, child, files, ghosts, StartType, HandshakeInv, OutcomeInv,
     Info, Parenting, Starting
<1> QED
  BY <1>1, <1>2, <1>3, <1>4, <1>5, <1>6, <1>7, <1>8, <1>9, <1>10, <1>11, <1>12, <1>13,
     <1>14, <1>15, <1>16, <1>17, <1>18, <1>19, <1>20, <1>21, <1>22, <1>23 DEF Next,
     Call, Act, Continue, ChildStep

-----------------------------------------------------------------------------
LEMMA StartInvariant == Spec => []StartInv
<1>1. Init => StartInv
  <2> SUFFICES ASSUME Init PROVE StartInv
    OBVIOUS
  <2> USE ProcessAssumption
  <2>1. StartType
    BY DEF Init, StartType, Info, PC, All, TID_ERROR
  <2>2. HandshakeInv
    BY DEF Init, HandshakeInv, Parenting, Starting, All
  <2>3. OutcomeInv
    BY DEF Init, OutcomeInv, Starting, All
  <2> QED
    BY <2>1, <2>2, <2>3 DEF StartInv
<1>2. StartInv /\ [Next]_vars => StartInv'
  BY TypePreserved, HandshakePreserved, OutcomePreserved DEF StartInv
<1> QED
  BY <1>1, <1>2, PTL DEF Spec

\* process_execute () frees the command pages and exec_command only after
\* start_process () has left load (), for any number of processes that start
\* children concurrently.
THEOREM CommandOutlivesLoad == Spec => []ArgsAlive
<1>1. StartInv => ArgsAlive
  BY DEF StartInv, HandshakeInv, Starting, ArgsAlive
<1> QED
  BY <1>1, StartInvariant, PTL

\* load () takes no lock, yet no process is in file system code while another
\* one is or loads for an exec: the parent's global_filesys_lock covers it.
THEOREM LockCoversLoad == Spec => []FilesysExclusive
<1>1. StartInv => FilesysExclusive
  <2> SUFFICES ASSUME StartInv, NEW c \in InFilesys, NEW d \in InFilesys PROVE c = d
    BY DEF FilesysExclusive
  <2> USE ProcessAssumption DEF InFilesys
  <2>1. ASSUME NEW e \in InFilesys, pc[e] = "load"
        PROVE  /\ pc[parent[e]] \in {"init", "start_down"}
               /\ arg[parent[e]] = e /\ fs_lock = parent[e]
    BY <2>1 DEF StartInv, HandshakeInv, Parenting, Starting
  <2>2. ASSUME NEW e \in InFilesys, pc[e] = "file"
        PROVE  fs_lock = e
    BY <2>2 DEF StartInv, HandshakeInv
  <2>3. CASE pc[c] = "file" /\ pc[d] = "file"
    BY <2>2, <2>3
  <2>4. CASE pc[c] = "load" /\ pc[d] = "load"
    BY <2>1, <2>4
  <2>5. CASE pc[c] = "file" /\ pc[d] = "load"
    BY <2>1, <2>2, <2>5
  <2>6. CASE pc[c] = "load" /\ pc[d] = "file"
    BY <2>1, <2>2, <2>6
  <2> QED
    BY <2>3, <2>4, <2>5, <2>6
<1> QED
  BY <1>1, StartInvariant, PTL

\* exec returns a tid exactly for a child that loaded, and -1 only for one whose
\* program never runs.
THEOREM ExecTellsTheTruth == Spec => []ExecTruthful
<1>1. StartInv => ExecTruthful
  BY DEF StartInv, OutcomeInv, ExecTruthful
<1> QED
  BY <1>1, StartInvariant, PTL
-----------------------------------------------------------------------------
\* c has passed the point where it tells its parent that it exits.
Exited(c) == pc[c] \in {"exit_up", "exit_free", "close", "dead"}

\* p is in process_exit (), or gone.
Leaving(p) == pc[p] \in {"exit_test", "exit_orphan", "exit_next", "set_exited"} \/ Exited(p)

\* No process is about to initialize c's info block.
InfoSet(c) == \A p \in All : ~ (pc[p] = "init" /\ arg[p] = c)

\* The types of the rest of the state.
TreeType ==
    /\ children \in [All -> Seq(Proc)]
    /\ it \in [All -> Nat \ {0}]
    /\ open_files \subseteq Proc
    /\ fault \in Fault
    /\ waited \in [Proc -> Int \cup {None}]
    /\ code \in [Proc -> Int]

\* A child on p's list was created by p, has loaded, and is there once; its
\* block is live as long as p does not exit.  A child that starts is not listed
\* yet, one that p waits for is.
ListedInv ==
    /\ \A p \in All : NoDup(children[p])
    /\ \A p \in All, c \in Proc : OnList(c, children[p]) =>
          /\ parent[c] = p /\ success[c] /\ pc[c] # "none" /\ ~ Starting(c)
          /\ Leaving(p) \/ info[c].block = "live"
    /\ \A p \in All : Parenting(p) => ~ OnList(arg[p], children[p])
    /\ \A p \in All : pc[p] \in {"wait_down", "wait_get"} => OnList(arg[p], children[p])

\* The block that process_execute () goes on to use is live; only a parent that
\* exits makes a child an orphan.
BlockInv ==
    /\ \A p \in All : pc[p] = "start_down" => info[arg[p]].block = "live"
    /\ \A c \in Proc : info[c].orphan =>
          pc[c] # "none" /\ parent[c] \in All /\ Leaving(parent[c])
    /\ \A p \in All : pc[p] \in {"exit_orphan", "exit_next"} => it[p] <= Len(children[p])

\* A child that loads has an initialized block, which says whether the child has
\* exited and with which status; a wait that goes through finds that it has.
StatusInv ==
    /\ \A c \in Proc : success[c] => pc[c] # "none" /\ InfoSet(c)
    /\ \A c \in Proc : ~ Leaving(c) => code[c] = -1
    /\ \A c \in Proc : InfoSet(c) /\ (success[c] \/ pc[c] = "load") =>
          /\ info[c].exited <=> Exited(c)
          /\ info[c].exit_status = code[c]
          /\ info[c].wait_exit_sema > 0 => Exited(c)
    /\ \A p \in All : pc[p] = "wait_get" => info[arg[p]].exited
    /\ \A c \in Proc : waited[c] # None => waited[c] = code[c] /\ Exited(c)

TreeInv == TreeType /\ ListedInv /\ BlockInv /\ StatusInv
-----------------------------------------------------------------------------
\* What list_remove leaves of a list of children that holds c.
LEMMA Unlisted ==
    ASSUME TreeType, NEW p \in All, NEW c \in Proc,
           NoDup(children[p]), OnList(c, children[p])
    PROVE  /\ unlisted(p, c) \in Seq(Proc) /\ NoDup(unlisted(p, c))
           /\ \A d \in Proc : OnList(d, unlisted(p, c)) <=> OnList(d, children[p]) /\ d # c
<1> DEFINE q == children[p]
           n == CHOOSE k \in 1..Len(q) : q[k] = c
<1>1. q \in Seq(Proc)
  BY DEF TreeType
<1>2. n \in 1..Len(q) /\ q[n] = c
  BY DEF OnList
<1>3. unlisted(p, c) = SubSeq(q, 1, n - 1) \o SubSeq(q, n + 1, Len(q))
  BY DEF unlisted
<1> HIDE DEF n, q
<1> QED
  BY <1>1, <1>2, <1>3, ListRemove DEF q

\* Every step keeps these types too.
LEMMA TreeTypePreserved ==
    StartType /\ TreeType /\ ListedInv /\ [Next]_vars => TreeType'
<1> SUFFICES ASSUME StartType, TreeType, ListedInv, [Next]_vars PROVE TreeType'
  OBVIOUS
<1> USE ProcessAssumption DEF All
<1>1. ASSUME NEW p \in All, ExecNoInfo(p) PROVE TreeType'
  BY <1>1 DEF ExecNoInfo, Faults, caller, child, files, ghosts, TreeType, Fault
<1>2. ASSUME NEW p \in All, NEW c \in Proc, Exec(p, c) PROVE TreeType'
  BY <1>2 DEF Exec, MayExec, At, ghosts, TreeType, Fault
<1>3. ASSUME NEW p \in All, NEW c \in Proc, Wait(p, c) PROVE TreeType'
  BY <1>3 DEF Wait, wait_next, Goto, At, child, files, ghosts, TreeType, Fault
<1>4. ASSUME NEW p \in All, InitInfo(p) PROVE TreeType'
  BY <1>4 DEF InitInfo, Goto, At, caller, child, files, ghosts, TreeType, Fault
<1>5. ASSUME NEW p \in All, StartDown(p) PROVE TreeType'
  <2>1. arg[p] \in Proc
    BY <1>5 DEF StartDown, At, StartType
  <2>2. Append(children[p], arg[p]) \in Seq(Proc)
    BY <2>1 DEF TreeType
  <2>3. children' \in [All -> Seq(Proc)]
    BY <1>5, <2>2 DEF StartDown, TreeType
  <2> QED
    BY <1>5, <2>3 DEF StartDown, TreeType
<1>6. ASSUME NEW p \in All, WaitDown(p) PROVE TreeType'
  BY <1>6 DEF WaitDown, wait_over, Goto, At, caller, child, files, ghosts, TreeType,
     Fault
<1>7. ASSUME NEW p \in All, WaitGet(p) PROVE TreeType'
  <2>1. arg[p] \in Proc /\ OnList(arg[p], children[p]) /\ NoDup(children[p])
    BY <1>7 DEF WaitGet, At, StartType, ListedInv
  <2>2. unlisted(p, arg[p]) \in Seq(Proc)
    BY <2>1, Unlisted
  <2>3. children' \in [All -> Seq(Proc)]
    BY <1>7, <2>2 DEF WaitGet, TreeType
  <2>4. info[arg[p]].exit_status \in Int
    BY <2>1 DEF StartType, Info
  <2>5. waited' \in [Proc -> Int \cup {None}]
    <3> DEFINE w == IF info[arg[p]].exited THEN info[arg[p]].exit_status ELSE -1
    <3>1. w \in Int
      BY <2>4
    <3>2. waited' = [waited EXCEPT ![arg[p]] = w]
      BY <1>7 DEF WaitGet
    <3> HIDE DEF w
    <3> QED
      BY <3>1, <3>2 DEF TreeType
  <2> QED
    BY <1>7, <2>3, <2>5 DEF WaitGet, files, TreeType
<1>8. ASSUME NEW c \in Proc, FileCall(c) PROVE TreeType'
  BY <1>8 DEF FileCall, Goto, At, caller, child, ghosts, TreeType, Fault
<1>9. ASSUME NEW c \in Proc, Kill(c) PROVE TreeType'
  BY <1>9 DEF Kill, Goto, At, caller, child, files, TreeType, Fault
<1>10. ASSUME NEW c \in Proc, NEW s \in Code, Exit(c, s) PROVE TreeType'
  BY <1>10 DEF Exit, Goto, At, caller, child, files, TreeType, Fault
<1>11. ASSUME NEW c \in Proc, LoadNoMemory(c) PROVE TreeType'
  BY <1>11 DEF LoadNoMemory, Goto, At, caller, files, ghosts, TreeType, Fault
<1>12. ASSUME NEW c \in Proc, NEW ok \in BOOLEAN, Load(c, ok) PROVE TreeType'
  BY <1>12 DEF Load, Goto, At, caller, files, ghosts, TreeType, Fault
<1>13. ASSUME NEW c \in Proc, SetTid(c) PROVE TreeType'
  BY <1>13 DEF SetTid, Goto, At, caller, child, files, ghosts, TreeType, Fault
<1>14. ASSUME NEW c \in Proc, StartUp(c) PROVE TreeType'
  BY <1>14 DEF StartUp, Goto, At, caller, child, files, ghosts, TreeType, Fault
<1>15. ASSUME NEW c \in Proc, FileReturn(c) PROVE TreeType'
  BY <1>15 DEF FileReturn, Goto, At, caller, child, ghosts, TreeType, Fault
<1>16. ASSUME NEW c \in Proc, ExitTest(c) PROVE TreeType'
  <2>1. /\ fault' \in {fault, "freed_in_loop"} /\ children' = children /\ it' = it
        /\ open_files' = open_files /\ waited' = waited /\ code' = code
    BY <1>16 DEF ExitTest, caller, files, ghosts
  <2> QED
    BY <2>1 DEF TreeType, Fault
<1>17. ASSUME NEW c \in Proc, ExitOrphan(c) PROVE TreeType'
  BY <1>17 DEF ExitOrphan, Goto, At, caller, child, files, ghosts, TreeType, Fault
<1>18. ASSUME NEW c \in Proc, ExitNext(c) PROVE TreeType'
  <2>1. it[c] + 1 \in Nat \ {0}
    BY DEF TreeType
  <2>2. it' = it \/ it' = [it EXCEPT ![c] = it[c] + 1]
    BY <1>18 DEF ExitNext, Faults, caller
  <2>3. it' \in [All -> Nat \ {0}]
    BY <2>1, <2>2 DEF TreeType
  <2>4. /\ fault' \in {fault, "freed_in_loop"} /\ children' = children
        /\ open_files' = open_files /\ waited' = waited /\ code' = code
    BY <1>18 DEF ExitNext, Faults, caller, child, files, ghosts
  <2> QED
    BY <2>3, <2>4 DEF TreeType, Fault
<1>19. ASSUME NEW c \in Proc, SetExited(c) PROVE TreeType'
  BY <1>19 DEF SetExited, Faults, Goto, At, caller, child, files, ghosts, TreeType,
     Fault
<1>20. ASSUME NEW c \in Proc, ExitUp(c) PROVE TreeType'
  BY <1>20 DEF ExitUp, Faults, exit_up, Goto, At, caller, child, files, ghosts,
     TreeType, Fault
<1>21. ASSUME NEW c \in Proc, ExitFree(c) PROVE TreeType'
  BY <1>21 DEF ExitFree, Faults, free, Goto, At, caller, child, files, ghosts, TreeType,
     Fault
<1>22. ASSUME NEW c \in Proc, CloseFiles(c) PROVE TreeType'
  <2>1. <<>> \in Seq(Proc)
    OBVIOUS
  <2>2. children' \in [All -> Seq(Proc)] /\ it' \in [All -> Nat \ {0}]
    BY <1>22, <2>1 DEF CloseFiles, TreeType
  <2> QED
    BY <1>22, <2>2 DEF CloseFiles, ghosts, TreeType
<1>23. CASE UNCHANGED vars
  BY <1>23 DEF vars, caller, child, files, ghosts, TreeType, Fault
<1> QED
  BY <1>1, <1>2, <1>3, <1>4, <1>5, <1>6, <1>7, <1>8, <1>9, <1>10, <1>11, <1>12, <1>13,
     <1>14, <1>15, <1>16, <1>17, <1>18, <1>19, <1>20, <1>21, <1>22, <1>23 DEF Next,
     Call, Act, Continue, ChildStep

\* The lists stay valid when a process x moves on to l within what it does and
\* no block of a child on the list of a process that stays is freed.
LEMMA ListedMove ==
    ASSUME StartType, TreeType, ListedInv, NEW x \in All, NEW l,
           pc' = [pc EXCEPT ![x] = l],
           children' = children, parent' = parent, arg' = arg,
           l \in {"init", "start_down"} => Parenting(x),
           l \in {"wait_down", "wait_get"} => pc[x] \in {"wait_down", "wait_get"},
           l \in {"none", "load", "set_tid", "start_up"} => Starting(x) \/ l = pc[x],
           Leaving(x) => Leaving(x)',
           \A d \in Proc : success'[d] # success[d] => d = x /\ Starting(d),
           \A p \in All, d \in Proc :
               OnList(d, children[p]) /\ ~ Leaving(p) => info'[d].block = "live"
    PROVE  ListedInv'
<1> USE DEF All
<1>1. pc'[x] = l /\ \A p \in All \ {x} : pc'[p] = pc[p]
  BY DEF StartType
<1>2. \A p \in All : Leaving(p) => Leaving(p)'
  BY <1>1 DEF Leaving, Exited
<1>3. ASSUME NEW p \in All, NEW d \in Proc, OnList(d, children[p])
      PROVE  /\ parent'[d] = p /\ success'[d] /\ pc'[d] # "none" /\ ~ Starting(d)'
             /\ Leaving(p)' \/ info'[d].block = "live"
  <2>1. parent[d] = p /\ success[d] /\ pc[d] # "none" /\ ~ Starting(d)
    BY <1>3 DEF ListedInv
  <2>2. success'[d] = success[d]
    BY <2>1
  <2>3. pc'[d] # "none" /\ ~ Starting(d)'
    BY <1>1, <2>1 DEF Starting
  <2> QED
    BY <1>2, <1>3, <2>1, <2>2, <2>3
<1>4. \A p \in All : Parenting(p)' => ~ OnList(arg'[p], children'[p])
  BY <1>1 DEF Parenting, ListedInv
<1>5. \A p \in All : pc'[p] \in {"wait_down", "wait_get"} => OnList(arg'[p], children'[p])
  BY <1>1 DEF ListedInv
<1>6. \A p \in All : NoDup(children'[p])
  BY DEF ListedInv
<1> QED
  BY <1>3, <1>4, <1>5, <1>6 DEF ListedInv, OnList, NoDup

\* No step breaks the lists of children.
LEMMA ListedPreserved == StartInv /\ TreeInv /\ [Next]_vars => ListedInv'
<1> SUFFICES ASSUME StartInv, TreeInv, [Next]_vars PROVE ListedInv'
  OBVIOUS
<1> USE ProcessAssumption DEF All
<1>0. StartType /\ HandshakeInv /\ OutcomeInv /\ TreeType /\ ListedInv /\ BlockInv
  BY DEF StartInv, TreeInv
<1>a. ASSUME NEW p \in All, NEW d \in Proc, OnList(d, children[p])
      PROVE  /\ parent[d] = p /\ success[d] /\ pc[d] # "none" /\ ~ Starting(d)
             /\ ~ Leaving(p) => info[d].block = "live"
  BY <1>0, <1>a DEF ListedInv
<1>1. ASSUME NEW p \in All, ExecNoInfo(p) PROVE ListedInv'
  <2>1. /\ pc' = pc /\ children' = children /\ parent' = parent /\ arg' = arg
        /\ success' = success /\ info' = info
    BY <1>1 DEF ExecNoInfo, Faults, caller, child
  <2>2. pc = [pc EXCEPT ![p] = pc[p]]
    BY <1>0 DEF StartType
  <2> QED
    BY <1>0, <1>a, <2>1, <2>2, ListedMove DEF Parenting, Leaving, Exited
<1>2. ASSUME NEW p \in All, NEW c \in Proc, Exec(p, c) PROVE ListedInv'
  <2>1. /\ pc[p] = "user" /\ pc[c] = "none" /\ p # c
        /\ pc' = [pc EXCEPT ![p] = "init", ![c] = "load"]
        /\ parent' = [parent EXCEPT ![c] = p] /\ arg' = [arg EXCEPT ![p] = c]
        /\ children' = children /\ success' = success
    BY <1>2 DEF Exec, MayExec, At
  <2>2. \A d \in Proc \ {c} : info'[d].block = info[d].block /\ parent'[d] = parent[d]
    BY <1>0, <1>2 DEF Exec, StartType
  <2>3. \A q \in All : ~ OnList(c, children[q])
    BY <1>a, <2>1
  <2>4. ~ Leaving(p) /\ ~ Leaving(c) /\ ~ Parenting(c)
    BY <2>1 DEF Leaving, Exited, Parenting
  <2>5. /\ pc'[p] = "init" /\ pc'[c] = "load" /\ arg'[p] = c
        /\ \A q \in All \ {p, c} : pc'[q] = pc[q]
        /\ \A q \in All \ {p} : arg'[q] = arg[q]
    BY <1>0, <2>1 DEF StartType
  <2>6. \A q \in All : Leaving(q) => Leaving(q)'
    BY <2>4, <2>5 DEF Leaving, Exited
  <2>7. ASSUME NEW q \in All, NEW d \in Proc, OnList(d, children'[q])
        PROVE  /\ parent'[d] = q /\ success'[d] /\ pc'[d] # "none" /\ ~ Starting(d)'
               /\ Leaving(q)' \/ info'[d].block = "live"
    <3>1. /\ d # c /\ parent[d] = q /\ success[d] /\ pc[d] # "none" /\ ~ Starting(d)
          /\ ~ Leaving(q) => info[d].block = "live"
      BY <1>a, <2>1, <2>3, <2>7
    <3>2. pc'[d] # "none" /\ ~ Starting(d)'
      BY <2>5, <3>1 DEF Starting
    <3> QED
      BY <2>1, <2>2, <2>6, <3>1, <3>2
  <2>8. \A q \in All : Parenting(q)' => ~ OnList(arg'[q], children'[q])
    BY <1>0, <2>1, <2>3, <2>5 DEF Parenting, ListedInv
  <2>9. \A q \in All : pc'[q] \in {"wait_down", "wait_get"} => OnList(arg'[q], children'[q])
    BY <1>0, <2>1, <2>5 DEF ListedInv
  <2>10. \A q \in All : NoDup(children'[q])
    BY <1>0, <2>1 DEF ListedInv
  <2> QED
    BY <2>7, <2>8, <2>9, <2>10 DEF ListedInv, OnList, NoDup
<1>3. ASSUME NEW p \in All, NEW c \in Proc, Wait(p, c) PROVE ListedInv'
  <2>1. /\ pc[p] = "user" /\ OnList(c, children[p])
        /\ arg' = [arg EXCEPT ![p] = c]
        /\ children' = children /\ parent' = parent /\ success' = success /\ info' = info
    BY <1>0, <1>3, LenProperties DEF Wait, At, Listed, child, OnList, TreeType
  <2>2. pc' = [pc EXCEPT ![p] = wait_next(c)] /\ wait_next(c) \in {"wait_get", "wait_down"}
    BY <1>3 DEF Wait, Goto, wait_next
  <2>3. /\ pc'[p] \in {"wait_get", "wait_down"} /\ arg'[p] = c
        /\ \A q \in All \ {p} : pc'[q] = pc[q] /\ arg'[q] = arg[q]
    <3> HIDE DEF wait_next
    <3> QED
      BY <1>0, <2>1, <2>2 DEF StartType
  <2>4. \A q \in All : Leaving(q) => Leaving(q)'
    BY <2>1, <2>3 DEF Leaving, Exited
  <2>5. \A d \in Proc : Starting(d)' => Starting(d)
    BY <2>3 DEF Starting
  <2>6. \A d \in Proc : pc[d] # "none" => pc'[d] # "none"
    BY <2>3
  <2>7. \A q \in All : Parenting(q)' => ~ OnList(arg'[q], children'[q])
    BY <1>0, <2>1, <2>3 DEF Parenting, ListedInv
  <2>8. \A q \in All : pc'[q] \in {"wait_down", "wait_get"} => OnList(arg'[q], children'[q])
    BY <1>0, <2>1, <2>3 DEF ListedInv
  <2>9. \A q \in All : NoDup(children'[q])
    BY <1>0, <2>1 DEF ListedInv
  <2> QED
    BY <1>a, <2>1, <2>4, <2>5, <2>6, <2>7, <2>8, <2>9 DEF ListedInv, OnList, NoDup
<1>4. ASSUME NEW p \in All, InitInfo(p) PROVE ListedInv'
  <2>1. /\ pc[p] = "init"
        /\ success' = success
        /\ children' = children /\ parent' = parent /\ arg' = arg
    BY <1>0, <1>4 DEF InitInfo, At, caller, child
  <2>2. \A d \in Proc : info[d].block = "live" => info'[d].block = "live"
    BY <1>0, <1>4 DEF InitInfo, At, StartType, Info
  <2>3. pc' = [pc EXCEPT ![p] = "start_down"]
    BY <1>4 DEF InitInfo, Goto
  <2> QED
    BY <1>0, <1>a, <2>1, <2>2, <2>3, ListedMove DEF Parenting, Starting, Leaving, Exited, StartType
<1>5. ASSUME NEW p \in All, StartDown(p) PROVE ListedInv'
  <2> DEFINE c == arg[p]
  <2>1. /\ pc[p] = "start_down" /\ c \in Proc /\ info[c].start_sema > 0
        /\ pc' = [pc EXCEPT ![p] = "user"] /\ arg' = [arg EXCEPT ![p] = None]
        /\ parent' = parent /\ success' = success
    BY <1>0, <1>5 DEF StartDown, Return, start_loaded, Goto, At, StartType
  <2>2. parent[c] = p /\ pc[c] # "none" /\ ~ Starting(c) /\ ~ OnList(c, children[p])
    BY <1>0, <2>1 DEF HandshakeInv, ListedInv, Parenting
  <2>3. /\ pc'[p] = "user"
        /\ \A q \in All \ {p} : pc'[q] = pc[q] /\ arg'[q] = arg[q]
    BY <1>0, <2>1 DEF StartType
  <2>4. \A q \in All : Leaving(q) => Leaving(q)'
    BY <2>1, <2>3 DEF Leaving, Exited
  <2>5. \A d \in Proc : pc[d] # "none" /\ ~ Starting(d) => pc'[d] # "none" /\ ~ Starting(d)'
    BY <2>3 DEF Starting
  <2>6. /\ \A d \in Proc \ {c} : info'[d].block = info[d].block
        /\ info[c].tid # TID_ERROR => info'[c].block = info[c].block
    <3> HIDE DEF TID_ERROR
    <3> QED
      BY <1>0, <1>5, <2>1 DEF StartDown, StartType, Info
  <2>7. \A q \in All : OnList(c, children[q]) => FALSE
    BY <1>a, <2>1, <2>2
  <2>8. CASE info[c].tid = TID_ERROR
    <3>1. children' = children
      BY <1>0, <1>5, <2>8 DEF StartDown, TreeType
    <3> HIDE DEF c
    <3>2. \A q \in All, d \in Proc : OnList(d, children'[q]) =>
             /\ parent'[d] = q /\ success'[d] /\ pc'[d] # "none" /\ ~ Starting(d)'
             /\ Leaving(q)' \/ info'[d].block = "live"
      BY <1>a, <2>1, <2>4, <2>5, <2>6, <2>7, <3>1
    <3>3. \A q \in All : Parenting(q)' => ~ OnList(arg'[q], children'[q])
      BY <1>0, <2>3, <3>1 DEF Parenting, ListedInv
    <3>4. \A q \in All : pc'[q] \in {"wait_down", "wait_get"} => OnList(arg'[q], children'[q])
      BY <1>0, <2>3, <3>1 DEF ListedInv
    <3>5. \A q \in All : NoDup(children'[q])
      BY <1>0, <3>1 DEF ListedInv
    <3> QED
      BY <3>2, <3>3, <3>4, <3>5 DEF ListedInv, OnList, NoDup
  <2>9. CASE info[c].tid # TID_ERROR
    <3>1. children' = [children EXCEPT ![p] = Append(children[p], c)]
      BY <1>5, <2>9 DEF StartDown
    <3>2. success[c] /\ info[c].block = "live"
      BY <1>0, <2>1, <2>2, <2>9 DEF OutcomeInv, BlockInv, Starting
    <3> DEFINE r == Append(children[p], c)
    <3>3. NoDup(children[p]) /\ children[p] \in Seq(Proc)
      BY <1>0 DEF ListedInv, TreeType
    <3>4. NoDup(r) /\ \A x : OnList(x, r) <=> OnList(x, children[p]) \/ x = c
      BY <2>1, <2>2, <3>3, ListAppend
    <3>5. children'[p] = r /\ \A q \in All \ {p} : children'[q] = children[q]
      BY <1>0, <3>1 DEF TreeType
    <3> HIDE DEF c, r
    <3>6. ASSUME NEW q \in All, NEW d \in Proc, OnList(d, children'[q])
          PROVE  /\ parent'[d] = q /\ success'[d] /\ pc'[d] # "none" /\ ~ Starting(d)'
                 /\ Leaving(q)' \/ info'[d].block = "live"
      <4>1. CASE q = p /\ d = c
        BY <2>1, <2>2, <2>5, <2>6, <2>9, <3>2, <4>1
      <4>2. CASE ~ (q = p /\ d = c)
        <5>1. OnList(d, children[q])
          BY <3>4, <3>5, <3>6, <4>2
        <5> QED
          BY <1>a, <2>1, <2>4, <2>5, <2>6, <2>7, <5>1
      <4> QED
        BY <4>1, <4>2
    <3>7. \A q \in All : Parenting(q)' => ~ OnList(arg'[q], children'[q])
      BY <1>0, <2>3, <3>5 DEF Parenting, ListedInv
    <3>8. \A q \in All : pc'[q] \in {"wait_down", "wait_get"} => OnList(arg'[q], children'[q])
      BY <1>0, <2>3, <3>5 DEF ListedInv
    <3>9. \A q \in All : NoDup(children'[q])
      BY <1>0, <3>4, <3>5 DEF ListedInv
    <3> QED
      BY <3>6, <3>7, <3>8, <3>9 DEF ListedInv, OnList, NoDup
  <2> QED
    BY <2>8, <2>9
<1>6. ASSUME NEW p \in All, WaitDown(p) PROVE ListedInv'
  <2>1. /\ pc[p] = "wait_down"
        /\ success' = success
        /\ children' = children /\ parent' = parent /\ arg' = arg
    BY <1>0, <1>6 DEF WaitDown, At, caller, child
  <2>2. \A d \in Proc : info[d].block = "live" => info'[d].block = "live"
    BY <1>0, <1>6 DEF WaitDown, StartType, Info
  <2>3. pc' = [pc EXCEPT ![p] = "wait_get"]
    BY <1>6 DEF WaitDown, Goto
  <2> QED
    BY <1>0, <1>a, <2>1, <2>2, <2>3, ListedMove DEF Parenting, Starting, Leaving, Exited, StartType
<1>7. ASSUME NEW p \in All, WaitGet(p) PROVE ListedInv'
  <2> DEFINE c == arg[p]
             r == unlisted(p, c)
  <2>1. /\ pc[p] = "wait_get" /\ c \in Proc /\ OnList(c, children[p]) /\ NoDup(children[p])
        /\ pc' = [pc EXCEPT ![p] = "user"] /\ arg' = [arg EXCEPT ![p] = None]
        /\ parent' = parent /\ success' = success
    BY <1>0, <1>7 DEF WaitGet, Return, Goto, At, child, StartType, ListedInv
  <2>2. NoDup(r) /\ \A d \in Proc : OnList(d, r) <=> OnList(d, children[p]) /\ d # c
    BY <1>0, <2>1, Unlisted
  <2>3. /\ pc'[p] = "user"
        /\ \A q \in All \ {p} : pc'[q] = pc[q] /\ arg'[q] = arg[q]
    BY <1>0, <2>1 DEF StartType
  <2>4. \A q \in All : Leaving(q) => Leaving(q)'
    BY <2>1, <2>3 DEF Leaving, Exited
  <2>5. \A d \in Proc : pc[d] # "none" /\ ~ Starting(d) => pc'[d] # "none" /\ ~ Starting(d)'
    BY <2>3 DEF Starting
  <2>6. \A d \in Proc \ {c} : info'[d].block = info[d].block
    BY <1>0, <1>7, <2>1 DEF WaitGet, free, StartType
  <2>7. \/ children' = children /\ info' = info
        \/ children'[p] = r /\ \A q \in All \ {p} : children'[q] = children[q]
    <3>1. CASE info[c].exited
      <4>1. children' = [children EXCEPT ![p] = r]
        BY <1>7, <3>1 DEF WaitGet
      <4> HIDE DEF r
      <4> QED
        BY <1>0, <4>1 DEF TreeType
    <3>2. CASE ~ info[c].exited
      BY <1>7, <3>2 DEF WaitGet
    <3> QED
      BY <3>1, <3>2
  <2> HIDE DEF c, r
  <2>8. ASSUME NEW q \in All, NEW d \in Proc, OnList(d, children'[q])
        PROVE  /\ parent'[d] = q /\ success'[d] /\ pc'[d] # "none" /\ ~ Starting(d)'
               /\ Leaving(q)' \/ info'[d].block = "live"
    <3>1. OnList(d, children[q])
      BY <2>2, <2>7, <2>8
    <3>2. info'[d].block = info[d].block
      <4>1. CASE d # c
        BY <2>6, <4>1
      <4>2. CASE d = c
        <5>1. q = p
          BY <1>a, <2>1, <3>1, <4>2
        <5> QED
          BY <2>2, <2>7, <2>8, <4>2, <5>1
      <4> QED
        BY <4>1, <4>2
    <3> QED
      BY <1>a, <2>1, <2>4, <2>5, <3>1, <3>2
  <2>9. \A q \in All : Parenting(q)' => ~ OnList(arg'[q], children'[q])
    BY <1>0, <2>3, <2>7 DEF Parenting, ListedInv
  <2>10. \A q \in All : pc'[q] \in {"wait_down", "wait_get"} => OnList(arg'[q], children'[q])
    BY <1>0, <2>3, <2>7 DEF ListedInv
  <2>11. \A q \in All : NoDup(children'[q])
    BY <1>0, <2>2, <2>7 DEF ListedInv
  <2> QED
    BY <2>8, <2>9, <2>10, <2>11 DEF ListedInv, OnList, NoDup
<1>8. ASSUME NEW c \in Proc, FileCall(c) PROVE ListedInv'
  <2>1. /\ pc[c] = "user"
        /\ success' = success
        /\ children' = children /\ parent' = parent /\ arg' = arg
    BY <1>0, <1>8 DEF FileCall, At, caller, child
  <2>2. \A d \in Proc : info[d].block = "live" => info'[d].block = "live"
    BY <1>0, <1>8 DEF FileCall
  <2>3. pc' = [pc EXCEPT ![c] = "file"]
    BY <1>8 DEF FileCall, Goto
  <2> QED
    BY <1>0, <1>a, <2>1, <2>2, <2>3, ListedMove DEF Parenting, Starting, Leaving, Exited, StartType
<1>9. ASSUME NEW c \in Proc, Kill(c) PROVE ListedInv'
  <2>1. /\ pc[c] = "user"
        /\ success' = success
        /\ children' = children /\ parent' = parent /\ arg' = arg
    BY <1>0, <1>9 DEF Kill, At, caller, child
  <2>2. \A d \in Proc : info[d].block = "live" => info'[d].block = "live"
    BY <1>0, <1>9 DEF Kill
  <2>3. pc' = [pc EXCEPT ![c] = "exit_test"]
    BY <1>9 DEF Kill, Goto
  <2> QED
    BY <1>0, <1>a, <2>1, <2>2, <2>3, ListedMove DEF Parenting, Starting, Leaving, Exited, StartType
<1>10. ASSUME NEW c \in Proc, NEW s \in Code, Exit(c, s) PROVE ListedInv'
  <2>1. /\ pc[c] = "user"
        /\ success' = success
        /\ children' = children /\ parent' = parent /\ arg' = arg
    BY <1>0, <1>10 DEF Exit, At, caller, child
  <2>2. \A d \in Proc : info[d].block = "live" => info'[d].block = "live"
    BY <1>0, <1>10 DEF Exit, StartType, Info
  <2>3. pc' = [pc EXCEPT ![c] = "exit_test"]
    BY <1>10 DEF Exit, Goto
  <2> QED
    BY <1>0, <1>a, <2>1, <2>2, <2>3, ListedMove DEF Parenting, Starting, Leaving, Exited, StartType
<1>11. ASSUME NEW c \in Proc, LoadNoMemory(c) PROVE ListedInv'
  <2>1. /\ pc[c] = "load"
        /\ \A d \in Proc \ {c} : success'[d] = success[d]
        /\ children' = children /\ parent' = parent /\ arg' = arg
    BY <1>0, <1>11 DEF LoadNoMemory, At, caller, StartType
  <2>2. \A d \in Proc : info[d].block = "live" => info'[d].block = "live"
    BY <1>0, <1>11 DEF LoadNoMemory
  <2>3. pc' = [pc EXCEPT ![c] = "set_tid"]
    BY <1>11 DEF LoadNoMemory, Goto
  <2>4. \A d \in Proc : success'[d] # success[d] => d = c /\ Starting(d)
    BY <2>1 DEF Starting
  <2>5. Starting(c) /\ ~ Leaving(c)
    BY <2>1 DEF Starting, Leaving, Exited
  <2> DEFINE l == "set_tid"
  <2>6. /\ pc' = [pc EXCEPT ![c] = l]
        /\ l \notin {"init", "start_down", "wait_down", "wait_get"}
    BY <2>3
  <2>7. \A p \in All, d \in Proc : OnList(d, children[p]) /\ ~ Leaving(p) => info'[d].block = "live"
    BY <1>a, <2>2
  <2> HIDE DEF l
  <2> QED
    BY <1>0, <2>1, <2>4, <2>5, <2>6, <2>7, ListedMove
<1>12. ASSUME NEW c \in Proc, NEW ok \in BOOLEAN, Load(c, ok) PROVE ListedInv'
  <2>1. /\ pc[c] = "load"
        /\ \A d \in Proc \ {c} : success'[d] = success[d]
        /\ children' = children /\ parent' = parent /\ arg' = arg
    BY <1>0, <1>12 DEF Load, At, caller, StartType
  <2>2. \A d \in Proc : info[d].block = "live" => info'[d].block = "live"
    BY <1>0, <1>12 DEF Load
  <2>3. pc' = [pc EXCEPT ![c] = "set_tid"]
    BY <1>12 DEF Load, Goto
  <2>4. \A d \in Proc : success'[d] # success[d] => d = c /\ Starting(d)
    BY <2>1 DEF Starting
  <2>5. Starting(c) /\ ~ Leaving(c)
    BY <2>1 DEF Starting, Leaving, Exited
  <2> DEFINE l == "set_tid"
  <2>6. /\ pc' = [pc EXCEPT ![c] = l]
        /\ l \notin {"init", "start_down", "wait_down", "wait_get"}
    BY <2>3
  <2>7. \A p \in All, d \in Proc : OnList(d, children[p]) /\ ~ Leaving(p) => info'[d].block = "live"
    BY <1>a, <2>2
  <2> HIDE DEF l
  <2> QED
    BY <1>0, <2>1, <2>4, <2>5, <2>6, <2>7, ListedMove
<1>13. ASSUME NEW c \in Proc, SetTid(c) PROVE ListedInv'
  <2>1. /\ pc[c] = "set_tid"
        /\ success' = success
        /\ children' = children /\ parent' = parent /\ arg' = arg
    BY <1>0, <1>13 DEF SetTid, At, caller, child
  <2>2. \A d \in Proc : info[d].block = "live" => info'[d].block = "live"
    BY <1>0, <1>13 DEF SetTid, StartType, Info
  <2>3. pc' = [pc EXCEPT ![c] = "start_up"]
    BY <1>13 DEF SetTid, Goto
  <2> QED
    BY <1>0, <1>a, <2>1, <2>2, <2>3, ListedMove DEF Parenting, Starting, Leaving, Exited, StartType
<1>14. ASSUME NEW c \in Proc, StartUp(c) PROVE ListedInv'
  <2>1. /\ pc[c] = "start_up"
        /\ success' = success
        /\ children' = children /\ parent' = parent /\ arg' = arg
    BY <1>0, <1>14 DEF StartUp, At, caller, child
  <2>2. \A d \in Proc : info[d].block = "live" => info'[d].block = "live"
    BY <1>0, <1>14 DEF StartUp, StartType, Info
  <2>3. pc' = [pc EXCEPT ![c] = "user"] \/ pc' = [pc EXCEPT ![c] = "exit_test"]
    BY <1>14 DEF StartUp, Goto
  <2>4. CASE pc' = [pc EXCEPT ![c] = "user"]
    BY <1>0, <1>a, <2>1, <2>2, <2>4, ListedMove DEF Parenting, Starting, Leaving, Exited, StartType
  <2>5. CASE pc' = [pc EXCEPT ![c] = "exit_test"]
    BY <1>0, <1>a, <2>1, <2>2, <2>5, ListedMove DEF Parenting, Starting, Leaving, Exited, StartType
  <2> QED
    BY <2>3, <2>4, <2>5
<1>15. ASSUME NEW c \in Proc, FileReturn(c) PROVE ListedInv'
  <2>1. /\ pc[c] = "file"
        /\ success' = success
        /\ children' = children /\ parent' = parent /\ arg' = arg
    BY <1>0, <1>15 DEF FileReturn, At, caller, child
  <2>2. \A d \in Proc : info[d].block = "live" => info'[d].block = "live"
    BY <1>0, <1>15 DEF FileReturn
  <2>3. pc' = [pc EXCEPT ![c] = "user"]
    BY <1>15 DEF FileReturn, Goto
  <2> QED
    BY <1>0, <1>a, <2>1, <2>2, <2>3, ListedMove DEF Parenting, Starting, Leaving, Exited, StartType
<1>16. ASSUME NEW c \in Proc, ExitTest(c) PROVE ListedInv'
  <2>1. /\ pc[c] = "exit_test"
        /\ success' = success
        /\ children' = children /\ parent' = parent /\ arg' = arg
    BY <1>16 DEF ExitTest, At, caller, child
  <2>2. ASSUME NEW p \in All, NEW d \in Proc, OnList(d, children[p]), ~ Leaving(p)
        PROVE  info'[d].block = "live"
    <3>1. info[d].block = "live" /\ parent[d] = p
      BY <1>a, <2>2
    <3>2. CASE info' = info
      BY <3>1, <3>2
    <3> DEFINE e == children[c][it[c]]
    <3>3. CASE it[c] <= Len(children[c]) /\ info' = [info EXCEPT ![e].block = "freed"]
      <4>1. e \in Proc /\ OnList(e, children[c])
        <5>1. it[c] \in 1..Len(children[c]) /\ children[c] \in Seq(Proc)
          BY <1>0, <3>3, LenProperties DEF TreeType
        <5> QED
          BY <5>1, ElementOfSeq DEF OnList
      <4>2. parent[e] = c /\ Leaving(c)
        BY <1>a, <2>1, <4>1 DEF Leaving
      <4>3. e # d
        BY <2>2, <3>1, <4>2
      <4> HIDE DEF e
      <4> QED
        BY <1>0, <3>1, <3>3, <4>1, <4>3 DEF StartType
    <3> QED
      BY <1>16, <3>2, <3>3 DEF ExitTest, free
  <2>3. PICK l \in {"exit_test", "set_exited", "exit_orphan"} : pc' = [pc EXCEPT ![c] = l]
    <3>1. pc = [pc EXCEPT ![c] = "exit_test"]
      BY <1>0, <2>1 DEF StartType
    <3> QED
      BY <1>16, <3>1 DEF ExitTest, Goto
  <2>4. Leaving(c)'
    BY <1>0, <2>3 DEF Leaving, StartType
  <2> QED
    BY <1>0, <2>1, <2>2, <2>3, <2>4, ListedMove
<1>17. ASSUME NEW c \in Proc, ExitOrphan(c) PROVE ListedInv'
  <2>1. /\ pc[c] = "exit_orphan"
        /\ success' = success
        /\ children' = children /\ parent' = parent /\ arg' = arg
    BY <1>0, <1>17 DEF ExitOrphan, At, caller, child
  <2>2. \A d \in Proc : info[d].block = "live" => info'[d].block = "live"
    BY <1>0, <1>17 DEF ExitOrphan, StartType, Info
  <2>3. pc' = [pc EXCEPT ![c] = "exit_next"]
    BY <1>17 DEF ExitOrphan, Goto
  <2> QED
    BY <1>0, <1>a, <2>1, <2>2, <2>3, ListedMove DEF Parenting, Starting, Leaving, Exited, StartType
<1>18. ASSUME NEW c \in Proc, ExitNext(c) PROVE ListedInv'
  <2>1. /\ pc[c] = "exit_next"
        /\ success' = success
        /\ children' = children /\ parent' = parent /\ arg' = arg
    BY <1>0, <1>18 DEF ExitNext, Faults, At, caller, child
  <2>2. \A d \in Proc : info[d].block = "live" => info'[d].block = "live"
    BY <1>0, <1>18 DEF ExitNext, Faults
  <2>3. pc' = [pc EXCEPT ![c] = "exit_next"] \/ pc' = [pc EXCEPT ![c] = "exit_test"]
    <3>1. pc = [pc EXCEPT ![c] = "exit_next"]
      BY <1>0, <2>1 DEF StartType
    <3> QED
      BY <1>18, <3>1 DEF ExitNext, Faults, Goto
  <2>4. CASE pc' = [pc EXCEPT ![c] = "exit_next"]
    BY <1>0, <1>a, <2>1, <2>2, <2>4, ListedMove DEF Parenting, Starting, Leaving, Exited, StartType
  <2>5. CASE pc' = [pc EXCEPT ![c] = "exit_test"]
    BY <1>0, <1>a, <2>1, <2>2, <2>5, ListedMove DEF Parenting, Starting, Leaving, Exited, StartType
  <2> QED
    BY <2>3, <2>4, <2>5
<1>19. ASSUME NEW c \in Proc, SetExited(c) PROVE ListedInv'
  <2>1. /\ pc[c] = "set_exited"
        /\ success' = success
        /\ children' = children /\ parent' = parent /\ arg' = arg
    BY <1>0, <1>19 DEF SetExited, Faults, At, caller, child
  <2>2. \A d \in Proc : info[d].block = "live" => info'[d].block = "live"
    BY <1>0, <1>19 DEF SetExited, Faults, StartType, Info
  <2>3. pc' = [pc EXCEPT ![c] = "set_exited"] \/ pc' = [pc EXCEPT ![c] = "exit_up"]
    <3>1. pc = [pc EXCEPT ![c] = "set_exited"]
      BY <1>0, <2>1 DEF StartType
    <3> QED
      BY <1>19, <3>1 DEF SetExited, Faults, Goto
  <2>4. CASE pc' = [pc EXCEPT ![c] = "set_exited"]
    BY <1>0, <1>a, <2>1, <2>2, <2>4, ListedMove DEF Parenting, Starting, Leaving, Exited, StartType
  <2>5. CASE pc' = [pc EXCEPT ![c] = "exit_up"]
    BY <1>0, <1>a, <2>1, <2>2, <2>5, ListedMove DEF Parenting, Starting, Leaving, Exited, StartType
  <2> QED
    BY <2>3, <2>4, <2>5
<1>20. ASSUME NEW c \in Proc, ExitUp(c) PROVE ListedInv'
  <2>1. /\ pc[c] = "exit_up"
        /\ success' = success
        /\ children' = children /\ parent' = parent /\ arg' = arg
    BY <1>0, <1>20 DEF ExitUp, Faults, At, caller, child
  <2>2. \A d \in Proc : info[d].block = "live" => info'[d].block = "live"
    BY <1>0, <1>20 DEF ExitUp, Faults, exit_up, StartType, Info
  <2>3. pc' = [pc EXCEPT ![c] = "exit_up"] \/ pc' = [pc EXCEPT ![c] = "exit_free"]
    <3>1. pc = [pc EXCEPT ![c] = "exit_up"]
      BY <1>0, <2>1 DEF StartType
    <3> QED
      BY <1>20, <3>1 DEF ExitUp, Faults, Goto
  <2>4. CASE pc' = [pc EXCEPT ![c] = "exit_up"]
    BY <1>0, <1>a, <2>1, <2>2, <2>4, ListedMove DEF Parenting, Starting, Leaving, Exited, StartType
  <2>5. CASE pc' = [pc EXCEPT ![c] = "exit_free"]
    BY <1>0, <1>a, <2>1, <2>2, <2>5, ListedMove DEF Parenting, Starting, Leaving, Exited, StartType
  <2> QED
    BY <2>3, <2>4, <2>5
<1>21. ASSUME NEW c \in Proc, ExitFree(c) PROVE ListedInv'
  <2>1. /\ pc[c] = "exit_free"
        /\ success' = success
        /\ children' = children /\ parent' = parent /\ arg' = arg
    BY <1>21 DEF ExitFree, Faults, At, caller, child
  <2>2. ASSUME NEW p \in All, NEW d \in Proc, OnList(d, children[p]), ~ Leaving(p)
        PROVE  info'[d].block = "live"
    <3>1. info[d].block = "live" /\ parent[d] = p /\ p \in All
      BY <1>a, <2>2
    <3>2. ~ info[d].orphan
      BY <1>0, <2>2, <3>1 DEF BlockInv
    <3>3. CASE d = c
      BY <1>21, <3>1, <3>2, <3>3 DEF ExitFree, Faults
    <3>4. CASE d # c
      BY <1>0, <1>21, <3>1, <3>4 DEF ExitFree, Faults, free, StartType
    <3> QED
      BY <3>3, <3>4
  <2>3. PICK l \in {"exit_free", "close"} : pc' = [pc EXCEPT ![c] = l]
    <3>1. pc = [pc EXCEPT ![c] = "exit_free"]
      BY <1>0, <2>1 DEF StartType
    <3> QED
      BY <1>21, <3>1 DEF ExitFree, Faults, Goto
  <2>4. Leaving(c)'
    BY <1>0, <2>3 DEF Leaving, Exited, StartType
  <2> QED
    BY <1>0, <2>1, <2>2, <2>3, <2>4, ListedMove
<1>22. ASSUME NEW c \in Proc, CloseFiles(c) PROVE ListedInv'
  <2>1. /\ pc[c] = "close" /\ pc' = [pc EXCEPT ![c] = "dead"]
        /\ children' = [children EXCEPT ![c] = <<>>]
        /\ success' = success /\ parent' = parent /\ arg' = arg /\ info' = info
    BY <1>22 DEF CloseFiles, Goto, At, child
  <2>2. /\ pc'[c] = "dead" /\ children'[c] = <<>>
        /\ \A q \in All \ {c} : pc'[q] = pc[q] /\ children'[q] = children[q]
    BY <1>0, <2>1 DEF StartType, TreeType
  <2>3. \A x : ~ OnList(x, <<>>)
    BY ListEmpty
  <2>4. NoDup(<<>>)
    BY DEF NoDup
  <2>5. \A q \in All : Leaving(q) => Leaving(q)'
    BY <2>2 DEF Leaving, Exited
  <2>6. \A d \in Proc : pc[d] # "none" /\ ~ Starting(d) => pc'[d] # "none" /\ ~ Starting(d)'
    BY <2>2 DEF Starting
  <2>7. \A q \in All, d \in Proc : OnList(d, children'[q]) =>
           /\ parent'[d] = q /\ success'[d] /\ pc'[d] # "none" /\ ~ Starting(d)'
           /\ Leaving(q)' \/ info'[d].block = "live"
    BY <1>a, <2>1, <2>2, <2>3, <2>5, <2>6
  <2>8. \A q \in All : Parenting(q)' => ~ OnList(arg'[q], children'[q])
    BY <1>0, <2>1, <2>2 DEF Parenting, ListedInv
  <2>9. \A q \in All : pc'[q] \in {"wait_down", "wait_get"} => OnList(arg'[q], children'[q])
    BY <1>0, <2>1, <2>2 DEF ListedInv
  <2>10. \A q \in All : NoDup(children'[q])
    BY <1>0, <2>2, <2>4 DEF ListedInv
  <2> QED
    BY <2>7, <2>8, <2>9, <2>10 DEF ListedInv, OnList, NoDup
<1>23. CASE UNCHANGED vars
  BY <1>0, <1>23 DEF vars, caller, child, files, ghosts, StartType, ListedInv, Info,
     Parenting, Starting, Leaving, Exited, OnList, NoDup
<1> QED
  BY <1>1, <1>2, <1>3, <1>4, <1>5, <1>6, <1>7, <1>8, <1>9, <1>10, <1>11, <1>12, <1>13,
     <1>14, <1>15, <1>16, <1>17, <1>18, <1>19, <1>20, <1>21, <1>22, <1>23 DEF Next,
     Call, Act, Continue, ChildStep

\* The same for a step in which only x moves on.
LEMMA BlockFrame ==
    ASSUME StartType, BlockInv, NEW x \in All, parent' = parent,
           \A q \in All \ {x} : pc'[q] = pc[q],
           Leaving(x) => Leaving(x)', pc[x] # "none" /\ pc'[x] # "none",
           \A q \in All : pc'[q] = "start_down" => info'[arg'[q]].block = "live",
           \A q \in All : pc'[q] \in {"exit_orphan", "exit_next"} => it'[q] <= Len(children'[q]),
           \A d \in Proc : info'[d].orphan =>
               info[d].orphan \/ (pc[d] # "none" /\ parent[d] \in All /\ Leaving(parent[d]))
    PROVE  BlockInv'
<1>1. \A q \in All : Leaving(q) => Leaving(q)'
  BY DEF Leaving, Exited
<1>2. ASSUME NEW d \in Proc, info'[d].orphan
      PROVE  pc'[d] # "none" /\ parent'[d] \in All /\ \A q \in All : q = parent'[d] => Leaving(q)'
  <2>1. pc[d] # "none" /\ parent[d] \in All /\ Leaving(parent[d])
    BY <1>2 DEF BlockInv
  <2> QED
    BY <1>1, <2>1 DEF All
<1>3. ASSUME NEW d \in Proc, info'[d].orphan
      PROVE  pc'[d] # "none" /\ parent'[d] \in All /\ Leaving(parent[d])' 
  BY <1>2, <1>3 DEF Leaving, Exited
<1> QED
  BY <1>3 DEF BlockInv, Leaving, Exited

\* The parent initializes the info of its new child and no other.
LEMMA InfoFilled ==
    ASSUME info \in [Proc -> Info], NEW p \in All, arg[p] \in Proc, InitInfo(p)
    PROVE  /\ info'[arg[p]].block = "live" /\ ~ info'[arg[p]].exited /\ ~ info'[arg[p]].orphan
           /\ info'[arg[p]].exit_status = -1 /\ info'[arg[p]].wait_exit_sema = 0
           /\ \A d \in Proc \ {arg[p]} : info'[d] = info[d]
<1> DEFINE c == arg[p]
<1>1. info' = [info EXCEPT ![c] = [info[c] EXCEPT !.block = "live", !.exited = FALSE,
                                       !.orphan = FALSE, !.exit_status = -1,
                                       !.wait_exit_sema = 0]]
  BY DEF InitInfo
<1>2. info[c] \in Info
  OBVIOUS
<1> HIDE DEF c
<1>3. /\ info'[c] = [info[c] EXCEPT !.block = "live", !.exited = FALSE, !.orphan = FALSE,
                                   !.exit_status = -1, !.wait_exit_sema = 0]
      /\ \A d \in Proc \ {c} : info'[d] = info[d]
  BY <1>1 DEF c
<1>4. /\ info'[c].block = "live" /\ ~ info'[c].exited /\ ~ info'[c].orphan
      /\ info'[c].exit_status = -1 /\ info'[c].wait_exit_sema = 0
  BY ONLY <1>2, <1>3 DEF Info
<1> QED
  BY <1>3, <1>4 DEF c

\* A block that its creator goes on to use stays live, and orphans have a parent
\* that exits.
LEMMA BlockPreserved == StartInv /\ TreeInv /\ [Next]_vars => BlockInv'
<1> SUFFICES ASSUME StartInv, TreeInv, [Next]_vars PROVE BlockInv'
  OBVIOUS
<1> USE ProcessAssumption DEF All
<1>0. StartType /\ HandshakeInv /\ OutcomeInv /\ TreeType /\ ListedInv /\ BlockInv
  BY DEF StartInv, TreeInv
<1>a. ASSUME NEW p \in All, NEW d \in Proc, OnList(d, children[p])
      PROVE  parent[d] = p /\ pc[d] # "none"
  BY <1>0, <1>a DEF ListedInv
<1>b. ASSUME NEW p \in All, pc[p] = "start_down"
      PROVE  arg[p] \in Proc /\ parent[arg[p]] = p /\ pc[arg[p]] # "none"
  BY <1>0, <1>b DEF StartType, HandshakeInv, Parenting
<1>1. ASSUME NEW p \in All, ExecNoInfo(p) PROVE BlockInv'
  <2>1. /\ pc[p] = "user" /\ parent' = parent /\ arg' = arg
        /\ children' = children /\ it' = it
    BY <1>0, <1>1 DEF ExecNoInfo, MayExec, Faults, At, caller, child
  <2>2. \A d \in Proc : /\ info[d].block = "live" => info'[d].block = "live"
                        /\ info'[d].orphan => info[d].orphan
    BY <1>0, <1>1 DEF ExecNoInfo, Faults
  <2>3. \A q \in All \ {p} : pc'[q] = pc[q]
    BY <1>0, <1>1 DEF ExecNoInfo, MayExec, Faults, Goto, StartType
  <2>4. pc'[p] \in {"user"}
    BY <1>0, <1>1 DEF ExecNoInfo, MayExec, Faults, Goto, At, StartType
  <2>5. /\ \A q \in All : pc'[q] = "start_down" => info'[arg'[q]].block = "live"
        /\ \A q \in All : pc'[q] \in {"exit_orphan", "exit_next"} => it'[q] <= Len(children'[q])
    BY <1>0, <1>b, <2>1, <2>2, <2>3, <2>4 DEF BlockInv
  <2>6. (Leaving(p) => Leaving(p)') /\ pc'[p] # "none"
    BY <2>1, <2>4 DEF Leaving, Exited
  <2> QED
    BY <1>0, <2>1, <2>2, <2>3, <2>5, <2>6, BlockFrame
<1>2. ASSUME NEW p \in All, NEW c \in Proc, Exec(p, c) PROVE BlockInv'
  <2>1. /\ pc[p] = "user" /\ pc[c] = "none" /\ p # c
        /\ pc' = [pc EXCEPT ![p] = "init", ![c] = "load"]
        /\ parent' = [parent EXCEPT ![c] = p] /\ arg' = [arg EXCEPT ![p] = c]
        /\ children' = children /\ it' = it
    BY <1>2 DEF Exec, MayExec, At
  <2>2. \A d \in Proc \ {c} : info'[d] = info[d] /\ parent'[d] = parent[d]
    BY <1>0, <1>2 DEF Exec, StartType
  <2>3. ~ info'[c].orphan
    BY <1>0, <1>2, <2>1 DEF Exec, BlockInv, StartType, Info
  <2>4. /\ pc'[p] = "init" /\ pc'[c] = "load"
        /\ \A q \in All \ {p, c} : pc'[q] = pc[q] /\ arg'[q] = arg[q]
    BY <1>0, <2>1 DEF StartType
  <2>5. \A q \in All : Leaving(q) => Leaving(q)'
    BY <2>1, <2>4 DEF Leaving, Exited
  <2>6. \A d \in Proc : pc[d] # "none" => pc'[d] # "none"
    BY <2>1, <2>4
  <2>7. ASSUME NEW q \in All, pc'[q] = "start_down" PROVE info'[arg'[q]].block = "live"
    <3>1. pc[q] = "start_down" /\ arg'[q] = arg[q]
      BY <2>4, <2>7
    <3>2. arg[q] \in Proc \ {c}
      BY <1>b, <2>1, <3>1
    <3> QED
      BY <1>0, <2>2, <3>1, <3>2 DEF BlockInv
  <2>8. \A d \in Proc : info'[d].orphan => pc'[d] # "none" /\ parent'[d] \in All /\ Leaving(parent[d])' /\ parent'[d] = parent[d]
    BY <1>0, <2>2, <2>3, <2>5, <2>6 DEF BlockInv
  <2>9. \A q \in All : pc'[q] \in {"exit_orphan", "exit_next"} => it'[q] <= Len(children'[q])
    BY <1>0, <2>1, <2>4 DEF BlockInv
  <2> QED
    BY <2>7, <2>8, <2>9 DEF BlockInv, Leaving, Exited
<1>3. ASSUME NEW p \in All, NEW c \in Proc, Wait(p, c) PROVE BlockInv'
  <2>1. /\ pc[p] = "user" /\ parent' = parent
        /\ children' = children /\ it' = it /\ info' = info
    BY <1>3 DEF Wait, At, child
  <2>2. /\ pc'[p] \in {"wait_get", "wait_down"}
        /\ \A q \in All \ {p} : pc'[q] = pc[q] /\ arg'[q] = arg[q]
    BY <1>0, <1>3 DEF Wait, Goto, wait_next, StartType
  <2>3. /\ \A q \in All : pc'[q] = "start_down" => info'[arg'[q]].block = "live"
        /\ \A q \in All : pc'[q] \in {"exit_orphan", "exit_next"} => it'[q] <= Len(children'[q])
    BY <1>0, <1>b, <2>1, <2>2 DEF BlockInv, Leaving, Exited
  <2>4. (Leaving(p) => Leaving(p)') /\ pc'[p] # "none"
    BY <2>1, <2>2 DEF Leaving, Exited
  <2>5. \A d \in Proc : info'[d].orphan =>
            info[d].orphan \/ (pc[d] # "none" /\ parent[d] \in All /\ Leaving(parent[d]))
    BY <2>1, <2>2 DEF Leaving
  <2> QED
    BY <1>0, <2>1, <2>2, <2>3, <2>4, <2>5, BlockFrame
<1>4. ASSUME NEW p \in All, InitInfo(p) PROVE BlockInv'
  <2>1. /\ pc[p] = "init" /\ arg[p] \in Proc /\ parent' = parent /\ arg' = arg
        /\ children' = children /\ it' = it
    BY <1>0, <1>4 DEF InitInfo, At, caller, child, StartType
  <2>2. /\ info'[arg[p]].block = "live" /\ ~ info'[arg[p]].orphan
        /\ \A d \in Proc \ {arg[p]} : info'[d] = info[d]
    <3>1. info \in [Proc -> Info]
      BY <1>0 DEF StartType
    <3> QED
      BY <1>4, <2>1, <3>1, InfoFilled DEF InitInfo
  <2>3. /\ pc'[p] = "start_down"
        /\ \A q \in All \ {p} : pc'[q] = pc[q]
    BY <1>0, <1>4 DEF InitInfo, Goto, StartType
  <2>4. /\ \A q \in All : pc'[q] = "start_down" => info'[arg'[q]].block = "live"
        /\ \A q \in All : pc'[q] \in {"exit_orphan", "exit_next"} => it'[q] <= Len(children'[q])
    BY <1>0, <1>b, <2>1, <2>2, <2>3 DEF BlockInv, Leaving, Exited
  <2>5. (Leaving(p) => Leaving(p)') /\ pc'[p] # "none"
    BY <2>1, <2>2, <2>3 DEF Leaving, Exited
  <2>6. \A d \in Proc : info'[d].orphan =>
            info[d].orphan \/ (pc[d] # "none" /\ parent[d] \in All /\ Leaving(parent[d]))
    BY <2>1, <2>2, <2>3 DEF Leaving
  <2> QED
    BY <1>0, <2>1, <2>2, <2>3, <2>4, <2>5, <2>6, BlockFrame
<1>5. ASSUME NEW p \in All, StartDown(p) PROVE BlockInv'
  <2>1. /\ pc[p] = "start_down" /\ arg[p] \in Proc /\ parent' = parent /\ it' = it
        /\ \A q \in All \ {p} : children'[q] = children[q]
    BY <1>0, <1>5 DEF StartDown, At, StartType, TreeType
  <2>2. /\ info'[arg[p]].orphan = info[arg[p]].orphan
        /\ \A d \in Proc \ {arg[p]} : info'[d] = info[d]
    <3> HIDE DEF TID_ERROR
    <3> QED
      BY <1>0, <1>5, <2>1 DEF StartDown, StartType, Info
  <2>3. /\ pc'[p] = "user"
        /\ \A q \in All \ {p} : pc'[q] = pc[q] /\ arg'[q] = arg[q]
    BY <1>0, <1>5 DEF StartDown, Return, Goto, StartType
  <2>4. /\ \A q \in All : pc'[q] = "start_down" => info'[arg'[q]].block = "live"
        /\ \A q \in All : pc'[q] \in {"exit_orphan", "exit_next"} => it'[q] <= Len(children'[q])
    BY <1>0, <1>b, <2>1, <2>2, <2>3 DEF BlockInv, Leaving, Exited
  <2>5. (Leaving(p) => Leaving(p)') /\ pc'[p] # "none"
    BY <2>1, <2>2, <2>3 DEF Leaving, Exited
  <2>6. \A d \in Proc : info'[d].orphan =>
            info[d].orphan \/ (pc[d] # "none" /\ parent[d] \in All /\ Leaving(parent[d]))
    BY <2>1, <2>2, <2>3 DEF Leaving
  <2> QED
    BY <1>0, <2>1, <2>2, <2>3, <2>4, <2>5, <2>6, BlockFrame
<1>6. ASSUME NEW p \in All, WaitDown(p) PROVE BlockInv'
  <2>1. /\ pc[p] = "wait_down" /\ parent' = parent /\ arg' = arg
        /\ children' = children /\ it' = it
    BY <1>0, <1>6 DEF WaitDown, At, caller, child
  <2>2. \A d \in Proc : /\ info[d].block = "live" => info'[d].block = "live"
                        /\ info'[d].orphan => info[d].orphan
    BY <1>0, <1>6 DEF WaitDown, StartType, Info
  <2>3. \A q \in All \ {p} : pc'[q] = pc[q]
    BY <1>0, <1>6 DEF WaitDown, Goto, StartType
  <2>4. pc'[p] \in {"wait_get"}
    BY <1>0, <1>6 DEF WaitDown, Goto, At, StartType
  <2>5. /\ \A q \in All : pc'[q] = "start_down" => info'[arg'[q]].block = "live"
        /\ \A q \in All : pc'[q] \in {"exit_orphan", "exit_next"} => it'[q] <= Len(children'[q])
    BY <1>0, <1>b, <2>1, <2>2, <2>3, <2>4 DEF BlockInv
  <2>6. (Leaving(p) => Leaving(p)') /\ pc'[p] # "none"
    BY <2>1, <2>4 DEF Leaving, Exited
  <2> QED
    BY <1>0, <2>1, <2>2, <2>3, <2>5, <2>6, BlockFrame
<1>7. ASSUME NEW p \in All, WaitGet(p) PROVE BlockInv'
  <2>1. /\ pc[p] = "wait_get" /\ arg[p] \in Proc /\ parent' = parent /\ it' = it
        /\ \A q \in All \ {p} : children'[q] = children[q]
    BY <1>0, <1>7 DEF WaitGet, At, child, StartType, TreeType
  <2>2. /\ info'[arg[p]].orphan = info[arg[p]].orphan
        /\ \A d \in Proc \ {arg[p]} : info'[d] = info[d]
    BY <1>0, <1>7, <2>1 DEF WaitGet, free, StartType, Info
  <2>3. /\ pc'[p] = "user"
        /\ \A q \in All \ {p} : pc'[q] = pc[q] /\ arg'[q] = arg[q]
    BY <1>0, <1>7 DEF WaitGet, Return, Goto, StartType
  <2>4. parent[arg[p]] = p
    BY <1>0, <1>a, <2>1 DEF ListedInv
  <2>5. /\ \A q \in All : pc'[q] = "start_down" => info'[arg'[q]].block = "live"
        /\ \A q \in All : pc'[q] \in {"exit_orphan", "exit_next"} => it'[q] <= Len(children'[q])
    BY <1>0, <1>b, <2>1, <2>2, <2>3, <2>4 DEF BlockInv, Leaving, Exited
  <2>6. (Leaving(p) => Leaving(p)') /\ pc'[p] # "none"
    BY <2>1, <2>2, <2>3, <2>4 DEF Leaving, Exited
  <2>7. \A d \in Proc : info'[d].orphan =>
            info[d].orphan \/ (pc[d] # "none" /\ parent[d] \in All /\ Leaving(parent[d]))
    BY <2>1, <2>2, <2>3, <2>4 DEF Leaving
  <2> QED
    BY <1>0, <2>1, <2>2, <2>3, <2>4, <2>5, <2>6, <2>7, BlockFrame
<1>8. ASSUME NEW c \in Proc, FileCall(c) PROVE BlockInv'
  <2>1. /\ pc[c] = "user" /\ parent' = parent /\ arg' = arg
        /\ children' = children /\ it' = it
    BY <1>0, <1>8 DEF FileCall, At, caller, child
  <2>2. \A d \in Proc : /\ info[d].block = "live" => info'[d].block = "live"
                        /\ info'[d].orphan => info[d].orphan
    BY <1>0, <1>8 DEF FileCall
  <2>3. \A q \in All \ {c} : pc'[q] = pc[q]
    BY <1>0, <1>8 DEF FileCall, Goto, StartType
  <2>4. pc'[c] \in {"file"}
    BY <1>0, <1>8 DEF FileCall, Goto, At, StartType
  <2>5. /\ \A q \in All : pc'[q] = "start_down" => info'[arg'[q]].block = "live"
        /\ \A q \in All : pc'[q] \in {"exit_orphan", "exit_next"} => it'[q] <= Len(children'[q])
    BY <1>0, <1>b, <2>1, <2>2, <2>3, <2>4 DEF BlockInv
  <2>6. (Leaving(c) => Leaving(c)') /\ pc'[c] # "none"
    BY <2>1, <2>4 DEF Leaving, Exited
  <2> QED
    BY <1>0, <2>1, <2>2, <2>3, <2>5, <2>6, BlockFrame
<1>9. ASSUME NEW c \in Proc, Kill(c) PROVE BlockInv'
  <2>1. /\ pc[c] = "user" /\ parent' = parent /\ arg' = arg
        /\ children' = children /\ it' = it
    BY <1>0, <1>9 DEF Kill, At, caller, child
  <2>2. \A d \in Proc : /\ info[d].block = "live" => info'[d].block = "live"
                        /\ info'[d].orphan => info[d].orphan
    BY <1>0, <1>9 DEF Kill
  <2>3. \A q \in All \ {c} : pc'[q] = pc[q]
    BY <1>0, <1>9 DEF Kill, Goto, StartType
  <2>4. pc'[c] \in {"exit_test"}
    BY <1>0, <1>9 DEF Kill, Goto, At, StartType
  <2>5. /\ \A q \in All : pc'[q] = "start_down" => info'[arg'[q]].block = "live"
        /\ \A q \in All : pc'[q] \in {"exit_orphan", "exit_next"} => it'[q] <= Len(children'[q])
    BY <1>0, <1>b, <2>1, <2>2, <2>3, <2>4 DEF BlockInv
  <2>6. (Leaving(c) => Leaving(c)') /\ pc'[c] # "none"
    BY <2>1, <2>4 DEF Leaving, Exited
  <2> QED
    BY <1>0, <2>1, <2>2, <2>3, <2>5, <2>6, BlockFrame
<1>10. ASSUME NEW c \in Proc, NEW s \in Code, Exit(c, s) PROVE BlockInv'
  <2>1. /\ pc[c] = "user" /\ parent' = parent /\ arg' = arg
        /\ children' = children /\ it' = it
    BY <1>0, <1>10 DEF Exit, At, caller, child
  <2>2. \A d \in Proc : /\ info[d].block = "live" => info'[d].block = "live"
                        /\ info'[d].orphan => info[d].orphan
    BY <1>0, <1>10 DEF Exit, StartType, Info
  <2>3. \A q \in All \ {c} : pc'[q] = pc[q]
    BY <1>0, <1>10 DEF Exit, Goto, StartType
  <2>4. pc'[c] \in {"exit_test"}
    BY <1>0, <1>10 DEF Exit, Goto, At, StartType
  <2>5. /\ \A q \in All : pc'[q] = "start_down" => info'[arg'[q]].block = "live"
        /\ \A q \in All : pc'[q] \in {"exit_orphan", "exit_next"} => it'[q] <= Len(children'[q])
    BY <1>0, <1>b, <2>1, <2>2, <2>3, <2>4 DEF BlockInv
  <2>6. (Leaving(c) => Leaving(c)') /\ pc'[c] # "none"
    BY <2>1, <2>4 DEF Leaving, Exited
  <2> QED
    BY <1>0, <2>1, <2>2, <2>3, <2>5, <2>6, BlockFrame
<1>11. ASSUME NEW c \in Proc, LoadNoMemory(c) PROVE BlockInv'
  <2>1. /\ pc[c] = "load" /\ parent' = parent /\ arg' = arg
        /\ children' = children /\ it' = it
    BY <1>0, <1>11 DEF LoadNoMemory, At, caller
  <2>2. \A d \in Proc : /\ info[d].block = "live" => info'[d].block = "live"
                        /\ info'[d].orphan => info[d].orphan
    BY <1>0, <1>11 DEF LoadNoMemory
  <2>3. \A q \in All \ {c} : pc'[q] = pc[q]
    BY <1>0, <1>11 DEF LoadNoMemory, Goto, StartType
  <2>4. pc'[c] \in {"set_tid"}
    BY <1>0, <1>11 DEF LoadNoMemory, Goto, At, StartType
  <2>5. /\ \A q \in All : pc'[q] = "start_down" => info'[arg'[q]].block = "live"
        /\ \A q \in All : pc'[q] \in {"exit_orphan", "exit_next"} => it'[q] <= Len(children'[q])
    BY <1>0, <1>b, <2>1, <2>2, <2>3, <2>4 DEF BlockInv
  <2>6. (Leaving(c) => Leaving(c)') /\ pc'[c] # "none"
    BY <2>1, <2>4 DEF Leaving, Exited
  <2> QED
    BY <1>0, <2>1, <2>2, <2>3, <2>5, <2>6, BlockFrame
<1>12. ASSUME NEW c \in Proc, NEW ok \in BOOLEAN, Load(c, ok) PROVE BlockInv'
  <2>1. /\ pc[c] = "load" /\ parent' = parent /\ arg' = arg
        /\ children' = children /\ it' = it
    BY <1>0, <1>12 DEF Load, At, caller
  <2>2. \A d \in Proc : /\ info[d].block = "live" => info'[d].block = "live"
                        /\ info'[d].orphan => info[d].orphan
    BY <1>0, <1>12 DEF Load
  <2>3. \A q \in All \ {c} : pc'[q] = pc[q]
    BY <1>0, <1>12 DEF Load, Goto, StartType
  <2>4. pc'[c] \in {"set_tid"}
    BY <1>0, <1>12 DEF Load, Goto, At, StartType
  <2>5. /\ \A q \in All : pc'[q] = "start_down" => info'[arg'[q]].block = "live"
        /\ \A q \in All : pc'[q] \in {"exit_orphan", "exit_next"} => it'[q] <= Len(children'[q])
    BY <1>0, <1>b, <2>1, <2>2, <2>3, <2>4 DEF BlockInv
  <2>6. (Leaving(c) => Leaving(c)') /\ pc'[c] # "none"
    BY <2>1, <2>4 DEF Leaving, Exited
  <2> QED
    BY <1>0, <2>1, <2>2, <2>3, <2>5, <2>6, BlockFrame
<1>13. ASSUME NEW c \in Proc, SetTid(c) PROVE BlockInv'
  <2>1. /\ pc[c] = "set_tid" /\ parent' = parent /\ arg' = arg
        /\ children' = children /\ it' = it
    BY <1>0, <1>13 DEF SetTid, At, caller, child
  <2>2. \A d \in Proc : /\ info[d].block = "live" => info'[d].block = "live"
                        /\ info'[d].orphan => info[d].orphan
    BY <1>0, <1>13 DEF SetTid, StartType, Info
  <2>3. \A q \in All \ {c} : pc'[q] = pc[q]
    BY <1>0, <1>13 DEF SetTid, Goto, StartType
  <2>4. pc'[c] \in {"start_up"}
    BY <1>0, <1>13 DEF SetTid, Goto, At, StartType
  <2>5. /\ \A q \in All : pc'[q] = "start_down" => info'[arg'[q]].block = "live"
        /\ \A q \in All : pc'[q] \in {"exit_orphan", "exit_next"} => it'[q] <= Len(children'[q])
    BY <1>0, <1>b, <2>1, <2>2, <2>3, <2>4 DEF BlockInv
  <2>6. (Leaving(c) => Leaving(c)') /\ pc'[c] # "none"
    BY <2>1, <2>4 DEF Leaving, Exited
  <2> QED
    BY <1>0, <2>1, <2>2, <2>3, <2>5, <2>6, BlockFrame
<1>14. ASSUME NEW c \in Proc, StartUp(c) PROVE BlockInv'
  <2>1. /\ pc[c] = "start_up" /\ parent' = parent /\ arg' = arg
        /\ children' = children /\ it' = it
    BY <1>0, <1>14 DEF StartUp, At, caller, child
  <2>2. \A d \in Proc : /\ info[d].block = "live" => info'[d].block = "live"
                        /\ info'[d].orphan => info[d].orphan
    BY <1>0, <1>14 DEF StartUp, StartType, Info
  <2>3. \A q \in All \ {c} : pc'[q] = pc[q]
    BY <1>0, <1>14 DEF StartUp, Goto, StartType
  <2>4. pc'[c] \in {"user", "exit_test"}
    BY <1>0, <1>14 DEF StartUp, Goto, At, StartType
  <2>5. /\ \A q \in All : pc'[q] = "start_down" => info'[arg'[q]].block = "live"
        /\ \A q \in All : pc'[q] \in {"exit_orphan", "exit_next"} => it'[q] <= Len(children'[q])
    BY <1>0, <1>b, <2>1, <2>2, <2>3, <2>4 DEF BlockInv
  <2>6. (Leaving(c) => Leaving(c)') /\ pc'[c] # "none"
    BY <2>1, <2>4 DEF Leaving, Exited
  <2> QED
    BY <1>0, <2>1, <2>2, <2>3, <2>5, <2>6, BlockFrame
<1>15. ASSUME NEW c \in Proc, FileReturn(c) PROVE BlockInv'
  <2>1. /\ pc[c] = "file" /\ parent' = parent /\ arg' = arg
        /\ children' = children /\ it' = it
    BY <1>0, <1>15 DEF FileReturn, At, caller, child
  <2>2. \A d \in Proc : /\ info[d].block = "live" => info'[d].block = "live"
                        /\ info'[d].orphan => info[d].orphan
    BY <1>0, <1>15 DEF FileReturn
  <2>3. \A q \in All \ {c} : pc'[q] = pc[q]
    BY <1>0, <1>15 DEF FileReturn, Goto, StartType
  <2>4. pc'[c] \in {"user"}
    BY <1>0, <1>15 DEF FileReturn, Goto, At, StartType
  <2>5. /\ \A q \in All : pc'[q] = "start_down" => info'[arg'[q]].block = "live"
        /\ \A q \in All : pc'[q] \in {"exit_orphan", "exit_next"} => it'[q] <= Len(children'[q])
    BY <1>0, <1>b, <2>1, <2>2, <2>3, <2>4 DEF BlockInv
  <2>6. (Leaving(c) => Leaving(c)') /\ pc'[c] # "none"
    BY <2>1, <2>4 DEF Leaving, Exited
  <2> QED
    BY <1>0, <2>1, <2>2, <2>3, <2>5, <2>6, BlockFrame
<1>16. ASSUME NEW c \in Proc, ExitTest(c) PROVE BlockInv'
  <2>1. /\ pc[c] = "exit_test" /\ parent' = parent /\ arg' = arg
        /\ children' = children /\ it' = it
    BY <1>16 DEF ExitTest, At, caller, child
  <2>2. \A p \in All \ {c} : pc'[p] = pc[p]
    BY <1>0, <1>16 DEF ExitTest, Goto, StartType
  <2>3. /\ pc'[c] \in {"exit_test", "set_exited", "exit_orphan"}
        /\ pc'[c] = "exit_orphan" => it[c] <= Len(children[c])
    BY <1>0, <1>16 DEF ExitTest, At, Goto, StartType
  <2>4. /\ \A d \in Proc : info'[d].orphan = info[d].orphan
        /\ \A d \in Proc : parent[d] # c => info'[d] = info[d]
    <3>1. CASE info' = info
      BY <3>1
    <3> DEFINE e == children[c][it[c]]
    <3>2. CASE it[c] <= Len(children[c]) /\ info' = [info EXCEPT ![e].block = "freed"]
      <4>1. e \in Proc /\ OnList(e, children[c])
        <5>1. it[c] \in 1..Len(children[c]) /\ children[c] \in Seq(Proc)
          BY <1>0, <3>2, LenProperties DEF TreeType
        <5> QED
          BY <5>1, ElementOfSeq DEF OnList
      <4>2. parent[e] = c
        BY <1>a, <4>1
      <4> HIDE DEF e
      <4> QED
        BY <1>0, <3>2, <4>1, <4>2 DEF StartType, Info
    <3> QED
      BY <1>16, <3>1, <3>2 DEF ExitTest, free
  <2>5. /\ \A q \in All : pc'[q] = "start_down" => info'[arg'[q]].block = "live"
        /\ \A q \in All : pc'[q] \in {"exit_orphan", "exit_next"} => it'[q] <= Len(children'[q])
    BY <1>0, <1>b, <2>1, <2>2, <2>3, <2>4 DEF BlockInv, Leaving, Exited
  <2>6. (Leaving(c) => Leaving(c)') /\ pc'[c] # "none"
    BY <2>1, <2>2, <2>3, <2>4 DEF Leaving, Exited
  <2>7. \A d \in Proc : info'[d].orphan =>
            info[d].orphan \/ (pc[d] # "none" /\ parent[d] \in All /\ Leaving(parent[d]))
    BY <2>1, <2>2, <2>3, <2>4 DEF Leaving
  <2> QED
    BY <1>0, <2>1, <2>2, <2>3, <2>4, <2>5, <2>6, <2>7, BlockFrame
<1>17. ASSUME NEW c \in Proc, ExitOrphan(c) PROVE BlockInv'
  <2> DEFINE e == children[c][it[c]]
  <2>1. /\ pc[c] = "exit_orphan" /\ parent' = parent /\ arg' = arg
        /\ children' = children /\ it' = it /\ info' = [info EXCEPT ![e].orphan = TRUE]
    BY <1>17 DEF ExitOrphan, At, caller, child
  <2>2. \A p \in All \ {c} : pc'[p] = pc[p]
    BY <1>0, <1>17 DEF ExitOrphan, Goto, StartType
  <2>3. pc'[c] = "exit_next" /\ it[c] <= Len(children[c])
    BY <1>0, <1>17, <2>1 DEF ExitOrphan, Goto, StartType, BlockInv
  <2>4. e \in Proc /\ OnList(e, children[c])
    <3>1. it[c] \in 1..Len(children[c]) /\ children[c] \in Seq(Proc)
      BY <1>0, <2>3, LenProperties DEF TreeType
    <3> QED
      BY <3>1, ElementOfSeq DEF OnList
  <2>5. parent[e] = c /\ pc[e] # "none"
    BY <1>a, <2>4
  <2> HIDE DEF e
  <2>6. /\ \A d \in Proc : info'[d].block = info[d].block
        /\ \A d \in Proc \ {e} : info'[d] = info[d]
    BY <1>0, <2>1 DEF StartType, Info
  <2>7. /\ \A q \in All : pc'[q] = "start_down" => info'[arg'[q]].block = "live"
        /\ \A q \in All : pc'[q] \in {"exit_orphan", "exit_next"} => it'[q] <= Len(children'[q])
    BY <1>0, <1>b, <2>1, <2>2, <2>3, <2>4, <2>5, <2>6 DEF BlockInv, Leaving, Exited
  <2>8. (Leaving(c) => Leaving(c)') /\ pc'[c] # "none"
    BY <2>1, <2>2, <2>3, <2>4, <2>5, <2>6 DEF Leaving, Exited
  <2>9. \A d \in Proc : info'[d].orphan =>
            info[d].orphan \/ (pc[d] # "none" /\ parent[d] \in All /\ Leaving(parent[d]))
    BY <2>1, <2>2, <2>3, <2>4, <2>5, <2>6 DEF Leaving
  <2> QED
    BY <1>0, <2>1, <2>2, <2>3, <2>4, <2>5, <2>6, <2>7, <2>8, <2>9, BlockFrame
<1>18. ASSUME NEW c \in Proc, ExitNext(c) PROVE BlockInv'
  <2>1. /\ pc[c] = "exit_next" /\ parent' = parent /\ arg' = arg
        /\ children' = children /\ info' = info
    BY <1>18 DEF ExitNext, Faults, At, caller, child
  <2>2. \A p \in All \ {c} : pc'[p] = pc[p] /\ it'[p] = it[p]
    BY <1>0, <1>18 DEF ExitNext, Faults, Goto, caller, StartType, TreeType
  <2>3. pc'[c] = "exit_test" \/ (pc'[c] = pc[c] /\ it'[c] = it[c])
    <3>1. CASE pc' = pc /\ it' = it
      BY <3>1
    <3>2. CASE pc' = [pc EXCEPT ![c] = "exit_test"]
      BY <1>0, <3>2 DEF StartType
    <3> QED
      BY <1>18, <3>1, <3>2 DEF ExitNext, Faults, Goto, caller
  <2>4. /\ \A q \in All : pc'[q] = "start_down" => info'[arg'[q]].block = "live"
        /\ \A q \in All : pc'[q] \in {"exit_orphan", "exit_next"} => it'[q] <= Len(children'[q])
    BY <1>0, <1>b, <2>1, <2>2, <2>3 DEF BlockInv, Leaving, Exited
  <2>5. (Leaving(c) => Leaving(c)') /\ pc'[c] # "none"
    BY <2>1, <2>2, <2>3 DEF Leaving, Exited
  <2>6. \A d \in Proc : info'[d].orphan =>
            info[d].orphan \/ (pc[d] # "none" /\ parent[d] \in All /\ Leaving(parent[d]))
    BY <2>1, <2>2, <2>3 DEF Leaving
  <2> QED
    BY <1>0, <2>1, <2>2, <2>3, <2>4, <2>5, <2>6, BlockFrame
<1>19. ASSUME NEW c \in Proc, SetExited(c) PROVE BlockInv'
  <2>1. /\ pc[c] = "set_exited" /\ parent' = parent /\ arg' = arg
        /\ children' = children /\ it' = it
    BY <1>0, <1>19 DEF SetExited, Faults, At, caller, child
  <2>2. \A d \in Proc : /\ info[d].block = "live" => info'[d].block = "live"
                        /\ info'[d].orphan => info[d].orphan
    BY <1>0, <1>19 DEF SetExited, Faults, StartType, Info
  <2>3. \A q \in All \ {c} : pc'[q] = pc[q]
    BY <1>0, <1>19 DEF SetExited, Faults, Goto, StartType
  <2>4. pc'[c] \in {"set_exited", "exit_up"}
    BY <1>0, <1>19 DEF SetExited, Faults, Goto, At, StartType
  <2>5. /\ \A q \in All : pc'[q] = "start_down" => info'[arg'[q]].block = "live"
        /\ \A q \in All : pc'[q] \in {"exit_orphan", "exit_next"} => it'[q] <= Len(children'[q])
    BY <1>0, <1>b, <2>1, <2>2, <2>3, <2>4 DEF BlockInv
  <2>6. (Leaving(c) => Leaving(c)') /\ pc'[c] # "none"
    BY <2>1, <2>4 DEF Leaving, Exited
  <2> QED
    BY <1>0, <2>1, <2>2, <2>3, <2>5, <2>6, BlockFrame
<1>20. ASSUME NEW c \in Proc, ExitUp(c) PROVE BlockInv'
  <2>1. /\ pc[c] = "exit_up" /\ parent' = parent /\ arg' = arg
        /\ children' = children /\ it' = it
    BY <1>0, <1>20 DEF ExitUp, Faults, At, caller, child
  <2>2. \A d \in Proc : /\ info[d].block = "live" => info'[d].block = "live"
                        /\ info'[d].orphan => info[d].orphan
    BY <1>0, <1>20 DEF ExitUp, Faults, exit_up, StartType, Info
  <2>3. \A q \in All \ {c} : pc'[q] = pc[q]
    BY <1>0, <1>20 DEF ExitUp, Faults, Goto, StartType
  <2>4. pc'[c] \in {"exit_up", "exit_free"}
    BY <1>0, <1>20 DEF ExitUp, Faults, Goto, At, StartType
  <2>5. /\ \A q \in All : pc'[q] = "start_down" => info'[arg'[q]].block = "live"
        /\ \A q \in All : pc'[q] \in {"exit_orphan", "exit_next"} => it'[q] <= Len(children'[q])
    BY <1>0, <1>b, <2>1, <2>2, <2>3, <2>4 DEF BlockInv
  <2>6. (Leaving(c) => Leaving(c)') /\ pc'[c] # "none"
    BY <2>1, <2>4 DEF Leaving, Exited
  <2> QED
    BY <1>0, <2>1, <2>2, <2>3, <2>5, <2>6, BlockFrame
<1>21. ASSUME NEW c \in Proc, ExitFree(c) PROVE BlockInv'
  <2>1. /\ pc[c] = "exit_free" /\ parent' = parent /\ arg' = arg
        /\ children' = children /\ it' = it
    BY <1>21 DEF ExitFree, Faults, At, caller, child
  <2>2. \A p \in All \ {c} : pc'[p] = pc[p]
    BY <1>0, <1>21 DEF ExitFree, Faults, Goto, StartType
  <2>3. pc'[c] \in {"exit_free", "close"}
    BY <1>0, <1>21 DEF ExitFree, Faults, At, Goto, StartType
  <2>4. /\ \A d \in Proc : info'[d].orphan = info[d].orphan
        /\ \A d \in Proc : ~ info[d].orphan => info'[d] = info[d]
    BY <1>0, <1>21 DEF ExitFree, Faults, free, StartType, Info
  <2>5. ASSUME NEW p \in All, pc[p] = "start_down" PROVE ~ info[arg[p]].orphan
    BY <1>0, <1>b, <2>5 DEF BlockInv, Leaving, Exited
  <2>6. /\ \A q \in All : pc'[q] = "start_down" => info'[arg'[q]].block = "live"
        /\ \A q \in All : pc'[q] \in {"exit_orphan", "exit_next"} => it'[q] <= Len(children'[q])
    BY <1>0, <1>b, <2>1, <2>2, <2>3, <2>4, <2>5 DEF BlockInv, Leaving, Exited
  <2>7. (Leaving(c) => Leaving(c)') /\ pc'[c] # "none"
    BY <2>1, <2>2, <2>3, <2>4, <2>5 DEF Leaving, Exited
  <2>8. \A d \in Proc : info'[d].orphan =>
            info[d].orphan \/ (pc[d] # "none" /\ parent[d] \in All /\ Leaving(parent[d]))
    BY <2>1, <2>2, <2>3, <2>4, <2>5 DEF Leaving
  <2> QED
    BY <1>0, <2>1, <2>2, <2>3, <2>4, <2>5, <2>6, <2>7, <2>8, BlockFrame
<1>22. ASSUME NEW c \in Proc, CloseFiles(c) PROVE BlockInv'
  <2>1. pc[c] = "close" /\ parent' = parent /\ arg' = arg /\ info' = info
    BY <1>22 DEF CloseFiles, At, child
  <2>2. /\ pc'[c] = "dead"
        /\ \A p \in All \ {c} : pc'[p] = pc[p] /\ children'[p] = children[p] /\ it'[p] = it[p]
    BY <1>0, <1>22 DEF CloseFiles, Goto, StartType, TreeType
  <2>3. /\ \A q \in All : pc'[q] = "start_down" => info'[arg'[q]].block = "live"
        /\ \A q \in All : pc'[q] \in {"exit_orphan", "exit_next"} => it'[q] <= Len(children'[q])
    BY <1>0, <1>b, <2>1, <2>2 DEF BlockInv, Leaving, Exited
  <2>4. (Leaving(c) => Leaving(c)') /\ pc'[c] # "none"
    BY <2>1, <2>2 DEF Leaving, Exited
  <2>5. \A d \in Proc : info'[d].orphan =>
            info[d].orphan \/ (pc[d] # "none" /\ parent[d] \in All /\ Leaving(parent[d]))
    BY <2>1, <2>2 DEF Leaving
  <2> QED
    BY <1>0, <2>1, <2>2, <2>3, <2>4, <2>5, BlockFrame
<1>23. CASE UNCHANGED vars
  BY <1>0, <1>23 DEF vars, caller, child, files, ghosts, BlockInv, Leaving, Exited
<1> QED
  BY <1>1, <1>2, <1>3, <1>4, <1>5, <1>6, <1>7, <1>8, <1>9, <1>10, <1>11, <1>12, <1>13,
     <1>14, <1>15, <1>16, <1>17, <1>18, <1>19, <1>20, <1>21, <1>22, <1>23 DEF Next,
     Call, Act, Continue, ChildStep

\* A step in which x moves on, and that tells nothing new about who has exited,
\* keeps what the info blocks and wait say.
LEMMA StatusMove ==
    ASSUME StatusInv, NEW x \in All,
           \A q \in All \ {x} : pc'[q] = pc[q] /\ arg'[q] = arg[q],
           \A d \in Proc : success'[d] = success[d] /\ code'[d] = code[d] /\ waited'[d] = waited[d],
           pc[x] # "init", pc'[x] \notin {"init", "none", "load"},
           Leaving(x) => Leaving(x)', Exited(x) <=> Exited(x)',
           pc'[x] = "wait_get" => info'[arg'[x]].exited,
           \A q \in All : pc[q] = "wait_get" => arg[q] \in Proc,
           \A d \in Proc : /\ info'[d].exited = info[d].exited
                           /\ info'[d].exit_status = info[d].exit_status
                           /\ info'[d].wait_exit_sema > 0 => info[d].wait_exit_sema > 0 \/ Exited(d)
    PROVE  StatusInv'
<1> USE DEF All
<1>1. \A q \in All : (Leaving(q) => Leaving(q)') /\ (Exited(q) <=> Exited(q)')
  BY DEF Leaving, Exited
<1>2. \A d \in Proc : InfoSet(d) <=> InfoSet(d)'
  BY DEF InfoSet
<1>3. \A d \in Proc : success'[d] => pc'[d] # "none" /\ InfoSet(d)'
  BY <1>2 DEF StatusInv
<1>4. \A d \in Proc : ~ Leaving(d)' => code'[d] = -1
  BY <1>1 DEF StatusInv
<1>5. ASSUME NEW d \in Proc, InfoSet(d)', success'[d] \/ pc'[d] = "load"
      PROVE  /\ info'[d].exited <=> Exited(d)'
             /\ info'[d].exit_status = code'[d]
             /\ info'[d].wait_exit_sema > 0 => Exited(d)'
  <2>1. InfoSet(d) /\ (success[d] \/ pc[d] = "load")
    BY <1>2, <1>5
  <2> QED
    BY <1>1, <2>1 DEF StatusInv
<1>6. \A q \in All : pc'[q] = "wait_get" => info'[arg'[q]].exited
  BY DEF StatusInv
<1>7. \A d \in Proc : waited'[d] # None => waited'[d] = code'[d] /\ Exited(d)'
  BY <1>1 DEF StatusInv
<1> QED
  BY <1>3, <1>4, <1>5, <1>6, <1>7 DEF StatusInv, InfoSet, Leaving, Exited

\* What the info blocks and wait say stays true.
LEMMA StatusPreserved == StartInv /\ TreeInv /\ [Next]_vars => StatusInv'
<1> SUFFICES ASSUME StartInv, TreeInv, [Next]_vars PROVE StatusInv'
  OBVIOUS
<1> USE ProcessAssumption DEF All
<1>0. /\ StartType /\ HandshakeInv /\ OutcomeInv /\ TreeType /\ ListedInv /\ BlockInv
      /\ StatusInv
  BY DEF StartInv, TreeInv
<1>a. ASSUME NEW p \in All, NEW d \in Proc, OnList(d, children[p])
      PROVE  success[d] /\ InfoSet(d) /\ (info[d].exited <=> Exited(d))
             /\ info[d].exit_status = code[d] /\ (info[d].wait_exit_sema > 0 => Exited(d))
  BY <1>0, <1>a DEF ListedInv, StatusInv
<1>b. \A q \in All : pc[q] = "wait_get" => arg[q] \in Proc
  BY <1>0 DEF StartType
<1>1. ASSUME NEW p \in All, ExecNoInfo(p) PROVE StatusInv'
  <2>1. /\ pc[p] = "user" /\ success' = success /\ code' = code /\ waited' = waited
    BY <1>1 DEF ExecNoInfo, MayExec, Faults, At, caller, child, ghosts
  <2>2. pc'[p] \in {"user"} /\ \A q \in All \ {p} : pc'[q] = pc[q] /\ arg'[q] = arg[q]
    BY <1>0, <1>1 DEF ExecNoInfo, MayExec, Faults, Goto, At, caller, StartType
  <2>3. \A d \in Proc : /\ info'[d].exited = info[d].exited
                        /\ info'[d].exit_status = info[d].exit_status
                        /\ info'[d].wait_exit_sema > 0 => info[d].wait_exit_sema > 0 \/ Exited(d)
    BY <1>0, <1>1, <2>1 DEF ExecNoInfo, Faults
  <2>4. (Leaving(p) => Leaving(p)') /\ (Exited(p) <=> Exited(p)')
    BY <2>1, <2>2 DEF Leaving, Exited
  <2> QED
    BY <1>0, <1>b, <2>1, <2>2, <2>3, <2>4, StatusMove
<1>2. ASSUME NEW p \in All, NEW c \in Proc, Exec(p, c) PROVE StatusInv'
  <2>1. /\ pc[p] = "user" /\ pc[c] = "none" /\ p # c
        /\ pc' = [pc EXCEPT ![p] = "init", ![c] = "load"] /\ arg' = [arg EXCEPT ![p] = c]
        /\ success' = success /\ code' = code /\ waited' = waited
    BY <1>2 DEF Exec, MayExec, At, ghosts
  <2>2. \A d \in Proc \ {c} : info'[d] = info[d]
    BY <1>0, <1>2 DEF Exec, StartType
  <2>3. info'[c].exited = info[c].exited
    BY <1>0, <1>2 DEF Exec, StartType, Info
  <2>4. /\ pc'[p] = "init" /\ pc'[c] = "load" /\ arg'[p] = c
        /\ \A q \in All \ {p, c} : pc'[q] = pc[q] /\ arg'[q] = arg[q]
    BY <1>0, <2>1 DEF StartType
  <2>5. ~ success[c] /\ ~ Leaving(c) /\ ~ Leaving(p) /\ ~ Exited(c) /\ ~ Exited(p)
    BY <1>0, <2>1 DEF StatusInv, Leaving, Exited
  <2>6. \A q \in All : (Leaving(q)' <=> Leaving(q)) /\ (Exited(q)' <=> Exited(q))
    BY <2>4, <2>5 DEF Leaving, Exited
  <2>7. ~ InfoSet(c)'
    BY <2>4 DEF InfoSet
  <2>8. \A d \in Proc \ {c} : InfoSet(d)' <=> InfoSet(d)
    BY <2>1, <2>4 DEF InfoSet
  <2>9. ASSUME NEW d \in Proc, success'[d] PROVE pc'[d] # "none" /\ InfoSet(d)'
    <3>1. d # c /\ success[d]
      BY <2>1, <2>5, <2>9
    <3>2. pc[d] # "none" /\ InfoSet(d)
      BY <1>0, <3>1 DEF StatusInv
    <3> QED
      BY <2>4, <2>8, <3>1, <3>2
  <2>10. \A d \in Proc : ~ Leaving(d)' => code'[d] = -1
    BY <1>0, <2>1, <2>6 DEF StatusInv
  <2>11. ASSUME NEW d \in Proc, InfoSet(d)', success'[d] \/ pc'[d] = "load"
         PROVE  /\ info'[d].exited <=> Exited(d)'
                /\ info'[d].exit_status = code'[d]
                /\ info'[d].wait_exit_sema > 0 => Exited(d)'
    <3>1. d # c /\ InfoSet(d) /\ (success[d] \/ pc[d] = "load")
      BY <2>1, <2>4, <2>7, <2>8, <2>11
    <3> QED
      BY <1>0, <2>1, <2>2, <2>6, <3>1 DEF StatusInv
  <2>12. ASSUME NEW q \in All, pc'[q] = "wait_get" PROVE info'[arg'[q]].exited
    <3>1. pc[q] = "wait_get" /\ arg'[q] = arg[q] /\ arg[q] \in Proc
      BY <1>b, <2>4, <2>12
    <3> QED
      BY <1>0, <2>2, <2>3, <3>1 DEF StatusInv
  <2>13. \A d \in Proc : waited'[d] # None => waited'[d] = code'[d] /\ Exited(d)'
    BY <1>0, <2>1, <2>6 DEF StatusInv
  <2> QED
    BY <2>9, <2>10, <2>11, <2>12, <2>13 DEF StatusInv, InfoSet, Leaving, Exited
<1>3. ASSUME NEW p \in All, NEW c \in Proc, Wait(p, c) PROVE StatusInv'
  <2>1. /\ pc[p] = "user" /\ success' = success /\ code' = code /\ waited' = waited
    BY <1>3 DEF Wait, At, child, ghosts
  <2>2. pc'[p] \in {"wait_get", "wait_down"} /\ \A q \in All \ {p} : pc'[q] = pc[q] /\ arg'[q] = arg[q]
    BY <1>0, <1>3 DEF Wait, Goto, At, caller, wait_next, StartType
  <2>3. \A d \in Proc : /\ info'[d].exited = info[d].exited
                        /\ info'[d].exit_status = info[d].exit_status
                        /\ info'[d].wait_exit_sema > 0 => info[d].wait_exit_sema > 0 \/ Exited(d)
    BY <1>0, <1>3, <2>1 DEF Wait
  <2>4. (Leaving(p) => Leaving(p)') /\ (Exited(p) <=> Exited(p)')
    BY <2>1, <2>2 DEF Leaving, Exited
  <2>5. pc'[p] = "wait_get" => info'[arg'[p]].exited
    BY <1>0, <1>3 DEF Wait, Goto, wait_next, StartType
  <2> QED
    BY <1>0, <1>b, <2>1, <2>2, <2>3, <2>4, <2>5, StatusMove
<1>4. ASSUME NEW p \in All, InitInfo(p) PROVE StatusInv'
  <2> DEFINE c == arg[p]
  <2>1. /\ pc[p] = "init" /\ c \in Proc /\ arg' = arg
        /\ success' = success /\ code' = code /\ waited' = waited
    BY <1>0, <1>4 DEF InitInfo, At, caller, child, ghosts, StartType
  <2>2. pc'[p] = "start_down" /\ \A q \in All \ {p} : pc'[q] = pc[q]
    BY <1>0, <1>4 DEF InitInfo, Goto, StartType
  <2>3. /\ ~ info'[c].exited /\ info'[c].exit_status = -1 /\ info'[c].wait_exit_sema = 0
        /\ \A d \in Proc \ {c} : info'[d] = info[d]
    <3>1. info \in [Proc -> Info]
      BY <1>0 DEF StartType
    <3> QED
      BY <1>4, <2>1, <3>1, InfoFilled DEF InitInfo
  <2>4. ~ InfoSet(c) /\ ~ success[c]
    BY <1>0, <2>1 DEF StatusInv, InfoSet
  <2> HIDE DEF c
  <2>5. \A q \in All : (Leaving(q)' <=> Leaving(q)) /\ (Exited(q)' <=> Exited(q))
    BY <2>1, <2>2 DEF Leaving, Exited
  <2>6. \A d \in Proc \ {c} : InfoSet(d)' <=> InfoSet(d)
    BY <2>1, <2>2 DEF InfoSet, c
  <2>7. \A d \in Proc : success'[d] => pc'[d] # "none" /\ InfoSet(d)'
    BY <1>0, <2>1, <2>2, <2>4, <2>6 DEF StatusInv
  <2>8. \A d \in Proc : ~ Leaving(d)' => code'[d] = -1
    BY <1>0, <2>1, <2>5 DEF StatusInv
  <2>9. ASSUME NEW d \in Proc, InfoSet(d)', success'[d] \/ pc'[d] = "load"
        PROVE  /\ info'[d].exited <=> Exited(d)'
               /\ info'[d].exit_status = code'[d]
               /\ info'[d].wait_exit_sema > 0 => Exited(d)'
    <3>1. CASE d = c
      <4>1. pc'[d] = "load"
        BY <2>1, <2>4, <2>9, <3>1
      <4>2. ~ Leaving(d)' /\ ~ Exited(d)'
        BY <4>1 DEF Leaving, Exited
      <4> QED
        BY <2>3, <2>8, <3>1, <4>2
    <3>2. CASE d # c
      <4>1. InfoSet(d) /\ (success[d] \/ pc[d] = "load")
        BY <2>1, <2>2, <2>6, <2>9, <3>2
      <4> QED
        BY <1>0, <2>1, <2>3, <2>5, <3>2, <4>1 DEF StatusInv
    <3> QED
      BY <3>1, <3>2
  <2>10. ASSUME NEW q \in All, pc'[q] = "wait_get" PROVE info'[arg'[q]].exited
    <3>1. pc[q] = "wait_get" /\ arg'[q] = arg[q] /\ arg[q] \in Proc
      BY <1>b, <2>1, <2>2, <2>10
    <3>2. success[arg[q]]
      BY <1>0, <1>a, <3>1 DEF ListedInv
    <3> QED
      BY <1>0, <2>3, <2>4, <3>1, <3>2 DEF StatusInv
  <2>11. \A d \in Proc : waited'[d] # None => waited'[d] = code'[d] /\ Exited(d)'
    BY <1>0, <2>1, <2>5 DEF StatusInv
  <2> QED
    BY <2>7, <2>8, <2>9, <2>10, <2>11 DEF StatusInv, InfoSet, Leaving, Exited
<1>5. ASSUME NEW p \in All, StartDown(p) PROVE StatusInv'
  <2>1. /\ pc[p] = "start_down" /\ success' = success /\ code' = code /\ waited' = waited
    BY <1>5 DEF StartDown, At
  <2>2. pc'[p] \in {"user"} /\ \A q \in All \ {p} : pc'[q] = pc[q] /\ arg'[q] = arg[q]
    BY <1>0, <1>5 DEF StartDown, Return, Goto, At, StartType
  <2>3. \A d \in Proc : /\ info'[d].exited = info[d].exited
                        /\ info'[d].exit_status = info[d].exit_status
                        /\ info'[d].wait_exit_sema > 0 => info[d].wait_exit_sema > 0 \/ Exited(d)
    BY <1>0, <1>5, <2>1 DEF StartDown, StartType, Info
  <2>4. (Leaving(p) => Leaving(p)') /\ (Exited(p) <=> Exited(p)')
    BY <2>1, <2>2 DEF Leaving, Exited
  <2> QED
    BY <1>0, <1>b, <2>1, <2>2, <2>3, <2>4, StatusMove
<1>6. ASSUME NEW p \in All, WaitDown(p) PROVE StatusInv'
  <2>1. /\ pc[p] = "wait_down" /\ success' = success /\ code' = code /\ waited' = waited
    BY <1>6 DEF WaitDown, At, caller, child, ghosts
  <2>2. pc'[p] \in {"wait_get"} /\ \A q \in All \ {p} : pc'[q] = pc[q] /\ arg'[q] = arg[q]
    BY <1>0, <1>6 DEF WaitDown, Goto, At, caller, StartType
  <2>3. \A d \in Proc : /\ info'[d].exited = info[d].exited
                        /\ info'[d].exit_status = info[d].exit_status
                        /\ info'[d].wait_exit_sema > 0 => info[d].wait_exit_sema > 0 \/ Exited(d)
    BY <1>0, <1>6, <2>1 DEF WaitDown, StartType, Info
  <2>4. (Leaving(p) => Leaving(p)') /\ (Exited(p) <=> Exited(p)')
    BY <2>1, <2>2 DEF Leaving, Exited
  <2>5. info'[arg'[p]].exited
    <3>1. arg[p] \in Proc /\ OnList(arg[p], children[p]) /\ info[arg[p]].wait_exit_sema > 0
      BY <1>0, <1>6, <2>1 DEF WaitDown, wait_over, StartType, ListedInv
    <3>2. arg'[p] = arg[p]
      BY <1>6 DEF WaitDown, caller
    <3> QED
      BY <1>a, <2>3, <3>1, <3>2
  <2> QED
    BY <1>0, <1>b, <2>1, <2>2, <2>3, <2>4, <2>5, StatusMove
<1>7. ASSUME NEW p \in All, WaitGet(p) PROVE StatusInv'
  <2> DEFINE c == arg[p]
  <2>1. /\ pc[p] = "wait_get" /\ c \in Proc /\ OnList(c, children[p])
        /\ success' = success /\ code' = code
    BY <1>0, <1>7 DEF WaitGet, At, child, StartType, ListedInv
  <2>2. pc'[p] = "user" /\ \A q \in All \ {p} : pc'[q] = pc[q] /\ arg'[q] = arg[q]
    BY <1>0, <1>7 DEF WaitGet, Return, Goto, StartType
  <2>3. info[c].exited /\ Exited(c) /\ info[c].exit_status = code[c]
    BY <1>0, <1>a, <2>1 DEF StatusInv
  <2>4. waited' = [waited EXCEPT ![c] = code[c]] /\ info' = [info EXCEPT ![c].block = "freed"]
    BY <1>7, <2>3 DEF WaitGet, free
  <2> HIDE DEF c
  <2>5. \A d \in Proc : /\ info'[d].exited = info[d].exited
                        /\ info'[d].exit_status = info[d].exit_status
                        /\ info'[d].wait_exit_sema = info[d].wait_exit_sema
    BY <1>0, <2>1, <2>4 DEF StartType, Info
  <2>6. \A q \in All : (Leaving(q)' <=> Leaving(q)) /\ (Exited(q)' <=> Exited(q))
    BY <2>1, <2>2 DEF Leaving, Exited
  <2>7. \A d \in Proc : InfoSet(d)' <=> InfoSet(d)
    BY <2>1, <2>2 DEF InfoSet
  <2>8. \A d \in Proc : success'[d] => pc'[d] # "none" /\ InfoSet(d)'
    BY <1>0, <2>1, <2>2, <2>7 DEF StatusInv
  <2>9. \A d \in Proc : ~ Leaving(d)' => code'[d] = -1
    BY <1>0, <2>1, <2>6 DEF StatusInv
  <2>10. ASSUME NEW d \in Proc, InfoSet(d)', success'[d] \/ pc'[d] = "load"
         PROVE  /\ info'[d].exited <=> Exited(d)'
                /\ info'[d].exit_status = code'[d]
                /\ info'[d].wait_exit_sema > 0 => Exited(d)'
    <3>1. InfoSet(d) /\ (success[d] \/ pc[d] = "load")
      BY <2>1, <2>2, <2>7, <2>10
    <3> QED
      BY <1>0, <2>1, <2>5, <2>6, <3>1 DEF StatusInv
  <2>11. ASSUME NEW q \in All, pc'[q] = "wait_get" PROVE info'[arg'[q]].exited
    <3>1. pc[q] = "wait_get" /\ arg'[q] = arg[q] /\ arg[q] \in Proc
      BY <1>b, <2>2, <2>11
    <3> QED
      BY <1>0, <2>5, <3>1 DEF StatusInv
  <2>12. ASSUME NEW d \in Proc, waited'[d] # None PROVE waited'[d] = code'[d] /\ Exited(d)'
    <3>1. CASE d = c
      BY <1>0, <2>1, <2>3, <2>4, <2>6, <3>1 DEF TreeType
    <3>2. CASE d # c
      BY <1>0, <2>1, <2>4, <2>6, <2>12, <3>2 DEF TreeType, StatusInv
    <3> QED
      BY <3>1, <3>2
  <2> QED
    BY <2>8, <2>9, <2>10, <2>11, <2>12 DEF StatusInv, InfoSet, Leaving, Exited
<1>8. ASSUME NEW c \in Proc, FileCall(c) PROVE StatusInv'
  <2>1. /\ pc[c] = "user" /\ success' = success /\ code' = code /\ waited' = waited
    BY <1>8 DEF FileCall, At, caller, child, ghosts
  <2>2. pc'[c] \in {"file"} /\ \A q \in All \ {c} : pc'[q] = pc[q] /\ arg'[q] = arg[q]
    BY <1>0, <1>8 DEF FileCall, Goto, At, caller, StartType
  <2>3. \A d \in Proc : /\ info'[d].exited = info[d].exited
                        /\ info'[d].exit_status = info[d].exit_status
                        /\ info'[d].wait_exit_sema > 0 => info[d].wait_exit_sema > 0 \/ Exited(d)
    BY <1>0, <1>8, <2>1 DEF FileCall
  <2>4. (Leaving(c) => Leaving(c)') /\ (Exited(c) <=> Exited(c)')
    BY <2>1, <2>2 DEF Leaving, Exited
  <2> QED
    BY <1>0, <1>b, <2>1, <2>2, <2>3, <2>4, StatusMove
<1>9. ASSUME NEW c \in Proc, Kill(c) PROVE StatusInv'
  <2>1. /\ pc[c] = "user" /\ success' = success /\ waited' = waited
    BY <1>9 DEF Kill, At, child
  <2>2. pc'[c] \in {"exit_test"} /\ \A q \in All \ {c} : pc'[q] = pc[q] /\ arg'[q] = arg[q]
    BY <1>0, <1>9 DEF Kill, Goto, At, caller, StartType
  <2>3. \A d \in Proc : /\ info'[d].exited = info[d].exited
                        /\ info'[d].exit_status = info[d].exit_status
                        /\ info'[d].wait_exit_sema > 0 => info[d].wait_exit_sema > 0 \/ Exited(d)
    BY <1>0, <1>9, <2>1 DEF Kill
  <2>4. (Leaving(c) => Leaving(c)') /\ (Exited(c) <=> Exited(c)')
    BY <2>1, <2>2 DEF Leaving, Exited
  <2>5. \A d \in Proc : code'[d] = code[d]
    <3>1. code[c] = -1
      BY <1>0, <2>1 DEF StatusInv, Leaving, Exited
    <3> QED
      BY <1>0, <1>9, <3>1 DEF Kill, TreeType
  <2> QED
    BY <1>0, <2>5, <1>b, <2>1, <2>2, <2>3, <2>4, StatusMove
<1>10. ASSUME NEW c \in Proc, NEW s \in Code, Exit(c, s) PROVE StatusInv'
  <2>1. /\ pc[c] = "user" /\ arg' = arg /\ success' = success /\ waited' = waited
    BY <1>10 DEF Exit, At, caller, child
  <2>2. pc'[c] = "exit_test" /\ \A q \in All \ {c} : pc'[q] = pc[q]
    BY <1>0, <1>10 DEF Exit, Goto, StartType
  <2>3. code'[c] = s /\ \A d \in Proc \ {c} : code'[d] = code[d]
    BY <1>0, <1>10 DEF Exit, TreeType
  <2>4. /\ \A d \in Proc : info'[d].exited = info[d].exited
        /\ \A d \in Proc : info'[d].wait_exit_sema = info[d].wait_exit_sema
        /\ \A d \in Proc \ {c} : info'[d].exit_status = info[d].exit_status
        /\ info'[c].exit_status = s
    BY <1>0, <1>10 DEF Exit, StartType, Info
  <2>5. \A q \in All : (Leaving(q) => Leaving(q)') /\ (Exited(q) <=> Exited(q)')
    BY <2>1, <2>2 DEF Leaving, Exited
  <2>6. \A d \in Proc : InfoSet(d)' <=> InfoSet(d)
    BY <2>1, <2>2 DEF InfoSet
  <2>7. Leaving(c)' /\ ~ Exited(c)
    BY <2>1, <2>2 DEF Leaving, Exited
  <2>8. \A d \in Proc : success'[d] => pc'[d] # "none" /\ InfoSet(d)'
    BY <1>0, <2>1, <2>2, <2>6 DEF StatusInv
  <2>9. \A d \in Proc : ~ Leaving(d)' => code'[d] = -1
    BY <1>0, <2>3, <2>5, <2>7 DEF StatusInv
  <2>10. ASSUME NEW d \in Proc, InfoSet(d)', success'[d] \/ pc'[d] = "load"
         PROVE  /\ info'[d].exited <=> Exited(d)'
                /\ info'[d].exit_status = code'[d]
                /\ info'[d].wait_exit_sema > 0 => Exited(d)'
    <3>1. InfoSet(d) /\ (success[d] \/ pc[d] = "load")
      BY <2>1, <2>2, <2>6, <2>10
    <3> QED
      BY <1>0, <2>3, <2>4, <2>5, <3>1 DEF StatusInv
  <2>11. ASSUME NEW q \in All, pc'[q] = "wait_get" PROVE info'[arg'[q]].exited
    <3>1. pc[q] = "wait_get" /\ arg'[q] = arg[q] /\ arg[q] \in Proc
      BY <1>b, <2>1, <2>2, <2>11
    <3> QED
      BY <1>0, <2>4, <3>1 DEF StatusInv
  <2>12. \A d \in Proc : waited'[d] # None => waited'[d] = code'[d] /\ Exited(d)'
    BY <1>0, <2>1, <2>3, <2>5, <2>7 DEF StatusInv
  <2> QED
    BY <2>8, <2>9, <2>10, <2>11, <2>12 DEF StatusInv, InfoSet, Leaving, Exited
<1>11. ASSUME NEW c \in Proc, LoadNoMemory(c) PROVE StatusInv'
  <2>1. pc[c] = "load" /\ arg' = arg /\ info' = info /\ waited' = waited /\ code' = code
    BY <1>11 DEF LoadNoMemory, At, caller, ghosts
  <2>2. pc'[c] = "set_tid" /\ \A q \in All \ {c} : pc'[q] = pc[q]
    BY <1>0, <1>11 DEF LoadNoMemory, Goto, StartType
  <2>3. success'[c] = FALSE /\ \A d \in Proc \ {c} : success'[d] = success[d]
    BY <1>0, <1>11 DEF LoadNoMemory, StartType
  <2>4. success'[c] => InfoSet(c)
    BY <2>3
  <2>5. \A q \in All : (Leaving(q)' <=> Leaving(q)) /\ (Exited(q)' <=> Exited(q))
    BY <2>1, <2>2 DEF Leaving, Exited
  <2>6. \A d \in Proc : InfoSet(d)' <=> InfoSet(d)
    BY <2>1, <2>2 DEF InfoSet
  <2>7. \A d \in Proc : success'[d] => pc'[d] # "none" /\ InfoSet(d)'
    BY <1>0, <2>2, <2>3, <2>4, <2>6 DEF StatusInv
  <2>8. \A d \in Proc : ~ Leaving(d)' => code'[d] = -1
    BY <1>0, <2>1, <2>5 DEF StatusInv
  <2>9. ASSUME NEW d \in Proc, InfoSet(d)', success'[d] \/ pc'[d] = "load"
        PROVE  /\ info'[d].exited <=> Exited(d)'
               /\ info'[d].exit_status = code'[d]
               /\ info'[d].wait_exit_sema > 0 => Exited(d)'
    <3>1. InfoSet(d) /\ (success[d] \/ pc[d] = "load")
      BY <2>1, <2>2, <2>3, <2>6, <2>9
    <3> QED
      BY <1>0, <2>1, <2>5, <3>1 DEF StatusInv
  <2>10. \A q \in All : pc'[q] = "wait_get" => info'[arg'[q]].exited
    BY <1>0, <2>1, <2>2 DEF StatusInv
  <2>11. \A d \in Proc : waited'[d] # None => waited'[d] = code'[d] /\ Exited(d)'
    BY <1>0, <2>1, <2>5 DEF StatusInv
  <2> QED
    BY <2>7, <2>8, <2>9, <2>10, <2>11 DEF StatusInv, InfoSet, Leaving, Exited
<1>12. ASSUME NEW c \in Proc, NEW ok \in BOOLEAN, Load(c, ok) PROVE StatusInv'
  <2>1. pc[c] = "load" /\ arg' = arg /\ info' = info /\ waited' = waited /\ code' = code
    BY <1>12 DEF Load, At, caller, ghosts
  <2>2. pc'[c] = "set_tid" /\ \A q \in All \ {c} : pc'[q] = pc[q]
    BY <1>0, <1>12 DEF Load, Goto, StartType
  <2>3. success'[c] = ok /\ \A d \in Proc \ {c} : success'[d] = success[d]
    BY <1>0, <1>12 DEF Load, StartType
  <2>4. success'[c] => InfoSet(c)
    BY <1>0, <1>12 DEF Load, HandshakeInv, Parenting, InfoSet
  <2>5. \A q \in All : (Leaving(q)' <=> Leaving(q)) /\ (Exited(q)' <=> Exited(q))
    BY <2>1, <2>2 DEF Leaving, Exited
  <2>6. \A d \in Proc : InfoSet(d)' <=> InfoSet(d)
    BY <2>1, <2>2 DEF InfoSet
  <2>7. \A d \in Proc : success'[d] => pc'[d] # "none" /\ InfoSet(d)'
    BY <1>0, <2>2, <2>3, <2>4, <2>6 DEF StatusInv
  <2>8. \A d \in Proc : ~ Leaving(d)' => code'[d] = -1
    BY <1>0, <2>1, <2>5 DEF StatusInv
  <2>9. ASSUME NEW d \in Proc, InfoSet(d)', success'[d] \/ pc'[d] = "load"
        PROVE  /\ info'[d].exited <=> Exited(d)'
               /\ info'[d].exit_status = code'[d]
               /\ info'[d].wait_exit_sema > 0 => Exited(d)'
    <3>1. InfoSet(d) /\ (success[d] \/ pc[d] = "load")
      BY <2>1, <2>2, <2>3, <2>6, <2>9
    <3> QED
      BY <1>0, <2>1, <2>5, <3>1 DEF StatusInv
  <2>10. \A q \in All : pc'[q] = "wait_get" => info'[arg'[q]].exited
    BY <1>0, <2>1, <2>2 DEF StatusInv
  <2>11. \A d \in Proc : waited'[d] # None => waited'[d] = code'[d] /\ Exited(d)'
    BY <1>0, <2>1, <2>5 DEF StatusInv
  <2> QED
    BY <2>7, <2>8, <2>9, <2>10, <2>11 DEF StatusInv, InfoSet, Leaving, Exited
<1>13. ASSUME NEW c \in Proc, SetTid(c) PROVE StatusInv'
  <2>1. /\ pc[c] = "set_tid" /\ success' = success /\ code' = code /\ waited' = waited
    BY <1>13 DEF SetTid, At, caller, child, ghosts
  <2>2. pc'[c] \in {"start_up"} /\ \A q \in All \ {c} : pc'[q] = pc[q] /\ arg'[q] = arg[q]
    BY <1>0, <1>13 DEF SetTid, Goto, At, caller, StartType
  <2>3. \A d \in Proc : /\ info'[d].exited = info[d].exited
                        /\ info'[d].exit_status = info[d].exit_status
                        /\ info'[d].wait_exit_sema > 0 => info[d].wait_exit_sema > 0 \/ Exited(d)
    BY <1>0, <1>13, <2>1 DEF SetTid, StartType, Info
  <2>4. (Leaving(c) => Leaving(c)') /\ (Exited(c) <=> Exited(c)')
    BY <2>1, <2>2 DEF Leaving, Exited
  <2> QED
    BY <1>0, <1>b, <2>1, <2>2, <2>3, <2>4, StatusMove
<1>14. ASSUME NEW c \in Proc, StartUp(c) PROVE StatusInv'
  <2>1. /\ pc[c] = "start_up" /\ success' = success /\ code' = code /\ waited' = waited
    BY <1>14 DEF StartUp, At, caller, child, ghosts
  <2>2. pc'[c] \in {"user", "exit_test"} /\ \A q \in All \ {c} : pc'[q] = pc[q] /\ arg'[q] = arg[q]
    BY <1>0, <1>14 DEF StartUp, Goto, At, caller, StartType
  <2>3. \A d \in Proc : /\ info'[d].exited = info[d].exited
                        /\ info'[d].exit_status = info[d].exit_status
                        /\ info'[d].wait_exit_sema > 0 => info[d].wait_exit_sema > 0 \/ Exited(d)
    BY <1>0, <1>14, <2>1 DEF StartUp, StartType, Info
  <2>4. (Leaving(c) => Leaving(c)') /\ (Exited(c) <=> Exited(c)')
    BY <2>1, <2>2 DEF Leaving, Exited
  <2> QED
    BY <1>0, <1>b, <2>1, <2>2, <2>3, <2>4, StatusMove
<1>15. ASSUME NEW c \in Proc, FileReturn(c) PROVE StatusInv'
  <2>1. /\ pc[c] = "file" /\ success' = success /\ code' = code /\ waited' = waited
    BY <1>15 DEF FileReturn, At, caller, child, ghosts
  <2>2. pc'[c] \in {"user"} /\ \A q \in All \ {c} : pc'[q] = pc[q] /\ arg'[q] = arg[q]
    BY <1>0, <1>15 DEF FileReturn, Goto, At, caller, StartType
  <2>3. \A d \in Proc : /\ info'[d].exited = info[d].exited
                        /\ info'[d].exit_status = info[d].exit_status
                        /\ info'[d].wait_exit_sema > 0 => info[d].wait_exit_sema > 0 \/ Exited(d)
    BY <1>0, <1>15, <2>1 DEF FileReturn
  <2>4. (Leaving(c) => Leaving(c)') /\ (Exited(c) <=> Exited(c)')
    BY <2>1, <2>2 DEF Leaving, Exited
  <2> QED
    BY <1>0, <1>b, <2>1, <2>2, <2>3, <2>4, StatusMove
<1>16. ASSUME NEW c \in Proc, ExitTest(c) PROVE StatusInv'
  <2>1. /\ pc[c] = "exit_test" /\ success' = success /\ code' = code /\ waited' = waited
    BY <1>16 DEF ExitTest, At, caller, child, ghosts
  <2>2. pc'[c] \in {"exit_test", "set_exited", "exit_orphan"} /\ \A q \in All \ {c} : pc'[q] = pc[q] /\ arg'[q] = arg[q]
    BY <1>0, <1>16 DEF ExitTest, Goto, At, caller, StartType
  <2>3. \A d \in Proc : /\ info'[d].exited = info[d].exited
                        /\ info'[d].exit_status = info[d].exit_status
                        /\ info'[d].wait_exit_sema > 0 => info[d].wait_exit_sema > 0 \/ Exited(d)
    <3>1. PICK x : info' = info \/ info' = [info EXCEPT ![x].block = "freed"]
      BY <1>16 DEF ExitTest, free
    <3> QED
      BY <1>0, <3>1 DEF StartType, Info
  <2>4. (Leaving(c) => Leaving(c)') /\ (Exited(c) <=> Exited(c)')
    BY <2>1, <2>2 DEF Leaving, Exited
  <2> QED
    BY <1>0, <1>b, <2>1, <2>2, <2>3, <2>4, StatusMove
<1>17. ASSUME NEW c \in Proc, ExitOrphan(c) PROVE StatusInv'
  <2>1. /\ pc[c] = "exit_orphan" /\ success' = success /\ code' = code /\ waited' = waited
    BY <1>17 DEF ExitOrphan, At, caller, child, ghosts
  <2>2. pc'[c] \in {"exit_next"} /\ \A q \in All \ {c} : pc'[q] = pc[q] /\ arg'[q] = arg[q]
    BY <1>0, <1>17 DEF ExitOrphan, Goto, At, caller, StartType
  <2>3. \A d \in Proc : /\ info'[d].exited = info[d].exited
                        /\ info'[d].exit_status = info[d].exit_status
                        /\ info'[d].wait_exit_sema > 0 => info[d].wait_exit_sema > 0 \/ Exited(d)
    BY <1>0, <1>17, <2>1 DEF ExitOrphan, StartType, Info
  <2>4. (Leaving(c) => Leaving(c)') /\ (Exited(c) <=> Exited(c)')
    BY <2>1, <2>2 DEF Leaving, Exited
  <2> QED
    BY <1>0, <1>b, <2>1, <2>2, <2>3, <2>4, StatusMove
<1>18. ASSUME NEW c \in Proc, ExitNext(c) PROVE StatusInv'
  <2>1. /\ pc[c] = "exit_next" /\ success' = success /\ code' = code /\ waited' = waited
    BY <1>18 DEF ExitNext, Faults, At, caller, child, ghosts
  <2>2. pc'[c] \in {"exit_next", "exit_test"} /\ \A q \in All \ {c} : pc'[q] = pc[q] /\ arg'[q] = arg[q]
    BY <1>0, <1>18 DEF ExitNext, Faults, Goto, At, caller, StartType
  <2>3. \A d \in Proc : /\ info'[d].exited = info[d].exited
                        /\ info'[d].exit_status = info[d].exit_status
                        /\ info'[d].wait_exit_sema > 0 => info[d].wait_exit_sema > 0 \/ Exited(d)
    BY <1>0, <1>18, <2>1 DEF ExitNext, Faults
  <2>4. (Leaving(c) => Leaving(c)') /\ (Exited(c) <=> Exited(c)')
    BY <2>1, <2>2 DEF Leaving, Exited
  <2> QED
    BY <1>0, <1>b, <2>1, <2>2, <2>3, <2>4, StatusMove
<1>19. ASSUME NEW c \in Proc, SetExited(c) PROVE StatusInv'
  <2>a. CASE pc' = pc /\ info' = info
    <3>1. pc[c] = "set_exited" /\ arg' = arg /\ success' = success /\ waited' = waited /\ code' = code
      BY <1>19 DEF SetExited, Faults, At, caller, child, ghosts
    <3> QED
      BY <1>0, <2>a, <3>1 DEF StatusInv, InfoSet, Leaving, Exited
  <2>b. CASE info' = [info EXCEPT ![c].exited = TRUE] /\ pc' = [pc EXCEPT ![c] = "exit_up"]
    <3>1. pc[c] = "set_exited" /\ arg' = arg /\ success' = success /\ waited' = waited /\ code' = code
      BY <1>19 DEF SetExited, Faults, At, caller, child, ghosts
    <3>2. pc'[c] = "exit_up" /\ \A q \in All \ {c} : pc'[q] = pc[q]
      BY <1>0, <2>b DEF StartType
    <3>3. /\ info'[c].exited /\ \A d \in Proc \ {c} : info'[d].exited = info[d].exited
          /\ \A d \in Proc : info'[d].exit_status = info[d].exit_status
          /\ \A d \in Proc : info'[d].wait_exit_sema = info[d].wait_exit_sema
      BY <1>0, <2>b DEF StartType, Info
    <3>4. \A q \in All : (Leaving(q)' <=> Leaving(q)) /\ (Exited(q) => Exited(q)')
      BY <3>1, <3>2 DEF Leaving, Exited
    <3>5. Exited(c)' /\ \A q \in All \ {c} : Exited(q)' <=> Exited(q)
      BY <3>2 DEF Exited
    <3>6. \A d \in Proc : InfoSet(d)' <=> InfoSet(d)
      BY <3>1, <3>2 DEF InfoSet
    <3>7. \A d \in Proc : success'[d] => pc'[d] # "none" /\ InfoSet(d)'
      BY <1>0, <3>1, <3>2, <3>6 DEF StatusInv
    <3>8. \A d \in Proc : ~ Leaving(d)' => code'[d] = -1
      BY <1>0, <3>1, <3>4 DEF StatusInv
    <3>9. ASSUME NEW d \in Proc, InfoSet(d)', success'[d] \/ pc'[d] = "load"
          PROVE  /\ info'[d].exited <=> Exited(d)'
                 /\ info'[d].exit_status = code'[d]
                 /\ info'[d].wait_exit_sema > 0 => Exited(d)'
      <4>1. InfoSet(d) /\ (success[d] \/ pc[d] = "load")
        BY <3>1, <3>2, <3>6, <3>9
      <4> QED
        BY <1>0, <3>1, <3>3, <3>4, <3>5, <4>1 DEF StatusInv
    <3>10. ASSUME NEW q \in All, pc'[q] = "wait_get" PROVE info'[arg'[q]].exited
      <4>1. pc[q] = "wait_get" /\ arg'[q] = arg[q] /\ arg[q] \in Proc
        BY <1>b, <3>1, <3>2, <3>10
      <4> QED
        BY <1>0, <3>3, <4>1 DEF StatusInv
    <3>11. \A d \in Proc : waited'[d] # None => waited'[d] = code'[d] /\ Exited(d)'
      BY <1>0, <3>1, <3>4 DEF StatusInv
    <3> QED
      BY <3>7, <3>8, <3>9, <3>10, <3>11 DEF StatusInv, InfoSet, Leaving, Exited
  <2> QED
    BY <1>19, <2>a, <2>b DEF SetExited, Faults, Goto
<1>20. ASSUME NEW c \in Proc, ExitUp(c) PROVE StatusInv'
  <2>1. /\ pc[c] = "exit_up" /\ success' = success /\ code' = code /\ waited' = waited
    BY <1>20 DEF ExitUp, Faults, At, caller, child, ghosts
  <2>2. pc'[c] \in {"exit_up", "exit_free"} /\ \A q \in All \ {c} : pc'[q] = pc[q] /\ arg'[q] = arg[q]
    BY <1>0, <1>20 DEF ExitUp, Faults, Goto, At, caller, StartType
  <2>3. \A d \in Proc : /\ info'[d].exited = info[d].exited
                        /\ info'[d].exit_status = info[d].exit_status
                        /\ info'[d].wait_exit_sema > 0 => info[d].wait_exit_sema > 0 \/ Exited(d)
    BY <1>0, <1>20, <2>1 DEF ExitUp, Faults, exit_up, Exited, StartType, Info
  <2>4. (Leaving(c) => Leaving(c)') /\ (Exited(c) <=> Exited(c)')
    BY <2>1, <2>2 DEF Leaving, Exited
  <2> QED
    BY <1>0, <1>b, <2>1, <2>2, <2>3, <2>4, StatusMove
<1>21. ASSUME NEW c \in Proc, ExitFree(c) PROVE StatusInv'
  <2>1. /\ pc[c] = "exit_free" /\ success' = success /\ code' = code /\ waited' = waited
    BY <1>21 DEF ExitFree, Faults, At, caller, child, ghosts
  <2>2. pc'[c] \in {"exit_free", "close"} /\ \A q \in All \ {c} : pc'[q] = pc[q] /\ arg'[q] = arg[q]
    BY <1>0, <1>21 DEF ExitFree, Faults, Goto, At, caller, StartType
  <2>3. \A d \in Proc : /\ info'[d].exited = info[d].exited
                        /\ info'[d].exit_status = info[d].exit_status
                        /\ info'[d].wait_exit_sema > 0 => info[d].wait_exit_sema > 0 \/ Exited(d)
    BY <1>0, <1>21, <2>1 DEF ExitFree, Faults, free, StartType, Info
  <2>4. (Leaving(c) => Leaving(c)') /\ (Exited(c) <=> Exited(c)')
    BY <2>1, <2>2 DEF Leaving, Exited
  <2> QED
    BY <1>0, <1>b, <2>1, <2>2, <2>3, <2>4, StatusMove
<1>22. ASSUME NEW c \in Proc, CloseFiles(c) PROVE StatusInv'
  <2>1. /\ pc[c] = "close" /\ success' = success /\ code' = code /\ waited' = waited
    BY <1>22 DEF CloseFiles, At, child, ghosts
  <2>2. pc'[c] \in {"dead"} /\ \A q \in All \ {c} : pc'[q] = pc[q] /\ arg'[q] = arg[q]
    BY <1>0, <1>22 DEF CloseFiles, Goto, At, caller, StartType
  <2>3. \A d \in Proc : /\ info'[d].exited = info[d].exited
                        /\ info'[d].exit_status = info[d].exit_status
                        /\ info'[d].wait_exit_sema > 0 => info[d].wait_exit_sema > 0 \/ Exited(d)
    BY <1>0, <1>22, <2>1 DEF CloseFiles
  <2>4. (Leaving(c) => Leaving(c)') /\ (Exited(c) <=> Exited(c)')
    BY <2>1, <2>2 DEF Leaving, Exited
  <2> QED
    BY <1>0, <1>b, <2>1, <2>2, <2>3, <2>4, StatusMove
<1>23. CASE UNCHANGED vars
  BY <1>0, <1>23 DEF vars, caller, child, files, ghosts, StatusInv, InfoSet, Leaving, Exited
<1> QED
  BY <1>1, <1>2, <1>3, <1>4, <1>5, <1>6, <1>7, <1>8, <1>9, <1>10, <1>11, <1>12, <1>13,
     <1>14, <1>15, <1>16, <1>17, <1>18, <1>19, <1>20, <1>21, <1>22, <1>23 DEF Next,
     Call, Act, Continue, ChildStep

LEMMA TreeInvariant == Spec => []TreeInv
<1>1. Init => TreeInv
  <2> SUFFICES ASSUME Init PROVE TreeInv
    OBVIOUS
  <2> USE ProcessAssumption
  <2>1. TreeType
    BY DEF Init, TreeType, Fault
  <2>2. ListedInv
    <3>1. \A p \in All : children[p] = <<>> /\ ~ Parenting(p) /\ pc[p] \notin {"wait_down", "wait_get"}
      BY DEF Init, Parenting
    <3>2. NoDup(<<>>)
      BY DEF NoDup
    <3> QED
      BY <3>1, <3>2, ListEmpty DEF ListedInv
  <2>3. BlockInv
    BY DEF Init, BlockInv, All
  <2>4. StatusInv
    <3>1. \A c \in Proc : ~ success[c] /\ pc[c] = "none" /\ code[c] = -1 /\ waited[c] = None
      BY DEF Init, All
    <3>2. \A p \in All : pc[p] # "wait_get"
      BY DEF Init
    <3> QED
      BY <3>1, <3>2 DEF StatusInv
  <2> QED
    BY <2>1, <2>2, <2>3, <2>4 DEF TreeInv
<1>2. StartInv /\ TreeInv /\ [Next]_vars => TreeInv'
  <2> SUFFICES ASSUME StartInv, TreeInv, [Next]_vars PROVE TreeInv'
    OBVIOUS
  <2>1. TreeType'
    BY TreeTypePreserved DEF StartInv, TreeInv
  <2> QED
    BY <2>1, ListedPreserved, BlockPreserved, StatusPreserved DEF TreeInv
<1> QED
  BY <1>1, <1>2, StartInvariant, PTL DEF Spec

\* Every variable of the process code keeps its type, for any number of
\* processes: no list of children holds anything but processes, no semaphore
\* goes below zero, and wait stores only statuses.
THEOREM ProcessTyped == Spec => []TypeOK
<1>1. StartInv /\ TreeInv => TypeOK
  BY DEF StartInv, StartType, TreeInv, TreeType, TypeOK
<1> QED
  BY <1>1, StartInvariant, TreeInvariant, PTL

\* While a process runs, its list of children holds each child that it created
\* and has not waited for once, with a block that nobody has freed: process_wait
\* finds the blocks it walks over valid, and delivers no status twice.
THEOREM ChildListsValid == Spec => []ChildrenValid
<1>1. TreeInv => ChildrenValid
  <2> SUFFICES ASSUME TreeInv, NEW p \in All,
                      pc[p] \notin {"exit_test", "exit_orphan", "exit_next", "set_exited",
                                    "exit_up", "exit_free", "close", "dead"},
                      NEW i \in DOMAIN children[p]
               PROVE  /\ info[children[p][i]].block = "live"
                      /\ \A j \in DOMAIN children[p] : children[p][i] = children[p][j] => i = j
                      /\ parent[children[p][i]] = p
    BY DEF ChildrenValid
  <2>1. children[p] \in Seq(Proc) /\ DOMAIN children[p] = 1..Len(children[p])
    BY LenProperties DEF TreeInv, TreeType
  <2>2. children[p][i] \in Proc /\ OnList(children[p][i], children[p])
    BY <2>1, ElementOfSeq DEF OnList
  <2>3. ~ Leaving(p)
    BY DEF Leaving, Exited
  <2>4. NoDup(children[p])
    BY DEF TreeInv, ListedInv
  <2>5. info[children[p][i]].block = "live" /\ parent[children[p][i]] = p
    BY <2>2, <2>3 DEF TreeInv, ListedInv
  <2> QED
    BY <2>1, <2>4, <2>5 DEF NoDup
<1> QED
  BY <1>1, TreeInvariant, PTL

\* wait returns only for a child that has exited, and returns the status that
\* this child passed to exit, however exits and waits interleave.
THEOREM WaitTellsTheTruth == Spec => []WaitTruthful
<1>1. TreeInv => WaitTruthful
  BY DEF TreeInv, StatusInv, Exited, WaitTruthful
<1> QED
  BY <1>1, TreeInvariant, PTL
=============================================================================
