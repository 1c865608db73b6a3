-------------------------------- MODULE Shell --------------------------------
(***************************************************************************)
(* The shell of operating-system/hw1: its loop, its children and who has   *)
(* the terminal.  The steps of a child between fork and exec run beside    *)
(* the shell; the user types ^C and ^Z at the foreground group.            *)
(*                                                                         *)
(* A line is abstracted to its kind: a built-in that leaves everything as  *)
(* it is (?, pwd, cd), quit, wait, or a program, by path (dirfunc) or by   *)
(* name (genfunc), with or without &, that exists or not.                  *)
(***************************************************************************)
EXTENDS Integers, FiniteSets

CONSTANT ShellPid   \* the children the shell may fork

VARIABLES
    sh_pc,      \* "prompt", "foreground", "background", "wait" or "quit"
    sh_last,    \* the child forked last
    sh_child,   \* [state, bg, found] of each child
    sh_tty      \* the process group that has the terminal: "shell" or a child

shellVars == <<sh_pc, sh_last, sh_child, sh_tty>>
Children(states) == {p \in ShellPid : sh_child[p].state \in states}
-----------------------------------------------------------------------------
\* The loop of shell: lookup in cmd_table.  The end of the input, or a fork that
\* fails, ends the shell like quit.
cmd_quit ==
    /\ sh_pc = "prompt" /\ sh_pc' = "quit"
    /\ UNCHANGED <<sh_last, sh_child, sh_tty>>
cmd_wait ==
    /\ sh_pc = "prompt" /\ sh_pc' = "wait"
    /\ UNCHANGED <<sh_last, sh_child, sh_tty>>
\* while (wait (&status)): the loop takes the -1 that says "no child" for a child.
cmd_wait_loop(p) ==
    /\ sh_pc = "wait" /\ sh_child[p].state = "zombie"
    /\ sh_child' = [sh_child EXCEPT ![p].state = "reaped"]
    /\ UNCHANGED <<sh_pc, sh_last, sh_tty>>

\* ind: where isDirectTok finds the &, or -1; a & alone is the name of a program.
is_background(ind) == ind > 0

\* dirfunc and genfunc up to fork.
fork(p, ind, found) ==
    /\ sh_pc = "prompt" /\ sh_child[p].state = "free"
    /\ sh_child' = [sh_child EXCEPT ![p] = [state |-> "forked", bg |-> is_background(ind), found |-> found]]
    /\ sh_last' = p
    /\ sh_pc' = IF is_background(ind) THEN "background" ELSE "foreground"
    /\ UNCHANGED sh_tty

\* Faulty: the shell leaves the terminal to the child.
setctrl_not(me) == UNCHANGED sh_tty
setctrl(me) == sh_tty' = me

\* waitpid with WUNTRACED, for a program without &; then setctrl.
parent ==
    /\ \/ sh_pc = "background" /\ UNCHANGED sh_child
       \/ /\ sh_pc = "foreground" /\ sh_child[sh_last].state \in {"zombie", "stopped"}
          /\ sh_child' = [sh_child EXCEPT ![sh_last].state = IF @ = "zombie" THEN "reaped" ELSE @]
    /\ setctrl("shell")
    /\ sh_pc' = "prompt"
    /\ UNCHANGED sh_last
-----------------------------------------------------------------------------
\* The child: its own group, the terminal and the default signals when in the
\* foreground, and exec.  A program that is not found is the end of it.
child(p) ==
    /\ sh_child[p].state = "forked"
    /\ IF sh_child[p].bg THEN UNCHANGED sh_tty ELSE sh_tty' = p
    /\ sh_child' = [sh_child EXCEPT ![p].state = IF sh_child[p].found THEN "running" ELSE "zombie"]
    /\ UNCHANGED <<sh_pc, sh_last>>
exits(p) ==
    /\ sh_child[p].state = "running"
    /\ sh_child' = [sh_child EXCEPT ![p].state = "zombie"]
    /\ UNCHANGED <<sh_pc, sh_last, sh_tty>>
\* The shell ignores these signals, its foreground child does not.
interrupt(p) == sh_tty = p /\ exits(p)
suspend(p) ==
    /\ sh_tty = p /\ sh_child[p].state = "running"
    /\ sh_child' = [sh_child EXCEPT ![p].state = "stopped"]
    /\ UNCHANGED <<sh_pc, sh_last, sh_tty>>
-----------------------------------------------------------------------------
\* init_shell takes the terminal.
ShellInit ==
    /\ sh_pc = "prompt" /\ sh_last = CHOOSE p \in ShellPid : TRUE
    /\ sh_child = [p \in ShellPid |-> [state |-> "free", bg |-> FALSE, found |-> FALSE]]
    /\ sh_tty = "shell"
ShellNext ==
    \/ cmd_quit \/ cmd_wait \/ parent
    \/ \E p \in ShellPid : cmd_wait_loop(p) \/ child(p) \/ exits(p) \/ interrupt(p) \/ suspend(p)
                           \/ \E ind \in -1..1, found \in BOOLEAN : fork(p, ind, found)
ShellSpec == ShellInit /\ [][ShellNext]_shellVars
-----------------------------------------------------------------------------
(***************************************************************************)
(* Properties.                                                             *)
(***************************************************************************)

ShellTypeOK ==
    /\ sh_pc \in {"prompt", "foreground", "background", "wait", "quit"}
    /\ sh_child \in [ShellPid -> [state : {"free", "forked", "running", "stopped", "zombie", "reaped"},
                                  bg : BOOLEAN, found : BOOLEAN]]
    /\ sh_tty \in ShellPid \cup {"shell"}

\* At the prompt the shell has the terminal, and no child still runs that could
\* take it: what was started without & has ended or is stopped, in whatever order
\* shell and child ran after fork.
PromptHasTerminal ==
    /\ ShellTypeOK
    /\ sh_pc \in {"prompt", "wait"} =>
        /\ sh_tty = "shell"
        /\ \A p \in Children({"forked", "running"}) : sh_child[p].bg
=============================================================================
