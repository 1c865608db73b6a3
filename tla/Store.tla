------------------------------- MODULE Store -------------------------------
(***************************************************************************)
(* What the file system expects of the disk it sees through cache_read and *)
(* cache_write (filesys/buffer-cache.c): an array of sectors.  An access   *)
(* takes effect in one step between its call and its return: a read        *)
(* delivers the current content, a write changes one part of one sector,   *)
(* and nothing else ever changes the content.                              *)
(***************************************************************************)
CONSTANTS
    Client,   \* threads that read and write
    Access,   \* records with the fields kind, sector, part and data
    NoAccess, \* the access of a client that makes none
    Contents, \* contents of the sectors
    Values    \* contents of a part

VARIABLES
    content,  \* the sectors
    phase,    \* whether a client's access is idle, called or done
    access,   \* the access
    out       \* what the last read of each client delivered

vars == <<content, phase, access, out>>

Init ==
    /\ content \in Contents
    /\ phase = [u \in Client |-> "idle"]
    /\ access = [u \in Client |-> NoAccess]
    /\ out \in [Client -> Values]

Begin(u, a) ==
    /\ phase[u] = "idle"
    /\ phase' = [phase EXCEPT ![u] = "called"]
    /\ access' = [access EXCEPT ![u] = a]
    /\ UNCHANGED <<content, out>>

Read(u) ==
    LET a == access[u] IN
    /\ phase[u] = "called" /\ a.kind = "read"
    /\ out' = [out EXCEPT ![u] = content[a.sector][a.part]]
    /\ phase' = [phase EXCEPT ![u] = "done"]
    /\ UNCHANGED <<content, access>>

Write(u) ==
    LET a == access[u] IN
    /\ phase[u] = "called" /\ a.kind = "write"
    /\ content' = [content EXCEPT ![a.sector] = [@ EXCEPT ![a.part] = a.data]]
    /\ phase' = [phase EXCEPT ![u] = "done"]
    /\ UNCHANGED <<access, out>>

End(u) ==
    /\ phase[u] = "done"
    /\ phase' = [phase EXCEPT ![u] = "idle"]
    /\ access' = [access EXCEPT ![u] = NoAccess]
    /\ UNCHANGED <<content, out>>

Next == \E u \in Client : \/ Read(u) \/ Write(u) \/ End(u)
                          \/ \E a \in Access : Begin(u, a)

Spec == Init /\ [][Next]_vars
=============================================================================
