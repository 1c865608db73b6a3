------------------------------ MODULE MCParts ------------------------------
(***************************************************************************)
(* Instances of the parts that wait for nobody: files, memory, data        *)
(* structures and pure functions.  They share no state, so one run checks  *)
(* them side by side: a behaviour is a behaviour of the part that `part'   *)
(* names, chosen at the start, and the others do not move.                 *)
(***************************************************************************)
EXTENDS FileSys, Memory, Terminal, DList, HashTable, Strings, Numbers,
        Dhcp, Bgp, Shell

VARIABLE part
partsVars == <<part, vars, heapVars, vmVars, terminalVars, listVars, hashVars, stringsVars,
               numbersVars, dhcpVars, bgpVars, mmVars, shellVars>>

\* Symmetry: no part tells the names of files apart.
Symmetric == Permutations(Name)

\* AddressSpace: a program of one segment that starts in the middle of a page and
\* has more memory than file; two segments; two segments on one page; page zero.
Segment(o, v, f, m, w) == [offset |-> o, vaddr |-> v, filesz |-> f, memsz |-> m, w |-> w]
Executables ==
    { [segs |-> <<Segment(1, 3, 2, 4, TRUE)>>, length |-> 5],
      [segs |-> <<Segment(0, 2, 2, 2, FALSE), Segment(2, 4, 0, 1, TRUE)>>, length |-> 2],
      [segs |-> <<Segment(0, 2, 1, 1, FALSE), Segment(1, 3, 1, 1, TRUE)>>, length |-> 2],
      [segs |-> <<Segment(0, 0, 1, 1, FALSE)>>, length |-> 2] }

\* Terminal: a letter, a key with a second meaning, Del; and the shift keys.
Keys == (30 :> [plain |-> 65, shifted |-> 65]) @@ (2 :> [plain |-> 49, shifted |-> 33])
        @@ (83 :> [plain |-> 127, shifted |-> 127])
Shifts == (42 :> "shift") @@ (54 :> "shift") @@ (56 :> "alt") @@ (29 :> "ctrl") @@ (58 :> "caps")

\* DList: two elements are equal.
Values == [e \in ListElem |-> IF e \in {1, 2} THEN 1 ELSE e]

\* HashTable: five keys, one of them twice.
Elements == {[key |-> k, id |-> 1] : k \in 0..4} \cup {[key |-> 2, id |-> 2]}

\* Dhcp: two servers at one client, behind which there is another.
Both(a, b) == {<<a, b>>, <<b, a>>}
Links == Both("s1", "c1") \cup Both("s2", "c1") \cup Both("c1", "c2")
AddressBlocks == {[base |-> 5, shift |-> 1]}

\* Bgp: a line of customer, provider and customer, with prefixes to advertise.
Line == [neighbour |-> <<<<2>>, <<1, 3>>, <<2>>>>,
         relation |-> <<1, 2>> :> "CUSTOMER" @@ <<2, 1>> :> "PROVIDER"
                      @@ <<2, 3>> :> "PROVIDER" @@ <<3, 2>> :> "CUSTOMER",
         asset |-> <<<< <<7, 8>> >>, << <<7, 16>> >>, <<>>>>, clock |-> FALSE, lines |-> 2]
Lines == {Line}

PartsInit ==
    /\ part \in {"files", "heap", "vm", "terminal", "list", "hash", "strings", "numbers", "dhcp", "bgp",
               "mm", "shell"}
    /\ Init /\ HeapInit /\ VmInit /\ TerminalInit /\ ListInit /\ HashInit /\ StringsInit
    /\ NumbersInit /\ DhcpInit /\ BgpInit /\ MmInit /\ ShellInit
    /\ part # "terminal" => tm_cursor = <<0, 0>>

PartsNext ==
    \/ part = "files" /\ Next /\ UNCHANGED <<part, heapVars, vmVars, terminalVars, listVars,
                              hashVars, stringsVars, numbersVars, dhcpVars, bgpVars, mmVars, shellVars>>
    \/ part = "heap" /\ HeapNext /\ UNCHANGED <<part, vars, vmVars, terminalVars, listVars,
                              hashVars, stringsVars, numbersVars, dhcpVars, bgpVars, mmVars, shellVars>>
    \/ part = "vm" /\ VmNext /\ UNCHANGED <<part, vars, heapVars, terminalVars, listVars,
                              hashVars, stringsVars, numbersVars, dhcpVars, bgpVars, mmVars, shellVars>>
    \/ part = "terminal" /\ TerminalNext /\ UNCHANGED <<part, vars, heapVars, vmVars, listVars,
                              hashVars, stringsVars, numbersVars, dhcpVars, bgpVars, mmVars, shellVars>>
    \/ part = "list" /\ ListNext /\ UNCHANGED <<part, vars, heapVars, vmVars, terminalVars,
                              hashVars, stringsVars, numbersVars, dhcpVars, bgpVars, mmVars, shellVars>>
    \/ part = "hash" /\ HashNext /\ UNCHANGED <<part, vars, heapVars, vmVars, terminalVars,
                              listVars, stringsVars, numbersVars, dhcpVars, bgpVars, mmVars, shellVars>>
    \/ part = "strings" /\ StringsNext /\ UNCHANGED <<part, vars, heapVars, vmVars, terminalVars,
                              listVars, hashVars, numbersVars, dhcpVars, bgpVars, mmVars, shellVars>>
    \/ part = "numbers" /\ NumbersNext /\ UNCHANGED <<part, vars, heapVars, vmVars, terminalVars,
                              listVars, hashVars, stringsVars, dhcpVars, bgpVars, mmVars, shellVars>>
    \/ part = "dhcp" /\ DhcpNext /\ UNCHANGED <<part, vars, heapVars, vmVars, terminalVars,
                              listVars, hashVars, stringsVars, numbersVars, bgpVars, mmVars, shellVars>>
    \/ part = "bgp" /\ BgpNext /\ UNCHANGED <<part, vars, heapVars, vmVars, terminalVars,
                              listVars, hashVars, stringsVars, numbersVars, dhcpVars, mmVars, shellVars>>
    \/ part = "mm" /\ MmNext /\ UNCHANGED <<part, vars, heapVars, vmVars, terminalVars,
                              listVars, hashVars, stringsVars, numbersVars, dhcpVars, bgpVars, shellVars>>
    \/ part = "shell" /\ ShellNext /\ UNCHANGED <<part, vars, heapVars, vmVars, terminalVars,
                              listVars, hashVars, stringsVars, numbersVars, dhcpVars, bgpVars, mmVars>>

PartsSpec == PartsInit /\ [][PartsNext]_partsVars

\* The functions of lib/ compute what their comments say: lists, hash tables,
\* strings, arithmetic, formatting.
LibraryAgrees ==
    CASE part = "list" -> ListAgrees
      [] part = "hash" -> HashAgrees
      [] part = "strings" -> StringsAgree
      [] part = "numbers" -> NumbersAgree
      [] OTHER -> TRUE
=============================================================================
