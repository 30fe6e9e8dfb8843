------------------------------- MODULE MCFiles -------------------------------
(* Two tool calls on a workspace w with a directory d, and a directory o        *)
(* outside it, while another program writes files and swaps entries.            *)
EXTENDS Files

Absent == [kind |-> "none"]
F(i) == [kind |-> "file", to |-> i]
D(d) == [kind |-> "dir", to |-> d]
L(p, abs) == [kind |-> "link", to |-> p, abs |-> abs]
Empty == [n \in Names |-> Absent]
Tree0Table ==
  [d \in Dirs |->
     CASE d = "slash" -> [Empty EXCEPT !["w"] = D("ws"), !["o"] = D("out"), !["x"] = D("ext")]
       [] d = "ws" -> [Empty EXCEPT !["d"] = D("sub"), !["f"] = F(1)]
       [] d = "sub" -> [Empty EXCEPT !["f"] = F(2)]
       [] d = "out" -> [Empty EXCEPT !["f"] = F(3)]
       [] d = "ext" -> [Empty EXCEPT !["f"] = F(4)]
       [] OTHER -> Empty]
MCText0 == <<<<97, 98>>, <<97>>, <<98>>, <<97>>>>
MCRoot == <<"w">>
MCNone == <<>>
MCReadRoots == <<<<"x">>>>
MCPinned == <<"ws", "ext">>
MCPinnedWrite == <<"ws">>
SwapsTable ==
  {[dir |-> "ws", name |-> "d", to |-> L(<<"o">>, TRUE)],
   [dir |-> "ws", name |-> "d", to |-> L(<<"..", "o">>, FALSE)],
   [dir |-> "ws", name |-> "f", to |-> L(<<"d", "f">>, FALSE)],
   [dir |-> "ws", name |-> "f", to |-> Absent],
   [dir |-> "ws", name |-> "f", to |-> L(<<"x", "f">>, TRUE)],
   [dir |-> "slash", name |-> "w", to |-> D("out")]}

CallSymmetry == Permutations(Calls)

In(p) == [abs |-> FALSE, parts |-> p]
Ask(op, p, outside, old, new, parents) ==
  [op |-> op, path |-> In(p), outside |-> outside, old |-> old, new |-> new, all |-> FALSE, max |-> 2, parents |-> parents,
   limit |-> 2, wellFormed |-> TRUE]
RequestsTable ==
  {[Ask("read", <<"f">>, FALSE, <<>>, <<>>, FALSE) EXCEPT !.wellFormed = FALSE],
   Ask("read", <<"f">>, FALSE, <<>>, <<>>, FALSE),
   Ask("read", <<"d", "f">>, TRUE, <<>>, <<>>, FALSE),
   Ask("read", <<"..", "x", "f">>, FALSE, <<>>, <<>>, FALSE),
   Ask("edit", <<"f">>, FALSE, <<97>>, <<99>>, FALSE),
   Ask("truncate", <<"d", "f">>, FALSE, <<>>, <<99, 97>>, TRUE),
   Ask("append", <<"f">>, FALSE, <<>>, <<99, 97>>, FALSE),
   Ask("create", <<"d", "g">>, FALSE, <<>>, <<99, 97>>, TRUE),
   Ask("create", <<"f">>, FALSE, <<>>, <<97, 97, 99>>, FALSE)}

\* TLC evaluates the definitions above once.
MCTree0 == Tree0Table
MCRequests == RequestsTable
MCSwaps == SwapsTable

\* The text inputs are states of their own, without steps.
MCInit == Init /\ input \in {NoInput} \cup TextInputs
MCNext == input = NoInput /\ Next /\ UNCHANGED input
MCSpec == MCInit /\ [][MCNext]_<<vars, input>>
===============================================================================
