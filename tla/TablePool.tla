----------------------------- MODULE TablePool -----------------------------
(***************************************************************************)
(* What the configurations of SHTns may assume of the tables they share,   *)
(* without a word on how sharing is found or counted: a pool of blocks,    *)
(* each with the set of clients that hold it.  A block is allocated        *)
(* exactly while a client holds it, a step is made by one client, it never *)
(* changes what the others hold, and a block that another client holds     *)
(* keeps its content.                                                      *)
(***************************************************************************)
CONSTANTS Client, Block, Content, Free

VARIABLES
  holders,    \* holders[b]: the clients that refer to block b
  content     \* content[b]: what block b contains, Free if not allocated

vars == <<holders, content>>

Init ==
  /\ holders = [b \in Block |-> {}]
  /\ content = [b \in Block |-> Free]

Step(c) ==
  /\ holders' \in [Block -> SUBSET Client]
  /\ content' \in [Block -> Content \cup {Free}]
  /\ \A b \in Block :
       /\ holders'[b] \ {c} = holders[b] \ {c}
       /\ (content'[b] = Free) <=> (holders'[b] = {})
       /\ holders[b] \ {c} # {} => content'[b] = content[b]

Next == \E c \in Client : Step(c)

Spec == Init /\ [][Next]_vars
=============================================================================
