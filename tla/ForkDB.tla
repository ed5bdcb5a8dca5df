------------------------------- MODULE ForkDB -------------------------------
(***************************************************************************)
(* The fork database: the unconfirmed blocks the node has seen, linked by  *)
(* previous id, and the tip it considers best.                             *)
(*                                                                         *)
(* A block id is the sequence of the block headers from the first block    *)
(* to this one: the hash of a header commits to the previous id, so an id  *)
(* determines the whole chain below it.  Hence previous_id is Front, the   *)
(* block number is Len, and the id of the empty chain, <<>>, is the zero   *)
(* id.  An id stands for its block as well.                                *)
(*                                                                         *)
(* A fork database is the record                                           *)
(*   [index, linked, head]:                                                *)
(* index the ids stored, linked the ids whose weak reference to the        *)
(* parent item is alive, head the best tip or NoBlock.  The code of the    *)
(* fork database is not part of the controller's source file; these        *)
(* operators follow the contract of the "Fork DB" and the use the          *)
(* controller makes of it.                                                 *)
(***************************************************************************)
EXTENDS Integers, Sequences, FiniteSets

CONSTANT NoBlock   \* an empty optional / null item

previous_id(id) == SubSeq(id, 1, Len(id) - 1)
block_num(id) == Len(id)

Empty == [index |-> {}, linked |-> {}, head |-> NoBlock]

is_known_block(f, id) == id \in f.index

(***************************************************************************)
(* Insert b, link it to its parent item if that is stored, and make it     *)
(* the head if there is none or b is higher.  A block of the head's        *)
(* height leaves the head alone.                                           *)
(***************************************************************************)
push_block(f, b) ==
    [f EXCEPT
       !.index  = @ \cup {b},
       !.linked = CASE b \in f.index              -> @
                    [] previous_id(b) \in f.index -> @ \cup {b}
                    [] OTHER                      -> @ \ {b},
       !.head   = IF f.head = NoBlock \/ block_num(b) > block_num(f.head)
                  THEN b ELSE @]

(***************************************************************************)
(* Restart the database at one block (used with the head of the log).      *)
(***************************************************************************)
start_block(f, b) ==
    [f EXCEPT !.index = {b}, !.linked = {}, !.head = b]

(***************************************************************************)
(* Erase an item.  The items that pointed to it lose their parent link;    *)
(* the head is not looked at.                                              *)
(***************************************************************************)
remove(f, id) ==
    [f EXCEPT !.index  = @ \ {id},
              !.linked = {c \in @ : previous_id(c) # id /\ (c # id \/ c = f.head)}]

set_head(f, id) == [f EXCEPT !.head = id]

(***************************************************************************)
(* The head moves to its parent item; the block stays stored, so that a    *)
(* later set_head or a fork switch can come back to it.                    *)
(***************************************************************************)
pop_block(f) ==
    [f EXCEPT !.head = IF f.head # NoBlock /\ f.head \in f.linked
                       THEN previous_id(f.head) ELSE NoBlock]

(***************************************************************************)
(* Keep the items not older than max_size blocks below the head.           *)
(***************************************************************************)
set_max_size(f, n) ==
    IF f.head = NoBlock THEN f
    ELSE LET kept == {id \in f.index : block_num(id) >= block_num(f.head) - n}
         IN  [f EXCEPT !.index  = kept,
                       !.linked = {c \in @ : /\ c \in kept \/ c = f.head
                                             /\ previous_id(c) \in kept}]

(***************************************************************************)
(* The ancestor of id at height n, reached over live parent links, or      *)
(* NoBlock.                                                                *)
(***************************************************************************)
ancestor_at(f, id, n) ==
    IF /\ id # NoBlock
       /\ n <= block_num(id)
       /\ \A k \in n + 1 .. block_num(id) : SubSeq(id, 1, k) \in f.linked
    THEN SubSeq(id, 1, n) ELSE NoBlock

(***************************************************************************)
(* The ids from tip down to height n + 1, tip first.                       *)
(***************************************************************************)
branch_above(tip, n) ==
    [i \in 1 .. block_num(tip) - n |-> SubSeq(tip, 1, block_num(tip) - i + 1)]

(***************************************************************************)
(* The height of the deepest block that is a proper ancestor of both.      *)
(***************************************************************************)
common_ancestor_num(first, second) ==
    LET shared == {k \in 0 .. block_num(first) :
                     /\ k < block_num(first) /\ k < block_num(second)
                     /\ SubSeq(first, 1, k) = SubSeq(second, 1, k)}
    IN  CHOOSE k \in shared : \A j \in shared : j <= k

(***************************************************************************)
(* Both branches, tip first, each ending at a child of the common          *)
(* ancestor.  ok is FALSE (no_common_ancestor) when a tip is not stored    *)
(* or a parent link on the way is dead.                                    *)
(***************************************************************************)
fetch_branch_from(f, first, second) ==
    IF {first, second} \subseteq f.index
    THEN LET n == common_ancestor_num(first, second)
             walkable(tip) ==
                \A k \in n + 2 .. block_num(tip) : SubSeq(tip, 1, k) \in f.linked
         IN  [ok     |-> walkable(first) /\ walkable(second),
              first  |-> branch_above(first, n),
              second |-> branch_above(second, n)]
    ELSE [ok |-> FALSE, first |-> <<>>, second |-> <<>>]

=============================================================================
