------------------------------- MODULE Ledger -------------------------------
(***************************************************************************)
(* What a chain controller promises the rest of the node, whatever it does *)
(* to keep the promise: it is always at the tip of one valid chain, the    *)
(* blocks it has declared irreversible are the first blocks of that chain, *)
(* and a block once irreversible stays so.  How the tip is reached (a new  *)
(* block, a switch to a longer fork, a pop, a restart that replays the     *)
(* log) is the business of ChainController, which is shown to implement    *)
(* this specification.                                                     *)
(***************************************************************************)
EXTENDS Naturals, Sequences, SequencesExt

CONSTANT Chains   \* the valid chains, each the sequence of its blocks

VARIABLES
    head,          \* the chain the node is at the tip of
    irreversible   \* the first blocks of it that can no more be undone

vars == <<head, irreversible>>

TypeOK ==
    /\ head \in Chains \cup {<<>>}
    /\ IsPrefix(irreversible, head)

Init ==
    /\ head = <<>>
    /\ irreversible = <<>>

(***************************************************************************)
(* The node moves to the tip of a valid chain on which the first n blocks  *)
(* are irreversible; they include those that were so before.               *)
(***************************************************************************)
MoveTo(chain, n) ==
    /\ IsPrefix(irreversible, SubSeq(chain, 1, n))
    /\ head' = chain
    /\ irreversible' = SubSeq(chain, 1, n)

Next == \E chain \in Chains \cup {<<>>} : \E n \in 0 .. Len(chain) : MoveTo(chain, n)

Spec == Init /\ [][Next]_vars

=============================================================================
