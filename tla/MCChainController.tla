-------------------------- MODULE MCChainController --------------------------
(***************************************************************************)
(* The chain controller with three producers, for model checking.          *)
(***************************************************************************)
EXTENDS ChainController

CONSTANTS pa, pb, pc

MCInitialProducers == <<pa, pb, pc>>

EmptyRegions == <<[region |-> 0, cycles_summary |-> << << <<>> >> >>]>>

(***************************************************************************)
(* The chain of empty blocks produced in the given slots, each by the      *)
(* producer the controller schedules for it: the first block of a chain    *)
(* leaves the absolute slot at 1 whatever its slot, and every later block  *)
(* adds the slots since its parent.  The tip has the Merkle roots in w     *)
(* wrong.                                                                  *)
(***************************************************************************)
Aslot(slots, i) == IF i = 1 THEN slots[1] ELSE 1 + slots[i] - slots[1]

ChainWith(slots, w) ==
    [i \in DOMAIN slots |->
        LET p == MCInitialProducers[(Aslot(slots, i) % Len(MCInitialProducers)) + 1]
        IN  [timestamp |-> GenesisTime + slots[i], producer |-> p, signee |-> p,
             new_producers |-> NoSchedule,
             wrong_mroots |-> IF i = Len(slots) THEN w ELSE {},
             regions |-> EmptyRegions, input_transactions |-> <<>>]]

Chain(slots) == ChainWith(slots, {})
BadTip(slots) == ChainWith(slots, {"action_mroot"})
BadBlockRoot(slots) == ChainWith(slots, {"block_mroot"})

(***************************************************************************)
(* The chain whose tip carries the signature of another producer than the  *)
(* one scheduled for its slot.                                             *)
(***************************************************************************)
ForgedTip(slots) ==
    [Chain(slots) EXCEPT
       ![Len(slots)].signee = CHOOSE p \in Range(MCInitialProducers) : p # @]

(***************************************************************************)
(* A chain of five blocks, a fork of three that leaves out slot 1, a block *)
(* on the first whose block Merkle root is wrong, at the start of a round, *)
(* and a block on the second that its producer did not sign.               *)
(***************************************************************************)
MCBlocks ==
    {Chain(<<1>>), Chain(<<1, 2>>), Chain(<<1, 2, 3>>), Chain(<<1, 2, 3, 4>>),
     Chain(<<1, 2, 3, 4, 5>>),
     Chain(<<2>>), Chain(<<2, 3>>), Chain(<<2, 3, 4>>),
     BadBlockRoot(<<1, 2, 3>>), ForgedTip(<<2, 3, 4>>)}

(***************************************************************************)
(* Two competing first blocks and a rejected second one, for the runs in   *)
(* which this node produces the blocks itself.                             *)
(***************************************************************************)
MCFewBlocks == {Chain(<<1>>), Chain(<<2>>), BadTip(<<1, 2>>)}

(***************************************************************************)
(* Both forks below a tip of height 3, and a checkpoint on each: the first *)
(* block of one, the second block of the other.                            *)
(***************************************************************************)
MCForkBlocks ==
    {Chain(<<1>>), Chain(<<1, 2>>), Chain(<<1, 2, 3>>),
     Chain(<<2>>), Chain(<<2, 3>>), BadTip(<<2, 3, 4>>)}

MCCheckpoints == {<<Chain(<<1>>)>>, [n \in {2} |-> Chain(<<2, 3>>)]}

(***************************************************************************)
(* One chain of six blocks in which the producer of slots 5 and 6 is       *)
(* absent, so that the irreversible block stays at 3 over two blocks.      *)
(***************************************************************************)
MCGapBlocks ==
    {SubSeq(Chain(<<1, 2, 3, 4, 7, 8>>), 1, n) : n \in 1 .. 6}

(***************************************************************************)
(* Transactions for push_transaction: one that writes pa's scope and       *)
(* generates a deferred transaction, one that reads it, one whose action   *)
(* throws, one that lacks a signature, one that pa authorizes and that     *)
(* declares the scope of pc only and one that reads the scope of an        *)
(* account that does not exist; and one that ranks the producers anew.     *)
(* The actions of each are sent to the account that authorizes it.         *)
(***************************************************************************)
Trx(id, actor, reads, votes) ==
    [id |-> id, actors |-> {actor}, throws |-> id = 5, votes |-> votes,
     deferred |-> IF id = 1 THEN {8} ELSE {},
     read_scope |-> reads, write_scope |-> {actor}, action_scopes |-> {actor},
     unsorted |-> FALSE,
     wrong_auths |-> IF id = 6 THEN {"missing_sigs"} ELSE {}]

MCTransactions ==
    {Trx(1, pa, {}, <<>>), Trx(2, pb, {pa}, <<>>), Trx(5, pb, {}, <<>>),
     Trx(6, pa, {}, <<>>),
     [Trx(4, pa, {}, <<>>) EXCEPT !.write_scope = {pc}],
     Trx(9, pb, {Nobody}, <<>>)}

(***************************************************************************)
(* A first block that carries transactions in one shard: the receipts are  *)
(* those of the ids given, the input transactions are trxs.                *)
(***************************************************************************)
Carrying(slot, ids, trxs) ==
    [Chain(<<slot>>) EXCEPT
       ![1].input_transactions = trxs,
       ![1].regions = <<[region |-> 0,
                         cycles_summary |->
                             << << [i \in DOMAIN ids |->
                                      [status |-> "executed", id |-> ids[i]]] >> >>]>>]

(***************************************************************************)
(* Blocks of other nodes with transactions: one whose second transaction   *)
(* throws, one that is valid and one with a receipt of a transaction the   *)
(* block does not carry.                                                   *)
(***************************************************************************)
MCLoadedBlocks ==
    {Carrying(1, <<1, 5>>, <<Trx(1, pa, {}, <<>>), Trx(5, pb, {}, <<>>)>>),
     Carrying(2, <<1, 2>>, <<Trx(1, pa, {}, <<>>), Trx(2, pb, {pa}, <<>>)>>),
     Carrying(2, <<1, 2>>, <<Trx(1, pa, {}, <<>>)>>)}

MCOneVote == {Trx(3, pc, {}, <<pb, pa, pc>>)}

MCSkipSignatures == {{}, {"skip_transaction_signatures"}}

MCTwoBlocks == {Chain(<<1>>), Chain(<<1, 2>>)}

(***************************************************************************)
(* Both forks, a block whose action Merkle root is wrong and the chain     *)
(* with the gap, for the run in which the node is stopped and started      *)
(* again.                                                                  *)
(***************************************************************************)
MCAllBlocks == MCBlocks \cup MCGapBlocks \cup {BadTip(<<1, 2, 3>>)}

-----------------------------------------------------------------------------
(* The abstract ledger                                                     *)

(***************************************************************************)
(* The chains of the blocks modelled every block of which is valid: its    *)
(* Merkle roots are right and its producer signed it.                      *)
(***************************************************************************)
MCValidChains ==
    {b \in MCAllBlocks :
        \A i \in DOMAIN b : b[i].wrong_mroots = {} /\ b[i].signee = b[i].producer}

(***************************************************************************)
(* A node that serves is at its head block; one that does not has only     *)
(* what it wrote to the block log.                                         *)
(***************************************************************************)
LedgerHead == IF Serving THEN HeadDb.head_block_id ELSE LogHead

Ledger == INSTANCE Ledger WITH Chains <- MCValidChains, head <- LedgerHead,
                               irreversible <- LogHead

(***************************************************************************)
(* The controller implements the ledger: whatever blocks arrive, in        *)
(* whatever order, and whenever the node is popped or restarted,           *)
(* push_block, pop_block and the constructor leave the node at the tip of  *)
(* a chain of valid blocks only, and update_last_irreversible_block only   *)
(* ever adds blocks of that chain to the block log.                        *)
(***************************************************************************)
ImplementsLedger == Ledger!Spec

=============================================================================
