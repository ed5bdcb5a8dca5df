--------------------------- MODULE ChainController ---------------------------
(***************************************************************************)
(* The chain controller (libraries/chain/chain_controller.cpp): the state  *)
(* one node keeps of the chain, and its public operations push_block,      *)
(* generate_block, push_transaction, pop_block, clear_pending and          *)
(* add_checkpoints, and its restart.                                       *)
(*                                                                         *)
(* Every operation runs to completion under the store's write lock, so a   *)
(* step of this specification is one call.  What is interleaved is the     *)
(* order of the calls: blocks arrive from the network in any order and on  *)
(* any fork, while the node builds and produces its own.                   *)
(***************************************************************************)
EXTENDS Recovery

CONSTANTS
    Blocks,            \* the blocks the network may deliver
    Signers,           \* the producers whose key generate_block is given
    SkipChoices,       \* the skip flag sets calls are made with
    CheckpointChoices, \* the checkpoint maps add_checkpoints may be given
    Transactions,      \* the transactions push_transaction may be given
    MaxPending,        \* bound: transactions of one pending block
    MaxUsage,          \* bound: transactions charged to one account
    DirectPops,        \* whether pop_block is called from outside
    Restarts,          \* how the node restarts: TRUE with its store deleted
    TornWrites,        \* whether the process ends between log and commit
    MaxBlockNum,       \* bound: height of the blocks modelled
    MaxSlot            \* bound: the last slot in which a block is produced

VARIABLES
    store,        \* _db: [db, undo_stack, revision]
    fork_db,      \* _fork_db
    block_log,    \* _block_log: the irreversible blocks, by height
    pending,      \* _pending_block, its session, traces and cycle state
    checkpoints,  \* _checkpoints
    result        \* how the last call ended: "ok", "throw", or how it did not

vars == <<store, fork_db, block_log, pending, checkpoints, result>>

Controller == [store |-> store, fork_db |-> fork_db, block_log |-> block_log,
               pending |-> pending, checkpoints |-> checkpoints]

-----------------------------------------------------------------------------
(* Blocks                                                                  *)

(***************************************************************************)
(* pop_block drops the pending session, then, if the head block can be     *)
(* fetched, pops the fork database and undoes the store's last session.    *)
(***************************************************************************)
(* popping_fork_db_only leaves the store as it is.                         *)
popping_fork_db_only(c) ==
    LET c1 == [c EXCEPT !.store = IF c.pending.session THEN Db!undo(@) ELSE @,
                        !.pending.session = FALSE]
    IN  IF fetch_block_by_id(c1, c1.store.db.head_block_id) = NoBlock
        THEN Throw(c1)
        ELSE Ok([c1 EXCEPT !.fork_db = ForkDb!pop_block(@)])

pop_block(c) ==
    LET c1 == [c EXCEPT !.store = IF c.pending.session THEN Db!undo(@) ELSE @,
                        !.pending.session = FALSE]
    IN  IF fetch_block_by_id(c1, c1.store.db.head_block_id) = NoBlock
        THEN Throw(c1)
        ELSE Ok([c1 EXCEPT !.fork_db = ForkDb!pop_block(@),
                           !.store = Db!undo(@)])

(***************************************************************************)
(* while (head_block_id() != fork_point) pop_block();                      *)
(* The loop cannot end once a pop changes nothing.                         *)
(***************************************************************************)
RECURSIVE pop_until(_, _)
pop_further(c, fork_point, r) ==
    CASE r.status = "ok" /\ r.c = c -> [status |-> "pop_loop", c |-> c]
      [] r.status = "ok" /\ r.c # c -> pop_until(r.c, fork_point)
      [] OTHER                      -> r

pop_until(c, fork_point) ==
    IF c.store.db.head_block_id = fork_point THEN Ok(c)
    ELSE pop_further(c, fork_point, pop_block(c))

(***************************************************************************)
(* auto session = start_undo_session; _apply_block; session.push();        *)
(* an exception drops the session, which undoes the block's changes.       *)
(***************************************************************************)
session_dropped(r) ==
    IF r.status = "throw" THEN Throw([r.c EXCEPT !.store = Db!undo(@)]) ELSE r

(* apply_without_rollback keeps the session of a block that threw.         *)
apply_without_rollback(c, b, skip) ==
    _apply_block([c EXCEPT !.store = Db!start_undo_session(@)], b, skip)

apply_in_session(c, b, skip) ==
    session_dropped(
        _apply_block([c EXCEPT !.store = Db!start_undo_session(@)], b, skip))

(***************************************************************************)
(* The loop that restores the old branch, parent first; nothing catches    *)
(* an exception of it.                                                     *)
(***************************************************************************)
RECURSIVE apply_all(_, _, _)
apply_rest(r, rest, skip) ==
    IF r.status = "ok" THEN apply_all(r.c, rest, skip) ELSE r

apply_all(c, blocks, skip) ==
    IF blocks = <<>> THEN Ok(c)
    ELSE apply_rest(apply_in_session(c, Head(blocks), skip), Tail(blocks), skip)

(***************************************************************************)
(* The handler of a block that throws during a fork switch: the rest of    *)
(* the new branch leaves the fork database, the old tip is the head        *)
(* again, the blocks of the new branch are popped and the old branch is    *)
(* applied again.  The exception is then thrown on.                        *)
(***************************************************************************)
pop_bad_fork(c, invalid, branches) ==
    pop_until([c EXCEPT !.fork_db =
                  ForkDb!set_head(
                      FoldLeft(LAMBDA f, id : ForkDb!remove(f, id), @, invalid),
                      branches.second[1])],
              ForkDb!previous_id(Last(branches.second)))

rethrown(r) ==
    IF r.status = "ok" THEN Throw(r.c) ELSE r

restore_good_fork(popped, branches, skip) ==
    IF popped.status = "ok"
    THEN rethrown(apply_all(popped.c, Reverse(branches.second), skip))
    ELSE popped

(* restore_without_reapply pops the bad fork and throws on.                *)
restore_without_reapply(c, invalid, branches, skip) ==
    rethrown(pop_bad_fork(c, invalid, branches))

restore_branch(c, invalid, branches, skip) ==
    restore_good_fork(pop_bad_fork(c, invalid, branches), branches, skip)

(***************************************************************************)
(* Applies the new branch, parent first; the first block that throws       *)
(* ends the switch.                                                        *)
(***************************************************************************)
RECURSIVE push_branch(_, _, _, _)
push_rest(r, blocks, branches, skip) ==
    CASE r.status = "ok"    -> push_branch(r.c, Tail(blocks), branches, skip)
      [] r.status = "throw" -> restore_branch(r.c, blocks, branches, skip)
      [] OTHER              -> r

push_branch(c, blocks, branches, skip) ==
    IF blocks = <<>> THEN Ok(c)
    ELSE push_rest(apply_in_session(c, Head(blocks), skip), blocks, branches, skip)

(***************************************************************************)
(* The fork switch: the chain is popped down to the parent both branches   *)
(* share, then the new branch is pushed.                                   *)
(***************************************************************************)
push_popped(popped, branches, skip) ==
    IF popped.status = "ok"
    THEN push_branch(popped.c, Reverse(branches.first), branches, skip)
    ELSE popped

switch_to(c, branches, skip) ==
    IF branches.ok
    THEN push_popped(pop_until(c, ForkDb!previous_id(Last(branches.second))),
                     branches, skip)
    ELSE Throw(c)

switch_forks(c, new_head, skip) ==
    switch_to(c, ForkDb!fetch_branch_from(c.fork_db, new_head,
                                          c.store.db.head_block_id), skip)

(***************************************************************************)
(* _push_block: the block enters the fork database unless skip_fork_db is  *)
(* set.  If the fork database's head then builds on another block than     *)
(* the chain's head, the chain switches to it when it is higher and        *)
(* ignores the block when it is not.  Otherwise the block is applied, and  *)
(* removed from the fork database if that throws.                          *)
(***************************************************************************)
removed_on_throw(r, new_block) ==
    IF r.status = "throw"
    THEN Throw([r.c EXCEPT !.fork_db = ForkDb!remove(@, new_block)])
    ELSE r

switch_or_apply(pushed, new_block, skip) ==
    LET new_head == pushed.fork_db.head
        forked == /\ "skip_fork_db" \notin skip
                  /\ ForkDb!previous_id(new_head) # pushed.store.db.head_block_id
        higher == ForkDb!block_num(new_head) > pushed.store.db.head_block_number
    IN  CASE forked /\ higher  -> switch_forks(pushed, new_head, skip)
          [] forked /\ ~higher -> Ok(pushed)
          [] OTHER -> removed_on_throw(apply_in_session(pushed, new_block, skip),
                                       new_block)

_push_block(c, new_block, skip) ==
    switch_or_apply(IF "skip_fork_db" \in skip THEN c
                    ELSE [c EXCEPT !.fork_db = ForkDb!push_block(@, new_block)],
                    new_block, skip)

(***************************************************************************)
(* The header generate_block gives the pending block: new_producers is     *)
(* set at the start of a round when the computed schedule differs from     *)
(* the one announced last.  The Merkle roots are computed from the block   *)
(* and its trace after the last cycle was finalized.                       *)
(***************************************************************************)
pending_header(c, when, producer, signer, skip) ==
    LET latest_producer_schedule == _calculate_producer_schedule(c.store.db)
    IN  [timestamp |-> when, producer |-> producer,
         signee |-> IF "skip_producer_signature" \in skip THEN NoProducer ELSE signer,
         new_producers |->
             IF /\ is_start_of_round(c.store.db.head_block_number + 1)
                /\ latest_producer_schedule # _head_producer_schedule(c.store.db)
             THEN latest_producer_schedule ELSE NoSchedule,
         wrong_mroots |-> {},
         regions |-> <<[region |-> 0,
                        cycles_summary |-> c.pending.block.cycles_summary]>>,
         input_transactions |-> c.pending.block.input_transactions]

(***************************************************************************)
(* The end of _generate_block: the pending session is pushed (it is an     *)
(* optional: pushing it when it is empty is undefined), the pending block  *)
(* is reset, and the block enters the fork database last.                  *)
(***************************************************************************)
push_pending_session(finalized, has_session, block, skip) ==
    CASE finalized.status # "ok"                 -> finalized
      [] finalized.status = "ok" /\ ~has_session -> [status |-> "undefined",
                                                     c |-> finalized.c]
      [] OTHER -> Ok([finalized.c EXCEPT
             !.pending = [@ EXCEPT !.block = NoPending, !.block_trace = <<>>,
                                   !.session = FALSE],
             !.fork_db = IF "skip_fork_db" \in skip THEN @
                         ELSE ForkDb!push_block(@, block)])

finalize_pending(cycled, block, skip) ==
    push_pending_session(_finalize_block(cycled, skip, block),
                         cycled.pending.session, block, skip)

(***************************************************************************)
(* The signing key is compared after the pending cycle was finalized;      *)
(* signer is the producer whose key the caller signs with.                 *)
(***************************************************************************)
sign_pending(cycled, when, producer, signer, skip) ==
    IF "skip_producer_signature" \notin skip /\ signer # producer
    THEN Throw(cycled)
    ELSE finalize_pending(cycled,
             Append(cycled.store.db.head_block_id,
                    pending_header(cycled, when, producer, signer, skip)),
             skip)

(***************************************************************************)
(* _finalize_pending_cycle reads the pending cycle trace, an optional      *)
(* that the last finalize has reset.                                       *)
(***************************************************************************)
generate_pending(started, when, producer, signer, skip) ==
    IF started.pending.cycle_trace = NoTrace
    THEN [status |-> "undefined", c |-> started]
    ELSE sign_pending(_finalize_pending_cycle(started), when, producer, signer, skip)

(***************************************************************************)
(* _generate_block(when, producer, key): the slot of when must be the      *)
(* producer's; a pending block is started if there is none.                *)
(***************************************************************************)
_generate_block(c, when, producer, signer, skip) ==
    LET slot_num == get_slot_at_time(c.store.db, when)
    IN  IF slot_num > 0 /\ get_scheduled_producer(c.store.db, slot_num) = producer
        THEN generate_pending(IF c.pending.block = NoPending
                              THEN _start_pending_block(c) ELSE c,
                              when, producer, signer, skip)
        ELSE Throw(c)

-----------------------------------------------------------------------------
(* The calls                                                               *)

Init ==
    /\ store = GenesisStore
    /\ fork_db = ForkDb!Empty
    /\ block_log = <<>>
    /\ pending = IdlePending
    /\ checkpoints = <<>>
    /\ result = "ok"

(***************************************************************************)
(* A call caught in a loop or in undefined behaviour never returns; the    *)
(* node takes calls while the last one returned or threw.                  *)
(***************************************************************************)
Serving == result \in {"ok", "throw"}

(***************************************************************************)
(* The call ends with outcome r, and the controller is as r left it.       *)
(***************************************************************************)
Returns(r) ==
    /\ store' = r.c.store
    /\ fork_db' = r.c.fork_db
    /\ block_log' = r.c.block_log
    /\ pending' = r.c.pending
    /\ checkpoints' = r.c.checkpoints
    /\ result' = r.status

(***************************************************************************)
(* The blocks the network can deliver now: those of Blocks whose parent    *)
(* this node has seen.                                                     *)
(***************************************************************************)
Deliverable ==
    {b \in Blocks :
        ForkDb!previous_id(b) \in fork_db.index \cup ToSet(block_log) \cup {<<>>}}

(***************************************************************************)
(* push_block(new_block, skip): the pending block is cleared, then         *)
(* _push_block runs.                                                       *)
(***************************************************************************)
PushBlock(new_block, skip) ==
    /\ Serving
    /\ Returns(_push_block(clear_pending(Controller), new_block, skip))

GenerateBlock(when, producer, signer, skip) ==
    /\ Serving
    /\ store.db.head_block_number < MaxBlockNum
    /\ Returns(_generate_block(Controller, when, producer, signer, skip))

PopBlock ==
    /\ Serving
    /\ DirectPops
    /\ Returns(pop_block(Controller))

(***************************************************************************)
(* push_transaction(trx, skip).                                            *)
(***************************************************************************)
PushTransaction(trx, skip) ==
    /\ Serving
    /\ pending.block # NoPending => Len(pending.block.input_transactions) < MaxPending
    /\ \A a \in trx.actors \cap Accounts : store.db.bandwidth_usage[a] < MaxUsage
    /\ Returns(_push_transaction(Controller, trx, skip))

ClearPending ==
    /\ Serving
    /\ pending.block # NoPending
    /\ Returns(Ok(clear_pending(Controller)))

(***************************************************************************)
(* add_checkpoints(checkpts): every entry is stored, replacing an entry    *)
(* of the same height.                                                     *)
(***************************************************************************)
add_checkpoints(c, checkpts) ==
    [c EXCEPT !.checkpoints =
        [n \in DOMAIN checkpts \cup DOMAIN @ |->
            IF n \in DOMAIN checkpts THEN checkpts[n] ELSE @[n]]]

AddCheckpoints(checkpts) ==
    /\ Serving
    /\ Returns(Ok(add_checkpoints(Controller, checkpts)))

(***************************************************************************)
(* The process ends, at any time, and the node is started again on its     *)
(* store and its log, or on the log alone.  A constructor that throws      *)
(* leaves no node to call.                                                 *)
(***************************************************************************)
Started(r) == IF r.status = "throw" THEN [r EXCEPT !.status = "no_start"] ELSE r

Restart(wiped) ==
    /\ wiped \in Restarts
    /\ Returns(Started(chain_controller(Controller, wiped)))

(***************************************************************************)
(* The process ends inside push_block or generate_block, after             *)
(* update_last_irreversible_block appended the first newly irreversible    *)
(* block to the log and before it committed the store: the log on disk is  *)
(* one block ahead of the last commit, and the node is started on that.    *)
(***************************************************************************)
CrashAfterAppend(r) ==
    /\ Len(r.c.block_log) > Len(block_log)
    /\ Returns(Started(chain_controller(
           [Controller EXCEPT
               !.block_log = SubSeq(r.c.block_log, 1, Len(block_log) + 1)],
           FALSE)))

CrashInPushBlock(new_block, skip) ==
    /\ Serving
    /\ TornWrites
    /\ CrashAfterAppend(_push_block(clear_pending(Controller), new_block, skip))

CrashInGenerateBlock(when, producer, signer, skip) ==
    /\ Serving
    /\ TornWrites
    /\ store.db.head_block_number < MaxBlockNum
    /\ CrashAfterAppend(_generate_block(Controller, when, producer, signer, skip))

(***************************************************************************)
(* A call that does not return holds the write lock for ever: no other     *)
(* call runs, and nothing changes.                                         *)
(***************************************************************************)
Stuck ==
    /\ ~Serving
    /\ UNCHANGED vars

Next ==
    \/ \E b \in Deliverable, skip \in SkipChoices : PushBlock(b, skip)
    \/ \E when \in GenesisTime + 1 .. GenesisTime + MaxSlot,
          producer \in Producers, signer \in Signers, skip \in SkipChoices :
            GenerateBlock(when, producer, signer, skip)
    \/ \E trx \in Transactions, skip \in SkipChoices : PushTransaction(trx, skip)
    \/ PopBlock
    \/ ClearPending
    \/ \E checkpts \in CheckpointChoices : AddCheckpoints(checkpts)
    \/ \E wiped \in BOOLEAN : Restart(wiped)
    \/ \E b \in Deliverable, skip \in SkipChoices : CrashInPushBlock(b, skip)
    \/ \E when \in GenesisTime + 1 .. GenesisTime + MaxSlot,
          producer \in Producers, signer \in Signers, skip \in SkipChoices :
            CrashInGenerateBlock(when, producer, signer, skip)
    \/ Stuck

Spec == Init /\ [][Next]_vars

(***************************************************************************)
(* The controller schedules nothing itself: its callers decide when a      *)
(* call is made.  The one thing assumed of them is that a node that no     *)
(* more answers is in the end stopped and started again with its store     *)
(* deleted, the recovery the constructor provides with replay.             *)
(***************************************************************************)
Recover == ~Serving /\ Restart(TRUE)

Recovered(r) ==
    <<r.c.store, r.c.fork_db, r.c.block_log, r.c.pending, r.c.checkpoints, r.status>>

CanRecover ==
    /\ ~Serving
    /\ TRUE \in Restarts
    /\ Recovered(Started(chain_controller(Controller, TRUE))) # vars

Fairness == WF_vars(Recover)

(***************************************************************************)
(* Fairness with ENABLED <<Recover>>_vars written as the state predicate   *)
(* CanRecover, the form TLC is given.                                      *)
(***************************************************************************)
FairSpec == Spec /\ ([]<>~CanRecover \/ []<><<Recover>>_vars)

-----------------------------------------------------------------------------
(* Types                                                                   *)

ScheduleType == [version : Nat, producers : Seq(Producers \cup {NoProducer})]

ReceiptType == [status : {"executed", "soft_fail", "hard_fail"}, id : Nat]

ScopeNames == Accounts \cup BuiltInScopes \cup {Nobody}

TransactionType ==
    [id : Nat, actors : SUBSET Accounts, throws : BOOLEAN,
     votes : Seq(Producers), deferred : SUBSET Nat,
     read_scope : SUBSET ScopeNames, write_scope : SUBSET ScopeNames,
     action_scopes : SUBSET (Accounts \cup {Nobody}), unsorted : BOOLEAN,
     wrong_auths : SUBSET {"irrelevant_auth", "missing_sigs", "irrelevant_sig"}]

HeaderType ==
    [timestamp : Nat, producer : Producers, signee : Producers \cup {NoProducer},
     new_producers : ScheduleType \cup {NoSchedule},
     wrong_mroots : SUBSET {"transaction_mroot", "action_mroot", "block_mroot"},
     regions : Seq([region : Nat, cycles_summary : Seq(Seq(Seq(ReceiptType)))]),
     input_transactions : Seq(TransactionType)]

BlockIdType == Seq(HeaderType)

DbType ==
    [head_block_number : Nat, head_block_id : BlockIdType, time : Nat,
     current_producer : Producers \cup {NoProducer},
     current_absolute_slot : Nat,
     recent_slots_filled : SUBSET (0 .. BitmapWidth - 1),
     last_irreversible_block_num : Nat,
     active_producers : ScheduleType,
     pending_active_producers : Seq(Nat \X ScheduleType),
     producers_authority : SUBSET (Producers \cup {NoProducer}),
     producers : [Producers -> [last_confirmed_block_num : Nat, last_aslot : Nat,
                                total_missed : Nat]],
     votes : Seq(Producers),
     block_summary : [0 .. SummarySlots - 1 -> BlockIdType],
     generated_transactions : SUBSET Nat, transactions : SUBSET Nat,
     bandwidth_usage : [Accounts -> Nat]]

(***************************************************************************)
(* The variables have the shapes the operations assume.                    *)
(***************************************************************************)
TypeOK ==
    /\ store \in [db : DbType, revision : Nat,
                  undo_stack : Seq([revision : Nat, old : DbType])]
    /\ fork_db.index \subseteq BlockIdType
    /\ fork_db.linked \subseteq BlockIdType
    /\ fork_db.head \in BlockIdType \cup {NoBlock}
    /\ block_log \in Seq(BlockIdType)
    /\ pending.session \in BOOLEAN
    /\ pending.block # NoPending =>
          /\ pending.block.cycles_summary \in Seq(Seq(Seq(ReceiptType)))
          /\ pending.block.input_transactions \in Seq(TransactionType)
    /\ DOMAIN checkpoints \subseteq Nat
    /\ result \in {"ok", "throw", "erase_loop", "pop_loop", "undefined", "no_start"}

-----------------------------------------------------------------------------
(* Properties                                                              *)

(***************************************************************************)
(* The chain state as of the head block: what the store holds once the     *)
(* pending session, if one is open, is rolled back.                        *)
(***************************************************************************)
HeadDb ==
    IF pending.session /\ store.undo_stack # <<>>
    THEN Last(store.undo_stack).old ELSE store.db

SessionDepth == IF pending.session THEN 1 ELSE 0

(***************************************************************************)
(* The block log is the head's chain up to the log's length: every block   *)
(* update_last_irreversible_block appended, fetched by number through the  *)
(* fork database, is the ancestor of the head at that height, whatever     *)
(* forks were switched to and popped since.                                *)
(***************************************************************************)
LogIsPrefixOfHead ==
    Serving =>
        /\ Len(block_log) <= HeadDb.head_block_number
        /\ \A n \in 1 .. Len(block_log) :
              block_log[n] = SubSeq(HeadDb.head_block_id, 1, n)

(***************************************************************************)
(* The store has exactly one undo record for every block above the log     *)
(* and one for the pending session: a block that is not irreversible can   *)
(* be popped, and commit never leaves a record behind for a block that     *)
(* was written to the log.                                                 *)
(***************************************************************************)
UndoCoversReversible ==
    Serving =>
        /\ store.revision = store.db.head_block_number + SessionDepth
        /\ Len(store.undo_stack) =
              store.db.head_block_number - Len(block_log) + SessionDepth

(***************************************************************************)
(* TaPoS binds a transaction to a fork: of the blocks a client may refer   *)
(* to, validate_tapos accepts the head block and its ancestors as far      *)
(* back as the summary ring reaches, and no block of another fork, also    *)
(* after a fork switch rewrote some slots of the ring, an undo restored    *)
(* others and the numbers wrapped around.                                  *)
(***************************************************************************)
Referable == Blocks \cup fork_db.index \cup ToSet(block_log) \cup {<<>>}

TaposBindsToFork ==
    Serving =>
        \A b \in Referable :
            validate_tapos(HeadDb, {}, [ref_block |-> b])
                <=> /\ IsPrefix(b, HeadDb.head_block_id)
                    /\ Len(b) > HeadDb.head_block_number - SummarySlots

(***************************************************************************)
(* "Blocks become irreversible when enough producers have confirmed past   *)
(* them": of the active producers, the share                               *)
(* irreversible_threshold_percent has signed a block of the head chain at  *)
(* or above the irreversible one.                                          *)
(* update_last_irreversible_block takes the number from the element at     *)
(* offset of the sorted last_confirmed_block_num; fork switches, pops and  *)
(* replay move both the confirmations and the irreversible block.          *)
(***************************************************************************)
ConfirmingProducers(db) ==
    {p \in ToSet(db.active_producers.producers) :
        db.producers[p].last_confirmed_block_num >= db.last_irreversible_block_num}

IrreversibleIsConfirmed ==
    Serving =>
        Cardinality(ConfirmingProducers(HeadDb)) * Percent100
            >= Len(HeadDb.active_producers.producers) * IrreversibleThresholdPercent

(***************************************************************************)
(* A call that throws leaves the chain state of the head block as it was:  *)
(* push_block, generate_block and pop_block unwind every partial change    *)
(* (comment of push_block), a failed fork switch restores the old branch.  *)
(***************************************************************************)
ThrowLeavesHeadState ==
    [][result' = "throw" => HeadDb' = HeadDb]_vars

(* A replayed block is accepted with the chain state db.                   *)
Accepted(replayed, db) ==
    replayed.status = "ok" /\ replayed.c.store.db = db

(***************************************************************************)
(* The block generate_block returns is one every node accepts: applied by  *)
(* _push_block's session to the state the producer built it on, it is      *)
(* valid and leaves the chain state the producer is left with.  The step   *)
(* is recognised by the head moving to a child of the old head.            *)
(***************************************************************************)
ProducedBlockReplays ==
    [][/\ result' = "ok"
       /\ store'.db.head_block_id # store.db.head_block_id
       /\ ForkDb!previous_id(store'.db.head_block_id) = HeadDb.head_block_id
       => Accepted(apply_in_session(clear_pending(Controller),
                                    store'.db.head_block_id, {}),
                   store'.db)]_vars

(***************************************************************************)
(* The shards of a cycle of the pending block can run in parallel: no      *)
(* transaction of one shard writes a scope that a transaction of another   *)
(* shard of the cycle reads or writes.  _push_transaction puts every       *)
(* receipt in the shard _pending_cycle.schedule chose, and opens a new     *)
(* cycle on a conflict.                                                    *)
(***************************************************************************)
ShardScopes(shard, scope_of(_)) ==
    UNION {scope_of(trx) : trx \in
              {t \in ToSet(pending.block.input_transactions) :
                  \E i \in DOMAIN shard : shard[i].id = t.id}}

Written(shard) == ShardScopes(shard, LAMBDA trx : trx.write_scope)
Read(shard) == ShardScopes(shard, LAMBDA trx : trx.read_scope)

ShardsAreExclusive ==
    Serving /\ pending.block # NoPending =>
        \A cycle \in ToSet(pending.block.cycles_summary) :
            \A i, j \in DOMAIN cycle :
                i # j => Written(cycle[i]) \cap (Written(cycle[j]) \cup Read(cycle[j])) = {}

(***************************************************************************)
(* "Duplicate rejection.  Push transaction T; push T again.  Second call   *)
(* fails with tx_duplicate": every transaction executed on the chain of    *)
(* the head block and in the pending block built on it passes              *)
(* validate_uniqueness once the transactions before it are recorded.       *)
(***************************************************************************)
Executed ==
    FlattenSeq([n \in DOMAIN HeadDb.head_block_id |->
                   HeadDb.head_block_id[n].input_transactions])
        \o (IF pending.block = NoPending THEN <<>>
            ELSE pending.block.input_transactions)

DuplicateIsRejected ==
    Serving =>
        \A j \in DOMAIN Executed :
            validate_uniqueness(
                FoldLeft(record_transaction, HeadDb, SubSeq(Executed, 1, j - 1)),
                {}, Executed[j])

(***************************************************************************)
(* What pending transactions change is provisional: as long as the head    *)
(* block stays, the chain state of the head block stays, whatever          *)
(* push_transaction, clear_pending and failed calls do in between ("This   *)
(* allows us to quickly rewind to the clean state of the head block",      *)
(* _push_transaction).                                                     *)
(***************************************************************************)
PendingIsProvisional ==
    [][/\ result' \in {"ok", "throw"}
       /\ store'.db.head_block_id = store.db.head_block_id
       => HeadDb' = HeadDb]_vars

(***************************************************************************)
(* Checkpoints bind every block applied after they were added: a step      *)
(* that puts a new block at a checkpointed height on the chain puts the    *)
(* checkpoint there, in a plain push as in a fork switch or its restore    *)
(* (the gate of _apply_block; no checkpoint of the run is a zero id).      *)
(***************************************************************************)
AncestorAt(id, n) == IF n <= Len(id) THEN SubSeq(id, 1, n) ELSE NoBlock

CheckpointsRespected ==
    [][\A n \in DOMAIN checkpoints :
          LET placed == AncestorAt(store'.db.head_block_id, n)
          IN  placed \notin {NoBlock, AncestorAt(store.db.head_block_id, n)}
                  => placed = checkpoints[n]]_vars

(***************************************************************************)
(* The chain state is a function of the head block: it is the state of a   *)
(* node that started from genesis and was pushed the blocks of the head's  *)
(* chain one after the other, whatever forks this node applied and         *)
(* unwound on the way.  Nodes with the same head must agree on the state   *)
(* ("any divergence between implementations causes consensus failure").    *)
(***************************************************************************)
Genesis ==
    [store |-> GenesisStore, fork_db |-> ForkDb!Empty, block_log |-> <<>>,
     pending |-> IdlePending, checkpoints |-> <<>>]

RECURSIVE FreshNodeAt(_)
FreshNodeAt(id) ==
    IF id = <<>> THEN Genesis
    ELSE _push_block(FreshNodeAt(ForkDb!previous_id(id)), id, {}).c

StateIsFunctionOfHead ==
    Serving => HeadDb = FreshNodeAt(HeadDb.head_block_id).store.db

(***************************************************************************)
(* A node that is stopped between two calls comes back: the constructor    *)
(* does not throw, the head block is then the last block of the log        *)
(* (_spinup_db rewinds the store to the last commit, _spinup_fork_db       *)
(* compares it with the log, replay rebuilds a deleted store), and a store *)
(* that was kept holds the state of a node that applied just the blocks    *)
(* of the log.                                                             *)
(***************************************************************************)
LogHead == IF block_log = <<>> THEN <<>> ELSE Last(block_log)

ResumesAtLog(r, wiped) ==
    /\ r.status = "ok"
    /\ r.c.store.db.head_block_id = LogHead
    /\ ~wiped => r.c.store.db = FreshNodeAt(LogHead).store.db

RestartResumesAtLog ==
    Serving => \A wiped \in Restarts :
                  ResumesAtLog(chain_controller(Controller, wiped), wiped)

(***************************************************************************)
(* The node starts on whatever a stopped process left on disk: the         *)
(* constructor replays the log when it is ahead of the store ("if          *)
(* block_log.head.block_num > head_block_num, replay every block").        *)
(***************************************************************************)
NodeStarts == result # "no_start"

(***************************************************************************)
(* Whatever call left the node hanging or dead, and at whatever point of   *)
(* the call, the block log it wrote so far can be replayed: started again  *)
(* without its store, the constructor (replay, _spinup_fork_db) brings the *)
(* node back to serving.                                                   *)
(***************************************************************************)
ServesAgain == []<>Serving

(***************************************************************************)
(* "while (head_block_id() != fork_point) pop_block()": the pop loops of a *)
(* fork switch take every reversible block off the chain.  When the calls  *)
(* are push_block's own they hang only at the irreversible block, with no  *)
(* undo record left, and only because the fork database holds a longer     *)
(* branch that forks below that block.                                     *)
(***************************************************************************)
ForksBelowIrreversible(b) ==
    Len(b) > store.db.head_block_number /\ ~IsPrefix(LogHead, b)

SwitchPopsAllReversible ==
    result = "pop_loop" =>
        /\ store.undo_stack = <<>>
        /\ store.db.head_block_id = LogHead
        /\ \E b \in fork_db.index : ForksBelowIrreversible(b)

(***************************************************************************)
(* The loop of update_last_irreversible_block that erases the activated    *)
(* pending schedules ends.                                                 *)
(***************************************************************************)
EraseLoopEnds == result # "erase_loop"

(***************************************************************************)
(* No call dereferences an empty optional: the pending block, its          *)
(* session and cycle trace are there when generate_block uses them, and    *)
(* every block written to the log can be fetched.                          *)
(***************************************************************************)
NoEmptyOptionalRead == result # "undefined"

=============================================================================
