# TLA+ model of the EOS chain controller

This directory holds a TLA+ model of `libraries/chain/chain_controller.cpp`,
the part of an EOS node that keeps the chain state: it accepts blocks and
transactions, switches forks, produces blocks, decides which blocks are
irreversible, writes those to the block log, and starts again from that log
after a stop. The model is checked with TLC. `PROJECT.json` lists the
components, the runs, the source lines behind every definition, the findings
and the hazards.

## 1. The system

### Parts

| Part | Code | State | Operations |
|---|---|---|---|
| Block applier | `push_block`, `_push_block`, `pop_block`, `_apply_block`, `__apply_block`, `validate_block_header`, `_finalize_block` | head block (number, id, time), fork database, undo stack | push a block, switch forks, restore a failed switch, pop the head |
| Irreversibility and properties | `update_global_properties`, `update_global_dynamic_data`, `update_signing_producer`, `update_last_irreversible_block`, `create_block_summary` | `last_irreversible_block_num`, active and pending producer schedules, per-producer `last_confirmed_block_num`, `recent_slots_filled`, summary ring, block log | run inside `_finalize_block`, in this order |
| Scheduler | `get_scheduled_producer`, `get_slot_time`, `get_slot_at_time`, `_calculate_producer_schedule`, `_head_producer_schedule` | `current_absolute_slot`, schedules, vote index | pure functions of the store |
| Pending builder | `_start_pending_block/_cycle/_shard`, `_finalize_pending_cycle`, `clear_pending`, `generate_block` | `_pending_block`, its session, block trace, cycle state and cycle trace | start, finalize a cycle, produce, clear |
| Transaction applier | `push_transaction`, `_push_transaction`, `_apply_transaction`, `validate_referenced_accounts`, `check_authorization` | bandwidth usage, generated transactions, vote index | push one transaction into the pending block |
| Transaction checks without a caller | `validate_scope`, `validate_uniqueness`, `record_transaction`, `validate_tapos`, `is_known_transaction` | index of the transactions seen, summary ring | none runs: they are what the properties about duplicates and TaPoS are stated with |
| Checkpoints | `add_checkpoints`, gate in `_apply_block` | `_checkpoints` | add; compare on apply |
| Initialization and replay | constructor, `_initialize_chain`, `replay`, `_spinup_db`, `_spinup_fork_db` | store and log on disk | start on an empty, a kept or a deleted store |
| Fork database | `fork_database` (not in the source tree) | items linked by previous id, head | `push_block`, `remove`, `set_head`, `pop_block`, `set_max_size`, `fetch_branch_from` |
| Versioned store | chainbase `database` (not in the source tree) | objects, undo stack, revision | sessions, `undo`, `squash`, `commit`, `undo_all` |
| Block log | `block_log` (not in the source tree) | append-only sequence of blocks | `append`, `head`, reads |

### How they interact

Every public operation runs to completion under the store's write lock, so
operations do not interleave with each other. What is free is the *order* of
the calls: blocks of several forks arrive in any order, some invalid, some
twice, while transactions are pushed, the node produces its own blocks, an
operator pops blocks or adds checkpoints, and the process is stopped and
started again. One call touches four stores that roll back differently: the
versioned store (undone by sessions), the fork database (changed by hand in
the handlers), the block log (never undone, and on disk) and the pending
block (a set of optionals reset one by one). Almost everything that can go
wrong is a disagreement between these four after a call that threw, a fork
switch, a pop or a stop of the process.

### What must hold

* The block log holds the first blocks of the head's chain and nothing else,
  and only ever grows.
* The head is a chain of valid blocks.
* The irreversible block is confirmed by the required share of producers.
* The undo stack has one record for every block that can still be popped.
* The summary ring holds the head's own ancestors, so that TaPoS accepts a
  reference to the head's chain and to no other fork.
* A call that throws leaves the chain state as it was.
* What pending transactions change is gone when the pending block is.
* No two shards of a cycle touch one scope.
* A transaction is executed once.
* A block the node produces is accepted by every node, with the same state.
* A block at a checkpointed height is the checkpoint.
* The chain state depends on the head block only, not on the forks seen.
* A stopped node starts again at the head of its log.
* Every call returns.

## 2. The modules

| Module | Models | Lines of the source |
|---|---|---|
| `Scheduler` | slot arithmetic, rotation, bitmap shift, schedule computation | 43-45, 830-858, 1124-1131, 1243-1287 |
| `ForkDB` | the fork database, from its contract | not in the source tree |
| `UndoStore` | the versioned store, from its contract | not in the source tree |
| `BlockApplier` | `_apply_block` and everything it calls | 99-121, 359-414, 508-602, 790-895, 1087-1220, 1293-1343 |
| `TransactionChecks` | the checks of a transaction, called or not | 85-89, 624-697, 720-759, 775-788 |
| `PendingBuilder` | the pending block and the whole of `_push_transaction` | 258-357, 499-504 |
| `Recovery` | the constructor: genesis, `_spinup_db`, `_spinup_fork_db`, `replay` | 47-68, 971-1071 |
| `ChainController` | variables, `_push_block`, `_generate_block`, `pop_block`, the public calls, restart and crash, the properties | 47-74, 158-256, 416-504, 897-900 |
| `Ledger` | the abstract specification: a valid head chain and an irreversible prefix that grows | |
| `MCChainController` | the block trees, transactions and checkpoint maps of the runs, and the refinement mapping | |

`Scheduler`, `ForkDB`, `UndoStore`, `BlockApplier`, `TransactionChecks`,
`PendingBuilder` and `Recovery` define operators only. `BlockApplier` extends
`Scheduler` and instantiates `ForkDB` and `UndoStore`; `TransactionChecks`
extends `BlockApplier`, `PendingBuilder` extends `TransactionChecks`,
`Recovery` extends `PendingBuilder`, and `ChainController` extends `Recovery`
and has the variables and the actions.

### State

| Variable | Code |
|---|---|
| `store` = `[db, undo_stack, revision]` | `_db`; `db` is a record with one field per object the operations read or write |
| `fork_db` = `[index, linked, head]` | `_fork_db` |
| `block_log` | `_block_log`, a sequence indexed by block number |
| `pending` = `[block, block_trace, session, cycle, cycle_trace]` | `_pending_block`, `_pending_block_trace`, `_pending_block_session`, `_pending_cycle`, `_pending_cycle_trace` |
| `checkpoints` | `_checkpoints`, a function from heights to ids |
| `result` | how the last call ended (history variable) |

### Actions

| Action | Code |
|---|---|
| `PushBlock(b, skip)` | `push_block`: `clear_pending`, then `_push_block` with the fork switch and its restore |
| `GenerateBlock(when, producer, signer, skip)` | `generate_block` / `_generate_block` |
| `PushTransaction(trx, skip)` | `push_transaction` / `_push_transaction` |
| `PopBlock` | `pop_block`, called from outside (`DirectPops`) |
| `ClearPending` | `clear_pending` |
| `AddCheckpoints(checkpts)` | `add_checkpoints` |
| `Restart(wiped)` | the process is stopped between two calls and the constructor runs on the store and the log (`wiped`: on the log alone) |
| `CrashInPushBlock`, `CrashInGenerateBlock` | the process ends inside the call, after the first append to the log and before the commit, and the constructor runs on what is on disk (`TornWrites`) |
| `Stuck` | a call that does not return holds the write lock: nothing changes |

### Data abstraction

* A **block id** is the sequence of the headers from the first block to this
  one. A hash commits to the previous id, so an id determines the chain below
  it; `previous` is the sequence without its last element, `block_num` its
  length, and the zero id is `<<>>`. A block and its id are the same value.
* A **timestamp** is a slot number. `block_timestamp_type` is a slot counter
  and the code only ever computes differences of slots.
* **Signatures and Merkle roots** are not computed. A header names the
  producer whose key signed it (`signee`) and the set of roots that would not
  match on recomputation (`wrong_mroots`).
* **`recent_slots_filled`** is the set of set bit positions of a word of
  `BitmapWidth` bits; the shift drops what leaves the word.
* The **summary ring** has `SummarySlots` slots in place of 65536.
* A **transaction** is a record of what the controller sees of it: the
  accounts that authorize it, the accounts its actions are sent to, its
  read and write scopes, whether one of its
  actions throws, the vote ranking it leaves, the deferred transactions it
  generates, and the authorization checks it does not pass (`wrong_auths`:
  an authorization below the minimum, a missing signature, an unused
  signature). `check_authorization` is modelled by these three outcomes and
  the skip flags that switch each of them off. A scope is an account name;
  the scope vectors are sets, and `unsorted` tells whether a vector is out
  of order. The block a transaction refers to (`ref_block_num`,
  `ref_block_prefix`) is a block id.
* **Disk and memory.** The store and the log survive a stop of the process;
  the fork database, the pending block and the checkpoints do not.

### Outcomes

An operator that models a function of the controller takes the controller
state `c` and returns `[status, c]`:

* `"ok"`: the call returned;
* `"throw"`: an exception left the call; `c` is the state after the handlers
  and the sessions on the way unwound;
* `"erase_loop"`, `"pop_loop"`: the call is in a loop that has no exit;
* `"undefined"`: the call read an empty optional (`assert(block)` followed by
  `*block`, `_pending_cycle_trace->`, `_pending_block_session->push()`);
* `"no_start"`: the constructor threw, and there is no controller to call.

An action is `Serving /\ Returns(outcome)`: it assigns all five controller
variables from the outcome. After an outcome other than `"ok"` or `"throw"`
no call is served; the steps left are `Stuck`, which changes nothing, and a
restart. Deadlock checking therefore stays on in every run.

### Assumptions about code outside the source tree

`fork_database` and chainbase are not part of the repository's sources; their
operators follow the written contract and the use the controller makes of
them. Where the contract leaves a choice, the model takes this one:

* `fork_db.push_block` makes the block the head only if it is strictly higher
  than the head ("if the newly pushed block is the same height as head, we
  get head back", `_push_block`).
* `fork_db.remove` erases the item and does not look at the head.
* `fork_db.pop_block` moves the head to its parent item and keeps the block.
* `fork_db.set_max_size(n)` prunes at once, keeping `block_num >= head - n`.
* `fetch_branch_from` ends both branches at the children of the deepest
  proper common ancestor.
* `undo` with no undo record left does nothing.
* `without_pending_transactions` (called by `push_block`, line 161) clears
  the pending block before the call, as `clear_pending` does; the pending
  transactions it would push again afterwards are new `push_transaction`
  calls of the environment.
* `_pending_cycle.schedule` gives a transaction the shard that writes one of
  its scopes, a new shard when none does, and no shard (a new cycle) when
  its scopes are written in two shards or it writes a scope that was read.

The finding `rejected_in_log` depends on the second and third choice.

### What is left out, and why

* Logging, signals (`applied_block`, `applied_irreversible_block`), console
  output, `averge_block_size`, the block Merkle accumulator and the
  producers' authority object beyond the set of names: no operation reads
  them back.
* `validate_expiration` and `clear_expired_transactions`: nothing calls the
  first, the body of the second is commented out, and a transaction of the
  model has no expiration time.
* The evaluation of permissions (`lookup_minimum_permission`,
  `get_required_keys`, the authority checker): it reads permission objects
  and checker code outside the source tree.
* The read accessors (`head_block_*`, `get_block_id_for_num`,
  `is_known_block`, `get_block_ids_on_fork`) change no state; those the
  operations use are field reads of the model. The reads by number share
  the walk from the fork database's head that `rejected_in_log` is about:
  a property about them fails for the reason that run already shows.
* `_set_apply_handler` and `find_apply_handler` keep and read a map of
  handlers that only `apply_context`, outside the source tree, calls; an
  action of a transaction is modelled by whether it throws.
* `_initialize_indexes` registers index types with the store and has no
  branch.
* `contracts/eosiolib/types.h` holds type definitions only.
* The file format of the block log and the truncation of a torn tail: the
  log is a sequence, and a crash leaves whole blocks.

## 3. The runs

All runs use three producers `pa, pb, pc` in one round of three blocks
(`ProducerRepetitions = 1`), `IrreversibleThresholdPercent = 5000` (the
irreversible block is the median `last_confirmed_block_num`), a bitmap of 4
bits and a summary ring of 4 slots. The network's blocks are a constant block
tree `Blocks`; a block can be delivered when its parent has been seen, any
number of times. The environment is switched by constants:

| Constant | Meaning |
|---|---|
| `Blocks`, `Transactions`, `CheckpointChoices`, `SkipChoices`, `Signers` | what the calls are made with |
| `DirectPops` | `pop_block` is called from outside |
| `Restarts` | the ways the node is restarted: `FALSE` on its store, `TRUE` with the store deleted |
| `TornWrites` | the process may end between the log append and the commit |
| `MaxBlockNum`, `MaxSlot` | bounds: height of the chain, last slot of production (`0`: the node does not produce) |
| `MaxPending`, `MaxUsage` | bounds: transactions of one pending block, transactions charged to one account |

The product of deliveries, productions, transactions and restarts is too
large to enumerate at once, so each run opens the part of the environment its
question is about.

| Run | cfg | Environment | Result |
|---|---|---|---|
| `fork_safety` | `ForkSafety.cfg` | chains of slots 1-2-3-4-5 and 2-3-4, on the first a tip with a wrong block Merkle root (height 3, the start of a round), on the second a tip its producer did not sign; pops; restarts with the store deleted; height 5 | pass, 218,748 states |
| `produce_safety` | `ProduceSafety.cfg` | production in slots 1 to 6 with three keys, one vote transaction, delivered blocks 1 and 1-2, restarts on the kept store, torn writes; height 6 | pass, 63,973 states |
| `pending_safety` | `PendingSafety.cfg` | six transactions (one that throws, one that reads another's scope, one without signature, one authorized from outside its write scope, one on an account that does not exist), with and without the signature check, one pending block of two transactions, production in two slots, three delivered blocks with transactions | pass, 158,304 states |
| `recovery` | `NodeRecovery.cfg` | both forks, a tip with a wrong action Merkle root and the chain of slots 1,2,3,4,7,8; both kinds of restart; torn writes; two checkpoint maps; height 6; `FairSpec` | pass, 101,131 states |
| `replay_divergence` | `ReplayDivergence.cfg` | production of six blocks, restarts with the store deleted | violation |
| `erase_loop` | `EraseLoop.cfg` | the one chain of slots 1,2,3,4,7,8 | violation |
| `rejected_in_log` | `RejectedInLog.cfg` | two first blocks, an invalid second, production in four slots | violation |
| `generate_retry` | `GenerateRetry.cfg` | as `rejected_in_log` | violation |
| `pending_leak` | `PendingLeak.cfg` | as `pending_safety` with pops, height 2 | violation |
| `torn_restart` | `TornRestart.cfg` | as `fork_safety` without pops, torn writes | violation |
| `restore_throws` | `RestoreThrows.cfg` | two forks of height 3, two checkpoint maps, pops | violation |
| `duplicate_push` | `DuplicatePush.cfg` | the transactions of `pending_safety`, empty delivered blocks | violation |

### Why the bounds are enough

* Height 5 with three producers passes a start of round (block 3), the
  first advance of the irreversible block (block 2), the first activation of
  a pending schedule (block 5), the first pruning of the fork database and
  the wrap of the 4-slot summary ring. Height 6 with the gap reaches two
  pending schedules at once.
* Two forks that split at the first block, one longer than the other, give
  fork switches in both directions, switches that fail on the first and on a
  later block of the new branch, equal-height forks that are ignored, and
  switches after pops.
* The first block leaves `current_absolute_slot` at 1 whatever its slot
  (`missed_blocks` is forced to 0 when the head number is 0): the chains of
  `MCChainController` name producers by the code's rotation, not by
  `slot mod 3`.
* Two or three signing keys give `generate_block` the right key, a wrong key
  and a producer that is not scheduled.
* The transactions of `pending_safety` reach every branch of
  `_push_transaction`: a first shard, a second shard, a scope conflict that
  opens a new cycle, a throw after scheduling, a failed authorization, an
  account that is not there, and the shard number past the last shard. Its delivered blocks reach the three
  ends of the transaction loops of `__apply_block`: every transaction
  applied, one that throws after another was applied, and a receipt without
  its transaction.
* References to every block of both forks, at heights 0 to 5 over a ring of
  4 slots, give TaPoS a block on the head's chain, one on the other fork at
  the same height, and one whose slot was overwritten.
* The invalid tips fail at different places: the signature in
  `validate_block_header`, which the checkpoint gate switches off; the
  action Merkle root after the transactions; and the block Merkle root in
  `update_global_dynamic_data`, at a start of round, after
  `update_global_properties` has written the pending schedule, so that the
  throw leaves a write for the session to take back. All are at height 3,
  above the checkpoints of `recovery` (heights 1 and 2).
* A torn write needs a call that appends to the log: the delivered blocks 1
  and 1-2 of `produce_safety`, and every chain of `recovery`, contain one.

### Properties of the passing runs

| Property | Kind | Runs | Says |
|---|---|---|---|
| `TypeOK` | invariant | `fork_safety` | the variables have the shapes the operators assume; in particular the bitmap stays in its width |
| `LogIsPrefixOfHead` | invariant | `fork_safety` | the log is the head's chain up to the log's length |
| `UndoCoversReversible` | invariant | `fork_safety`, `produce_safety`, `pending_safety` | revision = head number (+1 with a pending session); one undo record per block above the log |
| `TaposBindsToFork` | invariant | `fork_safety` | the summary ring `create_block_summary` writes, through wrap, undo and fork switch: of the blocks a transaction can refer to, `validate_tapos` accepts exactly the head's ancestors the ring still reaches. Nothing calls `validate_tapos`, so this is about the ring and not about what `push_transaction` accepts |
| `RestartResumesAtLog` | invariant | `fork_safety`, `produce_safety` | from every state in which the node serves, a restart succeeds and leaves the head at the last block of the log; on a kept store the state is that of a node that applied just the log (`fork_safety` restarts with the store deleted only; the kept store is that of `produce_safety`) |
| `IrreversibleIsConfirmed` | invariant | `recovery` | the share `IrreversibleThresholdPercent` of the active producers has confirmed a block at or above the irreversible one: a count-based definition of what `nth_element` at `offset` computes |
| `ShardsAreExclusive` | invariant | `pending_safety` | no transaction of a shard writes a scope that another shard of the cycle reads or writes |
| `ThrowLeavesHeadState` | action | `fork_safety`, `pending_safety` | a call that throws leaves the state of the head block unchanged |
| `ProducedBlockReplays` | action | `produce_safety`, `pending_safety` | a produced block, applied by `_push_block`'s session to the state it was built on, is valid and gives the producer's state |
| `SwitchPopsAllReversible` | invariant | `recovery` | does not rule the hang out, it says where it is: when the pop loop of a fork switch hangs, it has popped every reversible block: the head is the last block of the log, no undo record is left, and the fork database holds a longer branch that forks below that block |
| `CheckpointsRespected` | action | `recovery` | a step that puts a new block at a checkpointed height puts the checkpoint there |
| `ImplementsLedger` | refinement | `fork_safety`, `recovery` | the controller implements `Ledger` (section 4) |
| `ServesAgain` | liveness | `recovery` | a node that hangs or does not start serves again (section 5) |

The invariants are stated for the states in which the node serves calls.
`IrreversibleIsConfirmed` also holds under the constants of `fork_safety` and
`produce_safety`.

Each property of each passing run is paired in `PROJECT.json` with a variant
of one definition that models a plausible slip in the code: a shift that keeps
the bits past the width, a log write that goes one block past the irreversible one, a session kept after
a throw, a ring read one slot further, a restore that does not re-apply, a replay
that stops one block early, a checkpoint gate that skips the checks above the last checkpoint too, a pop that leaves the store alone, a block Merkle root that is not compared, a
pending block dropped without its session, a receipt without its input
transaction, sessions kept at spin-up, a temporary session that is not
squashed, a shard chosen without the schedule, the changes of a failed
transaction kept, a checkpoint not compared, the log compared with a store at
genesis, and the element one above the offset. TLC finds the property
violated with the variant in place. The variants are the operators defined
directly before the definitions they replace.

### What the violations show

Each of these runs checks one property that the specification, a comment or
an assertion of the code states, and TLC finds a behaviour of the code that
breaks it. Blocks are written by the slots of their chain. The behaviours
below are ones TLC reported; run on several workers it may report another
of the same length, with the same mechanism.

1. **`replay_divergence`** (`StateIsFunctionOfHead`, line 1195). The
   activation of a pending schedule is guarded by
   `new_lib > last_block_on_disk`. Blocks 1 and 1-2 are pushed and the
   node produces blocks 3, 4 and 5: block 5 makes block 4 irreversible and
   activates and erases the schedule pending since block 3. The node is
   restarted with its store deleted and replays the four blocks of its log;
   it produces block 5 again, the log already holds block 4, the guard is
   false, and the entry of block 3 stays pending: the same head block, and a
   state that no node has that applied the chain as it arrived.
2. **`erase_loop`** (`EraseLoopEnds`, line 1206). On the single chain of
   slots 1,2,3,4,7,8 the irreversible block goes from 3 to 5 at block 6 while
   the entries of blocks 3 and 6 are pending. The loop erases the first and
   then spins on the second.
3. **`duplicate_push`** (`DuplicateIsRejected`, line 269). Push a block,
   push transaction 1, push it again: the pending block lists it twice and
   its authorizer is charged twice. `_push_transaction` calls neither
   `validate_uniqueness` nor `record_transaction` (nor `validate_tapos` and
   `validate_expiration`), and `__apply_block` checks no transaction, so the
   block is accepted by every node. The specification lists the scenario
   with the result `tx_duplicate`.
4. **`rejected_in_log`** (`LogIsPrefixOfHead`, lines 468 and 479). Push 1,
   then an invalid 1-2 (removed, still head of the fork database). Produce
   blocks in slots 3 and 4: the second makes height 2 irreversible before the
   produced block is in the fork database, and the walk from the rejected
   block writes the rejected block to the log. With a valid tip of another
   fork as the fork database's head the log receives a block of that fork,
   and such a log cannot be replayed. When the walk finds no block at all
   (push 1, 2, 2-3, 1-2, 1-2-3: the pops of the second switch leave the fork
   database's head at height 1) the empty optional is read behind an
   `assert`.
5. **`generate_retry`** (`NoEmptyOptionalRead`, line 446). `generate_block`
   with a key that is not the producer's throws after
   `_finalize_pending_cycle` has reset the cycle trace; the pending block
   stays, and the next `generate_block` finalizes a trace that is not there.
6. **`pending_leak`** (`PendingIsProvisional`, line 490). `push_transaction`,
   then `pop_block`: the pending session is reset, the pending block and its
   trace stay. The next `generate_block` starts no session, records the
   deferred transactions of the trace in the head state, and throws on a
   wrong key: the head block is the same and its state is not.
7. **`torn_restart`** (`NodeStarts`, line 1067). Push 1, 1-2, and stop inside
   the push of 1-2-3 after the newly irreversible block was appended to the
   log and before the commit. The log on disk is one block ahead of the
   store.
   `_spinup_fork_db` asserts that the two agree unless the store is at
   genesis, before the constructor reaches the replay that is written for
   this state; the node starts only once its store is deleted.
8. **`restore_throws`** (`ThrowLeavesHeadState`, line 215). Push 2, push 1
   (ignored), add the checkpoints 1 at height 1 and 2-3 at height 2, push
   1-2. The switch pops block 2, applies block 1 and fails on 1-2 at the
   checkpoint of height 2; the loop that restores the old branch has no
   `try`, block 2 does not pass the checkpoint at height 1, and the
   exception of the restore leaves the call with the chain at genesis. Without checkpoints the restore cannot
   fail, and `fork_safety` checks the same property.

## 4. The abstract specification and the refinement

`Ledger` is what the controller promises the rest of the node: two variables,
`head` (a valid chain) and `irreversible` (its first blocks that can no more
be undone), and one action, `MoveTo(chain, n)`: the node moves to the tip of
a valid chain whose first `n` blocks are irreversible and include the blocks
that were irreversible before. Extension, fork switch, pop and restart are
all instances of it.

`MCChainController` instantiates `Ledger` with

    head         <- the head block id while the node serves, else the last block of the log
    irreversible <- the last block of the log
    Chains       <- the chains of the block tree whose blocks have the right roots and their producer's signature

and `ImplementsLedger` is `Ledger!Spec`, checked as a property of
`fork_safety` (forks, invalid blocks, pops, replay) and of `recovery`
(crashes between append and commit, both kinds of restart, checkpoints
below the unsigned block). A node that does
not serve is mapped to its log because its memory is lost with the process.
The refinement is checked only in runs without production, where the set of
valid chains is the finite block tree.

## 5. Fairness and liveness

The controller has no thread of its own: its callers decide when a call is
made, so nothing in the code justifies fairness of `PushBlock`,
`GenerateBlock` or `PushTransaction`, and none is assumed. The one assumption
is about the operator: a node that does not serve (a call hangs in a loop or
read an empty optional, or the constructor threw) is in the end stopped and
started again with its store deleted: `Fairness == WF_vars(Recover)` with
`Recover == ~Serving /\ Restart(TRUE)`. `FairSpec` is `Spec` with that
formula written out as `[]<>~CanRecover \/ []<><<Recover>>_vars`, where
`CanRecover` is the enabling condition of `<<Recover>>_vars` as a state
predicate, because TLC evaluates `ENABLED` of an action of this size without
caching.

`ServesAgain == []<>Serving` then says that replay always works on what the
node itself wrote: whatever call left the node hanging or dead, and at
whatever point, the log can be replayed and the node serves again. A call
that hangs or reads an empty optional in `update_last_irreversible_block`
leaves what it did before that point: the raised number and the blocks it
appended to the log. The run has no production, so the log of
`rejected_in_log`, which cannot be replayed, does not occur in it. The run
reaches the outcomes `"erase_loop"`, `"pop_loop"`, `"undefined"` and
`"no_start"`. Without
the fairness assumption the property fails at once (the node may stay down),
and with a restart on the kept store only it fails by `torn_restart`.

The two loops that may not end are modelled as outcomes of the call, which
turns their termination into a state property (`EraseLoopEnds`).

## 6. Open points

* Production at or below a checkpoint never passes the gate of
  `_apply_block` (line 468): `generate_block` applies its block with the
  pending state and not through `_apply_block`. TLC shows a violation of
  `CheckpointsRespected` when checkpoints are added to a producing run; the
  runs with checkpoints therefore have no production. It has no run of its
  own.
* The endless pop loop of the fork switch (line 186) is reached as an
  outcome, by a longer fork that branches below the irreversible block
  (push 1, 2, 1-2, 2-3, 2-3-4). `SwitchPopsAllReversible` states that this
  is the only way when the pops are `push_block`'s own; with direct
  `pop_block` calls the loop also hangs without such a branch (push 1, 1-2,
  pop, push 1-2-3), which is why the property is checked in `recovery` and
  not in `fork_safety`. Whether the hang is real depends on what `undo` and
  `fork_database::pop_block` do at their limits, which is outside the
  source tree.
* Below the last checkpoint every skippable check is off (line 517), also
  at heights no checkpoint pins: with a checkpoint at height 2 only, an
  unsigned block at height 1 becomes the head, and `ImplementsLedger` fails
  once such a block is among those delivered. The code and its
  specification agree on this, so it is not a finding; the runs check that
  the trust ends at the last checkpoint.
* `validate_scope` is not called either (line 683): a transaction
  authorized from outside its write scope is scheduled and applied, and in
  `pending_safety` transactions 1 and 4, both authorized by `pa`, are in
  two shards of one cycle and both charge `pa`'s usage. The specification
  requires every authorizer in the write scope. The shards are applied one
  after the other, so the shared usage object is not yet a conflict; the
  missing call is of the kind `duplicate_push` shows and has no run of its
  own.
* `last_irreversible_block_num` is stored in the undoable state and goes
  down with a pop, where the specification says it never decreases;
  `ImplementsLedger` states the monotonicity of the log, which is what the
  node has really made final.
* Skip flags other than `skip_transaction_signatures` and those of replay
  are not varied.
* Blocks delivered by the network carry transactions in `pending_safety`
  only, in one shard of one cycle.

## 7. Running

    tlc -workers 2 -config ForkSafety.cfg MCChainController

and likewise for every other `.cfg`. `fork_safety`, `produce_safety` and `recovery` take
about two minutes each, `pending_safety` about a minute,
every other run a few seconds.
