---------------------------- MODULE BlockApplier ----------------------------
(***************************************************************************)
(* Applying one block to the chain state: header validation, execution of  *)
(* the block's transactions, and _finalize_block with the update of the    *)
(* global and dynamic properties, of the signing producer and of the last  *)
(* irreversible block (libraries/chain/chain_controller.cpp).              *)
(*                                                                         *)
(* The operators are functions of a controller state                       *)
(*   c = [store, fork_db, block_log, pending, checkpoints]                 *)
(* and return an outcome [status, c]: "ok", "throw" (an exception leaves   *)
(* the operation; c is the state at the throw, the caller's session rolls  *)
(* the store back), "erase_loop" or "pop_loop" (the call never leaves      *)
(* that loop) or "undefined" (an empty optional is dereferenced).          *)
(*                                                                         *)
(* A block is its id (see ForkDB); its header is the last element:         *)
(*   [timestamp, producer, signee, new_producers, wrong_mroots, regions,   *)
(*    input_transactions]                                                  *)
(* signee is the producer whose key signed the block, wrong_mroots the     *)
(* Merkle roots of the header that do not match what a validator           *)
(* recomputes.  A transaction is [id, actors, throws, votes, deferred,     *)
(* read_scope, write_scope, wrong_auths]: the accounts that authorize it,  *)
(* whether one of its actions throws, the producer ranking its actions     *)
(* leave in the vote index (<<>>: none), the deferred transactions they    *)
(* generate, its scopes, and the authorization checks it does not pass.    *)
(***************************************************************************)
EXTENDS Scheduler, SequencesExt

CONSTANTS
    Producers,                     \* the producer accounts
    Accounts,                      \* the accounts that exist (have usage objects)
    NoBlock,                       \* an empty optional<signed_block>
    NoSchedule,                    \* a header without new_producers
    IrreversibleThresholdPercent,  \* config::irreversible_threshold_percent
    SummarySlots                   \* slots of the block summary ring (0x10000)

ForkDb == INSTANCE ForkDB
Db == INSTANCE UndoStore

SkipFlags == {"skip_producer_signature", "skip_transaction_signatures",
              "skip_transaction_dupe_check", "skip_fork_db", "skip_tapos_check",
              "skip_authority_check", "skip_merkle_check",
              "skip_producer_schedule_check", "skip_scope_check",
              "received_block"}

Ok(c) == [status |-> "ok", c |-> c]
Throw(c) == [status |-> "throw", c |-> c]

Header(b) == b[Len(b)]
WithDb(c, db) == [c EXCEPT !.store.db = db]

-----------------------------------------------------------------------------
(* Reading blocks                                                          *)

fetch_block_by_id(c, id) ==
    IF ForkDb!is_known_block(c.fork_db, id) \/ Contains(c.block_log, id)
    THEN id ELSE NoBlock

(***************************************************************************)
(* From the log if it is there, else by walking back from the fork         *)
(* database's head.                                                        *)
(***************************************************************************)
fetch_block_by_number(c, num) ==
    IF num \in 1 .. Len(c.block_log) THEN c.block_log[num]
    ELSE IF num <= c.store.db.head_block_number
         THEN ForkDb!ancestor_at(c.fork_db, c.fork_db.head, num)
         ELSE NoBlock

-----------------------------------------------------------------------------
(* Header validation                                                       *)

(***************************************************************************)
(* ok is FALSE when an assertion of validate_block_header fails; producer  *)
(* is the producer scheduled for the block's slot, which the function      *)
(* returns.                                                                *)
(***************************************************************************)
validate_block_header(db, skip, next_block) ==
    LET h == Header(next_block)
        producer == get_scheduled_producer(db, get_slot_at_time(db, h.timestamp))
    IN  [producer |-> producer,
         ok |-> /\ db.head_block_id = ForkDb!previous_id(next_block)
                /\ db.time < h.timestamp
                /\ Len(next_block) % BlocksPerRound # 0 => h.new_producers = NoSchedule
                /\ producer \in Producers
                /\ "skip_producer_signature" \notin skip => h.signee = producer
                /\ "skip_producer_schedule_check" \notin skip => h.producer = producer
                /\ "transaction_mroot" \notin h.wrong_mroots]

-----------------------------------------------------------------------------
(* Transactions of a block                                                 *)

(***************************************************************************)
(* Runs the actions, then charges the bandwidth of every authorizing       *)
(* account; throws when an action throws or an account has no usage        *)
(* object.                                                                 *)
(***************************************************************************)
_apply_transaction(db, trx) ==
    [ok |-> ~trx.throws /\ trx.actors \subseteq Accounts,
     db |-> [db EXCEPT
               !.votes = IF trx.votes # <<>> THEN trx.votes ELSE @,
               !.bandwidth_usage = [a \in DOMAIN @ |->
                                      IF a \in trx.actors THEN @[a] + 1 ELSE @[a]]],
     deferred |-> trx.deferred]

(***************************************************************************)
(* Records the deferred transactions of a cycle's traces.                  *)
(***************************************************************************)
_apply_cycle_trace(db, deferred) ==
    [db EXCEPT !.generated_transactions = @ \cup deferred]

(***************************************************************************)
(* The loops of __apply_block over regions, cycles, shards and receipts:   *)
(* every executed receipt is looked up in input_transactions and applied;  *)
(* trx_index keeps the last transaction of an id;                          *)
(* after each cycle its deferred transactions are recorded.                *)
(***************************************************************************)
append_trace(acc, r) ==
    [ok |-> r.ok, db |-> r.db, deferred |-> acc.deferred \cup r.deferred]

apply_receipt(input, acc, receipt) ==
    LET found == SelectSeq(input, LAMBDA t : t.id = receipt.id)
    IN  CASE ~acc.ok \/ receipt.status # "executed" -> acc
          [] acc.ok /\ receipt.status = "executed" /\ found = <<>>
                                                    -> [acc EXCEPT !.ok = FALSE]
          [] OTHER -> append_trace(acc, _apply_transaction(acc.db, Last(found)))

record_cycle(r) ==
    IF r.ok THEN [r EXCEPT !.db = _apply_cycle_trace(r.db, r.deferred)] ELSE r

apply_cycle(input, acc, cycle) ==
    record_cycle(FoldLeft(LAMBDA a, receipt : apply_receipt(input, a, receipt),
                          [acc EXCEPT !.deferred = {}], FlattenSeq(cycle)))

apply_regions(db, h) ==
    FoldLeft(LAMBDA acc, cycle : apply_cycle(h.input_transactions, acc, cycle),
             [ok |-> TRUE, db |-> db, deferred |-> {}],
             FlattenSeq([i \in 1 .. Len(h.regions) |-> h.regions[i].cycles_summary]))

-----------------------------------------------------------------------------
(* _finalize_block and its steps                                           *)

(***************************************************************************)
(* The two assertions of update_global_properties at the start of a        *)
(* round: new_producers, if given, is the computed schedule, and it is     *)
(* given when the schedule changed.                                        *)
(***************************************************************************)
global_properties_accept(db, b) ==
    LET schedule == _calculate_producer_schedule(db)
        new_producers == Header(b).new_producers
    IN  is_start_of_round(Len(b)) =>
          /\ new_producers # NoSchedule => schedule = new_producers
          /\ _head_producer_schedule(db) # schedule => new_producers # NoSchedule

(***************************************************************************)
(* At the start of a round the computed schedule becomes the pending       *)
(* entry of this block number, and the producers' authority is rebuilt     *)
(* from the active schedule.                                               *)
(***************************************************************************)
update_global_properties(db, b) ==
    LET schedule == _calculate_producer_schedule(db)
        pending == db.pending_active_producers
    IN  IF ~is_start_of_round(Len(b)) THEN db
        ELSE [db EXCEPT
               !.pending_active_producers =
                   IF pending # <<>> /\ Last(pending)[1] = Len(b)
                   THEN [pending EXCEPT ![Len(pending)][2] = schedule]
                   ELSE Append(pending, <<Len(b), schedule>>),
               !.producers_authority = ToSet(db.active_producers.producers)]

(***************************************************************************)
(* Counts the slots missed since the head, charges them to the producers   *)
(* scheduled for them, and moves the head to b.  The fork database is      *)
(* resized with the last irreversible block as it was before this block.   *)
(***************************************************************************)
update_global_dynamic_data(c, b) ==
    LET db == c.store.db
        h == Header(b)
        missed_blocks == (IF db.head_block_number = 0 THEN 1
                          ELSE get_slot_at_time(db, h.timestamp)) - 1
        missed_by(p) == {i \in 1 .. missed_blocks : get_scheduled_producer(db, i) = p}
        after == [db EXCEPT
            !.producers = [p \in DOMAIN @ |->
                IF p # h.producer
                THEN [@[p] EXCEPT !.total_missed = @ + Cardinality(missed_by(p))]
                ELSE @[p]],
            !.head_block_number = Len(b),
            !.head_block_id = b,
            !.time = h.timestamp,
            !.current_producer = h.producer,
            !.current_absolute_slot = @ + missed_blocks + 1,
            !.recent_slots_filled = shift_recent_slots(@, missed_blocks)]
    IN  [c EXCEPT
           !.store.db = after,
           !.fork_db = ForkDb!set_max_size(@,
               Len(b) - db.last_irreversible_block_num + 1)]

(***************************************************************************)
(* get_slot_at_time runs after the head time became the block's time, so   *)
(* it yields 0 and last_aslot is the new absolute slot.                    *)
(***************************************************************************)
update_signing_producer(db, signing_producer, new_block) ==
    [db EXCEPT !.producers[signing_producer] =
        [@ EXCEPT !.last_aslot = db.current_absolute_slot
                                   + get_slot_at_time(db, Header(new_block).timestamp),
                  !.last_confirmed_block_num = Len(new_block)]]

(* summary_off_by_one indexes the ring by the number of the next block.    *)
summary_off_by_one(db, next_block) ==
    [db EXCEPT !.block_summary[(Len(next_block) + 1) % SummarySlots] = next_block]

create_block_summary(db, next_block) ==
    [db EXCEPT !.block_summary[Len(next_block) % SummarySlots] = next_block]

(***************************************************************************)
(* The last_confirmed_block_num that all but a share of the active         *)
(* producers have reached: the element nth_element puts at offset.         *)
(***************************************************************************)
confirmed_sorted(db) ==
    SortSeq([i \in DOMAIN db.active_producers.producers |->
                db.producers[db.active_producers.producers[i]].last_confirmed_block_num],
            <)

threshold_offset(size) ==
    (size * (Percent100 - IrreversibleThresholdPercent)) \div Percent100

(* rounding_offset_up takes the element one above the offset.              *)
rounding_offset_up(db) ==
    confirmed_sorted(db)[threshold_offset(Len(db.active_producers.producers)) + 2]

irreversible_block_num(db) ==
    confirmed_sorted(db)[threshold_offset(Len(db.active_producers.producers)) + 1]

(***************************************************************************)
(* What the erase loop leaves of the pending schedules: it removes the     *)
(* front entry while that is below new_lib, and cannot leave the loop      *)
(* while an entry remains.                                                 *)
(***************************************************************************)
pending_not_erased(pending, new_lib) ==
    LET first_kept == SelectInSeq(pending, LAMBDA item : item[1] >= new_lib)
    IN  IF first_kept = 0 THEN <<>> ELSE SubSeq(pending, first_kept, Len(pending))

(***************************************************************************)
(* The blocks between the head of the log and new_lib, fetched by number,  *)
(* in the order they are appended.  writing_one_more goes one block past   *)
(* new_lib.                                                                *)
(***************************************************************************)
writing_one_more(c, new_lib) ==
    [i \in 1 .. new_lib + 1 - Len(c.block_log) |->
        fetch_block_by_number(c, Len(c.block_log) + i)]

blocks_to_write(c, new_lib) ==
    [i \in 1 .. new_lib - Len(c.block_log) |->
        fetch_block_by_number(c, Len(c.block_log) + i)]

(***************************************************************************)
(* The pending schedules announced below new_lib, when the log is behind   *)
(* new_lib; the last of them is the one to activate.                       *)
(***************************************************************************)
new_producer_schedule(c, new_lib) ==
    IF new_lib > Len(c.block_log)
    THEN SelectSeq(c.store.db.pending_active_producers,
                   LAMBDA item : item[1] < new_lib)
    ELSE <<>>

(***************************************************************************)
(* The irreversible block number is raised first, in the undoable state.   *)
(***************************************************************************)
raise_irreversible(db, new_lib) ==
    [db EXCEPT !.last_irreversible_block_num = IF new_lib > @ THEN new_lib ELSE @]

(***************************************************************************)
(* The schedule, if one is announced, becomes active and the pending       *)
(* entries are erased.                                                     *)
(***************************************************************************)
activate_schedule(db, announced) ==
    [db EXCEPT
       !.pending_active_producers = IF announced # <<>> THEN <<>> ELSE @,
       !.active_producers = IF announced # <<>> THEN Last(announced)[2] ELSE @]

(***************************************************************************)
(* The steps of update_last_irreversible_block once new_lib is known: the  *)
(* number is raised, the newly irreversible blocks are written to the      *)
(* log, the latest schedule announced below new_lib is activated, the      *)
(* fork database is trimmed and the store committed.  A call that reads    *)
(* an empty optional or spins in the erase loop has done the steps before  *)
(* that point: the blocks fetched before the empty one are in the log, and *)
(* the loop has erased the entries below new_lib.                          *)
(***************************************************************************)
write_and_activate(c, new_lib, to_write, announced) ==
    LET raised == WithDb(c, raise_irreversible(c.store.db, new_lib))
        empty == SelectInSeq(to_write, LAMBDA block : block = NoBlock)
        kept == pending_not_erased(c.store.db.pending_active_producers, new_lib)
        written == [raised EXCEPT !.block_log = @ \o to_write]
    IN  CASE empty # 0 ->
               [status |-> "undefined",
                c |-> [raised EXCEPT !.block_log = @ \o SubSeq(to_write, 1, empty - 1)]]
          [] empty = 0 /\ announced # <<>> /\ kept # <<>> ->
               [status |-> "erase_loop",
                c |-> [written EXCEPT !.store.db.pending_active_producers = kept]]
          [] OTHER -> Ok([written EXCEPT
                !.fork_db = ForkDb!set_max_size(@, c.store.db.head_block_number - new_lib + 1),
                !.store = Db!commit(
                    [@ EXCEPT !.db = activate_schedule(@, announced)], new_lib)])

advance_irreversible(c, new_lib) ==
    write_and_activate(c, new_lib, blocks_to_write(c, new_lib),
                       new_producer_schedule(c, new_lib))

update_last_irreversible_block(c) ==
    advance_irreversible(c, irreversible_block_num(c.store.db))

(***************************************************************************)
(* _finalize_block: the header is validated again, then the properties,    *)
(* the signing producer, the irreversible block and the summary ring are   *)
(* updated, in this order.  update_global_dynamic_data compares the block  *)
(* Merkle root after update_global_properties has written.                 *)
(***************************************************************************)
summarized(r, b) ==
    IF r.status = "ok" THEN Ok(WithDb(r.c, create_block_summary(r.c.store.db, b)))
    ELSE r

signed_by(c, signing_producer, b) ==
    WithDb(c, update_signing_producer(c.store.db, signing_producer, b))

(* trusting_block_mroot does not compare the block Merkle root.             *)
trusting_block_mroot(c, header, b) ==
    IF header.ok /\ global_properties_accept(c.store.db, b)
    THEN summarized(
            update_last_irreversible_block(
                signed_by(update_global_dynamic_data(
                              WithDb(c, update_global_properties(c.store.db, b)), b),
                          header.producer, b)),
            b)
    ELSE Throw(c)

finalize_validated(c, header, b) ==
    LET props == WithDb(c, update_global_properties(c.store.db, b))
    IN  CASE ~(header.ok /\ global_properties_accept(c.store.db, b)) -> Throw(c)
          [] header.ok /\ global_properties_accept(c.store.db, b)
             /\ "block_mroot" \in Header(b).wrong_mroots -> Throw(props)
          [] OTHER -> summarized(
                          update_last_irreversible_block(
                              signed_by(update_global_dynamic_data(props, b),
                                        header.producer, b)),
                          b)

_finalize_block(c, skip, b) ==
    finalize_validated(c, validate_block_header(c.store.db, skip, b), b)

(***************************************************************************)
(* __apply_block: validate the header, check the order of the regions,     *)
(* apply the transactions, compare the action Merkle root, finalize.  A    *)
(* block that throws here has applied the transactions before the one      *)
(* that failed.                                                            *)
(***************************************************************************)
finalize_applied(c, skip, next_block, body) ==
    IF body.ok /\ "action_mroot" \notin Header(next_block).wrong_mroots
    THEN _finalize_block(WithDb(c, body.db), skip, next_block)
    ELSE Throw(WithDb(c, body.db))

__apply_block(c, skip, next_block) ==
    LET regions == Header(next_block).regions
    IN  IF /\ validate_block_header(c.store.db, skip, next_block).ok
           /\ \A i \in 2 .. Len(regions) : regions[i-1].region < regions[i].region
        THEN finalize_applied(c, skip, next_block,
                              apply_regions(c.store.db, Header(next_block)))
        ELSE Throw(c)

(***************************************************************************)
(* _apply_block: once checkpoints are set (and the highest one is not a    *)
(* zero id), a block at a checkpointed height must be the checkpoint, and  *)
(* a block not above the highest checkpoint is applied with every check    *)
(* skipped.  checkpoints is a function from heights to ids.                *)
(***************************************************************************)
(* trusting_below_checkpoint leaves out the comparison with the            *)
(* checkpoint of the block's own height.                                   *)
trusting_below_checkpoint(c, next_block, skip) ==
    LET heights == DOMAIN c.checkpoints
        last == CHOOSE n \in heights : \A m \in heights : m <= n
    IN  __apply_block(c, IF heights # {} /\ c.checkpoints[last] # <<>>
                            /\ last >= Len(next_block)
                         THEN SkipFlags ELSE skip,
                      next_block)

(* trusting_above_checkpoint skips every check of every block once a       *)
(* checkpoint is set, whatever the block's height.                         *)
trusting_above_checkpoint(c, next_block, skip) ==
    LET heights == DOMAIN c.checkpoints
        last == CHOOSE n \in heights : \A m \in heights : m <= n
        gated == heights # {} /\ c.checkpoints[last] # <<>>
    IN  IF gated /\ Len(next_block) \in heights
                 /\ c.checkpoints[Len(next_block)] # next_block
        THEN Throw(c)
        ELSE __apply_block(c, IF gated THEN SkipFlags ELSE skip, next_block)

_apply_block(c, next_block, skip) ==
    LET block_num == Len(next_block)
        heights == DOMAIN c.checkpoints
        last == CHOOSE n \in heights : \A m \in heights : m <= n
        gated == heights # {} /\ c.checkpoints[last] # <<>>
    IN  IF gated /\ block_num \in heights /\ c.checkpoints[block_num] # next_block
        THEN Throw(c)
        ELSE __apply_block(c, IF gated /\ last >= block_num THEN SkipFlags ELSE skip,
                           next_block)

=============================================================================
