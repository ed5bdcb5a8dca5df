--------------------------- MODULE PendingBuilder ---------------------------
(***************************************************************************)
(* The pending block of the chain controller and push_transaction          *)
(* (libraries/chain/chain_controller.cpp): the block the node is building, *)
(* the undo session that holds its changes, the scheduling state of its    *)
(* open cycle and the traces of that cycle.                                *)
(*                                                                         *)
(* pending = [block, block_trace, session, cycle, cycle_trace]: block is   *)
(* NoPending or [cycles_summary, input_transactions], session tells        *)
(* whether _pending_block_session holds a session, cycle is the            *)
(* pending_cycle_state, cycle_trace is NoTrace or the traces by shard.     *)
(***************************************************************************)
EXTENDS TransactionChecks, FiniteSets

CONSTANTS
    NoPending,         \* an empty optional<signed_block>
    NoTrace            \* an empty optional<cycle_trace>

IdlePending ==
    [block |-> NoPending, block_trace |-> <<>>, session |-> FALSE,
     cycle |-> [read_scopes |-> {}, write_scope_to_shard |-> <<>>, shards |-> 0],
     cycle_trace |-> NoTrace]

(***************************************************************************)
(* Adds an empty shard to the last cycle of the pending block and to the   *)
(* pending cycle trace.                                                    *)
(***************************************************************************)
_start_pending_shard(p) ==
    [p EXCEPT !.block.cycles_summary[Len(p.block.cycles_summary)] = Append(@, <<>>),
              !.cycle_trace = Append(@, <<>>)]

(***************************************************************************)
(* Opens a cycle: a new entry of cycles_summary, a fresh scheduling state  *)
(* and cycle trace, and the first shard.                                   *)
(***************************************************************************)
_start_pending_cycle(p) ==
    _start_pending_shard(
        [p EXCEPT !.block.cycles_summary = Append(@, <<>>),
                  !.cycle = IdlePending.cycle,
                  !.cycle_trace = <<>>])

(***************************************************************************)
(* Opens the pending block and the undo session that holds its changes.    *)
(***************************************************************************)
_start_pending_block(c) ==
    [c EXCEPT
       !.store = Db!start_undo_session(@),
       !.pending = _start_pending_cycle(
           [@ EXCEPT !.block = [cycles_summary |-> <<>>, input_transactions |-> <<>>],
                     !.block_trace = <<>>,
                     !.session = TRUE])]

(***************************************************************************)
(* Closes the cycle: the deferred transactions of its traces are recorded, *)
(* the cycle trace joins the block trace and is reset.  A transaction      *)
(* trace is [id, deferred].                                                *)
(***************************************************************************)
_finalize_pending_cycle(c) ==
    LET traces == FlattenSeq(c.pending.cycle_trace)
        deferred == UNION {traces[i].deferred : i \in 1 .. Len(traces)}
    IN  [c EXCEPT
           !.store.db = _apply_cycle_trace(@, deferred),
           !.pending.block_trace = Append(@, c.pending.cycle_trace),
           !.pending.cycle_trace = NoTrace]

(***************************************************************************)
(* clear_pending resets the block, its trace and its session; the session  *)
(* rolls back what the pending transactions changed.  The cycle state and  *)
(* the cycle trace are left as they are.                                   *)
(***************************************************************************)
(* dropping_pending_block resets the block and forgets the session         *)
(* without rolling it back.                                                *)
dropping_pending_block(c) ==
    [c EXCEPT !.pending = [@ EXCEPT !.block = NoPending, !.block_trace = <<>>,
                                    !.session = FALSE]]

clear_pending(c) ==
    [c EXCEPT
       !.store = IF c.pending.session THEN Db!undo(@) ELSE @,
       !.pending = [@ EXCEPT !.block = NoPending, !.block_trace = <<>>,
                             !.session = FALSE]]

-----------------------------------------------------------------------------
(* push_transaction                                                        *)

(***************************************************************************)
(* _pending_cycle.schedule(trx): the shard of the open cycle the           *)
(* transaction goes to, or -1 when it needs a new cycle.  A scope is       *)
(* written in one shard only, and no scope that was read is written.  The  *)
(* transaction joins the shard that writes one of its scopes, or opens a   *)
(* shard; its scopes are then that shard's.                                *)
(***************************************************************************)
schedule(cycle, trx) ==
    LET written == DOMAIN cycle.write_scope_to_shard
        hit == {cycle.write_scope_to_shard[s] :
                   s \in (trx.write_scope \cup trx.read_scope) \cap written}
        shardnum == IF hit = {} THEN cycle.shards ELSE CHOOSE n \in hit : TRUE
    IN  IF trx.write_scope \cap cycle.read_scopes # {} \/ Cardinality(hit) > 1
        THEN [shardnum |-> -1, cycle |-> cycle]
        ELSE [shardnum |-> shardnum,
              cycle |-> [read_scopes |-> cycle.read_scopes \cup trx.read_scope,
                         write_scope_to_shard |->
                             [s \in written \cup trx.write_scope |->
                                 IF s \in written THEN cycle.write_scope_to_shard[s]
                                 ELSE shardnum],
                         shards |-> IF hit = {} THEN cycle.shards + 1
                                    ELSE cycle.shards]]

(***************************************************************************)
(* The end of _push_transaction: a shard is added when the shard number    *)
(* is past the last one, then the receipt, the trace and the transaction   *)
(* are appended and the temporary session is squashed.  at(shardnum)       *)
(* throws when one more shard was not enough; the temporary session then   *)
(* rolls the store back.                                                   *)
(* leaking_temp_session keeps the temporary session on the stack;          *)
(* forgetting_input leaves the transaction out of input_transactions.      *)
(***************************************************************************)
receipted(p, trx, shardnum) ==
    [p EXCEPT
       !.block.cycles_summary[Len(p.block.cycles_summary)][shardnum + 1] =
           Append(@, [status |-> "executed", id |-> trx.id]),
       !.cycle_trace[shardnum + 1] =
           Append(@, [id |-> trx.id, deferred |-> trx.deferred])]

leaking_temp_session(c, p, trx, shardnum) ==
    Ok([c EXCEPT !.pending = [receipted(p, trx, shardnum) EXCEPT
                                 !.block.input_transactions = Append(@, trx)]])

forgetting_input(c, p, trx, shardnum) ==
    Ok([c EXCEPT !.pending = receipted(p, trx, shardnum),
                 !.store = Db!squash(@)])

append_receipt(c, p, trx, shardnum) ==
    IF shardnum >= Len(Last(p.block.cycles_summary))
    THEN Throw([c EXCEPT !.pending = p, !.store = Db!undo(@)])
    ELSE Ok([c EXCEPT !.pending = [receipted(p, trx, shardnum) EXCEPT
                                      !.block.input_transactions = Append(@, trx)],
                      !.store = Db!squash(@)])

place_in_shard(c, trx, shardnum) ==
    append_receipt(c, IF shardnum >= Len(Last(c.pending.block.cycles_summary))
                      THEN _start_pending_shard(c.pending) ELSE c.pending,
                   trx, shardnum)

(***************************************************************************)
(* A schedule conflict: the cycle is finalized, a new one is started and   *)
(* the transaction is scheduled in it.                                     *)
(***************************************************************************)
schedule_again(c, trx) ==
    place_in_shard([c EXCEPT !.pending.cycle = schedule(@, trx).cycle],
                   trx, schedule(c.pending.cycle, trx).shardnum)

place_in_new_cycle(c, trx) ==
    schedule_again([_finalize_pending_cycle(c) EXCEPT
                       !.pending = _start_pending_cycle(@)], trx)

(***************************************************************************)
(* The transaction was scheduled, and applied with the result applied.     *)
(* One that throws leaves through the temporary session, which rolls the   *)
(* store back; the scheduling state is not in the store.  The cycle trace  *)
(* is an optional: every path from here reads it.                          *)
(* keeping_failed_changes has no temporary session to drop;                *)
(* joining_first_shard has no new cycle for a schedule conflict.           *)
(***************************************************************************)
joining_first_shard(c, trx, shardnum, applied) ==
    CASE ~applied.ok -> Throw([c EXCEPT !.store = Db!undo(@)])
      [] applied.ok /\ c.pending.cycle_trace = NoTrace
                     -> [status |-> "undefined", c |-> c]
      [] OTHER       -> place_in_shard(WithDb(c, applied.db), trx,
                                       IF shardnum = -1 THEN 0 ELSE shardnum)

keeping_failed_changes(c, trx, shardnum, applied) ==
    CASE ~applied.ok -> Throw([WithDb(c, applied.db) EXCEPT !.store = Db!squash(@)])
      [] applied.ok /\ c.pending.cycle_trace = NoTrace
                     -> [status |-> "undefined", c |-> c]
      [] applied.ok /\ c.pending.cycle_trace # NoTrace /\ shardnum = -1
                     -> place_in_new_cycle(WithDb(c, applied.db), trx)
      [] OTHER       -> place_in_shard(WithDb(c, applied.db), trx, shardnum)

place_applied(c, trx, shardnum, applied) ==
    CASE ~applied.ok -> Throw([c EXCEPT !.store = Db!undo(@)])
      [] applied.ok /\ c.pending.cycle_trace = NoTrace
                     -> [status |-> "undefined", c |-> c]
      [] applied.ok /\ c.pending.cycle_trace # NoTrace /\ shardnum = -1
                     -> place_in_new_cycle(WithDb(c, applied.db), trx)
      [] OTHER       -> place_in_shard(WithDb(c, applied.db), trx, shardnum)

apply_scheduled(c, trx, scheduled) ==
    place_applied([c EXCEPT !.pending.cycle = scheduled.cycle], trx,
                  scheduled.shardnum, _apply_transaction(c.store.db, trx))

(***************************************************************************)
(* _push_transaction: a pending block is started if there is none; the     *)
(* transaction is checked, scheduled and applied in a temporary session.   *)
(***************************************************************************)
push_in_session(started, trx, skip) ==
    IF validate_referenced_accounts(trx) /\ check_authorization(trx, FALSE, skip)
    THEN apply_scheduled([started EXCEPT !.store = Db!start_undo_session(@)],
                         trx, schedule(started.pending.cycle, trx))
    ELSE Throw(started)

_push_transaction(c, trx, skip) ==
    push_in_session(IF c.pending.block = NoPending THEN _start_pending_block(c)
                    ELSE c, trx, skip)

=============================================================================
