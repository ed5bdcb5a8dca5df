------------------------------ MODULE Recovery ------------------------------
(***************************************************************************)
(* The start of the chain controller on what a stopped node left behind    *)
(* (libraries/chain/chain_controller.cpp): the constructor with            *)
(* _initialize_chain, _spinup_db, _spinup_fork_db and replay.              *)
(*                                                                         *)
(* The store and the block log are on disk and outlive the process; the    *)
(* fork database, the pending block and the checkpoints do not.  A store   *)
(* that was deleted is created anew by _initialize_chain.                  *)
(***************************************************************************)
EXTENDS PendingBuilder

CONSTANTS
    InitialProducers,  \* the genesis schedule, a sequence of producers
    InitialVotes,      \* the producers by votes at genesis
    GenesisTime        \* the slot of the chain start time

GenesisDb ==
    [head_block_number |-> 0, head_block_id |-> <<>>, time |-> GenesisTime,
     current_producer |-> NoProducer, current_absolute_slot |-> 0,
     recent_slots_filled |-> 0 .. BitmapWidth - 1,
     last_irreversible_block_num |-> 0,
     active_producers |-> [version |-> 0, producers |-> InitialProducers],
     pending_active_producers |-> <<>>,
     producers_authority |-> {},
     producers |-> [p \in Producers |-> [last_confirmed_block_num |-> 0,
                                         last_aslot |-> 0, total_missed |-> 0]],
     votes |-> InitialVotes,
     block_summary |-> [i \in 0 .. SummarySlots - 1 |-> <<>>],
     generated_transactions |-> {}, transactions |-> {},
     bandwidth_usage |-> [a \in Accounts |-> 0]]

GenesisStore == [db |-> GenesisDb, undo_stack |-> <<>>, revision |-> 0]

(***************************************************************************)
(* The process starts: the members that are not on disk are empty, and a   *)
(* store without global properties is initialized.                         *)
(***************************************************************************)
Opened(disk, wiped) ==
    [store |-> IF wiped THEN GenesisStore ELSE disk.store,
     block_log |-> disk.block_log,
     fork_db |-> ForkDb!Empty, pending |-> IdlePending, checkpoints |-> <<>>]

(***************************************************************************)
(* The store is rewound to the last commit; its revision must be the       *)
(* number of the head block.                                               *)
(***************************************************************************)
rewound_matches(c) ==
    IF c.store.revision = c.store.db.head_block_number THEN Ok(c) ELSE Throw(c)

(* keeping_sessions leaves the sessions of the stopped process in place.   *)
keeping_sessions(c) == rewound_matches(c)

_spinup_db(c) == rewound_matches([c EXCEPT !.store = Db!undo_all(@)])

(***************************************************************************)
(* The fork database starts at the head of the log, which must be the      *)
(* head block of the store unless the store is at genesis.                 *)
(***************************************************************************)
started_at_log(c, matches) ==
    IF c.block_log = <<>> THEN Ok(c)
    ELSE [status |-> IF matches THEN "ok" ELSE "throw",
          c |-> [c EXCEPT !.fork_db = ForkDb!start_block(@, Last(c.block_log))]]

(* comparing_at_genesis compares the ids also when the store is at genesis. *)
comparing_at_genesis(c) ==
    started_at_log(c, Last(c.block_log) = c.store.db.head_block_id)

_spinup_fork_db(c) ==
    started_at_log(c, \/ Last(c.block_log) = c.store.db.head_block_id
                      \/ c.store.db.head_block_number = 0)

(***************************************************************************)
(* replay applies every block of the log, from the first, outside any      *)
(* session and with most checks skipped, and sets the revision to the      *)
(* head block's number.                                                    *)
(***************************************************************************)
ReplaySkips ==
    {"skip_producer_signature", "skip_transaction_signatures",
     "skip_transaction_dupe_check", "skip_tapos_check",
     "skip_producer_schedule_check", "skip_authority_check", "received_block"}

replay_block(r, block) ==
    IF r.status = "ok" THEN _apply_block(r.c, block, ReplaySkips) ELSE r

revision_set(r) ==
    IF r.status = "ok"
    THEN Ok([r.c EXCEPT !.store = Db!set_revision(@, @.db.head_block_number)])
    ELSE r

(* replaying_all_but_last stops one block before the head of the log.      *)
replaying_all_but_last(c) ==
    revision_set(FoldLeft(replay_block, Ok(c), Front(c.block_log)))

replay(c) == revision_set(FoldLeft(replay_block, Ok(c), c.block_log))

(***************************************************************************)
(* The constructor: spin-up of the store and of the fork database, then    *)
(* replay if the log is ahead of the store.  An exception of any step      *)
(* leaves the constructor.                                                 *)
(***************************************************************************)
replay_if_behind(r) ==
    IF /\ r.status = "ok"
       /\ r.c.block_log # <<>>
       /\ r.c.store.db.head_block_number < Len(r.c.block_log)
    THEN replay(r.c) ELSE r

fork_db_spun(r) == IF r.status = "ok" THEN _spinup_fork_db(r.c) ELSE r

chain_controller(disk, wiped) ==
    replay_if_behind(fork_db_spun(_spinup_db(Opened(disk, wiped))))

=============================================================================
