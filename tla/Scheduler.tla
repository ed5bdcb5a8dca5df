----------------------------- MODULE Scheduler -----------------------------
(***************************************************************************)
(* Producer rotation and slot arithmetic of the chain controller           *)
(* (libraries/chain/chain_controller.cpp).                                 *)
(*                                                                         *)
(* Every operator is a function of the store's current objects, passed as  *)
(* the record db: the dynamic global properties (head_block_number, time,  *)
(* current_absolute_slot, recent_slots_filled), the global properties      *)
(* (active_producers, pending_active_producers) and the producer vote      *)
(* index (votes).  A block timestamp is its slot number: the code's        *)
(* block_timestamp_type is a slot counter, and only differences of slots   *)
(* are ever computed.                                                      *)
(***************************************************************************)
EXTENDS Integers, Sequences, FiniteSets

CONSTANTS
    ProducerCount,        \* config::producer_count, the length of a schedule
    ProducerRepetitions,  \* config::producer_repititions
    BitmapWidth,          \* bits of recent_slots_filled (64 in the code)
    NullKeyProducers,     \* producers whose block signing key is null
    NoProducer            \* a default-constructed (empty) account name

ASSUME /\ ProducerCount \in Nat \ {0}
       /\ ProducerRepetitions \in Nat \ {0}
       /\ BitmapWidth \in Nat \ {0}

Percent100 == 10000                                  \* config::percent_100
BlocksPerRound == ProducerCount * ProducerRepetitions \* config::blocks_per_round

is_start_of_round(block_num) == block_num % BlocksPerRound = 0

(***************************************************************************)
(* The producer of the slot slot_num slots after the head block.           *)
(***************************************************************************)
get_scheduled_producer(db, slot_num) ==
    LET current_aslot == db.current_absolute_slot + slot_num
        index == (current_aslot % BlocksPerRound) \div ProducerRepetitions
    IN  db.active_producers.producers[index + 1]

(***************************************************************************)
(* Slot 0 is the epoch; both branches of the code (before and after the    *)
(* first block) add slot_num to dpo.time.                                  *)
(***************************************************************************)
get_slot_time(db, slot_num) ==
    IF slot_num = 0 THEN 0 ELSE db.time + slot_num

get_slot_at_time(db, when) ==
    LET first_slot_time == get_slot_time(db, 1)
    IN  IF when < first_slot_time THEN 0 ELSE when - first_slot_time + 1

(***************************************************************************)
(* recent_slots_filled is the set of the bit positions that are set.  The  *)
(* update shifts in a filled slot and then missed_blocks empty ones; bits  *)
(* shifted past the width are lost.  shift_without_width is the shift of   *)
(* an integer wider than the bitmap, which keeps them.                     *)
(***************************************************************************)
shift_without_width(filled, missed_blocks) ==
    {missed_blocks} \cup {i + missed_blocks + 1 : i \in filled}

shift_recent_slots(filled, missed_blocks) ==
    IF missed_blocks < BitmapWidth
    THEN ({missed_blocks} \cup {i + missed_blocks + 1 : i \in filled})
            \cap (0 .. BitmapWidth - 1)
    ELSE {}

producer_participation_rate(db) ==
    (Percent100 * Cardinality(db.recent_slots_filled)) \div BitmapWidth

(***************************************************************************)
(* The schedule most recently announced: the last pending one, else the    *)
(* active one.  A pending entry is <<block_num, schedule>>.                *)
(***************************************************************************)
_head_producer_schedule(db) ==
    IF db.pending_active_producers # <<>>
    THEN db.pending_active_producers[Len(db.pending_active_producers)][2]
    ELSE db.active_producers

(***************************************************************************)
(* The loop of _calculate_producer_schedule over the producers by votes:   *)
(* a name is written at position count before its key is looked at, and    *)
(* count moves on only for a non-null key.  So the result holds the first  *)
(* ProducerCount keyed producers; when there are fewer, the next position  *)
(* keeps the name of a null-key producer if the iteration ended on one,    *)
(* and the rest stay empty.                                                *)
(***************************************************************************)
schedule_producers(votes) ==
    LET keyed == SelectSeq(votes, LAMBDA p : p \notin NullKeyProducers)
        stale == IF votes # <<>> /\ votes[Len(votes)] \in NullKeyProducers
                 THEN votes[Len(votes)] ELSE NoProducer
    IN  [i \in 1 .. ProducerCount |->
            CASE i <= Len(keyed)    -> keyed[i]
              [] i = Len(keyed) + 1 -> stale
              [] OTHER              -> NoProducer]

_calculate_producer_schedule(db) ==
    LET hps == _head_producer_schedule(db)
        producers == schedule_producers(db.votes)
    IN  [version   |-> IF hps.producers # producers THEN hps.version + 1
                                                     ELSE hps.version,
         producers |-> producers]

=============================================================================
