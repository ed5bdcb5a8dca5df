-------------------------- MODULE TransactionChecks --------------------------
(***************************************************************************)
(* The checks the chain controller has for a transaction                   *)
(* (libraries/chain/chain_controller.cpp).  _push_transaction calls        *)
(* validate_referenced_accounts and check_transaction_authorization;       *)
(* nothing calls validate_scope, validate_uniqueness, record_transaction   *)
(* and validate_tapos, and __apply_block checks no transaction at all.     *)
(*                                                                         *)
(* Beside the fields BlockApplier lists, a transaction has unsorted,       *)
(* whether one of its scope vectors is out of order or repeats a name,     *)
(* action_scopes, the accounts its actions are sent to, and ref_block, the *)
(* block its ref_block_num and ref_block_prefix are taken from.  Scopes    *)
(* are the sets of the names in the vectors.                               *)
(***************************************************************************)
EXTENDS BlockApplier

(***************************************************************************)
(* An account must exist; a scope must be a built-in scope or an account.  *)
(* Nobody is a name without an account.                                    *)
(***************************************************************************)
BuiltInScopes == {"eosio.all", "eosio.auth"}

Nobody == "nobody"

require_account(name) == name \in Accounts

require_scope(scope) == scope \in BuiltInScopes \/ require_account(scope)

(***************************************************************************)
(* Every scope, every account an action is sent to and every authorizing   *)
(* account must exist.                                                     *)
(***************************************************************************)
validate_referenced_accounts(trx) ==
    /\ \A scope \in trx.read_scope \cup trx.write_scope : require_scope(scope)
    /\ \A name \in trx.action_scopes \cup trx.actors : require_account(name)

(***************************************************************************)
(* wrong_auths names the checks the transaction's declared authorizations  *)
(* and signatures do not pass; a skip flag switches a check off.           *)
(***************************************************************************)
check_authorization(trx, allow_unused_signatures, skip) ==
    /\ "irrelevant_auth" \in trx.wrong_auths => "skip_authority_check" \in skip
    /\ "missing_sigs" \in trx.wrong_auths => "skip_transaction_signatures" \in skip
    /\ "irrelevant_sig" \in trx.wrong_auths =>
          allow_unused_signatures \/ "skip_transaction_signatures" \in skip

(***************************************************************************)
(* The scope vectors are sorted and unique, every authorizing account is   *)
(* in the write scope (its bandwidth usage is written), and no scope is    *)
(* declared for both reading and writing.                                  *)
(***************************************************************************)
validate_scope(trx) ==
    /\ ~trx.unsorted
    /\ trx.actors \subseteq trx.write_scope
    /\ trx.read_scope \cap trx.write_scope = {}

(***************************************************************************)
(* The index of the transactions seen, by id: db.transactions.             *)
(***************************************************************************)
is_known_transaction(db, id) == id \in db.transactions

validate_uniqueness(db, skip, trx) ==
    "skip_transaction_dupe_check" \notin skip => ~is_known_transaction(db, trx.id)

record_transaction(db, trx) == [db EXCEPT !.transactions = @ \cup {trx.id}]

(***************************************************************************)
(* TaPoS: the summary ring, read at the 16 bits of the transaction's       *)
(* ref_block_num, holds the block the transaction refers to.               *)
(***************************************************************************)
(* reading_next_slot reads the ring one slot further.                      *)
reading_next_slot(db, skip, trx) ==
    "skip_tapos_check" \notin skip =>
        db.block_summary[(Len(trx.ref_block) + 1) % SummarySlots] = trx.ref_block

validate_tapos(db, skip, trx) ==
    "skip_tapos_check" \notin skip =>
        db.block_summary[Len(trx.ref_block) % SummarySlots] = trx.ref_block

=============================================================================
