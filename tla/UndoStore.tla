----------------------------- MODULE UndoStore -----------------------------
(***************************************************************************)
(* The versioned store (chainbase database) as the controller uses it:     *)
(* the current objects, a stack of undo records and a revision number.     *)
(* A store is the record [db, undo_stack, revision]; an undo record        *)
(* [revision, old] keeps the objects as they were when its session began.  *)
(*                                                                         *)
(* The store's code is not part of the controller's source file; these     *)
(* operators follow the contract of the "Versioned Store".  A session      *)
(* object is the top undo record: dropping it without push is undo, push   *)
(* keeps the record, squash folds it into the record below.                *)
(***************************************************************************)
EXTENDS Integers, Sequences

start_undo_session(st) ==
    [st EXCEPT !.revision = @ + 1,
               !.undo_stack = Append(@, [revision |-> st.revision + 1,
                                         old      |-> st.db])]

(***************************************************************************)
(* Rewind the last session; nothing happens when no undo record is left.   *)
(***************************************************************************)
undo(st) ==
    IF st.undo_stack = <<>> THEN st
    ELSE [db         |-> st.undo_stack[Len(st.undo_stack)].old,
          undo_stack |-> SubSeq(st.undo_stack, 1, Len(st.undo_stack) - 1),
          revision   |-> st.revision - 1]

(***************************************************************************)
(* Merge the top session into its parent: the changes stay, the parent's   *)
(* older snapshot covers them, and no revision is left behind.             *)
(***************************************************************************)
squash(st) ==
    IF st.undo_stack = <<>> THEN st
    ELSE [st EXCEPT !.undo_stack = SubSeq(@, 1, Len(@) - 1),
                    !.revision = @ - 1]

undo_all(st) ==
    IF st.undo_stack = <<>> THEN st
    ELSE [db         |-> st.undo_stack[1].old,
          undo_stack |-> <<>>,
          revision   |-> st.revision - Len(st.undo_stack)]

(***************************************************************************)
(* Make every session up to revision permanent: their undo records go.     *)
(***************************************************************************)
commit(st, revision) ==
    [st EXCEPT !.undo_stack = SelectSeq(@, LAMBDA u : u.revision > revision)]

set_revision(st, revision) ==
    [st EXCEPT !.revision = revision]

=============================================================================
