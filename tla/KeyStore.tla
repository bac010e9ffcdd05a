------------------------------ MODULE KeyStore ------------------------------
(***************************************************************************)
(* What PersistentStorage (src/kade_drive/core/storage.py) promises of one *)
(* key: a register that is written unconfirmed, confirmed, read and        *)
(* deleted, each at once.                                                  *)
(***************************************************************************)
CONSTANTS Values, Nothing

VARIABLE stored

Record == [value : Values, integrity : BOOLEAN]

Init == stored = Nothing

\* set_value
Set(v) == stored' = [value |-> v, integrity |-> FALSE]

\* confirm_integrity
Confirm == stored # Nothing /\ stored' = [stored EXCEPT !.integrity = TRUE]

\* _prepare_metadata_for_removal_and_get_value
Unconfirm == stored # Nothing /\ stored' = [stored EXCEPT !.integrity = FALSE]

\* _delete_data; a process killed while it writes the record loses it too.
Delete == stored' = Nothing

Next == (\E v \in Values : Set(v)) \/ Confirm \/ Unconfirm \/ Delete

Spec == Init /\ [][Next]_stored
=============================================================================
