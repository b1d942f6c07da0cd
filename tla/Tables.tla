-------------------------------- MODULE Tables --------------------------------
(***************************************************************************)
(* The tables of the explorer as functions from keys to rows, and the two  *)
(* things the processors do to a row: save it and delete it.               *)
(***************************************************************************)
EXTENDS Sequences

\* A column that holds null.
CONSTANT Null

NoRows == [key \in {} |-> Null]

\* BaseModelObj.save: the row of the key is inserted or written over.
Put(table, key, row) ==
  [k \in DOMAIN table \cup {key} |-> IF k = key THEN row ELSE table[k]]

\* db_session.delete of every row with one of the keys.
Without(table, keys) == [k \in DOMAIN table \ keys |-> table[k]]

\* query(..).filter_by(key).first(), or else a row to start from.
RowOr(table, key, other) == IF key \in DOMAIN table THEN table[key] ELSE other

\* s is a sequence.
IsList(s) == s \in Seq({s[i] : i \in DOMAIN s})
==============================================================================
