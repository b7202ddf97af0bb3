------------------------------ MODULE RowLocks ------------------------------
(***************************************************************************)
(* PostgreSQL's row locks, as the services of src/src/modules use them:    *)
(* SELECT ... FOR KEY SHARE / SHARE / NO KEY UPDATE / UPDATE, the KEY      *)
(* SHARE a foreign-key check takes on the row it references, and the lock  *)
(* an UPDATE or INSERT takes on the row it writes.  A transaction keeps    *)
(* every row lock until it ends.  PostgreSQL itself is external: the       *)
(* conflict table is the one its documentation gives and the comments of   *)
(* iam/removal.ts rely on.                                                 *)
(***************************************************************************)

Mode == {"key_share", "share", "no_key_update", "update"}

\* The modes a lock in mode m has to wait for on one row.
ConflictsWith(m) ==
    CASE m = "key_share"     -> {"update"}
      [] m = "share"         -> {"no_key_update", "update"}
      [] m = "no_key_update" -> {"share", "no_key_update", "update"}
      [] m = "update"        -> Mode

\* A lock request or a held lock: a row and a mode.
Lock(row, mode) == <<row, mode>>

\* Some lock of the set `locks`, held by another transaction, keeps w waiting.
Collides(locks, w) == \E n \in ConflictsWith(w[2]) : <<w[1], n>> \in locks

=============================================================================
