------------------------------ MODULE JoinRows ------------------------------
(***************************************************************************)
(* The table behind JoinStore: at most one row per run, and at most one     *)
(* row per session (engagement_join.session_ref is UNIQUE).  A table maps   *)
(* every run to its row or to NoRow.  The operators here are the statements *)
(* SqliteJoinStore issues; who issues them, and when, is up to the modules  *)
(* that extend this one.                                                    *)
(***************************************************************************)

CONSTANTS
  Runs,        \* durable run ids
  Sessions,    \* session references an engine can hand out
  NoSession    \* "no session reference"

ASSUME NoSessionAssumption == NoSession \notin Sessions

Statuses == {"engaging", "parked", "settled", "failed"}

Row == [session : Sessions, status : Statuses]

NoRow == [session |-> NoSession, status |-> "none"]

JoinTable == [Runs -> Row \cup {NoRow}]

EmptyTable == [r \in Runs |-> NoRow]

(* The statement pair of put(): delete whatever other run holds this        *)
(* session, then insert or replace the row of run r.                        *)
PutRow(table, r, row) ==
  [q \in Runs |->
     IF q = r THEN row
     ELSE IF table[q].session = row.session THEN NoRow
     ELSE table[q]]
=============================================================================
