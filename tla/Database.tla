-------------------------------- MODULE Database --------------------------------
(***************************************************************************)
(* The database shim (store/db.py): connect, the unit of work that is one  *)
(* "with store.conn() as c", and the translation of the SQLite statements  *)
(* for PostgreSQL, where a thread keeps its connection from one unit to    *)
(* the next.  A unit executes one statement that writes, as every unit of  *)
(* the store does; what a connection has not committed is kept on it until *)
(* a step commits it or takes it back.                                     *)
(*                                                                         *)
(* A statement [mode, key, value, of] inserts a row, replaces it or leaves *)
(* the one that is there; of is the number of its unit.                    *)
(***************************************************************************)
EXTENDS Integers, Sequences, FiniteSets, SequencesExt

CONSTANTS
  Handlers,       \* threads that use the store
  Keys,           \* primary keys of one table
  MaxUnits,       \* bound: units of work in a behaviour
  MaxBreaks       \* bound: connections that break

ASSUME DatabaseAssumption ==
  /\ MaxUnits \in Nat
  /\ MaxBreaks \in Nat

VARIABLES
  postgres,       \* is_postgres
  table,          \* primary key -> the unit whose row is committed; 0: none
  conn,           \* thread -> the connection it has
  pending,        \* thread -> what it has written and not committed
  unit,           \* thread -> where its unit of work is, and its number
  units,          \* units begun so far
  committed,      \* the statements that were committed, in order (history)
  succeeded,      \* units that wrote and ended without an exception (history)
  interrupted,    \* units whose commit was cut off by a broken connection (history)
  breaks

databaseVars ==
  <<postgres, table, conn, pending, unit, units, committed, succeeded,
    interrupted, breaks>>

Modes == {"insert", "replace", "ignore"}

DatabaseInit ==
  /\ postgres \in BOOLEAN
  /\ table = [k \in Keys |-> 0]
  /\ conn = [t \in Handlers |-> "none"]
  /\ pending = [t \in Handlers |-> <<>>]
  /\ unit = [t \in Handlers |-> [at |-> "over", n |-> 0]]
  /\ units = 0
  /\ committed = <<>>
  /\ succeeded = {}
  /\ interrupted = {}
  /\ breaks = 0

-----------------------------------------------------------------------------
\* What a statement of SQLite does to a table.
Effect(rows, s) ==
  CASE s.mode = "ignore" /\ rows[s.key] # 0 -> rows
    [] OTHER -> [rows EXCEPT ![s.key] = s.of]

\* translate: the table has a primary key.
Translate(s) ==
  CASE s.mode = "replace" -> "on conflict do update"
    [] s.mode = "ignore" -> "on conflict do nothing"
    [] s.mode = "insert" -> "plain"

\* What PostgreSQL does with the translation.
Executed(rows, s) ==
  IF Translate(s) = "on conflict do nothing" /\ rows[s.key] # 0
  THEN rows ELSE [rows EXCEPT ![s.key] = s.of]

Run(rows, s) == IF postgres THEN Executed(rows, s) ELSE Effect(rows, s)

Writers == { t \in Handlers : pending[t] # <<>> }

\* One writer at a time in SQLite, one for a row in PostgreSQL.
Free(t, s) ==
  \A u \in Writers \ {t} :
    postgres /\ \A other \in Range(pending[u]) : other.key # s.key

-----------------------------------------------------------------------------
\* connect: PostgreSQL's connection of the thread is rolled back and used again,
\* unless it is closed or that raises.
Connect(t) ==
  /\ unit[t].at = "over"
  /\ units < MaxUnits
  /\ units' = units + 1
  /\ unit' = [unit EXCEPT ![t] = [at |-> "begun", n |-> units + 1]]
  /\ conn' = [conn EXCEPT ![t] = "open"]
  /\ pending' = [pending EXCEPT ![t] = <<>>]
  /\ UNCHANGED <<postgres, table, committed, succeeded, interrupted, breaks>>

\* The statement is executed after what the connection has pending.  It raises
\* where a row is in the way of an insert, and then a transaction of PostgreSQL has
\* nothing left to commit.
Execute(t, mode, key) ==
  LET s == [mode |-> mode, key |-> key, of |-> unit[t].n]
      clash == mode = "insert" /\ table[key] # 0
  IN  /\ unit[t].at = "begun"
      /\ conn[t] = "open"
      /\ Free(t, s)
      /\ unit' = [unit EXCEPT ![t].at = IF clash THEN "raised" ELSE "written"]
      /\ pending' = [pending EXCEPT ![t] =
                       IF ~clash THEN Append(@, s)
                       ELSE IF postgres THEN <<>> ELSE @]
      /\ UNCHANGED <<postgres, table, conn, units, committed, succeeded,
                     interrupted, breaks>>

\* A lock that is not given in time, a broken connection, or the code after the
\* statement raises inside the block.
Raise(t) ==
  /\ unit[t].at \in {"begun", "written"}
  /\ unit' = [unit EXCEPT ![t].at = "raised"]
  /\ UNCHANGED <<postgres, table, conn, pending, units, committed, succeeded,
                 interrupted, breaks>>

\* Everything that is pending on the connection, whatever unit it is of.
Committing(t) ==
  /\ table' = FoldLeft(Run, table, pending[t])
  /\ committed' = committed \o pending[t]
  /\ pending' = [pending EXCEPT ![t] = <<>>]

\* __exit__ without an exception.
Commit(t) ==
  /\ unit[t].at \in {"begun", "written"}
  /\ conn[t] = "open"
  /\ Committing(t)
  /\ succeeded' = IF unit[t].at = "written"
                  THEN succeeded \cup {unit[t].n} ELSE succeeded
  /\ unit' = [unit EXCEPT ![t].at = "over"]
  /\ UNCHANGED <<postgres, conn, units, interrupted, breaks>>

\* Mutant: __exit__ commits, whether there was an exception or not.
RollbackCommits(t) ==
  /\ unit[t].at = "raised"
  /\ Committing(t)
  /\ unit' = [unit EXCEPT ![t].at = "over"]
  /\ UNCHANGED <<postgres, conn, units, succeeded, interrupted, breaks>>

\* __exit__ with an exception; a broken connection has nothing to roll back.
Rollback(t) ==
  /\ unit[t].at = "raised"
  /\ pending' = [pending EXCEPT ![t] = <<>>]
  /\ unit' = [unit EXCEPT ![t].at = "over"]
  /\ UNCHANGED <<postgres, table, conn, units, committed, succeeded, interrupted,
                 breaks>>

\* PostgreSQL's connection breaks, in a unit or between two; the server rolls back.
Break(t) ==
  /\ postgres
  /\ breaks < MaxBreaks
  /\ conn[t] = "open"
  /\ breaks' = breaks + 1
  /\ conn' = [conn EXCEPT ![t] = "broken"]
  /\ pending' = [pending EXCEPT ![t] = <<>>]
  /\ UNCHANGED <<postgres, table, unit, units, committed, succeeded, interrupted>>

\* It breaks while the commit is on its way: done, and raised all the same.
BreakInCommit(t) ==
  /\ postgres
  /\ breaks < MaxBreaks
  /\ unit[t].at = "written"
  /\ conn[t] = "open"
  /\ breaks' = breaks + 1
  /\ Committing(t)
  /\ conn' = [conn EXCEPT ![t] = "broken"]
  /\ unit' = [unit EXCEPT ![t].at = "raised"]
  /\ interrupted' = interrupted \cup {unit[t].n}
  /\ UNCHANGED <<postgres, units, succeeded>>

DatabaseNext ==
  \E t \in Handlers :
    \/ Connect(t)
    \/ \E mode \in Modes, key \in Keys : Execute(t, mode, key)
    \/ Raise(t)
    \/ Commit(t)
    \/ Rollback(t)
    \/ Break(t)
    \/ BreakInCommit(t)

DatabaseSpec == DatabaseInit /\ [][DatabaseNext]_databaseVars

-----------------------------------------------------------------------------
Replayed == FoldLeft(Effect, [k \in Keys |-> 0], committed)

UnitsOf(s) == { e.of : e \in Range(s) }

(***************************************************************************)
(* With either database the table is what SQLite makes of the statements   *)
(* that were committed, one after the other.  The units these are of are   *)
(* all the units that wrote and ended without an exception, and no other   *)
(* than those whose commit was cut off: nothing a failed unit left on the  *)
(* connection of its thread is committed by a later one (db.py, 15-16:     *)
(* "committed on context exit (rolled back on error)").                    *)
(***************************************************************************)
UnitsAtomic ==
  /\ table = Replayed
  /\ succeeded \subseteq UnitsOf(committed)
  /\ UnitsOf(committed) \subseteq succeeded \cup interrupted
=============================================================================
