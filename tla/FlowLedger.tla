----------------------------- MODULE FlowLedger -----------------------------
(***************************************************************************)
(* The two flow tables of the SQLite ledger (cli/internal/ledger/flows.go) *)
(* and the transactions on them.                                           *)
(*                                                                         *)
(*   active_flows            the hot working set: one row per running flow *)
(*   flow_lifecycle_events   the cold audit log, PRIMARY KEY               *)
(*                           (flow_id, timestamp)                          *)
(*                                                                         *)
(* Every timestamp is stored as RFC 3339 text, that is, to the second: the *)
(* model's unit of time is that second.  Labels, metadata and the context  *)
(* columns (username, daemon, workspace) are carried along by the code and *)
(* never looked at; they are left out.                                     *)
(*                                                                         *)
(* An operation below is what its transaction does when it commits.  An    *)
(* operation whose transaction is rolled back changes nothing: LedgerError *)
(***************************************************************************)
EXTENDS Naturals, FiniteSets

CONSTANT Flows          \* the flow IDs

VARIABLES
    active,             \* the flow_ids with a row in active_flows
    registeredAt,       \* active_flows.registered_at
    lastActivity,       \* active_flows.last_activity_timestamp
    audit               \* the rows of flow_lifecycle_events

ledgerVars == <<active, registeredAt, lastActivity, audit>>

TerminalStatuses == {"completed", "failed"}
Statuses == {"active"} \cup TerminalStatuses

AuditRow == [flow : Flows, ts : Nat, status : Statuses]

LedgerTypeOK ==
    /\ active \subseteq Flows
    /\ registeredAt \in [Flows -> Nat]
    /\ lastActivity \in [Flows -> Nat]
    /\ audit \subseteq AuditRow

\* A fresh database.  The timestamps of an absent row mean nothing; they are
\* kept at 0.
LedgerInit ==
    /\ active = {}
    /\ registeredAt = [f \in Flows |-> 0]
    /\ lastActivity = [f \in Flows |-> 0]
    /\ audit = {}

-----------------------------------------------------------------------------

\* INSERT OR IGNORE INTO flow_lifecycle_events: a second event of the same
\* flow in the same second is dropped, whatever its status.
InsertEvent(f, ts, st) ==
    IF \E e \in audit : e.flow = f /\ e.ts = ts
    THEN audit
    ELSE audit \cup {[flow |-> f, ts |-> ts, status |-> st]}

\* RegisterFlow: the INSERT into active_flows fails on a primary key conflict,
\* so it commits only for a flow without a row.
RegisterFlow(f, ts) ==
    /\ f \notin active
    /\ active' = active \cup {f}
    /\ registeredAt' = [registeredAt EXCEPT ![f] = ts]
    /\ lastActivity' = [lastActivity EXCEPT ![f] = ts]
    /\ audit' = InsertEvent(f, ts, "active")

\* Mutant: activity inserts the row if it is missing.
UpsertFlowActivity(f, ts) ==
    /\ active' = active \cup {f}
    /\ lastActivity' = [lastActivity EXCEPT ![f] = ts]
    /\ UNCHANGED <<registeredAt, audit>>

\* Mutant: activity sets both timestamps of the row.
TouchFlowActivity(f, ts) ==
    /\ lastActivity' = IF f \in active
                       THEN [lastActivity EXCEPT ![f] = ts]
                       ELSE lastActivity
    /\ registeredAt' = lastActivity'
    /\ UNCHANGED <<active, audit>>

\* UpdateFlowActivity: an unconditional UPDATE, of no row if there is none.
UpdateFlowActivity(f, ts) ==
    /\ lastActivity' = IF f \in active
                       THEN [lastActivity EXCEPT ![f] = ts]
                       ELSE lastActivity
    /\ UNCHANGED <<active, registeredAt, audit>>

\* RefreshFlow: rolled back when the row is gone by the time it runs.
RefreshFlow(f, ts) ==
    /\ f \in active
    /\ lastActivity' = [lastActivity EXCEPT ![f] = ts]
    /\ audit' = InsertEvent(f, ts, "active")
    /\ UNCHANGED <<active, registeredAt>>

\* TerminateFlow: commits with or without a row to delete.
TerminateFlow(f, st, ts) ==
    /\ active' = active \ {f}
    /\ registeredAt' = [registeredAt EXCEPT ![f] = 0]
    /\ lastActivity' = [lastActivity EXCEPT ![f] = 0]
    /\ audit' = InsertEvent(f, ts, st)

\* Any operation that fails (SQLITE_BUSY, disk full, ...) is rolled back.
LedgerError == UNCHANGED ledgerVars

\* ReapStaleFlows: the rows with last_activity_timestamp < now - grace.  The
\* sum is on the left because Nat has no negative cutoff.
StaleFlows(t, grace) == {f \in active : lastActivity[f] + grace < t}

\* ListActiveFlows without a filter, reduced to the flow IDs.
ListActiveFlows == active

=============================================================================
