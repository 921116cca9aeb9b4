------------------------- MODULE NotificationLedger -------------------------
(***************************************************************************)
(* The two notification tables of the SQLite ledger                        *)
(* (cli/internal/ledger/requests.go, responses.go) and the statements on   *)
(* them.                                                                   *)
(*                                                                         *)
(*   notification_requests    PRIMARY KEY id                               *)
(*   notification_responses   PRIMARY KEY request_id, a FOREIGN KEY to the *)
(*                            requests                                     *)
(*                                                                         *)
(* Of a request only its id is kept, of a response what was answered.      *)
(* The pragma that turns foreign keys on is executed on one connection of  *)
(* the pool (ledger.go, Open): whether a statement is checked depends on   *)
(* the connection it gets.                                                 *)
(***************************************************************************)

CONSTANTS
    Notifications,      \* notification IDs
    Answers,            \* what a response may say
    None                \* no response

ASSUME LedgerAssumption == None \notin Answers

VARIABLES
    requests,           \* the ids in notification_requests
    responses           \* the answer of each id in notification_responses

ledgerVars == <<requests, responses>>

LedgerTypeOK ==
    /\ requests \subseteq Notifications
    /\ responses \in [Notifications -> Answers \cup {None}]

LedgerInit ==
    /\ requests = {}
    /\ responses = [n \in Notifications |-> None]

\* INSERT OR IGNORE INTO notification_requests.
InsertRequest(n) ==
    /\ requests' = requests \cup {n}
    /\ UNCHANGED responses

\* Mutant: INSERT OR REPLACE, the last response of a request is kept.
ReplaceResponse(n, v, checked) ==
    /\ responses' = IF checked /\ n \notin requests
                    THEN responses
                    ELSE [responses EXCEPT ![n] = v]
    /\ UNCHANGED requests

\* INSERT OR IGNORE INTO notification_responses: the first response of a
\* request is kept.  OR IGNORE does not cover the foreign key: a response
\* without its request is an error on a connection that checks it.
InsertResponse(n, v, checked) ==
    /\ responses' = IF responses[n] # None \/ (checked /\ n \notin requests)
                    THEN responses
                    ELSE [responses EXCEPT ![n] = v]
    /\ UNCHANGED requests

\* A statement that fails (SQLITE_BUSY on another connection, disk full).
StatementFails == UNCHANGED ledgerVars

\* QueryHistory joins the responses to the requests: what the history shows
\* as the answer of a notification.
ShownAnswer(n) == IF n \in requests THEN responses[n] ELSE None

=============================================================================
