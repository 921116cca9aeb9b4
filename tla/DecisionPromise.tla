-------------------------- MODULE DecisionPromise ---------------------------
(***************************************************************************)
(* What ask and await_decision promise to an agent: every ask is a promise *)
(* that is settled at most once, with an answer or with no answer (Blank), *)
(* and a caller that waits for it gets the verdict it was settled with,    *)
(* unless the caller's own time runs out first.                            *)
(*                                                                         *)
(* Nothing is promised once the daemon is down.                            *)
(***************************************************************************)
CONSTANTS
    Asks,               \* notification IDs
    Waiters,            \* calls of await_decision
    Answers,            \* what a user may answer
    Blank,              \* decided without response fields
    Open                \* not decided yet

Verdicts == Answers \cup {Blank}

VARIABLES
    verdict,            \* per ask: Open, or what it was settled with
    waitsFor,           \* per waiter: {}, or the one ask it waits for
    got,                \* per waiter: Open, or what it was returned
    down                \* the daemon is gone

vars == <<verdict, waitsFor, got, down>>

Init ==
    /\ verdict = [a \in Asks |-> Open]
    /\ waitsFor = [w \in Waiters |-> {}]
    /\ got = [w \in Waiters |-> Open]
    /\ down = FALSE

Settle(a, v) ==
    /\ ~down /\ verdict[a] = Open
    /\ verdict' = [verdict EXCEPT ![a] = v]
    /\ UNCHANGED <<waitsFor, got, down>>

Await(w, a) ==
    /\ ~down /\ waitsFor[w] = {}
    /\ waitsFor' = [waitsFor EXCEPT ![w] = {a}]
    /\ got' = [got EXCEPT ![w] = verdict[a]]
    /\ UNCHANGED <<verdict, down>>

Take(w) ==
    /\ ~down /\ got[w] = Open
    /\ \E a \in waitsFor[w] :
          /\ verdict[a] # Open
          /\ got' = [got EXCEPT ![w] = verdict[a]]
    /\ UNCHANGED <<verdict, waitsFor, down>>

GiveUp(w) ==
    /\ ~down /\ waitsFor[w] # {} /\ got[w] = Open
    /\ got' = [got EXCEPT ![w] = Blank]
    /\ UNCHANGED <<verdict, waitsFor, down>>

\* What is left in the memory of a process that goes down does not matter.
GoDown ==
    /\ ~down /\ down' = TRUE
    /\ verdict' \in [Asks -> Verdicts \cup {Open}]
    /\ UNCHANGED <<waitsFor, got>>

Next ==
    \/ \E a \in Asks, v \in Verdicts : Settle(a, v)
    \/ \E w \in Waiters, a \in Asks : Await(w, a)
    \/ \E w \in Waiters : Take(w) \/ GiveUp(w)
    \/ GoDown

Spec == Init /\ [][Next]_vars

=============================================================================
