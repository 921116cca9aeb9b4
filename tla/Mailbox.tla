------------------------------ MODULE Mailbox -------------------------------
(***************************************************************************)
(* What the interjection tools promise to the agent of a flow: a mailbox,  *)
(* from when the flow is registered until it is terminated or the daemon   *)
(* is gone.  What comes in is given out in order, all there is at a time,  *)
(* and to one call each.                                                   *)
(***************************************************************************)
EXTENDS Sequences

CONSTANTS
    Flows,
    Items           \* what may come in

VARIABLES
    open,           \* flows with a mailbox
    used,           \* flows that have had one: there is no second
    box,            \* what is in it
    given           \* what was given out of it, in order

vars == <<open, used, box, given>>

Bare == [f \in Flows |-> <<>>]

Init == open = {} /\ used = {} /\ box = Bare /\ given = Bare

Open(f) ==
    /\ f \notin used
    /\ open' = open \cup {f} /\ used' = used \cup {f}
    /\ UNCHANGED <<box, given>>

Put(f, i) ==
    /\ f \in open
    /\ box' = [box EXCEPT ![f] = Append(@, i)]
    /\ UNCHANGED <<open, used, given>>

TakeAll(f) ==
    /\ given' = [given EXCEPT ![f] = @ \o box[f]]
    /\ box' = [box EXCEPT ![f] = <<>>]
    /\ UNCHANGED <<open, used>>

\* What is in the mailbox of a flow that is terminated is not wanted.
Close(f) ==
    /\ open' = open \ {f}
    /\ box' = [box EXCEPT ![f] = <<>>]
    /\ UNCHANGED <<used, given>>

\* The daemon is gone, and what it had given out is forgotten.
Lose ==
    /\ open' = {} /\ box' = Bare /\ given' = Bare
    /\ UNCHANGED used

Next ==
    \/ \E f \in Flows : Open(f) \/ TakeAll(f) \/ Close(f)
    \/ \E f \in Flows, i \in Items : Put(f, i)
    \/ Lose

Spec == Init /\ [][Next]_vars

=============================================================================
