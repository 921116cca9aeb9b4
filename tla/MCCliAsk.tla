------------------------------ MODULE MCCliAsk ------------------------------
(***************************************************************************)
(* CliAsk on a small instance for TLC: a command of any kind, and a call   *)
(* of the ask tool in the same flow or, beside `renotify ask`, in another. *)
(***************************************************************************)
EXTENDS CliAsk

CONSTANTS
    cmd, tool,      \* the two notifications
    MaxIncidents    \* bound: messages, interjections, troubles, and timeouts
                    \* of the ask tool, all together

\* Each pick has a label of its own.
MCLabelOf == [p \in Picks |-> p]

MCKinds == {k \in [Notifications -> AllKinds] : k[tool] = "mcp"}

\* Which of the flows is the command's makes no difference.
MCInit ==
    /\ Init
    /\ flowOf[cmd] = CHOOSE f \in Flows : TRUE
    /\ kind[cmd] # "ask" => flowOf[tool] = flowOf[cmd]

\* Only a hook looks at what was picked.  Two answers suffice to be different.
MCPicks ==
    CASE sent > 0 -> {Deny}
      [] sent = 0 /\ kind[cmd] = "permission" -> Picks
      [] OTHER -> {AllowOnce}

TimedOut == {n \in Notifications : kind[n] = "mcp" /\ n \notin patience}

Incidents ==
    sent + interjected[cmd] + errors + lostAcks + faults + restarts
        + Cardinality(TimedOut)

MCNext ==
    /\ \/ Proceeds
       \/ \E f \in Flows, r \in Notifications, p \in MCPicks : Answer(f, r, p)
       \/ \E f \in Flows : Garble(f)
    /\ Incidents' <= MaxIncidents

\* Less fairness than FairSpec: the bound may stop a timer of the ask tool.
MCFairness ==
    /\ WF_vars(kind[cmd] # "mcp" /\ Command(cmd))
    /\ WF_vars(Consumer)

MCSpec == MCInit /\ [][MCNext]_vars /\ MCFairness

=============================================================================
