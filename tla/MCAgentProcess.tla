--------------------------- MODULE MCAgentProcess ---------------------------
(***************************************************************************)
(* Values for TLC: several small instances in one run, each of them with   *)
(* more of one thing and less of another.                                  *)
(***************************************************************************)
EXTENDS AgentProcess

Nothing == [kind \in Kind |-> 0]

\* Any television, in any port or none, that was never controlled.
Anywhere(budget) ==
    [tv : Tv, plugged : Port \cup {None}, desiredTvPower : {None}, budget : {budget}]

\* A television that is off, in the port that is tried last.
Off(desired, budget) ==
    [tv |-> [on |-> FALSE, source |-> "other"], plugged |-> NumPorts, desiredTvPower |-> desired,
     budget |-> budget]

MCStarts ==
    UNION {Anywhere(budget) : budget \in {
        [Nothing EXCEPT !["power"] = 2],
        [Nothing EXCEPT !["power"] = 1, !["viewer"] = 1],
        [Nothing EXCEPT !["power"] = 1, !["volume"] = 1]}}
    \cup {Off(TRUE, budget) : budget \in {
        [Nothing EXCEPT !["power"] = 2],
        [Nothing EXCEPT !["power"] = 1, !["break"] = 1],
        [Nothing EXCEPT !["power"] = 1, !["failure"] = 1],
        [Nothing EXCEPT !["power"] = 1, !["delay"] = 1],
        [Nothing EXCEPT !["power"] = 1, !["volume"] = 1, !["failure"] = 1],
        [Nothing EXCEPT !["power"] = 1, !["toggle"] = 1]}}
    \cup {Off(None, budget) : budget \in {
        [Nothing EXCEPT !["toggle"] = 2, !["push"] = 1],
        [Nothing EXCEPT !["toggle"] = 1, !["push"] = 1, !["failure"] = 1, !["break"] = 1],
        [Nothing EXCEPT !["toggle"] = 1, !["push"] = 2, !["failure"] = 1]}}
=============================================================================
