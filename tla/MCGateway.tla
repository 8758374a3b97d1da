----------------------------- MODULE MCGateway -----------------------------
(***************************************************************************)
(* Values for the constants of Gateway.                                    *)
(***************************************************************************)
EXTENDS Gateway, TLC

CONSTANTS
    page,          \* a URL
    blank,         \* the blank content
    one, two       \* scale factors

MCContent == {page, blank}
MCZoom == {one, two}

\* One change of each setting the screen or the TV shows, and removal. (The
\* auto-update flag takes the path of the TV's power.)
ControlCommands ==
    [kind : {"content"}, content : {page}] \cup [kind : {"zoom"}, zoom : {two}]
        \cup [kind : {"tvPower"}, on : {TRUE}]
        \cup [kind : {"delete"}]

\* Enough to make the registry and the replay do everything they can do.
LifeCommands == {[kind |-> "content", content |-> page], [kind |-> "delete"]}

ContentCommands == [kind : {"content"}, content : MCContent]
=============================================================================
