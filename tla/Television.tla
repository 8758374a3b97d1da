----------------------------- MODULE Television -----------------------------
(***************************************************************************)
(* The agent's control of its television over HDMI-CEC: tv_power and       *)
(* tv_volume commands, the search for the adapter that the first of them   *)
(* starts, and the pair of cec-ctl calls each of them makes.               *)
(*                                                                         *)
(* The handlers of two messages run concurrently: every cec-ctl call is a  *)
(* process that is awaited.  A call has its effect on the television at    *)
(* one step; the handler goes on at a later one.  The television is        *)
(* modelled from the observations recorded in cec.ts: it obeys <Standby>   *)
(* only from the active source.                                            *)
(***************************************************************************)
EXTENDS Naturals

CONSTANTS
    Handler,   \* handlers of messages, reused; their number is a bound
    NumPorts,  \* candidate devices, /dev/cec0 and up
    None

Port == 1..NumPorts

ASSUME TelevisionAssumption ==
    /\ NumPorts \in Nat \ {0}
    /\ None \notin Port

VARIABLES
    tv,        \* the television: whether it is on, and the input it shows
    plugged,   \* the port it is plugged in, or None
    detected,  \* a search for the adapter has been started
    adapter,   \* the port that was found, or None
    handler,   \* handler[h]: the command it carries out and how far, or None
    tvState,   \* what the agent believes and reports
    sure,      \* history: the last power command met no other one, no viewer
               \* and no failure, and nothing has happened since
    missed     \* history: a search ended without finding a television

tvVars == <<tv, plugged, detected, adapter, handler, tvState, sure, missed>>

Power == {"on", "off"}
Command == Power \cup {"volume"}

Tv == [on : BOOLEAN, source : {"pi", "other"}]

\* "search": an adapter is being queried; "claim": it is being claimed; "first"
\* and "second": that call is under way; "acted": the second has had its effect.
\* clean is history: no other power command and no viewer since it arrived.
HandlerState == [command : Command, step : {"search", "claim", "first", "second", "acted"},
                 port : Port, clean : BOOLEAN]

ASSUME HandlerAssumption == None \notin HandlerState

TvTypeOK ==
    /\ tv \in Tv
    /\ plugged \in Port \cup {None}
    /\ detected \in BOOLEAN
    /\ adapter \in Port \cup {None}
    /\ handler \in [Handler -> HandlerState \cup {None}]
    /\ tvState \in Power \cup {"unknown"}
    /\ sure \in BOOLEAN /\ missed \in BOOLEAN

TvInit ==
    /\ tv \in Tv
    /\ plugged \in Port \cup {None}
    /\ detected = FALSE /\ adapter = None
    /\ handler = [h \in Handler |-> None]
    /\ tvState = "unknown"
    /\ sure = FALSE /\ missed = FALSE

(***************************************************************************)
(* The surroundings.                                                       *)
(***************************************************************************)
Disturbed == [h \in Handler |->
    IF handler[h] = None THEN None ELSE [handler[h] EXCEPT !.clean = FALSE]]

\* Somebody uses the remote control.
Viewer ==
    /\ tv' \in Tv
    /\ handler' = Disturbed
    /\ sure' = FALSE
    /\ UNCHANGED <<plugged, detected, adapter, tvState, missed>>

\* The television is plugged in, or becomes visible on the bus.
PlugIn ==
    /\ plugged = None
    /\ plugged' \in Port
    /\ UNCHANGED <<tv, detected, adapter, handler, tvState, sure, missed>>

(***************************************************************************)
(* Commands.                                                               *)
(***************************************************************************)
At(h, step) == handler[h] # None /\ handler[h].step = step

\* What other handlers and the history are left with when a command arrives.
Arrival(command) == IF command \in Power THEN Disturbed ELSE handler
StillSure(command) == sure /\ command \notin Power
Alone == \A h \in Handler : handler[h] = None \/ handler[h].command \notin Power

Accept(h, command, step) ==
    /\ handler[h] = None
    /\ handler' = [Arrival(command) EXCEPT ![h] =
           [command |-> command, step |-> step, port |-> 1, clean |-> Alone]]
    /\ sure' = StillSure(command)

\* The first command of all starts the search.
StartSearch(h, command) ==
    /\ ~detected
    /\ detected' = TRUE
    /\ Accept(h, command, "search")
    /\ UNCHANGED <<tv, plugged, adapter, tvState, missed>>

\* A search has been started but there is no adapter (yet): the command is
\* dropped; a power command reports "unknown".
Drop(command) ==
    /\ detected /\ adapter = None
    /\ handler' = Arrival(command)
    /\ sure' = StillSure(command)
    /\ tvState' = IF command \in Power THEN "unknown" ELSE tvState
    /\ UNCHANGED <<tv, plugged, detected, adapter, missed>>

StartCalls(h, command) ==
    /\ adapter # None
    /\ Accept(h, command, "first")
    /\ UNCHANGED <<tv, plugged, detected, adapter, tvState, missed>>

\* The handler ends: a power command leaves its result.
Resolve(h, result) ==
    /\ handler' = [handler EXCEPT ![h] = None]
    /\ IF handler[h].command \in Power
       THEN tvState' = result /\ sure' = (result # "unknown" /\ handler[h].clean)
       ELSE UNCHANGED <<tvState, sure>>

(***************************************************************************)
(* The search.                                                             *)
(***************************************************************************)
\* A candidate has a television.
SearchFinds(h) ==
    /\ At(h, "search") /\ handler[h].port = plugged
    /\ handler' = [handler EXCEPT ![h].step = "claim"]
    /\ UNCHANGED <<tv, plugged, detected, adapter, tvState, sure, missed>>

\* A candidate has none, or cannot be queried (fails); the next one is queried.
SearchNext(h, fails) ==
    /\ At(h, "search") /\ (handler[h].port # plugged \/ fails)
    /\ handler[h].port < NumPorts
    /\ handler' = [handler EXCEPT ![h].port = @ + 1]
    /\ UNCHANGED <<tv, plugged, detected, adapter, tvState, sure, missed>>

\* So does the last one.
SearchEnds(h, fails) ==
    /\ At(h, "search") /\ (handler[h].port # plugged \/ fails)
    /\ handler[h].port = NumPorts
    /\ missed' = TRUE
    /\ Resolve(h, "unknown")
    /\ UNCHANGED <<tv, plugged, detected, adapter>>

\* Mutant: a port that cannot be claimed is not used.
ClaimIfItWorks(h) ==
    /\ At(h, "claim")
    /\ \/ /\ adapter' = handler[h].port
          /\ handler' = [handler EXCEPT ![h].step = "first"]
          /\ UNCHANGED <<tvState, sure>>
       \/ UNCHANGED adapter /\ Resolve(h, "unknown")
    /\ UNCHANGED <<tv, plugged, detected, missed>>

\* Claiming a logical address has been tried; whether it worked does not matter.
Claim(h) ==
    /\ At(h, "claim")
    /\ adapter' = handler[h].port
    /\ handler' = [handler EXCEPT ![h].step = "first"]
    /\ UNCHANGED <<tv, plugged, detected, tvState, sure, missed>>

(***************************************************************************)
(* The calls.                                                              *)
(***************************************************************************)
\* Mutant: the television is told to stand by before the Pi is its source.
CallsStandbyFirst(command) ==
    CASE command = "on" -> <<"imageViewOn", "activeSource">>
      [] command = "off" -> <<"standby", "activeSource">>
      [] OTHER -> <<"pressed", "released">>

Calls(command) ==
    CASE command = "on" -> <<"imageViewOn", "activeSource">>
      [] command = "off" -> <<"activeSource", "standby">>
      [] OTHER -> <<"pressed", "released">>

\* The television after a call.
After(call) ==
    CASE call = "imageViewOn" -> [tv EXCEPT !.on = TRUE]
      [] call = "activeSource" -> [tv EXCEPT !.source = "pi"]
      [] call = "standby" /\ tv.source = "pi" -> [tv EXCEPT !.on = FALSE]
      [] OTHER -> tv

\* The first call has its effect and returns, and the second one is made.
FirstCall(h) ==
    /\ At(h, "first")
    /\ tv' = After(Calls(handler[h].command)[1])
    /\ handler' = [handler EXCEPT ![h].step = "second"]
    /\ UNCHANGED <<plugged, detected, adapter, tvState, sure, missed>>

\* The second call has its effect.
SecondCall(h) ==
    /\ At(h, "second")
    /\ tv' = After(Calls(handler[h].command)[2])
    /\ handler' = [handler EXCEPT ![h].step = "acted"]
    /\ UNCHANGED <<plugged, detected, adapter, tvState, sure, missed>>

\* A call fails, before or after it had its effect; the next one is not made.
CallFails(h) ==
    /\ At(h, "first") \/ At(h, "second")
    /\ tv' \in {tv, After(Calls(handler[h].command)[IF At(h, "first") THEN 1 ELSE 2])}
    /\ Resolve(h, "unknown")
    /\ UNCHANGED <<plugged, detected, adapter, missed>>

\* The second call returns.
Return(h) ==
    /\ At(h, "acted")
    /\ Resolve(h, handler[h].command)
    /\ UNCHANGED <<tv, plugged, detected, adapter, missed>>

\* The process dies and starts again; the television stays as it is.
TvRestart ==
    /\ detected' = FALSE /\ adapter' = None
    /\ handler' = [h \in Handler |-> None]
    /\ tvState' = "unknown"
    /\ sure' = FALSE /\ missed' = FALSE
    /\ UNCHANGED <<tv, plugged>>

-----------------------------------------------------------------------------
TvNext ==
    \/ Viewer \/ PlugIn \/ TvRestart
    \/ \E command \in Command :
          Drop(command)
          \/ \E h \in Handler : StartSearch(h, command) \/ StartCalls(h, command)
    \/ \E h \in Handler :
          \/ SearchFinds(h) \/ Claim(h)
          \/ \E fails \in BOOLEAN : SearchNext(h, fails) \/ SearchEnds(h, fails)
          \/ FirstCall(h) \/ SecondCall(h) \/ CallFails(h) \/ Return(h)

TvSpec == TvInit /\ [][TvNext]_tvVars

(***************************************************************************)
(* What must hold.                                                         *)
(***************************************************************************)
\* A power command that met no other one, no viewer and no failure has done what
\* it reports: the television is in the state asked for and, when on, shows the
\* Pi, whatever input it showed before (cec.ts 97-121, agent.ts 94-98).
TvStateTrue ==
    sure =>
        /\ tvState \in Power
        /\ tv = [on |-> tvState = "on", source |-> "pi"]

\* A plugged-in television is not given up: there is no adapter only as long as
\* the search goes on, or if no port answered for a television when it was
\* queried (cec.ts 38-66).
AdapterKnownAfterSearch ==
    detected /\ adapter = None =>
        missed \/ \E h \in Handler : At(h, "search") \/ At(h, "claim")
=============================================================================
