-------------------------- MODULE TelevisionProofs --------------------------
(***************************************************************************)
(* For any handlers and ports: what an undisturbed power command reports   *)
(* is true of the television, and a television that answers is found.      *)
(***************************************************************************)
EXTENDS Television, TLAPS

IsPower(h) == handler[h] # None /\ handler[h].command \in Power
IsClean(h) == IsPower(h) /\ handler[h].clean

\* An undisturbed power command is the only one, and nothing is sure before it ends.
CleanAlone ==
    /\ \A h, g \in Handler : IsClean(h) /\ IsPower(g) => h = g
    /\ sure => \A h \in Handler : ~IsPower(h)

\* What an undisturbed power command has achieved so far.
CleanProgress ==
    \A h \in Handler : IsClean(h) =>
        /\ At(h, "second") =>
              IF handler[h].command = "on" THEN tv.on = TRUE ELSE tv.source = "pi"
        /\ At(h, "acted") => tv = [on |-> handler[h].command = "on", source |-> "pi"]

TvInv == TvTypeOK /\ CleanAlone /\ CleanProgress /\ TvStateTrue /\ AdapterKnownAfterSearch

\* The invariant holds initially.
LEMMA TvInvInit == TvInit => TvInv
<1> SUFFICES ASSUME TvInit PROVE TvInv
  OBVIOUS
<1>1. TvTypeOK
  BY TelevisionAssumption DEF TvInit, TvTypeOK
<1>2. QED
  BY <1>1 DEF TvInit, TvInv, CleanAlone, CleanProgress, IsPower, IsClean, TvStateTrue,
              AdapterKnownAfterSearch

(***************************************************************************)
(* The operators.                                                          *)
(***************************************************************************)
\* Disturbing the handlers leaves them as they are, but not clean.
LEMMA DisturbedEffect ==
    ASSUME TvTypeOK
    PROVE  /\ Disturbed \in [Handler -> HandlerState \cup {None}]
           /\ \A h \in Handler :
                 /\ Disturbed[h] = None <=> handler[h] = None
                 /\ handler[h] # None =>
                       /\ Disturbed[h].command = handler[h].command
                       /\ Disturbed[h].step = handler[h].step
                       /\ Disturbed[h].port = handler[h].port
                       /\ Disturbed[h].clean = FALSE
<1> SUFFICES ASSUME NEW h \in Handler
             PROVE  /\ Disturbed[h] \in HandlerState \cup {None}
                    /\ Disturbed[h] = None <=> handler[h] = None
                    /\ handler[h] # None =>
                          /\ Disturbed[h].command = handler[h].command
                          /\ Disturbed[h].step = handler[h].step
                          /\ Disturbed[h].port = handler[h].port
                          /\ Disturbed[h].clean = FALSE
  BY DEF Disturbed
<1>1. CASE handler[h] = None
  BY <1>1 DEF Disturbed
<1>2. CASE handler[h] # None
  <2>1. handler[h] \in HandlerState
    BY <1>2 DEF TvTypeOK
  <2>2. Disturbed[h] = [handler[h] EXCEPT !.clean = FALSE]
    BY <1>2 DEF Disturbed
  <2>3. Disturbed[h] \in HandlerState
    BY <2>1, <2>2 DEF HandlerState
  <2>4. QED
    BY <1>2, <2>1, <2>2, <2>3, HandlerAssumption DEF HandlerState
<1>3. QED
  BY <1>1, <1>2

\* A call leaves a television.
LEMMA AfterIsTv ==
    ASSUME tv \in Tv, NEW call
    PROVE  After(call) \in Tv
BY DEF After, Tv

\* The two calls of each command.
LEMMA CallsOfCommand ==
    /\ Calls("on")[1] = "imageViewOn" /\ Calls("on")[2] = "activeSource"
    /\ Calls("off")[1] = "activeSource" /\ Calls("off")[2] = "standby"
    /\ Calls("volume")[1] = "pressed" /\ Calls("volume")[2] = "released"
BY DEF Calls

\* What the calls do to the television.
LEMMA EffectOfCalls ==
    ASSUME tv \in Tv
    PROVE  /\ After("imageViewOn").on = TRUE
           /\ After("activeSource") = [on |-> tv.on, source |-> "pi"]
           /\ tv.source = "pi" => After("standby") = [on |-> FALSE, source |-> "pi"]
           /\ After("pressed") = tv /\ After("released") = tv
BY DEF After, Tv

(***************************************************************************)
(* Commands arrive, and the surroundings.                                  *)
(***************************************************************************)
\* What a command that arrives leaves of the other handlers.
LEMMA ArrivalEffect ==
    ASSUME TvTypeOK, NEW command \in Command
    PROVE  /\ Arrival(command) \in [Handler -> HandlerState \cup {None}]
           /\ \A h \in Handler :
                 /\ Arrival(command)[h] = None <=> handler[h] = None
                 /\ handler[h] # None =>
                       /\ Arrival(command)[h].command = handler[h].command
                       /\ Arrival(command)[h].step = handler[h].step
                       /\ command \in Power => Arrival(command)[h].clean = FALSE
           /\ command \notin Power => Arrival(command) = handler
<1>1. CASE command \in Power
  BY <1>1, DisturbedEffect DEF Arrival
<1>2. CASE command \notin Power
  BY <1>2 DEF Arrival, TvTypeOK
<1>3. QED
  BY <1>1, <1>2

\* A command that gets a handler: a power command is clean only if it is alone,
\* and no other one stays clean.
LEMMA AcceptEffect ==
    ASSUME TvInv, NEW h \in Handler, NEW command \in Command,
           NEW step \in {"search", "first"}, Accept(h, command, step),
           UNCHANGED <<tv, tvState>>
    PROVE  /\ handler' \in [Handler -> HandlerState \cup {None}]
           /\ handler'[h] # None /\ handler'[h].step = step
           /\ sure' \in BOOLEAN
           /\ CleanAlone' /\ CleanProgress' /\ TvStateTrue'
<1> DEFINE new == [command |-> command, step |-> step, port |-> 1, clean |-> Alone]
<1>1. /\ handler[h] = None
      /\ handler' = [Arrival(command) EXCEPT ![h] = new]
      /\ sure' = (sure /\ command \notin Power)
  BY DEF Accept, StillSure
<1>2. /\ Arrival(command) \in [Handler -> HandlerState \cup {None}]
      /\ \A g \in Handler :
            /\ Arrival(command)[g] = None <=> handler[g] = None
            /\ handler[g] # None =>
                  /\ Arrival(command)[g].command = handler[g].command
                  /\ Arrival(command)[g].step = handler[g].step
                  /\ command \in Power => Arrival(command)[g].clean = FALSE
      /\ command \notin Power => Arrival(command) = handler
  BY ArrivalEffect DEF TvInv
<1>3. Alone \in BOOLEAN
  BY DEF Alone
<1>4. new \in HandlerState /\ new # None
  <2>1. 1 \in Port
    BY TelevisionAssumption DEF Port
  <2>2. new \in HandlerState
    BY <1>3, <2>1 DEF HandlerState
  <2>3. QED
    BY <2>2, HandlerAssumption
<1>5. handler' \in [Handler -> HandlerState \cup {None}]
  BY <1>1, <1>2, <1>4
<1>6. /\ handler'[h] = new
      /\ \A g \in Handler : g # h => handler'[g] = Arrival(command)[g]
  BY <1>1, <1>2
<1>7. new.command = command /\ new.step = step /\ new.clean = Alone
  OBVIOUS
<1>8. sure' \in BOOLEAN
  BY <1>1
<1> HIDE DEF new
<1>9. CASE command \in Power
  <2>1. \A g \in Handler : IsClean(g)' => g = h /\ Alone
    BY <1>2, <1>6, <1>7, <1>9 DEF IsClean, IsPower
  <2>2. \A g \in Handler : Alone /\ IsPower(g)' => g = h
    BY <1>2, <1>6 DEF IsPower, Alone
  <2>3. ~sure'
    BY <1>1, <1>9
  <2>4. CleanAlone'
    BY <2>1, <2>2, <2>3 DEF CleanAlone
  <2>5. CleanProgress'
    BY <2>1, <1>6, <1>7 DEF CleanProgress, At
  <2>6. TvStateTrue'
    BY <2>3 DEF TvStateTrue
  <2>7. QED
    BY <1>4, <1>5, <1>6, <1>7, <1>8, <2>4, <2>5, <2>6
<1>10. CASE command \notin Power
  <2>1. ~IsPower(h)'
    BY <1>6, <1>7, <1>10 DEF IsPower
  <2>2. \A g \in Handler : g # h => handler'[g] = handler[g]
    BY <1>2, <1>6, <1>10
  <2>3. \A g \in Handler : (IsPower(g)' => IsPower(g)) /\ (IsClean(g)' => IsClean(g))
    BY <2>1, <2>2 DEF IsPower, IsClean
  <2>4. CleanAlone'
    BY <1>1, <2>3 DEF TvInv, CleanAlone
  <2>5. CleanProgress'
    BY <2>1, <2>2 DEF TvInv, CleanProgress, At, IsClean, IsPower
  <2>6. TvStateTrue'
    BY <1>1 DEF TvInv, TvStateTrue
  <2>7. QED
    BY <1>4, <1>5, <1>6, <1>7, <1>8, <2>4, <2>5, <2>6
<1>11. QED
  BY <1>9, <1>10

\* Commands keep the invariant, whether they search, call or are dropped.
LEMMA CommandInvariant ==
    ASSUME TvInv, NEW command \in Command,
           \/ Drop(command)
           \/ \E h \in Handler : StartSearch(h, command) \/ StartCalls(h, command)
    PROVE  TvInv'
<1>1. ASSUME NEW h \in Handler, StartSearch(h, command)
      PROVE  TvInv'
  <2>1. /\ handler' \in [Handler -> HandlerState \cup {None}]
        /\ handler'[h] # None /\ handler'[h].step = "search"
        /\ sure' \in BOOLEAN
        /\ CleanAlone' /\ CleanProgress' /\ TvStateTrue'
    BY <1>1, AcceptEffect DEF StartSearch
  <2>2. TvTypeOK'
    BY <1>1, <2>1 DEF TvInv, TvTypeOK, StartSearch
  <2>3. AdapterKnownAfterSearch'
    BY <2>1 DEF AdapterKnownAfterSearch, At
  <2>4. QED
    BY <2>1, <2>2, <2>3 DEF TvInv
<1>2. ASSUME NEW h \in Handler, StartCalls(h, command)
      PROVE  TvInv'
  <2>1. /\ handler' \in [Handler -> HandlerState \cup {None}]
        /\ sure' \in BOOLEAN
        /\ CleanAlone' /\ CleanProgress' /\ TvStateTrue'
    BY <1>2, AcceptEffect DEF StartCalls
  <2>2. TvTypeOK'
    BY <1>2, <2>1 DEF TvInv, TvTypeOK, StartCalls
  <2>3. AdapterKnownAfterSearch'
    BY <1>2 DEF AdapterKnownAfterSearch, StartCalls
  <2>4. QED
    BY <2>1, <2>2, <2>3 DEF TvInv
<1>3. CASE Drop(command)
  <2>1. /\ handler' \in [Handler -> HandlerState \cup {None}]
        /\ \A g \in Handler :
              /\ handler'[g] = None <=> handler[g] = None
              /\ handler[g] # None =>
                    /\ handler'[g].command = handler[g].command
                    /\ handler'[g].step = handler[g].step
                    /\ command \in Power => handler'[g].clean = FALSE
        /\ command \notin Power => handler' = handler
    BY <1>3, ArrivalEffect DEF Drop, TvInv
  <2>2. sure' = (sure /\ command \notin Power)
    BY <1>3 DEF Drop, StillSure
  <2>3. TvTypeOK'
    BY <1>3, <2>1, <2>2 DEF Drop, TvInv, TvTypeOK, Power
  <2>4. \A g \in Handler : (IsPower(g)' => IsPower(g)) /\ (IsClean(g)' => IsClean(g))
    BY <2>1 DEF IsPower, IsClean
  <2>5. CleanAlone'
    BY <2>2, <2>4 DEF TvInv, CleanAlone
  <2>6. CleanProgress'
    BY <1>3, <2>1, <2>4 DEF Drop, TvInv, CleanProgress, At, IsClean, IsPower
  <2>7. TvStateTrue'
    BY <1>3, <2>2 DEF Drop, TvInv, TvStateTrue
  <2>8. AdapterKnownAfterSearch'
    BY <1>3, <2>1 DEF Drop, TvInv, AdapterKnownAfterSearch, At
  <2>9. QED
    BY <2>3, <2>5, <2>6, <2>7, <2>8 DEF TvInv
<1>4. QED
  BY <1>1, <1>2, <1>3

\* So do the viewer, the plug and a restart.
LEMMA SurroundingsInvariant ==
    ASSUME TvInv, Viewer \/ PlugIn \/ TvRestart
    PROVE  TvInv'
<1>1. CASE Viewer
  <2>1. /\ handler' \in [Handler -> HandlerState \cup {None}]
        /\ \A g \in Handler :
              /\ handler'[g] = None <=> handler[g] = None
              /\ handler[g] # None =>
                    /\ handler'[g].step = handler[g].step
                    /\ handler'[g].clean = FALSE
    BY <1>1, DisturbedEffect DEF Viewer, TvInv
  <2>2. ~sure' /\ \A g \in Handler : ~IsClean(g)'
    BY <1>1, <2>1 DEF Viewer, IsClean, IsPower
  <2>3. TvTypeOK'
    BY <1>1, <2>1 DEF Viewer, TvInv, TvTypeOK
  <2>4. CleanAlone' /\ CleanProgress' /\ TvStateTrue'
    BY <2>2 DEF CleanAlone, CleanProgress, TvStateTrue
  <2>5. AdapterKnownAfterSearch'
    BY <1>1, <2>1 DEF Viewer, TvInv, AdapterKnownAfterSearch, At
  <2>6. QED
    BY <2>3, <2>4, <2>5 DEF TvInv
<1>2. CASE PlugIn
  BY <1>2 DEF PlugIn, TvInv, TvTypeOK, CleanAlone, CleanProgress, TvStateTrue,
              AdapterKnownAfterSearch, IsClean, IsPower, At
<1>3. CASE TvRestart
  BY <1>3 DEF TvRestart, TvInv, TvTypeOK, CleanAlone, CleanProgress, TvStateTrue,
              AdapterKnownAfterSearch, IsClean, IsPower, At
<1>4. QED
  BY <1>1, <1>2, <1>3

(***************************************************************************)
(* Handlers go on.                                                         *)
(***************************************************************************)
\* A handler that goes on without a call on the television and without an end.
LEMMA SearchInvariant ==
    ASSUME TvInv, NEW h \in Handler,
           \/ SearchFinds(h) \/ Claim(h)
           \/ \E fails \in BOOLEAN : SearchNext(h, fails)
    PROVE  TvInv'
<1>1. handler[h] \in HandlerState /\ handler[h] # None
  BY HandlerAssumption DEF SearchFinds, Claim, SearchNext, At, TvInv, TvTypeOK
<1>2. PICK new \in HandlerState :
         /\ handler' = [handler EXCEPT ![h] = new]
         /\ new.command = handler[h].command /\ new.clean = handler[h].clean
         /\ new.step \in {"search", "claim", "first"}
         /\ new.step = "first" => adapter' # None
  <2>1. CASE SearchFinds(h)
    <3>1. [handler[h] EXCEPT !.step = "claim"] \in HandlerState
      BY <1>1 DEF HandlerState
    <3>2. QED
      BY <1>1, <2>1, <3>1 DEF SearchFinds, HandlerState
  <2>2. CASE Claim(h)
    <3>1. [handler[h] EXCEPT !.step = "first"] \in HandlerState /\ handler[h].port # None
      BY <1>1, TelevisionAssumption DEF HandlerState
    <3>2. QED
      BY <1>1, <2>2, <3>1 DEF Claim, HandlerState
  <2>3. ASSUME NEW fails \in BOOLEAN, SearchNext(h, fails)
        PROVE  \E new \in HandlerState :
                  /\ handler' = [handler EXCEPT ![h] = new]
                  /\ new.command = handler[h].command /\ new.clean = handler[h].clean
                  /\ new.step \in {"search", "claim", "first"}
                  /\ new.step = "first" => adapter' # None
    <3>1. handler[h].port + 1 \in Port
      BY <1>1, <2>3, TelevisionAssumption DEF SearchNext, HandlerState, Port
    <3>2. [handler[h] EXCEPT !.port = handler[h].port + 1] \in HandlerState
      BY <1>1, <3>1 DEF HandlerState
    <3>3. QED
      BY <1>1, <2>3, <3>2 DEF SearchNext, HandlerState, At
  <2>4. QED
    BY <2>1, <2>2, <2>3
<1>3. /\ UNCHANGED <<tv, plugged, detected, tvState, sure, missed>>
      /\ adapter' \in Port \cup {None}
      /\ adapter' = adapter \/ adapter' # None
  BY <1>1, TelevisionAssumption
     DEF SearchFinds, Claim, SearchNext, HandlerState, TvInv, TvTypeOK
<1>4. new # None
  BY HandlerAssumption
<1>5. /\ handler' \in [Handler -> HandlerState \cup {None}]
      /\ handler'[h] = new
      /\ \A g \in Handler : g # h => handler'[g] = handler[g]
  BY <1>2 DEF TvInv, TvTypeOK
<1>6. \A g \in Handler : (IsPower(g)' <=> IsPower(g)) /\ (IsClean(g)' <=> IsClean(g))
  BY <1>1, <1>2, <1>4, <1>5 DEF IsPower, IsClean
<1>7. TvTypeOK'
  BY <1>3, <1>5 DEF TvInv, TvTypeOK
<1>8. CleanAlone'
  BY <1>3, <1>6 DEF TvInv, CleanAlone
<1>9. CleanProgress'
  BY <1>2, <1>3, <1>5, <1>6 DEF TvInv, CleanProgress, At
<1>10. TvStateTrue'
  BY <1>3 DEF TvInv, TvStateTrue
<1>11. AdapterKnownAfterSearch'
  BY <1>2, <1>3, <1>4, <1>5 DEF TvInv, AdapterKnownAfterSearch, At
<1>12. QED
  BY <1>7, <1>8, <1>9, <1>10, <1>11 DEF TvInv

\* Two calls do what an undisturbed command asks for; the calls of others, which
\* are volume commands then, change nothing.
LEMMA CallInvariant ==
    ASSUME TvInv, NEW h \in Handler, FirstCall(h) \/ SecondCall(h)
    PROVE  TvInv'
<1>1. handler[h] \in HandlerState /\ handler[h] # None
  BY HandlerAssumption DEF FirstCall, SecondCall, At, TvInv, TvTypeOK
<1> DEFINE step == IF At(h, "first") THEN "second" ELSE "acted"
           call == Calls(handler[h].command)[IF At(h, "first") THEN 1 ELSE 2]
           new == [handler[h] EXCEPT !.step = step]
<1>2. /\ handler' = [handler EXCEPT ![h] = new]
      /\ tv' = After(call)
      /\ handler[h].step \in {"first", "second"}
      /\ UNCHANGED <<plugged, detected, adapter, tvState, sure, missed>>
  BY DEF FirstCall, SecondCall, At
<1>3. /\ new \in HandlerState /\ new # None
      /\ new.command = handler[h].command /\ new.clean = handler[h].clean
      /\ new.step = step
  <2>1. new \in HandlerState
    BY <1>1 DEF HandlerState
  <2>2. QED
    BY <1>1, <2>1, HandlerAssumption DEF HandlerState
<1>4. tv \in Tv /\ tv' \in Tv
  BY <1>2, AfterIsTv DEF TvInv, TvTypeOK
<1> HIDE DEF new
<1>5. /\ handler' \in [Handler -> HandlerState \cup {None}]
      /\ handler'[h] = new
      /\ \A g \in Handler : g # h => handler'[g] = handler[g]
  BY <1>2, <1>3 DEF TvInv, TvTypeOK
<1>6. \A g \in Handler : (IsPower(g)' <=> IsPower(g)) /\ (IsClean(g)' <=> IsClean(g))
  BY <1>1, <1>3, <1>5 DEF IsPower, IsClean
<1>7. TvTypeOK'
  BY <1>2, <1>4, <1>5 DEF TvInv, TvTypeOK
<1>8. CleanAlone'
  BY <1>2, <1>6 DEF TvInv, CleanAlone
<1>9. handler[h].command \notin Power => tv' = tv
  <2>1. handler[h].command \notin Power => handler[h].command = "volume"
    BY <1>1 DEF HandlerState, Command
  <2>2. QED
    BY <1>2, <1>4, <2>1, CallsOfCommand, EffectOfCalls
<1>10. IsClean(h) =>
         /\ step = "second" =>
               IF handler[h].command = "on" THEN tv'.on = TRUE ELSE tv'.source = "pi"
         /\ step = "acted" => tv' = [on |-> handler[h].command = "on", source |-> "pi"]
  <2> SUFFICES ASSUME IsClean(h)
               PROVE  /\ step = "second" =>
                            IF handler[h].command = "on" THEN tv'.on = TRUE
                                                         ELSE tv'.source = "pi"
                      /\ step = "acted" =>
                            tv' = [on |-> handler[h].command = "on", source |-> "pi"]
    OBVIOUS
  <2>1. handler[h].command \in {"on", "off"}
    BY DEF IsClean, IsPower, Power
  <2>2. CASE At(h, "first")
    <3>1. step = "second" /\ call = Calls(handler[h].command)[1]
      BY <2>2
    <3>2. CASE handler[h].command = "on"
      BY <1>2, <1>4, <3>1, <3>2, CallsOfCommand, EffectOfCalls
    <3>3. CASE handler[h].command = "off"
      BY <1>2, <1>4, <3>1, <3>3, CallsOfCommand, EffectOfCalls
    <3>4. QED
      BY <2>1, <3>2, <3>3
  <2>3. CASE ~At(h, "first")
    <3>1. At(h, "second")
      BY <1>1, <1>2, <2>3 DEF At
    <3>2. IF handler[h].command = "on" THEN tv.on = TRUE ELSE tv.source = "pi"
      BY <3>1 DEF TvInv, CleanProgress
    <3>3. CASE handler[h].command = "on"
      BY <1>2, <1>4, <2>3, <3>2, <3>3, CallsOfCommand, EffectOfCalls
    <3>4. CASE handler[h].command = "off"
      BY <1>2, <1>4, <2>3, <3>2, <3>4, CallsOfCommand, EffectOfCalls
    <3>5. QED
      BY <2>1, <3>3, <3>4
  <2>4. QED
    BY <2>2, <2>3
<1>11. CleanProgress'
  <2> SUFFICES ASSUME NEW g \in Handler, IsClean(g)'
               PROVE  /\ At(g, "second")' =>
                            IF handler'[g].command = "on" THEN tv'.on = TRUE
                                                          ELSE tv'.source = "pi"
                      /\ At(g, "acted")' =>
                            tv' = [on |-> handler'[g].command = "on", source |-> "pi"]
    BY DEF CleanProgress
  <2>1. CASE g = h
    BY <1>3, <1>5, <1>6, <1>10, <2>1 DEF At
  <2>2. CASE g # h
    <3>1. IsClean(g) /\ ~IsPower(h)
      BY <1>6, <2>2 DEF TvInv, CleanAlone
    <3>2. tv' = tv
      BY <1>1, <1>9, <3>1 DEF IsPower
    <3>3. QED
      BY <1>5, <2>2, <3>1, <3>2 DEF TvInv, CleanProgress, At
  <2>3. QED
    BY <2>1, <2>2
<1>12. TvStateTrue'
  <2> SUFFICES ASSUME sure' PROVE TvStateTrue'
    BY DEF TvStateTrue
  <2>1. sure /\ ~IsPower(h)
    BY <1>2 DEF TvInv, CleanAlone
  <2>2. tv' = tv
    BY <1>1, <1>9, <2>1 DEF IsPower
  <2>3. QED
    BY <1>2, <2>1, <2>2 DEF TvInv, TvStateTrue
<1>13. AdapterKnownAfterSearch'
  BY <1>1, <1>2, <1>3, <1>5 DEF TvInv, AdapterKnownAfterSearch, At
<1>14. QED
  BY <1>7, <1>8, <1>11, <1>12, <1>13 DEF TvInv

\* A handler that ends reports the truth if it was undisturbed.
LEMMA EndInvariant ==
    ASSUME TvInv, NEW h \in Handler,
           CallFails(h) \/ Return(h) \/ \E fails \in BOOLEAN : SearchEnds(h, fails)
    PROVE  TvInv'
<1>1. handler[h] \in HandlerState /\ handler[h] # None
  BY HandlerAssumption DEF CallFails, Return, SearchEnds, At, TvInv, TvTypeOK
<1>2. PICK result \in Command \cup {"unknown"} :
         /\ Resolve(h, result)
         /\ result = "unknown" \/ (result = handler[h].command /\ At(h, "acted") /\ tv' = tv)
  BY <1>1 DEF CallFails, Return, SearchEnds, HandlerState
<1>3. /\ UNCHANGED <<plugged, detected, adapter>>
      /\ missed' \in BOOLEAN /\ (missed => missed')
      /\ At(h, "search") \/ At(h, "claim") => missed'
      /\ tv' \in Tv
      /\ ~IsPower(h) => tv' = tv
  <2>1. CASE CallFails(h)
    <3>1. tv \in Tv /\ \A call : After(call) \in Tv
      BY AfterIsTv DEF TvInv, TvTypeOK
    <3>2. ~IsPower(h) => handler[h].command = "volume"
      BY <1>1 DEF IsPower, HandlerState, Command
    <3>3. ~IsPower(h) => tv' = tv
      BY <2>1, <3>1, <3>2, CallsOfCommand, EffectOfCalls DEF CallFails
    <3>4. QED
      BY <2>1, <3>1, <3>3 DEF CallFails, At, TvInv, TvTypeOK
  <2>2. CASE Return(h)
    BY <2>2 DEF Return, At, TvInv, TvTypeOK
  <2>3. CASE \E fails \in BOOLEAN : SearchEnds(h, fails)
    BY <2>3 DEF SearchEnds, At, TvInv, TvTypeOK
  <2>4. QED
    BY <2>1, <2>2, <2>3
<1>4. /\ handler' \in [Handler -> HandlerState \cup {None}]
      /\ handler'[h] = None
      /\ \A g \in Handler : g # h => handler'[g] = handler[g]
  BY <1>2 DEF Resolve, TvInv, TvTypeOK
<1>5. \A g \in Handler :
         /\ IsPower(g)' => IsPower(g) /\ g # h
         /\ IsClean(g)' => IsClean(g) /\ g # h
  BY <1>4 DEF IsPower, IsClean
<1>6. sure' \in BOOLEAN /\ tvState' \in Power \cup {"unknown"}
  BY <1>1, <1>2 DEF Resolve, TvInv, TvTypeOK, HandlerState
<1>7. TvTypeOK'
  BY <1>3, <1>4, <1>6 DEF TvInv, TvTypeOK
<1>8. CleanAlone'
  <2>1. sure' => \A g \in Handler : ~IsPower(g)'
    <3>1. CASE IsPower(h)
      <4>1. sure' => IsClean(h)
        BY <1>1, <1>2, <3>1 DEF Resolve, IsClean, IsPower
      <4>2. QED
        BY <1>5, <4>1 DEF TvInv, CleanAlone
    <3>2. CASE ~IsPower(h)
      BY <1>1, <1>2, <1>5, <3>2 DEF Resolve, IsPower, TvInv, CleanAlone
    <3>3. QED
      BY <3>1, <3>2
  <2>2. QED
    BY <1>5, <2>1 DEF TvInv, CleanAlone
<1>9. CleanProgress'
  <2> SUFFICES ASSUME NEW g \in Handler, IsClean(g)'
               PROVE  /\ At(g, "second")' =>
                            IF handler'[g].command = "on" THEN tv'.on = TRUE
                                                          ELSE tv'.source = "pi"
                      /\ At(g, "acted")' =>
                            tv' = [on |-> handler'[g].command = "on", source |-> "pi"]
    BY DEF CleanProgress
  <2>1. IsClean(g) /\ g # h /\ ~IsPower(h)
    BY <1>5 DEF TvInv, CleanAlone
  <2>2. tv' = tv
    BY <1>3, <2>1
  <2>3. QED
    BY <1>4, <2>1, <2>2 DEF TvInv, CleanProgress, At
<1>10. TvStateTrue'
  <2> SUFFICES ASSUME sure'
               PROVE  tvState' \in Power /\ tv' = [on |-> tvState' = "on", source |-> "pi"]
    BY DEF TvStateTrue
  <2>1. CASE IsPower(h)
    <3>1. IsClean(h) /\ result # "unknown" /\ tvState' = result
      BY <1>1, <1>2, <2>1 DEF Resolve, IsClean, IsPower
    <3>2. tv' = tv /\ result = handler[h].command /\ At(h, "acted")
      BY <1>2, <3>1
    <3>3. tv = [on |-> handler[h].command = "on", source |-> "pi"]
      BY <3>1, <3>2 DEF TvInv, CleanProgress
    <3>4. QED
      BY <2>1, <3>1, <3>2, <3>3 DEF IsPower
  <2>2. CASE ~IsPower(h)
    <3>1. sure /\ tvState' = tvState /\ tv' = tv
      BY <1>1, <1>2, <1>3, <2>2 DEF Resolve, IsPower
    <3>2. QED
      BY <3>1 DEF TvInv, TvStateTrue
  <2>3. QED
    BY <2>1, <2>2
<1>11. AdapterKnownAfterSearch'
  BY <1>3, <1>4 DEF TvInv, AdapterKnownAfterSearch, At
<1>12. QED
  BY <1>7, <1>8, <1>9, <1>10, <1>11 DEF TvInv

\* Every step keeps the invariant.
LEMMA TvInvNext == TvInv /\ [TvNext]_tvVars => TvInv'
<1> SUFFICES ASSUME TvInv, [TvNext]_tvVars PROVE TvInv'
  OBVIOUS
<1>1. CASE UNCHANGED tvVars
  BY <1>1 DEF tvVars, TvInv, TvTypeOK, CleanAlone, CleanProgress, TvStateTrue,
              AdapterKnownAfterSearch, IsClean, IsPower, At
<1>2. CASE Viewer \/ PlugIn \/ TvRestart
  BY <1>2, SurroundingsInvariant
<1>3. ASSUME NEW command \in Command,
             \/ Drop(command)
             \/ \E h \in Handler : StartSearch(h, command) \/ StartCalls(h, command)
      PROVE  TvInv'
  BY <1>3, CommandInvariant
<1>4. ASSUME NEW h \in Handler,
             \/ SearchFinds(h) \/ Claim(h)
             \/ \E fails \in BOOLEAN : SearchNext(h, fails) \/ SearchEnds(h, fails)
             \/ FirstCall(h) \/ SecondCall(h) \/ CallFails(h) \/ Return(h)
      PROVE  TvInv'
  BY <1>4, SearchInvariant, CallInvariant, EndInvariant
<1>5. QED
  BY <1>1, <1>2, <1>3, <1>4 DEF TvNext

(***************************************************************************)
(* Results.                                                                *)
(***************************************************************************)
\* The invariant holds throughout.
THEOREM TvInductiveInvariant == TvSpec => []TvInv
<1>1. QED
  BY TvInvInit, TvInvNext, PTL DEF TvSpec

\* The television's part keeps its types.
THEOREM TvTypeCorrect == TvSpec => []TvTypeOK
<1>1. TvInv => TvTypeOK
  BY DEF TvInv
<1>2. QED
  BY <1>1, TvInductiveInvariant, PTL

\* What an undisturbed power command reports is the state of the television
\* (cec.ts 97-121, agent.ts 94-98).
THEOREM PowerReportIsTrue == TvSpec => []TvStateTrue
<1>1. TvInv => TvStateTrue
  BY DEF TvInv
<1>2. QED
  BY <1>1, TvInductiveInvariant, PTL

\* No television that answers is given up (cec.ts 49-66).
THEOREM TelevisionIsFound == TvSpec => []AdapterKnownAfterSearch
<1>1. TvInv => AdapterKnownAfterSearch
  BY DEF TvInv
<1>2. QED
  BY <1>1, TvInductiveInvariant, PTL
=============================================================================
