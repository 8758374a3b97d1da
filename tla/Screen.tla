------------------------------- MODULE Screen -------------------------------
(***************************************************************************)
(* What a display promises whoever commands it (the interface Display):    *)
(* the pages on the screen, at most one of them, and the commands and      *)
(* accidents that change them.  How browsers are started, watched and      *)
(* replaced is not visible here; Kiosk implements this module.             *)
(***************************************************************************)
CONSTANTS Url, PairingPage, Zoom, DefaultZoom, Blank, None

VARIABLES
    asked,   \* the content last asked for, None before the first
    factor,  \* the scale factor it was asked for with
    screen   \* the pages that can be seen

vars == <<asked, factor, screen>>

Init ==
    /\ asked = None /\ factor = DefaultZoom
    /\ screen = {}

\* show(): the page can be seen at once, unless it was on display before, has
\* gone dark, and nobody has noticed yet; blank means that nothing can be seen.
Ask(content, zoom) ==
    /\ asked' = content /\ factor' = zoom
    /\ \/ content = Blank /\ screen' = {}
       \/ content # Blank /\ screen' = {[url |-> content, zoom |-> zoom]}
       \/ content = asked /\ screen = {} /\ screen' = {}

\* refresh(): the page that is wanted, with the factor that is wanted.
Reload ==
    /\ asked \in Url
    /\ screen' = {[url |-> asked, zoom |-> factor]}
    /\ UNCHANGED <<asked, factor>>

\* showPairingCode(): the code is never shown over content.
ShowCode ==
    /\ asked = None
    /\ screen' = {[url |-> PairingPage, zoom |-> DefaultZoom]}
    /\ UNCHANGED <<asked, factor>>

\* An accident: the screen goes dark.
GoDark ==
    /\ screen # {} /\ screen' = {}
    /\ UNCHANGED <<asked, factor>>

\* On its own a display puts nothing on the screen but the page last asked for;
\* the factor may be one that was asked for earlier.
Recover(zoom) ==
    /\ asked \in Url
    /\ screen' = {[url |-> asked, zoom |-> zoom]}
    /\ UNCHANGED <<asked, factor>>

-----------------------------------------------------------------------------
Next ==
    \/ \E content \in Url \cup {Blank}, zoom \in Zoom : Ask(content, zoom)
    \/ Reload
    \/ ShowCode
    \/ GoDark
    \/ \E zoom \in Zoom : Recover(zoom)

Spec == Init /\ [][Next]_vars
=============================================================================
