------------------------------- MODULE Kiosk -------------------------------
(***************************************************************************)
(* The kiosk browser of one agent process (ChromiumDisplay): commands ask  *)
(* for content, the display spawns and kills browser processes, a browser  *)
(* that dies on its own is relaunched by a timer three seconds later.      *)
(*                                                                         *)
(* show, refresh and the timer's callback contain no await, so each is one *)
(* step.  A process dies at one moment and its `exit' event is handled at  *)
(* a later one; any command or timer may come in between.                  *)
(***************************************************************************)
EXTENDS Naturals, FiniteSets

CONSTANTS
    Url,         \* pages a command can ask for
    PairingPage, \* the local file with the pairing code
    Zoom,        \* scale factors
    DefaultZoom, \* 1
    Process,     \* browser processes, reused once their exit was handled
    Timer,       \* pending respawn timers; their number is a bound
    MaxCrashes,  \* bound: browser crashes
    Blank,       \* the content { type: 'blank' }
    None

ASSUME KioskAssumption ==
    /\ PairingPage \notin Url /\ Blank \notin Url \cup {PairingPage}
    /\ None \notin Url \cup Process \cup {Blank, PairingPage}
    /\ DefaultZoom \in Zoom /\ MaxCrashes \in Nat

VARIABLES
    currentContent, \* what the last show asked for, None before the first
    currentZoom,
    child,          \* the process the display holds, or None
    runningUrl,     \* what was last launched
    runningZoom,
    browser,        \* browser[p]: state and page of process p
    timer,          \* timer[k]: the page a pending respawn captured, or None
    crashes

vars == <<currentContent, currentZoom, child, runningUrl, runningZoom,
          browser, timer, crashes>>
wanted == <<currentContent, currentZoom>>

Page == [url : Url \cup {PairingPage}, zoom : Zoom]

\* "terminating": sent SIGTERM; "exited": dead, `exit' event not yet handled.
Browser == [state : {"running", "terminating", "exited"}, page : Page]

ASSUME BrowserAssumption == None \notin Browser

TypeOK ==
    /\ currentContent \in Url \cup {Blank, None}
    /\ currentZoom \in Zoom
    /\ child \in Process \cup {None}
    /\ runningUrl \in Url \cup {PairingPage, None}
    /\ runningZoom \in Zoom
    /\ browser \in [Process -> Browser \cup {None}]
    /\ timer \in [Timer -> Page \cup {None}]
    /\ crashes \in 0..MaxCrashes

Init ==
    /\ currentContent = None /\ currentZoom = DefaultZoom
    /\ child = None
    /\ runningUrl = None /\ runningZoom = DefaultZoom
    /\ browser = [p \in Process |-> None]
    /\ timer = [k \in Timer |-> None]
    /\ crashes = 0

(***************************************************************************)
(* Processes.                                                              *)
(***************************************************************************)
\* Signalling the group of a process that is already dead changes nothing.
Terminated(b) == IF b.state = "running" THEN [b EXCEPT !.state = "terminating"] ELSE b

\* kill(): the reference goes first, so the exit counts as intentional.
Killed == IF child = None THEN browser ELSE [browser EXCEPT ![child] = Terminated(@)]

Kill ==
    /\ child' = None
    /\ browser' = Killed

\* Mutant: the old browser is left running.
LaunchUrlWithoutKill(page) ==
    /\ \E p \in Process :
          /\ browser[p] = None
          /\ child' = p
          /\ browser' = [browser EXCEPT ![p] = [state |-> "running", page |-> page]]
    /\ runningUrl' = page.url /\ runningZoom' = page.zoom

\* launchUrl: kill what runs, spawn a new process on the page.
LaunchUrl(page) ==
    /\ \E p \in Process :
          /\ browser[p] = None
          /\ child' = p
          /\ browser' = [Killed EXCEPT ![p] = [state |-> "running", page |-> page]]
    /\ runningUrl' = page.url /\ runningZoom' = page.zoom

\* Mutant: what was launched last is taken to be running still.
ShowByUrlOnly(content, zoom) ==
    /\ currentContent' = content /\ currentZoom' = zoom
    /\ IF content = Blank
       THEN Kill /\ UNCHANGED <<runningUrl, runningZoom>>
       ELSE IF runningUrl = content /\ runningZoom = zoom
       THEN UNCHANGED <<child, browser, runningUrl, runningZoom>>
       ELSE LaunchUrl([url |-> content, zoom |-> zoom])
    /\ UNCHANGED <<timer, crashes>>

\* show(): remember what is wanted; relaunch unless it is what runs already.
Show(content, zoom) ==
    /\ currentContent' = content /\ currentZoom' = zoom
    /\ IF content = Blank
       THEN Kill /\ UNCHANGED <<runningUrl, runningZoom>>
       ELSE IF child # None /\ runningUrl = content /\ runningZoom = zoom
       THEN UNCHANGED <<child, browser, runningUrl, runningZoom>>
       ELSE LaunchUrl([url |-> content, zoom |-> zoom])
    /\ UNCHANGED <<timer, crashes>>

\* refresh(): relaunch what is wanted; nothing to do for a blank screen.
Refresh ==
    /\ currentContent \in Url
    /\ LaunchUrl([url |-> currentContent, zoom |-> currentZoom])
    /\ UNCHANGED <<wanted, timer, crashes>>

\* showPairingCode(): only before the agent has ever been told what to show.
ShowPairingCode ==
    /\ currentContent = None
    /\ LaunchUrl([url |-> PairingPage, zoom |-> DefaultZoom])
    /\ UNCHANGED <<wanted, timer, crashes>>

(***************************************************************************)
(* Exits and respawns.                                                     *)
(***************************************************************************)
\* The browser dies on its own.
Crash(p) ==
    /\ crashes < MaxCrashes
    /\ browser[p] # None /\ browser[p].state = "running"
    /\ browser' = [browser EXCEPT ![p].state = "exited"]
    /\ crashes' = crashes + 1
    /\ UNCHANGED <<wanted, child, runningUrl, runningZoom, timer>>

\* SIGTERM has its effect.
Die(p) ==
    /\ browser[p] # None /\ browser[p].state = "terminating"
    /\ browser' = [browser EXCEPT ![p].state = "exited"]
    /\ UNCHANGED <<wanted, child, runningUrl, runningZoom, timer, crashes>>

\* Mutants: a respawn is scheduled whatever is wanted; none is ever scheduled.
OnExitAlwaysRespawns(p) ==
    /\ browser[p] # None /\ browser[p].state = "exited"
    /\ browser' = [browser EXCEPT ![p] = None]
    /\ IF child # p
       THEN UNCHANGED <<child, timer>>
       ELSE /\ child' = None
            /\ \E k \in Timer :
                  /\ timer[k] = None
                  /\ timer' = [timer EXCEPT ![k] =
                        [url |-> currentContent, zoom |-> currentZoom]]
    /\ UNCHANGED <<wanted, runningUrl, runningZoom, crashes>>

OnExitNeverRespawns(p) ==
    /\ browser[p] # None /\ browser[p].state = "exited"
    /\ browser' = [browser EXCEPT ![p] = None]
    /\ child' = IF child = p THEN None ELSE child
    /\ UNCHANGED <<wanted, runningUrl, runningZoom, timer, crashes>>

\* The `exit' event: of a process the display has moved on from it is ignored;
\* otherwise, if a page is wanted, a respawn of that page is scheduled.
OnExit(p) ==
    /\ browser[p] # None /\ browser[p].state = "exited"
    /\ browser' = [browser EXCEPT ![p] = None]
    /\ IF child # p
       THEN UNCHANGED <<child, timer>>
       ELSE /\ child' = None
            /\ IF currentContent \in Url
               THEN \E k \in Timer :
                       /\ timer[k] = None
                       /\ timer' = [timer EXCEPT ![k] =
                             [url |-> currentContent, zoom |-> currentZoom]]
               ELSE UNCHANGED timer
    /\ UNCHANGED <<wanted, runningUrl, runningZoom, crashes>>

\* Mutant: the timer does not look at what is wanted by now.
RespawnUnchecked(k) ==
    /\ timer[k] # None
    /\ timer' = [timer EXCEPT ![k] = None]
    /\ LaunchUrl(timer[k])
    /\ UNCHANGED <<wanted, crashes>>

\* The respawn timer: launches what it captured if that page is still wanted,
\* whatever runs by now and with whatever scale factor.
Respawn(k) ==
    /\ timer[k] # None
    /\ timer' = [timer EXCEPT ![k] = None]
    /\ IF currentContent = timer[k].url
       THEN LaunchUrl(timer[k])
       ELSE UNCHANGED <<child, browser, runningUrl, runningZoom>>
    /\ UNCHANGED <<wanted, crashes>>

-----------------------------------------------------------------------------
Next ==
    \/ \E content \in Url \cup {Blank}, zoom \in Zoom : Show(content, zoom)
    \/ Refresh
    \/ ShowPairingCode
    \/ \E p \in Process : Crash(p) \/ Die(p) \/ OnExit(p)
    \/ \E k \in Timer : Respawn(k)

Spec == Init /\ [][Next]_vars

\* Signals are obeyed, exit events are delivered, timers fire. (Strong fairness
\* only because the pool of process identities, a bound of the model, may be
\* exhausted now and then.)
Fairness ==
    /\ \A p \in Process : WF_vars(Die(p)) /\ WF_vars(OnExit(p))
    /\ \A k \in Timer : SF_vars(Respawn(k))

FairSpec == Spec /\ Fairness

(***************************************************************************)
(* What must hold.                                                         *)
(***************************************************************************)
Running(p) == browser[p] # None /\ browser[p].state = "running"

\* There is never a browser on the screen that the display has lost track of:
\* the one it holds is the only one alive that was not told to go, whatever the
\* order of exits, respawns and commands (chromium.ts 56-87, 89-106).
OneBrowser == \A p \in Process : Running(p) => child = p

\* The browser on the screen is on the page last asked for, and there is none
\* when a blank screen was asked for: a respawn scheduled for what was wanted
\* before comes to nothing (chromium.ts 76-84). It shows what the display has
\* noted as running, page and scale; that the noted scale is the one last asked
\* for is not said here, and not true (ScreenFollowsZoom).
ScreenFollowsContent ==
    /\ currentContent = Blank => child = None
    /\ currentContent \in Url /\ child # None => runningUrl = currentContent
    /\ child # None => browser[child].page = [url |-> runningUrl, zoom |-> runningZoom]

\* "24/7 signage: respawn so a browser crash doesn't leave a black screen"
\* (chromium.ts 75): a wanted page is on the screen again sooner or later.
CrashedBrowserReturns ==
    \A u \in Url :
        currentContent = u ~> (currentContent = u => child # None /\ Running(child))

(***************************************************************************)
(* The display implements what Screen promises.                            *)
(***************************************************************************)
\* The pages of the browsers that have not been told to go.
OnScreen == {browser[p].page : p \in {q \in Process : Running(q)}}

Promise == INSTANCE Screen
    WITH asked <- currentContent, factor <- currentZoom, screen <- OnScreen

\* Whatever processes, exit events and timers do, an observer of the screen sees
\* what the interface promises: one page, put there by a command or, if it is
\* still the page wanted, by the display itself; no page of an earlier command
\* comes back, and the pairing code never replaces content (chromium.ts 27-87,
\* display/index.ts 8-12).
ImplementsScreen == Promise!Spec

\* devices.ts 120-121: the factor "applies to whatever's currently showing".
ScreenFollowsZoom ==
    currentContent \in Url /\ child # None => runningZoom = currentZoom
=============================================================================
