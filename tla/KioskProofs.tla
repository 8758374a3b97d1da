---------------------------- MODULE KioskProofs ----------------------------
(***************************************************************************)
(* For any pages, scale factors, processes, timers and crashes: the        *)
(* display never loses track of a browser, and the one it holds is on the  *)
(* page last asked for.                                                    *)
(***************************************************************************)
EXTENDS Kiosk, TLAPS

\* The process the display holds has been started and was not told to go.
ChildHeld ==
    child # None =>
        browser[child] \in Browser /\ browser[child].state \in {"running", "exited"}

IInv == TypeOK /\ ChildHeld /\ OneBrowser /\ ScreenFollowsContent

(***************************************************************************)
(* What killing and launching do.                                          *)
(***************************************************************************)
\* Killing ends the only browser that runs.
LEMMA KilledEffect ==
    ASSUME TypeOK, ChildHeld, OneBrowser
    PROVE  /\ Killed \in [Process -> Browser \cup {None}]
           /\ \A p \in Process : Killed[p] # None => Killed[p].state # "running"
<1> USE DEF TypeOK
<1>1. ASSUME NEW b \in Browser
      PROVE  Terminated(b) \in Browser /\ Terminated(b).state # "running"
  <2>1. CASE b.state = "running"
    <3>1. Terminated(b) = [state |-> "terminating", page |-> b.page]
      BY <2>1 DEF Terminated, Browser
    <3>2. QED
      BY <3>1 DEF Browser
  <2>2. CASE b.state # "running"
    BY <2>2 DEF Terminated
  <2>3. QED
    BY <2>1, <2>2
<1>2. CASE child = None
  BY <1>2, KioskAssumption DEF Killed, OneBrowser, Running
<1>3. CASE child # None
  <2>1. browser[child] \in Browser /\ child \in Process
    BY <1>3 DEF ChildHeld
  <2>2. Killed = [browser EXCEPT ![child] = Terminated(browser[child])]
    BY <1>3 DEF Killed
  <2>3. ASSUME NEW p \in Process, Killed[p] # None
        PROVE  Killed[p].state # "running"
    BY <1>1, <2>1, <2>2, <2>3 DEF OneBrowser, Running
  <2>4. QED
    BY <1>1, <2>1, <2>2, <2>3
<1>4. QED
  BY <1>2, <1>3

\* A launch leaves one browser, the new one, on the page it was given.
LEMMA LaunchUrlEffect ==
    ASSUME TypeOK, ChildHeld, OneBrowser, NEW page \in Page, LaunchUrl(page)
    PROVE  /\ child' \in Process /\ runningUrl' = page.url /\ runningZoom' = page.zoom
           /\ browser' \in [Process -> Browser \cup {None}]
           /\ browser'[child'] = [state |-> "running", page |-> page]
           /\ ChildHeld' /\ OneBrowser'
<1>1. PICK p \in Process :
         /\ child' = p
         /\ browser' = [Killed EXCEPT ![p] = [state |-> "running", page |-> page]]
  BY DEF LaunchUrl
<1>2. /\ Killed \in [Process -> Browser \cup {None}]
      /\ \A q \in Process : Killed[q] # None => Killed[q].state # "running"
  BY KilledEffect
<1>3. [state |-> "running", page |-> page] \in Browser
  BY DEF Browser
<1>4. /\ browser' \in [Process -> Browser \cup {None}]
      /\ browser'[p] = [state |-> "running", page |-> page]
      /\ \A q \in Process \ {p} : browser'[q] = Killed[q]
  BY <1>1, <1>2, <1>3
<1>5. ChildHeld'
  BY <1>1, <1>3, <1>4 DEF ChildHeld
<1>6. OneBrowser'
  BY <1>1, <1>2, <1>4 DEF OneBrowser, Running
<1>7. QED
  BY <1>1, <1>4, <1>5, <1>6 DEF LaunchUrl

(***************************************************************************)
(* The invariant, action by action.                                        *)
(***************************************************************************)
\* The invariant holds initially.
LEMMA IInvInit == Init => IInv
<1> SUFFICES ASSUME Init PROVE IInv
  OBVIOUS
<1>1. TypeOK
  BY KioskAssumption DEF Init, TypeOK
<1>2. ChildHeld /\ OneBrowser /\ ScreenFollowsContent
  BY KioskAssumption DEF Init, ChildHeld, OneBrowser, Running, ScreenFollowsContent
<1>3. QED
  BY <1>1, <1>2 DEF IInv

\* What a command leaves: content and factor as asked, and the page to match.
LEMMA ShowInvariant ==
    ASSUME IInv, NEW content \in Url \cup {Blank}, NEW zoom \in Zoom, Show(content, zoom)
    PROVE  IInv'
<1> USE DEF IInv
<1>1. CASE content = Blank
  <2>1. child' = None /\ browser' = Killed /\ UNCHANGED <<runningUrl, runningZoom>>
    BY <1>1 DEF Show, Kill
  <2>2. /\ Killed \in [Process -> Browser \cup {None}]
        /\ \A p \in Process : Killed[p] # None => Killed[p].state # "running"
    BY KilledEffect
  <2>3. TypeOK'
    BY <2>1, <2>2 DEF TypeOK, Show
  <2>4. OneBrowser' /\ ChildHeld'
    BY <2>1, <2>2 DEF OneBrowser, Running, ChildHeld
  <2>5. ScreenFollowsContent'
    BY <2>1 DEF ScreenFollowsContent
  <2>6. QED
    BY <2>3, <2>4, <2>5
<1>2. CASE content # Blank /\ child # None /\ runningUrl = content /\ runningZoom = zoom
  <2>1. /\ UNCHANGED <<child, browser, runningUrl, runningZoom, timer, crashes>>
        /\ currentContent' = content /\ currentZoom' = zoom
    BY <1>2 DEF Show
  <2>2. TypeOK'
    BY <2>1 DEF TypeOK
  <2>3. OneBrowser' /\ ChildHeld'
    BY <2>1 DEF OneBrowser, Running, ChildHeld
  <2>4. ScreenFollowsContent'
    BY <1>2, <2>1 DEF ScreenFollowsContent
  <2>5. QED
    BY <2>2, <2>3, <2>4
<1>3. CASE content # Blank /\ ~(child # None /\ runningUrl = content /\ runningZoom = zoom)
  <2> DEFINE page == [url |-> content, zoom |-> zoom]
  <2>1. /\ LaunchUrl(page) /\ UNCHANGED <<timer, crashes>>
        /\ currentContent' = content /\ currentZoom' = zoom
    BY <1>3 DEF Show
  <2>2. page \in Page
    BY <1>3 DEF Page
  <2> HIDE DEF page
  <2>3. /\ child' \in Process /\ runningUrl' = page.url /\ runningZoom' = page.zoom
        /\ browser' \in [Process -> Browser \cup {None}]
        /\ browser'[child'] = [state |-> "running", page |-> page]
        /\ ChildHeld' /\ OneBrowser'
    BY <2>1, <2>2, LaunchUrlEffect
  <2>4. TypeOK'
    BY <2>1, <2>2, <2>3 DEF TypeOK, Page
  <2>5. ScreenFollowsContent'
    BY <1>3, <2>1, <2>3 DEF ScreenFollowsContent, page
  <2>6. QED
    BY <2>3, <2>4, <2>5
<1>4. QED
  BY <1>1, <1>2, <1>3

\* A launch of the page that is wanted keeps the invariant, and so does that of
\* the pairing page as long as nothing is wanted.
LEMMA RelaunchInvariant ==
    ASSUME IInv, NEW page \in Page, LaunchUrl(page), UNCHANGED <<wanted, crashes>>,
           timer' \in [Timer -> Page \cup {None}],
           currentContent \in {page.url, None}
    PROVE  IInv'
<1> USE DEF IInv
<1>1. /\ child' \in Process /\ runningUrl' = page.url /\ runningZoom' = page.zoom
      /\ browser' \in [Process -> Browser \cup {None}]
      /\ browser'[child'] = [state |-> "running", page |-> page]
      /\ ChildHeld' /\ OneBrowser'
  BY LaunchUrlEffect
<1>2. page.url \in Url \cup {PairingPage} /\ page.zoom \in Zoom
      /\ page = [url |-> page.url, zoom |-> page.zoom]
  BY DEF Page
<1>3. TypeOK'
  BY <1>1, <1>2 DEF TypeOK, wanted
<1>4. ScreenFollowsContent'
  BY <1>1, <1>2, KioskAssumption DEF ScreenFollowsContent, wanted
<1>5. QED
  BY <1>1, <1>3, <1>4

\* Processes that die, on their own or not, and their exit events: only that of
\* the process the display holds changes what it holds.
LEMMA ProcessInvariant ==
    ASSUME IInv, NEW p \in Process, Crash(p) \/ Die(p) \/ OnExit(p)
    PROVE  IInv'
<1> USE DEF IInv
<1>1. CASE Crash(p)
  <2>1. browser[p] \in Browser /\ [browser[p] EXCEPT !.state = "exited"] \in Browser
    BY <1>1 DEF Crash, TypeOK, Browser
  <2>2. /\ browser' = [browser EXCEPT ![p] = [browser[p] EXCEPT !.state = "exited"]]
        /\ UNCHANGED <<wanted, child, runningUrl, runningZoom, timer>>
    BY <1>1 DEF Crash
  <2>3. TypeOK'
    BY <1>1, <2>1, <2>2, KioskAssumption DEF Crash, TypeOK, wanted
  <2>4. [browser[p] EXCEPT !.state = "exited"].page = browser[p].page
        /\ [browser[p] EXCEPT !.state = "exited"].state = "exited"
    BY <2>1 DEF Browser
  <2>5. ChildHeld' /\ OneBrowser'
    BY <2>1, <2>2, <2>4 DEF ChildHeld, OneBrowser, Running, TypeOK
  <2>6. ScreenFollowsContent'
    BY <2>1, <2>2, <2>4 DEF ScreenFollowsContent, wanted, TypeOK
  <2>7. QED
    BY <2>3, <2>5, <2>6
<1>2. CASE Die(p)
  <2>1. browser[p] \in Browser /\ [browser[p] EXCEPT !.state = "exited"] \in Browser
    BY <1>2 DEF Die, TypeOK, Browser
  <2>2. /\ browser' = [browser EXCEPT ![p] = [browser[p] EXCEPT !.state = "exited"]]
        /\ UNCHANGED <<wanted, child, runningUrl, runningZoom, timer, crashes>>
    BY <1>2 DEF Die
  <2>3. TypeOK'
    BY <2>1, <2>2 DEF TypeOK, wanted
  <2>4. [browser[p] EXCEPT !.state = "exited"].page = browser[p].page
        /\ [browser[p] EXCEPT !.state = "exited"].state = "exited"
    BY <2>1 DEF Browser
  <2>5. ChildHeld' /\ OneBrowser'
    BY <2>1, <2>2, <2>4 DEF ChildHeld, OneBrowser, Running, TypeOK
  <2>6. ScreenFollowsContent'
    BY <2>1, <2>2, <2>4 DEF ScreenFollowsContent, wanted, TypeOK
  <2>7. QED
    BY <2>3, <2>5, <2>6
<1>3. CASE OnExit(p)
  <2>1. /\ browser[p] # None /\ browser[p].state = "exited"
        /\ browser' = [browser EXCEPT ![p] = None]
        /\ child' = IF child = p THEN None ELSE child
        /\ UNCHANGED <<wanted, runningUrl, runningZoom, crashes>>
    BY <1>3 DEF OnExit
  <2>2. timer' \in [Timer -> Page \cup {None}]
    <3>1. CASE child # p \/ currentContent \notin Url
      BY <1>3, <3>1 DEF OnExit, TypeOK
    <3>2. CASE child = p /\ currentContent \in Url
      <4>1. [url |-> currentContent, zoom |-> currentZoom] \in Page
        BY <3>2 DEF TypeOK, Page
      <4>2. QED
        BY <1>3, <3>2, <4>1 DEF OnExit, TypeOK
    <3>3. QED
      BY <3>1, <3>2
  <2>3. TypeOK'
    BY <2>1, <2>2 DEF TypeOK, wanted
  <2>4. ChildHeld' /\ OneBrowser'
    BY <2>1 DEF ChildHeld, OneBrowser, Running, TypeOK
  <2>5. ScreenFollowsContent'
    BY <2>1 DEF ScreenFollowsContent, wanted, TypeOK
  <2>6. QED
    BY <2>3, <2>4, <2>5
<1>4. QED
  BY <1>1, <1>2, <1>3

\* A respawn timer launches its page only if that page is still wanted.
LEMMA RespawnInvariant ==
    ASSUME IInv, NEW k \in Timer, Respawn(k)
    PROVE  IInv'
<1>1. timer[k] \in Page /\ timer' \in [Timer -> Page \cup {None}]
  BY DEF IInv, Respawn, TypeOK
<1>2. CASE currentContent = timer[k].url
  <2>1. LaunchUrl(timer[k]) /\ UNCHANGED <<wanted, crashes>>
    BY <1>2 DEF Respawn
  <2>2. QED
    BY <1>1, <1>2, <2>1, RelaunchInvariant
<1>3. CASE currentContent # timer[k].url
  <2>1. UNCHANGED <<wanted, crashes, child, browser, runningUrl, runningZoom>>
    BY <1>3 DEF Respawn
  <2>2. QED
    BY <1>1, <2>1 DEF IInv, TypeOK, ChildHeld, OneBrowser, Running,
                      ScreenFollowsContent, wanted
<1>4. QED
  BY <1>2, <1>3

\* Every step keeps the invariant.
LEMMA IInvNext == IInv /\ [Next]_vars => IInv'
<1> SUFFICES ASSUME IInv, [Next]_vars PROVE IInv'
  OBVIOUS
<1>1. ASSUME NEW content \in Url \cup {Blank}, NEW zoom \in Zoom, Show(content, zoom)
      PROVE  IInv'
  BY <1>1, ShowInvariant
<1>2. CASE Refresh
  <2> DEFINE page == [url |-> currentContent, zoom |-> currentZoom]
  <2>1. page \in Page /\ page.url = currentContent
    BY <1>2 DEF Refresh, IInv, TypeOK, Page
  <2>2. LaunchUrl(page) /\ UNCHANGED <<wanted, crashes>> /\ timer' = timer
    BY <1>2 DEF Refresh
  <2>3. timer' \in [Timer -> Page \cup {None}]
    BY <2>2 DEF IInv, TypeOK
  <2> HIDE DEF page
  <2>4. QED
    BY <2>1, <2>2, <2>3, RelaunchInvariant
<1>3. CASE ShowPairingCode
  <2> DEFINE page == [url |-> PairingPage, zoom |-> DefaultZoom]
  <2>1. page \in Page
    BY KioskAssumption DEF Page
  <2>2. /\ LaunchUrl(page) /\ UNCHANGED <<wanted, crashes>> /\ timer' = timer
        /\ currentContent = None
    BY <1>3 DEF ShowPairingCode
  <2>3. timer' \in [Timer -> Page \cup {None}]
    BY <2>2 DEF IInv, TypeOK
  <2> HIDE DEF page
  <2>4. QED
    BY <2>1, <2>2, <2>3, RelaunchInvariant
<1>4. ASSUME NEW p \in Process, Crash(p) \/ Die(p) \/ OnExit(p)
      PROVE  IInv'
  BY <1>4, ProcessInvariant
<1>5. ASSUME NEW k \in Timer, Respawn(k)
      PROVE  IInv'
  BY <1>5, RespawnInvariant
<1>6. CASE UNCHANGED vars
  BY <1>6 DEF IInv, TypeOK, ChildHeld, OneBrowser, Running, ScreenFollowsContent, vars
<1>7. QED
  BY <1>1, <1>2, <1>3, <1>4, <1>5, <1>6 DEF Next

(***************************************************************************)
(* The refinement: every step of the display is a step of Screen or        *)
(* changes nothing that can be seen.                                       *)
(***************************************************************************)
\* What can be seen is the page of the process the display holds, if it lives.
LEMMA OnScreenIsChild ==
    ASSUME IInv
    PROVE  OnScreen = IF child # None /\ Running(child) THEN {browser[child].page} ELSE {}
<1>1. \A p \in Process : Running(p) => child = p
  BY DEF IInv, OneBrowser
<1>2. child \in Process \cup {None} /\ None \notin Process
  BY KioskAssumption DEF IInv, TypeOK
<1>3. QED
  BY <1>1, <1>2 DEF OnScreen

\* A browser that has been launched is what can be seen.
LEMMA LaunchedIsSeen ==
    ASSUME IInv, IInv', NEW page \in Page, LaunchUrl(page)
    PROVE  OnScreen' = {page}
<1>1. child' \in Process /\ browser'[child'] = [state |-> "running", page |-> page]
  BY LaunchUrlEffect DEF IInv
<1>2. [state |-> "running", page |-> page] # None
  BY BrowserAssumption DEF Browser
<1>3. \A p \in Process : Running(p)' <=> p = child'
  BY <1>1, <1>2 DEF IInv, OneBrowser, Running
<1>4. OnScreen' = {browser'[p].page : p \in {q \in Process : q = child'}}
  BY <1>3 DEF OnScreen
<1>5. QED
  BY <1>1, <1>4

\* Until content is asked for, nothing but the pairing page has been launched.
PairingFirst == currentContent = None => runningUrl \in {None, PairingPage}

\* No step launches content that was not asked for.
LEMMA PairingFirstNext ==
    ASSUME IInv, PairingFirst, [Next]_vars
    PROVE  PairingFirst'
<1>1. ASSUME NEW content \in Url \cup {Blank}, NEW zoom \in Zoom, Show(content, zoom)
      PROVE  PairingFirst'
  <2>1. currentContent' = content /\ content # None
    BY <1>1, KioskAssumption DEF Show
  <2>2. QED
    BY <2>1 DEF PairingFirst
<1>2. CASE Refresh
  <2>1. currentContent' \in Url
    BY <1>2 DEF Refresh, wanted
  <2>2. QED
    BY <2>1, KioskAssumption DEF PairingFirst
<1>3. CASE ShowPairingCode
  BY <1>3 DEF ShowPairingCode, LaunchUrl, PairingFirst
<1>4. ASSUME NEW p \in Process, Crash(p) \/ Die(p) \/ OnExit(p)
      PROVE  PairingFirst'
  BY <1>4 DEF Crash, Die, OnExit, PairingFirst, wanted
<1>5. ASSUME NEW k \in Timer, Respawn(k)
      PROVE  PairingFirst'
  <2>1. CASE currentContent = timer[k].url
    <3>1. timer[k] \in Page
      BY <1>5 DEF Respawn, IInv, TypeOK
    <3>2. currentContent # None
      BY <2>1, <3>1, KioskAssumption DEF Page
    <3>3. QED
      BY <1>5, <3>2 DEF Respawn, PairingFirst, wanted
  <2>2. CASE currentContent # timer[k].url
    BY <1>5, <2>2 DEF Respawn, PairingFirst, wanted
  <2>3. QED
    BY <2>1, <2>2
<1>6. CASE UNCHANGED vars
  BY <1>6 DEF PairingFirst, vars
<1>7. QED
  BY <1>1, <1>2, <1>3, <1>4, <1>5, <1>6 DEF Next

\* Nothing can be seen initially.
LEMMA ScreenInit == Init => Promise!Init
<1> SUFFICES ASSUME Init PROVE Promise!Init
  OBVIOUS
<1>1. \A p \in Process : ~Running(p)
  BY DEF Init, Running
<1>2. OnScreen = {}
  BY <1>1 DEF OnScreen
<1>3. QED
  BY <1>2 DEF Init, Promise!Init

\* A command is a command: also one that finds its page running, or gone without
\* the display having been told.
LEMMA ShowIsAsk ==
    ASSUME IInv, IInv', PairingFirst, NEW content \in Url \cup {Blank}, NEW zoom \in Zoom,
           Show(content, zoom)
    PROVE  Promise!Ask(content, zoom)
<1> DEFINE page == [url |-> content, zoom |-> zoom]
<1>1. currentContent' = content /\ currentZoom' = zoom
  BY DEF Show
<1>2. CASE content = Blank
  <2>1. child' = None
    BY <1>2 DEF Show, Kill
  <2>2. OnScreen' = {}
    BY <2>1, KioskAssumption DEF IInv, OneBrowser, OnScreen
  <2>3. QED
    BY <1>1, <1>2, <2>2 DEF Promise!Ask
<1>3. CASE content # Blank /\ child # None /\ runningUrl = content /\ runningZoom = zoom
  <2>1. UNCHANGED <<child, browser>>
    BY <1>3 DEF Show
  <2>2. browser[child].page = page
    BY <1>3 DEF IInv, ScreenFollowsContent
  <2>3. OnScreen' = OnScreen
    BY <2>1 DEF OnScreen, Running
  <2>4. CASE Running(child)
    <3>1. OnScreen = {page}
      BY <1>3, <2>2, <2>4, OnScreenIsChild
    <3>2. QED
      BY <1>1, <1>3, <2>3, <3>1 DEF Promise!Ask
  <2>5. CASE ~Running(child)
    <3>1. OnScreen = {}
      BY <2>5, OnScreenIsChild
    <3>2. currentContent = content
      BY <1>3, KioskAssumption DEF IInv, TypeOK, ScreenFollowsContent, PairingFirst
    <3>3. QED
      BY <1>1, <2>3, <3>1, <3>2 DEF Promise!Ask
  <2>6. QED
    BY <2>4, <2>5
<1>4. CASE content # Blank /\ ~(child # None /\ runningUrl = content /\ runningZoom = zoom)
  <2>1. LaunchUrl(page) /\ page \in Page
    BY <1>4 DEF Show, Page
  <2> HIDE DEF page
  <2>2. OnScreen' = {page}
    BY <2>1, LaunchedIsSeen
  <2>3. QED
    BY <1>1, <1>4, <2>2 DEF Promise!Ask, page
<1>5. QED
  BY <1>2, <1>3, <1>4

\* Launches on behalf of what is wanted: refresh, the pairing page, the timer.
LEMMA RelaunchIsPromised ==
    ASSUME IInv, IInv', Refresh \/ ShowPairingCode \/ \E k \in Timer : Respawn(k)
    PROVE  [Promise!Next]_(Promise!vars)
<1>1. CASE Refresh
  <2> DEFINE page == [url |-> currentContent, zoom |-> currentZoom]
  <2>1. LaunchUrl(page) /\ page \in Page
    BY <1>1 DEF Refresh, IInv, TypeOK, Page
  <2> HIDE DEF page
  <2>2. OnScreen' = {page}
    BY <2>1, LaunchedIsSeen
  <2>3. Promise!Reload
    BY <1>1, <2>2 DEF Refresh, Promise!Reload, wanted, page
  <2>4. QED
    BY <2>3 DEF Promise!Next
<1>2. CASE ShowPairingCode
  <2> DEFINE page == [url |-> PairingPage, zoom |-> DefaultZoom]
  <2>1. LaunchUrl(page) /\ page \in Page
    BY <1>2, KioskAssumption DEF ShowPairingCode, Page
  <2> HIDE DEF page
  <2>2. OnScreen' = {page}
    BY <2>1, LaunchedIsSeen
  <2>3. Promise!ShowCode
    BY <1>2, <2>2 DEF ShowPairingCode, Promise!ShowCode, wanted, page
  <2>4. QED
    BY <2>3 DEF Promise!Next
<1>3. ASSUME NEW k \in Timer, Respawn(k)
      PROVE  [Promise!Next]_(Promise!vars)
  <2>1. timer[k] \in Page /\ UNCHANGED wanted
    BY <1>3 DEF Respawn, IInv, TypeOK
  <2>2. CASE currentContent = timer[k].url
    <3>1. OnScreen' = {timer[k]}
      BY <1>3, <2>1, <2>2, LaunchedIsSeen DEF Respawn
    <3>2. timer[k] = [url |-> currentContent, zoom |-> timer[k].zoom] /\ timer[k].zoom \in Zoom
      BY <2>1, <2>2 DEF Page
    <3>3. CASE currentContent \in Url
      <4>1. Promise!Recover(timer[k].zoom)
        BY <2>1, <3>1, <3>2, <3>3 DEF Promise!Recover, wanted
      <4>2. QED
        BY <3>2, <4>1 DEF Promise!Next
    <3>4. CASE currentContent \notin Url
      BY <2>1, <2>2, <3>4, KioskAssumption DEF Page, IInv, TypeOK
    <3>5. QED
      BY <3>3, <3>4
  <2>3. CASE currentContent # timer[k].url
    <3>1. OnScreen' = OnScreen
      BY <1>3, <2>3 DEF Respawn, OnScreen, Running
    <3>2. QED
      BY <2>1, <3>1 DEF Promise!vars, wanted
  <2>4. QED
    BY <2>2, <2>3
<1>4. QED
  BY <1>1, <1>2, <1>3

\* A process that dies takes at most the page it shows off the screen; the death
\* of one that was told to go, and the exit events, cannot be seen.
LEMMA ProcessIsPromised ==
    ASSUME IInv, IInv', NEW p \in Process, Crash(p) \/ Die(p) \/ OnExit(p)
    PROVE  [Promise!Next]_(Promise!vars)
<1>1. CASE Crash(p)
  <2>1. Running(p) /\ child = p /\ child' = p /\ UNCHANGED wanted /\ child # None
    BY <1>1, KioskAssumption DEF Crash, Running, IInv, OneBrowser
  <2>2. ~Running(child)'
    BY <1>1, <2>1 DEF Crash, Running, IInv, TypeOK, Browser
  <2>3. OnScreen # {}
    BY <2>1, OnScreenIsChild
  <2>4. OnScreen' = {}
    BY <2>1, <2>2 DEF IInv, OneBrowser, OnScreen
  <2>5. QED
    BY <2>1, <2>3, <2>4 DEF Promise!Next, Promise!GoDark, wanted
<1>2. CASE Die(p) \/ OnExit(p)
  <2>1. /\ \A q \in Process : Running(q)' <=> Running(q)
        /\ \A q \in Process : Running(q) => browser'[q] = browser[q]
        /\ UNCHANGED wanted
    BY <1>2, KioskAssumption DEF Die, OnExit, Running, IInv, TypeOK, Browser
  <2>2. OnScreen' = OnScreen
    BY <2>1 DEF OnScreen
  <2>3. QED
    BY <2>1, <2>2 DEF Promise!vars, wanted
<1>3. QED
  BY <1>1, <1>2

\* Every step of the display is one that Screen allows.
LEMMA StepIsPromised ==
    ASSUME IInv, IInv', PairingFirst, [Next]_vars
    PROVE  [Promise!Next]_(Promise!vars)
<1>1. ASSUME NEW content \in Url \cup {Blank}, NEW zoom \in Zoom, Show(content, zoom)
      PROVE  [Promise!Next]_(Promise!vars)
  BY <1>1, ShowIsAsk DEF Promise!Next
<1>2. CASE UNCHANGED vars
  BY <1>2 DEF vars, Promise!vars, OnScreen, Running
<1>3. QED
  BY <1>1, <1>2, RelaunchIsPromised, ProcessIsPromised DEF Next

(***************************************************************************)
(* Results.                                                                *)
(***************************************************************************)
\* The inductive invariant holds throughout.
THEOREM InductiveInvariant == Spec => []IInv
<1>1. QED
  BY IInvInit, IInvNext, PTL DEF Spec

\* The display keeps its types.
THEOREM TypeCorrect == Spec => []TypeOK
<1>1. IInv => TypeOK
  BY DEF IInv
<1>2. QED
  BY <1>1, InductiveInvariant, PTL

\* At no moment does a browser run that the display does not hold (chromium.ts
\* 56-106).
THEOREM NoStrayBrowser == Spec => []OneBrowser
<1>1. IInv => OneBrowser
  BY DEF IInv
<1>2. QED
  BY <1>1, InductiveInvariant, PTL

\* The browser the display holds is on the page last asked for, and there is none
\* when a blank screen was asked for; its scale is the one noted as running, which
\* need not be the one last asked for (chromium.ts 27-49, 69-86).
THEOREM RightPage == Spec => []ScreenFollowsContent
<1>1. IInv => ScreenFollowsContent
  BY DEF IInv
<1>2. QED
  BY <1>1, InductiveInvariant, PTL

\* The display keeps the promise of its interface: one page at a time, only pages
\* that were asked for, and never one of an earlier command (chromium.ts 27-106).
THEOREM DisplayKeepsPromise == Spec => ImplementsScreen
<1>1. Init => PairingFirst
  BY DEF Init, PairingFirst
<1>2. Spec => []PairingFirst
  BY <1>1, PairingFirstNext, InductiveInvariant, PTL DEF Spec
<1>3. Spec => [][Promise!Next]_(Promise!vars)
  BY <1>2, StepIsPromised, InductiveInvariant, PTL DEF Spec
<1>4. QED
  BY <1>3, ScreenInit, PTL DEF Spec, ImplementsScreen, Promise!Spec
=============================================================================
