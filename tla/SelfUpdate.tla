----------------------------- MODULE SelfUpdate -----------------------------
(***************************************************************************)
(* The self-update of an agent: a timer, on while the server says so,      *)
(* starts deploy/self-update.sh, which moves the checkout to the newest    *)
(* commit and rebuilds the shared package and then the agent; the exit     *)
(* code tells the agent whether to stop, in which case systemd starts it   *)
(* again on whatever build it finds.                                       *)
(*                                                                         *)
(* Commits are numbered.  A build is two versions, since its two packages  *)
(* are compiled one after the other and each can be left as it was.  npm,  *)
(* tsc, git and systemd are modelled from the way the script uses them.    *)
(***************************************************************************)
EXTENDS Naturals

VARIABLES
    origin,          \* the newest commit of origin/main
    head,            \* the commit checked out on the Pi
    built,           \* the versions found in the dist directories
    running,         \* the versions the process was started from
    autoUpdateTimer, \* the periodic check is on
    updating,        \* the agent's flag: a check is under way
    script,          \* what the script is about to do, or its exit code, or "idle"
    spoiled          \* history: a run of the script ended between moving the
                     \* checkout and the end of the build, and none has got
                     \* through since

updateVars == <<origin, head, built, running, autoUpdateTimer, updating, script, spoiled>>

Build == [shared : Nat, agent : Nat]
Whole(version) == [shared |-> version, agent |-> version]

\* The checkout has moved and the build has not caught up.
Rebuilding == {"install", "buildShared", "buildAgent"}
Exited == {"exit0", "exit1", "exit2"}

UpdateTypeOK ==
    /\ origin \in Nat /\ head \in Nat
    /\ built \in Build /\ running \in Build
    /\ autoUpdateTimer \in BOOLEAN /\ updating \in BOOLEAN
    /\ script \in {"idle", "sync"} \cup Rebuilding \cup Exited
    /\ updating <=> script # "idle"
    /\ spoiled \in BOOLEAN

UpdateInit ==
    /\ origin = 1 /\ head = 1
    /\ built = Whole(1) /\ running = Whole(1)
    /\ autoUpdateTimer = FALSE /\ updating = FALSE
    /\ script = "idle"
    /\ spoiled = FALSE

\* Somebody pushes to main.
Push ==
    /\ origin' = origin + 1
    /\ UNCHANGED <<head, built, running, autoUpdateTimer, updating, script, spoiled>>

\* setAutoUpdate(): a check under way goes on.
SetAutoUpdate(enabled) ==
    /\ autoUpdateTimer' = enabled
    /\ UNCHANGED <<origin, head, built, running, updating, script, spoiled>>

\* The timer fires: checkForUpdate() starts the script unless one is under way.
CheckForUpdate ==
    /\ autoUpdateTimer /\ ~updating
    /\ updating' = TRUE
    /\ script' = "sync"
    /\ UNCHANGED <<origin, head, built, running, autoUpdateTimer, spoiled>>

(***************************************************************************)
(* The script.                                                             *)
(***************************************************************************)
\* fetch, reset, and the comparison of the commits before and after.
Sync ==
    /\ script = "sync"
    /\ head' = origin
    /\ script' = IF head = origin THEN "exit0" ELSE "install"
    /\ UNCHANGED <<origin, built, running, autoUpdateTimer, updating, spoiled>>

\* The script cannot be started, or origin cannot be reached.
SyncFails ==
    /\ script = "sync"
    /\ script' = "exit1"
    /\ UNCHANGED <<origin, head, built, running, autoUpdateTimer, updating, spoiled>>

\* Mutant: the shared package is not built.
InstallForAgentOnly ==
    /\ script = "install"
    /\ script' = "buildAgent"
    /\ UNCHANGED <<origin, head, built, running, autoUpdateTimer, updating, spoiled>>

Install ==
    /\ script = "install"
    /\ script' = "buildShared"
    /\ UNCHANGED <<origin, head, built, running, autoUpdateTimer, updating, spoiled>>

BuildShared ==
    /\ script = "buildShared"
    /\ built' = [built EXCEPT !.shared = head]
    /\ script' = "buildAgent"
    /\ UNCHANGED <<origin, head, running, autoUpdateTimer, updating, spoiled>>

BuildAgent ==
    /\ script = "buildAgent"
    /\ built' = [built EXCEPT !.agent = head]
    /\ script' = "exit2"
    /\ spoiled' = FALSE
    /\ UNCHANGED <<origin, head, running, autoUpdateTimer, updating>>

\* What a compilation that does not end well can leave: the compiler writes its
\* output in spite of errors (noEmitOnError is not set).
Leftover ==
    CASE script = "buildShared" -> {built, [built EXCEPT !.shared = head]}
      [] script = "buildAgent" -> {built, [built EXCEPT !.agent = head]}
      [] OTHER -> {built}

\* set -e: npm fails and the script ends with what it has done so far.
StepFails ==
    /\ script \in Rebuilding
    /\ built' \in Leftover
    /\ script' = "exit1"
    /\ spoiled' = TRUE
    /\ UNCHANGED <<origin, head, running, autoUpdateTimer, updating>>

\* Mutant: the flag is cleared only when the process is about to stop.
OnScriptExitKeepsFlag ==
    /\ script \in Exited
    /\ script' = "idle"
    /\ IF script = "exit2"
       THEN autoUpdateTimer' = FALSE /\ running' = built /\ updating' = FALSE
       ELSE UNCHANGED <<autoUpdateTimer, running, updating>>
    /\ UNCHANGED <<origin, head, built, spoiled>>

\* The agent sees the exit code; on 2 it stops, and systemd starts the new build.
OnScriptExit ==
    /\ script \in Exited
    /\ script' = "idle" /\ updating' = FALSE
    /\ IF script = "exit2"
       THEN autoUpdateTimer' = FALSE /\ running' = built
       ELSE UNCHANGED <<autoUpdateTimer, running>>
    /\ UNCHANGED <<origin, head, built, spoiled>>

\* The process dies or is stopped, and the script with it (they share a control
\* group); it is started again on whatever has been built.
UpdateRestart ==
    /\ built' \in Leftover
    /\ running' = built'
    /\ autoUpdateTimer' = FALSE /\ updating' = FALSE
    /\ script' = "idle"
    /\ spoiled' = (spoiled \/ script \in Rebuilding)
    /\ UNCHANGED <<origin, head>>

-----------------------------------------------------------------------------
UpdateNext ==
    \/ Push
    \/ \E enabled \in BOOLEAN : SetAutoUpdate(enabled)
    \/ CheckForUpdate
    \/ Sync \/ SyncFails
    \/ Install \/ BuildShared \/ BuildAgent \/ StepFails
    \/ OnScriptExit
    \/ UpdateRestart

UpdateSpec == UpdateInit /\ [][UpdateNext]_updateVars

(***************************************************************************)
(* What must hold.                                                         *)
(***************************************************************************)
\* Whenever no update is being applied, the process runs what is checked out, all
\* of it from one commit, so that "already up to date" is true; unless a run of
\* the script was cut short after it had moved the checkout (self-update.sh 20-35,
\* self-update.ts 27-37).
RunsCheckout ==
    ~spoiled /\ script \notin Rebuilding \cup {"exit2"} =>
        built = Whole(head) /\ running = Whole(head)
=============================================================================
