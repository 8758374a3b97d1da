------------------------------ MODULE Pairing ------------------------------
(***************************************************************************)
(* Pairing: an agent without a token opens a session, shows its code and   *)
(* polls; an administrator claims the code, which mints a device and       *)
(* attaches its token to the session; the agent's next poll fetches and    *)
(* saves the token.  An agent whose session expired opens another one.     *)
(*                                                                         *)
(* A claim is a lookup, an insert and an update with awaits between them:  *)
(* expiry, polls, other claims, a deletion of the new device or the end of *)
(* the server process may come in between.  A device stands for its token. *)
(***************************************************************************)
EXTENDS Naturals, FiniteSets

CONSTANTS
    Agent,     \* Pis
    Session,   \* session ids; their number bounds the sessions opened
    Device,    \* device ids; their number bounds the devices minted
    Claim,     \* slots for concurrent claim requests
    MaxFaults, \* bound: lost answers, restarts of an agent or of the server
    None

ASSUME PairingAssumption ==
    /\ None \notin Session \cup Device
    /\ MaxFaults \in Nat

VARIABLES
    session,  \* session[x]: the pairing_sessions row, or None
    waiting,  \* waiting[a]: the session agent a shows and polls, or None
    poll,     \* poll[a]: the answer to a's poll on its way to it, or None
    saved,    \* saved[a]: the token in the agent's state file, or None
    devices,  \* the rows of the devices table
    minted,   \* every device ever inserted
    claim,    \* claim[c]: a claim under way, or None
    faults

vars == <<session, waiting, poll, saved, devices, minted, claim, faults>>

\* expired: expiresAt is in the past. device: device_id, and device_token with it.
\* Codes are random and may collide, so none of the properties rests on them.
SessionRow == [status : {"pending", "claimed"}, expired : BOOLEAN,
               device : Device \cup {None}]

\* null is neither a row nor a claim under way.
ASSUME RowAssumption ==
    None \notin SessionRow \cup [session : Session, device : Device \cup {None}]

\* offered, which the agent never sees, is what the session held when the poll
\* was answered.
Answer == [status : {"pending", "expired", "claimed"}, device : Device \cup {None},
           offered : Device \cup {None}]

TypeOK ==
    /\ session \in [Session -> SessionRow \cup {None}]
    /\ waiting \in [Agent -> Session \cup {None}]
    /\ poll \in [Agent -> Answer \cup {None}]
    /\ saved \in [Agent -> Device \cup {None}]
    /\ devices \in SUBSET Device /\ minted \in SUBSET Device
    /\ claim \in [Claim -> [session : Session, device : Device \cup {None}] \cup {None}]
    /\ faults \in 0..MaxFaults

Init ==
    /\ session = [x \in Session |-> None]
    /\ waiting = [a \in Agent |-> None]
    /\ poll = [a \in Agent |-> None]
    /\ saved = [a \in Agent |-> None]
    /\ devices = {} /\ minted = {}
    /\ claim = [c \in Claim |-> None]
    /\ faults = 0

Fault == faults < MaxFaults /\ faults' = faults + 1

Expire(x) ==
    /\ session[x] # None /\ ~session[x].expired
    /\ session' = [session EXCEPT ![x].expired = TRUE]
    /\ UNCHANGED <<waiting, poll, saved, devices, minted, claim, faults>>

(***************************************************************************)
(* The agent.                                                              *)
(***************************************************************************)
\* Mutant: the column default of status is not what the routes compare with.
OpenedWithOtherStatus(x) ==
    [session EXCEPT ![x] = [status |-> "open", expired |-> FALSE, device |-> None]]

\* POST /api/pairing/start inserts a session.
Opened(x) ==
    [session EXCEPT ![x] = [status |-> "pending", expired |-> FALSE, device |-> None]]

\* A Pi whose clock is ahead by the life of a session gives it up before it polls.
StartSession(a) ==
    /\ saved[a] = None /\ waiting[a] = None
    /\ \E x \in Session :
          /\ session[x] = None
          /\ session' = Opened(x)
          /\ \/ waiting' = [waiting EXCEPT ![a] = x]
             \/ UNCHANGED waiting
    /\ UNCHANGED <<poll, saved, devices, minted, claim, faults>>

\* The answer is lost: the agent exits and systemd starts it again, while the
\* session it never heard of stays behind.
StartLost(a) ==
    /\ saved[a] = None /\ waiting[a] = None /\ Fault
    /\ \E x \in Session :
          /\ session[x] = None
          /\ session' = Opened(x)
    /\ UNCHANGED <<waiting, poll, saved, devices, minted, claim>>

\* Mutant: an expired session is expired, claimed or not.
StatusExpiryFirst(row) ==
    IF row.expired THEN "expired"
    ELSE IF row.status = "claimed" /\ row.device # None THEN "claimed"
    ELSE "pending"

\* GET /api/pairing/status/:sessionId.
Status(row) ==
    IF row.status = "pending" /\ row.expired THEN "expired"
    ELSE IF row.status = "claimed" /\ row.device # None THEN "claimed"
    ELSE "pending"

\* The server answers a poll.
Poll(a) ==
    /\ waiting[a] # None /\ poll[a] = None
    /\ LET row == session[waiting[a]]
       IN  poll' = [poll EXCEPT ![a] =
              [status |-> Status(row), offered |-> row.device,
               device |-> IF Status(row) = "claimed" THEN row.device ELSE None]]
    /\ UNCHANGED <<session, waiting, saved, devices, minted, claim, faults>>

\* The loop ends when the server says so, or when the Pi's own clock, which nothing
\* keeps in step with the server's, has passed the time the session expires.
Continue(a, status) ==
    \/ status # "expired" /\ UNCHANGED waiting
    \/ waiting' = [waiting EXCEPT ![a] = None]

\* Mutant: the loop goes on after a token was saved.
AnsweredKeepsPolling(a) ==
    /\ waiting[a] # None /\ poll[a] # None
    /\ poll' = [poll EXCEPT ![a] = None]
    /\ IF poll[a].status = "claimed"
       THEN /\ saved' = [saved EXCEPT ![a] = poll[a].device]
            /\ UNCHANGED waiting
       ELSE Continue(a, poll[a].status) /\ UNCHANGED saved
    /\ UNCHANGED <<session, devices, minted, claim, faults>>

\* The answer reaches the agent. A token is saved at once; otherwise the agent
\* polls again or drops the session and asks for another one.
Answered(a) ==
    /\ waiting[a] # None /\ poll[a] # None
    /\ poll' = [poll EXCEPT ![a] = None]
    /\ IF poll[a].status = "claimed"
       THEN /\ saved' = [saved EXCEPT ![a] = poll[a].device]
            /\ waiting' = [waiting EXCEPT ![a] = None]
       ELSE Continue(a, poll[a].status) /\ UNCHANGED saved
    /\ UNCHANGED <<session, devices, minted, claim, faults>>

\* A poll that gets no answer counts as one that says nothing.
PollLost(a) ==
    /\ waiting[a] # None /\ Fault
    /\ poll' = [poll EXCEPT ![a] = None]
    /\ Continue(a, "pending")
    /\ UNCHANGED <<session, saved, devices, minted, claim>>

\* Without a saved token a restarted agent begins again; with one it resumes.
AgentRestart(a) ==
    /\ waiting[a] # None /\ Fault
    /\ waiting' = [waiting EXCEPT ![a] = None]
    /\ poll' = [poll EXCEPT ![a] = None]
    /\ UNCHANGED <<session, saved, devices, minted, claim>>

(***************************************************************************)
(* The administrator: POST /api/devices/claim, DELETE /api/devices/:id.    *)
(***************************************************************************)
\* The lookup finds a pending session with the code that was typed, and it has
\* not expired. (With colliding codes findFirst may return any of them, an
\* expired one too: then the claim fails and nothing changes.)
ClaimCheck(c) ==
    /\ claim[c] = None
    /\ \E x \in Session :
          /\ session[x] # None
          /\ session[x].status = "pending" /\ ~session[x].expired
          /\ claim' = [claim EXCEPT ![c] = [session |-> x, device |-> None]]
    /\ UNCHANGED <<session, waiting, poll, saved, devices, minted, faults>>

ClaimInsert(c) ==
    /\ claim[c] # None /\ claim[c].device = None
    /\ \E d \in Device \ minted :
          /\ minted' = minted \cup {d}
          /\ devices' = devices \cup {d}
          /\ claim' = [claim EXCEPT ![c].device = d]
    /\ UNCHANGED <<session, waiting, poll, saved, faults>>

\* Mutant: the update is by status and not by session id.
ClaimAttachByStatus(c) ==
    /\ claim[c] # None /\ claim[c].device # None
    /\ session' = IF claim[c].device \in devices
                  THEN [x \in Session |->
                          IF session[x] # None /\ session[x].status = "pending"
                          THEN [session[x] EXCEPT !.status = "claimed",
                                                  !.device = claim[c].device]
                          ELSE session[x]]
                  ELSE session
    /\ claim' = [claim EXCEPT ![c] = None]
    /\ UNCHANGED <<waiting, poll, saved, devices, minted, faults>>

\* The update is by session id, whatever became of the session; the foreign key
\* refuses it when the device has been deleted.
ClaimAttach(c) ==
    /\ claim[c] # None /\ claim[c].device # None
    /\ session' = IF claim[c].device \in devices
                  THEN [session EXCEPT ![claim[c].session].status = "claimed",
                                       ![claim[c].session].device = claim[c].device]
                  ELSE session
    /\ claim' = [claim EXCEPT ![c] = None]
    /\ UNCHANGED <<waiting, poll, saved, devices, minted, faults>>

\* Mutant: no foreign key from the sessions to the devices.
DeleteDeviceOnly(d) ==
    /\ d \in devices
    /\ devices' = devices \ {d}
    /\ UNCHANGED <<session, waiting, poll, saved, minted, claim, faults>>

\* Deleting a device clears device_id in the sessions (onDelete: set null).
DeleteDevice(d) ==
    /\ d \in devices
    /\ devices' = devices \ {d}
    /\ session' = [x \in Session |->
          IF session[x] # None /\ session[x].device = d
          THEN [session[x] EXCEPT !.device = None] ELSE session[x]]
    /\ UNCHANGED <<waiting, poll, saved, minted, claim, faults>>

ServerRestart ==
    /\ Fault
    /\ claim' = [c \in Claim |-> None]
    /\ UNCHANGED <<session, waiting, poll, saved, devices, minted>>

-----------------------------------------------------------------------------
Next ==
    \/ \E x \in Session : Expire(x)
    \/ \E a \in Agent :
          \/ StartSession(a)
          \/ StartLost(a)
          \/ Poll(a)
          \/ Answered(a)
          \/ PollLost(a)
          \/ AgentRestart(a)
    \/ \E c \in Claim :
          \/ ClaimCheck(c)
          \/ ClaimInsert(c)
          \/ ClaimAttach(c)
    \/ \E d \in Device : DeleteDevice(d)
    \/ ServerRestart

Spec == Init /\ [][Next]_vars

(***************************************************************************)
(* What must hold.                                                         *)
(***************************************************************************)
\* No two screens ever answer to the same device, although codes collide, the
\* same code is claimed twice at once and sessions outlive their agents.
OneScreenPerDevice ==
    \A a, b \in Agent : saved[a] # None /\ saved[a] = saved[b] => a = b

\* A claim that took effect reaches the screen that showed the code: unless a
\* restart or a lost answer intervenes, an agent drops a session only with the
\* token that the session held when its last poll was answered, expired or not,
\* whatever the Pi's clock says (pairing.ts 27-37 of the agent with 44-69 of the server).
ClaimReachesScreen ==
    [][\A a \in Agent :
          waiting[a] # None /\ waiting'[a] = None /\ faults' = faults
              => saved'[a] = poll[a].offered]_vars

\* A token that a session offers is of a device that exists, so what an agent
\* fetches lets it connect, whatever was deleted during the claim.
OfferedDeviceExists ==
    \A x \in Session : session[x] # None /\ session[x].device # None
        => session[x].device \in devices /\ session[x].status = "claimed"

(***************************************************************************)
(* Pairing implements what Binding promises.                               *)
(***************************************************************************)
\* Agent a may still accept d: its session holds d, or an answer on its way to it
\* does. Nobody can fetch what is in any other session.
Offered(a, d) ==
    \/ waiting[a] # None /\ session[waiting[a]].device = d
    \/ poll[a] # None /\ poll[a].device = d

Offers == {o \in Agent \X Device : Offered(o[1], o[2])}

\* The devices of claims that have not attached them.
Fresh == {d \in Device : \E c \in Claim : claim[c] # None /\ claim[c].device = d}

Promise == INSTANCE Binding
    WITH made <- minted, alive <- devices, fresh <- Fresh, offers <- Offers, bound <- saved

\* Seen from outside, pairing does what Binding promises: a device goes from its
\* claim to one screen, nothing that was lost on the way turns up again, and a
\* screen that has its device never gets another (pairing.ts 19-40 of the agent,
\* pairing.ts 44-69 and devices.ts 60-99 of the server).
ImplementsBinding == Promise!Spec
=============================================================================
