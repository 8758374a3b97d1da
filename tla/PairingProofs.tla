--------------------------- MODULE PairingProofs ---------------------------
(***************************************************************************)
(* For any agents, sessions, devices, claims and faults: a session offers  *)
(* only devices that exist, no two agents ever hold the same token, claims *)
(* reach the screens whose codes they name, and Pairing implements Binding.*)
(*                                                                         *)
(* A device's token travels from a claim to a session, from there into the *)
(* answers to polls and at last into a state file.  The invariant says     *)
(* that at any moment one agent at most is on the way of each token.       *)
(***************************************************************************)
EXTENDS Pairing, TLAPS

\* The device a session, an answer or a claim holds.
SessionDevice(x) == IF session[x] = None THEN None ELSE session[x].device
PollDevice(a) == IF poll[a] = None THEN None ELSE poll[a].device
ClaimDevice(c) == IF claim[c] = None THEN None ELSE claim[c].device

\* Whatever is held has been minted.
AllMinted ==
    /\ devices \subseteq minted
    /\ \A x \in Session : SessionDevice(x) \in minted \cup {None}
    /\ \A a \in Agent : {PollDevice(a), saved[a]} \subseteq minted \cup {None}
    /\ \A c \in Claim : ClaimDevice(c) \in minted \cup {None}

\* Agents wait for sessions of their own; only a waiting agent awaits an answer;
\* claims are of sessions.
SessionsOwned ==
    /\ \A a \in Agent : waiting[a] # None => session[waiting[a]] \in SessionRow
    /\ \A a, b \in Agent : waiting[a] # None /\ waiting[a] = waiting[b] => a = b
    /\ \A a \in Agent : poll[a] # None => waiting[a] # None
    /\ \A c \in Claim : claim[c] # None => session[claim[c].session] \in SessionRow

\* A token that is still in a claim is nowhere else, nor in another claim.
ClaimsFresh ==
    \A c \in Claim : ClaimDevice(c) # None =>
        /\ \A e \in Claim : ClaimDevice(e) = ClaimDevice(c) => e = c
        /\ \A x \in Session : SessionDevice(x) # ClaimDevice(c)
        /\ \A a \in Agent : PollDevice(a) # ClaimDevice(c) /\ saved[a] # ClaimDevice(c)

\* A token is in one session, only the agent that waits for the session has it in
\* an answer, and once it is saved nobody waits for the session any more.
SessionsApart ==
    \A x \in Session : SessionDevice(x) # None =>
        /\ \A y \in Session : SessionDevice(y) = SessionDevice(x) => y = x
        /\ \A a \in Agent : PollDevice(a) = SessionDevice(x) => waiting[a] = x
        /\ \A a, b \in Agent : saved[a] = SessionDevice(x) => waiting[b] # x

\* No two agents have a token, be it saved or in an answer.
AgentsApart ==
    \A a, b \in Agent : a # b =>
        /\ PollDevice(a) # None => PollDevice(a) # PollDevice(b) /\ PollDevice(a) # saved[b]
        /\ saved[a] # None => saved[a] # saved[b]

Apart == ClaimsFresh /\ SessionsApart /\ AgentsApart

IInv == TypeOK /\ OfferedDeviceExists /\ AllMinted /\ SessionsOwned /\ Apart

\* The invariant holds initially.
LEMMA IInvInit == Init => IInv
<1> SUFFICES ASSUME Init PROVE IInv
  OBVIOUS
<1>1. TypeOK /\ OfferedDeviceExists
  BY PairingAssumption DEF Init, TypeOK, OfferedDeviceExists
<1>2. AllMinted /\ SessionsOwned
  BY DEF Init, AllMinted, SessionsOwned, SessionDevice, PollDevice, ClaimDevice
<1>3. Apart
  BY DEF Init, Apart, ClaimsFresh, SessionsApart, AgentsApart,
         SessionDevice, PollDevice, ClaimDevice
<1>4. QED
  BY <1>1, <1>2, <1>3 DEF IInv

(***************************************************************************)
(* The agents.                                                             *)
(***************************************************************************)
\* A session that is opened holds no device, and nobody waits for it yet.
LEMMA OpenedEffect ==
    ASSUME IInv, NEW x \in Session, session[x] = None, session' = Opened(x)
    PROVE  /\ session' \in [Session -> SessionRow \cup {None}]
           /\ session'[x] \in SessionRow /\ session'[x].device = None
           /\ \A y \in Session \ {x} : session'[y] = session[y]
           /\ \A y \in Session : SessionDevice(y)' = SessionDevice(y)
           /\ \A a \in Agent : waiting[a] # x
           /\ devices' = devices => OfferedDeviceExists'
<1>1. [status |-> "pending", expired |-> FALSE, device |-> None] \in SessionRow
  BY DEF SessionRow
<1>2. session \in [Session -> SessionRow \cup {None}]
  BY DEF IInv, TypeOK
<1>3. /\ session' \in [Session -> SessionRow \cup {None}]
      /\ session'[x] \in SessionRow /\ session'[x].device = None
      /\ \A y \in Session \ {x} : session'[y] = session[y]
  BY <1>1, <1>2 DEF Opened
<1>4. \A y \in Session : SessionDevice(y)' = SessionDevice(y)
  BY <1>3 DEF SessionDevice
<1>5. \A a \in Agent : waiting[a] # x
  BY RowAssumption, PairingAssumption DEF IInv, SessionsOwned
<1>6. devices' = devices => OfferedDeviceExists'
  BY <1>3 DEF IInv, OfferedDeviceExists
<1>7. QED
  BY <1>3, <1>4, <1>5, <1>6

\* An agent opens a session, whether or not it hears of it.
LEMMA StartInvariant ==
    ASSUME IInv, NEW a \in Agent, StartSession(a) \/ StartLost(a)
    PROVE  IInv'
<1>1. PICK x \in Session :
         /\ session[x] = None /\ session' = Opened(x)
         /\ waiting' = waiting \/ waiting' = [waiting EXCEPT ![a] = x]
  BY DEF StartSession, StartLost
<1>2. /\ UNCHANGED <<poll, saved, devices, minted, claim>>
      /\ waiting[a] = None /\ faults' \in 0..MaxFaults
  BY PairingAssumption DEF StartSession, StartLost, Fault, IInv, TypeOK
<1>3. /\ session' \in [Session -> SessionRow \cup {None}]
      /\ session'[x] \in SessionRow
      /\ \A y \in Session \ {x} : session'[y] = session[y]
      /\ \A y \in Session : SessionDevice(y)' = SessionDevice(y)
      /\ \A b \in Agent : waiting[b] # x
      /\ OfferedDeviceExists'
  BY <1>1, <1>2, OpenedEffect
<1>4. /\ \A b \in Agent : PollDevice(b)' = PollDevice(b)
      /\ \A c \in Claim : ClaimDevice(c)' = ClaimDevice(c)
  BY <1>2 DEF PollDevice, ClaimDevice
<1>5. TypeOK'
  BY <1>1, <1>2, <1>3 DEF IInv, TypeOK
<1>6. AllMinted'
  BY <1>2, <1>3, <1>4 DEF IInv, AllMinted
<1>7. SessionsOwned'
  BY <1>1, <1>2, <1>3 DEF IInv, TypeOK, SessionsOwned
<1>8. SessionDevice(x) = None
  BY <1>1 DEF SessionDevice
<1>9. PollDevice(a) = None
  BY <1>2 DEF IInv, SessionsOwned, PollDevice
<1>10. ClaimsFresh' /\ AgentsApart'
  BY <1>2, <1>3, <1>4 DEF IInv, Apart, ClaimsFresh, AgentsApart
<1>11. SessionsApart'
  BY <1>1, <1>2, <1>3, <1>4, <1>8, <1>9 DEF IInv, TypeOK, Apart, SessionsApart
<1>12. QED
  BY <1>3, <1>5, <1>6, <1>7, <1>10, <1>11 DEF IInv, Apart

\* The server answers a poll with what the polled session holds, or with nothing.
LEMMA PollInvariant ==
    ASSUME IInv, NEW a \in Agent, Poll(a)
    PROVE  IInv'
<1> DEFINE x == waiting[a]
<1>1. /\ UNCHANGED <<session, waiting, saved, devices, minted, claim, faults>>
      /\ x # None /\ poll[a] = None
  BY DEF Poll
<1>2. x \in Session /\ session[x] \in SessionRow
  BY <1>1 DEF IInv, TypeOK, SessionsOwned
<1>3. /\ poll' \in [Agent -> Answer \cup {None}]
      /\ poll'[a].device \in {session[x].device, None}
      /\ \A b \in Agent \ {a} : poll'[b] = poll[b]
  <2>1. Status(session[x]) \in {"pending", "expired", "claimed"}
    BY DEF Status
  <2>2. session[x].device \in Device \cup {None}
    BY <1>2 DEF SessionRow
  <2>3. QED
    BY <2>1, <2>2 DEF Poll, Answer, IInv, TypeOK
<1>4. SessionDevice(x) = session[x].device
  BY <1>2, RowAssumption DEF SessionDevice
<1>5. /\ PollDevice(a)' \in {SessionDevice(x), None}
      /\ \A b \in Agent \ {a} : PollDevice(b)' = PollDevice(b)
      /\ \A y \in Session : SessionDevice(y)' = SessionDevice(y)
      /\ \A c \in Claim : ClaimDevice(c)' = ClaimDevice(c)
  BY <1>1, <1>3, <1>4 DEF PollDevice, SessionDevice, ClaimDevice
<1>6. TypeOK' /\ OfferedDeviceExists'
  BY <1>1, <1>3 DEF IInv, TypeOK, OfferedDeviceExists
<1>7. AllMinted'
  BY <1>1, <1>2, <1>5 DEF IInv, AllMinted
<1>8. SessionsOwned'
  BY <1>1, <1>3 DEF IInv, SessionsOwned
<1>9. ClaimsFresh'
  BY <1>1, <1>2, <1>5 DEF IInv, Apart, ClaimsFresh
<1>10. SessionsApart'
  BY <1>1, <1>2, <1>5 DEF IInv, Apart, SessionsApart
<1>11. AgentsApart'
  <2>1. ASSUME NEW b \in Agent \ {a}, PollDevice(a)' # None
        PROVE  PollDevice(b) # PollDevice(a)' /\ saved[b] # PollDevice(a)'
    BY <1>1, <1>2, <1>5, <2>1 DEF IInv, TypeOK, Apart, SessionsApart, SessionsOwned
  <2>2. QED
    BY <1>1, <1>5, <2>1 DEF IInv, Apart, AgentsApart
<1>12. QED
  BY <1>6, <1>7, <1>8, <1>9, <1>10, <1>11 DEF IInv, Apart

\* Whatever an agent does with an answer, or without one, it ends up with no
\* answer, and with a new token only if that was in the answer and it stops waiting.
LEMMA PollEndsEffect ==
    ASSUME IInv, NEW a \in Agent, Answered(a) \/ PollLost(a) \/ AgentRestart(a)
    PROVE  /\ UNCHANGED <<session, devices, minted, claim>> /\ faults' \in 0..MaxFaults
           /\ poll' = [poll EXCEPT ![a] = None]
           /\ waiting' = waiting \/ waiting' = [waiting EXCEPT ![a] = None]
           /\ \/ saved' = saved
              \/ /\ saved' = [saved EXCEPT ![a] = PollDevice(a)]
                 /\ waiting' = [waiting EXCEPT ![a] = None]
<1>1. CASE Answered(a)
  BY <1>1 DEF Answered, Continue, PollDevice, IInv, TypeOK
<1>2. CASE PollLost(a)
  BY <1>2, PairingAssumption DEF PollLost, Continue, Fault, IInv, TypeOK
<1>3. CASE AgentRestart(a)
  BY <1>3, PairingAssumption DEF AgentRestart, Fault, IInv, TypeOK
<1>4. QED
  BY <1>1, <1>2, <1>3

\* The end of a poll preserves the invariant.
LEMMA PollEndsInvariant ==
    ASSUME IInv, NEW a \in Agent, Answered(a) \/ PollLost(a) \/ AgentRestart(a)
    PROVE  IInv'
<1>1. /\ UNCHANGED <<session, devices, minted, claim>> /\ faults' \in 0..MaxFaults
      /\ poll' = [poll EXCEPT ![a] = None]
      /\ waiting' = waiting \/ waiting' = [waiting EXCEPT ![a] = None]
      /\ \/ saved' = saved
         \/ /\ saved' = [saved EXCEPT ![a] = PollDevice(a)]
            /\ waiting' = [waiting EXCEPT ![a] = None]
  BY PollEndsEffect
<1>2. /\ poll' \in [Agent -> Answer \cup {None}] /\ poll'[a] = None
      /\ waiting' \in [Agent -> Session \cup {None}]
      /\ waiting'[a] \in {waiting[a], None}
      /\ \A b \in Agent \ {a} : poll'[b] = poll[b] /\ waiting'[b] = waiting[b]
  BY <1>1 DEF IInv, TypeOK
<1>3. PollDevice(a) \in Device \cup {None}
  BY DEF PollDevice, Answer, IInv, TypeOK
<1>4. /\ saved' \in [Agent -> Device \cup {None}]
      /\ saved'[a] = saved[a] \/ (saved'[a] = PollDevice(a) /\ waiting'[a] = None)
      /\ \A b \in Agent \ {a} : saved'[b] = saved[b]
  BY <1>1, <1>3 DEF IInv, TypeOK
<1>5. /\ PollDevice(a)' = None
      /\ \A b \in Agent \ {a} : PollDevice(b)' = PollDevice(b)
      /\ \A y \in Session : SessionDevice(y)' = SessionDevice(y)
      /\ \A c \in Claim : ClaimDevice(c)' = ClaimDevice(c)
  BY <1>1, <1>2 DEF PollDevice, SessionDevice, ClaimDevice
<1>6. TypeOK' /\ OfferedDeviceExists'
  BY <1>1, <1>2, <1>4 DEF IInv, TypeOK, OfferedDeviceExists
<1>7. AllMinted'
  BY <1>1, <1>4, <1>5 DEF IInv, AllMinted
<1>8. SessionsOwned'
  BY <1>1, <1>2 DEF IInv, SessionsOwned
<1>9. ClaimsFresh'
  BY <1>4, <1>5 DEF IInv, Apart, ClaimsFresh
<1>10. SessionsApart'
  <2> SUFFICES ASSUME NEW x \in Session, SessionDevice(x) # None
               PROVE  /\ \A b \in Agent : PollDevice(b)' = SessionDevice(x) => waiting'[b] = x
                      /\ \A b, e \in Agent : saved'[b] = SessionDevice(x) => waiting'[e] # x
    BY <1>5 DEF IInv, Apart, SessionsApart
  <2>1. \A b \in Agent : PollDevice(b)' = SessionDevice(x) => waiting'[b] = x
    BY <1>2, <1>5 DEF IInv, Apart, SessionsApart
  <2>2. ASSUME NEW b \in Agent, NEW e \in Agent, saved'[b] = SessionDevice(x)
        PROVE  waiting'[e] # x
    <3>1. x # None
      BY PairingAssumption
    <3>2. CASE saved'[b] = saved[b]
      <4>1. waiting[e] # x
        BY <2>2, <3>2 DEF IInv, Apart, SessionsApart
      <4>2. waiting'[e] \in {waiting[e], None}
        BY <1>2
      <4>3. QED
        BY <3>1, <4>1, <4>2
    <3>3. CASE b = a /\ saved'[a] = PollDevice(a) /\ waiting'[a] = None
      BY <1>2, <2>2, <3>1, <3>3 DEF IInv, Apart, SessionsApart, SessionsOwned
    <3>4. QED
      BY <1>4, <3>2, <3>3
  <2>3. QED
    BY <2>1, <2>2
<1>11. AgentsApart'
  BY <1>4, <1>5 DEF IInv, Apart, AgentsApart
<1>12. QED
  BY <1>6, <1>7, <1>8, <1>9, <1>10, <1>11 DEF IInv, Apart

(***************************************************************************)
(* The server and the administrator.                                       *)
(***************************************************************************)
\* A session that expires keeps what it holds.
LEMMA ExpireInvariant ==
    ASSUME IInv, NEW x \in Session, Expire(x)
    PROVE  IInv'
<1>1. /\ UNCHANGED <<waiting, poll, saved, devices, minted, claim, faults>>
      /\ session[x] \in SessionRow
      /\ session' = [session EXCEPT ![x].expired = TRUE]
  BY DEF Expire, IInv, TypeOK
<1>2. /\ session' \in [Session -> SessionRow \cup {None}]
      /\ session'[x] \in SessionRow
      /\ session'[x].status = session[x].status /\ session'[x].device = session[x].device
      /\ \A y \in Session \ {x} : session'[y] = session[y]
  BY <1>1 DEF IInv, TypeOK, SessionRow
<1>3. /\ \A y \in Session : SessionDevice(y)' = SessionDevice(y)
      /\ \A b \in Agent : PollDevice(b)' = PollDevice(b)
      /\ \A c \in Claim : ClaimDevice(c)' = ClaimDevice(c)
  BY <1>1, <1>2, RowAssumption DEF SessionDevice, PollDevice, ClaimDevice
<1>4. TypeOK' /\ OfferedDeviceExists'
  BY <1>1, <1>2, RowAssumption DEF IInv, TypeOK, OfferedDeviceExists
<1>5. AllMinted'
  BY <1>1, <1>3 DEF IInv, AllMinted
<1>6. SessionsOwned'
  BY <1>1, <1>2 DEF IInv, TypeOK, SessionsOwned
<1>7. Apart'
  BY <1>1, <1>3 DEF IInv, Apart, ClaimsFresh, SessionsApart, AgentsApart
<1>8. QED
  BY <1>4, <1>5, <1>6, <1>7 DEF IInv

\* A claim that found a session mints nothing yet.
LEMMA ClaimCheckInvariant ==
    ASSUME IInv, NEW c \in Claim, ClaimCheck(c)
    PROVE  IInv'
<1>1. PICK x \in Session :
         /\ session[x] # None
         /\ claim' = [claim EXCEPT ![c] = [session |-> x, device |-> None]]
  BY DEF ClaimCheck
<1>2. UNCHANGED <<session, waiting, poll, saved, devices, minted, faults>>
  BY DEF ClaimCheck
<1>3. /\ claim' \in [Claim -> [session : Session, device : Device \cup {None}] \cup {None}]
      /\ claim'[c] = [session |-> x, device |-> None]
      /\ \A e \in Claim \ {c} : claim'[e] = claim[e]
  BY <1>1 DEF IInv, TypeOK
<1>4. /\ \A y \in Session : SessionDevice(y)' = SessionDevice(y)
      /\ \A b \in Agent : PollDevice(b)' = PollDevice(b)
      /\ ClaimDevice(c)' = None
      /\ \A e \in Claim \ {c} : ClaimDevice(e)' = ClaimDevice(e)
  BY <1>2, <1>3 DEF SessionDevice, PollDevice, ClaimDevice
<1>5. TypeOK' /\ OfferedDeviceExists'
  BY <1>2, <1>3 DEF IInv, TypeOK, OfferedDeviceExists
<1>6. AllMinted'
  BY <1>2, <1>4 DEF IInv, AllMinted
<1>7. SessionsOwned'
  BY <1>1, <1>2, <1>3 DEF IInv, TypeOK, SessionsOwned
<1>8. Apart'
  BY <1>2, <1>4 DEF IInv, Apart, ClaimsFresh, SessionsApart, AgentsApart
<1>9. QED
  BY <1>5, <1>6, <1>7, <1>8 DEF IInv

\* The token a claim mints is nowhere yet.
LEMMA ClaimInsertInvariant ==
    ASSUME IInv, NEW c \in Claim, ClaimInsert(c)
    PROVE  IInv'
<1>1. PICK d \in Device \ minted :
         /\ minted' = minted \cup {d} /\ devices' = devices \cup {d}
         /\ claim' = [claim EXCEPT ![c].device = d]
  BY DEF ClaimInsert
<1>2. /\ UNCHANGED <<session, waiting, poll, saved, faults>>
      /\ claim[c] \in [session : Session, device : Device \cup {None}]
      /\ claim[c] # None
  BY DEF ClaimInsert, IInv, TypeOK
<1>3. claim' = [claim EXCEPT ![c] = [session |-> claim[c].session, device |-> d]]
  <2>1. [claim[c] EXCEPT !.device = d] = [session |-> claim[c].session, device |-> d]
    BY <1>2
  <2>2. QED
    BY <1>1, <2>1
<1>4. /\ claim' \in [Claim -> [session : Session, device : Device \cup {None}] \cup {None}]
      /\ claim'[c] = [session |-> claim[c].session, device |-> d]
      /\ \A e \in Claim \ {c} : claim'[e] = claim[e]
  BY <1>2, <1>3 DEF IInv, TypeOK
<1>5. /\ \A y \in Session : SessionDevice(y)' = SessionDevice(y)
      /\ \A b \in Agent : PollDevice(b)' = PollDevice(b)
      /\ ClaimDevice(c)' \in {d, None}
      /\ \A e \in Claim \ {c} : ClaimDevice(e)' = ClaimDevice(e)
  BY <1>2, <1>4 DEF SessionDevice, PollDevice, ClaimDevice
<1>6. /\ d # None /\ d \notin minted
      /\ \A y \in Session : SessionDevice(y) # d
      /\ \A b \in Agent : PollDevice(b) # d /\ saved[b] # d
      /\ \A e \in Claim : ClaimDevice(e) # d
  BY PairingAssumption DEF IInv, AllMinted
<1>7. TypeOK' /\ OfferedDeviceExists'
  BY <1>1, <1>2, <1>4 DEF IInv, TypeOK, OfferedDeviceExists
<1>8. AllMinted'
  BY <1>1, <1>2, <1>5 DEF IInv, AllMinted
<1>9. SessionsOwned'
  BY <1>2, <1>4 DEF IInv, SessionsOwned
<1>10. ClaimsFresh'
  BY <1>2, <1>5, <1>6 DEF IInv, Apart, ClaimsFresh
<1>11. SessionsApart' /\ AgentsApart'
  BY <1>2, <1>5 DEF IInv, Apart, SessionsApart, AgentsApart
<1>12. QED
  BY <1>7, <1>8, <1>9, <1>10, <1>11 DEF IInv, Apart

\* What a claim that is through does to its session.
LEMMA ClaimAttachEffect ==
    ASSUME IInv, NEW c \in Claim, ClaimAttach(c)
    PROVE  \E x \in Session, d \in Device :
              /\ claim[c] # None /\ ClaimDevice(c) = d /\ session[x] \in SessionRow
              /\ UNCHANGED <<waiting, poll, saved, devices, minted, faults>>
              /\ claim' \in [Claim -> [session : Session, device : Device \cup {None}] \cup {None}]
              /\ claim'[c] = None
              /\ \A e \in Claim \ {c} : claim'[e] = claim[e]
              /\ session' \in [Session -> SessionRow \cup {None}]
              /\ session'[x] \in SessionRow
              /\ \A y \in Session \ {x} : session'[y] = session[y]
              /\ IF d \in devices
                 THEN session'[x].status = "claimed" /\ session'[x].device = d
                 ELSE session'[x] = session[x]
<1>1. PICK x \in Session, d \in Device :
         /\ claim[c] # None /\ x = claim[c].session /\ d = claim[c].device
         /\ d # None /\ ClaimDevice(c) = d
         /\ UNCHANGED <<waiting, poll, saved, devices, minted, faults>>
  BY DEF ClaimAttach, ClaimDevice, IInv, TypeOK
<1>2. /\ claim' \in [Claim -> [session : Session, device : Device \cup {None}] \cup {None}]
      /\ claim'[c] = None
      /\ \A e \in Claim \ {c} : claim'[e] = claim[e]
  BY DEF ClaimAttach, IInv, TypeOK
<1>3. session[x] \in SessionRow
  BY <1>1 DEF IInv, SessionsOwned
<1>4. CASE d \in devices
  <2>1. session' = [session EXCEPT ![x].status = "claimed", ![x].device = d]
    BY <1>1, <1>4 DEF ClaimAttach
  <2>2. [[session[x] EXCEPT !.status = "claimed"] EXCEPT !.device = d]
           = [status |-> "claimed", expired |-> session[x].expired, device |-> d]
    <3>1. [session[x] EXCEPT !.status = "claimed"]
             = [status |-> "claimed", expired |-> session[x].expired,
                device |-> session[x].device]
      BY <1>3 DEF SessionRow
    <3>2. [[status |-> "claimed", expired |-> session[x].expired,
            device |-> session[x].device] EXCEPT !.device = d]
             = [status |-> "claimed", expired |-> session[x].expired, device |-> d]
      OBVIOUS
    <3>3. QED
      BY <3>1, <3>2, Zenon
  <2>3. session' = [session EXCEPT ![x] =
           [status |-> "claimed", expired |-> session[x].expired, device |-> d]]
    BY <2>1, <2>2 DEF IInv, TypeOK
  <2>4. QED
    BY <1>1, <1>2, <1>3, <1>4, <2>3 DEF IInv, TypeOK, SessionRow
<1>5. CASE d \notin devices
  <2>1. session' = session
    BY <1>1, <1>5 DEF ClaimAttach
  <2>2. QED
    BY <1>1, <1>2, <1>3, <1>5, <2>1 DEF IInv, TypeOK
<1>6. QED
  BY <1>4, <1>5

\* The token a claim attaches moves to the session, whatever that held before.
LEMMA ClaimAttachInvariant ==
    ASSUME IInv, NEW c \in Claim, ClaimAttach(c)
    PROVE  IInv'
<1>1. PICK x \in Session, d \in Device :
         /\ claim[c] # None /\ ClaimDevice(c) = d /\ session[x] \in SessionRow
         /\ UNCHANGED <<waiting, poll, saved, devices, minted, faults>>
         /\ claim' \in [Claim -> [session : Session, device : Device \cup {None}] \cup {None}]
         /\ claim'[c] = None
         /\ \A e \in Claim \ {c} : claim'[e] = claim[e]
         /\ session' \in [Session -> SessionRow \cup {None}]
         /\ session'[x] \in SessionRow
         /\ \A y \in Session \ {x} : session'[y] = session[y]
         /\ \/ session'[x] = session[x]
            \/ d \in devices /\ session'[x].status = "claimed" /\ session'[x].device = d
  BY ClaimAttachEffect
<1>2. d # None
  BY PairingAssumption
<1>3. /\ SessionDevice(x)' \in {SessionDevice(x), d}
      /\ \A y \in Session \ {x} : SessionDevice(y)' = SessionDevice(y)
      /\ \A b \in Agent : PollDevice(b)' = PollDevice(b)
      /\ ClaimDevice(c)' = None
      /\ \A e \in Claim \ {c} : ClaimDevice(e)' = ClaimDevice(e)
  BY <1>1, RowAssumption DEF SessionDevice, PollDevice, ClaimDevice
<1>4. /\ \A e \in Claim \ {c} : ClaimDevice(e) # d
      /\ \A y \in Session : SessionDevice(y) # d
      /\ \A b \in Agent : PollDevice(b) # d /\ saved[b] # d
  BY <1>1, <1>2 DEF IInv, Apart, ClaimsFresh
<1>5. TypeOK' /\ OfferedDeviceExists'
  BY <1>1, RowAssumption DEF IInv, TypeOK, OfferedDeviceExists
<1>6. AllMinted'
  BY <1>1, <1>3 DEF IInv, AllMinted
<1>7. SessionsOwned'
  BY <1>1 DEF IInv, TypeOK, SessionsOwned
<1>8. ClaimsFresh'
  BY <1>1, <1>3, <1>4 DEF IInv, Apart, ClaimsFresh
<1>9. SessionsApart'
  BY <1>1, <1>3, <1>4 DEF IInv, Apart, SessionsApart
<1>10. AgentsApart'
  BY <1>1, <1>3 DEF IInv, Apart, AgentsApart
<1>11. QED
  BY <1>5, <1>6, <1>7, <1>8, <1>9, <1>10 DEF IInv, Apart

\* Deleting a device takes it out of the sessions.
LEMMA DeleteDeviceInvariant ==
    ASSUME IInv, NEW d \in Device, DeleteDevice(d)
    PROVE  IInv'
<1>1. /\ UNCHANGED <<waiting, poll, saved, minted, claim, faults>>
      /\ devices' = devices \ {d}
      /\ \A y \in Session : session'[y] =
            IF session[y] # None /\ session[y].device = d
            THEN [session[y] EXCEPT !.device = None] ELSE session[y]
      /\ session' = [y \in Session |-> session'[y]]
  BY DEF DeleteDevice
<1>2. ASSUME NEW y \in Session
      PROVE  /\ session'[y] \in SessionRow \cup {None}
             /\ session[y] \in SessionRow <=> session'[y] \in SessionRow
             /\ \/ session'[y] = session[y] /\ (session[y] # None => session[y].device # d)
                \/ session'[y] \in SessionRow /\ session'[y].device = None
  <2>1. CASE session[y] # None /\ session[y].device = d
    <3>1. session[y] \in SessionRow
      BY <2>1 DEF IInv, TypeOK
    <3>2. session'[y] = [status |-> session[y].status, expired |-> session[y].expired,
                         device |-> None]
      BY <1>1, <2>1, <3>1 DEF SessionRow
    <3>3. session'[y] \in SessionRow /\ session'[y].device = None
      BY <3>1, <3>2 DEF SessionRow
    <3>4. QED
      BY <3>1, <3>3
  <2>2. CASE ~(session[y] # None /\ session[y].device = d)
    BY <1>1, <2>2 DEF IInv, TypeOK
  <2>3. QED
    BY <2>1, <2>2
<1>3. /\ \A y \in Session : SessionDevice(y)' \in {SessionDevice(y), None}
      /\ \A b \in Agent : PollDevice(b)' = PollDevice(b)
      /\ \A e \in Claim : ClaimDevice(e)' = ClaimDevice(e)
  <2>1. \A y \in Session : SessionDevice(y)' \in {SessionDevice(y), None}
    BY <1>2 DEF SessionDevice
  <2>2. QED
    BY <1>1, <2>1 DEF PollDevice, ClaimDevice
<1>4. TypeOK'
  BY <1>1, <1>2 DEF IInv, TypeOK
<1>5. OfferedDeviceExists'
  BY <1>1, <1>2 DEF IInv, OfferedDeviceExists
<1>6. AllMinted'
  BY <1>1, <1>3 DEF IInv, AllMinted
<1>7. SessionsOwned'
  BY <1>1, <1>2 DEF IInv, TypeOK, SessionsOwned
<1>8. ClaimsFresh' /\ AgentsApart'
  BY <1>1, <1>3 DEF IInv, Apart, ClaimsFresh, AgentsApart
<1>9. SessionsApart'
  BY <1>1, <1>3 DEF IInv, Apart, SessionsApart
<1>10. QED
  BY <1>4, <1>5, <1>6, <1>7, <1>8, <1>9 DEF IInv, Apart

\* A restart of the server forgets the claims.
LEMMA ServerRestartInvariant ==
    ASSUME IInv, ServerRestart
    PROVE  IInv'
<1>1. /\ UNCHANGED <<session, waiting, poll, saved, devices, minted>>
      /\ claim' = [c \in Claim |-> None] /\ faults' \in 0..MaxFaults
  BY PairingAssumption DEF ServerRestart, Fault, IInv, TypeOK
<1>2. /\ \A y \in Session : SessionDevice(y)' = SessionDevice(y)
      /\ \A b \in Agent : PollDevice(b)' = PollDevice(b)
      /\ \A e \in Claim : ClaimDevice(e)' = None
  BY <1>1 DEF SessionDevice, PollDevice, ClaimDevice
<1>3. TypeOK' /\ OfferedDeviceExists' /\ SessionsOwned'
  BY <1>1 DEF IInv, TypeOK, OfferedDeviceExists, SessionsOwned
<1>4. AllMinted' /\ Apart'
  BY <1>1, <1>2 DEF IInv, AllMinted, Apart, ClaimsFresh, SessionsApart, AgentsApart
<1>5. QED
  BY <1>3, <1>4 DEF IInv

(***************************************************************************)
(* The theorems.                                                           *)
(***************************************************************************)
\* Every step preserves the invariant.
LEMMA IInvNext == IInv /\ [Next]_vars => IInv'
<1> SUFFICES ASSUME IInv, [Next]_vars PROVE IInv'
  OBVIOUS
<1>1. ASSUME NEW a \in Agent, StartSession(a) \/ StartLost(a)
      PROVE  IInv'
  BY <1>1, StartInvariant
<1>2. ASSUME NEW a \in Agent, Poll(a)
      PROVE  IInv'
  BY <1>2, PollInvariant
<1>3. ASSUME NEW a \in Agent, Answered(a) \/ PollLost(a) \/ AgentRestart(a)
      PROVE  IInv'
  BY <1>3, PollEndsInvariant
<1>4. ASSUME NEW x \in Session, Expire(x)
      PROVE  IInv'
  BY <1>4, ExpireInvariant
<1>5. ASSUME NEW c \in Claim, ClaimCheck(c) \/ ClaimInsert(c) \/ ClaimAttach(c)
      PROVE  IInv'
  BY <1>5, ClaimCheckInvariant, ClaimInsertInvariant, ClaimAttachInvariant
<1>6. ASSUME NEW d \in Device, DeleteDevice(d)
      PROVE  IInv'
  BY <1>6, DeleteDeviceInvariant
<1>7. CASE ServerRestart
  BY <1>7, ServerRestartInvariant
<1>8. CASE UNCHANGED vars
  BY <1>8 DEF vars, IInv, TypeOK, OfferedDeviceExists, AllMinted, SessionsOwned, Apart,
              ClaimsFresh, SessionsApart, AgentsApart,
              SessionDevice, PollDevice, ClaimDevice
<1>9. QED
  BY <1>1, <1>2, <1>3, <1>4, <1>5, <1>6, <1>7, <1>8 DEF Next

\* The invariant holds of every behaviour: each token is in one place on its way
\* from a claim to a state file.
THEOREM InductiveInvariant == Spec => []IInv
<1>1. QED
  BY IInvInit, IInvNext, PTL DEF Spec

\* Every variable keeps its type.
THEOREM TypeCorrect == Spec => []TypeOK
<1>1. IInv => TypeOK
  BY DEF IInv
<1>2. QED
  BY <1>1, InductiveInvariant, PTL

\* No two screens ever answer to the same device, whichever claims, polls,
\* expiries, deletions, lost answers and restarts race (pairing.ts and
\* devices.ts of the server, pairing.ts and index.ts of the agent).
THEOREM NoTwoScreens == Spec => []OneScreenPerDevice
<1>1. IInv => OneScreenPerDevice
  BY DEF IInv, Apart, AgentsApart, OneScreenPerDevice
<1>2. QED
  BY <1>1, InductiveInvariant, PTL

\* A session never offers the token of a device that does not exist: the claim
\* attaches and the deletion clears (devices.ts and schema.ts of the server).
THEOREM OffersExist == Spec => []OfferedDeviceExists
<1>1. IInv => OfferedDeviceExists
  BY DEF IInv
<1>2. QED
  BY <1>1, InductiveInvariant, PTL

(***************************************************************************)
(* A claim reaches the screen.                                             *)
(***************************************************************************)
\* An agent that waits has no token yet; an answer on its way says "claimed"
\* exactly if the session held a token, and then it carries that token.
AnswersWhole ==
    \A a \in Agent :
        /\ waiting[a] # None => saved[a] = None
        /\ poll[a] # None =>
              IF poll[a].status = "claimed"
              THEN poll[a].device = poll[a].offered /\ poll[a].offered # None
              ELSE poll[a].offered = None

\* What the server says of a session that holds a token, and of one that does not.
LEMMA StatusTells ==
    ASSUME IInv, NEW x \in Session, session[x] \in SessionRow
    PROVE  /\ session[x].device # None => Status(session[x]) = "claimed"
           /\ session[x].device = None => Status(session[x]) # "claimed"
<1>1. session[x].device # None => session[x].status = "claimed"
  BY RowAssumption DEF IInv, OfferedDeviceExists
<1>2. QED
  BY <1>1 DEF Status

\* The answer to a poll is whole.
LEMMA PollWhole ==
    ASSUME IInv, AnswersWhole, NEW a \in Agent, Poll(a)
    PROVE  AnswersWhole'
<1> DEFINE row == session[waiting[a]]
<1>1. waiting[a] \in Session /\ row \in SessionRow
  BY DEF Poll, IInv, TypeOK, SessionsOwned
<1>2. /\ row.device # None => Status(row) = "claimed"
      /\ row.device = None => Status(row) # "claimed"
  BY <1>1, StatusTells
<1>3. /\ poll' = [poll EXCEPT ![a] =
            [status |-> Status(row), offered |-> row.device,
             device |-> IF Status(row) = "claimed" THEN row.device ELSE None]]
      /\ UNCHANGED <<waiting, saved>>
  BY DEF Poll
<1> HIDE DEF row
<1>4. QED
  BY <1>2, <1>3 DEF AnswersWhole, IInv, TypeOK

\* Every step keeps the answers whole: a session changes after it was polled, but
\* what is on its way does not.
LEMMA AnswersWholeNext ==
    ASSUME IInv, AnswersWhole, [Next]_vars
    PROVE  AnswersWhole'
<1>1. ASSUME NEW a \in Agent, Poll(a)
      PROVE  AnswersWhole'
  BY <1>1, PollWhole
<1>2. ASSUME NEW a \in Agent, StartSession(a)
      PROVE  AnswersWhole'
  BY <1>2 DEF StartSession, AnswersWhole, IInv, TypeOK
<1>3. ASSUME NEW a \in Agent, Answered(a) \/ PollLost(a) \/ AgentRestart(a)
      PROVE  AnswersWhole'
  BY <1>3, PollEndsEffect, PairingAssumption DEF AnswersWhole, IInv, TypeOK
<1>4. CASE UNCHANGED <<waiting, poll, saved>>
  BY <1>4 DEF AnswersWhole
<1>5. QED
  BY <1>1, <1>2, <1>3, <1>4
     DEF Next, StartLost, Expire, ClaimCheck, ClaimInsert, ClaimAttach, DeleteDevice,
         ServerRestart, vars

\* An agent that drops its session, no fault having intervened, has just handled
\* an answer, and what it saves is what the session held.
LEMMA DropsWithToken ==
    ASSUME IInv, AnswersWhole, [Next]_vars,
           NEW a \in Agent, waiting[a] # None, waiting'[a] = None, faults' = faults
    PROVE  saved'[a] = poll[a].offered
<1>1. faults \in Nat
  BY PairingAssumption DEF IInv, TypeOK
<1>2. \E b \in Agent : Answered(b)
  <2>1. ~Fault
    BY <1>1 DEF Fault
  <2>2. ASSUME NEW b \in Agent, StartSession(b) PROVE FALSE
    BY <2>2, PairingAssumption DEF StartSession, IInv, TypeOK
  <2>3. waiting' # waiting
    OBVIOUS
  <2>4. QED
    BY <2>1, <2>2, <2>3
       DEF Next, StartLost, Poll, PollLost, AgentRestart, Expire, ClaimCheck,
           ClaimInsert, ClaimAttach, DeleteDevice, ServerRestart, vars
<1>3. Answered(a)
  BY <1>2 DEF Answered, Continue, IInv, TypeOK
<1>4. poll[a] # None /\ saved[a] = None
  BY <1>3 DEF Answered, AnswersWhole
<1>5. CASE poll[a].status = "claimed"
  BY <1>3, <1>4, <1>5 DEF Answered, AnswersWhole, IInv, TypeOK
<1>6. CASE poll[a].status # "claimed"
  BY <1>3, <1>4, <1>6 DEF Answered, AnswersWhole, IInv, TypeOK
<1>7. QED
  BY <1>5, <1>6

\* A claim reaches the screen: unless an answer is lost or something restarts, an
\* agent leaves a session only with the token the session held when its last poll
\* was answered, however the claim, the expiry, a second claim of the same code and
\* the deletion of the device race with the poll (pairing.ts 27-37 of the agent,
\* 44-69 of the server).
THEOREM ClaimsArrive == Spec => ClaimReachesScreen
<1>1. Init => AnswersWhole
  BY DEF Init, AnswersWhole
<1>2. IInv /\ AnswersWhole /\ [Next]_vars => AnswersWhole'
  BY AnswersWholeNext
<1>3. IInv /\ AnswersWhole /\ [Next]_vars
        => [\A a \in Agent :
               waiting[a] # None /\ waiting'[a] = None /\ faults' = faults
                   => saved'[a] = poll[a].offered]_vars
  BY DropsWithToken
<1>4. QED
  BY <1>1, <1>2, <1>3, InductiveInvariant, PTL DEF Spec, ClaimReachesScreen

(***************************************************************************)
(* Pairing implements Binding.                                             *)
(***************************************************************************)
\* The pairs that are offers.
LEMMA OffersMember ==
    /\ \A a \in Agent, d \in Device :
          /\ <<a, d>> \in Offers <=> Offered(a, d)
          /\ <<a, d>> \in Offers' <=> Offered(a, d)'
    /\ \A o \in Offers \cup Offers' : o[1] \in Agent /\ o[2] \in Device /\ o = <<o[1], o[2]>>
  BY DEF Offers

\* A device in a claim is fresh, and offered to nobody.
LEMMA FreshMember ==
    ASSUME IInv, NEW c \in Claim, NEW d \in Device, ClaimDevice(c) = d
    PROVE  /\ d \in Fresh
           /\ \A a \in Agent : ~Offered(a, d)
<1>1. d # None
  BY PairingAssumption
<1>2. d \in Fresh
  BY <1>1 DEF Fresh, ClaimDevice
<1>3. /\ \A x \in Session : SessionDevice(x) # d
      /\ \A a \in Agent : PollDevice(a) # d
  BY <1>1 DEF IInv, Apart, ClaimsFresh
<1>4. \A a \in Agent : ~Offered(a, d)
  BY <1>1, <1>3, RowAssumption
     DEF Offered, SessionDevice, PollDevice, IInv, TypeOK, SessionsOwned
<1>5. QED
  BY <1>2, <1>4

\* Losing offers and claims is all that a step does which binds and makes nothing
\* and leaves what every waiting agent may accept as it was, or less.
LEMMA LoseStep ==
    ASSUME UNCHANGED <<minted, devices, saved>>,
           \A a \in Agent, d \in Device : Offered(a, d)' => Offered(a, d),
           \A c \in Claim : claim'[c] # None => claim'[c].device = None \/ claim'[c] = claim[c]
    PROVE  Promise!Lose
<1>1. Offers' \subseteq Offers
  BY OffersMember
<1>2. Fresh' \subseteq Fresh
  <2>1. ASSUME NEW d \in Device, NEW c \in Claim, claim'[c] # None, claim'[c].device = d
        PROVE  claim[c] # None /\ claim[c].device = d
    BY <2>1, PairingAssumption
  <2>2. QED
    BY <2>1 DEF Fresh
<1>3. QED
  BY <1>1, <1>2 DEF Promise!Lose

\* The agent's loop: what it opens, asks and hears, as long as it gets no token.
LEMMA AgentLoses ==
    ASSUME IInv, AnswersWhole, NEW a \in Agent,
           \/ StartSession(a) \/ StartLost(a) \/ Poll(a) \/ PollLost(a) \/ AgentRestart(a)
           \/ Answered(a) /\ poll[a].status # "claimed"
    PROVE  Promise!Lose
<1>1. CASE StartSession(a) \/ StartLost(a)
  <2>1. PICK x \in Session :
           /\ session[x] = None /\ session' = Opened(x)
           /\ waiting' = waiting \/ waiting' = [waiting EXCEPT ![a] = x]
    BY <1>1 DEF StartSession, StartLost
  <2>2. /\ session'[x] \in SessionRow /\ session'[x].device = None
        /\ \A y \in Session \ {x} : session'[y] = session[y]
        /\ \A b \in Agent : waiting[b] # x
    BY <2>1, OpenedEffect
  <2>3. /\ UNCHANGED <<poll, saved, devices, minted, claim>>
        /\ \A b \in Agent : waiting'[b] = waiting[b] \/ waiting'[b] = x
    BY <1>1, <2>1 DEF StartSession, StartLost, IInv, TypeOK
  <2>4. \A b \in Agent, d \in Device : Offered(b, d)' => Offered(b, d)
    BY <2>2, <2>3, PairingAssumption DEF Offered, IInv, TypeOK
  <2>5. QED
    BY <2>3, <2>4, LoseStep
<1>2. CASE Poll(a)
  <2>1. /\ waiting[a] # None /\ waiting[a] \in Session
        /\ \A b \in Agent \ {a} : poll'[b] = poll[b]
        /\ poll'[a].device \in {session[waiting[a]].device, None}
        /\ UNCHANGED <<session, waiting, saved, devices, minted, claim>>
    BY <1>2 DEF Poll, IInv, TypeOK
  <2>2. \A b \in Agent, d \in Device : Offered(b, d)' => Offered(b, d)
    BY <2>1, PairingAssumption DEF Offered
  <2>3. QED
    BY <2>1, <2>2, LoseStep
<1>3. CASE PollLost(a) \/ AgentRestart(a) \/ (Answered(a) /\ poll[a].status # "claimed")
  <2>1. /\ UNCHANGED <<session, saved, devices, minted, claim>>
        /\ \A b \in Agent : waiting'[b] \in {waiting[b], None} /\ poll'[b] \in {poll[b], None}
    BY <1>3 DEF PollLost, AgentRestart, Answered, Continue, IInv, TypeOK
  <2>2. \A b \in Agent, d \in Device : Offered(b, d)' => Offered(b, d)
    BY <2>1 DEF Offered
  <2>3. QED
    BY <2>1, <2>2, LoseStep
<1>4. QED
  BY <1>1, <1>2, <1>3

\* The token that is saved was offered to this agent, which has none and drops the
\* session with every other offer.
LEMMA AnsweredAccepts ==
    ASSUME IInv, AnswersWhole, NEW a \in Agent, Answered(a), poll[a].status = "claimed"
    PROVE  \E d \in Device : Promise!Accept(a, d)
<1>1. PICK d \in Device : d = poll[a].device
  BY DEF Answered, AnswersWhole, IInv, TypeOK, Answer
<1>2. /\ poll[a] # None /\ saved[a] = None
      /\ poll' = [poll EXCEPT ![a] = None] /\ waiting' = [waiting EXCEPT ![a] = None]
      /\ saved' = [saved EXCEPT ![a] = d]
      /\ UNCHANGED <<session, devices, minted, claim>>
  BY <1>1 DEF Answered, AnswersWhole
<1>3. <<a, d>> \in Offers
  BY <1>1, <1>2, OffersMember DEF Offered
<1>4. \A b \in Agent, e \in Device : Offered(b, e)' <=> Offered(b, e) /\ b # a
  BY <1>2 DEF Offered, IInv, TypeOK
<1>5. Offers' = {o \in Offers : o[1] # a}
  BY <1>4, OffersMember
<1>6. Fresh' = Fresh
  BY <1>2 DEF Fresh
<1>7. QED
  BY <1>2, <1>3, <1>5, <1>6 DEF Promise!Accept

\* A claim inserts a device.
LEMMA ClaimInsertMakes ==
    ASSUME IInv, NEW c \in Claim, ClaimInsert(c)
    PROVE  \E d \in Device : Promise!Make(d)
<1>1. PICK d \in Device \ minted :
         /\ minted' = minted \cup {d} /\ devices' = devices \cup {d}
         /\ claim[c] # None /\ claim[c].device = None
         /\ claim' = [claim EXCEPT ![c].device = d]
         /\ UNCHANGED <<session, waiting, poll, saved>>
  BY DEF ClaimInsert
<1>2. claim[c] \in [session : Session, device : Device \cup {None}]
  BY <1>1 DEF IInv, TypeOK
<1>3. /\ claim'[c] # None /\ claim'[c].device = d
      /\ \A e \in Claim \ {c} : claim'[e] = claim[e]
  <2>1. [claim[c] EXCEPT !.device = d] = [session |-> claim[c].session, device |-> d]
    BY <1>2
  <2>2. [session |-> claim[c].session, device |-> d] # None
    BY <1>2, RowAssumption
  <2>3. QED
    BY <1>1, <2>1, <2>2 DEF IInv, TypeOK
<1>4. Fresh' = Fresh \cup {d}
  BY <1>1, <1>3, PairingAssumption DEF Fresh
<1>5. Offers' = Offers
  BY <1>1 DEF Offers, Offered
<1>6. QED
  BY <1>1, <1>4, <1>5 DEF Promise!Make

\* A claim attaches its device: that offers it to the agent that waits for the
\* session, in place of what an earlier claim of the same code had put there. If
\* nobody waits, or the device is gone, the device is lost.
LEMMA ClaimAttachOffers ==
    ASSUME IInv, AnswersWhole, NEW c \in Claim, ClaimAttach(c)
    PROVE  Promise!Lose \/ \E a \in Agent, d \in Device : Promise!Offer(a, d)
<1>1. PICK x \in Session, d \in Device :
         /\ claim[c] # None /\ ClaimDevice(c) = d /\ session[x] \in SessionRow
         /\ UNCHANGED <<waiting, poll, saved, devices, minted, faults>>
         /\ claim'[c] = None
         /\ \A e \in Claim \ {c} : claim'[e] = claim[e]
         /\ \A y \in Session \ {x} : session'[y] = session[y]
         /\ IF d \in devices
            THEN session'[x].status = "claimed" /\ session'[x].device = d
            ELSE session'[x] = session[x]
  BY ClaimAttachEffect
<1>2. \A b \in Agent : waiting[b] # x =>
         \A e \in Device : Offered(b, e)' <=> Offered(b, e)
  BY <1>1 DEF Offered, IInv, TypeOK
<1>3. CASE d \notin devices \/ \A a \in Agent : waiting[a] # x
  <2>1. \A b \in Agent, e \in Device : Offered(b, e)' => Offered(b, e)
    BY <1>1, <1>2, <1>3 DEF Offered
  <2>2. QED
    BY <1>1, <2>1, LoseStep
<1>4. ASSUME d \in devices, NEW a \in Agent, waiting[a] = x
      PROVE  Promise!Offer(a, d)
  <2>1. /\ waiting[a] # None /\ saved[a] = None
        /\ \A b \in Agent : b # a => waiting[b] # x
    BY <1>4, PairingAssumption DEF AnswersWhole, IInv, SessionsOwned
  <2>2. Offered(a, d)'
    BY <1>1, <1>4, <2>1 DEF Offered
  <2>3. \A e \in Device : Offered(a, e)' => Offered(a, e) \/ e = d
    BY <1>1, <1>4, <2>1 DEF Offered
  <2>4. /\ <<a, d>> \in Offers'
        /\ Offers' \subseteq Offers \cup {<<a, d>>}
        /\ \A o \in Offers \ Offers' : o[1] = a
    BY <1>2, <2>1, <2>2, <2>3, OffersMember
  <2>5. d \in Fresh
    BY <1>1, FreshMember
  <2>6. Fresh' = Fresh \ {d}
    <3>1. \A e \in Claim \ {c} : ClaimDevice(e) # d
      BY <1>1, PairingAssumption DEF IInv, Apart, ClaimsFresh
    <3>2. QED
      BY <1>1, <3>1 DEF Fresh, ClaimDevice
  <2>7. QED
    BY <1>1, <1>4, <2>1, <2>4, <2>5, <2>6 DEF Promise!Offer
<1>5. QED
  BY <1>3, <1>4

\* Deleting a device withdraws what the sessions hold of it.
LEMMA DeleteDeviceRemoves ==
    ASSUME IInv, NEW d \in Device, DeleteDevice(d)
    PROVE  Promise!Remove(d)
<1>1. /\ d \in devices /\ devices' = devices \ {d}
      /\ session' = [x \in Session |->
            IF session[x] # None /\ session[x].device = d
            THEN [session[x] EXCEPT !.device = None] ELSE session[x]]
      /\ UNCHANGED <<waiting, poll, saved, minted, claim>>
  BY DEF DeleteDevice
<1>2. \A a \in Agent : waiting[a] # None =>
         /\ waiting[a] \in Session /\ session[waiting[a]] \in SessionRow
         /\ IF session[waiting[a]].device = d THEN session'[waiting[a]].device = None
            ELSE session'[waiting[a]] = session[waiting[a]]
  BY <1>1, RowAssumption DEF IInv, TypeOK, SessionsOwned, SessionRow
<1>3. \A a \in Agent, e \in Device :
         /\ Offered(a, e)' => Offered(a, e)
         /\ Offered(a, e) => Offered(a, e)' \/ e = d
  BY <1>1, <1>2, PairingAssumption DEF Offered
<1>4. Offers' \subseteq Offers /\ \A o \in Offers \ Offers' : o[2] = d
  BY <1>3, OffersMember
<1>5. Fresh' = Fresh
  BY <1>1 DEF Fresh
<1>6. QED
  BY <1>1, <1>4, <1>5 DEF Promise!Remove

\* Every step is a step of Binding, or is not visible there.
LEMMA StepIsPromised ==
    ASSUME IInv, AnswersWhole, [Next]_vars
    PROVE  [Promise!Next]_(Promise!vars)
<1>1. ASSUME NEW a \in Agent,
             \/ StartSession(a) \/ StartLost(a) \/ Poll(a) \/ Answered(a)
             \/ PollLost(a) \/ AgentRestart(a)
      PROVE  Promise!Next
  <2>1. CASE Answered(a) /\ poll[a].status = "claimed"
    BY <2>1, AnsweredAccepts DEF Promise!Next
  <2>2. CASE ~(Answered(a) /\ poll[a].status = "claimed")
    BY <1>1, <2>2, AgentLoses DEF Promise!Next
  <2>3. QED
    BY <2>1, <2>2
<1>2. ASSUME NEW x \in Session, Expire(x)
      PROVE  Promise!Next
  <2>1. /\ UNCHANGED <<waiting, poll, saved, devices, minted, claim>>
        /\ \A y \in Session : session[y] \in SessionRow =>
              session'[y].device = session[y].device
    BY <1>2 DEF Expire, SessionRow, IInv, TypeOK
  <2>2. \A b \in Agent, d \in Device : Offered(b, d)' => Offered(b, d)
    BY <2>1 DEF Offered, IInv, TypeOK, SessionsOwned
  <2>3. QED
    BY <2>1, <2>2, LoseStep DEF Promise!Next
<1>3. ASSUME NEW c \in Claim, ClaimCheck(c)
      PROVE  Promise!Next
  <2>1. /\ UNCHANGED <<session, waiting, poll, saved, devices, minted>>
        /\ \A e \in Claim : claim'[e] # None => claim'[e].device = None \/ claim'[e] = claim[e]
    BY <1>3 DEF ClaimCheck, IInv, TypeOK
  <2>2. \A b \in Agent, d \in Device : Offered(b, d)' => Offered(b, d)
    BY <2>1 DEF Offered
  <2>3. QED
    BY <2>1, <2>2, LoseStep DEF Promise!Next
<1>4. ASSUME NEW c \in Claim, ClaimInsert(c) \/ ClaimAttach(c)
      PROVE  Promise!Next
  BY <1>4, ClaimInsertMakes, ClaimAttachOffers DEF Promise!Next
<1>5. ASSUME NEW d \in Device, DeleteDevice(d)
      PROVE  Promise!Next
  BY <1>5, DeleteDeviceRemoves DEF Promise!Next
<1>6. CASE ServerRestart \/ UNCHANGED vars
  <2>1. /\ UNCHANGED <<session, waiting, poll, saved, devices, minted>>
        /\ \A c \in Claim : claim'[c] # None => claim'[c] = claim[c]
    BY <1>6 DEF ServerRestart, vars
  <2>2. \A b \in Agent, d \in Device : Offered(b, d)' => Offered(b, d)
    BY <2>1 DEF Offered
  <2>3. QED
    BY <2>1, <2>2, LoseStep DEF Promise!Next
<1>7. QED
  BY <1>1, <1>2, <1>3, <1>4, <1>5, <1>6 DEF Next

\* Pairing keeps the promise of Binding, for any agents, sessions, claims, devices
\* and faults: a device goes from its claim to at most one screen, what is lost on
\* the way never turns up again, a screen that has its device never gets another.
THEOREM PairingKeepsPromise == Spec => ImplementsBinding
<1>1. Init => Promise!Init
  BY DEF Init, Promise!Init, Offers, Offered, Fresh
<1>2. Init => AnswersWhole
  BY DEF Init, AnswersWhole
<1>3. IInv /\ AnswersWhole /\ [Next]_vars => AnswersWhole'
  BY AnswersWholeNext
<1>4. IInv /\ AnswersWhole /\ [Next]_vars => [Promise!Next]_(Promise!vars)
  BY StepIsPromised
<1>5. QED
  BY <1>1, <1>2, <1>3, <1>4, InductiveInvariant, PTL
     DEF Spec, ImplementsBinding, Promise!Spec

=============================================================================
