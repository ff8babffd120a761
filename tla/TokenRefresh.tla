----------------------------- MODULE TokenRefresh -----------------------------
(***************************************************************************)
(* gcg-openai-oauth-refresh: keeps the OpenAI tokens of the agents alive.  *)
(* Two systemd timers start the same program, one every quarter of an      *)
(* hour, one every hour, and no lock keeps one run from another.  A run    *)
(* reads the profile the agents use, asks the token endpoint (external)    *)
(* for a new grant when the access token is about to expire, replaces the  *)
(* profile, then the copy in the credstore that agents are started from.   *)
(*                                                                         *)
(* Time goes in quarters of an hour; a run is over within one.  A grant is *)
(* an access token, told by its name and its runway, and a refresh token,  *)
(* told by whether the endpoint still takes it.  Where it rotates them     *)
(* each one is good for one call; where it does not, the first one stays.  *)
(* The names tell apart the access tokens in use, and are used again.      *)
(***************************************************************************)
EXTENDS Naturals

CONSTANTS
  Timer,       \* the timers that start the program
  Every,       \* per timer, its period
  Threshold,   \* REFRESH_THRESHOLD
  Life,        \* the runway of a new access token
  Token,       \* names of access tokens, more than can be in use
  MaxFaults    \* bound on the faults

ASSUME RefreshAssumption ==
  /\ Every \in [Timer -> Nat \ {0}]
  /\ \E t \in Timer : Every[t] < Threshold
  /\ Threshold \in Nat /\ Life \in Nat /\ Life >= Threshold
  /\ MaxFaults \in Nat

VARIABLES
  rotates,   \* whether a call invalidates the refresh token it is made with
  profile,   \* auth-profiles/<hash>.json
  credstore, \* openai-codex-auth
  due,       \* per timer, the time till it starts the program
  pc, hand,  \* per timer, its run, and the grant the run holds
  faults,
  lost,      \* history: a refresh token was issued that was never written down
  behind     \* history: the last update of the credstore did not happen

vars == <<rotates, profile, credstore, due, pc, hand, faults, lost, behind>>

Grant == [good : BOOLEAN, runway : 0..Life, token : Token]
New(k) == [good |-> TRUE, runway |-> Life, token |-> k]
InUse == {profile.token, credstore.token} \union {hand[t].token : t \in Timer}

TypeOK ==
  /\ rotates \in BOOLEAN /\ lost \in BOOLEAN /\ behind \in BOOLEAN
  /\ profile \in Grant /\ credstore \in Grant
  /\ due \in [Timer -> Nat] /\ \A t \in Timer : due[t] <= Every[t]
  /\ pc \in [Timer -> {"idle", "ask", "write", "credstore"}]
  /\ hand \in [Timer -> Grant]
  /\ faults \in 0..MaxFaults

Init ==
  /\ rotates \in BOOLEAN
  /\ \E k \in Token : /\ profile = New(k) /\ credstore = New(k)
                    /\ hand = [t \in Timer |-> New(k)]
  /\ due = [t \in Timer |-> 0]
  /\ pc = [t \in Timer |-> "idle"]
  /\ faults = 0 /\ lost = FALSE /\ behind = FALSE

-----------------------------------------------------------------------------
Resting == \A t \in Timer : pc[t] = "idle"

Ageing(g) == [g EXCEPT !.runway = IF @ = 0 THEN 0 ELSE @ - 1]

Tick ==
  /\ Resting /\ \A t \in Timer : due[t] > 0
  /\ due' = [t \in Timer |-> due[t] - 1]
  /\ profile' = Ageing(profile) /\ credstore' = Ageing(credstore)
  /\ UNCHANGED <<rotates, pc, hand, faults, lost, behind>>

\* Mutants of Expiring: only once it has expired; only while it has not.
ExpiringLate(g)  == g.runway = 0
ExpiringAlive(g) == g.runway > 0 /\ g.runway < Threshold

Expiring(g) == g.runway < Threshold

Start(t) ==
  /\ pc[t] = "idle" /\ due[t] = 0
  /\ due' = [due EXCEPT ![t] = Every[t]]
  /\ \/ Expiring(profile)
        /\ pc' = [pc EXCEPT ![t] = "ask"] /\ hand' = [hand EXCEPT ![t] = profile]
     \/ ~Expiring(profile) /\ UNCHANGED <<pc, hand>>
  /\ UNCHANGED <<rotates, profile, credstore, faults, lost, behind>>

\* Every copy of the refresh token that was used is void.
Void(g) == IF rotates THEN [g EXCEPT !.good = FALSE] ELSE g

Issue(t) ==
  /\ pc[t] = "ask" /\ hand[t].good
  /\ profile' = Void(profile) /\ credstore' = Void(credstore)

\* Mutants of Received: the old refresh token is kept; the expiry is estimated.
ReceivedAccess(k)   == [New(k) EXCEPT !.good = ~rotates]
ReceivedEstimate(k) == [New(k) EXCEPT !.runway = Life + 1]

Received(k) == New(k)

Ask(t) ==
  /\ Issue(t)
  /\ \E k \in Token \ InUse :
       hand' = [u \in Timer |-> IF u = t THEN Received(k) ELSE Void(hand[u])]
  /\ pc' = [pc EXCEPT ![t] = "write"]
  /\ UNCHANGED <<rotates, due, faults, lost, behind>>

Refused(t) ==
  /\ pc[t] = "ask" /\ ~hand[t].good
  /\ pc' = [pc EXCEPT ![t] = "idle"]
  /\ UNCHANGED <<rotates, profile, credstore, due, hand, faults, lost, behind>>

WriteProfile(t) ==
  /\ pc[t] = "write"
  /\ profile' = hand[t]
  /\ pc' = [pc EXCEPT ![t] = "credstore"]
  /\ UNCHANGED <<rotates, credstore, due, hand, faults, lost, behind>>

\* Mutant of Bootstrap: the access token alone.
BootstrapAccess(t) == [hand[t] EXCEPT !.good = credstore.good]
Bootstrap(t)       == hand[t]

UpdateCredstore(t) ==
  /\ pc[t] = "credstore"
  /\ credstore' = Bootstrap(t)
  /\ behind' = FALSE
  /\ pc' = [pc EXCEPT ![t] = "idle"]
  /\ UNCHANGED <<rotates, profile, due, hand, faults, lost>>

-----------------------------------------------------------------------------
Fault(t) ==
  /\ faults < MaxFaults /\ faults' = faults + 1
  /\ pc' = [pc EXCEPT ![t] = "idle"]

\* The endpoint issues a grant, and the answer never arrives.
Lose(t) ==
  /\ Issue(t) /\ Fault(t)
  /\ hand' = [u \in Timer |-> Void(hand[u])]
  /\ lost' = (lost \/ rotates)
  /\ UNCHANGED <<rotates, due, behind>>

\* The endpoint is down, a write fails, the run dies.
Stop(t) ==
  /\ pc[t] # "idle" /\ Fault(t)
  /\ lost' = (lost \/ (pc[t] = "write" /\ rotates))
  /\ behind' = (behind \/ pc[t] = "credstore")
  /\ UNCHANGED <<rotates, profile, credstore, due, hand>>

-----------------------------------------------------------------------------
Run(t) == Start(t) \/ Ask(t) \/ Refused(t) \/ WriteProfile(t) \/ UpdateCredstore(t)
Next   == Tick \/ \E t \in Timer : Run(t) \/ Lose(t) \/ Stop(t)

Spec     == Init /\ [][Next]_vars
FairSpec == Spec /\ WF_vars(Tick) /\ \A t \in Timer : WF_vars(Run(t))

-----------------------------------------------------------------------------
(* Properties.                                                             *)

\* Whatever the runs do to each other, the refresh token the endpoint takes is
\* in the profile or on its way there: only a fault between the endpoint and the
\* profile can lose it.
KeepsRefresh == profile.good \/ lost \/ \E t \in Timer : pc[t] = "write" /\ hand[t].good

\* Two runs that write over each other's answers may leave the access token of
\* one in the profile and that of the other in the credstore, but only where
\* refresh tokens are not rotated.
Matches ==
  /\ credstore.good = profile.good /\ credstore.runway = profile.runway
  /\ rotates => credstore = profile

\* Between runs an agent would be started with tokens that are worth as much as
\* those the others use, and the very same where refresh tokens rotate, unless
\* the credstore could not be updated.
CredstoreFollows == Resting /\ ~behind => Matches

\* Without faults the agents' access token never expires.
StaysLive == faults = 0 => profile.runway > 0

\* An access token that expired is replaced as soon as the faults stop, unless
\* the refresh token was lost, when no run ever helps.
Recovers == []<>(profile.runway > 0 \/ lost)
=============================================================================
