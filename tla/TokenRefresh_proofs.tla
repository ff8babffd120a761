-------------------------- MODULE TokenRefresh_proofs --------------------------
(* TokenRefresh keeps its invariants for any number of timers, of any       *)
(* periods, that start the program side by side.                           *)
EXTENDS TokenRefresh, TLAPS

LEMMA GrantFacts ==
  /\ \A k \in Token : New(k) \in Grant /\ New(k).good = TRUE /\ New(k).runway = Life
  /\ \A g \in Grant : /\ g.good \in BOOLEAN /\ g.runway \in 0..Life
                      /\ Void(g) \in Grant /\ Void(g).runway = g.runway
                      /\ Void(g).good = (g.good /\ ~rotates)
                      /\ ~rotates => Void(g) = g
                      /\ Ageing(g) \in Grant /\ Ageing(g).good = g.good
                      /\ g.runway > 0 => Ageing(g).runway = g.runway - 1
<1>1. Life \in Nat
  BY RefreshAssumption
<1>2. \A k \in Token : New(k) \in Grant /\ New(k).good = TRUE /\ New(k).runway = Life
  BY <1>1 DEF New, Grant
<1>3. ASSUME NEW g \in Grant
      PROVE  /\ g.good \in BOOLEAN /\ g.runway \in 0..Life
             /\ Void(g) \in Grant /\ Void(g).runway = g.runway
             /\ ~rotates => Void(g) = g
  BY <1>1, <1>3 DEF Void, Grant
<1>4. ASSUME NEW g \in Grant
      PROVE  Void(g).good = (g.good /\ ~rotates)
  <2>1. CASE rotates
    BY <2>1, <1>4, <1>1 DEF Void, Grant
  <2>2. CASE ~rotates
    BY <2>2, <1>4, <1>1, <1>3 DEF Void
  <2> QED BY <2>1, <2>2
<1>5. ASSUME NEW g \in Grant
      PROVE  /\ Ageing(g) \in Grant /\ Ageing(g).good = g.good
             /\ g.runway > 0 => Ageing(g).runway = g.runway - 1
  BY <1>1, <1>5 DEF Ageing, Grant
<1> QED BY <1>2, <1>3, <1>4, <1>5

-----------------------------------------------------------------------------
(* Types.                                                                  *)

LEMMA IssueType ==
  ASSUME TypeOK, NEW t \in Timer, Issue(t)
  PROVE  profile' \in Grant /\ credstore' \in Grant
BY GrantFacts DEF TypeOK, Issue

LEMMA StepType ==
  ASSUME TypeOK, [Next]_vars
  PROVE  TypeOK'
<1> USE RefreshAssumption
<1>1. CASE Tick
  BY <1>1, GrantFacts DEF Tick, TypeOK
<1>2. ASSUME NEW t \in Timer, Start(t) PROVE TypeOK'
  BY <1>2 DEF Start, TypeOK
<1>3. ASSUME NEW t \in Timer, Ask(t) PROVE TypeOK'
  <2>1. hand' \in [Timer -> Grant]
    BY <1>3, GrantFacts DEF Ask, TypeOK, Received
  <2> QED BY <2>1, <1>3, IssueType DEF Ask, TypeOK
<1>4. ASSUME NEW t \in Timer, Refused(t) \/ WriteProfile(t) PROVE TypeOK'
  BY <1>4 DEF Refused, WriteProfile, TypeOK
<1>5. ASSUME NEW t \in Timer, UpdateCredstore(t) PROVE TypeOK'
  BY <1>5 DEF UpdateCredstore, Bootstrap, TypeOK
<1>6. ASSUME NEW t \in Timer, Lose(t) PROVE TypeOK'
  <2>1. hand' \in [Timer -> Grant]
    BY <1>6, GrantFacts DEF Lose, TypeOK
  <2> QED BY <2>1, <1>6, IssueType DEF Lose, Fault, TypeOK
<1>7. ASSUME NEW t \in Timer, Stop(t) PROVE TypeOK'
  BY <1>7 DEF Stop, Fault, TypeOK
<1>8. CASE UNCHANGED vars
  BY <1>8 DEF vars, TypeOK
<1> QED BY <1>1, <1>2, <1>3, <1>4, <1>5, <1>6, <1>7, <1>8 DEF Next, Run

LEMMA InitType ==
  ASSUME Init
  PROVE  TypeOK
<1>1. \A k \in Token : New(k) \in Grant
  BY GrantFacts
<1>2. \A t \in Timer : Every[t] \in Nat /\ 0 <= Every[t]
  BY RefreshAssumption
<1>3. faults \in 0..MaxFaults
  BY RefreshAssumption DEF Init
<1>4. due \in [Timer -> Nat] /\ \A t \in Timer : due[t] <= Every[t]
  BY <1>2 DEF Init
<1>5. pc \in [Timer -> {"idle", "ask", "write", "credstore"}] /\ hand \in [Timer -> Grant]
  BY <1>1 DEF Init
<1>7. profile \in Grant /\ credstore \in Grant
  BY <1>1 DEF Init
<1>6. rotates \in BOOLEAN /\ lost \in BOOLEAN /\ behind \in BOOLEAN
  BY DEF Init
<1> QED BY <1>3, <1>4, <1>5, <1>6, <1>7 DEF TypeOK

\* The files, the runs and the grants they hold keep their types.
THEOREM TypeCorrect == Spec => []TypeOK
BY InitType, StepType, PTL DEF Spec

-----------------------------------------------------------------------------
(* One grant at a time.                                                    *)

\* A run that has a grant has the newest one.  Where tokens rotate, nobody else
\* holds one the endpoint takes: not a run that has still to ask, nor the
\* profile until it is written.
Newest ==
  /\ ~rotates => profile.good /\ \A t \in Timer : hand[t].good
  /\ \A t \in Timer : pc[t] \in {"write", "credstore"} =>
       /\ hand[t].good /\ hand[t].runway = Life
       /\ rotates => \A u \in Timer : pc[u] = "ask" => ~hand[u].good
  /\ \A t \in Timer : pc[t] = "write" /\ rotates =>
       ~profile.good /\ \A u \in Timer : pc[u] \in {"write", "credstore"} => u = t
  /\ \A t \in Timer : pc[t] = "credstore" =>
       /\ profile.good /\ profile.runway = Life
       /\ rotates => profile = hand[t]

\* The copies match unless a run is between the two.
Agree == ~behind /\ (\A t \in Timer : pc[t] # "credstore") => Matches

GrantInv == Newest /\ Agree /\ KeepsRefresh

LEMMA InitGrant ==
  ASSUME Init
  PROVE  GrantInv
BY GrantFacts DEF Init, GrantInv, Newest, Agree, Matches, KeepsRefresh

\* Who holds a good token to ask with is alone with it.
LEMMA Alone ==
  ASSUME TypeOK, Newest, NEW t \in Timer, pc[t] = "ask", hand[t].good, rotates
  PROVE  \A u \in Timer : pc[u] \notin {"write", "credstore"}
BY DEF Newest

LEMMA VoidKeepsMatch ==
  ASSUME TypeOK, Matches, profile' = Void(profile), credstore' = Void(credstore),
         rotates' = rotates
  PROVE  Matches'
BY GrantFacts DEF TypeOK, Matches

LEMMA AskGrant ==
  ASSUME TypeOK, GrantInv, NEW t \in Timer, Ask(t)
  PROVE  GrantInv'
<1>1. /\ rotates' = rotates /\ behind' = behind /\ lost' = lost
      /\ profile' = Void(profile) /\ credstore' = Void(credstore)
      /\ pc' = [pc EXCEPT ![t] = "write"] /\ pc[t] = "ask" /\ hand[t].good
      /\ hand'[t].good /\ hand'[t].runway = Life
      /\ \A u \in Timer \ {t} : hand'[u] = Void(hand[u])
  BY GrantFacts DEF Ask, Issue, Received
<1>2. pc'[t] = "write" /\ \A u \in Timer \ {t} : pc'[u] = pc[u]
  BY <1>1 DEF TypeOK
<1>3. Agree' /\ KeepsRefresh'
  <2>1. KeepsRefresh'
    BY <1>1, <1>2 DEF KeepsRefresh
  <2>2. Agree'
    BY <1>1, <1>2, VoidKeepsMatch DEF GrantInv, Agree
  <2> QED BY <2>1, <2>2
<1>4. CASE ~rotates
  <2>1. profile' = profile /\ \A u \in Timer \ {t} : hand'[u] = hand[u]
    BY <1>1, <1>4, GrantFacts DEF TypeOK
  <2>2. \A u \in Timer : hand'[u].good
    BY <2>1, <1>1, <1>4 DEF GrantInv, Newest
  <2>3. \A u \in Timer : pc'[u] \in {"write", "credstore"} => hand'[u].runway = Life
    BY <2>1, <1>1, <1>2 DEF GrantInv, Newest
  <2>4. \A u \in Timer : pc'[u] = "credstore" => profile'.good /\ profile'.runway = Life
    BY <2>1, <1>2 DEF GrantInv, Newest
  <2>5. Newest'
    BY <2>1, <2>2, <2>3, <2>4, <1>1, <1>4 DEF GrantInv, Newest
  <2> QED BY <2>5, <1>3 DEF GrantInv
<1>5. CASE rotates
  <2>1. \A u \in Timer \ {t} : pc'[u] \notin {"write", "credstore"}
    BY <1>1, <1>2, <1>5, Alone DEF GrantInv
  <2>2. ~profile'.good /\ \A u \in Timer \ {t} : ~hand'[u].good
    BY <1>1, <1>5, GrantFacts DEF TypeOK
  <2> QED BY <2>1, <2>2, <1>1, <1>2, <1>3, <1>5 DEF GrantInv, Newest
<1> QED BY <1>4, <1>5

LEMMA LoseGrant ==
  ASSUME TypeOK, GrantInv, NEW t \in Timer, Lose(t)
  PROVE  GrantInv'
<1>1. /\ rotates' = rotates /\ behind' = behind /\ lost' = (lost \/ rotates)
      /\ profile' = Void(profile) /\ credstore' = Void(credstore)
      /\ pc' = [pc EXCEPT ![t] = "idle"] /\ pc[t] = "ask" /\ hand[t].good
      /\ \A u \in Timer : hand'[u] = Void(hand[u])
  BY DEF Lose, Issue, Fault
<1>2. pc'[t] = "idle" /\ \A u \in Timer \ {t} : pc'[u] = pc[u]
  BY <1>1 DEF TypeOK
<1>3. Agree'
  BY <1>1, <1>2, VoidKeepsMatch DEF GrantInv, Agree
<1>4. CASE ~rotates
  <2>1. profile' = profile /\ \A u \in Timer : hand'[u] = hand[u]
    BY <1>1, <1>4, GrantFacts DEF TypeOK
  <2>2. Newest'
    BY <2>1, <1>1, <1>2, <1>4 DEF GrantInv, Newest
  <2> QED BY <2>1, <2>2, <1>1, <1>3, <1>4 DEF GrantInv, Newest, KeepsRefresh
<1>5. CASE rotates
  <2>1. \A u \in Timer : pc'[u] \notin {"write", "credstore"}
    BY <1>1, <1>2, <1>5, Alone DEF GrantInv
  <2>2. Newest'
    BY <2>1, <1>1, <1>5 DEF Newest
  <2> QED BY <2>2, <1>1, <1>3, <1>5 DEF GrantInv, KeepsRefresh
<1> QED BY <1>4, <1>5

LEMMA StartGrant ==
  ASSUME TypeOK, GrantInv, NEW t \in Timer, Start(t)
  PROVE  GrantInv'
<1>1. CASE UNCHANGED <<pc, hand>>
  BY <1>1 DEF Start, GrantInv, Newest, Agree, Matches, KeepsRefresh
<1>2. CASE ~UNCHANGED <<pc, hand>>
  <2>1. /\ UNCHANGED <<rotates, profile, credstore, lost, behind>>
        /\ Expiring(profile) /\ pc[t] = "idle"
        /\ pc' = [pc EXCEPT ![t] = "ask"] /\ hand' = [hand EXCEPT ![t] = profile]
    BY <1>2 DEF Start
  <2>2. /\ pc'[t] = "ask" /\ hand'[t] = profile
        /\ \A u \in Timer \ {t} : pc'[u] = pc[u] /\ hand'[u] = hand[u]
    BY <2>1 DEF TypeOK
  <2>3. \A u \in Timer : pc[u] # "credstore"
    <3>1. profile.runway # Life
      BY <2>1, RefreshAssumption DEF Expiring
    <3> QED BY <3>1 DEF GrantInv, Newest
  <2>4. Agree' /\ KeepsRefresh'
    BY <2>1, <2>2 DEF GrantInv, Agree, Matches, KeepsRefresh
  <2>5. Newest'
    BY <2>1, <2>2, <2>3 DEF GrantInv, Newest
  <2> QED BY <2>4, <2>5 DEF GrantInv
<1> QED BY <1>1, <1>2

LEMMA WriteGrant ==
  ASSUME TypeOK, GrantInv, NEW t \in Timer, WriteProfile(t)
  PROVE  GrantInv'
<1>1. /\ UNCHANGED <<rotates, credstore, hand, lost, behind>> /\ pc[t] = "write"
      /\ profile' = hand[t] /\ hand[t].good /\ hand[t].runway = Life
      /\ pc' = [pc EXCEPT ![t] = "credstore"]
  BY DEF WriteProfile, GrantInv, Newest
<1>2. pc'[t] = "credstore" /\ \A u \in Timer \ {t} : pc'[u] = pc[u]
  BY <1>1 DEF TypeOK
<1>3. Agree' /\ KeepsRefresh'
  BY <1>1, <1>2, GrantFacts DEF Agree, KeepsRefresh
<1>4. Newest'
  BY <1>1, <1>2, GrantFacts DEF GrantInv, Newest
<1> QED BY <1>3, <1>4 DEF GrantInv

LEMMA OtherGrant ==
  ASSUME TypeOK, GrantInv, NEW t \in Timer, Refused(t) \/ UpdateCredstore(t) \/ Stop(t)
  PROVE  GrantInv'
<1>1. /\ UNCHANGED <<rotates, profile, hand>> /\ pc[t] # "idle"
      /\ pc' = [pc EXCEPT ![t] = "idle"]
  BY DEF Refused, UpdateCredstore, Stop, Fault
<1>2. pc'[t] = "idle" /\ \A u \in Timer \ {t} : pc'[u] = pc[u]
  BY <1>1 DEF TypeOK
<1>3. Newest'
  BY <1>1, <1>2 DEF GrantInv, Newest
<1>4. Agree'
  <2>1. CASE Refused(t)
    BY <2>1, <1>2 DEF Refused, GrantInv, Agree, Matches
  <2>2. CASE UpdateCredstore(t)
    <3>1. /\ hand[t].good = profile.good /\ hand[t].runway = profile.runway
          /\ rotates => hand[t] = profile
      BY <2>2, GrantFacts DEF UpdateCredstore, GrantInv, Newest, TypeOK
    <3>2. credstore' = hand[t]
      BY <2>2 DEF UpdateCredstore, Bootstrap
    <3>3. Matches'
      BY <1>1, <3>1, <3>2 DEF Matches
    <3> QED BY <3>3 DEF Agree
  <2>3. CASE Stop(t)
    BY <2>3, <1>2 DEF Stop, GrantInv, Agree, Matches
  <2> QED BY <2>1, <2>2, <2>3
<1>5. KeepsRefresh'
  <2>1. CASE pc[t] = "write"
    BY <2>1, <1>1 DEF Refused, UpdateCredstore, Stop, GrantInv, Newest, KeepsRefresh
  <2>2. CASE pc[t] # "write"
    BY <2>2, <1>1, <1>2 DEF Refused, UpdateCredstore, Stop, GrantInv, KeepsRefresh
  <2> QED BY <2>1, <2>2
<1> QED BY <1>3, <1>4, <1>5 DEF GrantInv

LEMMA TickGrant ==
  ASSUME TypeOK, GrantInv, Tick
  PROVE  GrantInv'
<1>1. /\ UNCHANGED <<rotates, pc, hand, lost, behind>> /\ \A t \in Timer : pc[t] = "idle"
      /\ profile' = Ageing(profile) /\ credstore' = Ageing(credstore)
  BY DEF Tick, Resting
<1>2. profile'.good = profile.good
  BY <1>1, GrantFacts DEF TypeOK
<1>3. Matches => Matches'
  BY <1>1, GrantFacts DEF TypeOK, Matches, Ageing
<1> QED BY <1>1, <1>2, <1>3 DEF GrantInv, Newest, Agree, KeepsRefresh

LEMMA StepGrant ==
  ASSUME TypeOK, GrantInv, [Next]_vars
  PROVE  GrantInv'
<1>1. CASE UNCHANGED vars
  BY <1>1 DEF vars, GrantInv, Newest, Agree, Matches, KeepsRefresh
<1> QED BY <1>1, TickGrant, StartGrant, AskGrant, WriteGrant, OtherGrant, LoseGrant DEF Next, Run

THEOREM GrantInvariance == Spec => []GrantInv
<1>1. Init => GrantInv
  BY InitGrant
<1>2. TypeOK /\ GrantInv /\ [Next]_vars => GrantInv'
  BY StepGrant
<1> QED BY <1>1, <1>2, TypeCorrect, PTL DEF Spec

\* The refresh token the endpoint takes is in the profile or on its way there,
\* unless a fault came between the two.
THEOREM RefreshKept == Spec => []KeepsRefresh
<1>1. GrantInv => KeepsRefresh
  BY DEF GrantInv
<1> QED BY <1>1, GrantInvariance, PTL

\* Between runs the credstore is worth as much as the profile, and the same
\* where refresh tokens rotate, unless the credstore could not be updated.
THEOREM CredstoreIsProfile == Spec => []CredstoreFollows
<1>1. GrantInv => CredstoreFollows
  BY DEF GrantInv, Agree, CredstoreFollows, Resting
<1> QED BY <1>1, GrantInvariance, PTL

-----------------------------------------------------------------------------
(* Time.                                                                   *)

Frequent == CHOOSE t \in Timer : Every[t] < Threshold

\* Without faults the access token outlives the wait for the frequent timer,
\* and a run that will be refused comes after one that has, or will have,
\* replaced the profile.
InTime ==
  faults = 0 =>
    /\ ~lost /\ profile.runway > 0
    /\ (pc[Frequent] \in {"idle", "credstore"} /\ \A t \in Timer : pc[t] # "write")
         => profile.runway > due[Frequent]
    /\ \A t \in Timer : pc[t] = "ask" /\ ~hand[t].good =>
         profile.runway = Life \/ \E u \in Timer : pc[u] = "write"

LEMMA FrequentFacts ==
  /\ Frequent \in Timer /\ Every[Frequent] < Threshold /\ Life >= Threshold
  /\ Every[Frequent] \in Nat \ {0} /\ Threshold \in Nat /\ Life \in Nat
BY RefreshAssumption DEF Frequent

LEMMA InitTime ==
  ASSUME Init
  PROVE  InTime
BY FrequentFacts, GrantFacts DEF Init, InTime

LEMMA StepTime ==
  ASSUME TypeOK, GrantInv, InTime, [Next]_vars
  PROVE  InTime'
<1> USE FrequentFacts
<1>0. profile.runway \in Nat /\ due[Frequent] \in Nat /\ due[Frequent] <= Every[Frequent]
  BY GrantFacts DEF TypeOK
<1>1. CASE Tick
  <2>1. profile'.runway = profile.runway - 1 \/ faults # 0
    BY <1>1, GrantFacts DEF Tick, InTime, TypeOK
  <2> QED BY <2>1, <1>0, <1>1 DEF Tick, Resting, InTime, TypeOK
<1>2. ASSUME NEW t \in Timer, Start(t) PROVE InTime'
  <2>1. CASE ~Expiring(profile)
    BY <2>1, <1>0, <1>2 DEF Start, Expiring, InTime, TypeOK
  <2>2. CASE Expiring(profile)
    <3>1. /\ UNCHANGED <<profile, faults, lost>> /\ pc[t] = "idle"
          /\ due' = [due EXCEPT ![t] = Every[t]]
          /\ pc' = [pc EXCEPT ![t] = "ask"] /\ hand' = [hand EXCEPT ![t] = profile]
      BY <2>2, <1>2 DEF Start
    <3>2. /\ pc'[t] = "ask" /\ hand'[t] = profile
          /\ \A u \in Timer \ {t} : pc'[u] = pc[u] /\ hand'[u] = hand[u] /\ due'[u] = due[u]
      BY <3>1 DEF TypeOK
    <3>3. profile.good \/ lost \/ \E u \in Timer : pc'[u] = "write"
      BY <3>1, <3>2 DEF GrantInv, KeepsRefresh
    <3> QED BY <3>1, <3>2, <3>3, <1>0 DEF InTime
  <2> QED BY <2>1, <2>2
<1>3. ASSUME NEW t \in Timer, Ask(t) PROVE InTime'
  <2>1. pc'[t] = "write" /\ profile'.runway = profile.runway /\ UNCHANGED <<faults, lost>>
    BY <1>3, GrantFacts DEF Ask, Issue, TypeOK
  <2> QED BY <2>1 DEF InTime
<1>4. ASSUME NEW t \in Timer, Refused(t) PROVE InTime'
  <2>1. /\ UNCHANGED <<profile, due, hand, faults, lost>>
        /\ pc[t] = "ask" /\ ~hand[t].good /\ pc'[t] = "idle"
        /\ \A u \in Timer \ {t} : pc'[u] = pc[u]
    BY <1>4 DEF Refused, TypeOK
  <2> QED BY <2>1, <1>0 DEF InTime
<1>5. ASSUME NEW t \in Timer, WriteProfile(t) PROVE InTime'
  <2>1. profile'.runway = Life
    BY <1>5, GrantFacts DEF WriteProfile, GrantInv, Newest
  <2> QED BY <2>1, <1>0, <1>5 DEF WriteProfile, InTime, TypeOK
<1>6. ASSUME NEW t \in Timer, UpdateCredstore(t) PROVE InTime'
  BY <1>6, <1>0 DEF UpdateCredstore, InTime, TypeOK
<1>7. ASSUME NEW t \in Timer, Lose(t) \/ Stop(t) PROVE InTime'
  <2>1. faults' # 0
    BY <1>7 DEF Lose, Stop, Fault, TypeOK
  <2> QED BY <2>1 DEF InTime
<1>8. CASE UNCHANGED vars
  BY <1>8 DEF vars, InTime
<1> QED BY <1>1, <1>2, <1>3, <1>4, <1>5, <1>6, <1>7, <1>8 DEF Next, Run

\* Without faults the agents' access token never expires, as long as one timer
\* comes more often than the threshold.
THEOREM AlwaysLive == Spec => []StaysLive
<1>1. Init => InTime
  BY InitTime
<1>2. TypeOK /\ GrantInv /\ InTime /\ [Next]_vars => InTime'
  BY StepTime
<1>3. InTime => StaysLive
  BY DEF InTime, StaysLive
<1> QED BY <1>1, <1>2, <1>3, TypeCorrect, GrantInvariance, PTL DEF Spec
=============================================================================
