------------------------------ MODULE Workflow ------------------------------
(***************************************************************************)
(* What the dependencies of the fleet promise, whatever columns they are   *)
(* kept in: a row that needs others waits until all of them are done; when *)
(* one of them comes to nothing it is abandoned; what has ended stays      *)
(* ended, except that review may take a row back, a recovery may hand out  *)
(* again what it suspects to be lost, and a row abandoned for one that was *)
(* taken back gets another chance.                                         *)
(***************************************************************************)
CONSTANTS
  Task,
  Reviewed, \* rows whose work is reviewed after they report it done
  Trivial   \* rows whose work is checked by a command
VARIABLES
  phase, needs,
  seen,     \* rows a human or a reviewer has been asked about
  suspect,  \* ready rows that a recovery believes lost
  back      \* rows that have left an end

Ended == {"done", "failed", "cancelled"}
Phase == Ended \union {"new", "waiting", "ready", "parked"}

Are(P)  == {t \in Task : phase[t] \in P}
Open(t) == phase[t] \notin Ended \union {"new"}

Init ==
  /\ phase = [t \in Task |-> "new"]
  /\ needs = [t \in Task |-> {}]
  /\ seen = {} /\ suspect = {} /\ back = {}

\* The rows of S come to p.
Put(S, p) ==
  /\ phase' = [t \in Task |-> IF t \in S THEN p ELSE phase[t]]
  /\ back' = back \union {t \in S : phase[t] \in Ended \ {p}}

Submit(t) ==
  /\ phase[t] = "new"
  /\ \E p \in {"waiting", "ready", "parked", "done"} :
       Put({t}, p) /\ seen' = IF p = "parked" THEN seen \union {t} ELSE seen
  /\ UNCHANGED <<needs, suspect>>

\* A dependency is added to a row that nobody may be working on.
Need(t, d) ==
  /\ phase[t] \notin {"new", "ready"}
  /\ needs' = [needs EXCEPT ![t] = @ \union {d}]
  /\ UNCHANGED <<phase, seen, suspect, back>>

\* An open row turns out to depend on another one.
Reblock(t, d) ==
  /\ Open(t)
  /\ Put({t}, "waiting")
  /\ needs' = [needs EXCEPT ![t] = {d}]
  /\ UNCHANGED <<seen, suspect>>

Park(t) ==
  /\ Open(t)
  /\ Put({t}, "parked")
  /\ seen' = seen \union {t}
  /\ UNCHANGED <<needs, suspect>>

End(t) ==
  /\ Open(t)
  /\ \E e \in Ended : Put({t}, e)
  /\ UNCHANGED <<needs, seen, suspect>>

\* Review takes a done row back before anybody was asked about it.
Bounce(t) ==
  /\ phase[t] = "done" /\ t \in Reviewed \ seen
  /\ Put({t}, "parked")
  /\ seen' = seen \union {t}
  /\ UNCHANGED <<needs, suspect>>

\* The word of those who were asked, or of the check, counts at any time.
Recall(t) ==
  /\ phase[t] # "new" /\ t \in seen \union Trivial
  /\ \E p \in {"parked", "done"} : Put({t}, p)
  /\ seen' = seen \union {t}
  /\ UNCHANGED <<needs, suspect>>

Suspect(S) ==
  /\ S \subseteq suspect \union Are({"ready"})
  /\ suspect' = S
  /\ UNCHANGED <<phase, needs, seen, back>>

\* Nothing that waits is handed out for being suspect.
Reissue(S) ==
  /\ S \subseteq suspect /\ S \cap Are({"new", "waiting"}) = {}
  /\ Put(S, "ready")
  /\ suspect' \subseteq suspect
  /\ UNCHANGED <<needs, seen>>

Release(S) ==
  /\ \A t \in S : phase[t] = "waiting" /\ needs[t] # {} /\ needs[t] \subseteq Are({"done"})
  /\ Put(S, "ready")
  /\ UNCHANGED <<needs, seen, suspect>>

Abandon(S) ==
  /\ \A t \in S : phase[t] = "waiting" /\ needs[t] \cap Are({"failed", "cancelled"}) # {}
  /\ Put(S, "failed")
  /\ UNCHANGED <<needs, seen, suspect>>

Revive(S) ==
  /\ \A t \in S : phase[t] = "failed" /\ needs[t] \cap back \cap Are({"done", "parked"}) # {}
  /\ Put(S, "ready")
  /\ UNCHANGED <<needs, seen, suspect>>

Next ==
  \/ \E t \in Task : Submit(t) \/ Park(t) \/ End(t) \/ Bounce(t) \/ Recall(t)
  \/ \E t, d \in Task : Need(t, d) \/ Reblock(t, d)
  \/ \E S \in SUBSET Task : \/ Suspect(S) \/ Reissue(S)
                           \/ Release(S) \/ Abandon(S) \/ Revive(S)

Spec == Init /\ [][Next]_<<phase, needs, seen, suspect, back>>
=============================================================================
