------------------------------- MODULE Mailbox -------------------------------
(***************************************************************************)
(* What delivery promises, whatever claims, resets and restarts it is made *)
(* of: a message is handed out a bounded number of times, and one that has *)
(* ended stays so, unless a recovery had found it handed out again and     *)
(* again without being taken up, and reissues it once after all.           *)
(***************************************************************************)
EXTENDS Naturals

CONSTANTS
  Msg,
  Recovery,  \* the recoveries that reissue messages
  Patience,  \* how often a message is handed out before one of them takes it
  Limit      \* how often it is handed out at most
VARIABLES mail, handed, chosen

Init ==
  /\ mail = [m \in Msg |-> "none"]
  /\ handed = [m \in Msg |-> 0]
  /\ chosen = [r \in Recovery |-> {}]

Change(S, s) == mail' = [m \in Msg |-> IF m \in S THEN s ELSE mail[m]]
Count(S) ==
  /\ handed' = [m \in Msg |-> IF m \in S THEN handed[m] + 1 ELSE handed[m]]
  /\ \A m \in S : handed'[m] <= Limit

Post(m) ==
  /\ mail[m] = "none"
  /\ Change({m}, "queued")
  /\ UNCHANGED <<handed, chosen>>

HandOut(S) ==
  /\ \A m \in S : mail[m] = "queued"
  /\ Change(S, "held") /\ Count(S)
  /\ UNCHANGED chosen

\* The recipient takes up a message it was told of before that was put back.
Take(m) ==
  /\ mail[m] = "queued"
  /\ Change({m}, "held")
  /\ UNCHANGED <<handed, chosen>>

PutBack(m) ==
  /\ mail[m] = "held"
  /\ Change({m}, "queued") /\ Count({m})
  /\ UNCHANGED chosen

End(S) ==
  /\ \A m \in S : mail[m] \in {"queued", "held"}
  /\ Change(S, "ended")
  /\ UNCHANGED <<handed, chosen>>

Choose(r, S) ==
  /\ \A m \in S : mail[m] = "held" /\ handed[m] >= Patience
  /\ chosen' = [chosen EXCEPT ![r] = S]
  /\ UNCHANGED <<mail, handed>>

\* What was chosen is reissued, whatever became of it meanwhile.
Reissue(r) ==
  /\ Change(chosen[r], "queued")
  /\ handed' = [m \in Msg |-> IF m \in chosen[r] THEN 0 ELSE handed[m]]
  /\ chosen' = [chosen EXCEPT ![r] = {}]

Forget(r) ==
  /\ chosen' = [chosen EXCEPT ![r] = {}]
  /\ UNCHANGED <<mail, handed>>

Next ==
  \/ \E m \in Msg : Post(m) \/ Take(m) \/ PutBack(m)
  \/ \E S \in SUBSET Msg : HandOut(S) \/ End(S)
  \/ \E r \in Recovery :
       \/ \E S \in SUBSET Msg : Choose(r, S)
       \/ Reissue(r) \/ Forget(r)

Spec == Init /\ [][Next]_<<mail, handed, chosen>>
=============================================================================
