---------------------------- MODULE Approval_proofs ----------------------------
(* Approval keeps its invariants for any number of calls, agents, tokens and *)
(* actions.                                                                 *)
EXTENDS Approval, TLAPS

LEMMA RequestFacts ==
  ASSUME TypeOK, NEW c \in Call
  PROVE  /\ request[c].agent \in Agent /\ request[c].subject \in Subject
         /\ TokenOf(c) # NoToken => request[c].token \in Token
<1>1. request[c] \in Request
  BY ApprovalAssumption DEF TypeOK
<1>2. /\ request[c].agent \in Agent /\ request[c].subject \in Subject
      /\ request[c].token \in Token \union {NoToken}
  BY <1>1 DEF Request
<1> QED BY <1>2 DEF TokenOf

LEMMA SlotFacts ==
  /\ \A r, s \in Service : [key |-> CacheKey(r), service |-> s] \in Slot
  /\ \A e \in Slot : e.service \in Service
BY DEF Slot

LEMMA MoveFacts ==
  ASSUME TypeOK, NEW c \in Call, NEW to, Move(c, to)
  PROVE  pc'[c] = to /\ \A d \in Call \ {c} : pc'[d] = pc[d]
BY DEF TypeOK, Move

LEMMA NeededType ==
  ASSUME TypeOK, NEW c \in Call, Registered(request[c].action)
  PROVE  Needed(c) \in Service
<1>1. ActionRegistry[request[c].action].service \in Services
  BY DEF Registered, Services
<1>2. Scopes[ActionRegistry[request[c].action].scope] \in {Scopes[k] : k \in DOMAIN Scopes}
  BY ApprovalAssumption DEF Registered
<1> QED BY <1>1, <1>2, RequestFacts DEF Needed, Service

-----------------------------------------------------------------------------
(* Types.                                                                  *)

\* A call that has been entered asks for a registered action.
Known == \A c \in Call : pc[c] \notin {"new", "done"} => Registered(request[c].action)

\* The types, and that: only a registered action has a service.
TypeInv == TypeOK /\ Known

LEMMA GetServiceType ==
  ASSUME TypeInv, NEW c \in Call, pc[c] = "act"
  PROVE  Needed(c) \in Service /\ GetService(c) \in Service
<1> DEFINE hits == {e \in cache[request[c].agent] : e.key = CacheKey(Needed(c))}
<1>0. GetService(c) = IF hits = {} THEN Needed(c) ELSE (CHOOSE e \in hits : TRUE).service
  BY DEF GetService
<1> HIDE DEF hits
<1>1. Needed(c) \in Service
  BY NeededType DEF TypeInv, Known
<1>2. CASE hits = {}
  BY <1>0, <1>1, <1>2
<1>3. CASE hits # {}
  <2>1. \A e \in hits : e.service \in Service
    BY RequestFacts, SlotFacts DEF TypeInv, TypeOK, hits
  <2>2. (CHOOSE e \in hits : TRUE) \in hits
    BY <1>3
  <2> QED BY <2>1, <2>2, <1>0, <1>1, <1>3
<1> QED BY <1>1, <1>2, <1>3

LEMMA StepType ==
  ASSUME TypeInv, [Next]_vars
  PROVE  TypeInv'
<1> USE DEF TypeInv
<1>a. MaxChanges \in Nat /\ MaxFaults \in Nat
  BY ApprovalAssumption
<1>b. changes \in 0..MaxChanges /\ faults \in 0..MaxFaults
  BY DEF TypeOK
<1>0. /\ changes < MaxChanges => changes + 1 \in 0..MaxChanges
      /\ faults < MaxFaults => faults + 1 \in 0..MaxFaults
  BY <1>a, <1>b
<1>1. ASSUME NEW t \in Token, VoidToken(t) PROVE TypeInv'
  BY <1>1 DEF VoidToken, TypeOK, Known
<1>2. ASSUME NEW a \in Agent, NEW x \in HighRisk, ChangeTrust(a, x) PROVE TypeInv'
  <2>1. x \in Action
    BY ApprovalAssumption
  <2>2. trusted' \in [Agent -> SUBSET Action]
    BY <2>1, <1>2 DEF ChangeTrust, TypeOK
  <2>3. changes' \in 0..MaxChanges
    BY <1>0, <1>2 DEF ChangeTrust
  <2> QED BY <2>2, <2>3, <1>2 DEF ChangeTrust, TypeOK, Known
<1>3. ASSUME NEW a \in Agent, Die(a) PROVE TypeInv'
  <2>1. faults' \in 0..MaxFaults
    BY <1>0, <1>3 DEF Die, Fault
  <2>2. \A c \in Call : pc'[c] \in {pc[c], "done"}
    BY <1>3 DEF Die
  <2>3. TypeOK'
    BY <2>1, <1>3 DEF Die, TypeOK
  <2> QED BY <2>2, <2>3, <1>3 DEF Die, Known
<1>4. ASSUME NEW c \in Call, Reject(c) PROVE TypeInv'
  BY <1>4 DEF Reject, Move, TypeOK, Known
<1>5. ASSUME NEW c \in Call, Enter(c) PROVE TypeInv'
  BY <1>5 DEF Enter, Recorded, Move, TypeOK, Known
<1>6. ASSUME NEW c \in Call, CheckApproval(c) PROVE TypeInv'
  <2>1. \E to \in {"act", "failing", "consume"} : Move(c, to)
    BY <1>6 DEF CheckApproval, Allow
  <2>2. verdict' \in [Call -> {"unasked", "none", "trusted", "consumed"}]
    BY <1>6 DEF CheckApproval, Allow, TypeOK
  <2>3. pc' \in [Call -> {"new", "check", "consume", "act", "ok", "failing", "done"}]
    BY <2>1 DEF Move, TypeOK
  <2>4. TypeOK'
    BY <2>2, <2>3, <1>6 DEF CheckApproval, TypeOK
  <2> QED BY <2>4, <2>1, <1>6, MoveFacts DEF CheckApproval, Known
<1>7. ASSUME NEW c \in Call, TrustUnknown(c) PROVE TypeInv'
  <2>1. faults' \in 0..MaxFaults
    BY <1>0, <1>7 DEF TrustUnknown, Fault
  <2>2. \E to \in {"failing", "consume"} : Move(c, to)
    BY <1>7 DEF TrustUnknown
  <2>3. TypeOK'
    BY <2>1, <2>2, <1>7 DEF TrustUnknown, Move, TypeOK
  <2> QED BY <2>3, <2>2, <1>7, MoveFacts DEF TrustUnknown, Known
<1>8. ASSUME NEW c \in Call, ConsumeApprovalToken(c) PROVE TypeInv'
  BY <1>8 DEF ConsumeApprovalToken, Allow, Move, TypeOK, Known
<1>9. ASSUME NEW c \in Call, Act(c) PROVE TypeInv'
  <2>1. Needed(c) \in Service /\ GetService(c) \in Service /\ request[c].agent \in Agent
    BY <1>9, GetServiceType, RequestFacts DEF Act
  <2>2. cache' \in [Agent -> SUBSET Slot]
    BY <2>1, <1>9, SlotFacts DEF Act, TypeOK
  <2>3. acts' \in [Call -> SUBSET Service]
    BY <2>1, <1>9 DEF Act, TypeOK
  <2> QED BY <2>2, <2>3, <1>9 DEF Act, Move, TypeOK, Known
<1>10. ASSUME NEW c \in Call, ActFails(c) PROVE TypeInv'
  BY <1>10 DEF ActFails, Move, TypeOK, Known
<1>11. ASSUME NEW c \in Call, ResolveFailed(c) \/ ResolveSuccess(c) PROVE TypeInv'
  BY <1>11 DEF ResolveFailed, ResolveSuccess, Move, TypeOK, Known
<1>12. ASSUME NEW c \in Call, DatabaseFails(c) PROVE TypeInv'
  <2>1. faults' \in 0..MaxFaults
    BY <1>0, <1>12 DEF DatabaseFails, Fault
  <2>2. \E to \in {"failing", "done"} : Move(c, to)
    BY <1>12 DEF DatabaseFails
  <2>3. TypeOK'
    BY <2>1, <2>2, <1>12 DEF DatabaseFails, Move, TypeOK
  <2> QED BY <2>3, <2>2, <1>12, MoveFacts DEF DatabaseFails, Known
<1>13. CASE UNCHANGED vars
  BY <1>13 DEF vars, TypeOK, Known
<1> QED BY <1>1, <1>2, <1>3, <1>4, <1>5, <1>6, <1>7, <1>8, <1>9, <1>10, <1>11, <1>12, <1>13
        DEF Next, Proceed

THEOREM TypeInvariance == Spec => []TypeInv
<1>1. Init => TypeInv
  <2>1. MaxChanges \in Nat /\ MaxFaults \in Nat
    BY ApprovalAssumption
  <2>2. 0 \in 0..MaxChanges /\ 0 \in 0..MaxFaults
    BY <2>1
  <2>3. ASSUME Init
        PROVE  /\ cache \in [Agent -> SUBSET Slot] /\ acts \in [Call -> SUBSET Service]
               /\ trusted \in [Agent -> SUBSET Action]
    BY <2>3 DEF Init
  <2>4. ASSUME Init
        PROVE  TypeOK
    BY <2>2, <2>3, <2>4 DEF Init, TypeOK
  <2> QED BY <2>4 DEF Init, TypeInv, Known
<1>2. TypeInv /\ [Next]_vars => TypeInv'
  BY StepType
<1> QED BY <1>1, <1>2, PTL DEF Spec

\* The tokens, the calls, the log and the caches keep their types.
THEOREM TypeCorrect == Spec => []TypeOK
<1>1. TypeInv => TypeOK
  BY DEF TypeInv
<1> QED BY <1>1, TypeInvariance, PTL

-----------------------------------------------------------------------------
(* Licences.                                                               *)

\* A verdict is reached once, before anything is done, and a token that one
\* rests on is used, so that no other verdict can rest on it.
LicenceInv ==
  /\ \A c \in Call : pc[c] \in {"new", "check", "consume"} => verdict[c] = "unasked" /\ ~Acted(c)
  /\ \A c \in Call : pc[c] = "consume" => request[c].token \in Token
  /\ \A c \in Call : pc[c] = "act" \/ Acted(c) =>
       /\ verdict[c] # "unasked" /\ Registered(request[c].action)
       /\ verdict[c] = "none" => NeedsNone(request[c].action)
  /\ \A c \in Call : verdict[c] = "consumed" =>
       /\ request[c].token \in Token /\ tokens[request[c].token] = "used"
       /\ Grants[request[c].token].action = request[c].action
       /\ Grants[request[c].token].to \in {request[c].agent, "any"}
       /\ \A d \in Call \ {c} : verdict[d] = "consumed" => request[d].token # request[c].token

LEMMA ActedOnce ==
  ASSUME TypeOK, NEW c \in Call, Act(c)
  PROVE  \A d \in Call : Acted(d)' <=> d = c \/ Acted(d)
<1>1. acts' = [acts EXCEPT ![c] = {GetService(c)}]
  BY DEF Act
<1> QED BY <1>1 DEF Acted, TypeOK

LEMMA SameRequest ==
  ASSUME request' = request, NEW c \in Call
  PROVE  /\ Registered(request[c].action)' <=> Registered(request[c].action)
         /\ NeedsNone(request[c].action)' <=> NeedsNone(request[c].action)
BY DEF Registered, NeedsNone, ClassifyRisk

LEMMA StepLicence ==
  ASSUME TypeInv, LicenceInv, [Next]_vars
  PROVE  LicenceInv'
<1>t. TypeOK
  BY DEF TypeInv
<1>0. ASSUME acts' = acts PROVE \A c \in Call : Acted(c)' <=> Acted(c)
  BY <1>0 DEF Acted
<1>1. ASSUME NEW t \in Token, VoidToken(t) PROVE LicenceInv'
  BY <1>1, <1>0, <1>t, SameRequest DEF VoidToken, LicenceInv, TypeOK
<1>2. ASSUME NEW a \in Agent, NEW x \in HighRisk, ChangeTrust(a, x) PROVE LicenceInv'
  BY <1>2, <1>0, SameRequest DEF ChangeTrust, LicenceInv
<1>3. ASSUME NEW a \in Agent, Die(a) PROVE LicenceInv'
  <2>1. UNCHANGED <<tokens, request, acts, verdict>> /\ \A c \in Call : pc'[c] \in {pc[c], "done"}
    BY <1>3 DEF Die
  <2> QED BY <2>1, <1>0, SameRequest DEF LicenceInv
<1>4. ASSUME NEW c \in Call, Reject(c) \/ Enter(c) PROVE LicenceInv'
  <2>1. /\ UNCHANGED <<tokens, request, acts, verdict>>
        /\ pc[c] = "new" /\ pc'[c] \in {"check", "done"}
        /\ \A d \in Call \ {c} : pc'[d] = pc[d]
    BY <1>4, <1>t, MoveFacts DEF Reject, Enter
  <2> QED BY <2>1, <1>0, SameRequest DEF LicenceInv
<1>5. ASSUME NEW c \in Call, CheckApproval(c) PROVE LicenceInv'
  <2>1. /\ UNCHANGED <<tokens, request, acts>> /\ pc[c] = "check"
        /\ Registered(request[c].action) /\ verdict[c] = "unasked" /\ ~Acted(c)
    BY <1>5 DEF CheckApproval, Known, TypeInv, LicenceInv
  <2>2. ASSUME NEW v \in {"none", "trusted"}, Allow(c, v), v = "none" => NeedsNone(request[c].action)
        PROVE  LicenceInv'
    <3>1. pc'[c] = "act" /\ \A d \in Call \ {c} : pc'[d] = pc[d]
      BY <2>2, <1>t, MoveFacts DEF Allow
    <3>2. verdict'[c] = v /\ \A d \in Call \ {c} : verdict'[d] = verdict[d]
      BY <2>2, <1>t DEF Allow, TypeOK
    <3> QED BY <3>1, <3>2, <2>1, <2>2, <1>0, SameRequest DEF LicenceInv
  <2>3. ASSUME NEW to \in {"failing", "consume"}, Move(c, to), UNCHANGED verdict,
               to = "consume" => TokenOf(c) # NoToken
        PROVE  LicenceInv'
    <3>1. pc'[c] = to /\ \A d \in Call \ {c} : pc'[d] = pc[d]
      BY <2>3, <1>t, MoveFacts
    <3>2. to = "consume" => request[c].token \in Token
      BY <2>3, <1>t, RequestFacts
    <3> QED BY <3>1, <3>2, <2>1, <2>3, <1>0, SameRequest DEF LicenceInv
  <2> QED BY <2>2, <2>3, <1>5 DEF CheckApproval
<1>6. ASSUME NEW c \in Call, TrustUnknown(c) PROVE LicenceInv'
  <2>1. /\ UNCHANGED <<tokens, request, acts, verdict>> /\ pc[c] = "check"
        /\ \A d \in Call \ {c} : pc'[d] = pc[d]
        /\ pc'[c] \in {"failing", "consume"}
        /\ pc'[c] = "consume" => TokenOf(c) # NoToken
    BY <1>6, <1>t, MoveFacts DEF TrustUnknown
  <2> QED BY <2>1, <1>0, <1>t, RequestFacts, SameRequest DEF LicenceInv
<1>7. ASSUME NEW c \in Call, ConsumeApprovalToken(c) PROVE LicenceInv'
  <2> DEFINE t == request[c].token
  <2>1. /\ UNCHANGED <<request, acts>> /\ pc[c] = "consume" /\ t \in Token
        /\ Registered(request[c].action) /\ verdict[c] = "unasked" /\ ~Acted(c)
        /\ \A d \in Call \ {c} : pc'[d] = pc[d]
    BY <1>7 DEF ConsumeApprovalToken, Allow, Move, Known, LicenceInv, TypeInv, TypeOK
  <2>2. CASE Valid(t, request[c].agent, request[c].action)
    <3>1. /\ tokens' = [tokens EXCEPT ![t] = "used"] /\ verdict' = [verdict EXCEPT ![c] = "consumed"]
          /\ pc'[c] = "act" /\ tokens[t] = "open"
          /\ Grants[t].action = request[c].action /\ Grants[t].to \in {request[c].agent, "any"}
      BY <2>2, <1>7, <1>t DEF ConsumeApprovalToken, Allow, Move, Valid, TypeOK
    <3>2. \A d \in Call : verdict[d] = "consumed" => request[d].token # t
      BY <3>1 DEF LicenceInv
    <3>3. /\ tokens'[t] = "used" /\ \A s \in Token : tokens[s] = "used" => tokens'[s] = "used"
          /\ verdict'[c] = "consumed" /\ \A d \in Call \ {c} : verdict'[d] = verdict[d]
      BY <3>1, <2>1, <1>t DEF TypeOK
    <3>4. \A d \in Call : verdict'[d] = "consumed" =>
            /\ request[d].token \in Token /\ tokens'[request[d].token] = "used"
            /\ Grants[request[d].token].action = request[d].action
            /\ Grants[request[d].token].to \in {request[d].agent, "any"}
            /\ \A e \in Call \ {d} : verdict'[e] = "consumed" => request[e].token # request[d].token
      BY <3>1, <3>2, <3>3, <2>1 DEF LicenceInv
    <3> QED BY <3>1, <3>3, <3>4, <2>1, <1>0, SameRequest DEF LicenceInv
  <2>3. CASE ~Valid(t, request[c].agent, request[c].action)
    <3>1. UNCHANGED <<tokens, verdict>> /\ pc'[c] = "failing"
      BY <2>3, <1>7, <1>t, MoveFacts DEF ConsumeApprovalToken
    <3> QED BY <3>1, <2>1, <1>0, SameRequest DEF LicenceInv
  <2> QED BY <2>2, <2>3
<1>8. ASSUME NEW c \in Call, Act(c) PROVE LicenceInv'
  <2>1. /\ UNCHANGED <<tokens, request, verdict>> /\ pc[c] = "act" /\ pc'[c] \in {"ok", "failing"}
        /\ \A d \in Call \ {c} : pc'[d] = pc[d]
    BY <1>8, <1>t, MoveFacts DEF Act
  <2>2. Registered(request[c].action)
    BY <2>1 DEF LicenceInv
  <2>3. \A d \in Call : Acted(d)' <=> d = c \/ Acted(d)
    BY <1>8, <1>t, ActedOnce
  <2> QED BY <2>1, <2>2, <2>3, SameRequest DEF LicenceInv
<1>9. ASSUME NEW c \in Call, ActFails(c) \/ ResolveFailed(c) \/ ResolveSuccess(c) \/ DatabaseFails(c)
      PROVE LicenceInv'
  <2>1. /\ UNCHANGED <<tokens, request, acts, verdict>> /\ pc'[c] \in {"failing", "done"}
        /\ \A d \in Call \ {c} : pc'[d] = pc[d]
    BY <1>9, <1>t, MoveFacts DEF ActFails, ResolveFailed, ResolveSuccess, DatabaseFails
  <2> QED BY <2>1, <1>0, SameRequest DEF LicenceInv
<1>10. CASE UNCHANGED vars
  BY <1>10, <1>0, SameRequest DEF vars, LicenceInv
<1> QED BY <1>1, <1>2, <1>3, <1>4, <1>5, <1>6, <1>7, <1>8, <1>9, <1>10 DEF Next, Proceed

\* What is high-risk is done with standing trust, or with a token for this agent
\* and this action that no other call ever used.
THEOREM ActsAreLicensed == Spec => []Licensed
<1>1. Init => LicenceInv
  BY DEF Init, LicenceInv, Acted
<1>2. TypeInv /\ LicenceInv /\ [Next]_vars => LicenceInv'
  BY StepLicence
<1>3. TypeInv /\ LicenceInv => Licensed
  BY DEF TypeInv, TypeOK, LicenceInv, Licensed, NeedsNone, ClassifyRisk
<1> QED BY <1>1, <1>2, <1>3, TypeInvariance, PTL DEF Spec

-----------------------------------------------------------------------------
(* The log.                                                                *)

\* A call in progress has its row, and succeeds only if it was made.
LogInv ==
  /\ LogCovers
  /\ \A c \in Call : pc[c] \notin {"new", "done"} => audit[c] # "no row"
  /\ \A c \in Call : pc[c] = "ok" => Acted(c)
  /\ \A c \in Call : pc[c] = "new" => audit[c] = "no row"

LEMMA StepLog ==
  ASSUME TypeInv, LicenceInv, LogInv, [Next]_vars
  PROVE  LogInv'
<1>t. TypeOK
  BY DEF TypeInv
<1>0. ASSUME acts' = acts PROVE \A c \in Call : Acted(c)' <=> Acted(c)
  BY <1>0 DEF Acted
<1>1. ASSUME NEW t \in Token, VoidToken(t) PROVE LogInv'
  BY <1>1, <1>0, <1>t DEF VoidToken, TypeOK, LogInv, LogCovers
<1>2. ASSUME NEW a \in Agent, NEW x \in HighRisk, ChangeTrust(a, x) PROVE LogInv'
  BY <1>2, <1>0 DEF ChangeTrust, LogInv, LogCovers
<1>3. ASSUME NEW a \in Agent, Die(a) PROVE LogInv'
  <2>1. UNCHANGED <<tokens, request, acts, audit>> /\ \A c \in Call : pc'[c] = pc[c] \/ (pc[c] # "new" /\ pc'[c] = "done")
    BY <1>3 DEF Die
  <2> QED BY <2>1, <1>0 DEF LogInv, LogCovers
<1>4. ASSUME NEW c \in Call, Reject(c) PROVE LogInv'
  <2>1. /\ UNCHANGED <<tokens, request, acts, audit>> /\ pc'[c] = "done"
        /\ \A d \in Call \ {c} : pc'[d] = pc[d]
    BY <1>4, <1>t, MoveFacts DEF Reject
  <2> QED BY <2>1, <1>0 DEF LogInv, LogCovers
<1>5. ASSUME NEW c \in Call, Enter(c) PROVE LogInv'
  <2>1. /\ UNCHANGED <<tokens, request, acts>> /\ pc[c] = "new" /\ pc'[c] = "check" /\ audit'[c] = "open"
        /\ \A d \in Call \ {c} : pc'[d] = pc[d] /\ audit'[d] = audit[d]
    BY <1>5, <1>t, MoveFacts DEF Enter, Recorded, TypeOK
  <2>2. LogCovers'
    BY <2>1, <1>0 DEF LogInv, LogCovers
  <2> QED BY <2>1, <2>2, <1>0 DEF LogInv
<1>6. ASSUME NEW c \in Call, CheckApproval(c) \/ TrustUnknown(c) \/ ActFails(c) \/ DatabaseFails(c)
      PROVE LogInv'
  <2>t. UNCHANGED <<tokens, request, acts, audit>>
    BY <1>6 DEF CheckApproval, TrustUnknown, ActFails, DatabaseFails
  <2>1. /\ UNCHANGED <<tokens, request, acts, audit>> /\ pc[c] \notin {"new", "done"}
        /\ pc'[c] \notin {"new", "ok"}
        /\ \A d \in Call \ {c} : pc'[d] = pc[d]
    BY <1>6 DEF CheckApproval, TrustUnknown, ActFails, DatabaseFails, Allow, Move, TypeInv, TypeOK
  <2>2. LogCovers'
    BY <2>t, <1>0 DEF LogInv, LogCovers
  <2> QED BY <2>1, <2>2, <1>0 DEF LogInv
<1>7. ASSUME NEW c \in Call, ConsumeApprovalToken(c) PROVE LogInv'
  <2>1. /\ UNCHANGED <<request, acts, audit>> /\ pc[c] = "consume" /\ pc'[c] \in {"act", "failing"}
        /\ \A d \in Call \ {c} : pc'[d] = pc[d]
        /\ \A t \in Token : tokens'[t] = "used" => tokens[t] = "used" \/ t = request[c].token
    BY <1>7 DEF ConsumeApprovalToken, Allow, Move, TypeInv, TypeOK
  <2> QED BY <2>1, <1>0 DEF LogInv, LogCovers
<1>8. ASSUME NEW c \in Call, Act(c) PROVE LogInv'
  <2>1. /\ UNCHANGED <<tokens, request, audit>> /\ pc[c] = "act" /\ pc'[c] \in {"ok", "failing"}
        /\ \A d \in Call \ {c} : pc'[d] = pc[d]
    BY <1>8, <1>t, MoveFacts DEF Act
  <2> QED BY <2>1, <1>8, <1>t, ActedOnce DEF LogInv, LogCovers
<1>9. ASSUME NEW c \in Call, ResolveFailed(c) \/ ResolveSuccess(c) PROVE LogInv'
  <2>1. /\ UNCHANGED <<tokens, request, acts>> /\ pc[c] \in {"failing", "ok"} /\ pc'[c] = "done"
        /\ audit'[c] \in {"success", "failed"} /\ (audit'[c] = "success" => pc[c] = "ok")
        /\ \A d \in Call \ {c} : pc'[d] = pc[d] /\ audit'[d] = audit[d]
    BY <1>9, <1>t, MoveFacts DEF ResolveFailed, ResolveSuccess, TypeOK
  <2> QED BY <2>1, <1>0 DEF LogInv, LogCovers
<1>10. CASE UNCHANGED vars
  BY <1>10, <1>0 DEF vars, LogInv, LogCovers
<1> QED BY <1>1, <1>2, <1>3, <1>4, <1>5, <1>6, <1>7, <1>8, <1>9, <1>10 DEF Next, Proceed

\* Nothing is done and no token is spent without a row in the audit log, and
\* the log claims no success that was none.
THEOREM LogIsComplete == Spec => []LogCovers
<1>1. Init => LogInv /\ LicenceInv
  BY DEF Init, LogInv, LogCovers, LicenceInv, Acted
<1>2. TypeInv /\ LicenceInv /\ [Next]_vars => LicenceInv'
  BY StepLicence
<1>3. TypeInv /\ LicenceInv /\ LogInv /\ [Next]_vars => LogInv'
  BY StepLog
<1>4. LogInv => LogCovers
  BY DEF LogInv
<1> QED BY <1>1, <1>2, <1>3, <1>4, TypeInvariance, PTL DEF Spec

-----------------------------------------------------------------------------
(* The cache.                                                              *)

\* Every service is cached under its own key, which tells it apart.
CacheInv ==
  /\ \A a \in Agent : \A e \in cache[a] : e.key = CacheKey(e.service)
  /\ RightService

LEMMA KeyTells ==
  ASSUME NEW r \in Service, NEW s \in Service, CacheKey(r) = CacheKey(s)
  PROVE  r = s
BY DEF CacheKey, Service

LEMMA GetServiceRight ==
  ASSUME TypeInv, CacheInv, NEW c \in Call, pc[c] = "act"
  PROVE  GetService(c) = Needed(c)
<1> DEFINE hits == {e \in cache[request[c].agent] : e.key = CacheKey(Needed(c))}
<1>0. GetService(c) = IF hits = {} THEN Needed(c) ELSE (CHOOSE e \in hits : TRUE).service
  BY DEF GetService
<1> HIDE DEF hits
<1>1. CASE hits = {}
  BY <1>0, <1>1
<1>2. CASE hits # {}
  <2>1. request[c].agent \in Agent
    BY RequestFacts DEF TypeInv
  <2>2. \A e \in hits : CacheKey(e.service) = CacheKey(Needed(c)) /\ e.service \in Service
    BY <2>1, SlotFacts DEF CacheInv, TypeInv, TypeOK, hits
  <2>3. \A e \in hits : e.service = Needed(c)
    BY <2>2, KeyTells, GetServiceType
  <2>4. (CHOOSE e \in hits : TRUE) \in hits
    BY <1>2
  <2> QED BY <2>3, <2>4, <1>0, <1>2
<1> QED BY <1>1, <1>2

LEMMA StepCache ==
  ASSUME TypeInv, CacheInv, [Next]_vars
  PROVE  CacheInv'
<1>0. ASSUME request' = request PROVE \A c \in Call : Needed(c)' = Needed(c)
  BY <1>0 DEF Needed
<1>2. CASE UNCHANGED <<acts, cache, request>>
  BY <1>2, <1>0 DEF CacheInv, RightService, Acted
<1>3. ASSUME NEW a \in Agent, Die(a) PROVE CacheInv'
  <2>1. acts' = acts /\ request' = request /\ \A b \in Agent : cache'[b] \subseteq cache[b]
    BY <1>3 DEF Die, TypeInv, TypeOK
  <2> QED BY <2>1, <1>0 DEF CacheInv, RightService, Acted
<1>4. ASSUME NEW c \in Call, Act(c) PROVE CacheInv'
  <2> DEFINE new == [key |-> CacheKey(Needed(c)), service |-> Needed(c)]
  <2>1. /\ request' = request /\ acts' = [acts EXCEPT ![c] = {Needed(c)}]
        /\ cache' = [cache EXCEPT ![request[c].agent] = @ \union {new}]
    BY <1>4, GetServiceRight DEF Act
  <2>2. \A a \in Agent : \A e \in cache'[a] : e \in cache[a] \/ e = new
    BY <2>1 DEF TypeInv, TypeOK
  <2>3. \A a \in Agent : \A e \in cache'[a] : e.key = CacheKey(e.service)
    BY <2>2 DEF CacheInv
  <2>4. RightService'
    BY <2>1, <1>0 DEF CacheInv, RightService, Acted, TypeInv, TypeOK
  <2> QED BY <2>3, <2>4 DEF CacheInv
<1>5. ASSUME NEW c \in Call, ~Act(c), Proceed(c) PROVE UNCHANGED <<acts, cache, request>>
  BY <1>5 DEF Proceed, CheckApproval, ConsumeApprovalToken, ActFails, ResolveFailed, ResolveSuccess
<1>6. ASSUME NEW c \in Call, Reject(c) \/ Enter(c) \/ TrustUnknown(c) \/ DatabaseFails(c)
      PROVE UNCHANGED <<acts, cache, request>>
  BY <1>6 DEF Reject, Enter, TrustUnknown, DatabaseFails
<1> QED BY <1>2, <1>3, <1>4, <1>5, <1>6 DEF Next, vars, VoidToken, ChangeTrust

\* A call is made as the user, on the service and with the scopes it asked for,
\* whatever its process had cached.
THEOREM ServicesAreRight == Spec => []RightService
<1>1. Init => CacheInv
  BY DEF Init, CacheInv, RightService, Acted
<1>2. TypeInv /\ CacheInv /\ [Next]_vars => CacheInv'
  BY StepCache
<1>3. CacheInv => RightService
  BY DEF CacheInv
<1> QED BY <1>1, <1>2, <1>3, TypeInvariance, PTL DEF Spec
=============================================================================
