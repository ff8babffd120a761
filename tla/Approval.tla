------------------------------- MODULE Approval -------------------------------
(***************************************************************************)
(* gcg_google_v2: how an agent's call to a Google service is let through,  *)
(* recorded and made.  Every agent has a server process with its own cache *)
(* of service objects; the database with the approval tokens, the standing *)
(* trust and the audit log is shared, and calls of all agents interleave   *)
(* in it.  Peter has issued tokens, and revokes them and trust meanwhile.  *)
(*                                                                         *)
(* External: _auth.check_impersonation, the writes of _audit, and the      *)
(* modules of the services, whose functions call check_approval for their  *)
(* action, then get_service_for_action, then Google.                       *)
(***************************************************************************)
EXTENDS Naturals

CONSTANTS
  Call,          \* calls, each made once
  Agent,
  Action, Subject,
  Token,
  NoToken,
  Grants,        \* per token, the agent, or "any", and the action it is for
  Requests,      \* what may be called: a set of Request
  ActionRegistry,\* per registered action: service, scope, risk
  HighRisk,      \* _HIGH_RISK_ACTIONS
  MediumRisk,    \* _MEDIUM_RISK_ACTIONS
  Scopes,        \* _SCOPES_BY_SERVICE
  TakesToken,    \* actions whose function has a parameter approval_token
  MaxChanges,    \* bound on the changes to the standing trust
  MaxFaults      \* bound on the faults

Request == [agent : Agent, action : Action, subject : Subject, token : Token \union {NoToken}]

ASSUME ApprovalAssumption ==
  /\ NoToken \notin Token
  /\ Grants \in [Token -> [to : Agent \union {"any"}, action : Action]]
  /\ Requests \subseteq Request
  /\ DOMAIN ActionRegistry \subseteq Action
  /\ \A x \in DOMAIN ActionRegistry : ActionRegistry[x].scope \in DOMAIN Scopes
  /\ HighRisk \subseteq Action
  /\ MaxChanges \in Nat /\ MaxFaults \in Nat

VARIABLES
  tokens,    \* approval_tokens: per token, its state
  trusted,   \* agent_trusted_actions
  cache,     \* per agent, _SERVICE_CACHE
  request,   \* per call, what it asks
  pc, verdict, audit,
  acts,      \* per call, the service it made Google do its work with, if any
  changes, faults

vars == <<tokens, trusted, cache, pc, request, verdict, audit, acts, changes, faults>>

Services == {ActionRegistry[x].service : x \in DOMAIN ActionRegistry}
Service  == [service : Services, subject : Subject, scopes : {Scopes[k] : k \in DOMAIN Scopes}]

\* Mutant of CacheKey: without the name of the service.
CacheKeyScopes(s) == <<s.subject, s.scopes>>
CacheKey(s)       == <<s.service, s.subject, s.scopes>>

Slot == [key : {CacheKey(s) : s \in Service}, service : Service]

TypeOK ==
  /\ tokens \in [Token -> {"open", "used", "void"}]
  /\ trusted \in [Agent -> SUBSET Action]
  /\ cache \in [Agent -> SUBSET Slot]
  /\ pc \in [Call -> {"new", "check", "consume", "act", "ok", "failing", "done"}]
  /\ request \in [Call -> Requests]
  /\ verdict \in [Call -> {"unasked", "none", "trusted", "consumed"}]
  /\ audit \in [Call -> {"no row", "open", "success", "failed"}]
  /\ acts \in [Call -> SUBSET Service]
  /\ changes \in 0..MaxChanges /\ faults \in 0..MaxFaults

Init ==
  /\ tokens = [t \in Token |-> "open"]
  /\ trusted = [a \in Agent |-> {}]
  /\ cache = [a \in Agent |-> {}]
  /\ pc = [c \in Call |-> "new"]
  /\ request \in [Call -> Requests]
  /\ verdict = [c \in Call |-> "unasked"]
  /\ audit = [c \in Call |-> "no row"]
  /\ acts = [c \in Call |-> {}]
  /\ changes = 0 /\ faults = 0

-----------------------------------------------------------------------------
(* Peter, and time.                                                        *)

\* Revoked or expired.
VoidToken(t) ==
  /\ tokens[t] = "open" /\ tokens' = [tokens EXCEPT ![t] = "void"]
  /\ UNCHANGED <<trusted, cache, pc, request, verdict, audit, acts, changes, faults>>

ChangeTrust(a, x) ==
  /\ changes < MaxChanges /\ changes' = changes + 1
  /\ trusted' = [trusted EXCEPT ![a] = IF x \in @ THEN @ \ {x} ELSE @ \union {x}]
  /\ UNCHANGED <<tokens, cache, pc, request, verdict, audit, acts, faults>>

-----------------------------------------------------------------------------
(* A call.                                                                 *)

Move(c, to) == pc' = [pc EXCEPT ![c] = to]

Fault == faults < MaxFaults /\ faults' = faults + 1

\* The actions of the registry are those that have a function.
Registered(x) == x \in DOMAIN ActionRegistry

\* Impersonation is refused, or the registry does not know the action or its
\* risk class.
Reject(c) ==
  /\ pc[c] = "new" /\ Move(c, "done")
  /\ UNCHANGED <<tokens, trusted, cache, request, verdict, audit, acts, changes, faults>>

\* Mutant of Recorded: the row is written when the call is over.
RecordedLate(c) == audit
Recorded(c)     == [audit EXCEPT ![c] = "open"]

\* The row of the audit log, with the token, before anything is tried.
Enter(c) ==
  /\ pc[c] = "new" /\ Registered(request[c].action)
  /\ Move(c, "check")
  /\ audit' = Recorded(c)
  /\ UNCHANGED <<tokens, trusted, cache, request, verdict, acts, changes, faults>>

\* The registry first, then the names that came before it.
ClassifyRisk(x) ==
  IF Registered(x) THEN ActionRegistry[x].risk
  ELSE IF x \in HighRisk THEN "high" ELSE IF x \in MediumRisk THEN "medium" ELSE "read"

\* The token is passed on only to a function that has a place for it.
TokenOf(c) == IF request[c].action \in TakesToken THEN request[c].token ELSE NoToken

Allow(c, v) ==
  /\ verdict' = [verdict EXCEPT ![c] = v]
  /\ Move(c, "act")

NeedsNone(x) == ClassifyRisk(x) # "high"

CheckApproval(c) ==
  /\ pc[c] = "check"
  /\ LET a == request[c].agent
         x == request[c].action
     IN \/ NeedsNone(x) /\ Allow(c, "none")
        \/ ~NeedsNone(x) /\ x \in trusted[a] /\ Allow(c, "trusted")
        \/ /\ ~NeedsNone(x) /\ x \notin trusted[a]
           /\ Move(c, IF TokenOf(c) = NoToken THEN "failing" ELSE "consume")
           /\ UNCHANGED verdict
  /\ UNCHANGED <<tokens, trusted, cache, request, audit, acts, changes, faults>>

\* The query for the trust fails: as if there were none, if the connection is
\* still of use.
TrustUnknown(c) ==
  /\ pc[c] = "check" /\ ~NeedsNone(request[c].action)
  /\ Fault
  /\ \/ Move(c, "failing")
     \/ TokenOf(c) # NoToken /\ Move(c, "consume")
  /\ UNCHANGED <<tokens, trusted, cache, request, verdict, audit, acts, changes>>

\* Mutant of Valid: used_at is not looked at.
ValidAgain(t, a, x) ==
  tokens[t] # "void" /\ Grants[t].action = x /\ Grants[t].to \in {a, "any"}

Valid(t, a, x) ==
  tokens[t] = "open" /\ Grants[t].action = x /\ Grants[t].to \in {a, "any"}

\* One UPDATE, which matches one row or none.
ConsumeApprovalToken(c) ==
  /\ pc[c] = "consume"
  /\ IF Valid(request[c].token, request[c].agent, request[c].action)
     THEN tokens' = [tokens EXCEPT ![request[c].token] = "used"] /\ Allow(c, "consumed")
     ELSE Move(c, "failing") /\ UNCHANGED <<tokens, verdict>>
  /\ UNCHANGED <<trusted, cache, request, audit, acts, changes, faults>>

Needed(c) ==
  [service |-> ActionRegistry[request[c].action].service,
   subject |-> request[c].subject,
   scopes  |-> Scopes[ActionRegistry[request[c].action].scope]]

\* The service the cache has under the key, or a new one.
GetService(c) ==
  LET k == CacheKey(Needed(c))
      hits == {e \in cache[request[c].agent] : e.key = k}
  IN IF hits = {} THEN Needed(c) ELSE (CHOOSE e \in hits : TRUE).service

\* Google does what it is asked, and may report an error all the same.
Act(c) ==
  /\ pc[c] = "act"
  /\ acts' = [acts EXCEPT ![c] = {GetService(c)}]
  /\ cache' = [cache EXCEPT ![request[c].agent] =
                 @ \union {[key |-> CacheKey(Needed(c)), service |-> GetService(c)]}]
  /\ \E to \in {"ok", "failing"} : Move(c, to)
  /\ UNCHANGED <<tokens, trusted, request, verdict, audit, changes, faults>>

\* It refuses, or no service can be built.
ActFails(c) ==
  /\ pc[c] = "act" /\ Move(c, "failing")
  /\ UNCHANGED <<tokens, trusted, cache, request, verdict, audit, acts, changes, faults>>

\* Mutant of ResolveFailed: an error is passed on without a word to the log.
ResolveFailedSilently(c) ==
  /\ pc[c] = "failing" /\ Move(c, "done")
  /\ UNCHANGED <<tokens, trusted, cache, request, verdict, audit, acts, changes, faults>>

ResolveFailed(c) ==
  /\ pc[c] = "failing" /\ Move(c, "done")
  /\ audit' = [audit EXCEPT ![c] = "failed"]
  /\ UNCHANGED <<tokens, trusted, cache, request, verdict, acts, changes, faults>>

\* Mutant of ResolveSuccess: the outcome in place of the status.
ResolveSuccessOk(c) ==
  /\ pc[c] = "ok" /\ Move(c, "done")
  /\ audit' = [audit EXCEPT ![c] = "ok"]
  /\ UNCHANGED <<tokens, trusted, cache, request, verdict, acts, changes, faults>>

ResolveSuccess(c) ==
  /\ pc[c] = "ok" /\ Move(c, "done")
  /\ audit' = [audit EXCEPT ![c] = "success"]
  /\ UNCHANGED <<tokens, trusted, cache, request, verdict, acts, changes, faults>>

\* The UPDATE that consumes or resolves fails: whatever was done, the row will
\* say failed, or, if that fails, nothing.
DatabaseFails(c) ==
  /\ Fault
  /\ \/ pc[c] \in {"consume", "ok"} /\ Move(c, "failing")
     \/ pc[c] = "failing" /\ Move(c, "done")
  /\ UNCHANGED <<tokens, trusted, cache, request, verdict, audit, acts, changes>>

\* The process of an agent dies, with the calls it is at and its cache.
Die(a) ==
  /\ Fault
  /\ pc' = [c \in Call |-> IF pc[c] # "new" /\ request[c].agent = a THEN "done" ELSE pc[c]]
  /\ cache' = [cache EXCEPT ![a] = {}]
  /\ UNCHANGED <<tokens, trusted, request, verdict, audit, acts, changes>>

-----------------------------------------------------------------------------
Proceed(c) ==
  \/ CheckApproval(c) \/ ConsumeApprovalToken(c) \/ Act(c) \/ ActFails(c)
  \/ ResolveFailed(c) \/ ResolveSuccess(c)

Next ==
  \/ \E t \in Token : VoidToken(t)
  \/ \E a \in Agent : Die(a) \/ \E x \in HighRisk : ChangeTrust(a, x)
  \/ \E c \in Call : Reject(c) \/ Enter(c) \/ Proceed(c) \/ TrustUnknown(c) \/ DatabaseFails(c)

Spec     == Init /\ [][Next]_vars
FairSpec == Spec /\ \A c \in Call : WF_vars(Proceed(c))

-----------------------------------------------------------------------------
(* Properties.                                                             *)

Acted(c) == acts[c] # {}

\* What the registry calls high-risk is done only by an agent that was trusted
\* with it when it was checked, or with a token for this agent and this action
\* that no other call ever used, whatever is issued, revoked or tried meanwhile.
Licensed ==
  \A c \in Call : Acted(c) /\ ActionRegistry[request[c].action].risk = "high" =>
    \/ verdict[c] = "trusted"
    \/ /\ verdict[c] = "consumed"
       /\ Grants[request[c].token].action = request[c].action
       /\ Grants[request[c].token].to \in {request[c].agent, "any"}
       /\ \A d \in Call \ {c} : verdict[d] = "consumed" => request[d].token # request[c].token

\* Nothing is done and no token is spent behind the log's back, though it may
\* stay open or say failed of what was done: success is never claimed wrongly.
LogCovers ==
  /\ \A c \in Call : Acted(c) => audit[c] # "no row"
  /\ \A c \in Call : audit[c] = "success" => Acted(c)
  /\ \A t \in Token : tokens[t] = "used" =>
       \E c \in Call : request[c].token = t /\ audit[c] # "no row"

\* Whatever an agent's process has cached, a call is made as the user it was
\* asked to be, on the service and with the scopes of its own action.
RightService == \A c \in Call : Acted(c) => acts[c] = {Needed(c)}

\* Without crashes and failures of the database every row of the log is closed.
RowsClosed == \A c \in Call : (audit[c] = "open" /\ faults = 0) ~> (audit[c] # "open" \/ faults # 0)
=============================================================================
