------------------------------ MODULE MCApproval ------------------------------
(* Two agents, two tokens (one for a1 to delete, one for anybody to send), *)
(* two actions that share their scopes but not their service, one that is  *)
(* not registered, and two calls.                                          *)
EXTENDS Approval, TLC

CONSTANTS a1, a2, t1, t2, u1, u2, c1, c2

Entry(service, scope, risk) == [service |-> service, scope |-> scope, risk |-> risk]
Registry ==
  "drive.files.list"   :> Entry("drive", "drive-read", "read") @@
  "docs.documents.get" :> Entry("docs", "docs-read", "read") @@
  "drive.files.delete" :> Entry("drive", "drive-write", "high") @@
  "gmail.messages.send" :> Entry("gmail", "gmail-send", "high")
ScopesByService ==
  "drive-read" :> "drive.readonly" @@ "docs-read" :> "drive.readonly" @@
  "drive-write" :> "drive" @@ "gmail-send" :> "gmail.send"

Actions   == DOMAIN Registry \union {"files.delete"}
ForTokens == t1 :> [to |-> a1, action |-> "drive.files.delete"] @@
             t2 :> [to |-> "any", action |-> "gmail.messages.send"]

Ask(a, x, u, t) == [agent |-> a, action |-> x, subject |-> u, token |-> t]
Asked ==
  {Ask(a1, "drive.files.list", u1, NoToken), Ask(a1, "drive.files.list", u2, NoToken),
   Ask(a1, "docs.documents.get", u1, NoToken), Ask(a1, "files.delete", u1, NoToken)}
  \union {Ask(a1, "drive.files.delete", u1, t) : t \in {t1, t2}}
  \union {Ask(a2, "drive.files.delete", u1, t) : t \in {t1, NoToken}}
  \union {Ask(a, "gmail.messages.send", u1, t2) : a \in {a1, a2}}
=============================================================================
