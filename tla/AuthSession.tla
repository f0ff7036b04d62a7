---------------------------- MODULE AuthSession -----------------------------
(***************************************************************************)
(* Accounts, sessions and one-time tokens.  A session is one row per       *)
(* refresh token: each refresh writes the next row of the same family and  *)
(* revokes the one it was asked for.  Logins, refreshes, sign-outs,        *)
(* changes of the password and of the membership interleave at every       *)
(* await, and a handler may end anywhere.                                  *)
(*                                                                         *)
(* One organization.  A family bears the name of its first session.  The   *)
(* token of a session, and a one-time token, may be presented at any time  *)
(* and any number of times; a one-time token that has expired or was not   *)
(* delivered is one that is not presented any more.  A session may be      *)
(* found expired at any time.                                              *)
(***************************************************************************)
EXTENDS Naturals, FiniteSets, RequestWork

CONSTANTS Users, Sessions, Tokens,
          MaxPasswords   \* bound: how often a user's password is changed

ASSUME MaxPasswordsAssumption == MaxPasswords \in Nat

VARIABLES account,  \* the User rows, with the membership of the organization
          session,  \* the Session rows
          token     \* the OneTimeToken rows

vars == <<account, session, token, work>>

\* A password is known by how many there were before it.
Account == [registered : BOOLEAN, member : BOOLEAN, verified : BOOLEAN, password : Nat]
\* `opened` is history: the password of the user when the family was opened.
NoSession == [family |-> "NONE"]
Session == [family : Sessions, user : Users, revoked : BOOLEAN, opened : Nat]
NoToken == [type |-> "NONE"]
Token == [type : {"RESET", "VERIFICATION"}, user : Users, used : BOOLEAN]

UserSteps == {"register", "registered", "login", "issue", "logoutAll", "change", "removed"}
SessionSteps == {"refresh", "rotate", "reused", "expired", "logout"}
TokenSteps == {"reset", "verify"}
Work == [pc : UserSteps, user : Users] \cup [pc : SessionSteps, session : Sessions]
          \cup [pc : TokenSteps, token : Tokens]

Exists(s) == session[s] # NoSession
Live(s) == Exists(s) /\ ~session[s].revoked
OfUser(u) == {s \in Sessions : Exists(s) /\ session[s].user = u}
OfFamily(f) == {s \in Sessions : Exists(s) /\ session[s].family = f}
Outstanding(t, u, type) ==
  token[t] # NoToken /\ token[t].type = type /\ token[t].user = u /\ ~token[t].used

Init ==
  /\ account = [u \in Users |-> [registered |-> FALSE, member |-> FALSE,
                                 verified |-> FALSE, password |-> 0]]
  /\ session = [s \in Sessions |-> NoSession]
  /\ token = [t \in Tokens |-> NoToken]
  /\ work = [h \in Handlers |-> Idle]
-----------------------------------------------------------------------------
(* Handlers in progress *)

\* A refusal (a wrong password, a failed second factor), an exception or the
\* death of the process.
Die(h) ==
  /\ work[h] # Idle
  /\ Finish(h)
  /\ UNCHANGED <<account, session, token>>

Revoke(S) == session' = [s \in Sessions |-> IF s \in S THEN [session[s] EXCEPT !.revoked = TRUE]
                                            ELSE session[s]]

\* createOneTimeToken: what is outstanding is used up, and one is written.
WriteToken(u, type, t) ==
  /\ token[t] = NoToken
  /\ token' = [o \in Tokens |->
                 IF o = t THEN [type |-> type, user |-> u, used |-> FALSE]
                 ELSE IF Outstanding(o, u, type) THEN [token[o] EXCEPT !.used = TRUE]
                 ELSE token[o]]
-----------------------------------------------------------------------------
(* register, login, issueSession *)

RegisterBegin(h, u) ==
  /\ ~account[u].registered
  /\ Begin(h, [pc |-> "register", user |-> u])
  /\ UNCHANGED <<account, session, token>>

\* The unique e-mail refuses the second of two registrations.
RegisterCommit(h) ==
  /\ At(h, "register")
  /\ LET u == work[h].user IN
     /\ ~account[u].registered
     /\ account' = [account EXCEPT ![u].registered = TRUE, ![u].member = TRUE]
  /\ Goto(h, "registered")
  /\ UNCHANGED <<session, token>>

RegisterToken(h) ==
  /\ At(h, "registered")
  /\ \E t \in Tokens : WriteToken(work[h].user, "VERIFICATION", t)
  /\ Goto(h, "issue")
  /\ UNCHANGED <<account, session>>

\* The password has been compared with the one just read.
LoginRead(h, u) ==
  /\ account[u].registered /\ account[u].member
  /\ Begin(h, [pc |-> "login", user |-> u])
  /\ UNCHANGED <<account, session, token>>

\* No second factor is enrolled, or its code was right.
LoginChecked(h) ==
  /\ At(h, "login")
  /\ Goto(h, "issue")
  /\ UNCHANGED <<account, session, token>>

IssueSession(h) ==
  /\ At(h, "issue")
  /\ \E s \in Sessions :
       /\ ~Exists(s)
       /\ session' = [session EXCEPT ![s] =
            [family |-> s, user |-> work[h].user, revoked |-> FALSE,
             opened |-> account[work[h].user].password]]
  /\ Finish(h)
  /\ UNCHANGED <<account, token>>
-----------------------------------------------------------------------------
(* refresh *)

RefreshRead(h, s) ==
  /\ Exists(s)
  /\ \E pc \in IF session[s].revoked THEN {"reused"} ELSE {"expired", "refresh"} :
       Begin(h, [pc |-> pc, session |-> s])
  /\ UNCHANGED <<account, session, token>>

Reused(h) ==
  /\ At(h, "reused")
  /\ Revoke(OfFamily(session[work[h].session].family))
  /\ Finish(h)
  /\ UNCHANGED <<account, token>>

RefreshExpired(h) ==
  /\ At(h, "expired")
  /\ Revoke({work[h].session})
  /\ Finish(h)
  /\ UNCHANGED <<account, token>>

RefreshMember(h) ==
  /\ At(h, "refresh")
  /\ account[session[work[h].session].user].member
  /\ Goto(h, "rotate")
  /\ UNCHANGED <<account, session, token>>

\* The next session of the family, in the place of current.
Replace(current, next) ==
  /\ ~Exists(next)
  /\ session' = [session EXCEPT ![current].revoked = TRUE,
                                ![next] = [session[current] EXCEPT !.revoked = FALSE]]

\* One transaction, which fails when the token has been revoked since it was
\* read.
\* Variant: what was read is relied upon.
RotateStale(h) ==
  /\ At(h, "rotate")
  /\ \E next \in Sessions : Replace(work[h].session, next)
  /\ Finish(h)
  /\ UNCHANGED <<account, token>>
\* Variant: the token that was presented stays valid.
RotateKeep(h) ==
  /\ At(h, "rotate")
  /\ ~session[work[h].session].revoked
  /\ \E next \in Sessions :
       ~Exists(next) /\ session' = [session EXCEPT ![next] = session[work[h].session]]
  /\ Finish(h)
  /\ UNCHANGED <<account, token>>
Rotate(h) ==
  /\ At(h, "rotate")
  /\ ~session[work[h].session].revoked
  /\ \E next \in Sessions : Replace(work[h].session, next)
  /\ Finish(h)
  /\ UNCHANGED <<account, token>>
-----------------------------------------------------------------------------
(* What a signed-in user does *)

Authenticated(s) == Live(s) /\ account[session[s].user].member

\* logout, and the deletion of another of one's own sessions.
LogoutBegin(h, s, other) ==
  /\ Authenticated(s) /\ other \in OfUser(session[s].user)
  /\ Begin(h, [pc |-> "logout", session |-> other])
  /\ UNCHANGED <<account, session, token>>

Logout(h) ==
  /\ At(h, "logout")
  /\ Revoke({work[h].session})
  /\ Finish(h)
  /\ UNCHANGED <<account, token>>

\* logoutAll; the transaction that disables the second factor revokes the same.
LogoutAllBegin(h, s) ==
  /\ Authenticated(s)
  /\ Begin(h, [pc |-> "logoutAll", user |-> session[s].user])
  /\ UNCHANGED <<account, session, token>>

LogoutAll(h) ==
  /\ At(h, "logoutAll")
  /\ Revoke(OfUser(work[h].user))
  /\ Finish(h)
  /\ UNCHANGED <<account, token>>

ChangeBegin(h, s) ==
  /\ Authenticated(s)
  /\ Begin(h, [pc |-> "change", user |-> session[s].user])
  /\ UNCHANGED <<account, session, token>>

\* Bound: MaxPasswords.
SetPassword(u) ==
  /\ account[u].password < MaxPasswords
  /\ account' = [account EXCEPT ![u].password = @ + 1]

\* Variant: the session that asks for the change is kept.
ChangePasswordKeep(h) ==
  /\ At(h, "change")
  /\ SetPassword(work[h].user)
  /\ Finish(h)
  /\ UNCHANGED <<session, token>>
ChangePassword(h) ==
  /\ At(h, "change")
  /\ SetPassword(work[h].user)
  /\ Revoke(OfUser(work[h].user))
  /\ Finish(h)
  /\ UNCHANGED token
-----------------------------------------------------------------------------
(* One-time tokens *)

ForgotPassword(u) ==
  /\ account[u].registered
  /\ \E t \in Tokens : WriteToken(u, "RESET", t)
  /\ UNCHANGED <<account, session, work>>

ResetRead(h, t) ==
  /\ token[t] # NoToken /\ Outstanding(t, token[t].user, "RESET")
  /\ Begin(h, [pc |-> "reset", token |-> t])
  /\ UNCHANGED <<account, session, token>>

ResetPassword(h) ==
  /\ At(h, "reset")
  /\ SetPassword(token[work[h].token].user)
  /\ Revoke(OfUser(token[work[h].token].user))
  /\ token' = [token EXCEPT ![work[h].token].used = TRUE]
  /\ Finish(h)

VerifyRead(h, t) ==
  /\ token[t] # NoToken /\ Outstanding(t, token[t].user, "VERIFICATION")
  /\ Begin(h, [pc |-> "verify", token |-> t])
  /\ UNCHANGED <<account, session, token>>

VerifyEmail(h) ==
  /\ At(h, "verify")
  /\ account' = [account EXCEPT ![token[work[h].token].user].verified = TRUE]
  /\ token' = [token EXCEPT ![work[h].token].used = TRUE]
  /\ Finish(h)
  /\ UNCHANGED session
-----------------------------------------------------------------------------
(* The membership *)

\* Suspended, reactivated, or invited again.
ChangeMembership(u) ==
  /\ account[u].registered
  /\ account' = [account EXCEPT ![u].member = ~@]
  /\ UNCHANGED <<session, token, work>>

\* remove writes the membership first and revokes the sessions afterwards.
RemoveMember(h, u) ==
  /\ account[u].registered
  /\ account' = [account EXCEPT ![u].member = FALSE]
  /\ Begin(h, [pc |-> "removed", user |-> u])
  /\ UNCHANGED <<session, token>>

RemoveSessions(h) ==
  /\ At(h, "removed")
  /\ Revoke(OfUser(work[h].user))
  /\ Finish(h)
  /\ UNCHANGED <<account, token>>
-----------------------------------------------------------------------------
Next ==
  \/ \E h \in Handlers :
       \/ Die(h)
       \/ RegisterCommit(h) \/ RegisterToken(h) \/ LoginChecked(h) \/ IssueSession(h)
       \/ Reused(h) \/ RefreshExpired(h) \/ RefreshMember(h) \/ Rotate(h)
       \/ Logout(h) \/ LogoutAll(h) \/ ChangePassword(h)
       \/ ResetPassword(h) \/ VerifyEmail(h) \/ RemoveSessions(h)
       \/ \E u \in Users : RegisterBegin(h, u) \/ LoginRead(h, u) \/ RemoveMember(h, u)
       \/ \E s \in Sessions : RefreshRead(h, s) \/ LogoutAllBegin(h, s) \/ ChangeBegin(h, s)
       \/ \E s, other \in Sessions : LogoutBegin(h, s, other)
       \/ \E t \in Tokens : ResetRead(h, t) \/ VerifyRead(h, t)
  \/ \E u \in Users : ForgotPassword(u) \/ ChangeMembership(u)

Spec == Init /\ [][Next]_vars
-----------------------------------------------------------------------------
(* Properties *)

\* Rows and handlers are what the schema and the code can hold.
TypeOK ==
  /\ account \in [Users -> Account]
  /\ session \in [Sessions -> Session \cup {NoSession}]
  /\ token \in [Tokens -> Token \cup {NoToken}]
  /\ work \in [Handlers -> Work \cup {Idle}]

\* However many refreshes of one token overlap, and with whatever else, a family
\* never has two sessions that are not revoked: one sign-in, one valid token.
OneLivePerFamily ==
  \A s, r \in Sessions : Live(s) /\ Live(r) /\ session[s].family = session[r].family => s = r

\* A sign-in that was ended (by a sign-out, by the reuse of one of its tokens, by a
\* new password, by the removal of the member) is not continued by a refresh that
\* was under way.
FamilyDead(f) == Exists(f) /\ \A s \in OfFamily(f) : session[s].revoked
DeadFamilyStaysDead == [][\A f \in Sessions : FamilyDead(f) => FamilyDead(f)']_vars

\* A new password ends every sign-in there was: whatever is valid now descends
\* from a session written since the password was last set (by a login that may
\* have compared the one before).
PasswordEndsFamilies ==
  \A s \in Sessions : Live(s) => session[s].opened = account[session[s].user].password

\* Asking again makes the tokens that were sent before worthless.
OneOutstanding ==
  \A s, t \in Tokens : \A u \in Users : \A type \in {"RESET", "VERIFICATION"} :
    Outstanding(s, u, type) /\ Outstanding(t, u, type) => s = t
=============================================================================
