------------------------------- MODULE SignIn -------------------------------
(***************************************************************************)
(* One person signs in: with the password or with an identity provider,    *)
(* and with a second factor once that is enrolled.  AuthSession tells what *)
(* becomes of the sessions.                                                *)
(*                                                                         *)
(* Requests come from several tabs and are repeated; they split where they *)
(* await, and may end anywhere.  The person is an active member all along. *)
(***************************************************************************)
EXTENDS Naturals, FiniteSets

CONSTANTS Transactions,  \* the sign-ins begun with the provider
          Handlers,      \* requests in progress at the same time
          MaxStep,       \* bound: periods of 30 seconds
          MaxSecrets     \* bound: enrollments

ASSUME MaxStepAssumption == MaxStep \in Nat \ {0}
ASSUME MaxSecretsAssumption == MaxSecrets \in Nat

VARIABLES account,       \* the User row of the person's address
          linked,        \* the ExternalIdentity row
          transactions,  \* the OAuthTransaction rows
          mfa,           \* the MfaCredential row
          recovery,      \* the MfaRecoveryCode row; bound: one of the ten
          now,           \* the current period
          work,          \* what each handler is doing
          secrets,       \* history: how many secrets were made
          confirmed,     \* history: the secret the person knows to be in use, or 0
          uses,          \* history: how often each code was accepted; bound: counted up to 2
          opened,        \* history: how many sessions each transaction gave; likewise
          missed,        \* history: a session without the factor of one who had it
          raced          \* history: the enrollment changed under a request in hand

person == <<account, linked>>
factor == <<mfa, recovery, secrets, confirmed, raced>>
vars == <<person, transactions, factor, now, work, uses, opened, missed>>

Accounts == {"NONE", "UNVERIFIED", "VERIFIED"}
Steps == 1 .. MaxStep
Secrets == 0 .. MaxSecrets
Window == {s \in Steps : s + 1 >= now /\ s <= now + 1}

\* A code is that of a secret in a period, or with 0 for the period the recovery code
\* that was made with it.
Codes == Secrets \X (0 .. MaxStep)

\* USED: usedAt is set; completed: completedAt; expired: expiresAt has passed; DELETED: as
\* well, and another sign-in was begun since.
NoTransaction == [status |-> "NONE", purpose |-> "NONE", completed |-> FALSE, expired |-> FALSE]
NoCredential == [secret |-> 0, enabled |-> FALSE, last |-> 0]
NoCode == [of |-> 0, used |-> FALSE]

\* had: the secret in use when the request began.  secret, step: of the code in hand.
Idle == [pc |-> "idle", flow |-> "none", t |-> "none", had |-> 0, secret |-> 0, step |-> 0]

Init ==
  /\ account = "NONE" /\ linked = FALSE
  /\ transactions = [t \in Transactions |-> NoTransaction]
  /\ mfa = NoCredential /\ recovery = NoCode
  /\ now = 1
  /\ work = [h \in Handlers |-> Idle]
  /\ secrets = 0 /\ confirmed = 0 /\ raced = FALSE
  /\ uses = [c \in Codes |-> 0]
  /\ opened = [t \in Transactions |-> 0]
  /\ missed = FALSE
-----------------------------------------------------------------------------
InUse == IF mfa.enabled THEN mfa.secret ELSE 0
At(h, pc) == work[h].pc = pc
Begin(h, pc, flow, t) ==
  /\ work[h] = Idle
  /\ work' = [work EXCEPT ![h] = [Idle EXCEPT !.pc = pc, !.flow = flow, !.t = t, !.had = InUse]]
Goto(h, pc) == work' = [work EXCEPT ![h].pc = pc]
Finish(h) == work' = [work EXCEPT ![h] = Idle]

Row(h) == transactions[work[h].t]
More(n) == IF n = 2 THEN 2 ELSE n + 1

Tick ==
  /\ now < MaxStep
  /\ now' = now + 1
  /\ UNCHANGED <<person, transactions, factor, work, uses, opened, missed>>

Die(h) ==
  /\ work[h] # Idle
  /\ Finish(h)
  /\ UNCHANGED <<person, transactions, factor, now, uses, opened, missed>>
-----------------------------------------------------------------------------
(* The account, and signing in with the password *)

\* register, and the verification of the address by the link in the mail.
Register ==
  /\ account = "NONE"
  /\ account' = "UNVERIFIED"
  /\ UNCHANGED <<linked, transactions, factor, now, work, uses, opened, missed>>

VerifyEmail ==
  /\ account = "UNVERIFIED"
  /\ account' = "VERIFIED"
  /\ UNCHANGED <<linked, transactions, factor, now, work, uses, opened, missed>>

Login(h) ==
  /\ account # "NONE"
  /\ Begin(h, "status", "login", "none")
  /\ UNCHANGED <<person, transactions, factor, now, uses, opened, missed>>

\* MfaService.status, of a login with the password or with the provider.  The first
\* needs the code at once, the second writes a ticket for it.
MfaStatus(h) ==
  /\ At(h, "status")
  /\ Goto(h, IF InUse = 0 THEN "issue" ELSE IF work[h].flow = "login" THEN "verify" ELSE "ticket")
  /\ UNCHANGED <<person, transactions, factor, now, uses, opened, missed>>

\* issueSession.  The factor is verified, or was not there to be verified.
Issue(h) ==
  /\ work[h].pc \in {"issue", "issue verified"}
  /\ opened' = IF work[h].t = "none" THEN opened ELSE [opened EXCEPT ![work[h].t] = More(@)]
  /\ missed' = (missed \/ (At(h, "issue") /\ work[h].had # 0 /\ work[h].had = InUse))
  /\ Finish(h)
  /\ UNCHANGED <<person, transactions, factor, now, uses>>
-----------------------------------------------------------------------------
(* OAuthService *)

\* begin: what has expired is deleted first, also when it is somebody else's.
Swept == [u \in Transactions |->
  IF transactions[u].expired THEN [NoTransaction EXCEPT !.status = "DELETED"] ELSE transactions[u]]
OAuthBegin(t) ==
  /\ transactions[t] = NoTransaction
  /\ transactions' = [Swept EXCEPT ![t].status = "OPEN"]
  /\ UNCHANGED <<person, factor, now, work, uses, opened, missed>>
OthersBegin ==
  /\ transactions' = Swept
  /\ UNCHANGED <<person, factor, now, work, uses, opened, missed>>

\* Bound: what is completed does not lapse, which would make no difference.
Lapse(t) ==
  /\ transactions[t].status \in {"OPEN", "USED"} /\ ~transactions[t].completed
  /\ ~transactions[t].expired
  /\ transactions' = [transactions EXCEPT ![t].expired = TRUE]
  /\ UNCHANGED <<person, factor, now, work, uses, opened, missed>>

Valid(t) == transactions[t].status = "OPEN" /\ ~transactions[t].expired

CallbackRead(h, t) ==
  /\ Valid(t)
  /\ Begin(h, "consume", "callback", t)
  /\ UNCHANGED <<person, transactions, factor, now, uses, opened, missed>>

\* Variant: by id.
ConsumeAny(h) ==
  /\ At(h, "consume")
  /\ transactions' = [transactions EXCEPT ![work[h].t].status = "USED"]
  /\ Goto(h, "find")
  /\ UNCHANGED <<person, factor, now, uses, opened, missed>>
\* Then the code is exchanged; what the provider answers may end the request, see Die.
Consume(h) ==
  /\ At(h, "consume") /\ Valid(work[h].t)
  /\ transactions' = [transactions EXCEPT ![work[h].t].status = "USED"]
  /\ Goto(h, "find")
  /\ UNCHANGED <<person, factor, now, uses, opened, missed>>
-----------------------------------------------------------------------------
(* AuthService.loginWithExternalIdentity; the provider has verified the address *)

FindIdentity(h) ==
  /\ At(h, "find")
  /\ Goto(h, IF linked THEN "status" ELSE "match")
  /\ UNCHANGED <<person, transactions, factor, now, uses, opened, missed>>

\* An account whose address is not verified is not linked.
MatchUser(h) ==
  /\ At(h, "match") /\ account # "UNVERIFIED"
  /\ Goto(h, IF account = "NONE" THEN "onboard" ELSE "link")
  /\ UNCHANGED <<person, transactions, factor, now, uses, opened, missed>>

\* Variant: who has just been linked is not asked for a factor.
LinkAndIssue(h) ==
  /\ At(h, "link") /\ ~linked
  /\ linked' = TRUE
  /\ Goto(h, "issue")
  /\ UNCHANGED <<account, transactions, factor, now, uses, opened, missed>>
\* provider and subject are unique.
Link(h) ==
  /\ At(h, "link") /\ ~linked
  /\ linked' = TRUE
  /\ Goto(h, "status")
  /\ UNCHANGED <<account, transactions, factor, now, uses, opened, missed>>

\* By id: what the callback leaves for the request that completes it.
WriteTicket(h, purpose) ==
  /\ Row(h).status # "DELETED"
  /\ transactions' = [transactions EXCEPT ![work[h].t].purpose = purpose]
  /\ UNCHANGED <<person, factor, now, uses, opened, missed>>
MfaTicket(h) == At(h, "ticket") /\ WriteTicket(h, "MFA") /\ Finish(h)
OnboardingTicket(h) == At(h, "onboard") /\ WriteTicket(h, "ONBOARDING") /\ Goto(h, "pending")

\* findPendingOAuth
Pending(t, purpose) ==
  /\ transactions[t].purpose = purpose
  /\ ~transactions[t].completed /\ ~transactions[t].expired

\* completeExternalOnboarding, which the callback goes on with.
OnboardingRead(h) ==
  /\ At(h, "pending") /\ Pending(work[h].t, "ONBOARDING") /\ account = "NONE"
  /\ Goto(h, "create")
  /\ UNCHANGED <<person, transactions, factor, now, uses, opened, missed>>

\* Addresses and identities are unique.
CreateAccount(h) ==
  /\ At(h, "create") /\ account = "NONE" /\ ~linked
  /\ Row(h).status # "DELETED" /\ ~Row(h).completed
  /\ account' = "VERIFIED" /\ linked' = TRUE
  /\ transactions' = [transactions EXCEPT ![work[h].t].completed = TRUE]
  /\ Goto(h, "issue")
  /\ UNCHANGED <<factor, now, uses, opened, missed>>

\* completeExternalMfa
TicketRead(h, t) ==
  /\ Pending(t, "MFA") /\ linked
  /\ Begin(h, "verify", "ticket", t)
  /\ UNCHANGED <<person, transactions, factor, now, uses, opened, missed>>

\* Only then, so that a code that is refused can be tried again.
TicketConsume(h) ==
  /\ At(h, "consume ticket") /\ Row(h).status # "DELETED" /\ ~Row(h).completed
  /\ transactions' = [transactions EXCEPT ![work[h].t].completed = TRUE]
  /\ Goto(h, "issue verified")
  /\ UNCHANGED <<person, factor, now, uses, opened, missed>>
-----------------------------------------------------------------------------
(* MfaService *)

\* verify: a code of the secret in use, in a period next to the current one, or the
\* recovery code.  Wrong codes change nothing.
VerifyRead(h) ==
  /\ At(h, "verify") /\ InUse # 0
  /\ \E s \in Window \cup (IF recovery.used THEN {} ELSE {0}) :
       work' = [work EXCEPT ![h].pc = "accept", ![h].step = s,
                            ![h].secret = IF s = 0 THEN recovery.of ELSE mfa.secret]
  /\ UNCHANGED <<person, transactions, factor, now, uses, opened, missed>>

Accepted(h) ==
  /\ uses' = [uses EXCEPT ![<<work[h].secret, work[h].step>>] = More(@)]
  /\ Goto(h, CASE work[h].flow = "login" -> "issue verified"
               [] work[h].flow = "ticket" -> "consume ticket"
               [] work[h].flow = "disable" -> "remove")
  /\ UNCHANGED <<person, transactions, secrets, confirmed, raced, now, opened, missed>>

\* Variant: the period of the last code is only recorded.
AcceptAny(h) ==
  /\ At(h, "accept") /\ work[h].step # 0 /\ mfa.enabled
  /\ mfa' = [mfa EXCEPT !.last = work[h].step]
  /\ Accepted(h)
  /\ UNCHANGED recovery
\* By user, whatever secret is in use by now.
Accept(h) ==
  /\ At(h, "accept") /\ work[h].step # 0 /\ mfa.enabled /\ mfa.last < work[h].step
  /\ mfa' = [mfa EXCEPT !.last = work[h].step]
  /\ Accepted(h)
  /\ UNCHANGED recovery

AcceptRecovery(h) ==
  /\ At(h, "accept") /\ work[h].step = 0 /\ recovery = [of |-> work[h].secret, used |-> FALSE]
  /\ recovery' = [recovery EXCEPT !.used = TRUE]
  /\ Accepted(h)
  /\ UNCHANGED mfa

\* A request that still holds what it has read of the enrollment.
Holding(h) == work[h].pc \in {"enroll", "confirm", "accept", "remove"}
Changes(h) == raced' = (raced \/ \E g \in Handlers \ {h} : Holding(g))

\* Variant: a factor in use is replaced.
EnrollAny(h) ==
  /\ account # "NONE" /\ secrets < MaxSecrets
  /\ Begin(h, "enroll", "enroll", "none")
  /\ UNCHANGED <<person, transactions, factor, now, uses, opened, missed>>
EnrollRead(h) ==
  /\ account # "NONE" /\ ~mfa.enabled /\ secrets < MaxSecrets
  /\ Begin(h, "enroll", "enroll", "none")
  /\ UNCHANGED <<person, transactions, factor, now, uses, opened, missed>>

EnrollWrite(h) ==
  /\ At(h, "enroll") /\ secrets < MaxSecrets
  /\ secrets' = secrets + 1
  /\ mfa' = [NoCredential EXCEPT !.secret = secrets']
  /\ Changes(h)
  /\ Finish(h)
  /\ UNCHANGED <<person, transactions, recovery, confirmed, now, uses, opened, missed>>

ConfirmRead(h) ==
  /\ work[h] = Idle /\ mfa.secret # 0 /\ ~mfa.enabled
  /\ \E s \in Window : work' = [work EXCEPT ![h] =
       [Idle EXCEPT !.pc = "confirm", !.flow = "enroll", !.secret = mfa.secret, !.step = s]]
  /\ UNCHANGED <<person, transactions, factor, now, uses, opened, missed>>

\* By user.  New recovery codes replace the old ones.
ConfirmWrite(h) ==
  /\ At(h, "confirm") /\ mfa.secret # 0
  /\ mfa' = [mfa EXCEPT !.enabled = TRUE, !.last = work[h].step]
  /\ recovery' = [of |-> work[h].secret, used |-> FALSE]
  /\ uses' = [uses EXCEPT ![<<work[h].secret, work[h].step>>] = More(@)]
  /\ confirmed' = work[h].secret
  /\ Changes(h)
  /\ Finish(h)
  /\ UNCHANGED <<person, transactions, secrets, now, opened, missed>>

DisableRead(h) ==
  /\ InUse # 0
  /\ Begin(h, "verify", "disable", "none")
  /\ UNCHANGED <<person, transactions, factor, now, uses, opened, missed>>

Disable(h) ==
  /\ At(h, "remove") /\ mfa.secret # 0
  /\ mfa' = NoCredential /\ recovery' = NoCode
  /\ confirmed' = 0
  /\ Changes(h)
  /\ Finish(h)
  /\ UNCHANGED <<person, transactions, secrets, now, uses, opened, missed>>
-----------------------------------------------------------------------------
Next ==
  \/ Tick \/ Register \/ VerifyEmail \/ OthersBegin
  \/ \E t \in Transactions : OAuthBegin(t) \/ Lapse(t)
  \/ \E h \in Handlers :
       \/ Die(h) \/ Login(h) \/ MfaStatus(h) \/ Issue(h)
       \/ \E t \in Transactions : CallbackRead(h, t) \/ TicketRead(h, t)
       \/ Consume(h) \/ FindIdentity(h) \/ MatchUser(h) \/ Link(h)
       \/ MfaTicket(h) \/ OnboardingTicket(h) \/ OnboardingRead(h) \/ CreateAccount(h)
       \/ TicketConsume(h) \/ VerifyRead(h) \/ Accept(h) \/ AcceptRecovery(h)
       \/ EnrollRead(h) \/ EnrollWrite(h) \/ ConfirmRead(h) \/ ConfirmWrite(h)
       \/ DisableRead(h) \/ Disable(h)

Spec == Init /\ [][Next]_vars
-----------------------------------------------------------------------------
(* Properties *)

\* A code lets in once, however many requests carry it, in tabs or by repetition.  Only
\* one whose request was under way while the enrollment changed may do so twice.
CodeOnce == ~raced => \A c \in Codes : uses[c] <= 1

\* A sign-in with the provider gives one session at most, whether the browser repeats
\* the callback or the code is sent from two tabs.
OneSession == \A t \in Transactions : opened[t] <= 1

\* Who has a second factor in use all through a sign-in is never let in without it, on
\* whichever of the paths.
FactorAsked == ~missed

\* The factor whose code the person has confirmed stays in use until it is disabled,
\* unless two requests changed the enrollment at the same time.
ConfirmedStands == ~raced /\ confirmed # 0 => InUse = confirmed
=============================================================================
