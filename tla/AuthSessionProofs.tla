-------------------------- MODULE AuthSessionProofs --------------------------
(***************************************************************************)
(* Proofs about AuthSession for any users, sessions, tokens, handlers and  *)
(* number of passwords.  Only a login and a refresh write sessions; the    *)
(* lemma Kept says what every other step leaves of them.                   *)
(***************************************************************************)
EXTENDS AuthSession, TLAPS

\* A handler knows sessions and tokens that exist, and so does a session its
\* family's first.
Known ==
  /\ \A h \in Handlers : work[h].pc \in SessionSteps => Exists(work[h].session)
  /\ \A h \in Handlers : work[h].pc \in TokenSteps => token[work[h].token] # NoToken
  /\ \A s \in Sessions : Exists(s) => Exists(session[s].family)

\* The inductive invariant.
IInv == TypeOK /\ Known /\ OneLivePerFamily /\ PasswordEndsFamilies /\ OneOutstanding

\* No session is written, and none is valid again.
SameSession(s) ==
  /\ session'[s].family = session[s].family
  /\ session'[s].user = session[s].user
  /\ session'[s].opened = session[s].opened
Shrinks ==
  \A s \in Sessions : /\ Exists(s)' <=> Exists(s)
                      /\ Live(s)' => Live(s)
                      /\ Exists(s) => SameSession(s)
-----------------------------------------------------------------------------
(* Rows *)

\* The rows that are there have their type, and the marks for those that are not
\* are none of them.
LEMMA Rows ==
  ASSUME TypeOK
  PROVE  /\ \A s \in Sessions : Exists(s) => session[s] \in Session
         /\ \A t \in Tokens : token[t] # NoToken => token[t] \in Token
         /\ NoSession \notin Session
         /\ NoToken \notin Token
  <1>1. NoSession \notin Session
    BY DEF NoSession, Session
  <1>2. NoToken \notin Token
    BY DEF NoToken, Token
  <1>. QED  BY <1>1, <1>2 DEF TypeOK, Exists

\* Revoking sessions keeps everything else about them.
LEMMA RevokeShrinks ==
  ASSUME TypeOK, NEW S \in SUBSET Sessions, \A s \in S : Exists(s), Revoke(S)
  PROVE  /\ session' \in [Sessions -> Session \cup {NoSession}]
         /\ Shrinks
         /\ \A s \in S : ~Live(s)'
  <1>1. ASSUME NEW s \in S
        PROVE  /\ session[s] \in Session
               /\ session'[s] \in Session
               /\ session'[s].revoked
               /\ SameSession(s)
    <2>1. session[s] \in Session
      BY Rows
    <2>2. session'[s] = [session[s] EXCEPT !.revoked = TRUE]
      BY DEF Revoke
    <2>. QED  BY <2>1, <2>2 DEF Session, SameSession
  <1>2. \A s \in Sessions \ S : session'[s] = session[s]
    BY DEF Revoke
  <1>3. session' \in [Sessions -> Session \cup {NoSession}]
    <2>1. \A s \in Sessions : session'[s] \in Session \cup {NoSession}
      BY <1>1, <1>2 DEF TypeOK
    <2>2. session' = [s \in Sessions |-> session'[s]]
      BY DEF Revoke
    <2>. QED  BY <2>1, <2>2
  <1>4. Shrinks
    <2>1. ASSUME NEW s \in S
          PROVE  Exists(s)' /\ Exists(s) /\ ~Live(s)' /\ SameSession(s)
      BY <1>1, Rows DEF Exists, Live
    <2>2. ASSUME NEW s \in Sessions \ S
          PROVE  (Exists(s)' <=> Exists(s)) /\ (Live(s)' <=> Live(s)) /\ SameSession(s)
      BY <1>2 DEF Exists, Live, SameSession
    <2>. QED  BY <2>1, <2>2 DEF Shrinks
  <1>5. \A s \in S : ~Live(s)'
    BY <1>1 DEF Live
  <1>. QED  BY <1>3, <1>4, <1>5

\* A step without sessions leaves them what they were.
LEMMA SameShrinks ==
  ASSUME UNCHANGED session
  PROVE  Shrinks /\ \A s \in Sessions : Live(s)' <=> Live(s)
  BY DEF Shrinks, Exists, Live, SameSession

\* What every step that writes no session leaves true about them.
LEMMA Kept ==
  ASSUME IInv, Shrinks
  PROVE  /\ OneLivePerFamily'
         /\ \A s \in Sessions : Exists(s)' => Exists(session[s].family)'
         /\ \A f \in Sessions : FamilyDead(f) => FamilyDead(f)'
  <1>1. ASSUME NEW s \in Sessions, NEW r \in Sessions, Live(s)', Live(r)',
               session'[s].family = session'[r].family
        PROVE  s = r
    <2>1. Live(s) /\ Live(r) /\ session[s].family = session[r].family
      BY <1>1 DEF Shrinks, SameSession, Live
    <2>. QED  BY <2>1 DEF IInv, OneLivePerFamily
  <1>2. ASSUME NEW s \in Sessions, Exists(s)'
        PROVE  Exists(session[s].family)'
    <2>1. Exists(s) /\ session'[s].family = session[s].family
      BY <1>2 DEF Shrinks, SameSession
    <2>2. session[s].family \in Sessions
      BY <2>1, Rows DEF IInv, Session
    <2>3. Exists(session[s].family)
      BY <2>1 DEF IInv, Known
    <2>4. PICK f \in Sessions : f = session[s].family
      BY <2>2
    <2>5. Exists(f)'
      BY <2>3, <2>4 DEF Shrinks
    <2>. QED  BY <2>1, <2>4, <2>5 DEF Exists
  <1>3. ASSUME NEW f \in Sessions, FamilyDead(f)  PROVE FamilyDead(f)'
    <2>1. ASSUME NEW s \in Sessions, Exists(s)', session'[s].family = f
          PROVE  session'[s].revoked
      <3>1. Exists(s) /\ session[s].family = f
        BY <2>1 DEF Shrinks, SameSession
      <3>2. ~Live(s)
        BY <1>3, <3>1 DEF FamilyDead, OfFamily, Live
      <3>. QED  BY <2>1, <3>2 DEF Shrinks, Live
    <2>. QED  BY <1>3, <2>1 DEF FamilyDead, OfFamily, Shrinks
  <1>. QED  BY <1>1, <1>2, <1>3 DEF OneLivePerFamily

\* A new password leaves nothing valid of what was opened under the old one.
LEMMA PasswordsKept ==
  ASSUME IInv, Shrinks,
         \A u \in Users : \/ account'[u].password = account[u].password
                          \/ \A s \in OfUser(u) : ~Live(s)'
  PROVE  PasswordEndsFamilies'
  <1>. SUFFICES ASSUME NEW s \in Sessions, Live(s)'
                PROVE  session'[s].opened = account'[session'[s].user].password
    BY DEF PasswordEndsFamilies
  <1>1. Exists(s) /\ Live(s) /\ SameSession(s)
    BY DEF Shrinks, Live
  <1>2. PICK u \in Users : u = session[s].user
    BY <1>1, Rows DEF IInv, Session
  <1>3. account'[u].password = account[u].password
    BY <1>1, <1>2 DEF OfUser
  <1>4. session[s].opened = account[u].password
    BY <1>1, <1>2 DEF IInv, PasswordEndsFamilies
  <1>. QED  BY <1>1, <1>2, <1>3, <1>4 DEF SameSession
-----------------------------------------------------------------------------
(* Handlers *)

\* After the step, what handlers know was there before it.
HandsOn ==
  /\ work' \in [Handlers -> Work \cup {Idle}]
  /\ \A g \in Handlers : work'[g].pc \in SessionSteps =>
       work'[g].session \in Sessions /\ Exists(work'[g].session)
  /\ \A g \in Handlers : work'[g].pc \in TokenSteps =>
       work'[g].token \in Tokens /\ token[work'[g].token] # NoToken

Grows ==
  /\ \A s \in Sessions : Exists(s) => Exists(s)'
  /\ \A t \in Tokens : token[t] # NoToken => token'[t] # NoToken

\* No row disappears, so handlers go on knowing them.
LEMMA HandsKnown ==
  ASSUME HandsOn, Grows
  PROVE  /\ \A h \in Handlers : work'[h].pc \in SessionSteps => Exists(work[h].session)'
         /\ \A h \in Handlers : work'[h].pc \in TokenSteps => token'[work'[h].token] # NoToken
  <1>1. ASSUME NEW h \in Handlers, work'[h].pc \in SessionSteps
        PROVE  Exists(work[h].session)'
    <2>1. PICK s \in Sessions : s = work'[h].session /\ Exists(s)
      BY <1>1 DEF HandsOn
    <2>. QED  BY <2>1 DEF Grows, Exists
  <1>2. ASSUME NEW h \in Handlers, work'[h].pc \in TokenSteps
        PROVE  token'[work'[h].token] # NoToken
    BY <1>2 DEF HandsOn, Grows
  <1>. QED  BY <1>1, <1>2

\* What a handler is made of, by the step it has reached.
LEMMA WorkType ==
  ASSUME TypeOK, NEW h \in Handlers
  PROVE  /\ work[h].pc \in UserSteps =>
              work[h] \in [pc : UserSteps, user : Users] /\ work[h].user \in Users
         /\ work[h].pc \in SessionSteps =>
              work[h] \in [pc : SessionSteps, session : Sessions] /\ work[h].session \in Sessions
         /\ work[h].pc \in TokenSteps =>
              work[h] \in [pc : TokenSteps, token : Tokens] /\ work[h].token \in Tokens
  <1>1. work[h] \in Work \cup {Idle}
    BY DEF TypeOK
  <1>. QED  BY <1>1 DEF Work, Idle, UserSteps, SessionSteps, TokenSteps

\* The handlers that do not move.
LEMMA HandsStay ==
  ASSUME TypeOK, Known, NEW g \in Handlers, work'[g] = work[g]
  PROVE  /\ work'[g] \in Work \cup {Idle}
         /\ work'[g].pc \in SessionSteps =>
              work'[g].session \in Sessions /\ Exists(work'[g].session)
         /\ work'[g].pc \in TokenSteps =>
              work'[g].token \in Tokens /\ token[work'[g].token] # NoToken
  <1>1. work[g] \in Work \cup {Idle}
    BY DEF TypeOK
  <1>. QED  BY <1>1, WorkType DEF Known

\* A handler that begins or goes on.
LEMMA HandMoves ==
  ASSUME TypeOK, Known, NEW h \in Handlers, NEW job \in Work \cup {Idle},
         work' = [work EXCEPT ![h] = job],
         job.pc \in SessionSteps => job.session \in Sessions /\ Exists(job.session),
         job.pc \in TokenSteps => job.token \in Tokens /\ token[job.token] # NoToken
  PROVE  HandsOn
  <1>1. work \in [Handlers -> Work \cup {Idle}]
    BY DEF TypeOK
  <1>2. work'[h] = job /\ work' \in [Handlers -> Work \cup {Idle}]
    BY <1>1
  <1>3. ASSUME NEW g \in Handlers, g # h
        PROVE  work'[g] = work[g]
    BY <1>1, <1>3
  <1>. QED  BY <1>2, <1>3, HandsStay DEF HandsOn

\* A handler that ends knows nothing any more, and leaves the others what they know.
LEMMA HandFinishes ==
  ASSUME TypeOK, Known, NEW h \in Handlers, Finish(h)
  PROVE  HandsOn
  <1>1. Idle.pc \notin SessionSteps \cup TokenSteps
    BY DEF Idle, SessionSteps, TokenSteps
  <1>. QED  BY <1>1, HandMoves DEF Finish

\* A handler that begins about a user knows the user, ...
LEMMA HandBeginsUser ==
  ASSUME TypeOK, Known, NEW h \in Handlers, NEW u \in Users, NEW pc \in UserSteps,
         Begin(h, [pc |-> pc, user |-> u])
  PROVE  HandsOn
  <1>. DEFINE job == [pc |-> pc, user |-> u]
  <1>1. job \in Work \cup {Idle} /\ job.pc \notin SessionSteps \cup TokenSteps
    BY DEF Work, UserSteps, SessionSteps, TokenSteps
  <1>2. work' = [work EXCEPT ![h] = job]
    BY DEF Begin
  <1>. HIDE DEF job
  <1>. QED  BY <1>1, <1>2, HandMoves

\* ... one that begins about a session has found the row, ...
LEMMA HandBeginsSession ==
  ASSUME TypeOK, Known, NEW h \in Handlers, NEW s \in Sessions, Exists(s),
         NEW pc \in SessionSteps, Begin(h, [pc |-> pc, session |-> s])
  PROVE  HandsOn
  <1>. DEFINE job == [pc |-> pc, session |-> s]
  <1>1. job \in Work \cup {Idle} /\ job.pc \notin TokenSteps /\ job.session = s
    BY DEF Work, SessionSteps, TokenSteps
  <1>2. work' = [work EXCEPT ![h] = job]
    BY DEF Begin
  <1>. HIDE DEF job
  <1>. QED  BY <1>1, <1>2, HandMoves

\* ... and one that begins about a one-time token has found that.
LEMMA HandBeginsToken ==
  ASSUME TypeOK, Known, NEW h \in Handlers, NEW t \in Tokens, token[t] # NoToken,
         NEW pc \in TokenSteps, Begin(h, [pc |-> pc, token |-> t])
  PROVE  HandsOn
  <1>. DEFINE job == [pc |-> pc, token |-> t]
  <1>1. job \in Work \cup {Idle} /\ job.pc \notin SessionSteps /\ job.token = t
    BY DEF Work, SessionSteps, TokenSteps
  <1>2. work' = [work EXCEPT ![h] = job]
    BY DEF Begin
  <1>. HIDE DEF job
  <1>. QED  BY <1>1, <1>2, HandMoves

\* A handler that goes on about the same user or session knows what it knew.
LEMMA HandGoesOn ==
  ASSUME TypeOK, Known, NEW h \in Handlers, NEW pc,
         \/ work[h].pc \in UserSteps /\ pc \in UserSteps
         \/ work[h].pc \in SessionSteps /\ pc \in SessionSteps,
         Goto(h, pc)
  PROVE  HandsOn
  <1>. DEFINE job == [work[h] EXCEPT !.pc = pc]
  <1>1. work' = [work EXCEPT ![h] = job]
    BY DEF Goto
  <1>2. CASE work[h].pc \in UserSteps /\ pc \in UserSteps
    <2>1. job \in Work /\ job.pc = pc
      BY <1>2, WorkType DEF Work
    <2>2. pc \notin SessionSteps \cup TokenSteps
      BY <1>2 DEF UserSteps, SessionSteps, TokenSteps
    <2>. HIDE DEF job
    <2>. QED  BY <1>1, <2>1, <2>2, HandMoves
  <1>3. CASE work[h].pc \in SessionSteps /\ pc \in SessionSteps
    <2>1. /\ job \in Work /\ job.pc = pc
          /\ job.session = work[h].session /\ job.session \in Sessions
      BY <1>3, WorkType DEF Work
    <2>2. pc \notin TokenSteps
      BY <1>3 DEF SessionSteps, TokenSteps
    <2>3. Exists(work[h].session)
      BY <1>3 DEF Known
    <2>. HIDE DEF job
    <2>. QED  BY <1>1, <2>1, <2>2, <2>3, HandMoves
  <1>. QED  BY <1>2, <1>3
-----------------------------------------------------------------------------
(* Steps *)

DeadStaysDead == \A f \in Sessions : FamilyDead(f) => FamilyDead(f)'

\* A step that writes no session, and only ends those whose user gets another
\* password, is harmless.
LEMMA Harmless ==
  ASSUME IInv, HandsOn, Shrinks,
         account' \in [Users -> Account],
         session' \in [Sessions -> Session \cup {NoSession}],
         token' \in [Tokens -> Token \cup {NoToken}],
         \A u \in Users : \/ account'[u].password = account[u].password
                          \/ \A s \in OfUser(u) : ~Live(s)',
         \A t \in Tokens : token[t] # NoToken => token'[t] # NoToken,
         OneOutstanding'
  PROVE  IInv' /\ DeadStaysDead
  <1>1. Grows
    BY DEF Shrinks, Grows
  <1>2. TypeOK'
    BY DEF TypeOK, HandsOn
  <1>3. Known'
    BY <1>1, HandsKnown, Kept DEF Known
  <1>. QED  BY <1>2, <1>3, Kept, PasswordsKept DEF IInv, DeadStaysDead

\* A handler moves and nothing else happens.
LEMMA OnlyHands ==
  ASSUME IInv, HandsOn, UNCHANGED <<account, session, token>>
  PROVE  IInv' /\ DeadStaysDead
  <1>1. Shrinks
    BY SameShrinks
  <1>2. OneOutstanding'
    BY DEF IInv, OneOutstanding, Outstanding
  <1>. QED  BY <1>1, <1>2, Harmless DEF IInv, TypeOK

\* Sessions are revoked, and nothing else happens.
LEMMA OnlyRevokes ==
  ASSUME IInv, HandsOn, NEW S \in SUBSET Sessions, \A s \in S : Exists(s), Revoke(S),
         UNCHANGED <<account, token>>
  PROVE  IInv' /\ DeadStaysDead
  <1>1. Shrinks /\ session' \in [Sessions -> Session \cup {NoSession}]
    BY RevokeShrinks DEF IInv
  <1>2. OneOutstanding'
    BY DEF IInv, OneOutstanding, Outstanding
  <1>. QED  BY <1>1, <1>2, Harmless DEF IInv, TypeOK

\* An account is changed, but not its password.
LEMMA AccountStep ==
  ASSUME TypeOK, NEW u \in Users, NEW new \in Account,
         new.password = account[u].password, account' = [account EXCEPT ![u] = new]
  PROVE  /\ account' \in [Users -> Account]
         /\ \A v \in Users : account'[v].password = account[v].password
  <1>1. account \in [Users -> Account]
    BY DEF TypeOK
  <1>. QED  BY <1>1

\* A new password, with all sessions of the user revoked.
LEMMA SetPasswordStep ==
  ASSUME IInv, HandsOn, NEW u \in Users, SetPassword(u), Revoke(OfUser(u)),
         token' \in [Tokens -> Token \cup {NoToken}],
         \A t \in Tokens : token[t] # NoToken => token'[t] # NoToken,
         OneOutstanding'
  PROVE  IInv' /\ DeadStaysDead
  <1>1. /\ Shrinks /\ session' \in [Sessions -> Session \cup {NoSession}]
        /\ \A s \in OfUser(u) : ~Live(s)'
    <2>1. OfUser(u) \in SUBSET Sessions /\ \A s \in OfUser(u) : Exists(s)
      BY DEF OfUser
    <2>. QED  BY <2>1, RevokeShrinks DEF IInv
  <1>2. account \in [Users -> Account]
    BY DEF IInv, TypeOK
  <1>3. account' \in [Users -> Account]
    BY <1>2 DEF SetPassword, Account
  <1>4. \A v \in Users \ {u} : account'[v] = account[v]
    BY <1>2 DEF SetPassword
  <1>. QED  BY <1>1, <1>3, <1>4, Harmless

\* A one-time token is written, and those it replaces are used up.
LEMMA WriteTokenStep ==
  ASSUME IInv, NEW u \in Users, NEW type \in {"RESET", "VERIFICATION"}, NEW t \in Tokens,
         WriteToken(u, type, t)
  PROVE  /\ token' \in [Tokens -> Token \cup {NoToken}]
         /\ \A o \in Tokens : token[o] # NoToken => token'[o] # NoToken
         /\ OneOutstanding'
  <1>. DEFINE new == [type |-> type, user |-> u, used |-> FALSE]
  <1>1. new \in Token /\ new # NoToken
    <2>1. new \in Token
      BY DEF Token
    <2>. HIDE DEF new
    <2>. QED  BY <2>1, Rows DEF IInv
  <1>2. token'[t] = new
    BY DEF WriteToken
  <1>3. ASSUME NEW o \in Tokens, o # t, Outstanding(o, u, type)
        PROVE  token'[o] \in Token /\ token'[o].used
    <2>1. token[o] \in Token
      BY <1>3, Rows DEF IInv, Outstanding
    <2>2. token'[o] = [token[o] EXCEPT !.used = TRUE]
      BY <1>3 DEF WriteToken
    <2>. QED  BY <2>1, <2>2 DEF Token
  <1>4. ASSUME NEW o \in Tokens, o # t, ~Outstanding(o, u, type)
        PROVE  token'[o] = token[o]
    BY <1>4 DEF WriteToken
  <1>5. \A o \in Tokens : token'[o] \in Token \cup {NoToken}
    BY <1>1, <1>2, <1>3, <1>4 DEF IInv, TypeOK
  <1>6. token' \in [Tokens -> Token \cup {NoToken}]
    <2>1. token' = [o \in Tokens |-> token'[o]]
      BY DEF WriteToken
    <2>. QED  BY <2>1, <1>5
  <1>7. \A o \in Tokens : token[o] # NoToken => token'[o] # NoToken
    BY <1>1, <1>2, <1>3, <1>4, Rows DEF IInv
  <1>8. OneOutstanding'
    <2>. SUFFICES ASSUME NEW p \in Tokens, NEW q \in Tokens, NEW v \in Users,
                         NEW kind \in {"RESET", "VERIFICATION"},
                         Outstanding(p, v, kind)', Outstanding(q, v, kind)'
                  PROVE  p = q
      BY DEF OneOutstanding
    <2>1. CASE v = u /\ kind = type
      <3>1. \A o \in Tokens : o # t => ~Outstanding(o, v, kind)'
        BY <2>1, <1>3, <1>4 DEF Outstanding
      <3>. QED  BY <3>1
    <2>2. CASE ~(v = u /\ kind = type)
      <3>1. ASSUME NEW o \in Tokens, Outstanding(o, v, kind)'
            PROVE  Outstanding(o, v, kind)
        <4>1. o # t
          BY <3>1, <2>2, <1>2 DEF Outstanding
        <4>2. ~Outstanding(o, u, type)
          BY <3>1, <4>1, <1>3 DEF Outstanding
        <4>. QED  BY <3>1, <4>1, <4>2, <1>4 DEF Outstanding
      <3>. QED  BY <3>1 DEF IInv, OneOutstanding
    <2>. QED  BY <2>1, <2>2
  <1>. HIDE DEF new
  <1>. QED  BY <1>6, <1>7, <1>8

\* A one-time token is used up.
LEMMA UseTokenStep ==
  ASSUME IInv, NEW t \in Tokens, token[t] # NoToken,
         token' = [token EXCEPT ![t].used = TRUE]
  PROVE  /\ token' \in [Tokens -> Token \cup {NoToken}]
         /\ \A o \in Tokens : token[o] # NoToken => token'[o] # NoToken
         /\ OneOutstanding'
  <1>1. token[t] \in Token /\ token \in [Tokens -> Token \cup {NoToken}]
    BY Rows DEF IInv, TypeOK
  <1>2. token'[t] = [token[t] EXCEPT !.used = TRUE]
    BY <1>1
  <1>3. token'[t] \in Token /\ token'[t].used
    BY <1>1, <1>2 DEF Token
  <1>4. \A o \in Tokens \ {t} : token'[o] = token[o]
    BY <1>1
  <1>5. token' \in [Tokens -> Token \cup {NoToken}]
    BY <1>1, <1>3
  <1>6. OneOutstanding'
    BY <1>3, <1>4 DEF IInv, OneOutstanding, Outstanding
  <1>. QED  BY <1>3, <1>4, <1>5, <1>6, Rows DEF IInv
-----------------------------------------------------------------------------
(* Actions that write a session *)

\* A new family: nothing of it was there before.
LEMMA IssueStep ==
  ASSUME IInv, NEW h \in Handlers, IssueSession(h)
  PROVE  IInv' /\ DeadStaysDead
  <1>1. HandsOn
    BY HandFinishes DEF IInv, IssueSession
  <1>2. PICK u \in Users : u = work[h].user
    BY WorkType DEF IInv, IssueSession, At, UserSteps
  <1>. DEFINE row(s) == [family |-> s, user |-> u, revoked |-> FALSE,
                         opened |-> account[u].password]
  <1>3. PICK s \in Sessions : ~Exists(s) /\ session' = [session EXCEPT ![s] = row(s)]
    BY <1>2 DEF IssueSession
  <1>4. row(s) \in Session /\ row(s) # NoSession
    <2>1. account[u].password \in Nat
      BY DEF IInv, TypeOK, Account
    <2>2. row(s) \in Session
      BY <2>1 DEF Session
    <2>. HIDE DEF row
    <2>. QED  BY <2>2, Rows DEF IInv
  <1>5. session \in [Sessions -> Session \cup {NoSession}]
    BY DEF IInv, TypeOK
  <1>6. /\ session'[s].family = s /\ session'[s].user = u
        /\ session'[s].opened = account[u].password
    BY <1>3, <1>5
  <1>. HIDE DEF row
  <1>7. session'[s] = row(s) /\ session' \in [Sessions -> Session \cup {NoSession}]
    BY <1>3, <1>4, <1>5
  <1>8. \A r \in Sessions \ {s} : session'[r] = session[r]
    BY <1>3, <1>5
  <1>9. Exists(s)' /\ \A r \in Sessions : Exists(r) => r # s /\ Exists(r)'
    BY <1>3, <1>4, <1>7, <1>8 DEF Exists
  <1>10. \A r \in Sessions : Exists(r) => session[r].family # s
    BY <1>3, <1>9 DEF IInv, Known
  <1>11. \A r \in Sessions \ {s} : /\ Exists(r)' <=> Exists(r)
                                   /\ Live(r)' <=> Live(r)
    BY <1>8 DEF Exists, Live
  <1>12. TypeOK'
    BY <1>1, <1>7 DEF HandsOn, IInv, TypeOK, IssueSession
  <1>13. Known'
    <2>1. Grows
      BY <1>9 DEF Grows, IssueSession
    <2>2. ASSUME NEW r \in Sessions, Exists(r)'
          PROVE  Exists(session[r].family)'
      <3>1. CASE r = s
        BY <3>1, <1>6, <1>9 DEF Exists
      <3>2. CASE r # s
        <4>1. Exists(r) /\ session'[r] = session[r]
          BY <3>2, <2>2, <1>8, <1>11
        <4>2. PICK f \in Sessions : f = session[r].family /\ Exists(f)
          BY <4>1, Rows DEF IInv, Known, Session
        <4>. QED  BY <4>1, <4>2, <1>9 DEF Exists
      <3>. QED  BY <3>1, <3>2
    <2>. QED  BY <1>1, <2>1, <2>2, HandsKnown DEF Known
  <1>14. OneLivePerFamily'
    <2>. SUFFICES ASSUME NEW p \in Sessions, NEW q \in Sessions, Live(p)', Live(q)',
                         session'[p].family = session'[q].family
                  PROVE  p = q
      BY DEF OneLivePerFamily
    <2>1. CASE p # s /\ q # s
      BY <2>1, <1>8, <1>11 DEF IInv, OneLivePerFamily
    <2>2. ASSUME NEW r \in Sessions, r # s, Live(r)'
          PROVE  session'[r].family # s
      BY <2>2, <1>8, <1>10, <1>11 DEF Live
    <2>. QED  BY <2>1, <2>2, <1>6
  <1>15. PasswordEndsFamilies'
    <2>1. ASSUME NEW r \in Sessions, Live(r)'
          PROVE  session'[r].opened = account'[session'[r].user].password
      <3>1. CASE r = s
        BY <3>1, <1>6 DEF IssueSession
      <3>2. CASE r # s
        BY <3>2, <2>1, <1>8, <1>11 DEF IInv, PasswordEndsFamilies, IssueSession
      <3>. QED  BY <3>1, <3>2
    <2>. QED  BY <2>1 DEF PasswordEndsFamilies
  <1>16. OneOutstanding'
    BY DEF IInv, OneOutstanding, Outstanding, IssueSession
  <1>17. DeadStaysDead
    <2>1. ASSUME NEW f \in Sessions, FamilyDead(f), NEW r \in OfFamily(f)'
          PROVE  session'[r].revoked
      <3>1. f # s
        BY <2>1, <1>3 DEF FamilyDead
      <3>2. r # s
        BY <3>1, <1>6 DEF OfFamily
      <3>3. Exists(r) /\ session'[r] = session[r] /\ session[r].family = f
        BY <3>2, <1>8, <1>11 DEF OfFamily
      <3>. QED  BY <2>1, <3>3 DEF FamilyDead, OfFamily
    <2>2. \A f \in Sessions : FamilyDead(f) => Exists(f)'
      BY <1>9 DEF FamilyDead
    <2>. QED  BY <2>1, <2>2 DEF DeadStaysDead, FamilyDead
  <1>. QED  BY <1>12, <1>13, <1>14, <1>15, <1>16, <1>17 DEF IInv

\* The next of a family takes the place of the only valid one.
LEMMA RotateStep ==
  ASSUME IInv, NEW h \in Handlers, Rotate(h)
  PROVE  IInv' /\ DeadStaysDead
  <1>1. HandsOn
    BY HandFinishes DEF IInv, Rotate
  <1>2. PICK c \in Sessions : c = work[h].session /\ Exists(c)
    BY WorkType DEF IInv, Rotate, At, SessionSteps, Known
  <1>3. PICK n \in Sessions : Replace(c, n)
    BY <1>2 DEF Rotate
  <1>4. n # c /\ ~Exists(n)
    BY <1>2, <1>3 DEF Replace
  <1>5. Live(c) /\ session[c] \in Session
    BY <1>2, Rows DEF IInv, Rotate, Live
  <1>6. session \in [Sessions -> Session \cup {NoSession}]
    BY DEF IInv, TypeOK
  <1>7. /\ session'[n] = [session[c] EXCEPT !.revoked = FALSE]
        /\ session'[c] = [session[c] EXCEPT !.revoked = TRUE]
        /\ \A r \in Sessions \ {c, n} : session'[r] = session[r]
    BY <1>3, <1>4, <1>6 DEF Replace
  <1>8. /\ session'[n] \in Session /\ session'[c] \in Session
        /\ session'[n].family = session[c].family
        /\ session'[n].user = session[c].user
        /\ session'[n].opened = session[c].opened
        /\ SameSession(c) /\ session'[c].revoked
    BY <1>5, <1>7 DEF Session, SameSession
  <1>9. session' \in [Sessions -> Session \cup {NoSession}]
    BY <1>3, <1>6, <1>8 DEF Replace
  <1>10. /\ Exists(n)' /\ Exists(c)' /\ ~Live(c)'
         /\ \A r \in Sessions \ {c, n} : (Exists(r)' <=> Exists(r)) /\ (Live(r)' <=> Live(r))
    BY <1>7, <1>8, Rows DEF IInv, Exists, Live
  <1>11. \A r \in Sessions : Exists(r) => Exists(r)' /\ SameSession(r)
    BY <1>4, <1>7, <1>8, <1>10 DEF SameSession
  <1>12. TypeOK'
    BY <1>1, <1>9 DEF HandsOn, IInv, TypeOK, Rotate
  <1>13. Known'
    <2>1. Grows
      BY <1>11 DEF Grows, Rotate
    <2>2. ASSUME NEW r \in Sessions, Exists(r)'
          PROVE  Exists(session[r].family)'
      <3>1. PICK o \in Sessions : Exists(o) /\ session'[r].family = session[o].family
        BY <1>2, <1>8, <1>10, <1>11, <2>2 DEF SameSession
      <3>2. PICK f \in Sessions : f = session[o].family /\ Exists(f)
        BY <3>1, Rows DEF IInv, Known, Session
      <3>. QED  BY <3>1, <3>2, <1>11 DEF Exists
    <2>. QED  BY <1>1, <2>1, <2>2, HandsKnown DEF Known
  <1>14. \A r \in Sessions : Live(r)' => r = n \/ (Live(r) /\ r # c /\ session'[r] = session[r])
    BY <1>7, <1>10
  <1>15. \A r \in Sessions : Live(r) /\ r # c => session[r].family # session[c].family
    BY <1>5 DEF IInv, OneLivePerFamily
  <1>16. OneLivePerFamily'
    <2>. SUFFICES ASSUME NEW p \in Sessions, NEW q \in Sessions, Live(p)', Live(q)',
                         session'[p].family = session'[q].family
                  PROVE  p = q
      BY DEF OneLivePerFamily
    <2>1. CASE p # n /\ q # n
      BY <2>1, <1>14 DEF IInv, OneLivePerFamily
    <2>2. \A r \in Sessions : Live(r)' /\ r # n => session'[r].family # session'[n].family
      BY <1>8, <1>14, <1>15
    <2>. QED  BY <2>1, <2>2
  <1>17. PasswordEndsFamilies'
    <2>1. ASSUME NEW r \in Sessions, Live(r)'
          PROVE  session'[r].opened = account'[session'[r].user].password
      <3>1. PICK o \in Sessions : /\ Live(o)
                                  /\ session'[r].user = session[o].user
                                  /\ session'[r].opened = session[o].opened
        BY <1>5, <1>8, <1>14, <2>1
      <3>. QED  BY <3>1 DEF IInv, PasswordEndsFamilies, Rotate
    <2>. QED  BY <2>1 DEF PasswordEndsFamilies
  <1>18. OneOutstanding'
    BY DEF IInv, OneOutstanding, Outstanding, Rotate
  <1>19. DeadStaysDead
    <2>1. ASSUME NEW f \in Sessions, FamilyDead(f), NEW r \in OfFamily(f)'
          PROVE  session'[r].revoked
      <3>1. session[c].family # f
        BY <2>1, <1>5 DEF FamilyDead, OfFamily, Live
      <3>2. r # n /\ r # c
        BY <3>1, <1>8 DEF OfFamily, SameSession
      <3>3. Exists(r) /\ session'[r] = session[r] /\ session[r].family = f
        BY <3>2, <1>7, <1>10 DEF OfFamily
      <3>. QED  BY <2>1, <3>3 DEF FamilyDead, OfFamily
    <2>2. \A f \in Sessions : FamilyDead(f) => Exists(f)'
      BY <1>11 DEF FamilyDead
    <2>. QED  BY <2>1, <2>2 DEF DeadStaysDead, FamilyDead
  <1>. QED  BY <1>12, <1>13, <1>16, <1>17, <1>18, <1>19 DEF IInv
-----------------------------------------------------------------------------
(* Actions that write no session *)

\* A handler begins, is refused, or goes on, and changes no row.
LEMMA MoveStep ==
  ASSUME IInv, NEW h \in Handlers,
         \/ Die(h) \/ LoginChecked(h) \/ RefreshMember(h)
         \/ \E u \in Users : RegisterBegin(h, u) \/ LoginRead(h, u)
         \/ \E s \in Sessions : RefreshRead(h, s) \/ LogoutAllBegin(h, s) \/ ChangeBegin(h, s)
         \/ \E s, other \in Sessions : LogoutBegin(h, s, other)
         \/ \E t \in Tokens : ResetRead(h, t) \/ VerifyRead(h, t)
  PROVE  IInv' /\ DeadStaysDead
  <1>. USE DEF IInv
  <1>1. CASE Die(h)
    BY <1>1, HandFinishes, OnlyHands DEF Die
  <1>2. CASE LoginChecked(h)
    BY <1>2, HandGoesOn, OnlyHands DEF LoginChecked, At, UserSteps
  <1>3. CASE RefreshMember(h)
    BY <1>3, HandGoesOn, OnlyHands DEF RefreshMember, At, SessionSteps
  <1>4. ASSUME NEW u \in Users, RegisterBegin(h, u) \/ LoginRead(h, u)
        PROVE  IInv' /\ DeadStaysDead
    BY <1>4, HandBeginsUser, OnlyHands DEF RegisterBegin, LoginRead, UserSteps
  <1>5. ASSUME NEW s \in Sessions, RefreshRead(h, s)
        PROVE  IInv' /\ DeadStaysDead
    <2>1. PICK pc \in SessionSteps : Begin(h, [pc |-> pc, session |-> s])
      BY <1>5 DEF RefreshRead, SessionSteps
    <2>. QED  BY <1>5, <2>1, HandBeginsSession, OnlyHands DEF RefreshRead
  <1>6. ASSUME NEW s \in Sessions, LogoutAllBegin(h, s) \/ ChangeBegin(h, s)
        PROVE  IInv' /\ DeadStaysDead
    <2>1. PICK u \in Users : u = session[s].user
      BY <1>6, Rows DEF LogoutAllBegin, ChangeBegin, Authenticated, Live, Session
    <2>2. PICK pc \in UserSteps : Begin(h, [pc |-> pc, user |-> u])
      BY <1>6, <2>1 DEF LogoutAllBegin, ChangeBegin, UserSteps
    <2>. QED  BY <1>6, <2>2, HandBeginsUser, OnlyHands DEF LogoutAllBegin, ChangeBegin
  <1>7. ASSUME NEW s \in Sessions, NEW other \in Sessions, LogoutBegin(h, s, other)
        PROVE  IInv' /\ DeadStaysDead
    BY <1>7, HandBeginsSession, OnlyHands DEF LogoutBegin, OfUser, SessionSteps
  <1>8. ASSUME NEW t \in Tokens, ResetRead(h, t) \/ VerifyRead(h, t)
        PROVE  IInv' /\ DeadStaysDead
    BY <1>8, HandBeginsToken, OnlyHands DEF ResetRead, VerifyRead, TokenSteps
  <1>. QED  BY <1>1, <1>2, <1>3, <1>4, <1>5, <1>6, <1>7, <1>8

\* Sessions are revoked: of a family, of a user, or one.
LEMMA RevokeStep ==
  ASSUME IInv, NEW h \in Handlers,
         \/ Reused(h) \/ RefreshExpired(h) \/ Logout(h) \/ LogoutAll(h) \/ RemoveSessions(h)
  PROVE  IInv' /\ DeadStaysDead
  <1>1. HandsOn /\ UNCHANGED <<account, token>>
    BY HandFinishes DEF IInv, Reused, RefreshExpired, Logout, LogoutAll, RemoveSessions
  <1>2. ASSUME work[h].pc \in SessionSteps
        PROVE  work[h].session \in Sessions /\ Exists(work[h].session)
    BY <1>2, WorkType DEF IInv, Known
  <1>3. PICK S \in SUBSET Sessions : (\A s \in S : Exists(s)) /\ Revoke(S)
    BY <1>2 DEF Reused, RefreshExpired, Logout, LogoutAll, RemoveSessions, OfFamily, OfUser,
                At, SessionSteps
  <1>. QED  BY <1>1, <1>3, OnlyRevokes

\* An account is registered, or its membership or its e-mail changes.
LEMMA AccountChange ==
  ASSUME IInv, HandsOn, UNCHANGED session, NEW u \in Users, NEW new \in Account,
         new.password = account[u].password, account' = [account EXCEPT ![u] = new],
         token' \in [Tokens -> Token \cup {NoToken}],
         \A t \in Tokens : token[t] # NoToken => token'[t] # NoToken,
         OneOutstanding'
  PROVE  IInv' /\ DeadStaysDead
  BY AccountStep, SameShrinks, Harmless DEF IInv, TypeOK

\* A registration writes the user and the membership; no password and no session changes.
LEMMA RegisterCommitStep ==
  ASSUME IInv, NEW h \in Handlers, RegisterCommit(h)
  PROVE  IInv' /\ DeadStaysDead
  <1>1. PICK u \in Users : u = work[h].user
    BY WorkType DEF IInv, RegisterCommit, At, UserSteps
  <1>. DEFINE new == [account[u] EXCEPT !.registered = TRUE, !.member = TRUE]
  <1>2. account[u] \in Account
    BY DEF IInv, TypeOK
  <1>3. new \in Account /\ new.password = account[u].password
    BY <1>2 DEF Account
  <1>4. account' = [account EXCEPT ![u] = new]
    BY <1>1 DEF RegisterCommit, IInv, TypeOK
  <1>5. HandsOn
    BY HandGoesOn DEF IInv, RegisterCommit, At, UserSteps
  <1>6. /\ token' \in [Tokens -> Token \cup {NoToken}]
        /\ \A t \in Tokens : token[t] # NoToken => token'[t] # NoToken
        /\ OneOutstanding' /\ UNCHANGED session
    BY DEF RegisterCommit, IInv, TypeOK, OneOutstanding, Outstanding
  <1>. HIDE DEF new
  <1>. QED  BY <1>3, <1>4, <1>5, <1>6, AccountChange

\* A membership that is suspended, given back or removed leaves passwords and sessions as
\* they are; a removal revokes sessions in a step of its own.
LEMMA MembershipStep ==
  ASSUME IInv, NEW u \in Users,
         ChangeMembership(u) \/ \E h \in Handlers : RemoveMember(h, u)
  PROVE  IInv' /\ DeadStaysDead
  <1>1. account[u] \in Account /\ account \in [Users -> Account]
    BY DEF IInv, TypeOK
  <1>2. account[u].member \in BOOLEAN
    BY <1>1 DEF Account
  <1>3. /\ token' \in [Tokens -> Token \cup {NoToken}]
        /\ \A t \in Tokens : token[t] # NoToken => token'[t] # NoToken
        /\ OneOutstanding' /\ UNCHANGED session
    BY DEF ChangeMembership, RemoveMember, IInv, TypeOK, OneOutstanding, Outstanding
  <1>4. HandsOn
    <2>1. CASE ChangeMembership(u)
      BY <2>1, HandsStay DEF ChangeMembership, HandsOn, IInv, TypeOK
    <2>2. CASE \E h \in Handlers : RemoveMember(h, u)
      BY <2>2, HandBeginsUser DEF RemoveMember, IInv, UserSteps
    <2>. QED  BY <2>1, <2>2
  <1>5. PICK m \in BOOLEAN : account' = [account EXCEPT ![u].member = m]
    <2>1. CASE ChangeMembership(u)
      <3>1. (~account[u].member) \in BOOLEAN
        OBVIOUS
      <3>. QED  BY <2>1, <3>1 DEF ChangeMembership
    <2>2. CASE \E h \in Handlers : RemoveMember(h, u)
      BY <2>2 DEF RemoveMember
    <2>. QED  BY <2>1, <2>2
  <1>. DEFINE new == [account[u] EXCEPT !.member = m]
  <1>6. new \in Account /\ new.password = account[u].password
    BY <1>1 DEF Account
  <1>7. account' = [account EXCEPT ![u] = new]
    BY <1>1, <1>5
  <1>. HIDE DEF new
  <1>. QED  BY <1>3, <1>4, <1>6, <1>7, AccountChange

\* A verified address uses up its token and changes nothing that a session depends on.
LEMMA VerifyEmailStep ==
  ASSUME IInv, NEW h \in Handlers, VerifyEmail(h)
  PROVE  IInv' /\ DeadStaysDead
  <1>1. PICK t \in Tokens : t = work[h].token /\ token[t] # NoToken
    BY WorkType DEF IInv, Known, VerifyEmail, At, TokenSteps
  <1>2. PICK u \in Users : u = token[t].user
    BY <1>1, Rows DEF IInv, Token
  <1>. DEFINE new == [account[u] EXCEPT !.verified = TRUE]
  <1>3. account[u] \in Account
    BY DEF IInv, TypeOK
  <1>4. new \in Account /\ new.password = account[u].password
    BY <1>3 DEF Account
  <1>5. account' = [account EXCEPT ![u] = new]
    BY <1>1, <1>2 DEF VerifyEmail, IInv, TypeOK
  <1>6. HandsOn
    BY HandFinishes DEF IInv, VerifyEmail
  <1>7. token' = [token EXCEPT ![t].used = TRUE] /\ UNCHANGED session
    BY <1>1 DEF VerifyEmail
  <1>. HIDE DEF new
  <1>. QED  BY <1>1, <1>4, <1>5, <1>6, <1>7, UseTokenStep, AccountChange

\* A password that is reset by token ends every session of the user in the same transaction, ...
LEMMA ResetPasswordStep ==
  ASSUME IInv, NEW h \in Handlers, ResetPassword(h)
  PROVE  IInv' /\ DeadStaysDead
  <1>1. PICK t \in Tokens : t = work[h].token /\ token[t] # NoToken
    BY WorkType DEF IInv, Known, ResetPassword, At, TokenSteps
  <1>2. PICK u \in Users : u = token[t].user
    BY <1>1, Rows DEF IInv, Token
  <1>3. SetPassword(u) /\ Revoke(OfUser(u)) /\ token' = [token EXCEPT ![t].used = TRUE]
    BY <1>1, <1>2 DEF ResetPassword
  <1>4. HandsOn
    BY HandFinishes DEF IInv, ResetPassword
  <1>. QED  BY <1>1, <1>3, <1>4, UseTokenStep, SetPasswordStep

\* ... and so does one that the user changes.
LEMMA ChangePasswordStep ==
  ASSUME IInv, NEW h \in Handlers, ChangePassword(h)
  PROVE  IInv' /\ DeadStaysDead
  <1>1. PICK u \in Users : u = work[h].user
    BY WorkType DEF IInv, ChangePassword, At, UserSteps
  <1>2. SetPassword(u) /\ Revoke(OfUser(u)) /\ HandsOn
    BY <1>1, HandFinishes DEF IInv, ChangePassword
  <1>3. /\ token' \in [Tokens -> Token \cup {NoToken}]
        /\ \A t \in Tokens : token[t] # NoToken => token'[t] # NoToken
        /\ OneOutstanding'
    BY DEF ChangePassword, IInv, TypeOK, OneOutstanding, Outstanding
  <1>. QED  BY <1>2, <1>3, SetPasswordStep

\* A one-time token that is issued replaces those of its user and kind.
LEMMA TokenStep ==
  ASSUME IInv,
         \/ \E h \in Handlers : RegisterToken(h)
         \/ \E u \in Users : ForgotPassword(u)
  PROVE  IInv' /\ DeadStaysDead
  <1>1. UNCHANGED <<account, session>> /\ HandsOn
    <2>1. ASSUME NEW h \in Handlers, RegisterToken(h)
          PROVE  UNCHANGED <<account, session>> /\ HandsOn
      BY <2>1, HandGoesOn DEF RegisterToken, IInv, At, UserSteps
    <2>2. ASSUME NEW u \in Users, ForgotPassword(u)
          PROVE  UNCHANGED <<account, session>> /\ HandsOn
      BY <2>2, HandsStay DEF ForgotPassword, HandsOn, IInv, TypeOK
    <2>. QED  BY <2>1, <2>2
  <1>2. \E u \in Users, type \in {"RESET", "VERIFICATION"}, t \in Tokens : WriteToken(u, type, t)
    BY WorkType DEF RegisterToken, ForgotPassword, IInv, At, UserSteps
  <1>3. PICK u \in Users, type \in {"RESET", "VERIFICATION"}, t \in Tokens :
          WriteToken(u, type, t)
    BY <1>2
  <1>. QED  BY <1>1, <1>3, WriteTokenStep, SameShrinks, Harmless DEF IInv, TypeOK
-----------------------------------------------------------------------------
(* The theorems *)

\* Before anything has happened there are no sessions and no tokens, so all of it holds.
LEMMA InitIInv == Init => IInv
  BY DEF Init, IInv, TypeOK, Known, OneLivePerFamily, PasswordEndsFamilies, OneOutstanding,
         Outstanding, Live, Exists, Account, Idle, SessionSteps, TokenSteps

\* Every step keeps the invariant and continues no family that is dead.
LEMMA IInvStep == IInv /\ [Next]_vars => IInv' /\ DeadStaysDead
  <1>. SUFFICES ASSUME IInv, [Next]_vars  PROVE IInv' /\ DeadStaysDead
    OBVIOUS
  <1>1. CASE UNCHANGED vars
    <2>1. HandsOn
      BY <1>1, HandsStay DEF vars, HandsOn, IInv, TypeOK
    <2>. QED  BY <1>1, <2>1, OnlyHands DEF vars
  <1>2. CASE Next
    BY <1>2, MoveStep, RevokeStep, RegisterCommitStep, TokenStep, IssueStep, RotateStep,
       ChangePasswordStep, ResetPasswordStep, VerifyEmailStep, MembershipStep DEF Next
  <1>. QED  BY <1>1, <1>2

\* The rows and the handlers always have their types, for any number of them.
THEOREM TypeCorrect == Spec => []TypeOK
  <1>1. IInv => TypeOK
    BY DEF IInv
  <1>. QED  BY InitIInv, IInvStep, <1>1, PTL DEF Spec

\* However requests overlap, a family has at most one session that is valid.
THEOREM OneValidSession == Spec => []OneLivePerFamily
  <1>1. IInv => OneLivePerFamily
    BY DEF IInv
  <1>. QED  BY InitIInv, IInvStep, <1>1, PTL DEF Spec

\* No session opened under an earlier password is valid.
THEOREM PasswordsEnd == Spec => []PasswordEndsFamilies
  <1>1. IInv => PasswordEndsFamilies
    BY DEF IInv
  <1>. QED  BY InitIInv, IInvStep, <1>1, PTL DEF Spec

\* Of the one-time tokens of a user and a kind, at most the last can be used.
THEOREM LastTokenOnly == Spec => []OneOutstanding
  <1>1. IInv => OneOutstanding
    BY DEF IInv
  <1>. QED  BY InitIInv, IInvStep, <1>1, PTL DEF Spec

\* A family that has ended is never continued.
THEOREM DeadStays == Spec => DeadFamilyStaysDead
  <1>1. IInv /\ [Next]_vars => [DeadStaysDead]_vars
    BY IInvStep
  <1>2. DeadStaysDead => \A f \in Sessions : FamilyDead(f) => FamilyDead(f)'
    BY DEF DeadStaysDead
  <1>3. IInv /\ [Next]_vars => [\A f \in Sessions : FamilyDead(f) => FamilyDead(f)']_vars
    BY <1>1, <1>2
  <1>. QED  BY InitIInv, IInvStep, <1>3, PTL DEF Spec, DeadFamilyStaysDead
=============================================================================
