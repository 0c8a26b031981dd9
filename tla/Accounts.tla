------------------------------ MODULE Accounts ------------------------------
(* Who a member is and how a session goes on: sign-up by e-mail or by Kakao,   *)
(* sign-in, the rotation of refresh tokens, nicknames, and the devices that   *)
(* pushes go to.  Each handler reads, and writes on the strength of what it    *)
(* read; unique keys refuse what two of them would write twice.  A refresh     *)
(* token belongs to the family of its first one, which is named by that token. *)
EXTENDS Integers, FiniteSets

CONSTANTS Users,     \* uuids of users
          Seeded,      \* users seed.ts creates
          Inactive,    \* seeded users whose status is not ACTIVE; no handler changes a status
          Emails, Nicknames,
          KakaoIds,    \* who Kakao says has signed in
          KakaoEmail,  \* the e-mail Kakao gives for each of them, or None
          KakaoName,   \* and the nickname
          Tokens,      \* refresh tokens, drawn at random and never again
          States,      \* oauth_states.state, the same
          Devices,     \* device tokens of FCM
          Requests,    \* how many requests the API serves at a time
          None         \* null

ASSUME AccountsAssumption ==
  /\ Inactive \subseteq Seeded /\ Seeded \subseteq Users
  /\ KakaoEmail \in [KakaoIds -> Emails \cup {None}]
  /\ KakaoName \in [KakaoIds -> Nicknames]
  /\ None \notin Users \cup Emails \cup Nicknames \cup KakaoIds \cup Tokens \cup States \cup Devices

VARIABLES account,  \* users with their profiles
          token,    \* refresh_tokens
          state,    \* oauth_states: "NEW", "OPEN", "EXPIRED", or "GONE" once deleted
          device,   \* device_tokens
          muted,    \* members who have switched pushes off (notification_preferences)
          reused,   \* of each family, whether a reuse was answered: "NO", "WHOLE" or, while
                    \* a rotation was under way, "RACED"; kept for the properties
          request   \* the requests in flight

sessions == <<token, state, reused>>
pushes == <<device, muted>>
vars == <<account, sessions, pushes, request>>

NoAccount == [email |-> None, nickname |-> None, kakao |-> None, password |-> FALSE]
NoToken == [user |-> None, family |-> None, status |-> "NONE"]
NoDevice == [user |-> None, live |-> FALSE]
Idle == [pc |-> "idle"]

Exists(u) == account[u] # NoAccount
Active(u) == Exists(u) /\ u \notin Inactive
Takes(field, value) == {u \in Users : Exists(u) /\ account[u][field] = value}
Free(field, value) == value = None \/ Takes(field, value) = {}

Init ==
  /\ account \in [Users -> {NoAccount} \cup
                   [email : {None}, nickname : Nicknames, kakao : {None}, password : {FALSE}]]
  /\ \A u \in Users : Exists(u) <=> u \in Seeded
  /\ \A u, v \in Seeded : account[u].nickname = account[v].nickname => u = v
  /\ token = [t \in Tokens |-> NoToken]
  /\ state = [s \in States |-> "NEW"]
  /\ device = [d \in Devices |-> NoDevice]
  /\ muted = {}
  /\ reused = [t \in Tokens |-> "NO"]
  /\ request = [r \in Requests |-> Idle]

Start(r, what) == request[r] = Idle /\ request' = [request EXCEPT ![r] = what]
Continue(r, what) == request' = [request EXCEPT ![r] = what]
Finish(r) == Continue(r, Idle)

\* A request ends where it is when the process does, or when a statement fails.
Fail(r) ==
  /\ request[r] # Idle
  /\ Finish(r)
  /\ UNCHANGED <<account, sessions, pushes>>

-----------------------------------------------------------------------------
(* Sign-up and sign-in *)

Issue(u, family) == [pc |-> "issue", u |-> u, family |-> family]

\* login: without a password, for developers.
Login(r, u) ==
  /\ Active(u)
  /\ Start(r, Issue(u, None))
  /\ UNCHANGED <<account, sessions, pushes>>

LoginWithEmail(r, u) ==
  /\ Active(u) /\ account[u].password
  /\ Start(r, Issue(u, None))
  /\ UNCHANGED <<account, sessions, pushes>>

LookSignup(r, email, nickname) ==
  /\ Free("email", email) /\ Free("nickname", nickname)
  /\ Start(r, [pc |-> "signup", email |-> email, nickname |-> nickname])
  /\ UNCHANGED <<account, sessions, pushes>>

\* The user and the profile, in one transaction, under the unique keys.
Register(r, u, a) ==
  /\ ~Exists(u)
  /\ Free("email", a.email) /\ Free("nickname", a.nickname) /\ Free("kakao", a.kakao)
  /\ account' = [account EXCEPT ![u] = a]
  /\ Continue(r, Issue(u, None))
  /\ UNCHANGED <<sessions, pushes>>

SignupWithEmail(r, u) ==
  LET q == request[r] IN
  /\ q.pc = "signup"
  /\ Register(r, u, [email |-> q.email, nickname |-> q.nickname, kakao |-> None, password |-> TRUE])

KakaoAuthorizeUrl(s) ==
  /\ state[s] = "NEW"
  /\ state' = [state EXCEPT ![s] = "OPEN"]
  /\ UNCHANGED <<account, token, reused, pushes, request>>

ExpireState(s) ==
  /\ state[s] = "OPEN"
  /\ state' = [state EXCEPT ![s] = "EXPIRED"]
  /\ UNCHANGED <<account, token, reused, pushes, request>>

LookState(r, s) ==
  /\ state[s] = "OPEN"
  /\ Start(r, [pc |-> "consume", s |-> s])
  /\ UNCHANGED <<account, sessions, pushes>>

\* "One-shot consumption": to delete a row that is gone is an error.
Consume(r) ==
  LET q == request[r] IN
  /\ q.pc = "consume" /\ state[q.s] # "GONE"
  /\ state' = [state EXCEPT ![q.s] = "GONE"]
  /\ Continue(r, [pc |-> "exchange", s |-> q.s])
  /\ UNCHANGED <<account, token, reused, pushes>>

\* Kakao says who it is: an account of theirs is signed in, active or not.
Exchange(r, k) ==
  /\ request[r].pc = "exchange"
  /\ \/ \E u \in Takes("kakao", k) : Continue(r, Issue(u, None))
     \/ Free("kakao", k) /\ Continue(r, [pc |-> "nickname", k |-> k])
  /\ UNCHANGED <<account, sessions, pushes>>

\* ensureUniqueNickname: Kakao's, or one with a random ending if that is taken; that
\* it is free is looked at ten times, and the eleventh is taken as it comes.
EnsureUniqueNickname(r, n) ==
  LET q == request[r] IN
  /\ q.pc = "nickname"
  /\ n = KakaoName[q.k] <=> Free("nickname", KakaoName[q.k])
  /\ Continue(r, [pc |-> "kakao", k |-> q.k, nickname |-> n])
  /\ UNCHANGED <<account, sessions, pushes>>

LoginWithKakao(r, u) ==
  LET q == request[r] IN
  /\ q.pc = "kakao"
  /\ Register(r, u, [email |-> KakaoEmail[q.k], nickname |-> q.nickname, kakao |-> q.k, password |-> FALSE])

-----------------------------------------------------------------------------
(* Refresh tokens *)

IssueTokenPair(r, t) ==
  LET q == request[r] IN
  /\ q.pc = "issue" /\ token[t] = NoToken
  /\ token' = [token EXCEPT ![t] =
       [user |-> q.u, family |-> IF q.family = None THEN t ELSE q.family, status |-> "LIVE"]]
  /\ Finish(r)
  /\ UNCHANGED <<account, state, reused, pushes>>

Expire(t) ==
  /\ token[t].status = "LIVE"
  /\ token' = [token EXCEPT ![t].status = "EXPIRED"]
  /\ UNCHANGED <<account, state, reused, pushes, request>>

\* rotateRefreshToken: an expired token is refused, a revoked one costs the family.
LookToken(r, t) ==
  /\ \/ token[t].status = "LIVE" /\ Start(r, [pc |-> "rotate", t |-> t])
     \/ token[t].status = "REVOKED" /\ Start(r, [pc |-> "reuse", t |-> t])
  /\ UNCHANGED <<account, sessions, pushes>>

Revoke(Out) == token' = [t \in Tokens |->
  IF token[t].status # "NONE" /\ t \in Out THEN [token[t] EXCEPT !.status = "REVOKED"] ELSE token[t]]

\* A rotation within the family is between its check and its last statement.
UnderWay(f) ==
  \E r \in Requests : \/ request[r].pc = "rotate" /\ token[request[r].t].family = f
                      \/ request[r].pc = "issue" /\ request[r].family = f

Answer(f) == reused' = [reused EXCEPT ![f] = IF UnderWay(f) THEN "RACED" ELSE "WHOLE"]

\* Faulty variant of RevokeFamily: only the token that was used again is revoked.
RevokeReused(r) ==
  LET q == request[r] IN
  /\ q.pc = "reuse"
  /\ Revoke({q.t}) /\ Answer(token[q.t].family)
  /\ Finish(r)
  /\ UNCHANGED <<account, state, pushes>>

RevokeFamily(r) ==
  LET q == request[r] family == token[q.t].family IN
  /\ q.pc = "reuse"
  /\ Revoke({t \in Tokens : token[t].family = family}) /\ Answer(family)
  /\ Finish(r)
  /\ UNCHANGED <<account, state, pushes>>

\* The row is revoked by its id, whatever has become of it, and its successor follows.
Rotate(r) ==
  LET q == request[r] row == token[q.t] IN
  /\ q.pc = "rotate"
  /\ Revoke({q.t})
  /\ IF Active(row.user) THEN Continue(r, Issue(row.user, row.family)) ELSE Finish(r)
  /\ UNCHANGED <<account, state, reused, pushes>>

RevokeRefreshToken(t) ==
  /\ token[t].status \in {"LIVE", "EXPIRED"}
  /\ Revoke({t})
  /\ UNCHANGED <<account, state, reused, pushes, request>>

RevokeAllForUser(u) ==
  /\ Active(u)
  /\ Revoke({t \in Tokens : token[t].user = u})
  /\ UNCHANGED <<account, state, reused, pushes, request>>

-----------------------------------------------------------------------------
(* Nicknames, devices and pushes *)

LookNickname(r, u, n) ==
  /\ Active(u) /\ Takes("nickname", n) \subseteq {u}
  /\ Start(r, [pc |-> "rename", u |-> u, nickname |-> n])
  /\ UNCHANGED <<account, sessions, pushes>>

\* Faulty variant of UpdateMyProfile: no unique key on profiles.nickname.
UpdateAnyProfile(r) ==
  LET q == request[r] IN
  /\ q.pc = "rename"
  /\ account' = [account EXCEPT ![q.u].nickname = q.nickname]
  /\ Finish(r)
  /\ UNCHANGED <<sessions, pushes>>

UpdateMyProfile(r) ==
  LET q == request[r] IN
  /\ q.pc = "rename" /\ Takes("nickname", q.nickname) \subseteq {q.u}
  /\ account' = [account EXCEPT ![q.u].nickname = q.nickname]
  /\ Finish(r)
  /\ UNCHANGED <<sessions, pushes>>

LookDevice(r, u, d) ==
  /\ Active(u)
  /\ Start(r, [pc |-> "device", u |-> u, d |-> d, owner |-> device[d].user])
  /\ UNCHANGED <<account, sessions, pushes>>

\* The owner is only written when the row that was read belonged to another.
RegisterDevice(r) ==
  LET q == request[r] IN
  /\ q.pc = "device"
  /\ q.owner = None => device[q.d] = NoDevice
  /\ device' = [device EXCEPT ![q.d] = [user |-> IF q.owner = q.u THEN @.user ELSE q.u, live |-> TRUE]]
  /\ Finish(r)
  /\ UNCHANGED <<account, sessions, muted>>

RevokeDevice(u, d) ==
  /\ Active(u) /\ device[d] = [user |-> u, live |-> TRUE]
  /\ device' = [device EXCEPT ![d].live = FALSE]
  /\ UNCHANGED <<account, sessions, muted, request>>

SetPush(u) ==
  /\ Active(u)
  /\ muted' = IF u \in muted THEN muted \ {u} ELSE muted \cup {u}
  /\ UNCHANGED <<account, sessions, device, request>>

\* deliver: the preference, then the devices, then FCM's answer.
PushAllowedFor(r, u) ==
  /\ Exists(u) /\ u \notin muted
  /\ Start(r, [pc |-> "push", u |-> u])
  /\ UNCHANGED <<account, sessions, pushes>>

ActiveTokensForUser(r) ==
  LET q == request[r]
      found == {d \in Devices : device[d] = [user |-> q.u, live |-> TRUE]} IN
  /\ q.pc = "push"
  /\ IF found = {} THEN Finish(r) ELSE Continue(r, [pc |-> "sent", to |-> found])
  /\ UNCHANGED <<account, sessions, pushes>>

\* The row of a rejected token is revoked by its id, whoever has it by now.
Reject(r, d) ==
  LET q == request[r] IN
  /\ q.pc = "sent" /\ d \in q.to
  /\ device' = [device EXCEPT ![d].live = FALSE]
  /\ IF q.to = {d} THEN Finish(r) ELSE Continue(r, [q EXCEPT !.to = @ \ {d}])
  /\ UNCHANGED <<account, sessions, muted>>

-----------------------------------------------------------------------------
SigningIn(r) ==
  \/ \E u \in Users : Login(r, u) \/ LoginWithEmail(r, u) \/ SignupWithEmail(r, u) \/ LoginWithKakao(r, u)
  \/ \E e \in Emails, n \in Nicknames : LookSignup(r, e, n)
  \/ \E s \in States : LookState(r, s)
  \/ Consume(r)
  \/ \E k \in KakaoIds : Exchange(r, k)
  \/ \E n \in Nicknames : EnsureUniqueNickname(r, n)
  \/ \E u \in Users, n \in Nicknames : LookNickname(r, u, n)
  \/ UpdateMyProfile(r)

Session(r) == RevokeFamily(r) \/ Rotate(r) \/ \E t \in Tokens : IssueTokenPair(r, t) \/ LookToken(r, t)

Push(r) ==
  \/ RegisterDevice(r) \/ ActiveTokensForUser(r)
  \/ \E u \in Users : PushAllowedFor(r, u)
  \/ \E u \in Users, d \in Devices : LookDevice(r, u, d)
  \/ \E d \in Devices : Reject(r, d)

Next ==
  \/ \E r \in Requests : SigningIn(r) \/ Session(r) \/ Push(r) \/ Fail(r)
  \/ \E s \in States : KakaoAuthorizeUrl(s) \/ ExpireState(s)
  \/ \E t \in Tokens : Expire(t) \/ RevokeRefreshToken(t)
  \/ \E u \in Users : RevokeAllForUser(u) \/ SetPush(u) \/ \E d \in Devices : RevokeDevice(u, d)

Spec == Init /\ [][Next]_vars

-----------------------------------------------------------------------------
(* Properties *)

Account == [email : Emails \cup {None}, nickname : Nicknames, kakao : KakaoIds \cup {None}, password : BOOLEAN]

Steps ==
  {Idle} \cup [pc : {"issue"}, u : Users, family : Tokens \cup {None}]
  \cup [pc : {"signup"}, email : Emails, nickname : Nicknames]
  \cup [pc : {"consume", "exchange"}, s : States]
  \cup [pc : {"nickname"}, k : KakaoIds] \cup [pc : {"kakao"}, k : KakaoIds, nickname : Nicknames]
  \cup [pc : {"rotate", "reuse"}, t : Tokens]
  \cup [pc : {"rename"}, u : Users, nickname : Nicknames]
  \cup [pc : {"device"}, u : Users, d : Devices, owner : Users \cup {None}]
  \cup [pc : {"push"}, u : Users] \cup [pc : {"sent"}, to : SUBSET Devices]

Types ==
  /\ account \in [Users -> Account \cup {NoAccount}]
  /\ token \in [Tokens -> [user : Users, family : Tokens, status : {"LIVE", "EXPIRED", "REVOKED"}] \cup {NoToken}]
  /\ state \in [States -> {"NEW", "OPEN", "EXPIRED", "GONE"}]
  /\ device \in [Devices -> [user : Users, live : BOOLEAN] \cup {NoDevice}]
  /\ muted \subseteq Users
  /\ reused \in [Tokens -> {"NO", "WHOLE", "RACED"}]
  /\ request \in [Requests -> Steps]

\* Every field has its type; and however sign-ups, callbacks and renamings
\* overlap, two accounts share no e-mail, nickname or Kakao identity, the
\* tokens of a family are of one member, and a state is held by one callback.
OneAccountEach ==
  /\ Types
  /\ \A f \in {"email", "nickname", "kakao"}, u, v \in Users :
       account[u][f] # None /\ account[u][f] = account[v][f] => u = v
  /\ \A t \in Tokens : token[t] # NoToken =>
       token[t].user = token[token[t].family].user /\ Exists(token[t].user)
  /\ \A q, r \in Requests :
       request[q].pc = "exchange" /\ request[q] = request[r] => q = r

\* Some token of the family can still be rotated, or a rotation is on its way.
Live(f) == {t \in Tokens : token[t].family = f /\ token[t].status = "LIVE"}
GoesOn(f) == Live(f) # {} \/ UnderWay(f)

\* A session that has ended (by logout, expiry or the reuse of an old token) with no
\* rotation under way never goes on; and a reuse that no rotation is racing with
\* does end it, for whatever token of the family it was.
EndedStaysEnded ==
  [][\A f \in Tokens : /\ token[f] # NoToken /\ ~GoesOn(f) => ~GoesOn(f)'
                       /\ reused'[f] = "WHOLE" => ~GoesOn(f)']_vars

\* "On reuse (the row was already revoked) the entire family is killed": no token of
\* a family is good once a reuse was answered, whatever was under way.
FamilyKilled == \A f \in Tokens : reused[f] # "NO" => Live(f) = {}
=============================================================================
