--------------------------- MODULE Accounts_proofs ---------------------------
(* Accounts for any users, tokens, states, devices and requests: that no two   *)
(* accounts share what is theirs, that the tokens of a family are of one       *)
(* member, that a session which has ended stays ended, and that the reuse of   *)
(* an old token ends it unless a rotation is under way.                        *)
EXTENDS Accounts, TLAPS

\* What a request holds is there: the account it signs in or renames, the token
\* it works on, the family it goes on with, the device of another owner; its
\* state is used up.
Sound(q) ==
  /\ q.pc = "issue" => /\ Exists(q.u)
                       /\ q.family # None => /\ token[q.family] # NoToken
                                             /\ token[q.family].family = q.family
                                             /\ token[q.family].user = q.u
  /\ q.pc = "rename" => Exists(q.u)
  /\ q.pc \in {"rotate", "reuse"} => token[q.t] # NoToken
  /\ q.pc = "exchange" => state[q.s] = "GONE"
  /\ q.pc = "device" /\ q.owner # None => device[q.d] # NoDevice

RequestsOK == \A r \in Requests : Sound(request[r])

\* A family is named by a token of its own.
FamiliesOK ==
  \A t \in Tokens : token[t] # NoToken =>
    token[token[t].family] # NoToken /\ token[token[t].family].family = token[t].family

IInv == OneAccountEach /\ RequestsOK /\ FamiliesOK

-----------------------------------------------------------------------------
(* The parts of OneAccountEach *)

Unique ==
  \A f \in {"email", "nickname", "kakao"}, u, v \in Users :
    account[u][f] # None /\ account[u][f] = account[v][f] => u = v

OneMember ==
  \A t \in Tokens : token[t] # NoToken =>
    token[t].user = token[token[t].family].user /\ Exists(token[t].user)

OneCallback ==
  \A q, r \in Requests : request[q].pc = "exchange" /\ request[q] = request[r] => q = r

LEMMA Parts == OneAccountEach <=> Types /\ Unique /\ OneMember /\ OneCallback
BY DEF OneAccountEach, Unique, OneMember, OneCallback

TokenType == [user : Users, family : Tokens, status : {"LIVE", "EXPIRED", "REVOKED"}]

\* A token, an account and a request, field by field.
LEMMA TokenFields ==
  ASSUME NEW row \in TokenType \cup {NoToken}
  PROVE  /\ row # NoToken <=> row.status # "NONE"
         /\ row # NoToken => row \in TokenType /\ row.user \in Users /\ row.family \in Tokens
         /\ row = NoToken => row.user = None /\ row.family = None
BY AccountsAssumption DEF TokenType, NoToken

LEMMA AccountFields ==
  ASSUME NEW a \in Account \cup {NoAccount}
  PROVE  /\ a # NoAccount => a \in Account /\ a.nickname \in Nicknames
         /\ a.nickname # None <=> a # NoAccount
         /\ \A f \in {"email", "kakao"} : a[f] # None => a # NoAccount
BY AccountsAssumption DEF Account, NoAccount

LEMMA StepFields ==
  ASSUME NEW q \in Steps
  PROVE  /\ q.pc = "issue" => q.u \in Users /\ q.family \in Tokens \cup {None}
         /\ q.pc = "signup" => q.email \in Emails /\ q.nickname \in Nicknames
         /\ q.pc \in {"consume", "exchange"} => q.s \in States
         /\ q.pc = "nickname" => q.k \in KakaoIds
         /\ q.pc = "kakao" => q.k \in KakaoIds /\ q.nickname \in Nicknames
         /\ q.pc \in {"rotate", "reuse"} => q.t \in Tokens
         /\ q.pc = "rename" => q.u \in Users /\ q.nickname \in Nicknames
         /\ q.pc = "device" => q.u \in Users /\ q.d \in Devices /\ q.owner \in Users \cup {None}
         /\ q.pc = "push" => q.u \in Users
         /\ q.pc = "sent" => q \in [pc : {"sent"}, to : SUBSET Devices]
BY DEF Steps, Idle

LEMMA InitInv == Init => IInv
<1> SUFFICES ASSUME Init PROVE IInv
  OBVIOUS
<1>1. /\ token = [t \in Tokens |-> NoToken] /\ request = [r \in Requests |-> Idle]
      /\ account \in [Users -> Account \cup {NoAccount}]
      /\ \A u \in Users : account[u] = NoAccount \/ (account[u].email = None /\ account[u].kakao = None)
  <2> DEFINE First == [email : {None}, nickname : Nicknames, kakao : {None}, password : {FALSE}]
  <2>1. \A a \in First : a \in Account /\ a.email = None /\ a.kakao = None
    BY DEF Account
  <2>2. account \in [Users -> {NoAccount} \cup First]
    BY DEF Init
  <2> HIDE DEF First
  <2>3. account \in [Users -> Account \cup {NoAccount}]
    BY <2>1, <2>2
  <2>4. \A u \in Users : account[u] = NoAccount \/ (account[u].email = None /\ account[u].kakao = None)
    <3>1. \A u \in Users : account[u] \in {NoAccount} \cup First
      BY <2>2
    <3> QED
      BY <2>1, <3>1
  <2>5. token = [t \in Tokens |-> NoToken] /\ request = [r \in Requests |-> Idle]
    BY DEF Init
  <2> QED
    BY <2>3, <2>4, <2>5
<1>2. Types
  BY <1>1 DEF Init, Types, NoDevice, Steps
<1>3. Unique
  <2> SUFFICES ASSUME NEW f \in {"email", "nickname", "kakao"}, NEW u \in Users, NEW v \in Users,
                      account[u][f] # None, account[u][f] = account[v][f]
               PROVE  u = v
    BY DEF Unique
  <2>1. f = "nickname"
    BY <1>1 DEF NoAccount
  <2>2. u \in Seeded /\ v \in Seeded
    BY <1>1, <2>1, AccountFields DEF Init, Exists
  <2> QED
    BY <2>1, <2>2 DEF Init
<1>4. OneMember /\ OneCallback /\ RequestsOK /\ FamiliesOK
  BY <1>1 DEF OneMember, OneCallback, RequestsOK, FamiliesOK, Sound, Idle, NoToken
<1> QED
  BY <1>2, <1>3, <1>4, Parts DEF IInv

-----------------------------------------------------------------------------
(* What every step keeps *)

\* Accounts and devices stay, tokens keep their member and family, states used
\* up stay so.
Grows ==
  /\ \A u \in Users : Exists(u) => Exists(u)'
  /\ \A t \in Tokens : token[t] # NoToken =>
       /\ token'[t] # NoToken
       /\ token'[t].user = token[t].user /\ token'[t].family = token[t].family
  /\ \A s \in States : state[s] = "GONE" => state'[s] = "GONE"
  /\ \A d \in Devices : device[d] # NoDevice => device'[d] # NoDevice

\* So what a request holds stays there.
LEMMA SoundStays ==
  ASSUME Grows, NEW q \in Steps, Sound(q)
  PROVE  Sound(q)'
<1>1. CASE q.pc = "issue"
  BY <1>1, StepFields DEF Grows, Sound
<1>2. CASE q.pc = "rename"
  BY <1>2, StepFields DEF Grows, Sound
<1>3. CASE q.pc \in {"rotate", "reuse"}
  BY <1>3, StepFields DEF Grows, Sound
<1>4. CASE q.pc = "exchange"
  BY <1>4, StepFields DEF Grows, Sound
<1>5. CASE q.pc = "device"
  BY <1>5, StepFields DEF Grows, Sound
<1> QED
  BY <1>1, <1>2, <1>3, <1>4, <1>5 DEF Sound

Alone(r, q) == \A p \in Requests \ {r} : q.pc = "exchange" => request[p] # q

\* A request moves to a step that is sound.
LEMMA RequestMoves ==
  ASSUME IInv, Grows, NEW r \in Requests, NEW q \in Steps, Sound(q)', Alone(r, q),
         request' = [request EXCEPT ![r] = q]
  PROVE  request' \in [Requests -> Steps] /\ RequestsOK' /\ OneCallback'
<1>1. request \in [Requests -> Steps] /\ OneCallback /\ RequestsOK
  BY Parts DEF IInv, Types
<1>2. \A p \in Requests : request'[p] = IF p = r THEN q ELSE request[p]
  BY <1>1
<1>3. \A p \in Requests : Sound(request[p])'
  BY <1>1, <1>2, SoundStays DEF RequestsOK, Sound
<1> QED
  BY <1>1, <1>2, <1>3 DEF RequestsOK, OneCallback, Alone

\* No request moves.
LEMMA RequestsRest ==
  ASSUME IInv, Grows, request' = request
  PROVE  request' \in [Requests -> Steps] /\ RequestsOK' /\ OneCallback'
<1>1. request \in [Requests -> Steps] /\ OneCallback /\ RequestsOK
  BY Parts DEF IInv, Types
<1> QED
  BY <1>1, SoundStays DEF RequestsOK, OneCallback, Sound

-----------------------------------------------------------------------------
(* Steps of one kind at a time *)

\* Only a request moves, on the strength of what is there.
LEMMA RequestOnly ==
  ASSUME IInv, NEW r \in Requests, NEW q \in Steps, Sound(q), Alone(r, q),
         request' = [request EXCEPT ![r] = q], UNCHANGED <<account, sessions, pushes>>
  PROVE  IInv'
<1>1. UNCHANGED <<account, token, state, reused, device, muted>>
  BY DEF sessions, pushes
<1>2. Grows
  BY <1>1 DEF Grows, Exists
<1>3. Sound(q)'
  BY <1>2, SoundStays
<1>4. request' \in [Requests -> Steps] /\ RequestsOK' /\ OneCallback'
  BY <1>2, <1>3, RequestMoves
<1>5. Types' /\ Unique' /\ OneMember' /\ FamiliesOK'
  BY <1>1, <1>4, Parts DEF IInv, Types, Unique, OneMember, FamiliesOK, Exists
<1> QED
  BY <1>4, <1>5, Parts DEF IInv, OneAccountEach, Unique, OneMember, OneCallback

\* Accounts change: none goes away, and none takes what another has.
LEMMA AccountStep ==
  ASSUME IInv, NEW u \in Users, NEW a \in Account,
         account' = [account EXCEPT ![u] = a],
         \A f \in {"email", "nickname", "kakao"}, v \in Users \ {u} :
           a[f] # None => account[v][f] # a[f],
         UNCHANGED <<sessions, pushes>>,
         NEW r \in Requests, NEW q \in Steps, Sound(q)', q.pc # "exchange",
         request' = [request EXCEPT ![r] = q]
  PROVE  IInv'
<1>1. account \in [Users -> Account \cup {NoAccount}] /\ Unique
  BY Parts DEF IInv, Types
<1>2. UNCHANGED <<token, state, reused, device, muted>>
  BY DEF sessions, pushes
<1>3. a # NoAccount
  BY AccountsAssumption DEF Account, NoAccount
<1>4. /\ account' \in [Users -> Account \cup {NoAccount}]
      /\ \A v \in Users : account'[v] = IF v = u THEN a ELSE account[v]
  BY <1>1
<1>5. \A v \in Users : Exists(v) => Exists(v)'
  BY <1>3, <1>4 DEF Exists
<1>6. Unique'
  BY <1>1, <1>4 DEF Unique
<1>7. Grows
  BY <1>2, <1>5 DEF Grows
<1>8. request' \in [Requests -> Steps] /\ RequestsOK' /\ OneCallback'
  BY <1>7, RequestMoves DEF Alone
<1>9. Types'
  BY <1>2, <1>4, <1>8, Parts DEF IInv, Types
<1>10. FamiliesOK'
  BY <1>2 DEF IInv, FamiliesOK
<1>11. OneMember'
  <2>1. \A t \in Tokens : token[t] # NoToken => token[t].user \in Users
    BY Parts, TokenFields DEF IInv, Types, TokenType
  <2> QED
    BY <1>2, <1>5, <2>1, Parts DEF IInv, OneMember
<1> QED
  BY <1>6, <1>8, <1>9, <1>10, <1>11 DEF IInv, OneAccountEach, Unique, OneMember, OneCallback

\* Tokens change their status only.
SameTokens ==
  /\ token' \in [Tokens -> TokenType \cup {NoToken}]
  /\ \A t \in Tokens : /\ token[t] # NoToken <=> token'[t] # NoToken
                       /\ token'[t].user = token[t].user /\ token'[t].family = token[t].family

LEMMA TokenTypes == IInv => token \in [Tokens -> TokenType \cup {NoToken}]
BY Parts DEF IInv, Types, TokenType

LEMMA TokenStep ==
  ASSUME IInv, SameTokens, UNCHANGED <<account, state, pushes>>,
         UNCHANGED reused \/ \E f : Answer(f),
         \/ request' = request
         \/ \E r \in Requests, q \in Steps : /\ Sound(q) /\ q.pc # "exchange"
                                             /\ request' = [request EXCEPT ![r] = q]
  PROVE  IInv'
<1>1. UNCHANGED <<account, state, device, muted>>
  BY DEF pushes
<1>2. Grows
  BY <1>1 DEF Grows, SameTokens, Exists
<1>3. request' \in [Requests -> Steps] /\ RequestsOK' /\ OneCallback'
  <2>1. CASE request' = request
    BY <1>2, <2>1, RequestsRest
  <2>2. CASE \E r \in Requests, q \in Steps : /\ Sound(q) /\ q.pc # "exchange"
                                              /\ request' = [request EXCEPT ![r] = q]
    <3>1. PICK r \in Requests, q \in Steps : /\ Sound(q) /\ q.pc # "exchange"
                                             /\ request' = [request EXCEPT ![r] = q]
      BY <2>2
    <3>2. Sound(q)'
      BY <1>2, <3>1, SoundStays
    <3> QED
      BY <1>2, <3>1, <3>2, RequestMoves DEF Alone
  <2> QED
    BY <2>1, <2>2
<1>4. \A t \in Tokens : token[t] # NoToken => token[t].family \in Tokens
  BY TokenTypes, TokenFields
<1>5. OneMember' /\ FamiliesOK'
  BY <1>1, <1>4, Parts DEF IInv, SameTokens, OneMember, FamiliesOK, Exists
<1>6. reused' \in [Tokens -> {"NO", "WHOLE", "RACED"}]
  BY Parts DEF IInv, Types, Answer
<1>7. Types' /\ Unique'
  BY <1>1, <1>3, <1>6, Parts DEF IInv, Types, Unique, SameTokens, TokenType
<1> QED
  BY <1>3, <1>5, <1>7 DEF IInv, OneAccountEach, Unique, OneMember, OneCallback

\* Revocations and expiries are such.
LEMMA RevokeKeeps ==
  ASSUME IInv, NEW Out, Revoke(Out)
  PROVE  SameTokens /\ \A t \in Tokens : token'[t].status = "LIVE" => token[t].status = "LIVE"
<1>1. \A row \in TokenType : LET new == [row EXCEPT !.status = "REVOKED"] IN
        new \in TokenType /\ new.user = row.user /\ new.family = row.family /\ new.status = "REVOKED"
  BY DEF TokenType
<1>2. \A t \in Tokens : token[t] \in TokenType \/ (token[t] = NoToken /\ token[t].status = "NONE")
  <2>1. NoToken.status = "NONE"
    BY DEF NoToken
  <2>2. \A t \in Tokens : token[t] \in TokenType \cup {NoToken}
    BY TokenTypes
  <2> QED
    BY <2>1, <2>2
<1>3. NoToken \notin TokenType
  BY DEF NoToken, TokenType
<1>4. \A t \in Tokens : 
        \/ token'[t] = token[t]
        \/ token[t].status # "NONE" /\ token'[t] = [token[t] EXCEPT !.status = "REVOKED"]
  BY DEF Revoke
<1>5. \A t \in Tokens : /\ token'[t] \in TokenType \cup {NoToken}
                        /\ token[t] # NoToken <=> token'[t] # NoToken
                        /\ token'[t].user = token[t].user /\ token'[t].family = token[t].family
                        /\ token'[t].status = "LIVE" => token[t].status = "LIVE"
  <2> TAKE t \in Tokens
  <2>1. CASE token'[t] = token[t]
    BY <1>2, <2>1
  <2>2. CASE token[t].status # "NONE" /\ token'[t] = [token[t] EXCEPT !.status = "REVOKED"]
    <3>1. token[t] \in TokenType
      BY <1>2, <2>2
    <3>2. token'[t] \in TokenType /\ token'[t].status = "REVOKED"
          /\ token'[t].user = token[t].user /\ token'[t].family = token[t].family
      BY <1>1, <2>2, <3>1
    <3> QED
      BY <1>3, <3>1, <3>2
  <2> QED
    BY <1>4, <2>1, <2>2
<1>6. token' \in [Tokens -> TokenType \cup {NoToken}]
  BY <1>5 DEF Revoke
<1> QED
  BY <1>5, <1>6 DEF SameTokens

LEMMA ExpireKeeps ==
  ASSUME IInv, NEW t \in Tokens, Expire(t)
  PROVE  SameTokens /\ \A s \in Tokens : token'[s].status = "LIVE" => token[s].status = "LIVE"
<1>1. token \in [Tokens -> TokenType \cup {NoToken}]
  BY TokenTypes
<1>2. token[t] \in TokenType
  BY <1>1 DEF Expire, NoToken
<1> DEFINE new == [token[t] EXCEPT !.status = "EXPIRED"]
<1>3. new \in TokenType /\ new.user = token[t].user /\ new.family = token[t].family /\ new.status = "EXPIRED"
  BY <1>2 DEF TokenType
<1>4. token' = [token EXCEPT ![t] = new]
  BY DEF Expire
<1>5. NoToken \notin TokenType
  BY DEF NoToken, TokenType
<1> HIDE DEF new
<1> QED
  BY <1>1, <1>2, <1>3, <1>4, <1>5 DEF SameTokens
-----------------------------------------------------------------------------
(* The actions *)

LEMMA IdleSound == Idle \in Steps /\ Sound(Idle) /\ Idle.pc # "exchange"
BY DEF Idle, Steps, Sound

\* Whoever is told to start, or to go on, with a step of its own.
LEMMA Begins ==
  ASSUME IInv, NEW r \in Requests, NEW q \in Steps, Sound(q), q.pc # "exchange",
         Start(r, q) \/ Continue(r, q), UNCHANGED <<account, sessions, pushes>>
  PROVE  IInv'
<1>1. request' = [request EXCEPT ![r] = q]
  BY DEF Start, Continue
<1> QED
  BY <1>1, RequestOnly DEF Alone

LEMMA Ends ==
  ASSUME IInv, NEW r \in Requests, Finish(r), UNCHANGED <<account, sessions, pushes>>
  PROVE  IInv'
BY IdleSound, Begins DEF Finish

LEMMA SignInInv ==
  ASSUME IInv, NEW r \in Requests, NEW u \in Users, Login(r, u) \/ LoginWithEmail(r, u)
  PROVE  IInv'
<1> DEFINE q == Issue(u, None)
<1>1. q \in Steps /\ Sound(q) /\ q.pc # "exchange"
  BY DEF Steps, Sound, Issue, Login, LoginWithEmail, Active
<1>2. Start(r, q) /\ UNCHANGED <<account, sessions, pushes>>
  BY DEF Login, LoginWithEmail
<1> HIDE DEF q
<1> QED
  BY <1>1, <1>2, Begins

LEMMA RegisterInv ==
  ASSUME IInv, NEW r \in Requests, NEW u \in Users, NEW a \in Account, Register(r, u, a)
  PROVE  IInv'
<1>1. account \in [Users -> Account \cup {NoAccount}]
  BY Parts DEF IInv, Types
<1>2. account' = [account EXCEPT ![u] = a] /\ UNCHANGED <<sessions, pushes>>
  BY DEF Register
<1>3. \A f \in {"email", "nickname", "kakao"}, v \in Users \ {u} :
        a[f] # None => account[v][f] # a[f]
  <2> SUFFICES ASSUME NEW f \in {"email", "nickname", "kakao"}, NEW v \in Users \ {u},
                      a[f] # None, account[v][f] = a[f]
               PROVE  FALSE
    OBVIOUS
  <2>1. Exists(v)
    BY <1>1, AccountFields DEF Exists, NoAccount
  <2>2. Free(f, a[f])
    BY DEF Register
  <2> QED
    BY <2>1, <2>2 DEF Free, Takes
<1>4. Exists(u)'
  BY <1>1, <1>2, AccountsAssumption DEF Exists, Account, NoAccount
<1> DEFINE q == Issue(u, None)
<1>5. q \in Steps /\ Sound(q)' /\ q.pc # "exchange"
  BY <1>4 DEF Steps, Sound, Issue
<1>6. request' = [request EXCEPT ![r] = q]
  BY DEF Register, Continue
<1> HIDE DEF q
<1> QED
  BY <1>2, <1>3, <1>5, <1>6, AccountStep

LEMMA SignupInv ==
  ASSUME IInv, NEW r \in Requests, NEW u \in Users, SignupWithEmail(r, u) \/ LoginWithKakao(r, u)
  PROVE  IInv'
<1>1. request[r] \in Steps
  BY Parts DEF IInv, Types
<1>2. CASE SignupWithEmail(r, u)
  <2> DEFINE a == [email |-> request[r].email, nickname |-> request[r].nickname,
                   kakao |-> None, password |-> TRUE]
  <2>1. a \in Account
    BY <1>1, <1>2, StepFields DEF SignupWithEmail, Account
  <2>2. Register(r, u, a)
    BY <1>2 DEF SignupWithEmail
  <2> QED
    BY <2>1, <2>2, RegisterInv
<1>3. CASE LoginWithKakao(r, u)
  <2> DEFINE a == [email |-> KakaoEmail[request[r].k], nickname |-> request[r].nickname,
                   kakao |-> request[r].k, password |-> FALSE]
  <2>1. a \in Account
    BY <1>1, <1>3, StepFields, AccountsAssumption DEF LoginWithKakao, Account
  <2>2. Register(r, u, a)
    BY <1>3 DEF LoginWithKakao
  <2> QED
    BY <2>1, <2>2, RegisterInv
<1> QED
  BY <1>2, <1>3

LEMMA LookSignupInv ==
  ASSUME IInv, NEW r \in Requests, NEW e \in Emails, NEW n \in Nicknames, LookSignup(r, e, n)
  PROVE  IInv'
<1> DEFINE q == [pc |-> "signup", email |-> e, nickname |-> n]
<1>1. q \in Steps /\ Sound(q) /\ q.pc # "exchange"
  BY DEF Steps, Sound
<1>2. Start(r, q) /\ UNCHANGED <<account, sessions, pushes>>
  BY DEF LookSignup
<1> HIDE DEF q
<1> QED
  BY <1>1, <1>2, Begins

LEMMA LookStateInv ==
  ASSUME IInv, NEW r \in Requests, NEW s \in States, LookState(r, s)
  PROVE  IInv'
<1> DEFINE q == [pc |-> "consume", s |-> s]
<1>1. q \in Steps /\ Sound(q) /\ q.pc # "exchange"
  BY DEF Steps, Sound
<1>2. Start(r, q) /\ UNCHANGED <<account, sessions, pushes>>
  BY DEF LookState
<1> HIDE DEF q
<1> QED
  BY <1>1, <1>2, Begins

\* States move on while no request does.
LEMMA StateInv ==
  ASSUME IInv, NEW s \in States, KakaoAuthorizeUrl(s) \/ ExpireState(s)
  PROVE  IInv'
<1>1. UNCHANGED <<account, token, reused, device, muted, request>>
  BY DEF KakaoAuthorizeUrl, ExpireState, pushes
<1>2. state \in [States -> {"NEW", "OPEN", "EXPIRED", "GONE"}]
  BY Parts DEF IInv, Types
<1>3. /\ state' \in [States -> {"NEW", "OPEN", "EXPIRED", "GONE"}]
      /\ \A z \in States : state[z] = "GONE" => state'[z] = "GONE"
  BY <1>2 DEF KakaoAuthorizeUrl, ExpireState
<1>4. Grows
  BY <1>1, <1>3 DEF Grows, Exists
<1>5. request' \in [Requests -> Steps] /\ RequestsOK' /\ OneCallback'
  BY <1>1, <1>4, RequestsRest
<1>6. Types' /\ Unique' /\ OneMember' /\ FamiliesOK'
  BY <1>1, <1>3, <1>5, Parts DEF IInv, Types, Unique, OneMember, FamiliesOK, Exists
<1> QED
  BY <1>5, <1>6 DEF IInv, OneAccountEach, Unique, OneMember, OneCallback

\* The one who deletes the row is the one who has it.
LEMMA ConsumeInv ==
  ASSUME IInv, NEW r \in Requests, Consume(r)
  PROVE  IInv'
<1>1. /\ request \in [Requests -> Steps] /\ RequestsOK
      /\ state \in [States -> {"NEW", "OPEN", "EXPIRED", "GONE"}]
  BY Parts DEF IInv, Types
<1>2. PICK s \in States : s = request[r].s /\ state[s] # "GONE"
  BY <1>1, StepFields DEF Consume
<1> DEFINE q == [pc |-> "exchange", s |-> s]
<1>3. /\ UNCHANGED <<account, token, reused, device, muted>>
      /\ state' = [state EXCEPT ![s] = "GONE"] /\ request' = [request EXCEPT ![r] = q]
  BY <1>2 DEF Consume, Continue, pushes
<1>4. Grows
  BY <1>1, <1>3 DEF Grows, Exists
<1>5. q \in Steps /\ Sound(q)'
  BY <1>1, <1>2, <1>3 DEF Steps, Sound
<1>6. Alone(r, q)
  <2> SUFFICES ASSUME NEW p \in Requests \ {r}, request[p] = q PROVE FALSE
    BY DEF Alone
  <2>1. request[p].pc = "exchange" /\ request[p].s = s
    OBVIOUS
  <2>2. Sound(request[p])
    BY <1>1 DEF RequestsOK
  <2> QED
    BY <1>2, <2>1, <2>2 DEF Sound
<1>7. request' \in [Requests -> Steps] /\ RequestsOK' /\ OneCallback'
  <2> HIDE DEF q
  <2> QED
    BY <1>3, <1>4, <1>5, <1>6, RequestMoves
<1>8. Types' /\ Unique' /\ OneMember' /\ FamiliesOK'
  <2>1. state' \in [States -> {"NEW", "OPEN", "EXPIRED", "GONE"}]
    BY <1>1, <1>2, <1>3
  <2> QED
    BY <1>3, <1>7, <2>1, Parts DEF IInv, Types, Unique, OneMember, FamiliesOK, Exists
<1> QED
  BY <1>7, <1>8 DEF IInv, OneAccountEach, Unique, OneMember, OneCallback

LEMMA ExchangeInv ==
  ASSUME IInv, NEW r \in Requests, NEW k \in KakaoIds, Exchange(r, k)
  PROVE  IInv'
<1>1. CASE \E u \in Takes("kakao", k) : Continue(r, Issue(u, None))
  <2>1. PICK u \in Takes("kakao", k) : Continue(r, Issue(u, None))
    BY <1>1
  <2> DEFINE q == Issue(u, None)
  <2>2. q \in Steps /\ Sound(q) /\ q.pc # "exchange"
    BY DEF Steps, Sound, Issue, Takes
  <2>3. Continue(r, q) /\ UNCHANGED <<account, sessions, pushes>>
    BY <2>1 DEF Exchange
  <2> HIDE DEF q
  <2> QED
    BY <2>2, <2>3, Begins
<1>2. CASE Continue(r, [pc |-> "nickname", k |-> k])
  <2> DEFINE q == [pc |-> "nickname", k |-> k]
  <2>1. q \in Steps /\ Sound(q) /\ q.pc # "exchange"
    BY DEF Steps, Sound
  <2>2. Continue(r, q) /\ UNCHANGED <<account, sessions, pushes>>
    BY <1>2 DEF Exchange
  <2> HIDE DEF q
  <2> QED
    BY <2>1, <2>2, Begins
<1> QED
  BY <1>1, <1>2 DEF Exchange

LEMMA EnsureInv ==
  ASSUME IInv, NEW r \in Requests, NEW n \in Nicknames, EnsureUniqueNickname(r, n)
  PROVE  IInv'
<1> DEFINE q == [pc |-> "kakao", k |-> request[r].k, nickname |-> n]
<1>1. request[r] \in Steps
  BY Parts DEF IInv, Types
<1>2. request[r].k \in KakaoIds
  BY <1>1, StepFields DEF EnsureUniqueNickname
<1>3. q \in Steps /\ Sound(q) /\ q.pc # "exchange"
  BY <1>2 DEF Steps, Sound
<1>4. Continue(r, q) /\ UNCHANGED <<account, sessions, pushes>>
  BY DEF EnsureUniqueNickname
<1> HIDE DEF q
<1> QED
  BY <1>3, <1>4, Begins
\* A token is issued: the first of its family, or one more.
LEMMA IssueInv ==
  ASSUME IInv, NEW r \in Requests, NEW t \in Tokens, IssueTokenPair(r, t)
  PROVE  IInv'
<1>1. /\ request \in [Requests -> Steps] /\ RequestsOK /\ FamiliesOK /\ OneMember
      /\ token \in [Tokens -> TokenType \cup {NoToken}]
  BY Parts, TokenTypes DEF IInv, Types
<1>2. PICK u \in Users, f \in Tokens \cup {None} : u = request[r].u /\ f = request[r].family
  BY <1>1, StepFields DEF IssueTokenPair
<1>3. Exists(u) /\ (f # None => token[f] # NoToken /\ token[f].family = f /\ token[f].user = u)
  <2>1. Sound(request[r])
    BY <1>1 DEF RequestsOK
  <2> QED
    BY <1>2, <2>1 DEF Sound, IssueTokenPair
<1> DEFINE g == IF f = None THEN t ELSE f
           new == [user |-> u, family |-> g, status |-> "LIVE"]
<1>4. token[t] = NoToken /\ token' = [token EXCEPT ![t] = new] /\ Finish(r)
      /\ UNCHANGED <<account, state, reused, device, muted>>
  BY <1>2 DEF IssueTokenPair, pushes
<1>5. g \in Tokens /\ new \in TokenType /\ new # NoToken /\ new.user = u /\ new.family = g
  BY <1>2 DEF TokenType, NoToken
<1>6. g = t \/ (g # t /\ token[g] # NoToken /\ token[g].family = g /\ token[g].user = u)
  BY <1>2, <1>3, <1>4
<1> HIDE DEF g, new
<1>7. \A z \in Tokens : token'[z] = IF z = t THEN new ELSE token[z]
  BY <1>1, <1>4
<1>8. \A z \in Tokens : token[z] # NoToken =>
        token[z].family \in Tokens /\ token[z].family # t
  BY <1>1, <1>4, TokenFields DEF FamiliesOK
<1>9. Grows
  BY <1>4, <1>7 DEF Grows, Exists
<1>10. request' \in [Requests -> Steps] /\ RequestsOK' /\ OneCallback'
  <2>1. Sound(Idle)'
    BY DEF Sound, Idle
  <2> QED
    BY <1>4, <1>9, <2>1, IdleSound, RequestMoves DEF Finish, Continue, Alone
<1>11. FamiliesOK'
  BY <1>1, <1>5, <1>6, <1>7, <1>8 DEF FamiliesOK
<1>12. OneMember'
  <2>1. \A v : Exists(v)' = Exists(v)
    BY <1>4 DEF Exists
  <2> QED
    BY <1>1, <1>3, <1>5, <1>6, <1>7, <1>8, <2>1 DEF OneMember
<1>13. Types' /\ Unique'
  <2>1. token' \in [Tokens -> TokenType \cup {NoToken}]
    BY <1>1, <1>4, <1>5
  <2> QED
    BY <1>4, <1>10, <2>1, Parts DEF IInv, Types, Unique, TokenType
<1> QED
  BY <1>10, <1>11, <1>12, <1>13 DEF IInv, OneAccountEach, Unique, OneMember, OneCallback

LEMMA LookTokenInv ==
  ASSUME IInv, NEW r \in Requests, NEW t \in Tokens, LookToken(r, t)
  PROVE  IInv'
<1>1. token[t] # NoToken
  BY DEF LookToken, NoToken
<1>2. PICK pc \in {"rotate", "reuse"} : Start(r, [pc |-> pc, t |-> t])
  BY DEF LookToken
<1> DEFINE q == [pc |-> pc, t |-> t]
<1>3. q \in Steps /\ Sound(q) /\ q.pc # "exchange"
  BY <1>1 DEF Steps, Sound
<1>4. Start(r, q) /\ UNCHANGED <<account, sessions, pushes>>
  BY <1>2 DEF LookToken
<1> HIDE DEF q
<1> QED
  BY <1>3, <1>4, Begins

LEMMA RevokeFamilyInv ==
  ASSUME IInv, NEW r \in Requests, RevokeFamily(r)
  PROVE  IInv'
<1>1. SameTokens
  BY RevokeKeeps DEF RevokeFamily
<1>2. request' = [request EXCEPT ![r] = Idle] /\ UNCHANGED <<account, state, pushes>>
  BY DEF RevokeFamily, Finish, Continue
<1>3. \E f : Answer(f)
  BY DEF RevokeFamily
<1> QED
  BY <1>1, <1>2, <1>3, IdleSound, TokenStep

\* What a rotation goes on with.
LEMMA RotateGoesOn ==
  ASSUME IInv, NEW r \in Requests, Rotate(r)
  PROVE  \E q \in Steps : Sound(q) /\ q.pc # "exchange" /\ request' = [request EXCEPT ![r] = q]
<1>1. request \in [Requests -> Steps] /\ RequestsOK /\ FamiliesOK /\ OneMember
  BY Parts DEF IInv, Types
<1>2. PICK t \in Tokens : t = request[r].t /\ token[t] # NoToken
  BY <1>1, StepFields DEF Rotate, RequestsOK, Sound
<1>3. PICK u \in Users, f \in Tokens : /\ u = token[t].user /\ f = token[t].family /\ Exists(u)
                                       /\ token[f] # NoToken /\ token[f].family = f /\ token[f].user = u
  BY <1>1, <1>2, TokenTypes, TokenFields DEF FamiliesOK, OneMember
<1>4. CASE Active(token[t].user)
  <2> DEFINE q == Issue(u, f)
  <2>1. q \in Steps /\ Sound(q) /\ q.pc # "exchange"
    BY <1>3 DEF Issue, Steps, Sound
  <2>2. request' = [request EXCEPT ![r] = q]
    BY <1>2, <1>3, <1>4 DEF Rotate, Continue
  <2> QED
    BY <2>1, <2>2
<1>5. CASE ~Active(token[t].user)
  BY <1>2, <1>5, IdleSound DEF Rotate, Finish, Continue
<1> QED
  BY <1>4, <1>5

LEMMA RotateInv ==
  ASSUME IInv, NEW r \in Requests, Rotate(r)
  PROVE  IInv'
<1>1. SameTokens
  BY RevokeKeeps DEF Rotate
<1>2. UNCHANGED <<account, state, pushes>> /\ UNCHANGED reused
  BY DEF Rotate
<1> QED
  BY <1>1, <1>2, RotateGoesOn, TokenStep

LEMMA StatusInv ==
  ASSUME IInv,
         \/ \E t \in Tokens : Expire(t) \/ RevokeRefreshToken(t)
         \/ \E u \in Users : RevokeAllForUser(u)
  PROVE  IInv'
<1>1. UNCHANGED <<account, state, pushes>> /\ UNCHANGED reused /\ request' = request
  BY DEF Expire, RevokeRefreshToken, RevokeAllForUser
<1>2. SameTokens
  BY ExpireKeeps, RevokeKeeps DEF RevokeRefreshToken, RevokeAllForUser
<1> QED
  BY <1>1, <1>2, TokenStep
LEMMA LookNicknameInv ==
  ASSUME IInv, NEW r \in Requests, NEW u \in Users, NEW n \in Nicknames, LookNickname(r, u, n)
  PROVE  IInv'
<1> DEFINE q == [pc |-> "rename", u |-> u, nickname |-> n]
<1>1. q \in Steps /\ Sound(q) /\ q.pc # "exchange"
  BY DEF Steps, Sound, LookNickname, Active
<1>2. Start(r, q) /\ UNCHANGED <<account, sessions, pushes>>
  BY DEF LookNickname
<1> HIDE DEF q
<1> QED
  BY <1>1, <1>2, Begins

LEMMA UpdateInv ==
  ASSUME IInv, NEW r \in Requests, UpdateMyProfile(r)
  PROVE  IInv'
<1>1. /\ request \in [Requests -> Steps] /\ RequestsOK /\ Unique
      /\ account \in [Users -> Account \cup {NoAccount}]
  BY Parts DEF IInv, Types
<1>2. PICK u \in Users, n \in Nicknames : u = request[r].u /\ n = request[r].nickname
  BY <1>1, StepFields DEF UpdateMyProfile
<1>3. Exists(u)
  BY <1>1, <1>2 DEF UpdateMyProfile, RequestsOK, Sound
<1>4. account[u] \in Account
  BY <1>1, <1>3 DEF Exists
<1>5. PICK a \in Account : a = [account[u] EXCEPT !.nickname = n]
  BY <1>4 DEF Account
<1>6. a.nickname = n /\ a.email = account[u].email /\ a.kakao = account[u].kakao
  BY <1>4, <1>5 DEF Account
<1>7. /\ account' = [account EXCEPT ![u] = a] /\ Takes("nickname", n) \subseteq {u}
      /\ request' = [request EXCEPT ![r] = Idle] /\ UNCHANGED <<sessions, pushes>>
  BY <1>2, <1>5 DEF UpdateMyProfile, Finish, Continue
<1>8. \A f \in {"email", "nickname", "kakao"}, v \in Users \ {u} :
        a[f] # None => account[v][f] # a[f]
  <2> SUFFICES ASSUME NEW f \in {"email", "nickname", "kakao"}, NEW v \in Users \ {u},
                      a[f] # None, account[v][f] = a[f]
               PROVE  FALSE
    OBVIOUS
  <2>1. CASE f = "nickname"
    <3>1. Exists(v)
      BY <1>1, <2>1, AccountFields DEF Exists, NoAccount
    <3> QED
      BY <1>6, <1>7, <2>1, <3>1 DEF Takes
  <2>2. CASE f # "nickname"
    BY <1>1, <1>6, <2>2 DEF Unique
  <2> QED
    BY <2>1, <2>2
<1>9. Sound(Idle)'
  BY DEF Sound, Idle
<1> QED
  BY <1>7, <1>8, <1>9, IdleSound, AccountStep

\* Devices and preferences are nobody else's business.
LEMMA PushStep ==
  ASSUME IInv, UNCHANGED <<account, sessions>>,
         device' \in [Devices -> [user : Users, live : BOOLEAN] \cup {NoDevice}],
         \A d \in Devices : device[d] # NoDevice => device'[d] # NoDevice,
         muted' \subseteq Users,
         \/ request' = request
         \/ \E r \in Requests, q \in Steps : /\ Sound(q) /\ q.pc # "exchange"
                                             /\ request' = [request EXCEPT ![r] = q]
  PROVE  IInv'
<1>1. UNCHANGED <<account, token, state, reused>>
  BY DEF sessions
<1>2. Grows
  BY <1>1 DEF Grows, Exists
<1>3. request' \in [Requests -> Steps] /\ RequestsOK' /\ OneCallback'
  <2>1. CASE request' = request
    BY <1>2, <2>1, RequestsRest
  <2>2. CASE \E r \in Requests, q \in Steps : /\ Sound(q) /\ q.pc # "exchange"
                                              /\ request' = [request EXCEPT ![r] = q]
    <3>1. PICK r \in Requests, q \in Steps : /\ Sound(q) /\ q.pc # "exchange"
                                             /\ request' = [request EXCEPT ![r] = q]
      BY <2>2
    <3>2. Sound(q)'
      BY <1>2, <3>1, SoundStays
    <3> QED
      BY <1>2, <3>1, <3>2, RequestMoves DEF Alone
  <2> QED
    BY <2>1, <2>2
<1>4. Types' /\ Unique' /\ OneMember' /\ FamiliesOK'
  BY <1>1, <1>3, Parts DEF IInv, Types, Unique, OneMember, FamiliesOK, Exists
<1> QED
  BY <1>3, <1>4 DEF IInv, OneAccountEach, Unique, OneMember, OneCallback

LEMMA DeviceTypes ==
  ASSUME IInv
  PROVE  /\ device \in [Devices -> [user : Users, live : BOOLEAN] \cup {NoDevice}]
         /\ muted \subseteq Users /\ request \in [Requests -> Steps]
         /\ \A d \in Devices : /\ device[d].user \in Users \cup {None}
                               /\ device[d] # NoDevice <=> device[d].user \in Users
<1>1. device \in [Devices -> [user : Users, live : BOOLEAN] \cup {NoDevice}]
  BY Parts DEF IInv, Types
<1> QED
  BY <1>1, Parts, AccountsAssumption DEF IInv, Types, NoDevice

LEMMA LookDeviceInv ==
  ASSUME IInv, NEW r \in Requests, NEW u \in Users, NEW d \in Devices, LookDevice(r, u, d)
  PROVE  IInv'
<1> DEFINE q == [pc |-> "device", u |-> u, d |-> d, owner |-> device[d].user]
<1>1. q \in Steps /\ Sound(q) /\ q.pc # "exchange"
  BY DeviceTypes, AccountsAssumption DEF Steps, Sound
<1>2. Start(r, q) /\ UNCHANGED <<account, sessions, pushes>>
  BY DEF LookDevice
<1> HIDE DEF q
<1> QED
  BY <1>1, <1>2, Begins

\* A device whose owner is not written over has one: its row was there.
LEMMA RegisterDeviceInv ==
  ASSUME IInv, NEW r \in Requests, RegisterDevice(r)
  PROVE  IInv'
<1>1. PICK u \in Users, d \in Devices, o \in Users \cup {None} :
        u = request[r].u /\ d = request[r].d /\ o = request[r].owner
  BY DeviceTypes, StepFields DEF RegisterDevice
<1>2. o # None => device[d] # NoDevice
  BY <1>1, DeviceTypes DEF RegisterDevice, IInv, RequestsOK, Sound
<1>3. PICK new \in [user : Users, live : BOOLEAN] :
        new = [user |-> IF o = u THEN device[d].user ELSE u, live |-> TRUE]
  <2> DEFINE owner == IF o = u THEN device[d].user ELSE u
  <2>1. owner \in Users
    BY <1>2, DeviceTypes, AccountsAssumption
  <2> QED
    BY <2>1
<1>4. /\ device' = [device EXCEPT ![d] = new] /\ request' = [request EXCEPT ![r] = Idle]
      /\ UNCHANGED <<account, sessions, muted>>
  BY <1>1, <1>3 DEF RegisterDevice, Finish, Continue
<1>5. new # NoDevice
  BY AccountsAssumption DEF NoDevice
<1>6. /\ device' \in [Devices -> [user : Users, live : BOOLEAN] \cup {NoDevice}]
      /\ \A e \in Devices : device[e] # NoDevice => device'[e] # NoDevice
  BY <1>4, <1>5, DeviceTypes
<1>7. muted' \subseteq Users
  BY <1>4, DeviceTypes
<1> QED
  BY <1>4, <1>6, <1>7, IdleSound, PushStep

\* A row that is there is marked: by its owner, or because FCM refuses it.
LEMMA MarkKeeps ==
  ASSUME IInv, NEW d \in Devices, device' = [device EXCEPT ![d].live = FALSE]
  PROVE  /\ device' \in [Devices -> [user : Users, live : BOOLEAN] \cup {NoDevice}]
         /\ \A e \in Devices : device[e] # NoDevice => device'[e] # NoDevice
<1>1. CASE device[d] = NoDevice
  <2>1. [NoDevice EXCEPT !.live = FALSE] = NoDevice
    <3>1. \A row \in [user : {None}, live : {FALSE}] : [row EXCEPT !.live = FALSE] = row
      OBVIOUS
    <3>2. NoDevice \in [user : {None}, live : {FALSE}]
      BY DEF NoDevice
    <3> QED
      BY <3>1, <3>2
  <2>2. device' = device
    BY <1>1, <2>1, DeviceTypes
  <2> QED
    BY <2>2, DeviceTypes
<1>2. CASE device[d] # NoDevice
  <2>1. device[d] \in [user : Users, live : BOOLEAN]
    BY <1>2, DeviceTypes
  <2>2. PICK new \in [user : Users, live : BOOLEAN] : new = [device[d] EXCEPT !.live = FALSE]
    BY <2>1
  <2>3. device' = [device EXCEPT ![d] = new]
    BY <2>2
  <2>4. new # NoDevice
    BY AccountsAssumption DEF NoDevice
  <2> QED
    BY <2>3, <2>4, DeviceTypes
<1> QED
  BY <1>1, <1>2

LEMMA RevokeDeviceInv ==
  ASSUME IInv, NEW u \in Users, NEW d \in Devices, RevokeDevice(u, d)
  PROVE  IInv'
<1>1. /\ device' = [device EXCEPT ![d].live = FALSE]
      /\ UNCHANGED <<account, sessions>> /\ muted' = muted /\ request' = request
  BY DEF RevokeDevice
<1>2. muted' \subseteq Users
  BY <1>1, DeviceTypes
<1> QED
  BY <1>1, <1>2, MarkKeeps, PushStep

LEMMA SetPushInv ==
  ASSUME IInv, NEW u \in Users, SetPush(u)
  PROVE  IInv'
<1>1. UNCHANGED <<account, sessions>> /\ device' = device /\ request' = request
  BY DEF SetPush
<1>2. muted' \subseteq Users
  BY DeviceTypes DEF SetPush
<1>3. device' \in [Devices -> [user : Users, live : BOOLEAN] \cup {NoDevice}]
  BY <1>1, DeviceTypes
<1> QED
  BY <1>1, <1>2, <1>3, PushStep

LEMMA DeliverInv ==
  ASSUME IInv, NEW r \in Requests,
         (\E u \in Users : PushAllowedFor(r, u)) \/ ActiveTokensForUser(r)
  PROVE  IInv'
<1>1. CASE \E u \in Users : PushAllowedFor(r, u)
  <2>1. PICK u \in Users : PushAllowedFor(r, u)
    BY <1>1
  <2> DEFINE q == [pc |-> "push", u |-> u]
  <2>2. q \in Steps /\ Sound(q) /\ q.pc # "exchange"
    BY DEF Steps, Sound
  <2>3. Start(r, q) /\ UNCHANGED <<account, sessions, pushes>>
    BY <2>1 DEF PushAllowedFor
  <2> HIDE DEF q
  <2> QED
    BY <2>2, <2>3, Begins
<1>2. CASE ActiveTokensForUser(r)
  <2>1. PICK found \in SUBSET Devices :
          Finish(r) \/ Continue(r, [pc |-> "sent", to |-> found])
    BY <1>2 DEF ActiveTokensForUser
  <2> DEFINE q == [pc |-> "sent", to |-> found]
  <2>2. q \in Steps /\ Sound(q) /\ q.pc # "exchange"
    BY DEF Steps, Sound
  <2>3. UNCHANGED <<account, sessions, pushes>> /\ (Finish(r) \/ Continue(r, q))
    BY <1>2, <2>1 DEF ActiveTokensForUser
  <2> HIDE DEF q
  <2> QED
    BY <2>2, <2>3, Begins, Ends
<1> QED
  BY <1>1, <1>2

LEMMA RejectInv ==
  ASSUME IInv, NEW r \in Requests, NEW d \in Devices, Reject(r, d)
  PROVE  IInv'
<1>1. request[r] \in [pc : {"sent"}, to : SUBSET Devices]
  BY DeviceTypes, StepFields DEF Reject
<1>2. PICK q \in [pc : {"sent"}, to : SUBSET Devices] : q = [request[r] EXCEPT !.to = @ \ {d}]
  BY <1>1
<1>3. q \in Steps /\ Sound(q) /\ q.pc # "exchange"
  BY DEF Steps, Sound
<1>4. request' = [request EXCEPT ![r] = Idle] \/ request' = [request EXCEPT ![r] = q]
  BY <1>2 DEF Reject, Finish, Continue
<1>5. /\ device' = [device EXCEPT ![d].live = FALSE]
      /\ UNCHANGED <<account, sessions>> /\ muted' = muted
  BY DEF Reject
<1>6. muted' \subseteq Users
  BY <1>5, DeviceTypes
<1> QED
  BY <1>3, <1>4, <1>5, <1>6, IdleSound, MarkKeeps, PushStep

LEMMA NextInv == IInv /\ [Next]_vars => IInv'
<1> SUFFICES ASSUME IInv, [Next]_vars PROVE IInv'
  OBVIOUS
<1>1. ASSUME NEW r \in Requests, SigningIn(r) PROVE IInv'
  BY <1>1, SignInInv, SignupInv, LookSignupInv, LookStateInv, ConsumeInv, ExchangeInv, EnsureInv,
     LookNicknameInv, UpdateInv DEF SigningIn
<1>2. ASSUME NEW r \in Requests, Session(r) PROVE IInv'
  BY <1>2, RevokeFamilyInv, RotateInv, IssueInv, LookTokenInv DEF Session
<1>3. ASSUME NEW r \in Requests, Push(r) PROVE IInv'
  BY <1>3, RegisterDeviceInv, DeliverInv, LookDeviceInv, RejectInv DEF Push
<1>4. ASSUME NEW r \in Requests, Fail(r) PROVE IInv'
  BY <1>4, Ends DEF Fail
<1>5. ASSUME NEW s \in States, KakaoAuthorizeUrl(s) \/ ExpireState(s) PROVE IInv'
  BY <1>5, StateInv
<1>6. CASE \/ \E t \in Tokens : Expire(t) \/ RevokeRefreshToken(t)
           \/ \E u \in Users : RevokeAllForUser(u)
  BY <1>6, StatusInv
<1>7. ASSUME NEW u \in Users, SetPush(u) \/ \E d \in Devices : RevokeDevice(u, d) PROVE IInv'
  BY <1>7, SetPushInv, RevokeDeviceInv
<1>8. CASE UNCHANGED vars
  <2>1. UNCHANGED <<account, sessions>> /\ device' = device /\ muted' = muted /\ request' = request
    BY <1>8 DEF vars, pushes
  <2>2. device' \in [Devices -> [user : Users, live : BOOLEAN] \cup {NoDevice}] /\ muted' \subseteq Users
    BY <2>1, DeviceTypes
  <2> QED
    BY <2>1, <2>2, PushStep
<1> QED
  BY <1>1, <1>2, <1>3, <1>4, <1>5, <1>6, <1>7, <1>8 DEF Next

LEMMA Invariance == Spec => []IInv
BY InitInv, NextInv, PTL DEF Spec

\* However sign-ups, Kakao callbacks, renamings and rotations overlap and fail,
\* no two accounts share an e-mail, a nickname or a Kakao identity, the tokens
\* of a family are of one member, and a state serves one callback.
THEOREM OneAccountCorrect == Spec => []OneAccountEach
BY Invariance, PTL DEF IInv

-----------------------------------------------------------------------------
(* Sessions that have ended *)

\* What a step does to a family that cannot go on: no token of it becomes live,
\* and no request comes to hold one.
Ended(f) == token[f] # NoToken /\ ~GoesOn(f)

LEMMA EndedFacts ==
  ASSUME NEW f \in Tokens, Ended(f)
  PROVE  /\ token[f] # NoToken
         /\ \A t \in Tokens : token[t].family = f => token[t].status # "LIVE"
         /\ \A r \in Requests : /\ request[r].pc = "rotate" => token[request[r].t].family # f
                                /\ request[r].pc = "issue" => request[r].family # f
BY DEF Ended, GoesOn, Live, UnderWay

\* A step that does not go on with the family f.
Leaves(q, f) ==
  /\ q.pc = "rotate" => q.t \in Tokens /\ token[q.t].family # f
  /\ q.pc = "issue" => q.family # f

\* Requests move to steps that do not go on with f at most, and tokens change
\* only their status, which does not become live.
LEMMA EndedStep ==
  ASSUME IInv, NEW f \in Tokens, Ended(f), SameTokens,
         \A t \in Tokens : token'[t].status = "LIVE" => token[t].status = "LIVE",
         \/ request' = request
         \/ \E r \in Requests : \E q : Leaves(q, f) /\ request' = [request EXCEPT ![r] = q]
  PROVE  Ended(f)'
<1>1. \A t \in Tokens : ~(token'[t].family = f /\ token'[t].status = "LIVE")
  BY EndedFacts DEF SameTokens
<1>2. request \in [Requests -> Steps]
  BY DeviceTypes
<1>3. \A p \in Requests : Leaves(request[p], f)
  BY <1>2, EndedFacts, StepFields DEF Leaves
<1>4. ASSUME NEW p \in Requests PROVE Leaves(request'[p], f)
  <2>1. CASE request' = request
    BY <1>3, <2>1
  <2>2. CASE \E r \in Requests : \E q : Leaves(q, f) /\ request' = [request EXCEPT ![r] = q]
    <3>1. PICK r \in Requests : \E q : Leaves(q, f) /\ request' = [request EXCEPT ![r] = q]
      BY <2>2
    <3>2. PICK q : Leaves(q, f) /\ request' = [request EXCEPT ![r] = q]
      BY <3>1
    <3>3. request'[p] = IF p = r THEN q ELSE request[p]
      BY <1>2, <3>2
    <3> QED
      BY <1>3, <3>2, <3>3
  <2> QED
    BY <2>1, <2>2
<1> QED
  BY <1>1, <1>4 DEF Ended, GoesOn, Live, UnderWay, Leaves, SameTokens

\* Steps that touch no token, and go on with no family that there is.
Modest ==
  /\ token' = token
  /\ \/ request' = request
     \/ \E r \in Requests : \E q :
          /\ q.pc # "rotate" /\ (q.pc = "issue" => q.family = None)
          /\ request' = [request EXCEPT ![r] = q]

LEMMA ModestStep ==
  ASSUME IInv, NEW f \in Tokens, Ended(f), Modest
  PROVE  Ended(f)'
<1>1. SameTokens /\ \A t \in Tokens : token'[t].status = "LIVE" => token[t].status = "LIVE"
  BY TokenTypes DEF SameTokens, Modest
<1>2. \A q : q.pc # "rotate" /\ (q.pc = "issue" => q.family = None) => Leaves(q, f)
  BY AccountsAssumption DEF Leaves
<1> QED
  BY <1>1, <1>2, EndedStep DEF Modest

LEMMA ModestRequest ==
  ASSUME NEW r \in Requests, token' = token,
         NEW q, q.pc # "rotate", q.pc = "issue" => q.family = None,
         Start(r, q) \/ Continue(r, q)
  PROVE  Modest
BY DEF Modest, Start, Continue

LEMMA SigningInModest == ASSUME NEW r \in Requests, SigningIn(r) PROVE Modest
<1>1. token' = token
  BY DEF SigningIn, Login, LoginWithEmail, SignupWithEmail, LoginWithKakao, Register, LookSignup,
         LookState, Consume, Exchange, EnsureUniqueNickname, LookNickname, UpdateMyProfile, sessions
<1>2. ASSUME NEW u \in Users, Start(r, Issue(u, None)) \/ Continue(r, Issue(u, None)) PROVE Modest
  BY <1>1, <1>2, ModestRequest DEF Issue
<1>3. ASSUME NEW u \in Users, Login(r, u) \/ LoginWithEmail(r, u) PROVE Modest
  BY <1>2, <1>3 DEF Login, LoginWithEmail
<1>4. ASSUME NEW u \in Users, SignupWithEmail(r, u) \/ LoginWithKakao(r, u) PROVE Modest
  BY <1>2, <1>4 DEF SignupWithEmail, LoginWithKakao, Register
<1>5. ASSUME NEW e \in Emails, NEW n \in Nicknames, LookSignup(r, e, n) PROVE Modest
  BY <1>1, <1>5, ModestRequest DEF LookSignup
<1>6. ASSUME NEW s \in States, LookState(r, s) PROVE Modest
  BY <1>1, <1>6, ModestRequest DEF LookState
<1>7. ASSUME Consume(r) PROVE Modest
  BY <1>1, <1>7, ModestRequest DEF Consume
<1>8. ASSUME NEW k \in KakaoIds, Exchange(r, k) PROVE Modest
  <2>1. ASSUME Continue(r, [pc |-> "nickname", k |-> k]) PROVE Modest
    BY <1>1, <2>1, ModestRequest
  <2>2. ASSUME NEW u \in Takes("kakao", k), Continue(r, Issue(u, None)) PROVE Modest
    BY <1>2, <2>2 DEF Takes
  <2> QED
    BY <1>8, <2>1, <2>2 DEF Exchange
<1>9. ASSUME NEW n \in Nicknames, EnsureUniqueNickname(r, n) PROVE Modest
  BY <1>1, <1>9, ModestRequest DEF EnsureUniqueNickname
<1>10. ASSUME NEW u \in Users, NEW n \in Nicknames, LookNickname(r, u, n) PROVE Modest
  BY <1>1, <1>10, ModestRequest DEF LookNickname
<1>11. ASSUME UpdateMyProfile(r) PROVE Modest
  BY <1>1, <1>11, ModestRequest DEF UpdateMyProfile, Finish, Idle
<1> QED
  BY <1>3, <1>4, <1>5, <1>6, <1>7, <1>8, <1>9, <1>10, <1>11 DEF SigningIn

LEMMA PushModest == ASSUME IInv, NEW r \in Requests, Push(r) PROVE Modest
<1>1. token' = token
  BY DEF Push, RegisterDevice, ActiveTokensForUser, PushAllowedFor, LookDevice, Reject, sessions
<1>2. ASSUME Finish(r) PROVE Modest
  BY <1>1, <1>2, ModestRequest DEF Finish, Idle
<1>3. ASSUME RegisterDevice(r) PROVE Modest
  BY <1>2, <1>3 DEF RegisterDevice
<1>4. ASSUME NEW to, Continue(r, [pc |-> "sent", to |-> to]) PROVE Modest
  BY <1>1, <1>4, ModestRequest
<1>5. ASSUME ActiveTokensForUser(r) PROVE Modest
  BY <1>2, <1>4, <1>5 DEF ActiveTokensForUser
<1>6. ASSUME NEW u \in Users, PushAllowedFor(r, u) PROVE Modest
  BY <1>1, <1>6, ModestRequest DEF PushAllowedFor
<1>7. ASSUME NEW u \in Users, NEW d \in Devices, LookDevice(r, u, d) PROVE Modest
  BY <1>1, <1>7, ModestRequest DEF LookDevice
<1>8. ASSUME NEW d \in Devices, Reject(r, d) PROVE Modest
  <2>1. request[r] \in [pc : {"sent"}, to : SUBSET Devices]
    BY <1>8, DeviceTypes, StepFields DEF Reject
  <2>2. PICK q \in [pc : {"sent"}, to : SUBSET Devices] : q = [request[r] EXCEPT !.to = @ \ {d}]
    BY <2>1
  <2>3. q.pc = "sent" /\ (Finish(r) \/ Continue(r, q))
    BY <1>8, <2>2 DEF Reject
  <2> QED
    BY <1>1, <1>2, <2>2, <2>3, ModestRequest
<1> QED
  BY <1>3, <1>5, <1>6, <1>7, <1>8 DEF Push

LEMMA SessionEnded ==
  ASSUME IInv, NEW f \in Tokens, Ended(f), NEW r \in Requests, Session(r)
  PROVE  Ended(f)'
<1>0. /\ request \in [Requests -> Steps] /\ RequestsOK /\ f # None
      /\ token \in [Tokens -> TokenType \cup {NoToken}]
  BY DeviceTypes, TokenTypes, AccountsAssumption DEF IInv
<1>1. CASE RevokeFamily(r)
  <2>1. SameTokens /\ \A t \in Tokens : token'[t].status = "LIVE" => token[t].status = "LIVE"
    BY <1>1, RevokeKeeps DEF RevokeFamily
  <2>2. request' = [request EXCEPT ![r] = Idle] /\ Leaves(Idle, f)
    BY <1>1 DEF RevokeFamily, Finish, Continue, Idle, Leaves
  <2> QED
    BY <2>1, <2>2, EndedStep
<1>2. CASE Rotate(r)
  <2>1. SameTokens /\ \A t \in Tokens : token'[t].status = "LIVE" => token[t].status = "LIVE"
    BY <1>2, RevokeKeeps DEF Rotate
  <2>2. PICK g : g = token[request[r].t].family /\ g # f
    BY <1>2, EndedFacts DEF Rotate
  <2>3. PICK u : u = token[request[r].t].user
    OBVIOUS
  <2>4. \/ request' = [request EXCEPT ![r] = Idle]
        \/ request' = [request EXCEPT ![r] = Issue(u, g)]
    BY <1>2, <2>2, <2>3 DEF Rotate, Finish, Continue
  <2>5. Leaves(Idle, f) /\ Leaves(Issue(u, g), f)
    BY <2>2 DEF Leaves, Idle, Issue
  <2> QED
    BY <2>1, <2>4, <2>5, EndedStep
<1>3. ASSUME NEW t \in Tokens, LookToken(r, t) PROVE Ended(f)'
  <2>1. PICK q : /\ \/ q = [pc |-> "rotate", t |-> t] /\ token[t].status = "LIVE"
                    \/ q.pc = "reuse"
                 /\ request' = [request EXCEPT ![r] = q]
    BY <1>3 DEF LookToken, Start
  <2>2. Leaves(q, f)
    BY <2>1, EndedFacts DEF Leaves
  <2>3. SameTokens /\ token' = token
    BY <1>0, <1>3 DEF SameTokens, LookToken, sessions
  <2> QED
    BY <2>1, <2>2, <2>3, EndedStep
<1>4. ASSUME NEW t \in Tokens, IssueTokenPair(r, t) PROVE Ended(f)'
  <2>1. token[t] = NoToken /\ t # f
    BY <1>4, EndedFacts DEF IssueTokenPair
  <2>2. PICK g : g = (IF request[r].family = None THEN t ELSE request[r].family)
    OBVIOUS
  <2>3. g # f
    BY <1>4, <2>1, <2>2, EndedFacts DEF IssueTokenPair
  <2>4. PICK u : u = request[r].u
    OBVIOUS
  <2>5. /\ token' = [token EXCEPT ![t] = [user |-> u, family |-> g, status |-> "LIVE"]]
        /\ request' = [request EXCEPT ![r] = Idle]
    BY <1>4, <2>2, <2>4 DEF IssueTokenPair, Finish, Continue
  <2>6. \A z \in Tokens : z # t => token'[z] = token[z]
    BY <1>0, <2>5
  <2>7. token'[t].family # f
    BY <1>0, <2>3, <2>5
  <2>8. \A z \in Tokens : ~(token'[z].family = f /\ token'[z].status = "LIVE")
    BY <2>6, <2>7, EndedFacts
  <2>9. \A p \in Requests : request'[p] = Idle \/ request'[p] = request[p]
    BY <1>0, <2>5
  <2>10. \A p \in Requests : request[p].pc = "rotate" => request[p].t \in Tokens \ {t}
    BY <1>0, <2>1, StepFields DEF RequestsOK, Sound
  <2>11. \A p \in Requests : /\ request'[p].pc = "rotate" => token'[request'[p].t].family # f
                             /\ request'[p].pc = "issue" => request'[p].family # f
    BY <2>6, <2>9, <2>10, EndedFacts DEF Idle
  <2> QED
    BY <2>1, <2>6, <2>8, <2>11, EndedFacts DEF Ended, GoesOn, Live, UnderWay
<1> QED
  BY <1>1, <1>2, <1>3, <1>4 DEF Session

LEMMA EndedNext ==
  ASSUME IInv, NEW f \in Tokens, Ended(f), [Next]_vars
  PROVE  Ended(f)'
<1>1. CASE \E r \in Requests : SigningIn(r) \/ Push(r)
  BY <1>1, SigningInModest, PushModest, ModestStep
<1>2. CASE \E r \in Requests : Session(r)
  BY <1>2, SessionEnded
<1>3. ASSUME NEW r \in Requests, Fail(r) PROVE Ended(f)'
  <2>1. Modest
    BY <1>3, ModestRequest DEF Fail, Finish, Idle, sessions
  <2> QED
    BY <2>1, ModestStep
<1>4. CASE \/ \E s \in States : KakaoAuthorizeUrl(s) \/ ExpireState(s)
           \/ \E u \in Users : SetPush(u) \/ \E d \in Devices : RevokeDevice(u, d)
           \/ UNCHANGED vars
  <2>1. Modest
    BY <1>4 DEF Modest, KakaoAuthorizeUrl, ExpireState, SetPush, RevokeDevice, sessions, vars
  <2> QED
    BY <2>1, ModestStep
<1>5. CASE \/ \E t \in Tokens : Expire(t) \/ RevokeRefreshToken(t)
           \/ \E u \in Users : RevokeAllForUser(u)
  <2>1. SameTokens /\ \A t \in Tokens : token'[t].status = "LIVE" => token[t].status = "LIVE"
    BY <1>5, ExpireKeeps, RevokeKeeps DEF RevokeRefreshToken, RevokeAllForUser
  <2>2. request' = request
    BY <1>5 DEF Expire, RevokeRefreshToken, RevokeAllForUser
  <2> QED
    BY <2>1, <2>2, EndedStep
<1> QED
  BY <1>1, <1>2, <1>3, <1>4, <1>5 DEF Next

-----------------------------------------------------------------------------
(* What the reuse of an old token does *)

\* Nothing else answers a reuse.
LEMMA OnlyReuse ==
  ASSUME [Next]_vars
  PROVE  reused' = reused \/ \E r \in Requests : RevokeFamily(r)
<1>1. ASSUME NEW r \in Requests, SigningIn(r) PROVE reused' = reused
  BY <1>1 DEF SigningIn, Login, LoginWithEmail, SignupWithEmail, LoginWithKakao, Register, LookSignup,
              LookState, Consume, Exchange, EnsureUniqueNickname, LookNickname, UpdateMyProfile, sessions
<1>2. ASSUME NEW r \in Requests, Session(r) PROVE reused' = reused \/ RevokeFamily(r)
  BY <1>2 DEF Session, Rotate, IssueTokenPair, LookToken, sessions
<1>3. ASSUME NEW r \in Requests, Push(r) \/ Fail(r) PROVE reused' = reused
  BY <1>3 DEF Push, RegisterDevice, ActiveTokensForUser, PushAllowedFor, LookDevice, Reject, Fail, sessions
<1>4. CASE \/ \E s \in States : KakaoAuthorizeUrl(s) \/ ExpireState(s)
           \/ \E t \in Tokens : Expire(t) \/ RevokeRefreshToken(t)
           \/ \E u \in Users : RevokeAllForUser(u) \/ SetPush(u) \/ \E d \in Devices : RevokeDevice(u, d)
           \/ UNCHANGED vars
  BY <1>4 DEF KakaoAuthorizeUrl, ExpireState, Expire, RevokeRefreshToken, RevokeAllForUser, SetPush,
              RevokeDevice, sessions, vars
<1> QED
  BY <1>1, <1>2, <1>3, <1>4 DEF Next

\* With no rotation under way, all of the family is revoked and nobody holds one.
LEMMA ReuseEnds ==
  ASSUME IInv, NEW r \in Requests, RevokeFamily(r), NEW f \in Tokens,
         reused'[f] = "WHOLE", reused[f] # "WHOLE"
  PROVE  Ended(f)'
<1>1. /\ request \in [Requests -> Steps] /\ RequestsOK /\ FamiliesOK
      /\ token \in [Tokens -> TokenType \cup {NoToken}]
      /\ reused \in [Tokens -> {"NO", "WHOLE", "RACED"}]
  BY DeviceTypes, TokenTypes, Parts DEF IInv, Types
<1>2. PICK t \in Tokens : t = request[r].t /\ token[t] # NoToken
  BY <1>1, StepFields DEF RevokeFamily, RequestsOK, Sound
<1>3. Answer(token[t].family)
  BY <1>2 DEF RevokeFamily
<1>4. token[t].family = f /\ ~UnderWay(f)
  BY <1>1, <1>3 DEF Answer
<1>5. Revoke({z \in Tokens : token[z].family = f})
  BY <1>2, <1>4 DEF RevokeFamily
<1>6. SameTokens
  BY <1>5, RevokeKeeps
<1>7. \A z \in Tokens : token[z].family = f => token'[z].status # "LIVE"
  <2> SUFFICES ASSUME NEW z \in Tokens, token[z].family = f PROVE token'[z].status # "LIVE"
    OBVIOUS
  <2>1. token[z] \in TokenType
    BY <1>1, TokenFields, AccountsAssumption
  <2>2. token[z].status # "NONE"
    BY <2>1 DEF TokenType
  <2>3. token'[z] = [token[z] EXCEPT !.status = "REVOKED"]
    BY <1>5, <2>2 DEF Revoke
  <2> QED
    BY <2>1, <2>3 DEF TokenType
<1>8. \A p \in Requests : request'[p] = Idle \/ request'[p] = request[p]
  BY <1>1 DEF RevokeFamily, Finish, Continue
<1>9. \A p \in Requests : request[p].pc = "rotate" => request[p].t \in Tokens
  BY <1>1, StepFields
<1>10. ~UnderWay(f)'
  BY <1>4, <1>6, <1>8, <1>9 DEF UnderWay, SameTokens, Idle
<1>11. token[f] # NoToken
  BY <1>1, <1>2, <1>4 DEF FamiliesOK
<1> QED
  BY <1>6, <1>7, <1>10, <1>11 DEF Ended, GoesOn, Live, SameTokens

\* A family whose reuse was answered with nothing under way has ended.
Answered == \A f \in Tokens : reused[f] = "WHOLE" => Ended(f)

LEMMA AnsweredNext == IInv /\ Answered /\ [Next]_vars => Answered'
<1> SUFFICES ASSUME IInv, Answered, [Next]_vars, NEW f \in Tokens, reused'[f] = "WHOLE"
             PROVE  Ended(f)'
  BY DEF Answered
<1>1. CASE reused[f] = "WHOLE"
  BY <1>1, EndedNext DEF Answered
<1>2. CASE reused[f] # "WHOLE"
  BY <1>2, OnlyReuse, ReuseEnds
<1> QED
  BY <1>1, <1>2

LEMMA AnsweredAlways == Spec => []Answered
<1>1. Init => Answered
  BY DEF Init, Answered
<1> QED
  BY <1>1, AnsweredNext, Invariance, PTL DEF Spec

\* A session that has ended, by logout, expiry or the reuse of an old token, and has
\* no rotation under way never goes on, whoever sends which of its tokens again; and
\* a reuse ends the session it is of, unless a rotation is under way.
THEOREM EndedCorrect == Spec => EndedStaysEnded
<1> DEFINE Stays == \A f \in Tokens : /\ token[f] # NoToken /\ ~GoesOn(f) => ~GoesOn(f)'
                                      /\ reused'[f] = "WHOLE" => ~GoesOn(f)'
<1>1. IInv /\ Answered /\ [Next]_vars => Stays
  BY EndedNext, AnsweredNext DEF Ended, Answered
<1>2. IInv /\ Answered /\ [Next]_vars => [Stays]_vars
  BY <1>1
<1> QED
  BY Invariance, AnsweredAlways, <1>2, PTL DEF Spec, EndedStaysEnded
=============================================================================
