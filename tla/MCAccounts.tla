---------------------------- MODULE MCAccounts ----------------------------
(* Accounts in three settings, one of which is chosen at the start: members   *)
(* sign up, in and are renamed; tokens are rotated; pushes are delivered.     *)
EXTENDS Accounts, TLC

CONSTANTS ann, off, new1, new2, k1, k2, e1, n0, n1, n2, n3, t1, t2, t3

VARIABLE setting

MCUsers == {ann, off, new1, new2}
MCKakaoEmail == k1 :> e1 @@ k2 :> None
MCKakaoName == k1 :> n1 @@ k2 :> n1

\* uuids are taken in a fixed order, for one is as good as another.
FirstFree(order, free(_)) ==
  {order[i] : i \in {i \in DOMAIN order : free(order[i]) /\ \A j \in 1..(i - 1) : ~free(order[j])}}
NewUser == FirstFree(<<new1, new2>>, LAMBDA u : ~Exists(u))
NewToken == FirstFree(<<t1, t2, t3>>, LAMBDA t : token[t] = NoToken)

MCInit ==
  /\ Init /\ account[ann].nickname = n0 /\ account[off].nickname = n3
  /\ setting \in {"accounts", "sessions", "devices"}

Members ==
  /\ setting = "accounts"
  /\ \/ \E r \in Requests :
          \/ \E u \in NewUser : SignupWithEmail(r, u) \/ LoginWithKakao(r, u)
          \/ LoginWithEmail(r, new1)
          \/ \E n \in {n0, n1} : LookSignup(r, e1, n)
          \/ \E s \in States : LookState(r, s)
          \/ Consume(r)
          \/ \E k \in KakaoIds : Exchange(r, k)
          \/ \E n \in Nicknames : EnsureUniqueNickname(r, n)
          \/ \E u \in {ann, new1}, n \in {n0, n1} : LookNickname(r, u, n)
          \/ UpdateMyProfile(r)
          \/ \E t \in NewToken : IssueTokenPair(r, t)
          \/ Fail(r)
     \/ \E s \in States : KakaoAuthorizeUrl(s) \/ ExpireState(s)

Rotations ==
  /\ setting = "sessions"
  /\ \/ \E r \in Requests : \/ Login(r, ann) \/ Login(r, off)
                            \/ RevokeFamily(r) \/ Rotate(r) \/ Fail(r)
                            \/ \E t \in NewToken : IssueTokenPair(r, t)
                            \/ \E t \in Tokens : LookToken(r, t)
     \/ \E t \in Tokens : Expire(t) \/ RevokeRefreshToken(t)
     \/ RevokeAllForUser(ann)

Pushes ==
  /\ setting = "devices"
  /\ \/ \E r \in Requests : Push(r) \/ Fail(r)
     \/ \E u \in Users : SetPush(u) \/ \E d \in Devices : RevokeDevice(u, d)

MCNext == (Members \/ Rotations \/ Pushes) /\ UNCHANGED setting

MCSpec == MCInit /\ [][MCNext]_<<vars, setting>>
=============================================================================
