----------------------------- MODULE Races_proofs ---------------------------
(* Two services that look and then insert, and what a race between requests   *)
(* can leave behind: each row is laid at the door of the request that         *)
(* inserted it, and none at that of one about to insert another.              *)
(* Polls for any number of members, options and requests: its types and keys, *)
(* that an expired poll gets no more votes, and that the votes a member has   *)
(* on a single-choice poll never outnumber the requests served at a time.     *)
(* Inbox for any actors, cap, requests and bound: its types, that the lists   *)
(* of actors stay well formed however stale the merged payloads are, that a   *)
(* race leaves no more rows than it has calls, and that a closed row rests.   *)
EXTENDS Polls, Inbox, FiniteSetTheorems, SequenceTheorems, TLAPS

-----------------------------------------------------------------------------
(* Polls *)

\* What a request in flight is for.
BallotsOK ==
  \A r \in Ballots :
    ballot[r].pc # "idle" => ballot[r].u \in Voters /\ ballot[r].o \in Options

\* Each vote can be laid at the door of a request, the one that cast it: none is
\* answerable for two votes of a member, and one that is about to cast another
\* has seen, and is to delete, the one it is answerable for.
CastBy(f, rows, q) ==
  /\ \A v, w \in rows : v.u = w.u /\ f[v] = f[w] => v = w
  /\ \A r \in Ballots, v \in rows :
       q[r].pc = "dropped" /\ v.u = q[r].u /\ f[v] = r => v.id \in q[r].drop

CastOK ==
  ~multiple => \E f \in [votes -> Ballots] : CastBy(f, votes, ballot)

PollInv == PollTypeOK /\ BallotsOK /\ CastOK

-----------------------------------------------------------------------------
\* With fewer votes and no request about to insert that was not before, the old
\* attribution is still one.
LEMMA FewerVotes ==
  ASSUME CastOK, votes' \subseteq votes, UNCHANGED multiple,
         \A r \in Ballots : ballot'[r].pc = "dropped" => ballot'[r] = ballot[r]
  PROVE  CastOK'
<1> SUFFICES ASSUME ~multiple
             PROVE  \E f \in [votes' -> Ballots] : CastBy(f, votes', ballot')
  BY DEF CastOK
<1>1. PICK f \in [votes -> Ballots] : CastBy(f, votes, ballot)
  BY DEF CastOK
<1> DEFINE g == [v \in votes' |-> f[v]]
<1>2. g \in [votes' -> Ballots]
  OBVIOUS
<1>3. CastBy(g, votes', ballot')
  BY <1>1 DEF CastBy
<1> QED
  BY <1>2, <1>3

-----------------------------------------------------------------------------
\* The invariant holds on a new poll.
LEMMA PollInitInv == PollInit => PollInv
<1> SUFFICES ASSUME PollInit PROVE PollInv
  OBVIOUS
<1> USE DEF PollInit, NoBallot
<1>1. PollTypeOK
  BY DEF PollTypeOK, BallotType
<1>2. BallotsOK
  BY DEF BallotsOK
<1>3. CastOK
  <2> DEFINE f == [v \in {} |-> CHOOSE r \in Ballots : TRUE]
  <2>1. f \in [votes -> Ballots] /\ CastBy(f, votes, ballot)
    BY DEF CastBy
  <2> QED
    BY <2>1 DEF CastOK
<1> QED
  BY <1>1, <1>2, <1>3 DEF PollInv

\* Reading before the transaction.
LEMMA LookInv ==
  ASSUME PollInv, NEW r \in Ballots, NEW u \in Voters, NEW o \in Options, Look(r, u, o)
  PROVE  PollInv'
<1> USE DEF PollInv, Look
<1> DEFINE same == {v \in VotesOf(u) : v.o = o}
           q == [pc |-> IF same = {} THEN "voting" ELSE "undoing", u |-> u, o |-> o,
                 drop |-> IdsOf(same)]
<1>1. q \in BallotType
  BY DEF BallotType, PollTypeOK, VoteType, VotesOf, IdsOf
<1>2. ballot' = [ballot EXCEPT ![r] = q] /\ UNCHANGED <<multiple, expired, votes>>
  OBVIOUS
<1>3. PollTypeOK'
  BY <1>1, <1>2 DEF PollTypeOK
<1>4. BallotsOK'
  BY <1>1, <1>2 DEF BallotsOK, PollTypeOK
<1>5. CastOK'
  <2>1. \A s \in Ballots : ballot'[s].pc = "dropped" => ballot'[s] = ballot[s]
    BY <1>2 DEF PollTypeOK
  <2> QED
    BY <1>2, <2>1, FewerVotes
<1> QED
  BY <1>3, <1>4, <1>5

\* The request's vote, all the votes of a member, or none are gone afterwards,
\* and at most one request has ended.
LEMMA ShrinkInv ==
  ASSUME PollInv, votes' \subseteq votes, UNCHANGED <<multiple, expired>>,
         \/ UNCHANGED ballot
         \/ \E r \in Ballots : Discard(r)
  PROVE  PollInv'
<1> USE DEF PollInv
<1>1. /\ ballot' \in [Ballots -> BallotType]
      /\ \A s \in Ballots : ballot'[s] \in {ballot[s], NoBallot}
  BY DEF PollTypeOK, Discard, NoBallot, BallotType
<1>2. PollTypeOK'
  BY <1>1 DEF PollTypeOK
<1>3. BallotsOK'
  BY <1>1 DEF BallotsOK, NoBallot
<1>4. CastOK'
  <2>1. \A s \in Ballots : ballot'[s].pc = "dropped" => ballot'[s] = ballot[s]
    BY <1>1 DEF NoBallot
  <2> QED
    BY <2>1, FewerVotes
<1> QED
  BY <1>2, <1>3, <1>4

\* The statement that deletes the member's other votes sees every vote this
\* request is answerable for.
LEMMA DropOthersInv ==
  ASSUME PollInv, NEW r \in Ballots, DropOthers(r)
  PROVE  PollInv'
<1> USE DEF PollInv, DropOthers
<1> DEFINE drop == IF multiple THEN {} ELSE IdsOf(VotesOf(ballot[r].u))
           q == [ballot[r] EXCEPT !.pc = "dropped", !.drop = drop]
<1>1. q \in BallotType
  <2>1. drop \in SUBSET Ids
    BY DEF PollTypeOK, VoteType, VotesOf, IdsOf
  <2>2. ballot[r] \in BallotType
    BY DEF PollTypeOK
  <2> HIDE DEF drop
  <2> QED
    BY <2>1, <2>2 DEF BallotType
<1>2. ballot' = [ballot EXCEPT ![r] = q] /\ UNCHANGED <<multiple, expired, votes>>
  OBVIOUS
<1>3. PollTypeOK'
  BY <1>1, <1>2 DEF PollTypeOK
<1>4. BallotsOK'
  BY <1>1, <1>2 DEF BallotsOK, PollTypeOK, BallotType
<1>5. CastOK'
  <2> HIDE DEF DropOthers
  <2> SUFFICES ASSUME ~multiple'
               PROVE  \E f \in [votes' -> Ballots] : CastBy(f, votes', ballot')
    BY DEF CastOK
  <2>1. PICK f \in [votes -> Ballots] : CastBy(f, votes, ballot)
    BY <1>2 DEF CastOK
  <2>2. ASSUME NEW s \in Ballots, NEW v \in votes, ballot'[s].pc = "dropped",
               v.u = ballot'[s].u, f[v] = s
        PROVE  v.id \in ballot'[s].drop
    <3>1. CASE s = r
      <4>1. ballot'[s] = q /\ q.u = ballot[r].u /\ q.drop = drop
        BY <1>2, <3>1 DEF PollTypeOK, BallotType
      <4>2. v.id \in drop
        BY <1>2, <2>2, <4>1 DEF VotesOf, IdsOf
      <4> QED
        BY <4>1, <4>2
    <3>2. CASE s # r
      <4>1. ballot'[s] = ballot[s]
        BY <1>2, <3>2 DEF PollTypeOK
      <4> QED
        BY <2>1, <2>2, <4>1 DEF CastBy
    <3> QED
      BY <3>1, <3>2
  <2>3. CastBy(f, votes', ballot')
    BY <1>2, <2>1, <2>2 DEF CastBy
  <2> QED
    BY <1>2, <2>3
<1> QED
  BY <1>3, <1>4, <1>5

\* The new vote is laid at the door of the request that inserts it; whatever
\* else it was answerable for is deleted by the same transaction.
LEMMA InsertInv ==
  ASSUME PollInv, NEW r \in Ballots, NEW id \in Ids, Insert(r, id)
  PROVE  PollInv'
<1> USE DEF PollInv
<1> DEFINE u == ballot[r].u
           o == ballot[r].o
           new == [id |-> id, u |-> u, o |-> o]
           rest == Without(ballot[r].drop)
<1>1. /\ ballot[r].pc = "dropped"
      /\ Fresh(id)
      /\ ~Taken(u, o, rest)
      /\ votes' = rest \cup {new}
      /\ ballot' = [ballot EXCEPT ![r] = NoBallot]
      /\ UNCHANGED <<multiple, expired>>
  BY DEF Insert, Discard
<1>2. new \in VoteType
  BY <1>1 DEF BallotsOK, VoteType
<1>3. rest \subseteq votes /\ \A v \in rest : v.id \notin ballot[r].drop
  BY DEF Without
<1>4. \A v \in votes : v.id # id
  BY <1>1 DEF Fresh, IdsOf
<1>5. \A v \in rest : ~(v.u = u /\ v.o = o)
  BY <1>1 DEF Taken
<1>6. NoBallot \in BallotType
  BY DEF NoBallot, BallotType
<1>7. PollTypeOK'
  <2>1. votes' \subseteq VoteType
    BY <1>1, <1>2, <1>3 DEF PollTypeOK
  <2>2. \A v, w \in votes' : v.id = w.id \/ (v.u = w.u /\ v.o = w.o) => v = w
    <3> SUFFICES ASSUME NEW v \in votes', NEW w \in votes',
                        v.id = w.id \/ (v.u = w.u /\ v.o = w.o)
                 PROVE  v = w
      OBVIOUS
    <3>1. CASE v \in rest /\ w \in rest
      BY <1>3, <3>1 DEF PollTypeOK
    <3>2. CASE v = new /\ w \in rest
      BY <1>3, <1>4, <1>5, <3>2
    <3>3. CASE v \in rest /\ w = new
      BY <1>3, <1>4, <1>5, <3>3
    <3> QED
      BY <1>1, <3>1, <3>2, <3>3
  <2>3. ballot' \in [Ballots -> BallotType]
    BY <1>1, <1>6 DEF PollTypeOK
  <2> QED
    BY <1>1, <2>1, <2>2, <2>3 DEF PollTypeOK
<1>8. BallotsOK'
  BY <1>1 DEF BallotsOK, PollTypeOK, NoBallot
<1>9. CastOK'
  <2> SUFFICES ASSUME ~multiple
               PROVE  \E g \in [votes' -> Ballots] : CastBy(g, votes', ballot')
    BY <1>1 DEF CastOK
  <2>1. PICK f \in [votes -> Ballots] : CastBy(f, votes, ballot)
    BY DEF CastOK
  <2> DEFINE g == [v \in votes' |-> IF v = new THEN r ELSE f[v]]
  <2>2. g \in [votes' -> Ballots]
    BY <1>1, <1>3
  <2>3. new \notin rest
    BY <1>3, <1>4
  <2>4. g[new] = r /\ \A v \in rest : g[v] = f[v]
    BY <1>1, <2>3
  <2>5. \A v \in rest : v.u = u => f[v] # r
    BY <1>1, <1>3, <2>1 DEF CastBy
  <2>6. \A v, w \in votes' : v.u = w.u /\ g[v] = g[w] => v = w
    <3> SUFFICES ASSUME NEW v \in votes', NEW w \in votes', v.u = w.u, g[v] = g[w]
                 PROVE  v = w
      OBVIOUS
    <3> HIDE DEF g
    <3>1. CASE v \in rest /\ w \in rest
      BY <1>3, <2>1, <2>4, <3>1 DEF CastBy
    <3>2. CASE v = new /\ w \in rest
      BY <2>4, <2>5, <3>2
    <3>3. CASE v \in rest /\ w = new
      BY <2>4, <2>5, <3>3
    <3> QED
      BY <1>1, <3>1, <3>2, <3>3
  <2>7. ASSUME NEW s \in Ballots, NEW v \in votes', ballot'[s].pc = "dropped",
               v.u = ballot'[s].u, g[v] = s
        PROVE  v.id \in ballot'[s].drop
    <3> HIDE DEF g
    <3>1. s # r /\ ballot'[s] = ballot[s]
      BY <1>1, <2>7 DEF PollTypeOK, NoBallot
    <3>2. v \in rest /\ f[v] = s
      BY <1>1, <2>4, <2>7, <3>1
    <3> QED
      BY <1>3, <2>1, <2>7, <3>1, <3>2 DEF CastBy
  <2>8. CastBy(g, votes', ballot')
    BY <2>6, <2>7 DEF CastBy
  <2> QED
    BY <2>2, <2>8
<1> QED
  BY <1>7, <1>8, <1>9

\* Every step keeps the invariant.
LEMMA PollNextInv == PollInv /\ [PollNext]_pollVars => PollInv'
<1> SUFFICES ASSUME PollInv, [PollNext]_pollVars PROVE PollInv'
  OBVIOUS
<1>1. CASE Expire
  <2>1. UNCHANGED <<multiple, votes, ballot>> /\ expired' = TRUE
    BY <1>1 DEF Expire
  <2>2. CastOK'
    BY <2>1, FewerVotes DEF PollInv
  <2> QED
    BY <2>1, <2>2 DEF PollInv, PollTypeOK, BallotsOK
<1>2. ASSUME NEW u \in Voters, ClearVotes(u) PROVE PollInv'
  BY <1>2, ShrinkInv DEF ClearVotes
<1>3. ASSUME NEW r \in Ballots, NEW u \in Voters, NEW o \in Options, Look(r, u, o)
      PROVE  PollInv'
  BY <1>3, LookInv
<1>4. ASSUME NEW r \in Ballots, Undo(r) PROVE PollInv'
  BY <1>4, ShrinkInv DEF Undo, Without
<1>5. ASSUME NEW r \in Ballots, DropOthers(r) PROVE PollInv'
  BY <1>5, DropOthersInv
<1>6. ASSUME NEW r \in Ballots, NEW id \in Ids, Insert(r, id) PROVE PollInv'
  BY <1>6, InsertInv
<1>7. ASSUME NEW r \in Ballots, Abort(r) PROVE PollInv'
  BY <1>7, ShrinkInv DEF Abort
<1>8. CASE UNCHANGED pollVars
  BY <1>8, ShrinkInv DEF pollVars
<1> QED
  BY <1>1, <1>2, <1>3, <1>4, <1>5, <1>6, <1>7, <1>8 DEF PollNext

LEMMA PollInvHolds == PollSpec => []PollInv
BY PollInitInv, PollNextInv, PTL DEF PollSpec

-----------------------------------------------------------------------------
\* The columns and the requests' locals keep their types, and the keys of
\* poll_votes stay unique.
THEOREM PollTypesCorrect == PollSpec => []PollTypeOK
BY PollInvHolds, PTL DEF PollInv

\* A member's votes on a single-choice poll map one to one to requests.
LEMMA VotesAreFew == PollInv => OneVotePerRequest
<1> SUFFICES ASSUME PollInv, ~multiple, NEW u \in Voters
             PROVE  Cardinality(VotesOf(u)) <= Cardinality(Ballots)
  BY DEF OneVotePerRequest
<1>1. PICK f \in [votes -> Ballots] : CastBy(f, votes, ballot)
  BY DEF PollInv, CastOK
<1> DEFINE g == [v \in VotesOf(u) |-> f[v]]
<1>2. g \in Injection(VotesOf(u), Ballots)
  <2>1. g \in [VotesOf(u) -> Ballots]
    BY DEF VotesOf
  <2>2. \A v, w \in VotesOf(u) : g[v] = g[w] => v = w
    BY <1>1 DEF CastBy, VotesOf
  <2> QED
    BY <2>1, <2>2 DEF Injection, IsInjective
<1>3. IsFiniteSet(Ballots)
  BY PollsAssumption
<1> QED
  BY <1>2, <1>3, FS_Injection

\* However many votes are cast, undone and cleared, and whichever requests fail,
\* a member of a single-choice poll has never more votes than requests are
\* served at a time.
THEOREM VotesBounded == PollSpec => []OneVotePerRequest
BY PollInvHolds, VotesAreFew, PTL

\* An expired poll that no request is voting on never gets another vote.
THEOREM ExpiryCorrect == PollSpec => TalliesOnlyShrink
<1>1. ASSUME [PollNext]_pollVars, expired, AtRest
      PROVE  (expired /\ AtRest)' /\ votes' \subseteq votes
  <2>1. CASE UNCHANGED pollVars
    BY <1>1, <2>1 DEF pollVars, AtRest
  <2>2. ASSUME NEW u \in Voters, ClearVotes(u)
        PROVE  (expired /\ AtRest)' /\ votes' \subseteq votes
    BY <1>1, <2>2 DEF ClearVotes, AtRest
  <2>3. ~Expire /\ \A r \in Ballots :
          /\ \A u \in Voters, o \in Options : ~Look(r, u, o)
          /\ ~Undo(r) /\ ~DropOthers(r) /\ ~Abort(r)
          /\ \A id \in Ids : ~Insert(r, id)
    BY <1>1 DEF AtRest, Expire, Look, Undo, DropOthers, Abort, Insert
  <2> QED
    BY <1>1, <2>1, <2>2, <2>3 DEF PollNext
<1> QED
  BY <1>1, PTL DEF PollSpec, TalliesOnlyShrink

-----------------------------------------------------------------------------
(* The inbox *)

\* A list of actors as createOrGroup keeps it.
ListOK(s) ==
  /\ s \in Seq(Actors)
  /\ Len(s) \in 1 .. Cap
  /\ \A j, k \in 1 .. Len(s) : s[j] = s[k] => j = k

\* What a call knows between its two statements; rows are never deleted.
RequestsOK ==
  \A r \in Requests :
    /\ request[r].pc # "idle" => request[r].actor \in Actors
    /\ request[r].pc = "merging" => request[r].row \in Rows /\ ListOK(request[r].seen)

\* Each row that may be merged into can be laid at the door of a request, the
\* one that created it: no two at the same, and none at that of a request that
\* is about to create another.
Attributed(f, rows, q) ==
  /\ \A i, j \in rows : f[i] = f[j] => i = j
  /\ \A r \in Requests, i \in rows : q[r].pc = "creating" => f[i] # r

AttributionOK == \E f \in [Groupable -> Requests] : Attributed(f, Groupable, request)

IInv == TypeOK /\ RequestsOK /\ ActorsAgree /\ AttributionOK

-----------------------------------------------------------------------------
\* Merging an actor into a list and cutting it to the cap gives such a list
\* again, with the actor in it.
LEMMA CappedOK ==
  ASSUME NEW s, ListOK(s), NEW a \in Actors
  PROVE  ListOK(Capped(Merged(s, a))) /\ Among(a, Capped(Merged(s, a)))
<1> USE DEF ListOK
<1> Cap \in Nat \ {0}
  BY InboxAssumption
<1>1. CASE Among(a, s)
  <2>1. Capped(Merged(s, a)) = s
    BY <1>1 DEF Merged, Capped
  <2> QED
    BY <1>1, <2>1
<1>2. CASE ~Among(a, s)
  <2> DEFINE m == Append(s, a)
             n == Len(s)
  <2>1. /\ m \in Seq(Actors)
        /\ Len(m) = n + 1
        /\ \A i \in 1 .. n : m[i] = s[i]
        /\ m[n + 1] = a
    BY AppendProperties
  <2>2. \A j, k \in 1 .. n + 1 : m[j] = m[k] => j = k
    <3>1. \A i \in 1 .. n : s[i] # a
      BY <1>2 DEF Among
    <3> HIDE DEF m
    <3> QED
      BY <2>1, <3>1
  <2>3. Merged(s, a) = m
    BY <1>2 DEF Merged
  <2> HIDE DEF m
  <2>4. CASE n < Cap
    <3>1. Capped(m) = m
      BY <2>1, <2>4 DEF Capped
    <3> QED
      BY <2>1, <2>2, <2>3, <2>4, <3>1 DEF Among
  <2>5. CASE n = Cap
    <3> DEFINE c == SubSeq(m, 2, n + 1)
    <3>1. Capped(m) = c
      BY <2>1, <2>5 DEF Capped
    <3>2. /\ c \in Seq(Actors)
          /\ Len(c) = n
          /\ \A i \in 1 .. n : c[i] = m[i + 1]
      <4>1. \A i \in 2 .. n + 1 : m[i] \in Actors
        BY <2>1
      <4> QED
        BY <4>1, SubSeqProperties
    <3> HIDE DEF c
    <3>3. \A j, k \in 1 .. n : c[j] = c[k] => j = k
      BY <2>2, <3>2
    <3>4. c[n] = a
      BY <2>1, <3>2
    <3> QED
      BY <2>3, <2>5, <3>1, <3>2, <3>3, <3>4 DEF Among
  <2> QED
    BY <2>4, <2>5
<1> QED
  BY <1>1, <1>2

\* A list with one actor is well formed.
LEMMA SingletonOK ==
  ASSUME NEW a \in Actors
  PROVE  ListOK(<<a>>) /\ Among(a, <<a>>)
BY InboxAssumption DEF ListOK, Among

\* A row as ActorsAgree wants it.
RowOK(row) == ListOK(row.actors) /\ Among(row.actor, row.actors)

LEMMA RowsAreOK ==
  ASSUME NEW b \in Seq(RowType)
  PROVE  (\A i \in 1 .. Len(b) : RowOK(b[i])) <=>
         \A i \in 1 .. Len(b) :
           /\ \A j, k \in DOMAIN b[i].actors : b[i].actors[j] = b[i].actors[k] => j = k
           /\ Len(b[i].actors) \in 1 .. Cap
           /\ Among(b[i].actor, b[i].actors)
<1>1. \A i \in 1 .. Len(b) : b[i] \in RowType
  BY ElementOfSeq
<1>2. \A i \in 1 .. Len(b) : /\ b[i].actors \in Seq(Actors)
                             /\ DOMAIN b[i].actors = 1 .. Len(b[i].actors)
  BY <1>1 DEF RowType
<1> QED
  BY <1>2 DEF RowOK, ListOK

\* With no more rows to merge into, and no more calls about to create one, the
\* old attribution is still one.
LEMMA FewerRows ==
  ASSUME AttributionOK, Groupable' \subseteq Groupable,
         \A r \in Requests : request'[r].pc = "creating" => request[r].pc = "creating"
  PROVE  AttributionOK'
<1>1. PICK f \in [Groupable -> Requests] : Attributed(f, Groupable, request)
  BY DEF AttributionOK
<1> DEFINE g == [i \in Groupable' |-> f[i]]
<1>2. g \in [Groupable' -> Requests]
  OBVIOUS
<1>3. Attributed(g, Groupable', request')
  BY <1>1 DEF Attributed
<1> QED
  BY <1>2, <1>3 DEF AttributionOK

-----------------------------------------------------------------------------
\* The invariant holds on an empty inbox.
LEMMA InitInv == Init => IInv
<1> SUFFICES ASSUME Init PROVE IInv
  OBVIOUS
<1> USE DEF Init, Idle
<1>1. TypeOK
  BY InboxAssumption DEF TypeOK, RequestType
<1>2. RequestsOK /\ ActorsAgree
  BY DEF RequestsOK, ActorsAgree, Rows
<1>3. AttributionOK
  <2>1. Groupable = {}
    BY DEF Groupable, Rows
  <2>2. [i \in {} |-> CHOOSE r \in Requests : TRUE] \in [Groupable -> Requests]
    BY <2>1
  <2> QED
    BY <2>1, <2>2 DEF AttributionOK, Attributed
<1> QED
  BY <1>1, <1>2, <1>3 DEF IInv

\* findFirst remembers the actor it was called with, and a row that is there.
LEMMA FindInv ==
  ASSUME IInv, NEW r \in Requests, NEW a \in Actors, Find(r, a)
  PROVE  IInv'
<1> USE DEF IInv
<1>1. inbox' = inbox /\ old' = old
  BY DEF Find
<1>2. Groupable' = Groupable /\ Rows' = Rows
  BY <1>1 DEF Groupable, Rows
<1>3. CASE Groupable = {} /\ request' = [request EXCEPT ![r] = CreatingFor(a)]
  <2>1. CreatingFor(a) = [pc |-> "creating", actor |-> a, row |-> 0, seen |-> <<>>]
    BY DEF CreatingFor
  <2>2. TypeOK'
    BY <1>1, <1>3, <2>1 DEF TypeOK, RequestType
  <2>3. RequestsOK'
    BY <1>2, <1>3, <2>1 DEF RequestsOK, TypeOK
  <2>4. ActorsAgree'
    BY <1>1, <1>2 DEF ActorsAgree
  <2>5. AttributionOK'
    <3>1. [i \in {} |-> r] \in [Groupable' -> Requests]
      BY <1>2, <1>3
    <3> QED
      BY <1>2, <1>3, <3>1 DEF AttributionOK, Attributed
  <2> QED
    BY <2>2, <2>3, <2>4, <2>5
<1>4. ASSUME NEW i \in Newest(Groupable), request' = [request EXCEPT ![r] = Merging(i, a)]
      PROVE  IInv'
  <2>1. i \in Rows /\ i \in Nat
    BY DEF Newest, Groupable, Rows
  <2>2. ListOK(inbox[i].actors)
    <3>1. RowOK(inbox[i])
      BY <2>1, RowsAreOK DEF TypeOK, ActorsAgree, Rows
    <3> QED
      BY <3>1 DEF RowOK
  <2>3. TypeOK'
    BY <1>1, <1>4, <2>1, <2>2 DEF TypeOK, RequestType, Merging, ListOK
  <2>4. RequestsOK'
    BY <1>2, <1>4, <2>1, <2>2 DEF RequestsOK, TypeOK, Merging
  <2>5. ActorsAgree'
    BY <1>1, <1>2 DEF ActorsAgree
  <2>6. \A q \in Requests : request'[q].pc = "creating" => request[q].pc = "creating"
    BY <1>4 DEF TypeOK, Merging
  <2>7. AttributionOK'
    BY <1>2, <2>6, FewerRows
  <2> QED
    BY <2>3, <2>4, <2>5, <2>7
<1> QED
  BY <1>3, <1>4 DEF Find

\* The row written has the actor in it, and is read or not as it was.
LEMMA MergeInv ==
  ASSUME IInv, NEW r \in Requests, Merge(r)
  PROVE  IInv'
<1> USE DEF IInv
<1> DEFINE i == request[r].row
           a == request[r].actor
           row == [read |-> inbox[i].read, actors |-> Capped(Merged(request[r].seen, a)), actor |-> a]
<1>1. /\ i \in Rows
      /\ a \in Actors
      /\ ListOK(request[r].seen)
  BY DEF Merge, RequestsOK
<1>2. /\ inbox' = [inbox EXCEPT ![i] = row]
      /\ old' = old
      /\ request' = [request EXCEPT ![r] = Idle]
  BY DEF Merge, Finish
<1>3. inbox[i] \in RowType
  BY <1>1, ElementOfSeq DEF TypeOK, Rows
<1>4. RowOK(row) /\ row \in RowType /\ row.read = inbox[i].read
  BY <1>1, <1>3, CappedOK DEF RowOK, RowType, ListOK
<1> HIDE DEF row
<1>5. /\ inbox' \in Seq(RowType)
      /\ Len(inbox') = Len(inbox)
      /\ \A j \in Rows : inbox'[j] = IF j = i THEN row ELSE inbox[j]
  <2>1. inbox \in Seq(RowType) /\ i \in 1 .. Len(inbox)
    BY <1>1 DEF TypeOK, Rows
  <2> QED
    BY <1>2, <1>4, <2>1, ExceptSeq DEF Rows
<1>6. Rows' = Rows
  BY <1>5 DEF Rows
<1>7. TypeOK'
  BY <1>2, <1>5 DEF TypeOK, RequestType, Idle
<1>8. RequestsOK'
  BY <1>2, <1>6 DEF RequestsOK, TypeOK, Idle
<1>9. ActorsAgree'
  <2>1. \A j \in Rows : RowOK(inbox[j])
    BY RowsAreOK DEF TypeOK, ActorsAgree, Rows
  <2>2. \A j \in Rows' : RowOK(inbox'[j])
    BY <1>4, <1>5, <1>6, <2>1
  <2> QED
    BY <1>5, <2>2, RowsAreOK DEF ActorsAgree, Rows
<1>10. Groupable' \subseteq Groupable
  BY <1>2, <1>4, <1>5, <1>6 DEF Groupable
<1>11. AttributionOK'
  <2>1. \A q \in Requests : request'[q].pc = "creating" => request[q].pc = "creating"
    BY <1>2 DEF TypeOK, Idle
  <2> QED
    BY <1>10, <2>1, FewerRows
<1> QED
  BY <1>7, <1>8, <1>9, <1>11

\* The new row is attributed to the request that creates it.
LEMMA CreateInv ==
  ASSUME IInv, NEW r \in Requests, Create(r)
  PROVE  IInv'
<1> USE DEF IInv
<1> DEFINE a == request[r].actor
           n == Len(inbox)
           row == [read |-> FALSE, actors |-> <<a>>, actor |-> a]
<1>1. a \in Actors /\ request[r].pc = "creating" /\ n < MaxRows
  BY DEF Create, RequestsOK
<1>2. /\ inbox' = Append(inbox, row)
      /\ old' = old
      /\ request' = [request EXCEPT ![r] = Idle]
  BY DEF Create, Finish
<1>3. RowOK(row) /\ row \in RowType
  BY <1>1, SingletonOK DEF RowOK, RowType, ListOK
<1> HIDE DEF row
<1>4. /\ inbox' \in Seq(RowType)
      /\ n \in Nat
      /\ Len(inbox') = n + 1
      /\ \A j \in 1 .. n : inbox'[j] = inbox[j]
      /\ inbox'[n + 1] = row
  BY <1>2, <1>3, AppendProperties DEF TypeOK
<1>5. Rows' = Rows \cup {n + 1}
  BY <1>4 DEF Rows
<1>6. TypeOK'
  BY <1>1, <1>2, <1>4, InboxAssumption DEF TypeOK, RequestType, Idle
<1>7. RequestsOK'
  BY <1>2, <1>5 DEF RequestsOK, TypeOK, Idle
<1>8. ActorsAgree'
  <2>1. \A j \in Rows : RowOK(inbox[j])
    BY RowsAreOK DEF TypeOK, ActorsAgree, Rows
  <2>2. \A j \in Rows' : RowOK(inbox'[j])
    BY <1>3, <1>4, <1>5, <2>1 DEF Rows
  <2> QED
    BY <1>4, <2>2, RowsAreOK DEF ActorsAgree, Rows
<1>9. AttributionOK'
  <2>1. PICK f \in [Groupable -> Requests] : Attributed(f, Groupable, request)
    BY DEF AttributionOK
  <2> DEFINE g == [i \in Groupable' |-> IF i = n + 1 THEN r ELSE f[i]]
  <2>2. Groupable' \subseteq Groupable \cup {n + 1} /\ n + 1 \notin Groupable
    BY <1>2, <1>4, <1>5 DEF Groupable, Rows
  <2>3. g \in [Groupable' -> Requests]
    BY <2>2
  <2>4. \A i \in Groupable : f[i] # r
    BY <1>1, <2>1 DEF Attributed
  <2>5. \A q \in Requests : request'[q].pc = "creating" => q # r /\ request[q].pc = "creating"
    BY <1>2 DEF TypeOK, Idle
  <2>6. Attributed(g, Groupable', request')
    BY <2>1, <2>2, <2>4, <2>5 DEF Attributed
  <2> QED
    BY <2>3, <2>6 DEF AttributionOK
<1> QED
  BY <1>6, <1>7, <1>8, <1>9

\* Reading rows, their leaving the window and a failing call only take away
\* rows to merge into.
LEMMA ReadInv ==
  ASSUME IInv, UNCHANGED <<old, request>>,
         inbox' \in Seq(RowType), Len(inbox') = Len(inbox),
         \A i \in Rows : /\ inbox'[i].actors = inbox[i].actors
                         /\ inbox'[i].actor = inbox[i].actor
                         /\ inbox[i].read => inbox'[i].read
  PROVE  IInv'
<1> USE DEF IInv
<1>1. Rows' = Rows
  BY DEF Rows
<1>2. TypeOK'
  BY DEF TypeOK
<1>3. RequestsOK'
  BY <1>1 DEF RequestsOK
<1>4. ActorsAgree'
  BY <1>1 DEF ActorsAgree
<1>5. Groupable' \subseteq Groupable
  BY <1>1 DEF Groupable
<1>6. AttributionOK'
  BY <1>5, FewerRows
<1> QED
  BY <1>2, <1>3, <1>4, <1>6

LEMMA MarkReadInv ==
  ASSUME IInv, NEW i \in Rows, MarkRead(i)
  PROVE  IInv'
<1> DEFINE row == [inbox[i] EXCEPT !.read = TRUE]
<1>1. inbox \in Seq(RowType) /\ i \in 1 .. Len(inbox)
  BY DEF IInv, TypeOK, Rows
<1>2. inbox[i] \in RowType
  BY <1>1, ElementOfSeq
<1>3. /\ row \in RowType
      /\ row.actors = inbox[i].actors
      /\ row.actor = inbox[i].actor
      /\ row.read = TRUE
  BY <1>2 DEF RowType
<1> HIDE DEF row
<1>4. inbox' = [inbox EXCEPT ![i] = row] /\ UNCHANGED <<old, request>>
  BY DEF MarkRead, row
<1>5. /\ inbox' \in Seq(RowType)
      /\ Len(inbox') = Len(inbox)
      /\ \A j \in Rows : inbox'[j] = IF j = i THEN row ELSE inbox[j]
  BY <1>1, <1>3, <1>4, ExceptSeq DEF Rows
<1> QED
  BY <1>3, <1>4, <1>5, ReadInv

LEMMA MarkAllReadInv ==
  ASSUME IInv, MarkAllRead
  PROVE  IInv'
<1>1. inbox' = [i \in Rows |-> [inbox[i] EXCEPT !.read = TRUE]] /\ UNCHANGED <<old, request>>
  BY DEF MarkAllRead
<1>2. \A i \in Rows : inbox[i] \in RowType
  BY ElementOfSeq DEF IInv, TypeOK, Rows
<1>3. \A i \in Rows : /\ inbox'[i] \in RowType
                      /\ inbox'[i].actors = inbox[i].actors
                      /\ inbox'[i].actor = inbox[i].actor
                      /\ inbox'[i].read = TRUE
  BY <1>1, <1>2 DEF RowType
<1>4. inbox' \in Seq(RowType) /\ Len(inbox') = Len(inbox)
  <2>1. Len(inbox) \in Nat
    BY DEF IInv, TypeOK
  <2>2. inbox' \in [1 .. Len(inbox) -> RowType]
    BY <1>1, <1>3 DEF Rows
  <2> QED
    BY <2>1, <2>2
<1> QED
  BY <1>1, <1>3, <1>4, ReadInv

LEMMA AgeInv ==
  ASSUME IInv, Age
  PROVE  IInv'
<1> USE DEF IInv
<1>1. inbox' = inbox /\ request' = request /\ old' = old + 1 /\ old < Len(inbox)
  BY DEF Age
<1>2. Rows' = Rows
  BY <1>1 DEF Rows
<1>3. TypeOK'
  BY <1>1 DEF TypeOK
<1>4. RequestsOK'
  BY <1>1, <1>2 DEF RequestsOK
<1>5. ActorsAgree'
  BY <1>1, <1>2 DEF ActorsAgree
<1>6. Groupable' \subseteq Groupable
  BY <1>1, <1>2 DEF Groupable, TypeOK, Rows
<1>7. AttributionOK'
  BY <1>1, <1>6, FewerRows
<1> QED
  BY <1>3, <1>4, <1>5, <1>7

LEMMA FailInv ==
  ASSUME IInv, NEW r \in Requests, Fail(r)
  PROVE  IInv'
<1> USE DEF IInv
<1>1. inbox' = inbox /\ old' = old /\ request' = [request EXCEPT ![r] = Idle]
  BY DEF Fail, Finish
<1>2. Rows' = Rows /\ Groupable' = Groupable
  BY <1>1 DEF Rows, Groupable
<1>3. TypeOK'
  BY <1>1 DEF TypeOK, RequestType, Idle
<1>4. RequestsOK'
  BY <1>1, <1>2 DEF RequestsOK, TypeOK, Idle
<1>5. ActorsAgree'
  BY <1>1, <1>2 DEF ActorsAgree
<1>6. \A q \in Requests : request'[q].pc = "creating" => request[q].pc = "creating"
  BY <1>1 DEF TypeOK, Idle
<1>7. AttributionOK'
  BY <1>2, <1>6, FewerRows
<1> QED
  BY <1>3, <1>4, <1>5, <1>7

LEMMA StutterInv ==
  ASSUME IInv, UNCHANGED vars
  PROVE  IInv'
BY DEF IInv, TypeOK, RequestsOK, ActorsAgree, AttributionOK, Groupable, Rows, vars

\* Every step preserves the invariant.
LEMMA NextInv == IInv /\ [Next]_vars => IInv'
<1> SUFFICES ASSUME IInv, [Next]_vars PROVE IInv'
  OBVIOUS
<1> QED
  BY FindInv, MergeInv, CreateInv, FailInv, MarkReadInv, MarkAllReadInv, AgeInv, StutterInv
     DEF Next

LEMMA InvariantHolds == Spec => []IInv
BY InitInv, NextInv, PTL DEF Spec

-----------------------------------------------------------------------------
\* The columns of the rows and the requests' locals keep their types.
THEOREM TypeCorrect == Spec => []TypeOK
BY InvariantHolds, PTL DEF IInv

\* However stale the payload a call merges into, a row names nobody twice, at
\* most Cap members, and the actor it is filtered by.
THEOREM ActorsCorrect == Spec => []ActorsAgree
BY InvariantHolds, PTL DEF IInv

\* The rows that can be merged into map one to one to requests that are not
\* about to create another.
LEMMA RowsAreFew == IInv => FewUnreadRows
<1> SUFFICES ASSUME IInv PROVE FewUnreadRows
  OBVIOUS
<1> DEFINE T == Requests \ Creating
<1>1. IsFiniteSet(Requests) /\ Creating \subseteq Requests
  BY InboxAssumption DEF Creating
<1>2. IsFiniteSet(T) /\ Cardinality(T) = Cardinality(Requests) - Cardinality(Creating)
  <2>1. Requests \cap Creating = Creating
    BY <1>1
  <2> QED
    BY <1>1, <2>1, FS_Difference
<1>3. PICK f \in [Groupable -> Requests] : Attributed(f, Groupable, request)
  BY DEF IInv, AttributionOK
<1>4. f \in Injection(Groupable, T)
  <2>1. f \in [Groupable -> T]
    BY <1>3 DEF Attributed, Creating
  <2>2. \A i, j \in Groupable : f[i] = f[j] => i = j
    BY <1>3 DEF Attributed
  <2> QED
    BY <2>1, <2>2 DEF Injection, IsInjective
<1> HIDE DEF T
<1>5. IsFiniteSet(Groupable) /\ Cardinality(Groupable) <= Cardinality(T)
  BY <1>2, <1>4, FS_Injection
<1>6. /\ Cardinality(Groupable) \in Nat
      /\ Cardinality(Creating) \in Nat
      /\ Cardinality(Requests) \in Nat
  BY <1>1, <1>5, FS_CardinalityType, FS_Subset
<1> QED
  BY <1>2, <1>5, <1>6 DEF FewUnreadRows

\* A race leaves no more unread rows of a group than it has calls.
THEOREM RowsBounded == Spec => []FewUnreadRows
BY InvariantHolds, RowsAreFew, PTL

\* No step adds anybody to a closed row, or opens it again.
LEMMA ClosedStays ==
  ASSUME IInv, [Next]_vars, NEW i \in Rows, Closed(i)
  PROVE  Closed(i)' /\ inbox'[i].actors = inbox[i].actors
<1> USE DEF Closed
<1>1. \A j \in Rows : inbox[j] \in RowType
  BY ElementOfSeq DEF IInv, TypeOK, Rows
<1>2. i \in Nat /\ old \in Nat /\ inbox \in Seq(RowType) /\ Len(inbox) \in Nat
  BY DEF IInv, TypeOK, Rows
<1>3. request \in [Requests -> RequestType]
  BY DEF IInv, TypeOK
<1>4. ASSUME NEW r \in Requests, NEW a \in Actors, Find(r, a)
      PROVE  Closed(i)' /\ inbox'[i].actors = inbox[i].actors
  <2>1. inbox' = inbox /\ old' = old /\ Rows' = Rows
    BY <1>4 DEF Find, Rows
  <2>2. \A q \in Requests : request'[q].pc = "merging" => request'[q].row # i
    <3>1. CASE request' = [request EXCEPT ![r] = CreatingFor(a)]
      BY <1>3, <3>1 DEF CreatingFor
    <3>2. ASSUME NEW j \in Newest(Groupable), request' = [request EXCEPT ![r] = Merging(j, a)]
          PROVE  \A q \in Requests : request'[q].pc = "merging" => request'[q].row # i
      <4>1. j # i
        BY <1>2 DEF Newest, Groupable, Rows
      <4> QED
        BY <1>3, <3>2, <4>1 DEF Merging
    <3> QED
      BY <1>4, <3>1, <3>2 DEF Find
  <2> QED
    BY <2>1, <2>2
<1>5. ASSUME NEW r \in Requests, Merge(r)
      PROVE  Closed(i)' /\ inbox'[i].actors = inbox[i].actors
  <2>1. /\ request[r].row # i
        /\ request' = [request EXCEPT ![r] = Idle]
        /\ old' = old
    BY <1>5 DEF Merge, Finish
  <2>2. inbox'[i] = inbox[i] /\ Rows' = Rows
    BY <1>2, <1>5, <2>1 DEF Merge, Rows
  <2> QED
    BY <1>3, <2>1, <2>2 DEF Idle
<1>6. ASSUME NEW r \in Requests, Create(r)
      PROVE  Closed(i)' /\ inbox'[i].actors = inbox[i].actors
  <2>1. old' = old /\ request' = [request EXCEPT ![r] = Idle]
    BY <1>6 DEF Create, Finish
  <2>2. inbox'[i] = inbox[i] /\ i \in Rows'
    BY <1>2, <1>6 DEF Create, Rows
  <2> QED
    BY <1>3, <2>1, <2>2 DEF Idle
<1>7. ASSUME NEW r \in Requests, Fail(r)
      PROVE  Closed(i)' /\ inbox'[i].actors = inbox[i].actors
  BY <1>3, <1>7 DEF Fail, Finish, Idle, Rows
<1>8. ASSUME NEW j \in Rows, MarkRead(j)
      PROVE  Closed(i)' /\ inbox'[i].actors = inbox[i].actors
  <2>1. /\ inbox' = [inbox EXCEPT ![j] = [inbox[j] EXCEPT !.read = TRUE]]
        /\ old' = old
        /\ request' = request
    BY <1>8 DEF MarkRead
  <2>2. /\ inbox'[i].actors = inbox[i].actors
        /\ inbox[i].read => inbox'[i].read
        /\ Rows' = Rows
    BY <1>1, <1>2, <2>1 DEF Rows, RowType
  <2> QED
    BY <2>1, <2>2
<1>9. CASE MarkAllRead
  <2>1. /\ inbox' = [j \in Rows |-> [inbox[j] EXCEPT !.read = TRUE]]
        /\ old' = old
        /\ request' = request
    BY <1>9 DEF MarkAllRead
  <2>2. /\ inbox'[i].actors = inbox[i].actors
        /\ inbox'[i].read
        /\ i \in Rows'
    BY <1>1, <1>2, <2>1 DEF Rows, RowType
  <2> QED
    BY <2>1, <2>2
<1>10. CASE Age
  BY <1>2, <1>10 DEF Age, Rows
<1>11. CASE UNCHANGED vars
  BY <1>11 DEF vars, Rows
<1> QED
  BY <1>4, <1>5, <1>6, <1>7, <1>8, <1>9, <1>10, <1>11 DEF Next

\* A row that has been read, or has left the window, keeps its actors for good
\* once the calls that had found it have ended.
THEOREM RestCorrect == Spec => ClosedRowsRest
<1>1. IInv /\ [Next]_vars =>
        \A i \in Rows : Closed(i) => Closed(i)' /\ inbox'[i].actors = inbox[i].actors
  BY ClosedStays
<1> QED
  BY <1>1, InvariantHolds, PTL DEF Spec, ClosedRowsRest
=============================================================================
