-------------------------------- MODULE Polls -------------------------------
(* One poll of PollService.  A vote is two reads (the poll, with its expiry, *)
(* and the member's vote for the same option) and then a transaction under   *)
(* READ COMMITTED: it deletes what it has read, or it deletes the member's   *)
(* votes it can see and inserts a new one.  A statement that meets a row     *)
(* another transaction has deleted waits for it and then finds nothing, so   *)
(* what a transaction does shows when it commits.                            *)
EXTENDS Integers, FiniteSets

CONSTANTS Voters,   \* members who can read the room
          Options,  \* the poll's options
          Ids,      \* uuids of poll_votes rows
          Ballots,  \* how many requests the API serves at a time
          NoVoter,  \* whom an idle request is for
          NoOption  \* what an idle request votes for

ASSUME PollsAssumption ==
  /\ IsFiniteSet(Ballots)
  /\ NoVoter \notin Voters
  /\ NoOption \notin Options

VARIABLES multiple, \* allow_multiple
          expired,  \* expires_at is in the past
          votes,    \* poll_votes
          ballot    \* the requests in flight

pollVars == <<multiple, expired, votes, ballot>>

NoBallot == [pc |-> "idle", u |-> NoVoter, o |-> NoOption, drop |-> {}]

\* createForPost: the expiry lies in the future.
PollInit ==
  /\ multiple \in BOOLEAN
  /\ expired = FALSE
  /\ votes = {}
  /\ ballot = [r \in Ballots |-> NoBallot]

-----------------------------------------------------------------------------
VotesOf(u) == {v \in votes : v.u = u}
IdsOf(S) == {v.id : v \in S}
Without(ids) == {v \in votes : v.id \notin ids}
Discard(r) == ballot' = [ballot EXCEPT ![r] = NoBallot]

\* A new uuid is one nobody has ever seen.
Fresh(id) ==
  /\ id \notin IdsOf(votes)
  /\ \A r \in Ballots : id \notin ballot[r].drop

Expire == ~expired /\ expired' = TRUE /\ UNCHANGED <<multiple, votes, ballot>>

\* vote, the reads before the transaction: the poll must not have expired, and
\* whether the member has voted for this option decides which way the toggle goes.
Look(r, u, o) ==
  LET same == {v \in VotesOf(u) : v.o = o} IN
  /\ ballot[r].pc = "idle"
  /\ ~expired
  /\ ballot' = [ballot EXCEPT ![r] =
       [pc |-> IF same = {} THEN "voting" ELSE "undoing", u |-> u, o |-> o,
        drop |-> IdsOf(same)]]
  /\ UNCHANGED <<multiple, expired, votes>>

\* Toggle off.  The vote that was read is deleted by its id; when it is gone the
\* delete fails, and so does the request.
Undo(r) ==
  /\ ballot[r].pc = "undoing"
  /\ ballot[r].drop \subseteq IdsOf(votes)
  /\ votes' = Without(ballot[r].drop)
  /\ Discard(r)
  /\ UNCHANGED <<multiple, expired>>

\* Faulty variant of DropOthers: a single-choice poll keeps the other votes.
DropNothing(r) ==
  /\ ballot[r].pc = "voting"
  /\ ballot' = [ballot EXCEPT ![r] = [@ EXCEPT !.pc = "dropped"]]
  /\ UNCHANGED <<multiple, expired, votes>>

\* Single choice: deleteMany sees the votes committed so far.
DropOthers(r) ==
  /\ ballot[r].pc = "voting"
  /\ ballot' = [ballot EXCEPT ![r] =
       [@ EXCEPT !.pc = "dropped",
                 !.drop = IF multiple THEN {} ELSE IdsOf(VotesOf(ballot[r].u))]]
  /\ UNCHANGED <<multiple, expired, votes>>

\* Faulty variant of Taken: there is no unique constraint.
NeverTaken(u, o, rows) == FALSE

\* Option o already has a vote of voter u.
Taken(u, o, rows) == \E v \in rows : v.u = u /\ v.o = o

\* The insert, and the commit.  (poll, voter, option) is unique.
Insert(r, id) ==
  LET u == ballot[r].u
      o == ballot[r].o
      rest == Without(ballot[r].drop) IN
  /\ ballot[r].pc = "dropped"
  /\ Fresh(id)
  /\ ~Taken(u, o, rest)
  /\ votes' = rest \cup {[id |-> id, u |-> u, o |-> o]}
  /\ Discard(r)
  /\ UNCHANGED <<multiple, expired>>

\* A request that fails: 404 on a vote that is gone, 409 on one that is there
\* already, a lost server.  Its transaction is rolled back.
Abort(r) ==
  /\ ballot[r].pc # "idle"
  /\ Discard(r)
  /\ UNCHANGED <<multiple, expired, votes>>

\* clearVotes, which does not look at the expiry.
ClearVotes(u) ==
  /\ votes' = votes \ VotesOf(u)
  /\ UNCHANGED <<multiple, expired, ballot>>

PollNext ==
  \/ Expire
  \/ \E u \in Voters : ClearVotes(u)
  \/ \E r \in Ballots :
       \/ \E u \in Voters, o \in Options : Look(r, u, o)
       \/ Undo(r)
       \/ DropOthers(r)
       \/ \E id \in Ids : Insert(r, id)
       \/ Abort(r)

PollSpec == PollInit /\ [][PollNext]_pollVars

-----------------------------------------------------------------------------
VoteType == [id : Ids, u : Voters, o : Options]

BallotType == [pc : {"idle", "voting", "undoing", "dropped"}, u : Voters \cup {NoVoter},
                o : Options \cup {NoOption}, drop : SUBSET Ids]

\* Every column and every local of a request has its type, and the keys of
\* poll_votes, id and (poll, voter, option), are unique.
PollTypeOK ==
  /\ multiple \in BOOLEAN
  /\ expired \in BOOLEAN
  /\ votes \subseteq VoteType
  /\ ballot \in [Ballots -> BallotType]
  /\ \A v, w \in votes : v.id = w.id \/ (v.u = w.u /\ v.o = w.o) => v = w

\* On a single-choice poll a member has never more votes than requests are served
\* at a time, however many are cast, undone and cleared and whichever fail: one
\* vote when requests come one by one, and the next vote undoes a race.
OneVotePerRequest ==
  ~multiple => \A u \in Voters : Cardinality(VotesOf(u)) <= Cardinality(Ballots)

AtRest == \A r \in Ballots : ballot[r].pc = "idle"

\* Once a poll has expired and the requests that saw it open have ended, no vote
\* is added for good; votes can still be taken back.
TalliesOnlyShrink ==
  [][expired /\ AtRest => (expired /\ AtRest)' /\ votes' \subseteq votes]_pollVars

\* The service's comment says a single-choice poll rejects a second distinct
\* vote.  Two votes at a time both stay.
SingleChoice == ~multiple => \A u \in Voters : Cardinality(VotesOf(u)) <= 1

=============================================================================
