---------------------------- MODULE Contributions ---------------------------
(* The knowledge contribution workflow of KnowledgeContributionService:     *)
(* members propose a new block or an edit of one, curators approve, reject  *)
(* or send back, authors withdraw.  Every HTTP request is a little process: *)
(* it reads the row and checks it, and only later opens the transaction     *)
(* that writes.  Transactions run under READ COMMITTED: what one reads is a *)
(* step of its own, what it writes appears when it commits.                 *)
EXTENDS Integers, FiniteSets

CONSTANTS Users,          \* members of the club
          Curators,       \* the members the resolve endpoint admits
          Contributions,  \* identities of knowledge_contributions rows
          Blocks,         \* identities of knowledge_blocks rows of one hub
          SeedBlocks,     \* the blocks the hub starts with
          Requests,       \* how many requests the API serves at a time
          NoOne,          \* SQL NULL in a user column
          NoBlock,        \* SQL NULL in target_block_id
          NoContribution, \* what an idle request works on
          SeedText,       \* the text a seeded block starts with
          NoText          \* the text of a row that does not exist

ASSUME ContributionsAssumption ==
  /\ Curators \subseteq Users
  /\ SeedBlocks \subseteq Blocks
  /\ IsFiniteSet(Blocks)
  /\ NoOne \notin Users
  /\ NoBlock \notin Blocks
  /\ NoContribution \notin Contributions
  /\ SeedText \notin Contributions
  /\ NoText \notin Contributions \cup {SeedText}

VARIABLES row,         \* knowledge_contributions
          block,       \* knowledge_blocks
          revisions,   \* knowledge_block_revisions
          reputation,  \* contribution_reputation
          notified,    \* CONTRIBUTION_RESOLVED notification rows, counted
          request      \* the requests in flight

tables == <<row, block, revisions, reputation, notified>>
vars == <<row, block, revisions, reputation, notified, request>>

Verdicts == {"APPROVED", "REJECTED", "NEEDS_CHANGES"}
Statuses == {"ABSENT", "PENDING", "WITHDRAWN"} \cup Verdicts

\* A proposal's type, title and body are abstracted to the identity of its
\* contribution: no two proposals carry the same text.
Texts == Contributions \cup {SeedText}

NewRow == [status |-> "ABSENT", contributor |-> NoOne, target |-> NoBlock,
           resolvedBy |-> NoOne, snapshot |-> NoText]

NoReputation == [approved |-> 0, rejected |-> 0, needsChanges |-> 0, score |-> 0]

Idle == [pc |-> "idle", c |-> NoContribution, by |-> NoOne, verdict |-> "ABSENT",
         seen |-> NoText, sortOrder |-> 0, version |-> 0]

Init ==
  /\ row = [c \in Contributions |-> NewRow]
  /\ \E order \in [Blocks -> 0 .. Cardinality(SeedBlocks)] :
       block = [b \in Blocks |->
                  [text |-> IF b \in SeedBlocks THEN SeedText ELSE NoText,
                   sortOrder |-> IF b \in SeedBlocks THEN order[b] ELSE 0]]
  /\ \E backfilled \in SUBSET SeedBlocks :
       revisions = {[block |-> b, version |-> 1, text |-> SeedText,
                     changedBy |-> NoOne] : b \in backfilled}
  /\ reputation = [u \in Users |-> NoReputation]
  /\ notified = [c \in Contributions |-> [v \in Verdicts |-> 0]]
  /\ request = [r \in Requests |-> Idle]

-----------------------------------------------------------------------------
Exists(b) == block[b].text # NoText
Target(r) == row[request[r].c].target
Goto(r, pc) == request' = [request EXCEPT ![r] = [@ EXCEPT !.pc = pc]]
Finish(r) == request' = [request EXCEPT ![r] = Idle]

\* aggregate(_max) ?? 0
MaxOrZero(S) == IF S = {} THEN 0 ELSE CHOOSE m \in S : \A n \in S : n <= m

VersionsOf(b) == {v.version : v \in {w \in revisions : w.block = b}}

\* Faulty variant of Locked: the update takes no row lock.
LockedNever(b) == FALSE

\* An open transaction that has updated b holds its row lock until it ends.
Locked(b) ==
  \E r \in Requests : request[r].pc \in {"locked", "versioned"} /\ Target(r) = b

\* Faulty variant of Score: no GREATEST(0, ...).
ScoreUnclamped(rep) == 30 * rep.approved - 10 * rep.rejected - 5 * rep.needsChanges

\* weighted_score in tenths; withdrawn_count is never written by the service.
Score(rep) ==
  LET raw == 30 * rep.approved - 10 * rep.rejected - 5 * rep.needsChanges
  IN  IF raw > 0 THEN raw ELSE 0

Counted(rep, verdict) ==
  CASE verdict = "APPROVED" -> [rep EXCEPT !.approved = @ + 1]
    [] verdict = "REJECTED" -> [rep EXCEPT !.rejected = @ + 1]
    [] verdict = "NEEDS_CHANGES" -> [rep EXCEPT !.needsChanges = @ + 1]

\* Faulty variant of BumpReputation: the score is computed before the count.
BumpReputationStale(u, verdict) ==
  reputation' = [reputation EXCEPT
    ![u] = [Counted(@, verdict) EXCEPT !.score = Score(reputation[u])]]

\* Increment one counter, then recompute the score from all of them.
BumpReputation(u, verdict) ==
  LET rep == Counted(reputation[u], verdict)
  IN  reputation' = [reputation EXCEPT ![u] = [rep EXCEPT !.score = Score(rep)]]

Notify(c, verdict) == notified' = [notified EXCEPT ![c][verdict] = @ + 1]

InsertRevision(b, version, r) ==
  revisions' = revisions \cup
    {[block |-> b, version |-> version, text |-> request[r].c,
      changedBy |-> row[request[r].c].contributor]}

-----------------------------------------------------------------------------
\* submit: the target, when there is one, must be a block of the hub.
Submit(c, u, b) ==
  /\ row[c].status = "ABSENT"
  /\ b # NoBlock => Exists(b)
  /\ row' = [row EXCEPT ![c] = [@ EXCEPT !.status = "PENDING", !.contributor = u, !.target = b]]
  /\ UNCHANGED <<block, revisions, reputation, notified, request>>

\* Faulty variant of Check: any row will do.
CheckAnyStatus(r, c, u, verdict) ==
  /\ request[r].pc = "idle"
  /\ row[c].status # "ABSENT"
  /\ request' = [request EXCEPT ![r] =
       [Idle EXCEPT !.pc = "checked", !.c = c, !.by = u, !.verdict = verdict]]
  /\ UNCHANGED tables

\* A request that found the row PENDING goes on with what it has read.
Check(r, c, u, verdict) ==
  /\ request[r].pc = "idle"
  /\ row[c].status = "PENDING"
  /\ request' = [request EXCEPT ![r] =
       [Idle EXCEPT !.pc = "checked", !.c = c, !.by = u, !.verdict = verdict,
                    !.seen = IF row[c].target = NoBlock THEN NoText
                             ELSE block[row[c].target].text]]
  /\ UNCHANGED tables

\* withdraw, first half: only the contributor may.
CheckWithdraw(r, c) == Check(r, c, row[c].contributor, "WITHDRAWN")

\* resolve, first half: nobody resolves a contribution of their own.
CheckResolve(r, c, u, verdict) ==
  /\ row[c].contributor # u
  /\ Check(r, c, u, verdict)

Withdraw(r) ==
  /\ request[r].pc = "checked"
  /\ request[r].verdict = "WITHDRAWN"
  /\ row' = [row EXCEPT ![request[r].c] = [@ EXCEPT !.status = "WITHDRAWN"]]
  /\ Finish(r)
  /\ UNCHANGED <<block, revisions, reputation, notified>>

\* What every verdict's transaction ends with.
Credit(r) ==
  /\ BumpReputation(row[request[r].c].contributor, request[r].verdict)
  /\ Notify(request[r].c, request[r].verdict)
  /\ Finish(r)

Decline(r) ==
  /\ request[r].pc = "checked"
  /\ request[r].verdict \in {"REJECTED", "NEEDS_CHANGES"}
  /\ row' = [row EXCEPT ![request[r].c] =
       [@ EXCEPT !.status = request[r].verdict, !.resolvedBy = request[r].by]]
  /\ Credit(r)
  /\ UNCHANGED <<block, revisions>>

Approving(r) == request[r].pc = "checked" /\ request[r].verdict = "APPROVED"

\* _applyApprove, edit: block.update waits for the row lock and keeps it.
LockBlock(r) ==
  /\ Approving(r)
  /\ Target(r) # NoBlock
  /\ ~Locked(Target(r))
  /\ Goto(r, "locked")
  /\ UNCHANGED tables

\* Faulty variant of ReadMaxVersion: the current version, not the next one.
ReadLastVersion(r) ==
  /\ request[r].pc = "locked"
  /\ request' = [request EXCEPT ![r] = [@ EXCEPT !.pc = "versioned",
       !.version = MaxOrZero(VersionsOf(Target(r)))]]
  /\ UNCHANGED tables

ReadMaxVersion(r) ==
  /\ request[r].pc = "locked"
  /\ request' = [request EXCEPT ![r] = [@ EXCEPT !.pc = "versioned",
       !.version = MaxOrZero(VersionsOf(Target(r))) + 1]]
  /\ UNCHANGED tables

VersionTaken(b, version) == version \in VersionsOf(b)

\* The snapshot is the text the request read before the transaction began.
CommitEdit(r) ==
  LET c == request[r].c IN
  /\ request[r].pc = "versioned"
  /\ ~VersionTaken(Target(r), request[r].version)
  /\ block' = [block EXCEPT ![Target(r)].text = c]
  /\ row' = [row EXCEPT ![c] = [@ EXCEPT !.status = "APPROVED",
       !.resolvedBy = request[r].by, !.snapshot = request[r].seen]]
  /\ InsertRevision(Target(r), request[r].version, r)
  /\ Credit(r)

\* _applyApprove, propose new: the end of the hub is read first ...
ReadMaxOrder(r) ==
  /\ Approving(r)
  /\ Target(r) = NoBlock
  /\ request' = [request EXCEPT ![r] = [@ EXCEPT !.pc = "ordered",
       !.sortOrder = MaxOrZero({block[b].sortOrder : b \in {x \in Blocks : Exists(x)}}) + 1]]
  /\ UNCHANGED tables

\* ... and nothing keeps another transaction from reading the same one.
CommitNew(r, b) ==
  LET c == request[r].c IN
  /\ request[r].pc = "ordered"
  /\ ~Exists(b)
  /\ block' = [block EXCEPT ![b] = [text |-> c, sortOrder |-> request[r].sortOrder]]
  /\ row' = [row EXCEPT ![c] =
       [@ EXCEPT !.status = "APPROVED", !.resolvedBy = request[r].by]]
  /\ InsertRevision(b, MaxOrZero(VersionsOf(b)) + 1, r)
  /\ Credit(r)

\* A transaction that fails, times out or loses its server is rolled back; so
\* is one whose revision meets the unique constraint (block_id, version).
Abort(r) ==
  /\ request[r].pc # "idle"
  /\ Finish(r)
  /\ UNCHANGED tables

Begin(r) ==
  \E c \in Contributions :
    \/ CheckWithdraw(r, c)
    \/ \E u \in Curators, v \in Verdicts : CheckResolve(r, c, u, v)

Continue(r) ==
  \/ Withdraw(r)
  \/ Decline(r)
  \/ ReadMaxVersion(r)
  \/ CommitEdit(r)
  \/ ReadMaxOrder(r)
  \/ \E b \in Blocks : CommitNew(r, b)

Next ==
  \/ \E c \in Contributions, u \in Users, b \in Blocks \cup {NoBlock} : Submit(c, u, b)
  \/ \E r \in Requests : Begin(r) \/ LockBlock(r) \/ Continue(r) \/ Abort(r)

Spec == Init /\ [][Next]_vars

-----------------------------------------------------------------------------
RowType == [status : Statuses, contributor : Users \cup {NoOne},
            target : Blocks \cup {NoBlock}, resolvedBy : Users \cup {NoOne},
            snapshot : Texts \cup {NoText}]

BlockType == [text : Texts \cup {NoText}, sortOrder : Nat]

RevisionType == [block : Blocks, version : Nat \ {0}, text : Texts,
                 changedBy : Users \cup {NoOne}]

ReputationType == [approved : Nat, rejected : Nat, needsChanges : Nat, score : Nat]

RequestType == [pc : {"idle", "checked", "locked", "versioned", "ordered"},
                c : Contributions \cup {NoContribution}, by : Users \cup {NoOne},
                verdict : Statuses, seen : Texts \cup {NoText},
                sortOrder : Nat, version : Nat]

\* Every column and every local of a request holds a value of its type.
TypeOK ==
  /\ row \in [Contributions -> RowType]
  /\ block \in [Blocks -> BlockType]
  /\ revisions \subseteq RevisionType
  /\ reputation \in [Users -> ReputationType]
  /\ notified \in [Contributions -> [Verdicts -> Nat]]
  /\ request \in [Requests -> RequestType]

RevisionsBy(u) == {v \in revisions : v.changedBy = u}
RevisionsOf(c) == {v \in revisions : v.text = c}
InFlight(c) == \E r \in Requests : request[r].c = c

\* The four tables a verdict writes never disagree, whatever the interleaving
\* and wherever a request dies: a member's approved_count is the number of
\* revisions attributed to the member, the score is the formula of the counters,
\* and each revision of a contribution was announced once to its contributor.
LedgersAgree ==
  /\ \A u \in Users : /\ reputation[u].approved = Cardinality(RevisionsBy(u))
                      /\ reputation[u].score = Score(reputation[u])
  /\ \A c \in Contributions : notified[c]["APPROVED"] = Cardinality(RevisionsOf(c))

\* The revisions of a block are numbered 1, 2, ... without a gap or a repeat,
\* the newest one is the text readers get, and two approvals of edits of the
\* same block never compute the same version, so the unique constraint on
\* (block_id, version) is never what stops one of them.
HistoryIntact ==
  /\ \A b \in Blocks : VersionsOf(b) = 1 .. MaxOrZero(VersionsOf(b))
  /\ \A v, w \in revisions : v.block = w.block /\ v.version = w.version => v = w
  /\ \A v \in revisions :
       v.version = MaxOrZero(VersionsOf(v.block)) => block[v.block].text = v.text
  /\ \A r \in Requests :
       request[r].pc = "versioned" => ~VersionTaken(Target(r), request[r].version)

Settled(c) == row[c].status \notin {"ABSENT", "PENDING"} /\ ~InFlight(c)

\* Once a contribution has left PENDING and the requests that saw it PENDING
\* have ended, no request works on it again, and its verdict, its snapshot, its
\* revisions and what was announced about it are final.
SettledIsFinal ==
  [][\A c \in Contributions :
       Settled(c) => Settled(c)' /\ UNCHANGED <<row[c], RevisionsOf(c), notified[c]>>]_vars

\* Readers see an append-only history per block: the tables implement
\* BlockHistory, each committed approval being one Create or one Edit of it.
History == INSTANCE BlockHistory WITH
  Texts <- Contributions, InitialText <- SeedText,
  shown <- [b \in Blocks |-> block[b].text],
  history <- [b \in Blocks |->
     [i \in 1 .. MaxOrZero(VersionsOf(b)) |->
        (CHOOSE v \in revisions : v.block = b /\ v.version = i).text]]
AppendOnlyHistory == History!Spec

\* A comment says the unique constraint on (block_id, version) surfaces races
\* between concurrent approvals: at most one approval of a contribution would
\* take effect.  It is not so.
AppliedOnce == \A c \in Contributions : Cardinality(RevisionsOf(c)) <= 1

\* The schema calls snapshot_* the audit snapshot of the overwritten content:
\* the text of the revision just before the contribution's own.  It is not so.
SnapshotIsOverwritten ==
  \A v, w \in revisions :
    /\ v.text # SeedText
    /\ RevisionsOf(v.text) = {v}
    /\ row[v.text].status = "APPROVED"
    /\ w.block = v.block
    /\ w.version = v.version - 1
    => row[v.text].snapshot = w.text

=============================================================================
