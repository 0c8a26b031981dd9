------------------------- MODULE Contributions_proofs -----------------------
(* Proofs about Contributions, for any number of members, blocks, proposals *)
(* and concurrent requests.                                                 *)
EXTENDS Contributions, Sequences, FiniteSetTheorems, SequenceTheorems,
        WellFoundedInduction, TLAPS

-----------------------------------------------------------------------------
(* MaxOrZero, the translation of aggregate(_max) ?? 0. *)

\* A bounded nonempty set of naturals has a greatest element, the one that
\* aggregate(_max) returns: max - x is least for it.
LEMMA GreatestExists ==
  ASSUME NEW S \in SUBSET Nat, S # {}, NEW m \in Nat, \A x \in S : x <= m
  PROVE  \E g \in S : \A x \in S : x <= g
<1> DEFINE T == {m - x : x \in S}
<1>1. T \subseteq Nat /\ T # {}
  <2>1. \A x \in S : m - x \in Nat
    OBVIOUS
  <2>2. T \subseteq Nat
    BY <2>1
  <2>3. T # {}
    <3>1. PICK x \in S : TRUE
      OBVIOUS
    <3>2. m - x \in T
      BY <3>1
    <3> QED BY <3>2
  <2> QED BY <2>2, <2>3
<1>2. PICK t \in T : \A y \in T : ~(<<y, t>> \in OpToRel(<, Nat))
  <2> HIDE DEF T
  <2> QED BY <1>1, NatLessThanWellFounded, WFMin
<1>3. PICK g \in S : t = m - g
  OBVIOUS
<1>4. \A x \in S : ~(m - x < t)
  <2> SUFFICES ASSUME NEW x \in S, m - x < t PROVE FALSE
    OBVIOUS
  <2>1. m - x \in T /\ m - x \in Nat /\ t \in Nat
    BY <1>1
  <2>2. <<m - x, t>> \in OpToRel(<, Nat)
    BY <2>1 DEF OpToRel
  <2> QED BY <1>2, <2>1, <2>2
<1> QED BY <1>3, <1>4

\* aggregate(_max) ?? 0 over a bounded set of naturals is a natural, an upper
\* bound of the set, and a member of it unless the set is empty.
LEMMA MaxOrZeroOfBounded ==
  ASSUME NEW S \in SUBSET Nat, NEW m \in Nat, \A x \in S : x <= m
  PROVE  /\ MaxOrZero(S) \in Nat
         /\ S # {} => MaxOrZero(S) \in S
         /\ \A x \in S : x <= MaxOrZero(S)
<1>1. CASE S = {}
  BY <1>1 DEF MaxOrZero
<1>2. CASE S # {}
  <2>1. \E g \in S : \A x \in S : x <= g
    BY <1>2, GreatestExists
  <2> QED BY <1>2, <2>1 DEF MaxOrZero
<1> QED BY <1>1, <1>2

\* Over the version numbers 1, ..., n it is n.
LEMMA MaxOrZeroOfInterval ==
  ASSUME NEW n \in Nat PROVE MaxOrZero(1 .. n) = n
<1>1. /\ 1 .. n \subseteq Nat
      /\ \A x \in 1 .. n : x <= n
      /\ n > 0 => n \in 1 .. n
  OBVIOUS
<1>2. /\ 1 .. n # {} => MaxOrZero(1 .. n) \in 1 .. n
      /\ \A x \in 1 .. n : x <= MaxOrZero(1 .. n)
  BY <1>1, MaxOrZeroOfBounded
<1>3. CASE n = 0
  BY <1>3 DEF MaxOrZero
<1>4. CASE n > 0
  BY <1>1, <1>2, <1>4
<1> QED BY <1>3, <1>4

-----------------------------------------------------------------------------
(* The inductive invariant.  HistoryIntact is not inductive: it needs to     *)
(* know that what a request has read still holds when it commits.            *)

\* A row in use has a member for contributor and, for target, nothing or an
\* existing block; a request in flight works on such a row.
InFlightOK ==
  /\ \A c \in Contributions : row[c].status # "ABSENT" =>
       /\ row[c].contributor \in Users
       /\ row[c].target # NoBlock => Exists(row[c].target)
  /\ \A r \in Requests : request[r].pc # "idle" =>
       /\ request[r].c \in Contributions
       /\ request[r].by \in Users
       /\ row[request[r].c].status # "ABSENT"
       /\ request[r].pc # "checked" => request[r].verdict = "APPROVED"

\* At most one open transaction holds the row lock of a block, and it has one.
LockOK ==
  /\ \A r \in Requests :
       request[r].pc \in {"locked", "versioned"} => Target(r) \in Blocks
  /\ \A r, s \in Requests :
       /\ request[r].pc \in {"locked", "versioned"}
       /\ request[s].pc \in {"locked", "versioned"}
       /\ Target(r) = Target(s)
       => r = s

\* Under that lock the version read stays the next one.
VersionOK ==
  \A r \in Requests : request[r].pc = "versioned" =>
    request[r].version = MaxOrZero(VersionsOf(Target(r))) + 1

\* Version numbers are 1, ..., n, each used once; only existing blocks have
\* revisions and the newest one is the text shown.
RevisionsOK ==
  /\ \A b \in Blocks : \E n \in Nat : VersionsOf(b) = 1 .. n
  /\ \A b \in Blocks : ~Exists(b) => VersionsOf(b) = {}
  /\ \A v, w \in revisions : v.block = w.block /\ v.version = w.version => v = w
  /\ \A v \in revisions :
       v.version = MaxOrZero(VersionsOf(v.block)) => block[v.block].text = v.text

\* There is a last sort order.
OrderOK == \E m \in Nat : \A b \in Blocks : block[b].sortOrder <= m

IInv == TypeOK /\ InFlightOK /\ LockOK /\ VersionOK /\ RevisionsOK /\ OrderOK

-----------------------------------------------------------------------------
(* Types. *)

\* What the code reads with aggregate(_max) is a natural number.
LEMMA AggregatesAreNat ==
  ASSUME TypeOK, RevisionsOK, OrderOK
  PROVE  /\ \A b \in Blocks : MaxOrZero(VersionsOf(b)) \in Nat
         /\ MaxOrZero({block[b].sortOrder : b \in {x \in Blocks : Exists(x)}}) \in Nat
<1>1. ASSUME NEW b \in Blocks PROVE MaxOrZero(VersionsOf(b)) \in Nat
  BY MaxOrZeroOfInterval DEF RevisionsOK
<1>2. PICK m \in Nat : \A b \in Blocks : block[b].sortOrder <= m
  BY DEF OrderOK
<1> DEFINE S == {block[b].sortOrder : b \in {x \in Blocks : Exists(x)}}
<1>3. S \in SUBSET Nat /\ \A x \in S : x <= m
  BY <1>2 DEF TypeOK, BlockType
<1>4. MaxOrZero(S) \in Nat
  <2> HIDE DEF S
  <2> QED BY <1>3, MaxOrZeroOfBounded
<1> QED BY <1>1, <1>4

\* Counting a verdict keeps the counters and the score natural numbers.
LEMMA BumpReputationType ==
  ASSUME TypeOK, NEW u \in Users, NEW v \in Verdicts, BumpReputation(u, v)
  PROVE  reputation' \in [Users -> ReputationType]
<1> DEFINE rep == Counted(reputation[u], v)
<1>1. rep \in ReputationType
  BY DEF TypeOK, Counted, Verdicts, ReputationType
<1>2. Score(rep) \in Nat
  BY <1>1 DEF Score, ReputationType
<1>3. [rep EXCEPT !.score = Score(rep)] \in ReputationType
  BY <1>1, <1>2 DEF ReputationType
<1> QED BY <1>3 DEF TypeOK, BumpReputation

\* The end of every verdict's transaction is well typed.
LEMMA CreditType ==
  ASSUME TypeOK, NEW r \in Requests, Credit(r), request[r].c \in Contributions,
         row[request[r].c].contributor \in Users, request[r].verdict \in Verdicts
  PROVE  /\ reputation' \in [Users -> ReputationType]
         /\ notified' \in [Contributions -> [Verdicts -> Nat]]
         /\ request' = [request EXCEPT ![r] = Idle]
<1>1. reputation' \in [Users -> ReputationType]
  BY BumpReputationType DEF Credit
<1>2. notified' \in [Contributions -> [Verdicts -> Nat]]
  BY DEF TypeOK, Credit, Notify
<1> QED BY <1>1, <1>2 DEF Credit, Finish

\* What a request in flight works with is well typed.
LEMMA InFlightTypes ==
  ASSUME IInv, NEW r \in Requests, request[r].pc # "idle"
  PROVE  /\ request[r].c \in Contributions
         /\ request[r].by \in Users
         /\ row[request[r].c] \in RowType
         /\ row[request[r].c].contributor \in Users
         /\ request[r].pc # "checked" => request[r].verdict \in Verdicts
         /\ request[r].seen \in Texts \cup {NoText}
         /\ request[r].version \in Nat
         /\ request[r].sortOrder \in Nat
  BY DEF IInv, TypeOK, InFlightOK, RequestType, Verdicts

\* A request row updated with well typed values is well typed.
LEMMA RowUpdates ==
  ASSUME NEW e \in RowType, NEW s \in Statuses, NEW u \in Users,
         NEW b \in Blocks \cup {NoBlock}, NEW t \in Texts \cup {NoText}
  PROVE  /\ [e EXCEPT !.status = s] \in RowType
         /\ [e EXCEPT !.status = s, !.contributor = u, !.target = b] \in RowType
         /\ [e EXCEPT !.status = s, !.resolvedBy = u] \in RowType
         /\ [e EXCEPT !.status = s, !.resolvedBy = u, !.snapshot = t] \in RowType
  BY DEF RowType

\* The same for the locals of a request.
LEMMA RequestUpdates ==
  ASSUME NEW e \in RequestType, NEW n \in Nat
  PROVE  /\ Idle \in RequestType
         /\ [e EXCEPT !.pc = "locked"] \in RequestType
         /\ [e EXCEPT !.pc = "versioned", !.version = n] \in RequestType
         /\ [e EXCEPT !.pc = "ordered", !.sortOrder = n] \in RequestType
  BY DEF RequestType, Idle, Statuses

\* Every action keeps the columns well typed.
LEMMA TypeStep ==
  ASSUME IInv, [Next]_vars PROVE TypeOK'
<1> USE ContributionsAssumption
<1>0. TypeOK /\ LockOK /\ InFlightOK /\ VersionOK /\ RevisionsOK /\ OrderOK
  BY DEF IInv
<1>a. /\ \A s \in {"ABSENT", "PENDING", "WITHDRAWN"} : s \in Statuses
      /\ \A s \in Verdicts : s \in Statuses
      /\ Contributions \subseteq Texts
  BY DEF Statuses, Texts
<1>1. ASSUME NEW c \in Contributions, NEW u \in Users, NEW b \in Blocks \cup {NoBlock},
             Submit(c, u, b)
      PROVE  TypeOK'
  <2>1. row' \in [Contributions -> RowType]
    BY <1>0, <1>1, <1>a, RowUpdates DEF TypeOK, Submit
  <2> QED BY <1>0, <1>1, <2>1 DEF TypeOK, Submit
<1>2. ASSUME NEW r \in Requests, NEW c \in Contributions, NEW u \in Users,
             NEW v \in Statuses, Check(r, c, u, v)
      PROVE  TypeOK'
  <2> DEFINE seen == IF row[c].target = NoBlock THEN NoText ELSE block[row[c].target].text
             req == [Idle EXCEPT !.pc = "checked", !.c = c, !.by = u,
                                 !.verdict = v, !.seen = seen]
  <2>1. seen \in Texts \cup {NoText}
    BY <1>0 DEF TypeOK, RowType, BlockType
  <2>2. req \in RequestType
    <3> HIDE DEF seen
    <3> QED BY <2>1 DEF RequestType, Idle
  <2>3. request' = [request EXCEPT ![r] = req]
    BY <1>2 DEF Check
  <2>4. request' \in [Requests -> RequestType]
    <3> HIDE DEF req
    <3> QED BY <1>0, <2>2, <2>3 DEF TypeOK
  <2> QED BY <1>0, <1>2, <2>4 DEF TypeOK, Check, tables
<1>3. ASSUME NEW r \in Requests, Begin(r) PROVE TypeOK'
  <2>1. PICK c \in Contributions : \/ CheckWithdraw(r, c)
                                   \/ \E u \in Curators, v \in Verdicts : CheckResolve(r, c, u, v)
    BY <1>3 DEF Begin
  <2>2. CASE CheckWithdraw(r, c)
    <3>1. row[c].contributor \in Users
      BY <1>0, <2>2 DEF CheckWithdraw, Check, InFlightOK
    <3> QED BY <1>2, <1>a, <2>2, <3>1 DEF CheckWithdraw
  <2>3. CASE \E u \in Curators, v \in Verdicts : CheckResolve(r, c, u, v)
    BY <1>2, <1>a, <2>3 DEF CheckResolve
  <2> QED BY <2>1, <2>2, <2>3
<1>4. ASSUME NEW r \in Requests, LockBlock(r) PROVE TypeOK'
  <2>1. request' \in [Requests -> RequestType]
    BY <1>0, <1>4, RequestUpdates DEF TypeOK, LockBlock, Goto
  <2> QED BY <1>0, <1>4, <2>1 DEF TypeOK, LockBlock, tables
<1>5. ASSUME NEW r \in Requests, Withdraw(r) PROVE TypeOK'
  <2>1. request' \in [Requests -> RequestType]
    BY <1>0, <1>5, RequestUpdates DEF TypeOK, Withdraw, Finish
  <2>2. row[request[r].c] \in RowType /\ request[r].by \in Users
    BY <1>5, InFlightTypes DEF Withdraw
  <2>3. row' \in [Contributions -> RowType]
    BY <1>0, <1>5, <1>a, <2>2, RowUpdates DEF TypeOK, Withdraw, RowType
  <2> QED BY <1>0, <1>5, <2>1, <2>3 DEF TypeOK, Withdraw
<1>6. ASSUME NEW r \in Requests, Decline(r) PROVE TypeOK'
  <2>1. /\ request[r].c \in Contributions /\ row[request[r].c].contributor \in Users
        /\ row[request[r].c] \in RowType
        /\ request[r].by \in Users /\ request[r].verdict \in Verdicts
    BY <1>6, InFlightTypes DEF Decline, Verdicts
  <2>2. row' \in [Contributions -> RowType]
    BY <1>0, <1>6, <1>a, <2>1, RowUpdates DEF TypeOK, Decline, RowType
  <2>3. Credit(r)
    BY <1>6 DEF Decline
  <2>4. request' \in [Requests -> RequestType]
    BY <1>0, <2>1, <2>3, CreditType, RequestUpdates DEF TypeOK
  <2> QED BY <1>0, <1>6, <2>1, <2>2, <2>3, <2>4, CreditType DEF TypeOK, Decline
<1>7. ASSUME NEW r \in Requests, ReadMaxVersion(r) PROVE TypeOK'
  <2>1. MaxOrZero(VersionsOf(Target(r))) + 1 \in Nat
    BY <1>0, <1>7, AggregatesAreNat DEF ReadMaxVersion, LockOK
  <2>2. request' \in [Requests -> RequestType]
    BY <1>0, <1>7, <2>1, RequestUpdates DEF TypeOK, ReadMaxVersion
  <2> QED BY <1>0, <1>7, <2>2 DEF TypeOK, ReadMaxVersion, tables
<1>8. ASSUME NEW r \in Requests, CommitEdit(r) PROVE TypeOK'
  <2>1. /\ request[r].c \in Contributions /\ row[request[r].c].contributor \in Users
        /\ row[request[r].c] \in RowType /\ request[r].seen \in Texts \cup {NoText}
        /\ request[r].by \in Users /\ request[r].verdict \in Verdicts
    BY <1>8, InFlightTypes DEF CommitEdit
  <2>a. Target(r) \in Blocks /\ request[r].version \in Nat \ {0}
    BY <1>0, <1>8, AggregatesAreNat DEF CommitEdit, LockOK, VersionOK
  <2>2. row' \in [Contributions -> RowType]
    BY <1>0, <1>8, <1>a, <2>1, RowUpdates DEF TypeOK, CommitEdit, Verdicts
  <2>3. block' \in [Blocks -> BlockType]
    BY <1>0, <1>8, <1>a, <2>1 DEF TypeOK, CommitEdit, BlockType
  <2>4. revisions' \subseteq RevisionType
    BY <1>0, <1>8, <1>a, <2>1, <2>a DEF TypeOK, CommitEdit, InsertRevision, RevisionType
  <2>5. Credit(r)
    BY <1>8 DEF CommitEdit
  <2>6. request' \in [Requests -> RequestType]
    BY <1>0, <2>1, <2>5, CreditType, RequestUpdates DEF TypeOK
  <2> QED BY <1>0, <2>1, <2>2, <2>3, <2>4, <2>5, <2>6, CreditType DEF TypeOK
<1>9. ASSUME NEW r \in Requests, ReadMaxOrder(r) PROVE TypeOK'
  <2>1. MaxOrZero({block[b].sortOrder : b \in {x \in Blocks : Exists(x)}}) + 1 \in Nat
    BY <1>0, AggregatesAreNat
  <2>2. request' \in [Requests -> RequestType]
    BY <1>0, <1>9, <2>1, RequestUpdates DEF TypeOK, ReadMaxOrder
  <2> QED BY <1>0, <1>9, <2>2 DEF TypeOK, ReadMaxOrder, tables
<1>10. ASSUME NEW r \in Requests, NEW b \in Blocks, CommitNew(r, b) PROVE TypeOK'
  <2>1. /\ request[r].c \in Contributions /\ row[request[r].c].contributor \in Users
        /\ row[request[r].c] \in RowType /\ request[r].sortOrder \in Nat
        /\ request[r].by \in Users /\ request[r].verdict \in Verdicts
    BY <1>10, InFlightTypes DEF CommitNew
  <2>a. MaxOrZero(VersionsOf(b)) + 1 \in Nat \ {0}
    BY <1>0, AggregatesAreNat
  <2>2. row' \in [Contributions -> RowType]
    BY <1>0, <1>10, <1>a, <2>1, RowUpdates DEF TypeOK, CommitNew, Verdicts, RowType
  <2>3. block' \in [Blocks -> BlockType]
    BY <1>0, <1>10, <1>a, <2>1 DEF TypeOK, CommitNew, BlockType
  <2>4. revisions' \subseteq RevisionType
    BY <1>0, <1>10, <1>a, <2>1, <2>a DEF TypeOK, CommitNew, InsertRevision, RevisionType
  <2>5. Credit(r)
    BY <1>10 DEF CommitNew
  <2>6. request' \in [Requests -> RequestType]
    BY <1>0, <2>1, <2>5, CreditType, RequestUpdates DEF TypeOK
  <2> QED BY <1>0, <2>1, <2>2, <2>3, <2>4, <2>5, <2>6, CreditType DEF TypeOK
<1>11. ASSUME NEW r \in Requests, Abort(r) PROVE TypeOK'
  <2>1. request' \in [Requests -> RequestType]
    BY <1>0, <1>11, RequestUpdates DEF TypeOK, Abort, Finish
  <2> QED BY <1>0, <1>11, <2>1 DEF TypeOK, Abort, tables
<1>12. CASE UNCHANGED vars
  BY <1>0, <1>12 DEF TypeOK, vars
<1> QED BY <1>1, <1>3, <1>4, <1>5, <1>6, <1>7, <1>8, <1>9, <1>10, <1>11, <1>12 DEF Next, Continue

-----------------------------------------------------------------------------
(* What a step may do to a row, a request and a block. *)

\* A row in use keeps its contributor and its target, and stays in use.
LEMMA RowsInUse ==
  ASSUME IInv, [Next]_vars, NEW c \in Contributions, row[c].status # "ABSENT"
  PROVE  /\ row'[c].status # "ABSENT"
         /\ row'[c].contributor = row[c].contributor
         /\ row'[c].target = row[c].target
<1>0. /\ row \in [Contributions -> RowType]
      /\ \A r \in Requests : request[r].pc # "idle" => request[r].c \in Contributions
  BY DEF IInv, TypeOK, InFlightOK
<1>a. row[c] \in RowType
  BY <1>0
<1>1. ASSUME NEW d \in Contributions, NEW u \in Users, NEW b \in Blocks \cup {NoBlock},
             Submit(d, u, b)
      PROVE  row'[c] = row[c]
  BY <1>0, <1>1 DEF Submit
<1>2. ASSUME NEW r \in Requests, Begin(r) \/ LockBlock(r) \/ ReadMaxVersion(r)
                                 \/ ReadMaxOrder(r) \/ Abort(r)
      PROVE  row'[c] = row[c]
  BY <1>2 DEF Begin, CheckWithdraw, CheckResolve, Check, LockBlock, ReadMaxVersion,
              ReadMaxOrder, Abort, tables
<1>3. ASSUME NEW r \in Requests, Withdraw(r)
      PROVE  row'[c] \in {row[c], [row[c] EXCEPT !.status = "WITHDRAWN"]}
  BY <1>0, <1>3 DEF Withdraw
<1>4. ASSUME NEW r \in Requests, Decline(r)
      PROVE  row'[c] \in {row[c], [row[c] EXCEPT !.status = request[r].verdict,
                                                 !.resolvedBy = request[r].by]}
  BY <1>0, <1>4 DEF Decline
<1>5. ASSUME NEW r \in Requests, CommitEdit(r)
      PROVE  row'[c] \in {row[c], [row[c] EXCEPT !.status = "APPROVED",
               !.resolvedBy = request[r].by, !.snapshot = request[r].seen]}
  BY <1>0, <1>5 DEF CommitEdit
<1>6. ASSUME NEW r \in Requests, NEW b \in Blocks, CommitNew(r, b)
      PROVE  row'[c] \in {row[c], [row[c] EXCEPT !.status = "APPROVED",
                                                 !.resolvedBy = request[r].by]}
  BY <1>0, <1>6 DEF CommitNew
<1>7. CASE UNCHANGED vars
  BY <1>7 DEF vars
<1>8. CASE \E r \in Requests : Withdraw(r)
  BY <1>3, <1>8, <1>a DEF RowType
<1>9. CASE \E r \in Requests : Decline(r)
  BY <1>4, <1>9, <1>a DEF RowType, Decline
<1>10. CASE \E r \in Requests : CommitEdit(r)
  BY <1>5, <1>10, <1>a DEF RowType
<1>11. CASE \E r \in Requests, b \in Blocks : CommitNew(r, b)
  BY <1>6, <1>11, <1>a DEF RowType
<1> QED BY <1>1, <1>2, <1>7, <1>8, <1>9, <1>10, <1>11 DEF Next, Continue

\* A block that exists goes on existing, with its place in the hub.
LEMMA BlocksStay ==
  ASSUME IInv, [Next]_vars, NEW b \in Blocks, Exists(b)
  PROVE  Exists(b)' /\ block'[b].sortOrder = block[b].sortOrder
<1> USE ContributionsAssumption
<1>0. /\ block \in [Blocks -> BlockType]
      /\ \A r \in Requests : request[r].pc # "idle" => request[r].c \in Contributions
  BY DEF IInv, TypeOK, InFlightOK
<1>1. CASE UNCHANGED block
  BY <1>1 DEF Exists
<1>2. ASSUME NEW r \in Requests, CommitEdit(r)
      PROVE  Exists(b)' /\ block'[b].sortOrder = block[b].sortOrder
  BY <1>0, <1>2 DEF CommitEdit, Exists, BlockType
<1>3. ASSUME NEW r \in Requests, NEW x \in Blocks, CommitNew(r, x)
      PROVE  Exists(b)' /\ block'[b].sortOrder = block[b].sortOrder
  BY <1>0, <1>3 DEF CommitNew, Exists, BlockType
<1> QED
  BY <1>1, <1>2, <1>3 DEF Next, Begin, CheckWithdraw, CheckResolve, Check, Continue,
     Submit, LockBlock, ReadMaxVersion, ReadMaxOrder, Withdraw, Decline, Abort, tables, vars

\* A request stays as it is, ends, starts on a PENDING row, or advances one
\* statement on the same row.
LEMMA RequestSteps ==
  ASSUME IInv, [Next]_vars, NEW r \in Requests
  PROVE  \/ request'[r] = request[r]
         \/ request'[r] = Idle
         \/ /\ request'[r].pc = "checked"
            /\ request'[r].c \in Contributions
            /\ request'[r].by \in Users
            /\ row[request'[r].c].status = "PENDING"
            /\ UNCHANGED tables
         \/ /\ request[r].pc # "idle"
            /\ request'[r].pc \in {"locked", "versioned", "ordered"}
            /\ request'[r].c = request[r].c
            /\ request'[r].by = request[r].by
            /\ request'[r].verdict = request[r].verdict
            /\ request[r].pc = "checked" => request[r].verdict = "APPROVED"
            /\ UNCHANGED tables
            /\ \/ LockBlock(r) /\ request'[r].pc = "locked"
               \/ ReadMaxVersion(r) /\ request'[r].pc = "versioned"
               \/ ReadMaxOrder(r) /\ request'[r].pc = "ordered"
<1> USE ContributionsAssumption
<1>0. request \in [Requests -> RequestType] /\ request[r] \in RequestType
  BY DEF IInv, TypeOK
<1>1. CASE UNCHANGED request
  BY <1>1
<1>2. ASSUME NEW s \in Requests, \/ Withdraw(s) \/ Decline(s) \/ CommitEdit(s) \/ Abort(s)
                                 \/ \E b \in Blocks : CommitNew(s, b)
      PROVE  request'[r] \in {request[r], Idle}
  BY <1>0, <1>2 DEF Withdraw, Decline, CommitEdit, CommitNew, Abort, Credit, Finish
<1>3. ASSUME NEW s \in Requests, NEW c \in Contributions, NEW u \in Users, NEW v,
             Check(s, c, u, v), r = s
      PROVE  /\ request'[r].pc = "checked"
             /\ request'[r].c = c
             /\ request'[r].by = u
             /\ row[c].status = "PENDING"
             /\ UNCHANGED tables
  BY <1>0, <1>3 DEF Check, Idle
<1>4. ASSUME NEW s \in Requests, NEW c \in Contributions, NEW u \in Users, NEW v,
             Check(s, c, u, v), r # s
      PROVE  request'[r] = request[r]
  BY <1>0, <1>4 DEF Check
<1>5. ASSUME NEW s \in Requests, LockBlock(s) \/ ReadMaxVersion(s) \/ ReadMaxOrder(s), r # s
      PROVE  request'[r] = request[r]
  BY <1>0, <1>5 DEF LockBlock, ReadMaxVersion, ReadMaxOrder, Goto
<1>6. ASSUME LockBlock(r) \/ ReadMaxVersion(r) \/ ReadMaxOrder(r)
      PROVE  /\ request[r].pc # "idle"
             /\ request'[r].pc \in {"locked", "versioned", "ordered"}
             /\ request'[r].c = request[r].c
             /\ request'[r].by = request[r].by
             /\ request'[r].verdict = request[r].verdict
             /\ request[r].pc = "checked" => request[r].verdict = "APPROVED"
             /\ UNCHANGED tables
             /\ \/ LockBlock(r) /\ request'[r].pc = "locked"
                \/ ReadMaxVersion(r) /\ request'[r].pc = "versioned"
                \/ ReadMaxOrder(r) /\ request'[r].pc = "ordered"
  <2>1. CASE LockBlock(r)
    BY <1>0, <2>1 DEF LockBlock, Goto, Approving, RequestType
  <2>2. CASE ReadMaxVersion(r)
    BY <1>0, <2>2 DEF ReadMaxVersion, RequestType
  <2>3. CASE ReadMaxOrder(r)
    BY <1>0, <2>3 DEF ReadMaxOrder, Approving, RequestType
  <2> QED BY <1>6, <2>1, <2>2, <2>3
<1>7. ASSUME NEW s \in Requests, Begin(s)
      PROVE  \E c \in Contributions, u \in Users : \E v : Check(s, c, u, v)
  <2>1. \A c \in Contributions : row[c].status # "ABSENT" => row[c].contributor \in Users
    BY DEF IInv, InFlightOK
  <2> QED BY <1>7, <2>1 DEF Begin, CheckWithdraw, CheckResolve, Check
<1>8. CASE \E s \in Requests : Begin(s)
  BY <1>3, <1>4, <1>7, <1>8
<1>9. CASE \E s \in Requests : LockBlock(s) \/ ReadMaxVersion(s) \/ ReadMaxOrder(s)
  BY <1>5, <1>6, <1>9
<1> QED BY <1>1, <1>2, <1>8, <1>9 DEF Next, Continue, Submit, vars

-----------------------------------------------------------------------------
(* The inductive invariant is preserved, conjunct by conjunct. *)

\* InFlightOK is preserved.
LEMMA InFlightStep ==
  ASSUME IInv, [Next]_vars PROVE InFlightOK'
<1>0. TypeOK /\ InFlightOK
  BY DEF IInv
<1>1. ASSUME NEW c \in Contributions, row'[c].status # "ABSENT"
      PROVE  /\ row'[c].contributor \in Users
             /\ row'[c].target # NoBlock => block'[row'[c].target].text # NoText
  <2>1. CASE row[c].status # "ABSENT"
    <3>1. /\ row'[c].contributor = row[c].contributor
          /\ row'[c].target = row[c].target
      BY <2>1, RowsInUse
    <3>2. row[c].target \in Blocks \cup {NoBlock}
      BY <1>0 DEF TypeOK, RowType
    <3>3. ASSUME NEW b \in Blocks, Exists(b) PROVE Exists(b)'
      BY <3>3, BlocksStay
    <3>4. /\ row[c].contributor \in Users
          /\ row[c].target # NoBlock => Exists(row[c].target)
      BY <1>0, <2>1 DEF InFlightOK
    <3> QED BY <3>1, <3>2, <3>3, <3>4 DEF Exists
  <2>2. CASE row[c].status = "ABSENT"
    <3>1. \A r \in Requests : request[r].pc # "idle" => request[r].c # c
      BY <1>0, <2>2 DEF InFlightOK
    <3>2. PICK u \in Users, b \in Blocks \cup {NoBlock} : Submit(c, u, b)
      <4>1. row'[c] # row[c]
        BY <1>1, <2>2
      <4> QED BY <1>0, <3>1, <4>1 DEF TypeOK, Next, Begin, CheckWithdraw, CheckResolve, Check,
            Continue, Submit, LockBlock, ReadMaxVersion, ReadMaxOrder, Withdraw, Decline,
            CommitEdit, CommitNew, Abort, tables, vars
    <3>3. row'[c].contributor = u /\ row'[c].target = b
      BY <1>0, <3>2 DEF Submit, TypeOK, RowType
    <3> QED BY <3>2, <3>3 DEF Submit, Exists
  <2> QED BY <2>1, <2>2
<1>2. ASSUME NEW r \in Requests, request'[r].pc # "idle"
      PROVE  /\ request'[r].c \in Contributions
             /\ request'[r].by \in Users
             /\ row'[request'[r].c].status # "ABSENT"
             /\ request'[r].pc # "checked" => request'[r].verdict = "APPROVED"
  <2>1. request[r].pc # "idle" =>
          /\ request[r].c \in Contributions
          /\ request[r].by \in Users
          /\ row[request[r].c].status # "ABSENT"
          /\ request[r].pc # "checked" => request[r].verdict = "APPROVED"
    BY <1>0 DEF InFlightOK
  <2>2. request'[r] # Idle
    BY <1>2 DEF Idle
  <2>3. /\ request'[r].c \in Contributions
        /\ request'[r].by \in Users
        /\ row[request'[r].c].status # "ABSENT"
        /\ request'[r].pc # "checked" => request'[r].verdict = "APPROVED"
    BY <1>2, <2>1, <2>2, RequestSteps
  <2> QED BY <2>3, RowsInUse
<1> QED BY <1>1, <1>2 DEF InFlightOK, Exists

\* The target of a request that goes on is the same row's target, unchanged.
LEMMA TargetsStay ==
  ASSUME IInv, [Next]_vars, NEW r \in Requests,
         request[r].pc # "idle", request'[r].c = request[r].c
  PROVE  Target(r)' = Target(r)
<1>1. request[r].c \in Contributions /\ row[request[r].c].status # "ABSENT"
  BY DEF IInv, InFlightOK
<1> QED BY <1>1, RowsInUse DEF Target

\* LockOK is preserved: LockBlock waits until the lock is free.
LEMMA LockStep ==
  ASSUME IInv, [Next]_vars PROVE LockOK'
<1> DEFINE Holds(r) == request[r].pc \in {"locked", "versioned"}
<1>0. TypeOK /\ LockOK
  BY DEF IInv
<1>1. ASSUME NEW r \in Requests, Holds(r)', ~Holds(r)
      PROVE  LockBlock(r)
  <2>1. request'[r] # request[r] /\ request'[r] # Idle
    BY <1>1 DEF Idle
  <2>2. ~ReadMaxVersion(r)
    BY <1>1 DEF ReadMaxVersion
  <2> QED BY <1>1, <2>1, <2>2, RequestSteps
<1>2. ASSUME NEW r \in Requests, Holds(r)'
      PROVE  Target(r)' = Target(r) /\ Target(r) \in Blocks /\ request[r].pc # "idle"
  <2>1. CASE Holds(r)
    <3>1. request'[r].c = request[r].c
      BY <1>2, RequestSteps DEF Idle
    <3> QED BY <1>0, <2>1, <3>1, TargetsStay DEF LockOK
  <2>2. CASE ~Holds(r)
    <3>1. LockBlock(r)
      BY <1>1, <1>2, <2>2
    <3>2. request'[r].c = request[r].c
      BY <1>0, <3>1 DEF TypeOK, RequestType, LockBlock, Goto
    <3>3. request[r].c \in Contributions /\ request[r].pc # "idle"
      BY <3>1, InFlightTypes DEF LockBlock, Approving
    <3>4. Target(r) \in Blocks
      BY <1>0, <3>1, <3>3 DEF TypeOK, RowType, LockBlock, Target
    <3> QED BY <3>2, <3>3, <3>4, TargetsStay
  <2> QED BY <2>1, <2>2
<1>3. ASSUME NEW r \in Requests, NEW s \in Requests, Holds(r)', Holds(s)',
             Target(r)' = Target(s)'
      PROVE  r = s
  <2>1. Target(r) = Target(s)
    BY <1>2, <1>3
  <2>2. CASE Holds(r) /\ Holds(s)
    BY <1>0, <2>1, <2>2 DEF LockOK
  <2>3. CASE LockBlock(r)
    <3>1. s # r => request'[s] = request[s]
      BY <1>0, <2>3 DEF TypeOK, LockBlock, Goto
    <3>2. s # r => ~Holds(s)
      BY <2>1, <2>3 DEF LockBlock, Locked
    <3> QED BY <1>3, <3>1, <3>2
  <2>4. CASE LockBlock(s)
    <3>1. s # r => request'[r] = request[r]
      BY <1>0, <2>4 DEF TypeOK, LockBlock, Goto
    <3>2. s # r => ~Holds(r)
      BY <2>1, <2>4 DEF LockBlock, Locked
    <3> QED BY <1>3, <3>1, <3>2
  <2> QED BY <1>1, <1>3, <2>2, <2>3, <2>4
<1>4. ASSUME NEW r \in Requests, Holds(r)' PROVE Target(r)' \in Blocks
  BY <1>2, <1>4
<1> QED BY <1>3, <1>4 DEF LockOK

\* What adding the next revision of a block does to the version numbers.
LEMMA InsertedVersion ==
  ASSUME TypeOK, NEW r \in Requests, NEW b \in Blocks, NEW n, InsertRevision(b, n, r)
  PROVE  /\ VersionsOf(b)' = VersionsOf(b) \cup {n}
         /\ \A x \in Blocks \ {b} : VersionsOf(x)' = VersionsOf(x)
<1> DEFINE new == [block |-> b, version |-> n, text |-> request[r].c,
                   changedBy |-> row[request[r].c].contributor]
<1>1. revisions' = revisions \cup {new} /\ new.block = b /\ new.version = n
  BY DEF InsertRevision
<1> HIDE DEF new
<1> QED BY <1>1 DEF VersionsOf

\* A new block's first revision, or the next one of a block whose row lock the
\* transaction holds, extends an intact history with the text it publishes.
LEMMA AppendRevision ==
  ASSUME TypeOK, RevisionsOK, NEW r \in Requests, NEW b \in Blocks,
         NEW n, n = MaxOrZero(VersionsOf(b)) + 1, InsertRevision(b, n, r),
         block'[b].text = request[r].c, Exists(b)',
         \A x \in Blocks \ {b} : block'[x] = block[x]
  PROVE  RevisionsOK' /\ MaxOrZero(VersionsOf(b))' = n
<1> DEFINE new == [block |-> b, version |-> n, text |-> request[r].c,
                   changedBy |-> row[request[r].c].contributor]
<1>0. /\ revisions' = revisions \cup {new}
      /\ new.block = b /\ new.version = n /\ new.text = request[r].c
  BY DEF InsertRevision
<1> HIDE DEF new
<1>1. PICK k \in Nat : VersionsOf(b) = 1 .. k
  BY DEF RevisionsOK
<1>2. n = k + 1
  BY <1>1, MaxOrZeroOfInterval
<1>3. VersionsOf(b)' = 1 .. n
  <2>1. 1 .. n = (1 .. k) \cup {n}
    BY <1>2
  <2>2. VersionsOf(b)' = VersionsOf(b) \cup {n}
    BY InsertedVersion
  <2> QED BY <1>1, <2>1, <2>2
<1>4. MaxOrZero(VersionsOf(b)') = n
  BY <1>2, <1>3, MaxOrZeroOfInterval
<1>5. \A x \in Blocks \ {b} : VersionsOf(x)' = VersionsOf(x)
  BY InsertedVersion
<1>6. \A v \in revisions : v.version \in VersionsOf(v.block) /\ v.block \in Blocks
  BY DEF VersionsOf, TypeOK, RevisionType
<1>7. ASSUME NEW x \in Blocks
      PROVE  /\ \E m \in Nat : VersionsOf(x)' = 1 .. m
             /\ ~Exists(x)' => VersionsOf(x)' = {}
  <2>1. CASE x = b
    BY <1>2, <1>3, <2>1
  <2>2. CASE x # b
    BY <1>5, <2>2 DEF RevisionsOK, Exists
  <2> QED BY <2>1, <2>2
<1>8. \A v \in revisions : v.block = b => v.version # n /\ v.version # MaxOrZero(VersionsOf(b)')
  BY <1>1, <1>2, <1>4, <1>6
<1>9. \A v, w \in revisions' : v.block = w.block /\ v.version = w.version => v = w
  BY <1>0, <1>8 DEF RevisionsOK
<1>10. ASSUME NEW v \in revisions', v.version = MaxOrZero(VersionsOf(v.block)')
       PROVE  block'[v.block].text = v.text
  <2>1. CASE v = new
    BY <1>0, <2>1
  <2>2. CASE v \in revisions
    <3>1. v.block \in Blocks \ {b}
      BY <1>6, <1>8, <1>10, <2>2
    <3>2. MaxOrZero(VersionsOf(v.block)') = MaxOrZero(VersionsOf(v.block))
      BY <1>5, <3>1
    <3> QED BY <1>10, <2>2, <3>1, <3>2 DEF RevisionsOK
  <2> QED BY <1>0, <2>1, <2>2
<1> QED BY <1>4, <1>7, <1>9, <1>10 DEF RevisionsOK, VersionsOf

\* RevisionsOK is preserved, and only a commit on a block adds a version to it:
\* the holder of its row lock, or the transaction that creates it.
LEMMA RevisionsStep ==
  ASSUME IInv, [Next]_vars
  PROVE  /\ RevisionsOK'
         /\ \A b \in Blocks :
              \/ VersionsOf(b)' = VersionsOf(b)
              \/ ~Exists(b)
              \/ \E r \in Requests : /\ request[r].pc = "versioned"
                                     /\ Target(r) = b
                                     /\ request'[r] = Idle
<1> USE ContributionsAssumption
<1>0. TypeOK /\ InFlightOK /\ LockOK /\ VersionOK /\ RevisionsOK
  BY DEF IInv
<1>1. ASSUME NEW r \in Requests, CommitEdit(r)
      PROVE  /\ RevisionsOK'
             /\ \A x \in Blocks \ {Target(r)} : VersionsOf(x)' = VersionsOf(x)
             /\ request[r].pc = "versioned"
             /\ request'[r] = Idle
  <2>a. PICK b \in Blocks : b = Target(r)
    BY <1>0, <1>1 DEF CommitEdit, LockOK
  <2>1. /\ request[r].pc = "versioned"
        /\ request[r].version = MaxOrZero(VersionsOf(b)) + 1
        /\ request[r].c \in Contributions
    BY <1>0, <1>1, <2>a DEF CommitEdit, VersionOK, InFlightOK
  <2>2. /\ block' = [block EXCEPT ![b].text = request[r].c]
        /\ InsertRevision(b, request[r].version, r)
        /\ request'[r] = Idle
    BY <1>0, <1>1, <2>a DEF CommitEdit, Credit, Finish, TypeOK
  <2>3. /\ block'[b].text = request[r].c
        /\ \A x \in Blocks \ {b} : block'[x] = block[x]
    BY <1>0, <2>1, <2>2 DEF TypeOK, BlockType
  <2>4. Exists(b)'
    BY <2>1, <2>3 DEF Exists
  <2>5. RevisionsOK'
    BY <1>0, <2>1, <2>2, <2>3, <2>4, AppendRevision
  <2>6. \A x \in Blocks \ {b} : VersionsOf(x)' = VersionsOf(x)
    BY <1>0, <2>2, InsertedVersion
  <2> QED BY <2>a, <2>1, <2>2, <2>5, <2>6
<1>2. ASSUME NEW r \in Requests, NEW b \in Blocks, CommitNew(r, b)
      PROVE  /\ RevisionsOK'
             /\ \A x \in Blocks \ {b} : VersionsOf(x)' = VersionsOf(x)
             /\ ~Exists(b)
  <2>1. request[r].c \in Contributions
    BY <1>0, <1>2 DEF CommitNew, InFlightOK
  <2>2. /\ block'[b].text = request[r].c
        /\ \A x \in Blocks \ {b} : block'[x] = block[x]
    BY <1>0, <1>2 DEF CommitNew, TypeOK
  <2>3. Exists(b)'
    BY <2>1, <2>2 DEF Exists
  <2>4. InsertRevision(b, MaxOrZero(VersionsOf(b)) + 1, r) /\ ~Exists(b)
    BY <1>2 DEF CommitNew
  <2> QED BY <1>0, <2>2, <2>3, <2>4, AppendRevision, InsertedVersion
<1>3. CASE UNCHANGED <<block, revisions>>
  BY <1>0, <1>3 DEF RevisionsOK, VersionsOf, Exists
<1> QED
  BY <1>1, <1>2, <1>3 DEF Next, Begin, CheckWithdraw, CheckResolve, Check, Continue,
     Submit, LockBlock, ReadMaxVersion, ReadMaxOrder, Withdraw, Decline, Abort, tables, vars

\* VersionOK is preserved: nobody else adds a version while the lock is held.
LEMMA VersionStep ==
  ASSUME IInv, [Next]_vars PROVE VersionOK'
<1>0. TypeOK /\ LockOK /\ VersionOK /\ RevisionsOK /\ InFlightOK
  BY DEF IInv
<1> SUFFICES ASSUME NEW r \in Requests, request'[r].pc = "versioned"
             PROVE  request'[r].version = MaxOrZero(VersionsOf(Target(r)))' + 1
  BY DEF VersionOK
<1>1. CASE request[r].pc = "versioned" /\ request'[r] = request[r]
  <2>1. Target(r)' = Target(r) /\ Target(r) \in Blocks
    BY <1>0, <1>1, TargetsStay DEF LockOK
  <2>2. VersionsOf(Target(r))' = VersionsOf(Target(r))
    <3>1. Exists(Target(r))
      BY <1>0, <1>1, <2>1, InFlightTypes, ContributionsAssumption DEF InFlightOK, Target
    <3>2. \A s \in Requests : request[s].pc = "versioned" /\ Target(s) = Target(r) => s = r
      BY <1>0, <1>1 DEF LockOK
    <3>3. request'[r] # Idle
      BY <1>1 DEF Idle
    <3> DEFINE b == Target(r)
    <3>4. VersionsOf(b)' = VersionsOf(b)
      BY <2>1, <3>1, <3>2, <3>3, RevisionsStep
    <3> QED BY <2>1, <3>4 DEF VersionsOf
  <2> QED BY <1>0, <1>1, <2>1, <2>2 DEF VersionOK
<1>2. CASE request'[r] # request[r]
  <2>1. ReadMaxVersion(r) /\ request'[r].c = request[r].c /\ UNCHANGED tables
    BY <1>2, RequestSteps DEF Idle
  <2>2. request'[r].version = MaxOrZero(VersionsOf(Target(r))) + 1
    BY <1>0, <2>1 DEF ReadMaxVersion, TypeOK, RequestType
  <2>3. Target(r)' = Target(r)
    BY <2>1 DEF Target, tables
  <2> QED BY <2>1, <2>2, <2>3 DEF VersionsOf, tables
<1> QED BY <1>1, <1>2, RequestSteps DEF VersionOK

\* OrderOK is preserved: a commit adds one block, with one sort order.
LEMMA OrderStep ==
  ASSUME IInv, [Next]_vars PROVE OrderOK'
<1>0. TypeOK /\ InFlightOK
  BY DEF IInv
<1>1. PICK m \in Nat : \A b \in Blocks : block[b].sortOrder <= m
  BY DEF IInv, OrderOK
<1>2. ASSUME NEW r \in Requests, NEW b \in Blocks, CommitNew(r, b) PROVE OrderOK'
  <2> DEFINE k == request[r].sortOrder
  <2>1. k \in Nat
    BY <1>2, InFlightTypes DEF CommitNew
  <2>2. block'[b].sortOrder = k /\ \A x \in Blocks \ {b} : block'[x] = block[x]
    BY <1>0, <1>2 DEF CommitNew, TypeOK
  <2>3. \A x \in Blocks : block[x].sortOrder \in Nat
    BY <1>0 DEF TypeOK, BlockType
  <2> HIDE DEF k
  <2>4. \A x \in Blocks : block'[x].sortOrder <= m + k
    BY <1>1, <2>1, <2>2, <2>3
  <2> QED BY <2>1, <2>4 DEF OrderOK
<1>3. ASSUME NEW r \in Requests, CommitEdit(r) PROVE OrderOK'
  <2>1. \A x \in Blocks : block'[x].sortOrder = block[x].sortOrder
    BY <1>0, <1>3 DEF CommitEdit, TypeOK, BlockType
  <2> QED BY <1>1, <2>1 DEF OrderOK
<1>4. CASE UNCHANGED block
  BY <1>1, <1>4 DEF OrderOK
<1> QED
  BY <1>2, <1>3, <1>4 DEF Next, Begin, CheckWithdraw, CheckResolve, Check, Continue,
     Submit, LockBlock, ReadMaxVersion, ReadMaxOrder, Withdraw, Decline, Abort, tables, vars

-----------------------------------------------------------------------------
(* Theorems. *)

\* The tables and requests the service starts with satisfy the invariant.
LEMMA InitIInv == Init => IInv
<1> SUFFICES ASSUME Init PROVE IInv
  OBVIOUS
<1> USE ContributionsAssumption
<1>1. PICK order \in [Blocks -> 0 .. Cardinality(SeedBlocks)] :
        block = [b \in Blocks |->
                   [text |-> IF b \in SeedBlocks THEN SeedText ELSE NoText,
                    sortOrder |-> IF b \in SeedBlocks THEN order[b] ELSE 0]]
  BY DEF Init
<1>2. PICK backfilled \in SUBSET SeedBlocks :
        revisions = {[block |-> b, version |-> 1, text |-> SeedText,
                      changedBy |-> NoOne] : b \in backfilled}
  BY DEF Init
<1>3. Cardinality(SeedBlocks) \in Nat
  BY FS_Subset, FS_CardinalityType
<1>4. \A b \in Blocks : /\ block[b] \in BlockType
                        /\ block[b].sortOrder <= Cardinality(SeedBlocks)
                        /\ Exists(b) <=> b \in SeedBlocks
                        /\ Exists(b) => block[b].text = SeedText
  BY <1>1, <1>3 DEF BlockType, Texts, Exists
<1>5. TypeOK
  <2>1. row \in [Contributions -> RowType]
    BY DEF Init, NewRow, RowType, Statuses
  <2>2. block \in [Blocks -> BlockType]
    BY <1>1, <1>4
  <2>3. revisions \subseteq RevisionType
    BY <1>2 DEF RevisionType, Texts
  <2>4. reputation \in [Users -> ReputationType]
    BY DEF Init, NoReputation, ReputationType
  <2>5. notified \in [Contributions -> [Verdicts -> Nat]]
    BY DEF Init
  <2>6. request \in [Requests -> RequestType]
    BY DEF Init, Idle, RequestType, Statuses
  <2> QED BY <2>1, <2>2, <2>3, <2>4, <2>5, <2>6 DEF TypeOK
<1>6. InFlightOK /\ LockOK /\ VersionOK
  BY DEF Init, Idle, NewRow, InFlightOK, LockOK, VersionOK
<1>7. ASSUME NEW b \in Blocks
      PROVE  VersionsOf(b) = IF b \in backfilled THEN {1} ELSE {}
  <2>1. \A v \in revisions : v.version = 1 /\ v.block \in backfilled
    BY <1>2
  <2>2. ASSUME b \in backfilled PROVE \E v \in revisions : v.block = b
    <3> DEFINE v == [block |-> b, version |-> 1, text |-> SeedText, changedBy |-> NoOne]
    <3>1. v \in revisions /\ v.block = b
      BY <1>2, <2>2
    <3> QED BY <3>1
  <2> QED BY <2>1, <2>2 DEF VersionsOf
<1>8. RevisionsOK
  <2>1. \A b \in Blocks : \E n \in Nat : VersionsOf(b) = 1 .. n
    <3>1. 1 .. 0 = {} /\ 1 .. 1 = {1} /\ 0 \in Nat /\ 1 \in Nat
      OBVIOUS
    <3> QED BY <1>7, <3>1
  <2>2. \A b \in Blocks : ~Exists(b) => VersionsOf(b) = {}
    BY <1>4, <1>7
  <2>3. \A v, w \in revisions : v.block = w.block /\ v.version = w.version => v = w
    BY <1>2
  <2>4. \A v \in revisions : block[v.block].text = v.text
    BY <1>2, <1>4
  <2> QED BY <2>1, <2>2, <2>3, <2>4 DEF RevisionsOK
<1>9. OrderOK
  BY <1>3, <1>4 DEF OrderOK
<1> QED BY <1>5, <1>6, <1>8, <1>9 DEF IInv

\* IInv is an invariant of the service.
LEMMA Invariance == Spec => []IInv
<1>1. IInv /\ [Next]_vars => IInv'
  BY TypeStep, InFlightStep, LockStep, VersionStep, RevisionsStep, OrderStep DEF IInv
<1> QED BY InitIInv, <1>1, PTL DEF Spec

\* Every column and every local of a request always holds a value of its type.
THEOREM TypeCorrect == Spec => []TypeOK
<1>1. IInv => TypeOK
  BY DEF IInv
<1> QED BY Invariance, <1>1, PTL

\* However many requests approve edits of a block at once, its revisions are
\* numbered without gap or repeat, its newest revision is the text readers get,
\* and no approval ever meets the unique constraint on (block_id, version).
THEOREM HistoryCorrect == Spec => []HistoryIntact
<1>1. IInv => HistoryIntact
  <2> SUFFICES ASSUME IInv PROVE HistoryIntact
    OBVIOUS
  <2>0. LockOK /\ VersionOK /\ RevisionsOK
    BY DEF IInv
  <2>1. ASSUME NEW b \in Blocks
        PROVE  /\ VersionsOf(b) = 1 .. MaxOrZero(VersionsOf(b))
               /\ MaxOrZero(VersionsOf(b)) + 1 \notin VersionsOf(b)
    BY <2>0, MaxOrZeroOfInterval DEF RevisionsOK
  <2>2. ASSUME NEW r \in Requests, request[r].pc = "versioned"
        PROVE  ~VersionTaken(Target(r), request[r].version)
    BY <2>0, <2>1, <2>2 DEF LockOK, VersionOK, VersionTaken
  <2> QED BY <2>0, <2>1, <2>2 DEF HistoryIntact, RevisionsOK
<1> QED BY Invariance, <1>1, PTL

-----------------------------------------------------------------------------
(* The ledgers. *)

\* LedgersAgree with what makes it inductive: the sets counted are finite.
LedgersOK ==
  /\ \A u \in Users : IsFiniteSet(RevisionsBy(u))
  /\ \A c \in Contributions : IsFiniteSet(RevisionsOf(c))
  /\ LedgersAgree

\* An approval's revision, announcement and reputation go up together.
LEMMA ApprovalLedgers ==
  ASSUME IInv, LedgersOK, NEW r \in Requests, NEW b \in Blocks, NEW n \in Nat,
         n \notin VersionsOf(b), InsertRevision(b, n, r), Credit(r),
         request[r].c \in Contributions, row[request[r].c].contributor \in Users,
         request[r].verdict = "APPROVED"
  PROVE  LedgersOK'
<1> DEFINE c0 == request[r].c
           u0 == row[c0].contributor
           new == [block |-> b, version |-> n, text |-> c0, changedBy |-> u0]
<1>0. TypeOK
  BY DEF IInv
<1>1. /\ revisions' = revisions \cup {new} /\ new \notin revisions
      /\ new.text = c0 /\ new.changedBy = u0
  BY DEF InsertRevision, VersionsOf
<1>2. /\ reputation'[u0].approved = reputation[u0].approved + 1
      /\ reputation'[u0].score = Score(reputation'[u0])
      /\ \A u \in Users \ {u0} : reputation'[u] = reputation[u]
      /\ reputation[u0].approved \in Nat
  <2> DEFINE rep == [reputation[u0] EXCEPT !.approved = @ + 1]
             rep2 == [rep EXCEPT !.score = Score(rep)]
  <2>1. reputation' = [reputation EXCEPT ![u0] = rep2]
    BY DEF Credit, BumpReputation, Counted
  <2>2. rep \in ReputationType /\ rep.approved = reputation[u0].approved + 1
    BY <1>0 DEF TypeOK, ReputationType
  <2>3. /\ rep2.approved = rep.approved /\ rep2.rejected = rep.rejected
        /\ rep2.needsChanges = rep.needsChanges /\ rep2.score = Score(rep)
    <3> HIDE DEF rep
    <3> QED BY <2>2 DEF ReputationType
  <2>4. Score(rep2) = Score(rep)
    <3> HIDE DEF rep, rep2
    <3> QED BY <2>3 DEF Score
  <2> HIDE DEF rep, rep2
  <2> QED BY <1>0, <2>1, <2>2, <2>3, <2>4 DEF TypeOK, ReputationType
<1>3. /\ notified'[c0]["APPROVED"] = notified[c0]["APPROVED"] + 1
      /\ \A c \in Contributions \ {c0} : notified'[c] = notified[c]
  BY <1>0 DEF Credit, Notify, TypeOK, Verdicts
<1> HIDE DEF new, u0, c0
<1>4. ASSUME NEW u \in Users
      PROVE  /\ IsFiniteSet(RevisionsBy(u)')
             /\ reputation'[u].approved = Cardinality(RevisionsBy(u)')
             /\ reputation'[u].score = Score(reputation'[u])
  <2>1. CASE u = u0
    <3>1. RevisionsBy(u)' = RevisionsBy(u) \cup {new} /\ new \notin RevisionsBy(u)
      BY <1>1, <2>1 DEF RevisionsBy
    <3>2. /\ IsFiniteSet(RevisionsBy(u))
          /\ reputation[u].approved = Cardinality(RevisionsBy(u))
      BY DEF LedgersOK, LedgersAgree
    <3>3. /\ IsFiniteSet(RevisionsBy(u)')
          /\ Cardinality(RevisionsBy(u)') = Cardinality(RevisionsBy(u)) + 1
      BY <3>1, <3>2, FS_AddElement
    <3> QED BY <1>2, <2>1, <3>2, <3>3
  <2>2. CASE u # u0
    <3>1. RevisionsBy(u)' = RevisionsBy(u)
      BY <1>1, <2>2 DEF RevisionsBy
    <3> QED BY <1>2, <2>2, <3>1 DEF LedgersOK, LedgersAgree
  <2> QED BY <2>1, <2>2
<1>5. ASSUME NEW c \in Contributions
      PROVE  /\ IsFiniteSet(RevisionsOf(c)')
             /\ notified'[c]["APPROVED"] = Cardinality(RevisionsOf(c)')
  <2>1. CASE c = c0
    <3>1. RevisionsOf(c)' = RevisionsOf(c) \cup {new} /\ new \notin RevisionsOf(c)
      BY <1>1, <2>1 DEF RevisionsOf
    <3> QED BY <1>3, <2>1, <3>1, FS_AddElement DEF LedgersOK, LedgersAgree
  <2>2. CASE c # c0
    <3>1. RevisionsOf(c)' = RevisionsOf(c)
      BY <1>1, <2>2 DEF RevisionsOf
    <3> QED BY <1>3, <2>2, <3>1 DEF LedgersOK, LedgersAgree
  <2> QED BY <2>1, <2>2
<1> QED BY <1>4, <1>5 DEF LedgersOK, LedgersAgree, RevisionsBy, RevisionsOf

\* A decline moves the other two counters and the score, and no approval.
LEMMA DeclineLedgers ==
  ASSUME IInv, LedgersOK, NEW r \in Requests, Decline(r) PROVE LedgersOK'
<1>0. TypeOK
  BY DEF IInv
<1>1. /\ request[r].c \in Contributions
      /\ row[request[r].c].contributor \in Users
      /\ request[r].verdict \in {"REJECTED", "NEEDS_CHANGES"}
      /\ Credit(r) /\ UNCHANGED revisions
  BY InFlightTypes DEF Decline
<1> DEFINE u0 == row[request[r].c].contributor
           rep == Counted(reputation[u0], request[r].verdict)
           rep2 == [rep EXCEPT !.score = Score(rep)]
<1>2. reputation' = [reputation EXCEPT ![u0] = rep2]
  BY <1>1 DEF Credit, BumpReputation
<1>3. rep \in ReputationType /\ rep.approved = reputation[u0].approved
  BY <1>0, <1>1 DEF TypeOK, ReputationType, Counted
<1>4. /\ rep2.approved = rep.approved /\ rep2.rejected = rep.rejected
      /\ rep2.needsChanges = rep.needsChanges /\ rep2.score = Score(rep)
  <2> HIDE DEF rep
  <2> QED BY <1>3 DEF ReputationType
<1>5. Score(rep2) = Score(rep)
  <2> HIDE DEF rep, rep2
  <2> QED BY <1>4 DEF Score
<1>6. \A u \in Users : /\ reputation'[u].approved = reputation[u].approved
                       /\ reputation'[u].score = Score(reputation'[u])
  <2> HIDE DEF rep, rep2
  <2> QED BY <1>0, <1>1, <1>2, <1>3, <1>4, <1>5 DEF TypeOK, LedgersOK, LedgersAgree
<1>7. \A c \in Contributions : notified'[c]["APPROVED"] = notified[c]["APPROVED"]
  BY <1>0, <1>1 DEF Credit, Notify, TypeOK, Verdicts
<1> QED BY <1>1, <1>6, <1>7 DEF LedgersOK, LedgersAgree, RevisionsBy, RevisionsOf

\* The tables a verdict writes agree in every state, whatever the interleaving
\* of curators and authors and wherever a request is cut off: approved_count is
\* the number of the member's revisions, the score is the formula, and each
\* revision was announced once.
THEOREM LedgersCorrect == Spec => []LedgersAgree
<1>1. Init => LedgersOK
  <2> SUFFICES ASSUME Init PROVE LedgersOK
    OBVIOUS
  <2>1. PICK backfilled \in SUBSET SeedBlocks :
          revisions = {[block |-> b, version |-> 1, text |-> SeedText,
                        changedBy |-> NoOne] : b \in backfilled}
    BY DEF Init
  <2>2. \A v \in revisions : v.changedBy = NoOne /\ v.text = SeedText
    BY <2>1
  <2>3. \A u \in Users : RevisionsBy(u) = {}
    BY <2>2, ContributionsAssumption DEF RevisionsBy
  <2>4. \A c \in Contributions : RevisionsOf(c) = {}
    BY <2>2, ContributionsAssumption DEF RevisionsOf
  <2>5. \A u \in Users : reputation[u].approved = 0 /\ reputation[u].score = Score(reputation[u])
    BY DEF Init, NoReputation, Score
  <2>6. \A c \in Contributions : notified[c]["APPROVED"] = 0
    BY DEF Init, Verdicts
  <2> QED BY <2>3, <2>4, <2>5, <2>6, FS_EmptySet DEF LedgersOK, LedgersAgree
<1>2. ASSUME IInv, LedgersOK, [Next]_vars PROVE LedgersOK'
  <2>0. TypeOK /\ VersionOK /\ LockOK /\ RevisionsOK
    BY <1>2 DEF IInv
  <2>1. ASSUME NEW r \in Requests, CommitEdit(r) PROVE LedgersOK'
    <3>1. PICK b \in Blocks : b = Target(r)
      BY <2>0, <2>1 DEF CommitEdit, LockOK
    <3>2. request[r].version \in Nat /\ request[r].version \notin VersionsOf(b)
      BY <1>2, <2>1, <3>1, InFlightTypes DEF CommitEdit, VersionTaken
    <3>3. /\ InsertRevision(b, request[r].version, r) /\ Credit(r)
          /\ request[r].pc = "versioned"
      BY <2>1, <3>1 DEF CommitEdit
    <3>4. /\ request[r].c \in Contributions /\ row[request[r].c].contributor \in Users
          /\ request[r].verdict = "APPROVED"
      BY <1>2, <3>3, InFlightTypes DEF IInv, InFlightOK
    <3> QED BY <1>2, <3>2, <3>3, <3>4, ApprovalLedgers
  <2>2. ASSUME NEW r \in Requests, NEW b \in Blocks, CommitNew(r, b) PROVE LedgersOK'
    <3> DEFINE n == MaxOrZero(VersionsOf(b)) + 1
    <3>1. n \in Nat /\ n \notin VersionsOf(b)
      BY <2>0, MaxOrZeroOfInterval DEF RevisionsOK
    <3>2. InsertRevision(b, n, r) /\ Credit(r) /\ request[r].pc = "ordered"
      BY <2>2 DEF CommitNew
    <3>3. /\ request[r].c \in Contributions /\ row[request[r].c].contributor \in Users
          /\ request[r].verdict = "APPROVED"
      BY <1>2, <3>2, InFlightTypes DEF IInv, InFlightOK
    <3>4. PICK k \in Nat : k = n
      BY <3>1
    <3> QED BY <1>2, <3>1, <3>2, <3>3, <3>4, ApprovalLedgers
  <2>3. CASE UNCHANGED <<revisions, reputation, notified>>
    BY <1>2, <2>3 DEF LedgersOK, LedgersAgree, RevisionsBy, RevisionsOf
  <2> QED
    BY <1>2, <2>1, <2>2, <2>3, DeclineLedgers DEF Next, Begin, CheckWithdraw, CheckResolve,
       Check, Continue, Submit, LockBlock, ReadMaxVersion, ReadMaxOrder, Withdraw, Abort,
       tables, vars
<1>3. LedgersOK => LedgersAgree
  BY DEF LedgersOK
<1> QED BY Invariance, <1>1, <1>2, <1>3, PTL DEF Spec

-----------------------------------------------------------------------------
(* Verdicts. *)

\* Once a contribution is decided or withdrawn and no request that saw it
\* PENDING is left, its row, its revisions and its announcements never change.
THEOREM SettledForGood == Spec => SettledIsFinal
<1> DEFINE Final == \A c \in Contributions :
             Settled(c) => Settled(c)' /\ UNCHANGED <<row[c], RevisionsOf(c), notified[c]>>
<1>1. ASSUME IInv, [Next]_vars PROVE Final
  <2> SUFFICES ASSUME NEW c \in Contributions, Settled(c)
               PROVE  Settled(c)' /\ UNCHANGED <<row[c], RevisionsOf(c), notified[c]>>
    OBVIOUS
  <2> DEFINE Same == UNCHANGED <<row[c], RevisionsOf(c), notified[c]>>
             Idling == \A s \in Requests : request'[s].c # c
  <2>0. /\ TypeOK /\ \A r \in Requests : request[r].c # c
        /\ row[c].status \notin {"ABSENT", "PENDING"}
    BY <1>1 DEF IInv, InFlight, Settled
  <2>1. ASSUME UNCHANGED tables PROVE Same
    BY <2>1 DEF tables, RevisionsOf
  <2>2. ASSUME NEW r \in Requests, NEW q, q.c # c, request' = [request EXCEPT ![r] = q]
        PROVE  Idling
    BY <2>0, <2>2 DEF TypeOK
  <2>3. ASSUME NEW r \in Requests, Finish(r) PROVE Idling
    <3>1. Idle.c # c
      BY ContributionsAssumption DEF Idle
    <3> QED
      BY <2>2, <2>3, <3>1 DEF Finish
  <2>4. ASSUME NEW r \in Requests, Credit(r) PROVE UNCHANGED notified[c] /\ Idling
    BY <2>0, <2>3, <2>4 DEF Credit, Notify, TypeOK
  <2>5. ASSUME NEW r \in Requests, NEW b, NEW n, InsertRevision(b, n, r)
        PROVE  UNCHANGED RevisionsOf(c)
    <3> DEFINE new == [block |-> b, version |-> n, text |-> request[r].c,
                       changedBy |-> row[request[r].c].contributor]
    <3>1. revisions' = revisions \cup {new} /\ new.text # c
      BY <2>0, <2>5 DEF InsertRevision
    <3> HIDE DEF new
    <3> QED
      BY <3>1 DEF RevisionsOf
  <2>6. ASSUME NEW d \in Contributions, NEW u \in Users, NEW b \in Blocks \cup {NoBlock},
               Submit(d, u, b)
        PROVE  Same /\ Idling
    BY <2>0, <2>6 DEF Submit, TypeOK, RevisionsOf
  <2>7. ASSUME NEW r \in Requests, NEW d \in Contributions, NEW u, NEW v, Check(r, d, u, v)
        PROVE  Same /\ Idling
    <3> DEFINE q == [Idle EXCEPT !.pc = "checked", !.c = d, !.by = u, !.verdict = v,
                       !.seen = IF row[d].target = NoBlock THEN NoText
                                ELSE block[row[d].target].text]
    <3>1. q.c = d /\ d # c /\ request' = [request EXCEPT ![r] = q] /\ UNCHANGED tables
      BY <2>0, <2>7 DEF Check, Idle
    <3> HIDE DEF q
    <3> QED
      BY <2>1, <2>2, <3>1
  <2>8. ASSUME NEW r \in Requests, Withdraw(r) PROVE Same /\ Idling
    BY <2>0, <2>3, <2>8 DEF Withdraw, TypeOK, RevisionsOf
  <2>9. ASSUME NEW r \in Requests, Decline(r) PROVE Same /\ Idling
    BY <2>0, <2>4, <2>9 DEF Decline, TypeOK, RevisionsOf
  <2>10. ASSUME NEW r \in Requests, CommitEdit(r) PROVE Same /\ Idling
    BY <2>0, <2>4, <2>5, <2>10 DEF CommitEdit, TypeOK
  <2>11. ASSUME NEW r \in Requests, NEW b \in Blocks, CommitNew(r, b) PROVE Same /\ Idling
    BY <2>0, <2>4, <2>5, <2>11 DEF CommitNew, TypeOK
  <2>12. ASSUME NEW r \in Requests, LockBlock(r) PROVE Same /\ Idling
    <3>1. request' = [request EXCEPT ![r] = [request[r] EXCEPT !.pc = "locked"]]
      BY <2>12 DEF LockBlock, Goto
    <3>2. [request[r] EXCEPT !.pc = "locked"].c # c
      BY <2>0 DEF TypeOK, RequestType
    <3> QED
      BY <2>1, <2>2, <2>12, <3>1, <3>2 DEF LockBlock
  <2>13. ASSUME NEW r \in Requests, ReadMaxVersion(r) PROVE Same /\ Idling
    <3> DEFINE n == MaxOrZero(VersionsOf(Target(r))) + 1
               q == [request[r] EXCEPT !.pc = "versioned", !.version = n]
    <3>1. request' = [request EXCEPT ![r] = q] /\ UNCHANGED tables
      BY <2>13 DEF ReadMaxVersion
    <3> HIDE DEF n
    <3>2. q.c # c
      BY <2>0 DEF TypeOK, RequestType
    <3> HIDE DEF q
    <3> QED
      BY <2>1, <2>2, <3>1, <3>2
  <2>14. ASSUME NEW r \in Requests, ReadMaxOrder(r) PROVE Same /\ Idling
    <3> DEFINE n == MaxOrZero({block[b].sortOrder : b \in {x \in Blocks : Exists(x)}}) + 1
               q == [request[r] EXCEPT !.pc = "ordered", !.sortOrder = n]
    <3>1. request' = [request EXCEPT ![r] = q] /\ UNCHANGED tables
      BY <2>14 DEF ReadMaxOrder
    <3> HIDE DEF n
    <3>2. q.c # c
      BY <2>0 DEF TypeOK, RequestType
    <3> HIDE DEF q
    <3> QED
      BY <2>1, <2>2, <3>1, <3>2
  <2>15. ASSUME NEW r \in Requests, Abort(r) PROVE Same /\ Idling
    BY <2>1, <2>3, <2>15 DEF Abort
  <2>16. ASSUME UNCHANGED vars PROVE Same /\ Idling
    BY <2>0, <2>16 DEF vars, RevisionsOf
  <2>17. Same /\ Idling
    BY <1>1, <2>6, <2>7, <2>8, <2>9, <2>10, <2>11, <2>12, <2>13, <2>14, <2>15, <2>16
       DEF Next, Begin, CheckWithdraw, CheckResolve, Continue
  <2> QED
    BY <2>0, <2>17 DEF Settled, InFlight
<1>2. IInv /\ [Next]_vars => [Final]_vars
  BY <1>1
<1> QED
  BY Invariance, <1>2, PTL DEF Spec, SettledIsFinal

-----------------------------------------------------------------------------
(* The refinement. *)

\* The revision list of a block as AppendOnlyHistory computes it from the rows.
Entry(b, i) == (CHOOSE v \in revisions : v.block = b /\ v.version = i).text
Entries(b) == [i \in 1 .. MaxOrZero(VersionsOf(b)) |-> Entry(b, i)]
Shown == [b \in Blocks |-> block[b].text]
Listed == [b \in Blocks |-> Entries(b)]

\* A list with one more element at its end is what Append makes of it.
LEMMA AppendAtEnd ==
  ASSUME NEW T, NEW n \in Nat, NEW s \in Seq(T), Len(s) = n, NEW e \in T,
         NEW t \in Seq(T), Len(t) = n + 1, t[n + 1] = e,
         \A i \in 1 .. n : t[i] = s[i]
  PROVE  t = Append(s, e)
<1>1. /\ Append(s, e) \in Seq(T) /\ Len(Append(s, e)) = n + 1
      /\ Append(s, e)[n + 1] = e
      /\ \A i \in 1 .. n : Append(s, e)[i] = s[i]
  BY AppendProperties
<1>2. \A i \in 1 .. Len(t) : t[i] = Append(s, e)[i]
  BY <1>1
<1> QED BY <1>1, <1>2, SeqEqual

\* A version number of a block names one revision row.
LEMMA EntryOfRow ==
  ASSUME RevisionsOK, NEW v \in revisions
  PROVE  Entry(v.block, v.version) = v.text
<1> DEFINE w == CHOOSE x \in revisions : x.block = v.block /\ x.version = v.version
<1>1. w \in revisions /\ w.block = v.block /\ w.version = v.version
  OBVIOUS
<1>2. w = v
  <2> HIDE DEF w
  <2> QED BY <1>1 DEF RevisionsOK
<1> QED BY <1>2 DEF Entry

\* The list of a block holds the texts of its revisions, in version order.
LEMMA EntriesType ==
  ASSUME TypeOK, RevisionsOK, NEW b \in Blocks
  PROVE  /\ MaxOrZero(VersionsOf(b)) \in Nat
         /\ VersionsOf(b) = 1 .. MaxOrZero(VersionsOf(b))
         /\ Entries(b) \in Seq(Texts)
         /\ Len(Entries(b)) = MaxOrZero(VersionsOf(b))
<1>1. PICK n \in Nat : VersionsOf(b) = 1 .. n
  BY DEF RevisionsOK
<1>2. MaxOrZero(VersionsOf(b)) = n
  BY <1>1, MaxOrZeroOfInterval
<1>3. ASSUME NEW i \in 1 .. n PROVE Entry(b, i) \in Texts
  <2>1. PICK v \in revisions : v.block = b /\ v.version = i
    BY <1>1, <1>3 DEF VersionsOf
  <2> QED BY <2>1, EntryOfRow DEF TypeOK, RevisionType
<1>4. Entries(b) = [i \in 1 .. n |-> Entry(b, i)]
  BY <1>2 DEF Entries
<1> QED BY <1>1, <1>2, <1>3, <1>4

\* Inserting the next revision of b appends its text to b's list and leaves
\* every other list alone.
LEMMA InsertedEntry ==
  ASSUME IInv, RevisionsOK', TypeOK', NEW r \in Requests, NEW b \in Blocks, NEW n,
         n = MaxOrZero(VersionsOf(b)) + 1, InsertRevision(b, n, r),
         request[r].c \in Contributions
  PROVE  Listed' = [Listed EXCEPT ![b] = Append(@, request[r].c)]
<1> DEFINE new == [block |-> b, version |-> n, text |-> request[r].c,
                   changedBy |-> row[request[r].c].contributor]
<1>0. /\ revisions' = revisions \cup {new}
      /\ new.block = b /\ new.version = n /\ new.text = request[r].c
      /\ TypeOK /\ RevisionsOK
  BY DEF InsertRevision, IInv
<1> HIDE DEF new
<1>1. ASSUME NEW v \in revisions' PROVE Entry(v.block, v.version)' = v.text
  <2> DEFINE w == CHOOSE x \in revisions' : x.block = v.block /\ x.version = v.version
  <2>1. w \in revisions' /\ w.block = v.block /\ w.version = v.version
    OBVIOUS
  <2>2. w = v
    <3> HIDE DEF w
    <3> QED BY <2>1 DEF RevisionsOK
  <2> QED BY <2>2 DEF Entry
<1>2. ASSUME NEW x \in Blocks, NEW i \in VersionsOf(x) PROVE Entry(x, i)' = Entry(x, i)
  <2>1. PICK v \in revisions : v.block = x /\ v.version = i
    BY DEF VersionsOf
  <2>2. Entry(x, i) = v.text
    BY <1>0, <2>1, EntryOfRow
  <2>3. v \in revisions'
    BY <1>0
  <2>4. Entry(x, i)' = v.text
    BY <1>1, <2>1, <2>3 DEF Entry
  <2> QED BY <2>2, <2>4
<1>3. /\ VersionsOf(b)' = VersionsOf(b) \cup {n}
      /\ \A x \in Blocks \ {b} : VersionsOf(x)' = VersionsOf(x)
  BY <1>0, InsertedVersion
<1>4. ASSUME NEW x \in Blocks
      PROVE  /\ MaxOrZero(VersionsOf(x)') \in Nat
             /\ VersionsOf(x)' = 1 .. MaxOrZero(VersionsOf(x)')
  BY MaxOrZeroOfInterval DEF RevisionsOK
<1>5. ASSUME NEW x \in Blocks \ {b} PROVE Entries(x)' = Entries(x)
  <2>1. MaxOrZero(VersionsOf(x)') = MaxOrZero(VersionsOf(x))
    BY <1>3
  <2>2. \A i \in 1 .. MaxOrZero(VersionsOf(x)) : Entry(x, i)' = Entry(x, i)
    BY <1>0, <1>2, EntriesType
  <2> QED BY <2>1, <2>2 DEF Entries
<1>6. Entries(b)' = Append(Entries(b), request[r].c)
  <2>1. PICK k \in Nat, s \in Seq(Texts), e \in Texts :
          /\ k = MaxOrZero(VersionsOf(b)) /\ VersionsOf(b) = 1 .. k
          /\ s = Entries(b) /\ Len(s) = k /\ e = request[r].c
    BY <1>0, EntriesType DEF Texts
  <2> DEFINE t == [i \in 1 .. k + 1 |-> Entry(b, i)']
  <2>2. VersionsOf(b)' = 1 .. k + 1
    <3>1. n = k + 1 /\ 1 .. k + 1 = (1 .. k) \cup {k + 1}
      BY <2>1
    <3> QED BY <1>3, <2>1, <3>1
  <2>3. MaxOrZero(VersionsOf(b)') = k + 1
    <3>1. k + 1 \in Nat
      OBVIOUS
    <3>2. MaxOrZero(1 .. k + 1) = k + 1
      BY <3>1, MaxOrZeroOfInterval
    <3> QED BY <2>2, <3>2
  <2>4. Entries(b)' = t
    BY <2>3 DEF Entries
  <2>5. Entry(b, k + 1)' = e
    <3>1. PICK v \in revisions' : v.block = b /\ v.version = k + 1 /\ v.text = e
      BY <1>0, <2>1
    <3> QED BY <1>1, <3>1
  <2>6. \A i \in 1 .. k : Entry(b, i)' = s[i]
    <3>1. \A i \in 1 .. k : s[i] = Entry(b, i)
      BY <2>1 DEF Entries
    <3> QED BY <1>2, <2>1, <3>1
  <2> DEFINE f == [i \in 1 .. k + 1 |-> IF i = k + 1 THEN e ELSE s[i]]
  <2>7. t = f
    BY <2>1, <2>5, <2>6
  <2>8. /\ f \in Seq(Texts) /\ Len(f) = k + 1 /\ f[k + 1] = e
        /\ \A i \in 1 .. k : f[i] = s[i]
    <3>1. \A i \in 1 .. k : s[i] \in Texts
      BY <2>1, ElementOfSeq
    <3>2. \A i \in 1 .. k + 1 : i \in 1 .. k \/ i = k + 1
      OBVIOUS
    <3>3. f \in [1 .. k + 1 -> Texts]
      BY <3>1, <3>2
    <3>4. f \in Seq(Texts) /\ Len(f) = k + 1
      <4> HIDE DEF f
      <4> QED BY <3>3
    <3>5. k + 1 \in 1 .. k + 1 /\ \A i \in 1 .. k : i \in 1 .. k + 1 /\ i # k + 1
      OBVIOUS
    <3> QED BY <3>4, <3>5
  <2> HIDE DEF f, t
  <2>9. f = Append(s, e)
    BY <2>1, <2>8, AppendAtEnd
  <2> QED BY <2>1, <2>4, <2>7, <2>9
<1>7. Listed' = [x \in Blocks |-> Entries(x)']
  BY DEF Listed
<1> QED BY <1>5, <1>6, <1>7 DEF Listed

\* What readers see of the blocks is the abstract append-only history: every
\* approval that commits is one Create or one Edit of it, and every other step
\* of a request, a crash included, changes nothing of it.
THEOREM HistoryImplemented == Spec => AppendOnlyHistory
<1> USE ContributionsAssumption
<1>1. Init => History!Init
  <2> SUFFICES ASSUME Init PROVE History!Init
    OBVIOUS
  <2>0. TypeOK /\ RevisionsOK
    BY InitIInv DEF IInv
  <2>1. PICK order \in [Blocks -> 0 .. Cardinality(SeedBlocks)] :
          block = [b \in Blocks |->
                     [text |-> IF b \in SeedBlocks THEN SeedText ELSE NoText,
                      sortOrder |-> IF b \in SeedBlocks THEN order[b] ELSE 0]]
    BY DEF Init
  <2>2. PICK backfilled \in SUBSET SeedBlocks :
          revisions = {[block |-> b, version |-> 1, text |-> SeedText,
                        changedBy |-> NoOne] : b \in backfilled}
    BY DEF Init
  <2>3. \A v \in revisions : v.version = 1 /\ v.text = SeedText
    BY <2>2
  <2>4. ASSUME NEW b \in Blocks
        PROVE  /\ Entries(b) \in {<<>>, <<SeedText>>}
               /\ ~Exists(b) => Entries(b) = <<>>
    <3>1. PICK n \in Nat : n = MaxOrZero(VersionsOf(b)) /\ VersionsOf(b) = 1 .. n
      BY <2>0, EntriesType
    <3>2. VersionsOf(b) \subseteq {1}
      BY <2>3 DEF VersionsOf
    <3>a. \A i \in 1 .. n : i \in VersionsOf(b)
      BY <3>1, Zenon
    <3>3. n = 0 \/ n = 1
      <4>1. \A i \in 1 .. n : i = 1
        BY <3>2, <3>a
      <4> QED BY <4>1
    <3>4. n = 1 => Entry(b, 1) = SeedText
      <4> SUFFICES ASSUME n = 1 PROVE Entry(b, 1) = SeedText
        OBVIOUS
      <4>1. 1 \in VersionsOf(b)
        BY <3>a
      <4>2. PICK v \in revisions : v.block = b /\ v.version = 1
        BY <4>1 DEF VersionsOf
      <4> QED BY <2>0, <2>3, <4>2, EntryOfRow
    <3>5. Entries(b) = [i \in 1 .. n |-> Entry(b, i)]
      BY <3>1 DEF Entries
    <3>6. CASE n = 0
      BY <3>5, <3>6
    <3>7. CASE n = 1
      <4>1. Entries(b) = <<SeedText>>
        BY <3>4, <3>5, <3>7
      <4>2. 1 \in VersionsOf(b)
        BY <3>a, <3>7
      <4>3. Exists(b)
        BY <2>0, <4>2 DEF RevisionsOK
      <4> QED BY <4>1, <4>3
    <3> QED BY <3>3, <3>6, <3>7
  <2>5. Listed \in [Blocks -> {<<>>, <<SeedText>>}]
    BY <2>4 DEF Listed
  <2>6. \A b \in Blocks : Shown[b] = NoText => Listed[b] = <<>>
    BY <2>4 DEF Listed, Shown, Exists
  <2>7. Shown \in [Blocks -> {SeedText, NoText}]
    BY <2>1 DEF Shown
  <2> QED BY <2>5, <2>6, <2>7 DEF Listed, Entries, Entry, Shown, History!Init, History!Exists
<1>2. ASSUME IInv, IInv', [Next]_vars PROVE [History!Next]_(History!vars)
  <2>0. TypeOK /\ TypeOK' /\ RevisionsOK' /\ LockOK /\ VersionOK /\ InFlightOK
    BY <1>2 DEF IInv
  <2>1. ASSUME NEW b \in Blocks, NEW t \in Contributions,
               Shown' = [Shown EXCEPT ![b] = t],
               Listed' = [Listed EXCEPT ![b] = Append(@, t)]
        PROVE  History!Next
    <3>1. History!Publish(b, t)
      BY <2>1 DEF Shown, Listed, Entries, Entry, History!Publish
    <3> QED BY <3>1 DEF History!Next, History!Create, History!Edit
  <2>2. ASSUME NEW r \in Requests, CommitEdit(r) PROVE History!Next
    <3>1. PICK b \in Blocks : b = Target(r)
      BY <2>0, <2>2 DEF CommitEdit, LockOK
    <3>2. /\ request[r].pc = "versioned" /\ request[r].c \in Contributions
          /\ request[r].version = MaxOrZero(VersionsOf(b)) + 1
          /\ InsertRevision(b, request[r].version, r)
          /\ block' = [block EXCEPT ![b].text = request[r].c]
      BY <2>0, <2>2, <3>1 DEF CommitEdit, VersionOK, InFlightOK
    <3>3. Listed' = [Listed EXCEPT ![b] = Append(@, request[r].c)]
      BY <1>2, <2>0, <3>2, InsertedEntry
    <3>4. Shown' = [Shown EXCEPT ![b] = request[r].c]
      BY <2>0, <3>2 DEF Shown, TypeOK, BlockType
    <3> QED BY <2>1, <3>2, <3>3, <3>4
  <2>3. ASSUME NEW r \in Requests, NEW b \in Blocks, CommitNew(r, b) PROVE History!Next
    <3>1. /\ request[r].pc = "ordered" /\ request[r].c \in Contributions
          /\ InsertRevision(b, MaxOrZero(VersionsOf(b)) + 1, r)
          /\ block' = [block EXCEPT ![b] = [text |-> request[r].c,
                                            sortOrder |-> request[r].sortOrder]]
      BY <2>0, <2>3 DEF CommitNew, InFlightOK
    <3>2. Listed' = [Listed EXCEPT ![b] = Append(@, request[r].c)]
      BY <1>2, <2>0, <3>1, InsertedEntry
    <3>3. Shown' = [Shown EXCEPT ![b] = request[r].c]
      BY <2>0, <3>1 DEF Shown, TypeOK
    <3> QED BY <2>1, <3>1, <3>2, <3>3
  <2>4. CASE UNCHANGED <<block, revisions>>
    <3>1. UNCHANGED History!vars
      BY <2>4 DEF History!vars, VersionsOf
    <3> QED BY <3>1
  <2> QED
    BY <1>2, <2>2, <2>3, <2>4 DEF Next, Begin, CheckWithdraw, CheckResolve, Check, Continue,
       Submit, LockBlock, ReadMaxVersion, ReadMaxOrder, Withdraw, Decline, Abort, tables, vars
<1> QED BY Invariance, <1>1, <1>2, PTL DEF Spec, AppendOnlyHistory, History!Spec
=============================================================================
