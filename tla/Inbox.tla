-------------------------------- MODULE Inbox -------------------------------
(* The grouped notifications of NotificationService: the rows one member has *)
(* under one group key, in the order they were created.  createOrGroup looks *)
(* for the newest unread row of the last hour and then, in a statement of    *)
(* its own and in no transaction, either writes the whole payload of that    *)
(* row, merged from what it has read, or creates a new row.                  *)
EXTENDS Integers, Sequences, FiniteSets

CONSTANTS Actors,   \* members who post, reply or write in the group's target
          Cap,      \* ACTORS_CAP
          Requests, \* how many requests the API serves at a time
          MaxRows,  \* bound on the rows of the group
          NoOne     \* whom an idle request acts for

ASSUME InboxAssumption ==
  /\ IsFiniteSet(Requests)
  /\ Cap \in Nat \ {0}
  /\ MaxRows \in Nat \ {0}
  /\ NoOne \notin Actors

VARIABLES inbox,  \* the rows, oldest first
          old,    \* how many of them were created more than GROUP_WINDOW_MS ago
          request \* the requests in flight

vars == <<inbox, old, request>>

Idle == [pc |-> "idle", actor |-> NoOne, row |-> 0, seen |-> <<>>]

Init ==
  /\ inbox = <<>>
  /\ old = 0
  /\ request = [r \in Requests |-> Idle]

-----------------------------------------------------------------------------
Rows == 1 .. Len(inbox)
Finish(r) == request' = [request EXCEPT ![r] = Idle]

\* The rows a call may be merged into.
Groupable == {i \in Rows : i > old /\ ~inbox[i].read}

\* The newest of some rows, if there are any.
Newest(S) == {i \in S : \A j \in S : j <= i}

\* What a call keeps when it has found a row, and when it has found none.
Merging(i, a) == [pc |-> "merging", actor |-> a, row |-> i, seen |-> inbox[i].actors]
CreatingFor(a) == [pc |-> "creating", actor |-> a, row |-> 0, seen |-> <<>>]

\* Faulty variant of Find: the unread row is not found.
FindNone(r, a) ==
  /\ request[r].pc = "idle"
  /\ request' = [request EXCEPT ![r] = CreatingFor(a)]
  /\ UNCHANGED <<inbox, old>>

\* Faulty variant of Find: the actor is not passed on.
FindAnonymous(r, a) ==
  /\ request[r].pc = "idle"
  /\ Groupable = {}
  /\ request' = [request EXCEPT ![r] = CreatingFor(NoOne)]
  /\ UNCHANGED <<inbox, old>>

\* createOrGroup, findFirst.
Find(r, a) ==
  /\ request[r].pc = "idle"
  /\ \/ Groupable = {} /\ request' = [request EXCEPT ![r] = CreatingFor(a)]
     \/ \E i \in Newest(Groupable) : request' = [request EXCEPT ![r] = Merging(i, a)]
  /\ UNCHANGED <<inbox, old>>

Among(a, actors) == \E i \in DOMAIN actors : actors[i] = a

Merged(actors, a) == IF Among(a, actors) THEN actors ELSE Append(actors, a)

\* slice(-ACTORS_CAP); the overflow, which only the client shows, is left out.
Capped(actors) ==
  IF Len(actors) <= Cap THEN actors
  ELSE SubSeq(actors, Len(actors) - Cap + 1, Len(actors))

\* Faulty variant of Merge: the newest actor is what the cap cuts off.
MergeKeepingOldest(r) ==
  LET actors == Merged(request[r].seen, request[r].actor) IN
  /\ request[r].pc = "merging"
  /\ inbox' = [inbox EXCEPT ![request[r].row] =
       [@ EXCEPT !.actors = SubSeq(actors, 1, IF Len(actors) <= Cap THEN Len(actors) ELSE Cap),
                 !.actor = request[r].actor]]
  /\ Finish(r)
  /\ UNCHANGED old

\* The update.  It leaves is_read as it is.
Merge(r) ==
  LET actors == Merged(request[r].seen, request[r].actor) IN
  /\ request[r].pc = "merging"
  /\ inbox' = [inbox EXCEPT ![request[r].row] =
       [read |-> @.read, actors |-> Capped(actors), actor |-> request[r].actor]]
  /\ Finish(r)
  /\ UNCHANGED old

Create(r) ==
  /\ request[r].pc = "creating"
  /\ Len(inbox) < MaxRows
  /\ inbox' = Append(inbox, [read |-> FALSE, actors |-> <<request[r].actor>>,
                             actor |-> request[r].actor])
  /\ Finish(r)
  /\ UNCHANGED old

\* A call that fails; its caller does not try again.
Fail(r) ==
  /\ request[r].pc # "idle"
  /\ Finish(r)
  /\ UNCHANGED <<inbox, old>>

MarkRead(i) ==
  /\ inbox' = [inbox EXCEPT ![i] = [@ EXCEPT !.read = TRUE]]
  /\ UNCHANGED <<old, request>>

MarkAllRead ==
  /\ inbox' = [i \in Rows |-> [inbox[i] EXCEPT !.read = TRUE]]
  /\ UNCHANGED <<old, request>>

\* An hour after it was created, the oldest row of the window leaves it.
Age == old < Len(inbox) /\ old' = old + 1 /\ UNCHANGED <<inbox, request>>

Next ==
  \/ \E r \in Requests :
       \/ \E a \in Actors : Find(r, a)
       \/ Merge(r)
       \/ Create(r)
       \/ Fail(r)
  \/ \E i \in Rows : MarkRead(i)
  \/ MarkAllRead
  \/ Age

Spec == Init /\ [][Next]_vars

-----------------------------------------------------------------------------
RowType == [read : BOOLEAN, actors : Seq(Actors), actor : Actors]

RequestType == [pc : {"idle", "merging", "creating"}, actor : Actors \cup {NoOne},
                row : Nat, seen : Seq(Actors)]

\* Every column and every local of a request holds a value of its type.
TypeOK ==
  /\ inbox \in Seq(RowType)
  /\ Len(inbox) <= MaxRows
  /\ old \in 0 .. Len(inbox)
  /\ request \in [Requests -> RequestType]

Creating == {r \in Requests : request[r].pc = "creating"}

\* A burst of calls is coalesced but for races: the rows of the group a member
\* has not read, within the window, and the calls about to create another never
\* outnumber the requests served at a time; calls that come one by one share one
\* row, however the member reads in between.
FewUnreadRows ==
  Cardinality(Groupable) + Cardinality(Creating) <= Cardinality(Requests)

\* However stale the payload a call merges into was, a row names no member
\* twice and at most Cap of them, and the actor that blocks and mutes are
\* checked against is one of those it names.
ActorsAgree ==
  \A i \in Rows :
    /\ \A j, k \in DOMAIN inbox[i].actors : inbox[i].actors[j] = inbox[i].actors[k] => j = k
    /\ Len(inbox[i].actors) \in 1 .. Cap
    /\ Among(inbox[i].actor, inbox[i].actors)

\* A row that may no longer be merged into, and that no call is merging into.
Closed(i) ==
  /\ i \in Rows
  /\ i <= old \/ inbox[i].read
  /\ \A r \in Requests : request[r].pc = "merging" => request[r].row # i

\* Once a row has been read or has left the window, and the calls that had found
\* it have ended, nobody is added to it any more.
ClosedRowsRest ==
  [][\A i \in Rows : Closed(i) => Closed(i)' /\ inbox'[i].actors = inbox[i].actors]_vars

=============================================================================
