----------------------------- MODULE Recruitment ----------------------------
(* One recruitment post and the requests of RecruitmentService on it.  apply *)
(* reads the post and later upserts; decide reads the application, its       *)
(* recruitment and the post, and only then opens a transaction, which runs   *)
(* under READ COMMITTED: it updates the application and keeps its row lock,  *)
(* counts the accepted ones, and commits.  The post carries its status twice *)
(* (post.service.ts writes the JSON, decide writes both).                    *)
EXTENDS RecruitmentPromise, FiniteSets

CONSTANTS Requests, \* the requests the API serves at a time
          NoOne     \* whom an idle request is about

ASSUME RecruitmentAssumption ==
  /\ IsFiniteSet(Applicants)
  /\ IsFiniteSet(Requests) /\ Requests # {}
  /\ NoOne \notin Applicants

VARIABLES request \* the requests in flight

vars == <<post, legacy, app, recruitment, told, request>>

Idle == [pc |-> "idle", u |-> NoOne, decision |-> "ABSENT", sawOpen |-> FALSE,
         accepted |-> 0]

Created == CreatePost /\ request = [r \in Requests |-> Idle]

-----------------------------------------------------------------------------
Finish(r) == request' = [request EXCEPT ![r] = Idle]

\* decide's transaction holds the application's row lock until it ends.
Locked(u) ==
  \E r \in Requests : request[r].u = u /\ request[r].pc \in {"updated", "counted"}

AcceptedBut(u) == Cardinality({v \in Applicants \ {u} : app[v] = "ACCEPTED"})

\* Faulty variant of LoadPost: no check of the recruitment's status.
LoadPostAnyStatus(r, u) ==
  /\ request[r].pc = "idle"
  /\ post = "VISIBLE"
  /\ request' = [request EXCEPT ![r] = [Idle EXCEPT !.pc = "applying", !.u = u]]
  /\ UNCHANGED rows

\* apply, first half.
LoadPost(r, u) ==
  /\ request[r].pc = "idle"
  /\ post = "VISIBLE"
  /\ recruitment.status = "OPEN"
  /\ request' = [request EXCEPT ![r] = [Idle EXCEPT !.pc = "applying", !.u = u]]
  /\ UNCHANGED rows

\* apply, second half: whatever the row's status was, it is PENDING again.
Upsert(r) ==
  /\ request[r].pc = "applying"
  /\ ~Locked(request[r].u)
  /\ Applied(request[r].u)
  /\ Finish(r)
  /\ UNCHANGED <<recruitment, told>>

\* withdraw: the UPDATE itself looks for a PENDING row.
WithdrawApplication(u) ==
  /\ post = "VISIBLE"
  /\ ~Locked(u)
  /\ Withdrawn(u)
  /\ UNCHANGED <<recruitment, told, request>>

\* Faulty variant of LoadApplication: the request's word, ACCEPT or REJECT, is
\* not translated to a status.
LoadApplicationRaw(r, u, decision) ==
  /\ request[r].pc = "idle"
  /\ app[u] = "PENDING"
  /\ request' = [request EXCEPT ![r] =
       [Idle EXCEPT !.pc = "deciding", !.u = u,
                    !.decision = IF decision = "ACCEPTED" THEN "ACCEPT" ELSE "REJECT",
                    !.sawOpen = (recruitment.status = "OPEN")]]
  /\ UNCHANGED rows

\* decide, before the transaction.  Nobody looks at the post's status.
LoadApplication(r, u, decision) ==
  /\ request[r].pc = "idle"
  /\ app[u] = "PENDING"
  /\ request' = [request EXCEPT ![r] =
       [Idle EXCEPT !.pc = "deciding", !.u = u, !.decision = decision,
                    !.sawOpen = (recruitment.status = "OPEN")]]
  /\ UNCHANGED rows

\* The update by id checks no status: it waits for the lock and overwrites.
UpdateApplication(r) ==
  /\ request[r].pc = "deciding"
  /\ ~Locked(request[r].u)
  /\ request' = [request EXCEPT ![r] = [@ EXCEPT !.pc = "updated"]]
  /\ UNCHANGED rows

Counts(r) == request[r].decision = "ACCEPTED" /\ recruitment.capacity # NoCapacity

\* Faulty variant of CountAccepted: it counts what others have committed only.
CountOthers(r) ==
  /\ request[r].pc = "updated"
  /\ Counts(r)
  /\ request' = [request EXCEPT ![r] =
       [@ EXCEPT !.pc = "counted", !.accepted = AcceptedBut(request[r].u)]]
  /\ UNCHANGED rows

\* The transaction sees its own update and what others have committed.
CountAccepted(r) ==
  /\ request[r].pc = "updated"
  /\ Counts(r)
  /\ request' = [request EXCEPT ![r] =
       [@ EXCEPT !.pc = "counted", !.accepted = AcceptedBut(request[r].u) + 1]]
  /\ UNCHANGED rows

Fills(r) ==
  /\ request[r].pc = "counted"
  /\ request[r].sawOpen
  /\ request[r].accepted >= recruitment.capacity

\* Faulty variant of CommitDecision: the application and its notice are committed
\* before the recruitment is filled, by a transaction of its own.
CommitTwice(r) ==
  LET u == request[r].u
      first == app[u] # request[r].decision IN
  /\ request[r].pc = IF Counts(r) THEN "counted" ELSE "updated"
  /\ Put(u, request[r].decision)
  /\ IF first THEN Notify(u, request[r].decision) ELSE UNCHANGED told
  /\ IF Fills(r) /\ ~first
     THEN recruitment' = [recruitment EXCEPT !.status = "FILLED"] /\ legacy' = "FILLED"
     ELSE UNCHANGED <<recruitment, legacy>>
  /\ IF Fills(r) /\ first THEN UNCHANGED request ELSE Finish(r)
  /\ UNCHANGED post

\* The stale JSON is merged over whatever the author has announced meanwhile.
CommitDecision(r) ==
  LET u == request[r].u
      status == IF Fills(r) THEN "FILLED" ELSE recruitment.status IN
  /\ request[r].pc = IF Counts(r) THEN "counted" ELSE "updated"
  /\ Put(u, request[r].decision)
  /\ recruitment' = [recruitment EXCEPT !.status = status]
  /\ legacy' = IF Fills(r) THEN "FILLED" ELSE legacy
  /\ Notify(u, request[r].decision)
  /\ Finish(r)
  /\ UNCHANGED post

\* A request that fails, or whose transaction is rolled back.
Abort(r) ==
  /\ request[r].pc # "idle"
  /\ Finish(r)
  /\ UNCHANGED rows

ManagePost == Manage /\ UNCHANGED <<recruitment, told, request>>

ServeRequest(r) ==
  \/ \E u \in Applicants :
       \/ LoadPost(r, u)
       \/ \E decision \in Decisions : LoadApplication(r, u, decision)
  \/ Upsert(r)
  \/ UpdateApplication(r)
  \/ CountAccepted(r)
  \/ CommitDecision(r)
  \/ Abort(r)

NextStep ==
  \/ \E r \in Requests : ServeRequest(r)
  \/ \E u \in Applicants : WithdrawApplication(u)
  \/ ManagePost

RecruitmentSpec == Created /\ [][NextStep]_vars

-----------------------------------------------------------------------------
RequestType == [pc : {"idle", "applying", "deciding", "updated", "counted"},
                u : Applicants \cup {NoOne}, decision : AppStatuses,
                sawOpen : BOOLEAN, accepted : Nat]

NoticeType == [decision : AppStatuses, odd : BOOLEAN]

\* Every column and every local of a request holds a value of its type.
TypeOK ==
  /\ post \in PostStatuses
  /\ legacy \in RecruitmentStatuses
  /\ app \in [Applicants -> AppStatuses]
  /\ recruitment \in [status : RecruitmentStatuses, capacity : Capacities]
  /\ told \in [Applicants -> NoticeType]
  /\ request \in [Requests -> RequestType]

InFlight(u) == \E r \in Requests : request[r].u = u

\* The last decision an applicant was notified of is the one that stands, when
\* one stands: whatever curators and the author decide at the same time, and
\* wherever a transaction fails, nobody stays accepted who was last told no.
LastWordStands ==
  \A u \in Applicants : app[u] \in Decisions => told[u].decision = app[u]

Accepted == {u \in Applicants : app[u] = "ACCEPTED"}

\* A recruitment that is still OPEN has a seat left, but for the acceptances
\* decided at the same time, which do not count each other: they take at most one
\* seat each beyond the first's count, whatever is decided, withdrawn, applied for
\* again or rolled back before and after.
FewSeatsOver ==
  recruitment.status = "OPEN" /\ recruitment.capacity # NoCapacity =>
    Cardinality(Accepted) <= (recruitment.capacity - 1) + (Cardinality(Requests) - 1)

Settled(u) == recruitment.status # "OPEN" /\ app[u] # "PENDING" /\ ~InFlight(u)

\* Once the recruitment row is no longer OPEN and the requests about a member
\* that were under way have ended, an application of that member which is not
\* pending stays as it is for good: whatever the author announces later, even a
\* reopening, no request about it starts again.
SettledOnceFilled ==
  [][\A u \in Applicants :
       Settled(u) => Settled(u)' /\ UNCHANGED <<app[u], told[u]>>]_vars

\* The requests, reads and transactions of the service amount to the steps of the
\* promise: a withdrawal only ever takes back a pending application, a decision
\* comes with its one notice and with the FILLED it brings about in both places,
\* and the row becomes FILLED by nothing else.
ImplementsPromise == PromiseSpec

\* The schema says a recruitment becomes FILLED when the number of accepted
\* applications reaches its capacity.  Two decisions at a time may both count
\* before the other commits, and it stays OPEN with every seat taken.
FullIsFilled ==
  recruitment.status = "OPEN" /\ (\A r \in Requests : request[r].pc = "idle") =>
    \/ recruitment.capacity = NoCapacity
    \/ Cardinality(Accepted) < recruitment.capacity

=============================================================================
