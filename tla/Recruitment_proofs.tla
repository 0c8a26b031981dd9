------------------------- MODULE Recruitment_proofs -------------------------
(* The two that work on a recruitment.  Recruitment, for any number of       *)
(* applicants and requests and any capacities: its types, that the last word *)
(* an applicant heard stands, that filled is final for a settled             *)
(* application, how far an open recruitment may be oversubscribed, and that  *)
(* it implements RecruitmentPromise.  DmChannels, for any applicants,        *)
(* proposals, grace and bounds: its types, the grace of a recruitment's      *)
(* channel, and that a closed channel stays quiet.                           *)
EXTENDS Recruitment, DmChannels, FiniteSetTheorems, TLAPS

Working(r) == request[r].pc \in {"deciding", "updated", "counted"}

\* What a request in flight knows: whom it is about, and, when it decides, that
\* the application exists (rows are never deleted) and a real decision.
RequestsOK ==
  \A r \in Requests :
    /\ request[r].pc # "idle" => request[r].u \in Applicants
    /\ Working(r) => /\ request[r].decision \in Decisions
                     /\ app[request[r].u] # "ABSENT"

IInv == TypeOK /\ RequestsOK /\ LastWordStands

-----------------------------------------------------------------------------
\* An idle request, and the updates the handlers make to one, keep its type.
LEMMA RequestUpdates ==
  ASSUME NEW q \in RequestType, NEW u \in Applicants, NEW n \in Nat,
         NEW d \in AppStatuses, NEW b \in BOOLEAN
  PROVE  /\ Idle \in RequestType
         /\ [Idle EXCEPT !.pc = "applying", !.u = u] \in RequestType
         /\ [Idle EXCEPT !.pc = "deciding", !.u = u, !.decision = d,
                         !.sawOpen = b] \in RequestType
         /\ [q EXCEPT !.pc = "updated"] \in RequestType
         /\ [q EXCEPT !.pc = "counted", !.accepted = n] \in RequestType
BY DEF RequestType, Idle, AppStatuses, Decisions

\* The number of accepted applications is a natural number.
LEMMA AcceptedIsNat ==
  ASSUME NEW u \in Applicants
  PROVE  AcceptedBut(u) + 1 \in Nat
<1> DEFINE Others == {v \in Applicants \ {u} : app[v] = "ACCEPTED"}
<1>1. IsFiniteSet(Others)
  <2>1. Others \subseteq Applicants
    OBVIOUS
  <2>2. IsFiniteSet(Applicants)
    BY RecruitmentAssumption
  <2> QED
    BY <2>1, <2>2, FS_Subset
<1>2. Cardinality(Others) \in Nat
  BY <1>1, FS_CardinalityType
<1> QED
  BY <1>2 DEF AcceptedBut

-----------------------------------------------------------------------------
\* The invariant holds when the post is created.
LEMMA InitInv == Created => IInv
<1> SUFFICES ASSUME Created PROVE IInv
  OBVIOUS
<1> USE DEF Created, CreatePost, Init
<1>1. TypeOK
  <2>1. recruitment \in [status : RecruitmentStatuses, capacity : Capacities]
    OBVIOUS
  <2>2. request \in [Requests -> RequestType]
    BY DEF Idle, RequestType, AppStatuses
  <2> QED
    BY <2>1, <2>2 DEF TypeOK, NoticeType, PostStatuses, AppStatuses
<1>2. RequestsOK
  BY DEF RequestsOK, Working, Idle
<1>3. LastWordStands
  BY DEF LastWordStands, Decisions
<1> QED
  BY <1>1, <1>2, <1>3 DEF IInv

\* Reading requests, and rolled-back ones, leave the tables alone.
LEMMA ReadStep ==
  ASSUME IInv, NEW r \in Requests, UNCHANGED rows,
         NEW q \in RequestType,
         request' = [request EXCEPT ![r] = q],
         q.pc # "idle" => q.u \in Applicants,
         q.pc \in {"deciding", "updated", "counted"} =>
           q.decision \in Decisions /\ app[q.u] # "ABSENT"
  PROVE  IInv'
<1>1. TypeOK'
  BY DEF IInv, TypeOK, rows
<1>2. RequestsOK'
  <2> SUFFICES ASSUME NEW s \in Requests
               PROVE  /\ request'[s].pc # "idle" => request'[s].u \in Applicants
                      /\ request'[s].pc \in {"deciding", "updated", "counted"} =>
                           /\ request'[s].decision \in Decisions
                           /\ app'[request'[s].u] # "ABSENT"
    BY DEF RequestsOK, Working
  <2>1. CASE s = r
    <3>1. request'[s] = q
      BY <2>1 DEF IInv, TypeOK
    <3> QED
      BY <3>1 DEF rows
  <2>2. CASE s # r
    <3>1. request'[s] = request[s]
      BY <2>2 DEF IInv, TypeOK
    <3> QED
      BY <3>1 DEF IInv, RequestsOK, Working, rows
  <2> QED
    BY <2>1, <2>2
<1>3. LastWordStands'
  BY DEF IInv, LastWordStands, rows
<1> QED
  BY <1>1, <1>2, <1>3 DEF IInv

\* Writing a status other than ABSENT to one application keeps what requests
\* know of the others.
LEMMA WriteStep ==
  ASSUME IInv, NEW u \in Applicants, NEW status \in AppStatuses \ {"ABSENT"},
         Put(u, status), post' \in PostStatuses, legacy' \in RecruitmentStatuses,
         recruitment' \in [status : RecruitmentStatuses, capacity : Capacities],
         \/ told' = told /\ status \notin Decisions
         \/ Notify(u, status),
         \/ request' = request
         \/ \E r \in Requests : Finish(r)
  PROVE  IInv'
<1>1. app' = [app EXCEPT ![u] = status]
  BY DEF Put
<1>2. request' \in [Requests -> RequestType]
  <2>1. Idle \in RequestType
    BY DEF Idle, RequestType, AppStatuses
  <2> QED
    BY <2>1 DEF IInv, TypeOK, Finish
<1>3. told' \in [Applicants -> NoticeType]
  <2>1. CASE told' = told
    BY <2>1 DEF IInv, TypeOK
  <2>2. CASE Notify(u, status)
    <3>1. told[u].odd \in BOOLEAN
      BY DEF IInv, TypeOK, NoticeType
    <3>2. PICK odd \in BOOLEAN : odd = ~told[u].odd
      BY <3>1
    <3>3. told' = [told EXCEPT ![u] = [decision |-> status, odd |-> odd]]
      BY <2>2, <3>2 DEF Notify
    <3>4. [decision |-> status, odd |-> odd] \in NoticeType
      BY DEF NoticeType
    <3> QED
      BY <3>3, <3>4 DEF IInv, TypeOK
  <2> QED
    BY <2>1, <2>2
<1>4. TypeOK'
  BY <1>1, <1>2, <1>3 DEF IInv, TypeOK
<1>5. RequestsOK'
  <2> SUFFICES ASSUME NEW s \in Requests
               PROVE  /\ request'[s].pc # "idle" => request'[s].u \in Applicants
                      /\ request'[s].pc \in {"deciding", "updated", "counted"} =>
                           /\ request'[s].decision \in Decisions
                           /\ app'[request'[s].u] # "ABSENT"
    BY DEF RequestsOK, Working
  <2>1. request'[s] = request[s] \/ request'[s] = Idle
    BY DEF IInv, TypeOK, Finish
  <2>2. CASE request'[s] = Idle
    BY <2>2 DEF Idle
  <2>3. CASE request'[s] = request[s]
    BY <1>1, <2>3 DEF IInv, RequestsOK, Working, TypeOK
  <2> QED
    BY <2>1, <2>2, <2>3
<1>6. LastWordStands'
  BY <1>1 DEF IInv, LastWordStands, TypeOK, Notify, NoticeType
<1> QED
  BY <1>4, <1>5, <1>6 DEF IInv

\* The invariant is inductive: every step of every request, of an applicant who
\* withdraws and of whoever manages the post preserves it.
LEMMA NextInv == IInv /\ [NextStep]_vars => IInv'
<1> SUFFICES ASSUME IInv, [NextStep]_vars PROVE IInv'
  OBVIOUS
<1>0. TypeOK
  BY DEF IInv
<1> USE DEF IInv
<1>1. ASSUME NEW r \in Requests, NEW u \in Applicants, LoadPost(r, u) PROVE IInv'
  <2> DEFINE q == [Idle EXCEPT !.pc = "applying", !.u = u]
  <2>1. q \in RequestType /\ q.pc = "applying" /\ q.u = u
    BY DEF Idle, RequestType, AppStatuses
  <2>2. request' = [request EXCEPT ![r] = q] /\ UNCHANGED rows
    BY <1>1 DEF LoadPost
  <2> HIDE DEF q
  <2> QED
    BY <2>1, <2>2, ReadStep
<1>2. ASSUME NEW r \in Requests, NEW u \in Applicants, NEW d \in Decisions,
             LoadApplication(r, u, d)
      PROVE  IInv'
  <2> DEFINE q == [Idle EXCEPT !.pc = "deciding", !.u = u, !.decision = d,
                               !.sawOpen = (recruitment.status = "OPEN")]
  <2>1. q \in RequestType /\ q.pc = "deciding" /\ q.u = u /\ q.decision = d
    BY DEF Idle, RequestType, AppStatuses
  <2>2. request' = [request EXCEPT ![r] = q] /\ UNCHANGED rows /\ app[u] # "ABSENT"
    BY <1>2 DEF LoadApplication
  <2> HIDE DEF q
  <2> QED
    BY <2>1, <2>2, ReadStep
<1>3. ASSUME NEW r \in Requests, Upsert(r) PROVE IInv'
  <2>1. request[r].u \in Applicants
    BY <1>3 DEF Upsert, RequestsOK
  <2>2. PICK u \in Applicants : u = request[r].u
    BY <2>1
  <2>3. Put(u, "PENDING") /\ Finish(r) /\ UNCHANGED <<post, legacy, recruitment, told>>
    BY <1>3, <2>2 DEF Upsert, Applied
  <2>4. "PENDING" \in AppStatuses \ {"ABSENT"} /\ "PENDING" \notin Decisions
    BY DEF AppStatuses, Decisions
  <2> QED
    BY <1>0, <2>3, <2>4, WriteStep DEF TypeOK
<1>4. ASSUME NEW r \in Requests, UpdateApplication(r) PROVE IInv'
  <2> DEFINE q == [request[r] EXCEPT !.pc = "updated"]
  <2>1. /\ q \in RequestType /\ q.pc = "updated" /\ q.u = request[r].u
        /\ q.decision = request[r].decision
    BY <1>0 DEF TypeOK, RequestType
  <2>2. request' = [request EXCEPT ![r] = q] /\ UNCHANGED rows /\ request[r].pc = "deciding"
    BY <1>4 DEF UpdateApplication
  <2>3. /\ request[r].u \in Applicants /\ request[r].decision \in Decisions
        /\ app[request[r].u] # "ABSENT"
    BY <2>2 DEF RequestsOK, Working
  <2> HIDE DEF q
  <2> QED
    BY <2>1, <2>2, <2>3, ReadStep
<1>5. ASSUME NEW r \in Requests, CountAccepted(r) PROVE IInv'
  <2>1. PICK n \in Nat : n = AcceptedBut(request[r].u) + 1
    <3>1. request[r].u \in Applicants
      BY <1>5 DEF CountAccepted, RequestsOK
    <3> QED
      BY <3>1, AcceptedIsNat
  <2> DEFINE q == [request[r] EXCEPT !.pc = "counted", !.accepted = n]
  <2>2. /\ q \in RequestType /\ q.pc = "counted" /\ q.u = request[r].u
        /\ q.decision = request[r].decision
    BY <1>0, <2>1 DEF TypeOK, RequestType
  <2>3. request' = [request EXCEPT ![r] = q] /\ UNCHANGED rows /\ request[r].pc = "updated"
    BY <1>5, <2>1 DEF CountAccepted
  <2>4. /\ request[r].u \in Applicants /\ request[r].decision \in Decisions
        /\ app[request[r].u] # "ABSENT"
    BY <2>3 DEF RequestsOK, Working
  <2> HIDE DEF q
  <2> QED
    BY <2>2, <2>3, <2>4, ReadStep
<1>6. ASSUME NEW r \in Requests, CommitDecision(r) PROVE IInv'
  <2>1. request[r].pc \in {"updated", "counted"}
    BY <1>6 DEF CommitDecision
  <2>2. PICK u \in Applicants, d \in Decisions : u = request[r].u /\ d = request[r].decision
    BY <2>1 DEF RequestsOK, Working
  <2>3. /\ Put(u, d) /\ Notify(u, d) /\ Finish(r) /\ UNCHANGED post
        /\ legacy' = IF Fills(r) THEN "FILLED" ELSE legacy
        /\ recruitment' = [recruitment EXCEPT
             !.status = IF Fills(r) THEN "FILLED" ELSE recruitment.status]
    BY <1>6, <2>2 DEF CommitDecision
  <2>4. /\ d \in AppStatuses \ {"ABSENT"}
        /\ post' \in PostStatuses /\ legacy' \in RecruitmentStatuses
        /\ recruitment' \in [status : RecruitmentStatuses, capacity : Capacities]
    BY <1>0, <2>3 DEF TypeOK, AppStatuses, Decisions, RecruitmentStatuses
  <2> QED
    BY <2>3, <2>4, WriteStep
<1>7. ASSUME NEW r \in Requests, Abort(r) PROVE IInv'
  <2>1. Idle \in RequestType /\ Idle.pc = "idle"
    BY DEF Idle, RequestType, AppStatuses
  <2> QED
    BY <1>7, <2>1, ReadStep DEF Abort, Finish
<1>8. ASSUME NEW u \in Applicants, WithdrawApplication(u) PROVE IInv'
  <2>1. "WITHDRAWN" \in AppStatuses \ {"ABSENT"} /\ "WITHDRAWN" \notin Decisions
    BY DEF AppStatuses, Decisions
  <2> QED
    BY <1>0, <1>8, <2>1, WriteStep DEF WithdrawApplication, Withdrawn, TypeOK
<1>9. CASE ManagePost
  <2>1. post' \in PostStatuses /\ legacy' \in RecruitmentStatuses
        /\ UNCHANGED <<app, recruitment, told, request>>
    BY <1>0, <1>9 DEF ManagePost, Manage, SetRecruitmentStatus, SoftDelete, Hide, Restore,
       TypeOK, PostStatuses, RecruitmentStatuses
  <2> QED
    BY <1>0, <2>1 DEF TypeOK, RequestsOK, Working, LastWordStands
<1>10. CASE UNCHANGED vars
  BY <1>10 DEF vars, TypeOK, RequestsOK, Working, LastWordStands
<1> QED
  BY <1>1, <1>2, <1>3, <1>4, <1>5, <1>6, <1>7, <1>8, <1>9, <1>10 DEF NextStep, ServeRequest

\* The invariant holds in every reachable state.
LEMMA Invariance == RecruitmentSpec => []IInv
BY InitInv, NextInv, PTL DEF RecruitmentSpec

\* Every column and every local of a request keeps its type.
THEOREM TypeCorrect == RecruitmentSpec => []TypeOK
BY Invariance, PTL DEF IInv

\* Whoever decides at the same time and whichever transactions fail, the last
\* decision an applicant was notified of is the one that stands.
THEOREM LastWordCorrect == RecruitmentSpec => []LastWordStands
BY Invariance, PTL DEF IInv

\* What the requests of the service do, step by step, is what the promise says:
\* the detailed specification implements the abstract one.
THEOREM PromiseImplemented == RecruitmentSpec => ImplementsPromise
<1>1. Created => CreatePost
  BY DEF Created
<1>2. IInv /\ [NextStep]_vars => [PromiseNext]_rows
  <2> SUFFICES ASSUME IInv, [NextStep]_vars PROVE [PromiseNext]_rows
    OBVIOUS
  <2>1. ASSUME NEW r \in Requests, Upsert(r) PROVE PromiseNext
    BY <2>1 DEF IInv, RequestsOK, Upsert, PromiseNext, Otherwise, Apply
  <2>2. ASSUME NEW r \in Requests, CommitDecision(r) PROVE PromiseNext
    <3>1. request[r].pc \in {"updated", "counted"}
      BY <2>2 DEF CommitDecision
    <3>2. PICK u \in Applicants, d \in Decisions :
            u = request[r].u /\ d = request[r].decision /\ app[u] # "ABSENT"
      BY <3>1 DEF IInv, RequestsOK, Working
    <3>3. PICK fills \in BOOLEAN : fills <=> Fills(r)
      OBVIOUS
    <3>4. fills => d = "ACCEPTED"
      BY <2>2, <3>2, <3>3 DEF CommitDecision, Fills, Counts
    <3>5. /\ Put(u, d) /\ Notify(u, d) /\ UNCHANGED post
          /\ legacy' = IF fills THEN "FILLED" ELSE legacy
      BY <2>2, <3>2, <3>3 DEF CommitDecision
    <3>6. recruitment' = IF fills THEN [recruitment EXCEPT !.status = "FILLED"] ELSE recruitment
      BY <2>2, <3>3 DEF CommitDecision, IInv, TypeOK
    <3>7. DecideWhole(u, d, fills)
      BY <3>2, <3>4, <3>5, <3>6 DEF DecideWhole, Decided
    <3> QED
      BY <3>7 DEF PromiseNext
  <2>3. ASSUME NEW u \in Applicants, WithdrawApplication(u) PROVE PromiseNext
    BY <2>3 DEF WithdrawApplication, PromiseNext, Otherwise, Withdraw
  <2>4. CASE ManagePost
    BY <2>4 DEF ManagePost, PromiseNext, Otherwise
  <2> QED
    BY <2>1, <2>2, <2>3, <2>4 DEF NextStep, ServeRequest, LoadPost, LoadApplication,
       UpdateApplication, CountAccepted, Abort, rows, vars
<1> QED
  BY Invariance, <1>1, <1>2, PTL DEF RecruitmentSpec, PromiseSpec, ImplementsPromise

\* Once the recruitment row has left OPEN, an application that is not pending
\* and has no request under way never changes again.
THEOREM SettledCorrect == RecruitmentSpec => SettledOnceFilled
<1> DEFINE Final == \A u \in Applicants :
                      Settled(u) => Settled(u)' /\ UNCHANGED <<app[u], told[u]>>
<1>1. ASSUME IInv, [NextStep]_vars PROVE Final
  <2> SUFFICES ASSUME NEW u \in Applicants, Settled(u)
               PROVE  Settled(u)' /\ UNCHANGED <<app[u], told[u]>>
    OBVIOUS
  <2> DEFINE Goal == /\ recruitment'.status # "OPEN"
                     /\ UNCHANGED <<app[u], told[u]>>
                     /\ \A s \in Requests : request'[s].u # u
  <2>0. /\ TypeOK /\ \A s \in Requests : request[s].u # u
        /\ recruitment.status # "OPEN" /\ app[u] # "PENDING"
    BY <1>1 DEF IInv, InFlight, Settled
  <2>1. ASSUME NEW r \in Requests, Finish(r) PROVE \A s \in Requests : request'[s].u # u
    BY <2>0, <2>1, RecruitmentAssumption DEF Finish, Idle, TypeOK
  <2>2. ASSUME NEW r \in Requests, Upsert(r) PROVE Goal
    BY <2>0, <2>1, <2>2 DEF Upsert, Applied, Put, TypeOK
  <2>3. ASSUME NEW r \in Requests, CommitDecision(r) PROVE Goal
    <3>1. recruitment'.status # "OPEN"
      BY <2>0, <2>3 DEF CommitDecision, TypeOK
    <3> QED
      BY <2>0, <2>1, <2>3, <3>1 DEF CommitDecision, Put, Notify, TypeOK
  <2>4. ASSUME NEW v \in Applicants, WithdrawApplication(v) PROVE Goal
    BY <2>0, <2>4 DEF WithdrawApplication, Withdrawn, Put, TypeOK
  <2>5. ASSUME ManagePost PROVE Goal
    BY <2>0, <2>5 DEF ManagePost, Manage, SetRecruitmentStatus, SoftDelete, Hide, Restore
  <2>6. ASSUME NEW r \in Requests, NEW v \in Applicants, LoadPost(r, v) PROVE Goal
    BY <2>0, <2>6 DEF LoadPost
  <2>7. ASSUME NEW r \in Requests, NEW v \in Applicants, NEW d \in Decisions,
               LoadApplication(r, v, d)
        PROVE  Goal
    <3> DEFINE q == [Idle EXCEPT !.pc = "deciding", !.u = v, !.decision = d,
                                 !.sawOpen = (recruitment.status = "OPEN")]
    <3>1. v # u /\ q.u = v /\ request' = [request EXCEPT ![r] = q] /\ UNCHANGED rows
      BY <2>0, <2>7 DEF LoadApplication, Idle
    <3> HIDE DEF q
    <3> QED
      BY <2>0, <3>1 DEF TypeOK, rows
  <2>8. ASSUME NEW r \in Requests, UpdateApplication(r) PROVE Goal
    BY <2>0, <2>8 DEF UpdateApplication, TypeOK, RequestType, rows
  <2>9. ASSUME NEW r \in Requests, CountAccepted(r) PROVE Goal
    <3> DEFINE n == AcceptedBut(request[r].u) + 1
    <3>1. request' = [request EXCEPT ![r] = [@ EXCEPT !.pc = "counted", !.accepted = n]]
          /\ UNCHANGED rows
      BY <2>9 DEF CountAccepted
    <3> HIDE DEF n
    <3> QED
      BY <2>0, <3>1 DEF TypeOK, RequestType, rows
  <2>10. ASSUME NEW r \in Requests, Abort(r) PROVE Goal
    BY <2>0, <2>1, <2>10 DEF Abort, rows
  <2>11. ASSUME UNCHANGED vars PROVE Goal
    BY <2>0, <2>11 DEF vars
  <2>12. Goal
    BY <1>1, <2>2, <2>3, <2>4, <2>5, <2>6, <2>7, <2>8, <2>9, <2>10, <2>11
       DEF NextStep, ServeRequest
  <2> QED
    BY <2>0, <2>12 DEF Settled, InFlight
<1>2. IInv /\ [NextStep]_vars => [Final]_vars
  BY <1>1
<1> QED
  BY Invariance, <1>2, PTL DEF RecruitmentSpec, SettledOnceFilled

\* Whoever is being accepted by a transaction that has counted and found a seat.
Racing == {request[r].u : r \in {s \in Requests :
             request[s].pc = "counted" /\ request[s].accepted < recruitment.capacity}}

\* While the recruitment is open, every decision under way has seen it open; only
\* an acceptance under a capacity counts; and those accepted or racing to be take
\* at most one seat per other request beyond the last but one.
SeatsOK ==
  /\ \A r \in Requests :
       /\ Working(r) /\ recruitment.status = "OPEN" => request[r].sawOpen
       /\ request[r].pc = "counted" => Counts(r)
  /\ recruitment.status = "OPEN" /\ recruitment.capacity # NoCapacity =>
       Cardinality(Accepted \cup Racing)
         <= (recruitment.capacity - 1) + (Cardinality(Requests) - 1)

\* The applicants, and any of them, are finitely many.
LEMMA FinitelyMany ==
  ASSUME NEW S \in SUBSET Applicants
  PROVE  IsFiniteSet(S) /\ Cardinality(S) \in Nat
BY RecruitmentAssumption, FS_Subset, FS_CardinalityType

\* A capacity, if there is one, and the bound on the seats are numbers.
LEMMA BoundIsInt ==
  ASSUME TypeOK
  PROVE  /\ Cardinality(Requests) \in Nat
         /\ recruitment.capacity # NoCapacity =>
              /\ recruitment.capacity \in Nat
              /\ (recruitment.capacity - 1) + (Cardinality(Requests) - 1) \in Int
<1>1. Cardinality(Requests) \in Nat
  BY RecruitmentAssumption, FS_CardinalityType
<1>2. recruitment.capacity \in Capacities
  BY DEF TypeOK
<1>3. PICK c : c = recruitment.capacity
  OBVIOUS
<1>4. c # NoCapacity => c \in Nat
  BY <1>2, <1>3, CapacityAssumption
<1> QED
  BY <1>1, <1>3, <1>4

\* Fewer applicants accepted or racing take no more seats.
LEMMA NoMoreSeats ==
  ASSUME NEW S \in SUBSET Applicants, NEW T \in SUBSET S, NEW n \in Int,
         Cardinality(S) <= n
  PROVE  Cardinality(T) <= n
<1>1. IsFiniteSet(S) /\ Cardinality(S) \in Nat /\ Cardinality(T) \in Nat
  BY FinitelyMany
<1>2. Cardinality(T) <= Cardinality(S)
  BY <1>1, FS_Subset
<1> QED
  BY <1>1, <1>2

\* The requests but one are one fewer, and are about no more applicants.
LEMMA OneEach ==
  ASSUME TypeOK, NEW r \in Requests, NEW W \in SUBSET (Requests \ {r}),
         NEW T \in SUBSET Applicants, T = {request[s].u : s \in W}
  PROVE  Cardinality(T) <= Cardinality(Requests) - 1
<1>1. IsFiniteSet(Requests) /\ IsFiniteSet(Requests \ {r}) /\ IsFiniteSet(W)
  BY RecruitmentAssumption, FS_Subset
<1>2. Cardinality(Requests \ {r}) = Cardinality(Requests) - 1
  BY <1>1, FS_RemoveElement
<1>3. Cardinality(W) <= Cardinality(Requests \ {r})
  BY <1>1, FS_Subset
<1>4. Cardinality(T) <= Cardinality(W)
  <2> DEFINE f == [s \in W |-> request[s].u]
  <2>1. f \in Surjection(W, T)
    BY DEF Surjection
  <2> QED
    BY <1>1, <2>1, FS_Surjection
<1>5. Cardinality(W) \in Nat /\ Cardinality(T) \in Nat /\ Cardinality(Requests \ {r}) \in Nat
      /\ Cardinality(Requests) \in Nat
  BY <1>1, FinitelyMany, FS_CardinalityType
<1> QED
  BY <1>2, <1>3, <1>4, <1>5

\* A step of one request that leaves the row alone, or fills it: what the others
\* know stays true, and nobody joins the race but that request.
LEMMA OneMoves ==
  ASSUME IInv, SeatsOK, NEW r \in Requests, NEW q \in RequestType,
         request' = [request EXCEPT ![r] = q],
         recruitment'.capacity = recruitment.capacity,
         recruitment'.status = "OPEN" => recruitment.status = "OPEN",
         q.pc \in {"deciding", "updated", "counted"} /\ recruitment.status = "OPEN"
           => q.sawOpen,
         q.pc = "counted" => q.decision = "ACCEPTED" /\ recruitment.capacity # NoCapacity,
         q.pc = "counted" => q.u \in Applicants
  PROVE  /\ \A s \in Requests :
              /\ (Working(s) /\ recruitment.status = "OPEN")' => request'[s].sawOpen
              /\ request'[s].pc = "counted" => Counts(s)'
         /\ Racing \in SUBSET Applicants
         /\ q.pc # "counted" => Racing' \subseteq Racing
         /\ Racing' \subseteq {request[s].u : s \in {z \in Requests \ {r} :
                                request[z].pc = "counted"}} \cup {q.u}
<1>1. \A s \in Requests : request'[s] = IF s = r THEN q ELSE request[s]
  BY DEF IInv, TypeOK
<1>2. ASSUME NEW s \in Requests
      PROVE  /\ (Working(s) /\ recruitment.status = "OPEN")' => request'[s].sawOpen
             /\ request'[s].pc = "counted" => Counts(s)'
  <2>1. CASE s = r
    BY <1>1, <2>1 DEF Working, Counts
  <2>2. CASE s # r
    BY <1>1, <2>2 DEF SeatsOK, Working, Counts
  <2> QED
    BY <2>1, <2>2
<1>3. Racing \in SUBSET Applicants
  BY DEF Racing, IInv, RequestsOK
<1>4. q.pc # "counted" => Racing' \subseteq Racing
  BY <1>1 DEF Racing
<1>5. Racing' \subseteq {request[s].u : s \in {z \in Requests \ {r} :
                           request[z].pc = "counted"}} \cup {q.u}
  BY <1>1 DEF Racing
<1> QED
  BY <1>2, <1>3, <1>4, <1>5

\* Accepting, counting, applying again or failing: those accepted or racing to be
\* take no more seats than SeatsOK allows.
LEMMA SeatsStep == IInv /\ SeatsOK /\ [NextStep]_vars => SeatsOK'
<1> SUFFICES ASSUME IInv, SeatsOK, [NextStep]_vars PROVE SeatsOK'
  OBVIOUS
<1>0. TypeOK
  BY DEF IInv
<1> DEFINE Seats == (recruitment.capacity - 1) + (Cardinality(Requests) - 1)
           InRace == Accepted \cup Racing
           Known == \A s \in Requests :
                      /\ (Working(s) /\ recruitment.status = "OPEN")' => request'[s].sawOpen
                      /\ request'[s].pc = "counted" => Counts(s)'
<1>a. InRace \in SUBSET Applicants
  BY DEF Accepted, Racing, IInv, RequestsOK
<1>b. Cardinality(Requests) \in Nat /\ (recruitment.capacity # NoCapacity =>
        recruitment.capacity \in Nat /\ Seats \in Int)
  BY <1>0, BoundIsInt
<1>c. ASSUME Known, recruitment' = recruitment, InRace' \subseteq InRace PROVE SeatsOK'
  <2>1. CASE recruitment.status = "OPEN" /\ recruitment.capacity # NoCapacity
    <3>1. Cardinality(InRace) <= Seats
      BY <2>1 DEF SeatsOK
    <3>2. Cardinality(InRace') <= Seats
      <4> HIDE DEF InRace, Seats
      <4> QED
        BY <1>a, <1>b, <1>c, <2>1, <3>1, NoMoreSeats
    <3> QED
      BY <1>c, <3>2 DEF SeatsOK
  <2> QED
    BY <1>c, <2>1 DEF SeatsOK
<1>d. ASSUME NEW r \in Requests, NEW q \in RequestType,
             request' = [request EXCEPT ![r] = q], UNCHANGED recruitment,
             Accepted' \subseteq Accepted, q.pc \in {"idle", "applying", "deciding", "updated"},
             q.pc \in {"deciding", "updated"} /\ recruitment.status = "OPEN" => q.sawOpen
      PROVE  SeatsOK'
  <2>1. Known /\ Racing' \subseteq Racing
    BY <1>d, OneMoves
  <2> QED
    BY <1>c, <1>d, <2>1
<1>1. ASSUME NEW r \in Requests, NEW u \in Applicants, LoadPost(r, u) PROVE SeatsOK'
  <2> DEFINE q == [Idle EXCEPT !.pc = "applying", !.u = u]
  <2>1. q \in RequestType /\ q.pc = "applying"
    BY DEF Idle, RequestType, AppStatuses
  <2>2. request' = [request EXCEPT ![r] = q] /\ UNCHANGED rows /\ Accepted' = Accepted
    BY <1>1 DEF LoadPost, rows, Accepted
  <2> HIDE DEF q
  <2> QED
    BY <1>d, <2>1, <2>2 DEF rows
<1>2. ASSUME NEW r \in Requests, NEW u \in Applicants, NEW d \in Decisions,
             LoadApplication(r, u, d)
      PROVE  SeatsOK'
  <2> DEFINE q == [Idle EXCEPT !.pc = "deciding", !.u = u, !.decision = d,
                               !.sawOpen = (recruitment.status = "OPEN")]
  <2>1. q \in RequestType /\ q.pc = "deciding" /\ q.sawOpen = (recruitment.status = "OPEN")
    BY DEF Idle, RequestType, AppStatuses
  <2>2. request' = [request EXCEPT ![r] = q] /\ UNCHANGED rows /\ Accepted' = Accepted
    BY <1>2 DEF LoadApplication, rows, Accepted
  <2> HIDE DEF q
  <2> QED
    BY <1>d, <2>1, <2>2 DEF rows
<1>3. ASSUME NEW r \in Requests, Upsert(r) \/ Abort(r) PROVE SeatsOK'
  <2>1. Idle \in RequestType /\ Idle.pc = "idle"
    BY DEF Idle, RequestType, AppStatuses
  <2>2. request' = [request EXCEPT ![r] = Idle] /\ UNCHANGED recruitment
    BY <1>3 DEF Upsert, Abort, Finish, rows
  <2>3. Accepted' \subseteq Accepted
    BY <1>0, <1>3 DEF Upsert, Applied, Put, Abort, rows, Accepted, TypeOK
  <2> QED
    BY <1>d, <2>1, <2>2, <2>3
<1>4. ASSUME NEW r \in Requests, UpdateApplication(r) PROVE SeatsOK'
  <2> DEFINE q == [request[r] EXCEPT !.pc = "updated"]
  <2>1. q \in RequestType /\ q.pc = "updated" /\ q.sawOpen = request[r].sawOpen
    BY <1>0 DEF TypeOK, RequestType
  <2>2. /\ request' = [request EXCEPT ![r] = q] /\ UNCHANGED rows
        /\ request[r].pc = "deciding" /\ Accepted' = Accepted
    BY <1>4 DEF UpdateApplication, rows, Accepted
  <2>3. recruitment.status = "OPEN" => request[r].sawOpen
    BY <2>2 DEF SeatsOK, Working
  <2> HIDE DEF q
  <2> QED
    BY <1>d, <2>1, <2>2, <2>3 DEF rows
<1>5. ASSUME NEW r \in Requests, CountAccepted(r) PROVE SeatsOK'
  <2>1. PICK u \in Applicants : u = request[r].u
    BY <1>5 DEF CountAccepted, IInv, RequestsOK
  <2>2. PICK n \in Nat : n = AcceptedBut(u) + 1
    BY AcceptedIsNat
  <2> DEFINE q == [request[r] EXCEPT !.pc = "counted", !.accepted = n]
             W == {z \in Requests \ {r} : request[z].pc = "counted"}
             T == {request[s].u : s \in W}
  <2>3. /\ q \in RequestType /\ q.pc = "counted" /\ q.u = u /\ q.accepted = n
        /\ q.decision = request[r].decision /\ q.sawOpen = request[r].sawOpen
    BY <1>0, <2>1, <2>2 DEF TypeOK, RequestType
  <2>4. /\ request' = [request EXCEPT ![r] = q] /\ UNCHANGED rows /\ Counts(r)
        /\ request[r].pc = "updated" /\ Accepted' = Accepted
    BY <1>5, <2>1, <2>2 DEF CountAccepted, rows, Accepted
  <2>5. /\ recruitment.status = "OPEN" => request[r].sawOpen
        /\ request[r].decision = "ACCEPTED" /\ recruitment.capacity # NoCapacity
    BY <2>4 DEF SeatsOK, Working, Counts
  <2>6. Known /\ Racing' \subseteq T \cup {u} /\ (n >= recruitment.capacity => Racing' \subseteq Racing)
    <3>1. \A s \in Requests : request'[s] = IF s = r THEN q ELSE request[s]
      BY <1>0, <2>4 DEF TypeOK
    <3>2. n >= recruitment.capacity => Racing' \subseteq Racing
      <4> HIDE DEF q
      <4> QED
        BY <1>b, <2>3, <2>4, <2>5, <3>1 DEF Racing, rows
    <3> HIDE DEF q
    <3>3. Known /\ Racing' \subseteq T \cup {q.u}
      BY <2>1, <2>3, <2>4, <2>5, OneMoves DEF rows
    <3> QED
      BY <2>3, <3>2, <3>3
  <2>7. CASE n >= recruitment.capacity
    BY <1>c, <2>4, <2>6, <2>7 DEF rows
  <2>8. CASE n < recruitment.capacity
    <3> DEFINE Others == {v \in Applicants \ {u} : app[v] = "ACCEPTED"}
    <3>1. T \in SUBSET Applicants /\ W \in SUBSET (Requests \ {r})
      BY DEF IInv, RequestsOK
    <3>2. Cardinality(T) <= Cardinality(Requests) - 1
      <4> HIDE DEF W
      <4> QED
        BY <1>0, <3>1, OneEach
    <3>3. IsFiniteSet(Others) /\ IsFiniteSet(T) /\ u \notin Others
      BY <3>1, FinitelyMany
    <3>4. IsFiniteSet(Others \cup {u}) /\ Cardinality(Others \cup {u}) = n
      <4> HIDE DEF Others
      <4>1. Cardinality(Others) = AcceptedBut(u)
        BY DEF Others, AcceptedBut
      <4> QED
        BY <2>2, <3>3, <4>1, FS_AddElement
    <3>5. PICK All : All = (Others \cup {u}) \cup T
      OBVIOUS
    <3>6. All \in SUBSET Applicants /\ InRace' \subseteq All
      BY <2>4, <2>6, <3>1, <3>5 DEF Accepted
    <3>7. Cardinality(All) <= n + Cardinality(T)
      <4> HIDE DEF Others, T
      <4>1. Cardinality((Others \cup {u}) \cap T) \in Nat /\ Cardinality(T) \in Nat
        BY <3>3, <3>4, FS_Intersection, FS_CardinalityType
      <4>2. Cardinality(All) = n + Cardinality(T) - Cardinality((Others \cup {u}) \cap T)
        BY <3>3, <3>4, <3>5, FS_Union
      <4> QED
        BY <2>2, <4>1, <4>2
    <3>8. Cardinality(All) <= Seats
      <4> HIDE DEF T
      <4>1. Cardinality(T) \in Nat /\ Cardinality(All) \in Nat
        BY <3>3, <3>6, FinitelyMany, FS_CardinalityType
      <4> QED
        BY <1>b, <2>5, <2>8, <3>2, <3>7, <4>1
    <3>9. Cardinality(InRace') <= Seats
      <4> HIDE DEF InRace, Seats
      <4> QED
        BY <1>b, <2>5, <3>6, <3>8, NoMoreSeats
    <3>10. recruitment' = recruitment
      BY <2>4 DEF rows
    <3> QED
      BY <2>6, <3>9, <3>10 DEF SeatsOK
  <2> QED
    BY <1>b, <2>2, <2>5, <2>7, <2>8
<1>6. ASSUME NEW r \in Requests, CommitDecision(r) PROVE SeatsOK'
  <2>1. request[r].pc \in {"updated", "counted"}
    BY <1>6 DEF CommitDecision
  <2>2. PICK u \in Applicants, d \in Decisions : u = request[r].u /\ d = request[r].decision
    BY <2>1 DEF IInv, RequestsOK, Working
  <2>3. Idle \in RequestType /\ Idle.pc = "idle"
    BY DEF Idle, RequestType, AppStatuses
  <2>4. /\ request' = [request EXCEPT ![r] = Idle] /\ app' = [app EXCEPT ![u] = d]
        /\ recruitment' = [recruitment EXCEPT
             !.status = IF Fills(r) THEN "FILLED" ELSE recruitment.status]
    BY <1>6, <2>2 DEF CommitDecision, Put, Finish
  <2>5. /\ recruitment'.capacity = recruitment.capacity
        /\ recruitment'.status = "OPEN" => recruitment.status = "OPEN" /\ ~Fills(r)
        /\ ~Fills(r) => recruitment' = recruitment
    BY <1>0, <2>4 DEF TypeOK
  <2>6. Known /\ Racing' \subseteq Racing
    <3>1. Known
      BY <2>3, <2>4, <2>5, OneMoves
    <3>2. Racing' \subseteq Racing
      BY <2>3, <2>4, <2>5, OneMoves
    <3> QED
      BY <3>1, <3>2
  <2>7. CASE recruitment'.status # "OPEN" \/ recruitment'.capacity = NoCapacity
    BY <2>6, <2>7 DEF SeatsOK
  <2>8. CASE recruitment'.status = "OPEN" /\ recruitment'.capacity # NoCapacity
    <3>1. d = "ACCEPTED" => u \in Racing
      <4>1. SUFFICES ASSUME d = "ACCEPTED" PROVE u \in Racing
        OBVIOUS
      <4>2. request[r].pc = "counted"
        BY <1>6, <2>2, <2>5, <2>8, <4>1 DEF CommitDecision, Counts
      <4>3. request[r].sawOpen
        BY <2>1, <2>5, <2>8 DEF SeatsOK, Working
      <4>4. request[r].accepted \in Nat
        BY <1>0 DEF TypeOK, RequestType
      <4>5. request[r].accepted < recruitment.capacity
        BY <1>b, <2>5, <2>8, <4>2, <4>3, <4>4 DEF Fills
      <4> QED
        BY <2>2, <4>2, <4>5 DEF Racing
    <3>2. Accepted' \subseteq Accepted \cup Racing
      BY <1>0, <2>4, <3>1 DEF Accepted, TypeOK
    <3> QED
      BY <1>c, <2>5, <2>6, <2>8, <3>2
  <2> QED
    BY <2>7, <2>8
<1>7. ASSUME NEW u \in Applicants, WithdrawApplication(u) PROVE SeatsOK'
  <2>1. UNCHANGED <<recruitment, request>> /\ Accepted' \subseteq Accepted
    BY <1>0, <1>7 DEF WithdrawApplication, Withdrawn, Put, Accepted, TypeOK
  <2>2. Known /\ Racing' = Racing
    BY <2>1 DEF SeatsOK, Working, Counts, Racing
  <2> QED
    BY <1>c, <2>1, <2>2
<1>8. CASE ManagePost \/ UNCHANGED vars
  <2>1. UNCHANGED <<app, recruitment, request>>
    BY <1>8 DEF ManagePost, Manage, SetRecruitmentStatus, SoftDelete, Hide, Restore, vars
  <2>2. Known /\ Racing' = Racing /\ Accepted' = Accepted
    BY <2>1 DEF SeatsOK, Working, Counts, Racing, Accepted
  <2> QED
    BY <1>c, <2>1, <2>2
<1> QED
  BY <1>1, <1>2, <1>3, <1>4, <1>5, <1>6, <1>7, <1>8 DEF NextStep, ServeRequest

\* A recruitment that is still open has a seat left, but for one seat per other
\* request that decided at the same time.
THEOREM SeatsCorrect == RecruitmentSpec => []FewSeatsOver
<1>1. Created => SeatsOK
  <2> SUFFICES ASSUME Created PROVE SeatsOK
    OBVIOUS
  <2>1. \A r \in Requests : request[r].pc = "idle"
    BY DEF Created, Idle
  <2>2. Accepted = {} /\ Racing = {}
    BY <2>1 DEF Accepted, Racing, Created, CreatePost, Init
  <2>3. Cardinality(Accepted \cup Racing) = 0
    BY <2>2, FS_EmptySet
  <2>4. Cardinality(Requests) \in Nat /\ Cardinality(Requests) # 0
    BY RecruitmentAssumption, FS_CardinalityType, FS_EmptySet
  <2>5. recruitment.capacity # NoCapacity => recruitment.capacity \in Nat \ {0}
    BY CapacityAssumption DEF Created, CreatePost
  <2> QED
    BY <2>1, <2>3, <2>4, <2>5 DEF SeatsOK, Working
<1>2. IInv /\ SeatsOK => FewSeatsOver
  <2> SUFFICES ASSUME IInv, SeatsOK, recruitment.status = "OPEN", recruitment.capacity # NoCapacity
               PROVE  Cardinality(Accepted)
                        <= (recruitment.capacity - 1) + (Cardinality(Requests) - 1)
    BY DEF FewSeatsOver
  <2> DEFINE Seats == (recruitment.capacity - 1) + (Cardinality(Requests) - 1)
             InRace == Accepted \cup Racing
  <2>1. InRace \in SUBSET Applicants /\ Accepted \in SUBSET InRace
    BY DEF Accepted, Racing, IInv, RequestsOK
  <2>2. Cardinality(InRace) <= Seats
    BY DEF SeatsOK
  <2>3. Seats \in Int
    BY BoundIsInt DEF IInv
  <2>4. Cardinality(Accepted) <= Seats
    <3> HIDE DEF Seats, InRace
    <3> QED
      BY <2>1, <2>2, <2>3, NoMoreSeats
  <2> QED
    BY <2>4
<1> QED
  BY Invariance, SeatsStep, <1>1, <1>2, PTL DEF RecruitmentSpec

-----------------------------------------------------------------------------
(* DmChannels *)

\* What a request in flight has checked still holds, for nobody else writes.
RequestOK ==
  /\ call.kind # "none" => call.key \in Keys
  /\ call.kind = "send" =>
       channel[call.key].status # "ABSENT" /\ channel[call.key].messages < MaxMessages

\* The channels the cron has listed stay open until it sweeps.
CronOK ==
  /\ cron.ended \subseteq cron.open
  /\ \A k \in cron.open : channel[k].status = "OPEN"
  /\ cron.pc = "stamped" => \A p \in cron.ended : p \in Proposals /\ sentBack[p] # Never

\* A recruitment's channel is stamped after it was opened.
AgesOK == \A u \in Applicants : channel[u].age >= channel[u].ended

DmInv == DmTypeOK /\ RequestOK /\ CronOK /\ AgesOK

-----------------------------------------------------------------------------
LEMMA ConstantTypes ==
  /\ Grace \in Nat /\ Grace >= 1 /\ MaxMessages \in Nat /\ MaxMessages >= 1
  /\ Never = -1 /\ Days = 0 .. Grace + 1
  /\ NoChannel \in ChannelType /\ NewChannel \in ChannelType
BY DmAssumption DEF Never, Days, ChannelType, NoChannel, NewChannel

\* A channel there is, field by field.
LEMMA ChannelFields ==
  ASSUME NEW c \in ChannelType
  PROVE  /\ c.ended \in Days \cup {Never} /\ c.age \in Days /\ c.messages \in 0 .. MaxMessages
         /\ c.status \in {"ABSENT", "OPEN", "CLOSED"}
         /\ c.status = "ABSENT" => c = NoChannel
         /\ c.status = "CLOSED" => c.ended \in Grace .. Grace + 1
BY ConstantTypes DEF ChannelType, NoChannel, Days

LEMMA DmInitInv == DmInit => DmInv
<1> SUFFICES ASSUME DmInit PROVE DmInv
  OBVIOUS
<1> USE ConstantTypes DEF DmInit, Init, NoRequest, AtRest
<1>1. DmTypeOK
  BY DEF DmTypeOK, PostStatuses, AppStatuses, Keys
<1>2. RequestOK /\ CronOK /\ AgesOK
  BY DEF RequestOK, CronOK, AgesOK, NoChannel, Keys
<1> QED
  BY <1>1, <1>2 DEF DmInv

LEMMA WorkflowInv == DmInv /\ Workflow => DmInv'
<1> SUFFICES ASSUME DmInv, Workflow PROVE DmInv'
  OBVIOUS
<1>1. post' \in PostStatuses /\ legacy' \in RecruitmentStatuses /\ app' \in [Applicants -> AppStatuses]
  BY DEF DmInv, DmTypeOK, Workflow, Next, Apply, Withdraw, Decide, Manage, Applied, Withdrawn, Decided,
         Put, SetRecruitmentStatus, SoftDelete, Hide, Restore, PostStatuses, RecruitmentStatuses,
         AppStatuses, Decisions
<1>2. DmTypeOK'
  BY <1>1 DEF DmInv, DmTypeOK, Workflow
<1> QED
  BY <1>2 DEF DmInv, RequestOK, CronOK, AgesOK, Workflow

LEMMA AskForChangesInv ==
  ASSUME DmInv, NEW p \in Proposals, AskForChanges(p)
  PROVE  DmInv'
<1> USE ConstantTypes DEF DmInv, AskForChanges
<1>1. DmTypeOK'
  BY DEF DmTypeOK
<1>2. CronOK'
  BY DEF CronOK, DmTypeOK
<1> QED
  BY <1>1, <1>2 DEF RequestOK, AgesOK

LEMMA ServeInv == DmInv /\ Serve => DmInv'
<1> SUFFICES ASSUME DmInv, Serve PROVE DmInv'
  OBVIOUS
<1> USE ConstantTypes DEF DmInv
<1>1. CASE Resolve
  <2>1. PICK k \in Keys : Begin("open", k)
    BY <1>1 DEF Resolve, ResolveRecruitment, ResolveContribution, Keys
  <2>2. DmTypeOK'
    BY <2>1 DEF DmTypeOK, Begin
  <2> QED
    BY <2>1, <2>2 DEF RequestOK, CronOK, AgesOK, Begin
<1>2. CASE UpsertChannel
  <2> USE DEF UpsertChannel, NoRequest
  <2>1. call.key \in Keys /\ channel \in [Keys -> ChannelType]
    BY <1>2 DEF RequestOK, DmTypeOK
  <2>2. /\ channel' \in [Keys -> ChannelType]
        /\ \A k \in Keys : \/ channel'[k] = channel[k]
                           \/ channel[k].status = "ABSENT" /\ channel'[k] = NewChannel
    BY <1>2, <2>1
  <2>3. DmTypeOK'
    BY <1>2, <2>2 DEF DmTypeOK
  <2>4. CronOK'
    BY <1>2, <2>2 DEF CronOK, DmTypeOK
  <2>5. AgesOK'
    BY <1>2, <2>2 DEF AgesOK, NewChannel, NoChannel, Keys
  <2> QED
    BY <1>2, <2>3, <2>4, <2>5 DEF RequestOK
<1>3. CASE \E k \in Keys : CheckOpen(k)
  <2>1. PICK k \in Keys : CheckOpen(k)
    BY <1>3
  <2>2. DmTypeOK'
    BY <2>1 DEF DmTypeOK, CheckOpen, Begin
  <2> QED
    BY <2>1, <2>2 DEF RequestOK, CronOK, AgesOK, CheckOpen, Begin
<1>4. CASE CreateMessage
  <2> USE DEF CreateMessage, NoRequest
  <2> DEFINE k == call.key
             c == channel[k]
  <2>1. k \in Keys /\ channel \in [Keys -> ChannelType] /\ c \in ChannelType
    BY <1>4 DEF RequestOK, DmTypeOK
  <2>2. c.status # "ABSENT" /\ c.messages < MaxMessages
    BY <1>4 DEF RequestOK
  <2>3. [c EXCEPT !.messages = @ + 1] \in ChannelType
    BY <2>1, <2>2 DEF ChannelType, NoChannel
  <2>4. channel' = [channel EXCEPT ![k] = [c EXCEPT !.messages = @ + 1]]
    BY <1>4, <2>1
  <2>5. /\ channel' \in [Keys -> ChannelType]
        /\ \A j \in Keys : /\ channel'[j].status = channel[j].status
                           /\ channel'[j].ended = channel[j].ended
                           /\ channel'[j].age = channel[j].age
    BY <2>1, <2>2, <2>3, <2>4 DEF ChannelType, NoChannel
  <2>6. DmTypeOK'
    BY <1>4, <2>5 DEF DmTypeOK
  <2>7. CronOK'
    BY <1>4, <2>5 DEF CronOK, DmTypeOK
  <2>8. AgesOK'
    BY <2>5 DEF AgesOK, Keys
  <2> QED
    BY <1>4, <2>6, <2>7, <2>8 DEF RequestOK
<1>5. CASE Refuse
  <2>1. DmTypeOK'
    BY <1>5 DEF DmTypeOK, Refuse, NoRequest
  <2> QED
    BY <1>5, <2>1 DEF RequestOK, CronOK, AgesOK, Refuse, NoRequest
<1> QED
  BY <1>1, <1>2, <1>3, <1>4, <1>5 DEF Serve

-----------------------------------------------------------------------------
LEMMA ListInv == DmInv /\ (ListOpen \/ ReadPosts \/ FailTick) => DmInv'
<1> SUFFICES ASSUME DmInv, ListOpen \/ ReadPosts \/ FailTick PROVE DmInv'
  OBVIOUS
<1> USE DEF DmInv
<1>1. UNCHANGED <<post, legacy, app, sentBack, channel, call>>
  BY DEF ListOpen, ReadPosts, FailTick
<1>2. DmTypeOK'
  <2>1. cron' \in [pc : {"idle", "listed", "read", "stamped"}, open : SUBSET Keys,
                   ended : SUBSET Keys, due : BOOLEAN]
    <3>1. CASE ListOpen
      BY <3>1 DEF ListOpen, Unstamped
    <3>2. CASE ReadPosts
      BY <3>2 DEF ReadPosts, DmTypeOK
    <3>3. CASE FailTick
      BY <3>3 DEF FailTick, AtRest, DmTypeOK
    <3> QED
      BY <3>1, <3>2, <3>3
  <2> QED
    BY <1>1, <2>1 DEF DmTypeOK
<1>3. CronOK'
  <2>1. CASE ListOpen
    BY <2>1 DEF CronOK, ListOpen, Unstamped
  <2>2. CASE ReadPosts
    BY <2>2 DEF CronOK, ReadPosts, DmTypeOK
  <2>3. CASE FailTick
    BY <2>3 DEF CronOK, FailTick, AtRest
  <2> QED
    BY <2>1, <2>2, <2>3
<1> QED
  BY <1>1, <1>2, <1>3 DEF RequestOK, AgesOK

LEMMA StampInv == DmInv /\ Stamp => DmInv'
<1> SUFFICES ASSUME DmInv, Stamp PROVE DmInv'
  OBVIOUS
<1> USE ConstantTypes DEF DmInv, Stamp
<1>1. /\ channel' \in [Keys -> ChannelType]
      /\ \A k \in Keys : /\ channel'[k].status = channel[k].status
                         /\ channel'[k].age = channel[k].age
                         /\ channel'[k].messages = channel[k].messages
                         /\ \/ channel'[k].ended = channel[k].ended
                            \/ channel'[k].ended = 0
  <2>1. ASSUME NEW k \in Keys, k \in cron.ended
        PROVE  /\ channel'[k] \in ChannelType
               /\ channel'[k].status = channel[k].status
               /\ channel'[k].age = channel[k].age
               /\ channel'[k].messages = channel[k].messages
               /\ channel'[k].ended = 0
    <3>1. channel[k] \in ChannelType /\ channel[k].status = "OPEN"
      BY <2>1 DEF DmTypeOK, CronOK
    <3>2. channel'[k] = [channel[k] EXCEPT !.ended = 0]
      BY <2>1
    <3> QED
      BY <3>1, <3>2 DEF ChannelType, NoChannel, Days
  <2>2. \A k \in Keys : k \notin cron.ended => channel'[k] = channel[k]
    OBVIOUS
  <2>3. channel' = [k \in Keys |-> channel'[k]]
    OBVIOUS
  <2>4. \A k \in Keys : channel'[k] \in ChannelType
    BY <2>1, <2>2 DEF DmTypeOK
  <2> QED
    BY <2>1, <2>2, <2>3, <2>4
<1>2. DmTypeOK'
  BY <1>1 DEF DmTypeOK, Keys
<1>3. CronOK'
  BY <1>1 DEF CronOK, DmTypeOK
<1>4. AgesOK'
  BY <1>1, ChannelFields DEF AgesOK, DmTypeOK, Keys
<1>5. RequestOK'
  BY <1>1 DEF RequestOK
<1> QED
  BY <1>2, <1>3, <1>4, <1>5

LEMMA StampContributionInv ==
  ASSUME DmInv, NEW p \in Proposals, StampContribution(p)
  PROVE  DmInv'
<1> USE ConstantTypes DEF DmInv, StampContribution
<1>1. p \in Keys /\ p \notin Applicants /\ channel[p].status = "OPEN" /\ sentBack[p] \in Days
  BY DmAssumption DEF DmTypeOK, CronOK, Keys
<1>2. channel[p] \in ChannelType /\ [channel[p] EXCEPT !.ended = sentBack[p]] \in ChannelType
  BY <1>1 DEF DmTypeOK, ChannelType, NoChannel
<1>3. /\ channel' \in [Keys -> ChannelType]
      /\ \A k \in Keys : /\ channel'[k].status = channel[k].status
                         /\ channel'[k].messages = channel[k].messages
                         /\ k # p => channel'[k] = channel[k]
  BY <1>1, <1>2 DEF DmTypeOK, ChannelType, NoChannel
<1>4. DmTypeOK'
  BY <1>3 DEF DmTypeOK
<1>5. CronOK'
  BY <1>3 DEF CronOK, DmTypeOK
<1>6. AgesOK' /\ RequestOK'
  BY <1>1, <1>3 DEF AgesOK, RequestOK, Keys
<1> QED
  BY <1>4, <1>5, <1>6

LEMMA SweepInv == DmInv /\ Sweep => DmInv'
<1> SUFFICES ASSUME DmInv, Sweep PROVE DmInv'
  OBVIOUS
<1> USE ConstantTypes DEF DmInv, Sweep
<1>1. /\ channel' \in [Keys -> ChannelType]
      /\ \A k \in Keys : \/ channel'[k] = channel[k]
                         \/ PastGrace(k) /\ channel'[k] = [channel[k] EXCEPT !.status = "CLOSED"]
  <2>1. PICK spared : channel' = [k \in Keys |->
                        IF PastGrace(k) /\ k \notin spared
                        THEN [channel[k] EXCEPT !.status = "CLOSED"] ELSE channel[k]]
    OBVIOUS
  <2>2. ASSUME NEW k \in Keys, PastGrace(k)
        PROVE  [channel[k] EXCEPT !.status = "CLOSED"] \in ChannelType
    <3>1. channel[k] \in ChannelType /\ channel[k].status = "OPEN" /\ channel[k].ended >= Grace
      BY <2>2 DEF DmTypeOK, PastGrace
    <3>2. channel[k].ended \in Grace .. Grace + 1
      BY <3>1, ChannelFields
    <3> QED
      BY <3>1, <3>2 DEF ChannelType, NoChannel
  <2>3. \A k \in Keys : channel'[k] \in ChannelType
    BY <2>1, <2>2 DEF DmTypeOK
  <2> QED
    BY <2>1, <2>3
<1>2. \A k \in Keys : /\ channel'[k].age = channel[k].age
                      /\ channel'[k].ended = channel[k].ended
                      /\ channel'[k].messages = channel[k].messages
                      /\ channel[k].status # "ABSENT" => channel'[k].status # "ABSENT"
  BY <1>1 DEF DmTypeOK, ChannelType, NoChannel
<1>3. DmTypeOK'
  BY <1>1 DEF DmTypeOK, AtRest
<1>4. CronOK'
  BY DEF CronOK, AtRest
<1> QED
  BY <1>2, <1>3, <1>4 DEF AgesOK, RequestOK, Keys

LEMMA OlderType ==
  ASSUME NEW d \in Days \cup {Never}, NEW e \in Days \cup {Never}
  PROVE  /\ Older(d) \in Days \cup {Never}
         /\ d \in Days => Older(d) \in Days
         /\ d \in Grace .. Grace + 1 => Older(d) \in Grace .. Grace + 1
         /\ d # Never => Older(d) # Never
         /\ d <= e => Older(d) <= Older(e)
BY ConstantTypes DEF Older, Days, Never

LEMMA DayInv == DmInv /\ Day => DmInv'
<1> SUFFICES ASSUME DmInv, Day PROVE DmInv'
  OBVIOUS
<1> USE ConstantTypes DEF DmInv
<1>1. UNCHANGED <<post, legacy, app, call>> /\ cron' = [cron EXCEPT !.due = TRUE]
  BY DEF Day
<1>2. /\ sentBack' \in [Proposals -> Days \cup {Never}]
      /\ \A p \in Proposals : sentBack[p] # Never => sentBack'[p] # Never
  BY OlderType DEF Day, DmTypeOK
<1>3. ASSUME NEW k \in Keys, channel[k].status # "ABSENT"
      PROVE  /\ channel'[k] \in ChannelType
             /\ channel'[k].status = channel[k].status
             /\ channel'[k].messages = channel[k].messages
             /\ channel'[k].age = Older(channel[k].age)
             /\ channel'[k].ended = Older(channel[k].ended)
  <2> DEFINE c == channel[k]
  <2>1. c \in ChannelType
    BY DEF DmTypeOK
  <2>2. channel'[k] = [c EXCEPT !.ended = Older(@), !.age = Older(@)]
    BY <1>3 DEF Day
  <2>3. /\ Older(c.age) \in Days
        /\ Older(c.ended) \in Days \cup {Never}
        /\ c.ended \in Grace .. Grace + 1 => Older(c.ended) \in Grace .. Grace + 1
    BY <2>1, OlderType, ChannelFields
  <2>4. channel'[k] = [status |-> c.status, ended |-> Older(c.ended), age |-> Older(c.age),
                       messages |-> c.messages]
    <3> HIDE DEF c
    <3>1. c = [status |-> c.status, ended |-> c.ended, age |-> c.age, messages |-> c.messages]
      BY <2>1 DEF ChannelType, NoChannel
    <3> QED
      BY <2>2, <3>1
  <2>5. c.status = "CLOSED" => Older(c.ended) \in Grace .. Grace + 1
    BY <2>1, <2>3, ChannelFields
  <2> QED
    BY <1>3, <2>1, <2>3, <2>4, <2>5, ChannelFields DEF ChannelType
<1>4. \A k \in Keys : channel[k].status = "ABSENT" => channel'[k] = channel[k]
  BY DEF Day
<1>5. channel' \in [Keys -> ChannelType]
  <2>1. channel' = [k \in Keys |-> channel'[k]]
    BY DEF Day
  <2>2. \A k \in Keys : channel'[k] \in ChannelType
    BY <1>3, <1>4 DEF DmTypeOK
  <2> QED
    BY <2>1, <2>2
<1>6. DmTypeOK'
  BY <1>1, <1>2, <1>5 DEF DmTypeOK
<1>7. CronOK'
  BY <1>1, <1>2, <1>3 DEF CronOK, DmTypeOK
<1>8. RequestOK'
  BY <1>1, <1>3 DEF RequestOK, DmTypeOK
<1>9. AgesOK'
  <2> SUFFICES ASSUME NEW u \in Applicants PROVE (channel[u].age >= channel[u].ended)'
    BY DEF AgesOK
  <2>1. u \in Keys /\ channel[u] \in ChannelType /\ channel[u].age >= channel[u].ended
    BY DEF Keys, DmTypeOK, AgesOK
  <2>2. CASE channel[u].status = "ABSENT"
    BY <1>4, <2>1, <2>2
  <2>3. CASE channel[u].status # "ABSENT"
    <3>1. Older(channel[u].ended) <= Older(channel[u].age)
      BY <2>1, ChannelFields, OlderType
    <3> QED
      BY <1>3, <2>1, <2>3, <3>1, ChannelFields, OlderType
  <2> QED
    BY <2>2, <2>3
<1> QED
  BY <1>6, <1>7, <1>8, <1>9

-----------------------------------------------------------------------------
LEMMA DmNextInv == DmInv /\ [DmNext]_dmVars => DmInv'
<1> SUFFICES ASSUME DmInv, [DmNext]_dmVars PROVE DmInv'
  OBVIOUS
<1>1. CASE UNCHANGED dmVars
  BY <1>1 DEF dmVars, DmInv, DmTypeOK, RequestOK, CronOK, AgesOK
<1> QED
  BY <1>1, WorkflowInv, AskForChangesInv, ServeInv, ListInv, StampInv, StampContributionInv, SweepInv,
     DayInv DEF DmNext

LEMMA DmInvariance == DmSpec => []DmInv
BY DmInitInv, DmNextInv, PTL DEF DmSpec

\* Every column, and every local of a request and of the cron, has its type at
\* all times; above all, no channel is closed that was not stamped (DmService,
\* DmLifecycleCron).
THEOREM ChannelTypesCorrect == DmSpec => []DmTypeOK
<1>1. DmInv => DmTypeOK
  BY DEF DmInv
<1> QED
  BY <1>1, DmInvariance, PTL

\* What a step does to the channels: nothing but the sweep closes one, and only
\* the request that sends it adds a message.
LEMMA ChannelSteps ==
  ASSUME DmInv, [DmNext]_dmVars, NEW k \in Keys
  PROVE  /\ Closes(k) => channel[k].ended >= Grace
         /\ channel[k].status = "CLOSED" => channel'[k].status = "CLOSED"
         /\ channel[k].status = "CLOSED" /\ call # [kind |-> "send", key |-> k] =>
              channel'[k].messages = channel[k].messages
<1> USE DEF DmInv, Closes
<1>1. channel \in [Keys -> ChannelType] /\ channel[k] \in ChannelType
  BY DEF DmTypeOK
<1>2. CASE UNCHANGED channel
  BY <1>2
<1>3. CASE UpsertChannel
  BY <1>1, <1>3 DEF UpsertChannel, NewChannel, NoChannel
<1>4. CASE CreateMessage
  <2>1. call = [kind |-> call.kind, key |-> call.key]
    BY DEF DmTypeOK
  <2>2. k # call.key => channel'[k] = channel[k]
    BY <1>1, <1>4 DEF CreateMessage
  <2>3. channel'[k].status = channel[k].status
    BY <1>1, <1>4 DEF CreateMessage, ChannelType, NoChannel
  <2> QED
    BY <1>4, <2>1, <2>2, <2>3 DEF CreateMessage
<1>5. CASE Stamp
  BY <1>1, <1>5 DEF Stamp, ChannelType, NoChannel
<1>6. CASE \E p \in Proposals : StampContribution(p)
  BY <1>1, <1>6 DEF StampContribution, ChannelType, NoChannel
<1>7. CASE Sweep
  BY <1>1, <1>7 DEF Sweep, PastGrace, ChannelType, NoChannel
<1>8. CASE Day
  BY <1>1, <1>8 DEF Day, ChannelType, NoChannel
<1> QED
  BY <1>2, <1>3, <1>4, <1>5, <1>6, <1>7, <1>8
  DEF DmNext, dmVars, Workflow, AskForChanges, Serve, Resolve, ResolveRecruitment, ResolveContribution,
      Begin, CheckOpen, Refuse, ListOpen, ReadPosts, FailTick

\* A recruitment's channel that the sweep closes has been there for the whole
\* grace period (closeOne of dm-lifecycle.cron.ts, with any toggling and failures).
THEOREM GraceCorrect == DmSpec => RecruitmentGrace
<1>1. ASSUME DmInv, [DmNext]_dmVars, NEW u \in Applicants, Closes(u)
      PROVE  channel[u].age >= Grace
  <2>1. u \in Keys /\ channel[u] \in ChannelType
    BY <1>1 DEF Keys, DmInv, DmTypeOK
  <2>2. channel[u].ended >= Grace
    BY <1>1, <2>1, ChannelSteps
  <2>3. channel[u].age >= channel[u].ended
    BY <1>1 DEF DmInv, AgesOK
  <2> QED
    BY <2>1, <2>2, <2>3, ChannelFields, ConstantTypes
<1>2. DmInv /\ [DmNext]_dmVars => [\A u \in Applicants : Closes(u) => channel[u].age >= Grace]_dmVars
  BY <1>1
<1> QED
  BY <1>2, DmInvariance, PTL DEF DmSpec, RecruitmentGrace

\* A closed channel stays closed and gets no message but the one under way when
\* it closed (resolveOrCreateChannel and send of dm.service.ts beside the sweep).
THEOREM QuietCorrect == DmSpec => ClosedStaysQuiet
<1>1. DmInv /\ [DmNext]_dmVars =>
        [\A k \in Keys : channel[k].status = "CLOSED" /\ call # [kind |-> "send", key |-> k] =>
           UNCHANGED <<channel[k].status, channel[k].messages>>]_dmVars
  BY ChannelSteps
<1> QED
  BY <1>1, DmInvariance, PTL DEF DmSpec, ClosedStaysQuiet
=============================================================================
