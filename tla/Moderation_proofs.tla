------------------------- MODULE Moderation_proofs --------------------------
(* Moderation for any members, rooms, reports, thresholds and numbers of      *)
(* overlapping requests: its types, that verdicts, reports and notices agree, *)
(* that what is hidden was hidden for cause, that what its author deleted is  *)
(* not restored, and how many rows the gates can let through.                 *)
EXTENDS Moderation, FiniteSetTheorems, SequenceTheorems, TLAPS

\* Whoever is judging has had the right to.
Appointed(u, t, targets, roles) ==
  \/ u \in Staff
  \/ /\ targets[t].room # None
     /\ u = Owner[targets[t].room] \/ roles[targets[t].room][u] # NoRole

Judges(q) == q.pc \in {"verdict", "commit"}

\* What a request has read still holds in so far as it will go by it: what it is
\* about exists; whom it acts for may; a report that is being judged was not caught
\* by the gate; and what it has locked is as it was.
Holds(q, targets, reports, roles) ==
  /\ q.pc \in {"flood", "report", "remove"} => targets[q.on] # NoTarget
  /\ Judges(q) =>
       /\ reports[q.on] # NoReport /\ ~reports[q.on].auto
       /\ q.todo # {} => q.u \in Staff
       /\ Appointed(q.u, reports[q.on].on, targets, roles)
  /\ q.pc = "commit" =>
       /\ q.act = "HIDE" => q.flag
       /\ q.flag => q.act \in {"HIDE", "RESTORE"}
       /\ q.flag /\ q.act = "RESTORE" => targets[reports[q.on].on].status = "HIDDEN"

RequestsOK == \A r \in Requests : Holds(request[r], target, report, roster)

\* One lock on a row at a time.
Holding(r) == request[r].pc = "commit" /\ request[r].flag
Exclusive == \A r, s \in Requests :
  Holding(r) /\ Holding(s) /\ report[request[r].on].on = report[request[s].on].on => r = s

\* The verdicts a report has and those it is about to have.
Judging(x) == {r \in Requests : Judges(request[r]) /\ request[r].on = x}
Bounded == \A x \in Reports : Len(verdict[x]) + Cardinality(Judging(x)) <= Cardinality(Requests)

Unfiled == \A x \in Reports : report[x] = NoReport => verdict[x] = <<>> /\ told[x] = 0

\* What the tables say of one report.
Agree(x) ==
  LET n == Len(verdict[x]) IN
  /\ report[x].auto => n = 0
  /\ report[x].status = "RESOLVED" <=> report[x].auto \/ n > 0
  /\ n > 0 => [by |-> report[x].resolver, act |-> report[x].resolution] = verdict[x][n]
  /\ told[x] = Cardinality({i \in 1..n : verdict[x][i].by # report[x].by})
  /\ \A i \in 1..n : Appointed(verdict[x][i].by, report[x].on, target, roster)

TablesAgree == \A x \in Reports : Filed(x) => Agree(x)

IInv == TypeOK /\ RequestsOK /\ Exclusive /\ Bounded /\ Unfiled /\ TablesAgree /\ HiddenForCause

-----------------------------------------------------------------------------
(* Rows and requests, field by field *)

LEMMA Distinct ==
  /\ None \notin {"HIDE", "RESTORE", "DISMISS", "POST", "REPLY", "DM", "OPEN", "RESOLVED", "MODERATOR", "MEMBER"}
  /\ None \notin Members /\ None \notin Rooms /\ Staff \subseteq Members
BY ModerationAssumption

LEMMA IdleType == Idle \in RequestType /\ \A ta, re, ro : Holds(Idle, ta, re, ro)
BY DEF RequestType, Holds, Judges, Idle

\* The kinds of requests, as sets of records.
AboutType == [pc : {"flood", "report", "remove"}, u : Members, on : Targets, act : {None},
              flag : BOOLEAN, todo : {{}}]
BulkType == [pc : {"bulk"}, u : Staff, on : {None}, act : Actions, flag : {FALSE}, todo : SUBSET Reports]
JudgeType == [pc : {"verdict", "commit"}, u : Members, on : Reports, act : Actions,
              flag : BOOLEAN, todo : SUBSET Reports]

LEMMA RequestKinds ==
  /\ AboutType \subseteq RequestType /\ BulkType \subseteq RequestType /\ JudgeType \subseteq RequestType
  /\ \A q \in RequestType :
       /\ q.pc \in {"flood", "report", "remove"} => q \in AboutType
       /\ q.pc = "bulk" => q \in BulkType
       /\ q.pc \in {"verdict", "commit"} => q \in JudgeType
<1> DEFINE CreateType == [pc : {"create"}, u : Members, on : Bodies, act : Kinds \X (Rooms \cup {None}) \X BOOLEAN,
                          flag : BOOLEAN, todo : {{}}]
<1>1. RequestType = {Idle} \cup CreateType \cup AboutType \cup BulkType \cup JudgeType
  BY DEF RequestType, AboutType, BulkType, JudgeType
<1>2. /\ Idle.pc = "idle" /\ \A q \in CreateType : q.pc = "create"
      /\ \A q \in AboutType : q.pc \in {"flood", "report", "remove"}
      /\ \A q \in BulkType : q.pc = "bulk"
      /\ \A q \in JudgeType : q.pc \in {"verdict", "commit"}
  BY DEF AboutType, BulkType, JudgeType, Idle
<1> HIDE DEF CreateType
<1> QED
  BY <1>1, <1>2

LEMMA RequestFields ==
  ASSUME NEW q \in RequestType
  PROVE  /\ q = [pc |-> q.pc, u |-> q.u, on |-> q.on, act |-> q.act, flag |-> q.flag, todo |-> q.todo]
         /\ q.pc \in {"idle", "create", "flood", "report", "remove", "bulk", "verdict", "commit"}
         /\ q.pc = "idle" => q = Idle
         /\ q.pc = "create" => /\ q.u \in Members /\ q.on \in Bodies /\ q.flag \in BOOLEAN
                               /\ q.act[1] \in Kinds /\ q.act[2] \in Rooms \cup {None} /\ q.act[3] \in BOOLEAN
         /\ q.pc \in {"flood", "report", "remove"} =>
              q.u \in Members /\ q.on \in Targets /\ q.act = None /\ q.flag \in BOOLEAN /\ q.todo = {}
         /\ q.pc = "bulk" => /\ q.u \in Staff /\ q.on = None /\ q.act \in Actions /\ q.flag = FALSE
                             /\ q.todo \in SUBSET Reports
         /\ q.pc \in {"verdict", "commit"} => /\ q.u \in Members /\ q.on \in Reports /\ q.act \in Actions
                                              /\ q.flag \in BOOLEAN /\ q.todo \in SUBSET Reports
<1>1. CASE q = Idle
  BY <1>1 DEF Idle
<1>2. CASE q \in [pc : {"create"}, u : Members, on : Bodies, act : Kinds \X (Rooms \cup {None}) \X BOOLEAN,
                  flag : BOOLEAN, todo : {{}}]
  BY <1>2
<1>3. CASE q \in [pc : {"flood", "report", "remove"}, u : Members, on : Targets, act : {None},
                  flag : BOOLEAN, todo : {{}}]
  BY <1>3
<1>4. CASE q \in [pc : {"bulk"}, u : Staff, on : {None}, act : Actions, flag : {FALSE}, todo : SUBSET Reports]
  BY <1>4
<1>5. CASE q \in [pc : {"verdict", "commit"}, u : Members, on : Reports, act : Actions,
                  flag : BOOLEAN, todo : SUBSET Reports]
  BY <1>5
<1> QED
  BY <1>1, <1>2, <1>3, <1>4, <1>5 DEF RequestType

LEMMA TargetFields ==
  ASSUME NEW row \in TargetType, row # NoTarget
  PROVE  /\ row = [kind |-> row.kind, room |-> row.room, by |-> row.by, body |-> row.body,
                   recent |-> row.recent, status |-> row.status, auto |-> row.auto, sawAll |-> row.sawAll]
         /\ row.kind \in Kinds /\ row.room \in Rooms \cup {None} /\ row.by \in Members /\ row.body \in Bodies
         /\ row.recent \in BOOLEAN /\ row.status \in Statuses /\ row.auto \in BOOLEAN /\ row.sawAll \in BOOLEAN
BY DEF TargetType

LEMMA ReportFields ==
  ASSUME NEW row \in ReportType, row # NoReport
  PROVE  /\ row = [by |-> row.by, on |-> row.on, recent |-> row.recent, auto |-> row.auto,
                   resolver |-> row.resolver, status |-> row.status, resolution |-> row.resolution]
         /\ row.by \in Members /\ row.on \in Targets /\ row.recent \in BOOLEAN /\ row.auto \in BOOLEAN
         /\ row.resolver \in Members \cup {None} /\ row.status \in {"OPEN", "RESOLVED"}
         /\ row.resolution \in Actions \cup {None}
BY DEF ReportType

LEMMA ReportRow ==
  ASSUME NEW by \in Members, NEW on \in Targets, NEW recent \in BOOLEAN, NEW auto \in BOOLEAN,
         NEW resolver \in Members \cup {None}, NEW status \in {"OPEN", "RESOLVED"},
         NEW resolution \in Actions \cup {None}
  PROVE  LET row == [by |-> by, on |-> on, recent |-> recent, auto |-> auto, resolver |-> resolver,
                     status |-> status, resolution |-> resolution]
         IN  row \in ReportType /\ row # NoReport
BY Distinct DEF ReportType, NoReport

LEMMA JudgingFinite ==
  /\ \A x : IsFiniteSet(Judging(x)) /\ Cardinality(Judging(x)) \in Nat
  /\ Cardinality(Requests) \in Nat
<1>1. \A x : Judging(x) \subseteq Requests
  BY DEF Judging
<1> QED
  BY <1>1, ModerationAssumption, FS_Subset, FS_CardinalityType

LEMMA InitInv == Init => IInv
<1> SUFFICES ASSUME Init PROVE IInv
  OBVIOUS
<1> USE DEF Init
<1>1. TypeOK
  BY IdleType DEF TypeOK, TargetType, ReportType, NoTarget, NoReport, NoRole, Filed, Idle
<1>2. RequestsOK
  BY IdleType DEF RequestsOK
<1>3. \A x \in Reports : Judging(x) = {}
  BY DEF Judging, Judges, Idle
<1>4. Bounded
  <2>1. Len(<<>>) = 0 /\ Cardinality({}) = 0 /\ Cardinality(Requests) \in Nat
    BY FS_EmptySet, JudgingFinite
  <2>2. \A x \in Reports : Len(verdict[x]) = 0 /\ Cardinality(Judging(x)) = 0
    BY <1>3, <2>1
  <2> QED
    BY <2>1, <2>2 DEF Bounded
<1>5. Exclusive /\ Unfiled /\ TablesAgree /\ HiddenForCause
  BY DEF Exclusive, Holding, Idle, Unfiled, TablesAgree, HiddenForCause, Filed, Exists
<1> QED
  BY <1>1, <1>2, <1>4, <1>5 DEF IInv

-----------------------------------------------------------------------------
(* Steps of one request that write no row *)

LEMMA RequestRows ==
  ASSUME IInv, NEW r \in Requests, NEW q \in RequestType, Put(r, q), Holds(q, target, report, roster),
         UNCHANGED <<target, report, verdict, told, roster>>
  PROVE  TypeOK' /\ RequestsOK' /\ Unfiled' /\ TablesAgree' /\ HiddenForCause'
<1> USE DEF IInv, Put
<1>1. \A s \in Requests : request'[s] = IF s = r THEN q ELSE request[s]
  BY DEF TypeOK
<1>2. RequestsOK'
  BY <1>1 DEF RequestsOK
<1>3. TypeOK'
  <2>1. request' \in [Requests -> RequestType]
    BY DEF TypeOK
  <2>2. \A s \in Requests : /\ request'[s].pc \in {"verdict", "commit"} => Filed(request'[s].on)
                            /\ request'[s].pc \in {"flood", "report", "remove"} => Exists(request'[s].on)
    BY <1>2 DEF RequestsOK, Holds, Judges, Filed, Exists
  <2> QED
    BY <2>1, <2>2 DEF TypeOK, Filed, Exists
<1>4. Unfiled' /\ TablesAgree'
  BY DEF Unfiled, TablesAgree, Agree, Filed
<1>5. HiddenForCause'
  BY DEF HiddenForCause, Verdict, Filed, Exists
<1> QED
  BY <1>2, <1>3, <1>4, <1>5

\* A request that judges nothing (any more).
LEMMA QuietInv ==
  ASSUME IInv, NEW r \in Requests, NEW q \in RequestType, Put(r, q), Holds(q, target, report, roster),
         ~Judges(q), UNCHANGED <<target, report, verdict, told, roster>>
  PROVE  IInv'
<1> USE DEF IInv
<1>1. \A s \in Requests : request'[s] = IF s = r THEN q ELSE request[s]
  BY DEF TypeOK, Put
<1>2. Exclusive'
  BY <1>1 DEF Exclusive, Holding, Judges
<1>3. Bounded'
  <2> SUFFICES ASSUME NEW x \in Reports
               PROVE  Len(verdict[x]) + Cardinality(Judging(x)') <= Cardinality(Requests)
    BY DEF Bounded
  <2>1. Judging(x)' \subseteq Judging(x)
    BY <1>1 DEF Judging
  <2>2. Cardinality(Judging(x)') <= Cardinality(Judging(x)) /\ Cardinality(Judging(x)') \in Nat
    BY <2>1, JudgingFinite, FS_Subset, FS_CardinalityType
  <2>3. Len(verdict[x]) \in Nat
    BY DEF TypeOK
  <2>4. Len(verdict[x]) + Cardinality(Judging(x)) <= Cardinality(Requests)
    BY DEF Bounded
  <2> QED
    BY <2>2, <2>3, <2>4, JudgingFinite
<1> QED
  BY <1>2, <1>3, RequestRows

LEMMA AbortInv == ASSUME IInv, NEW r \in Requests, Abort(r) PROVE IInv'
BY QuietInv, IdleType DEF Abort, Finish, Judges, Idle

LEMMA LookCreateInv ==
  ASSUME IInv, NEW r \in Requests, NEW kind \in Kinds, NEW u \in Members, NEW room \in Rooms \cup {None},
         NEW body \in Bodies, LookCreate(r, kind, u, room, body)
  PROVE  IInv'
<1>1. PICK flag \in BOOLEAN, all \in BOOLEAN :
        Start(r, [pc |-> "create", u |-> u, on |-> body, todo |-> {}, act |-> <<kind, room, all>>, flag |-> flag])
  BY DEF LookCreate, Caught
<1> DEFINE q == [pc |-> "create", u |-> u, on |-> body, todo |-> {}, act |-> <<kind, room, all>>, flag |-> flag]
<1>2. q \in RequestType /\ Holds(q, target, report, roster) /\ ~Judges(q)
  BY DEF RequestType, Holds, Judges
<1> QED
  BY <1>1, <1>2, QuietInv DEF Start

\* flood, report and remove: about a target that exists.
LEMMA AboutInv ==
  ASSUME IInv, NEW r \in Requests, NEW q \in RequestType, q.pc \in {"flood", "report", "remove"}, Exists(q.on),
         Put(r, q), UNCHANGED <<target, report, verdict, told, roster>>
  PROVE  IInv'
<1>1. Holds(q, target, report, roster) /\ ~Judges(q)
  BY DEF Holds, Judges, Exists
<1> QED
  BY <1>1, QuietInv

LEMMA LookReportInv ==
  ASSUME IInv, NEW r \in Requests, NEW u \in Members, NEW t \in Targets, LookReport(r, u, t)
  PROVE  IInv'
<1> DEFINE q == [Idle EXCEPT !.pc = "flood", !.u = u, !.on = t]
<1>1. q \in RequestType /\ q.pc = "flood" /\ q.on = t
  BY DEF Idle, RequestType
<1> QED
  BY <1>1, AboutInv DEF LookReport, Start

LEMMA CountReportsInv == ASSUME IInv, NEW r \in Requests, CountReports(r) PROVE IInv'
<1> DEFINE q == request[r]
<1>1. PICK flag \in BOOLEAN : Put(r, [q EXCEPT !.pc = "report", !.flag = flag])
  BY DEF CountReports, Caught
<1>2. q \in RequestType /\ q.pc = "flood" /\ Exists(q.on)
  BY DEF CountReports, IInv, TypeOK
<1> DEFINE new == [q EXCEPT !.pc = "report", !.flag = flag]
<1>3. new.pc = "report" /\ new.on = q.on
  BY <1>2, RequestFields
<1>4. new \in RequestType
  BY <1>2, RequestKinds DEF AboutType
<1> QED
  BY <1>1, <1>2, <1>3, <1>4, AboutInv DEF CountReports

LEMMA LookRemoveInv ==
  ASSUME IInv, NEW r \in Requests, NEW t \in Targets, LookRemove(r, t)
  PROVE  IInv'
<1> DEFINE q == [Idle EXCEPT !.pc = "remove", !.u = target[t].by, !.on = t]
<1>1. target[t].by \in Members /\ Exists(t)
  BY TargetFields DEF LookRemove, IInv, TypeOK, Exists
<1>2. q \in RequestType /\ q.pc = "remove" /\ q.on = t
  BY <1>1 DEF Idle, RequestType
<1> QED
  BY <1>1, <1>2, AboutInv DEF LookRemove, Start

LEMMA BulkInv ==
  ASSUME IInv, NEW r \in Requests, NEW q \in RequestType, q.pc = "bulk", Put(r, q),
         UNCHANGED <<target, report, verdict, told, roster>>
  PROVE  IInv'
<1>1. Holds(q, target, report, roster) /\ ~Judges(q)
  BY DEF Holds, Judges
<1> QED
  BY <1>1, QuietInv

-----------------------------------------------------------------------------
(* Verdicts *)

\* An open report has no verdict yet, so there is room for one more request.
LEMMA JudgeInv ==
  ASSUME IInv, NEW r \in Requests, ~Judges(request[r]), NEW u \in Members, NEW x \in Reports, NEW act \in Actions,
         NEW todo \in SUBSET Reports, Judge(r, u, x, act, todo),
         Filed(x), report[x].status = "OPEN", todo # {} => u \in Staff,
         Appointed(u, report[x].on, target, roster),
         UNCHANGED <<target, report, verdict, told, roster>>
  PROVE  IInv'
<1> USE DEF IInv
<1> DEFINE q == [pc |-> "verdict", u |-> u, on |-> x, act |-> act, flag |-> FALSE, todo |-> todo]
<1>1. q \in RequestType
  BY DEF RequestType
<1>2. Len(verdict[x]) = 0 /\ ~report[x].auto
  <2>1. Agree(x) /\ Len(verdict[x]) \in Nat
    BY DEF TablesAgree, TypeOK
  <2> QED
    BY <2>1 DEF Agree
<1>3. Holds(q, target, report, roster)
  BY <1>2 DEF Holds, Judges, Filed
<1>4. Put(r, q) /\ \A s \in Requests : request'[s] = IF s = r THEN q ELSE request[s]
  BY DEF Judge, Put, TypeOK
<1>5. Exclusive'
  BY <1>4 DEF Exclusive, Holding
<1>6. Bounded'
  <2> SUFFICES ASSUME NEW y \in Reports
               PROVE  Len(verdict[y]) + Cardinality(Judging(y)') <= Cardinality(Requests)
    BY DEF Bounded
  <2>1. CASE y = x
    <3>1. Judging(y)' \subseteq Requests
      BY DEF Judging
    <3>2. Cardinality(Judging(y)') <= Cardinality(Requests) /\ Cardinality(Judging(y)') \in Nat
      BY <3>1, ModerationAssumption, FS_Subset, FS_CardinalityType
    <3> QED
      BY <1>2, <2>1, <3>2, JudgingFinite
  <2>2. CASE y # x
    <3>1. Judging(y)' = Judging(y)
      BY <1>4, <2>2 DEF Judging, Judges
    <3> QED
      BY <3>1 DEF Bounded
  <2> QED
    BY <2>1, <2>2
<1> QED
  BY <1>1, <1>3, <1>4, <1>5, <1>6, RequestRows

LEMMA MayModerateMeans ==
  ASSUME NEW u, NEW t, MayModerate(u, t)
  PROVE  Appointed(u, t, target, roster)
BY Distinct DEF MayModerate, ModeratesRoom, Appointed, NoRole

LEMMA LookVerdictInv ==
  ASSUME IInv, NEW r \in Requests, NEW u \in Members, NEW x \in Reports, NEW act \in Actions,
         LookVerdict(r, u, x, act)
  PROVE  IInv'
<1>1. ~Judges(request[r])
  BY DEF LookVerdict, Judges, Idle
<1> QED
  BY <1>1, JudgeInv, MayModerateMeans DEF LookVerdict

LEMMA StartBulkInv ==
  ASSUME IInv, NEW r \in Requests, NEW u \in Members, NEW xs \in SUBSET Reports, NEW act \in Actions,
         StartBulk(r, u, xs, act)
  PROVE  IInv'
<1> DEFINE q == [pc |-> "bulk", u |-> u, on |-> None, act |-> act, flag |-> FALSE, todo |-> xs]
<1>1. q \in RequestType /\ q.pc = "bulk"
  BY DEF StartBulk, RequestType
<1> QED
  BY <1>1, BulkInv DEF StartBulk, Start

LEMMA NextOfBulkInv ==
  ASSUME IInv, NEW r \in Requests, NEW x \in Reports, NextOfBulk(r, x)
  PROVE  IInv'
<1> DEFINE q == request[r]
<1>1. q \in RequestType /\ q.pc = "bulk" /\ x \in q.todo /\ UNCHANGED <<target, report, verdict, told, roster>>
  BY DEF NextOfBulk, IInv, TypeOK
<1>2. q.u \in Staff /\ q.u \in Members /\ q.act \in Actions /\ q.todo \ {x} \in SUBSET Reports
  BY <1>1, RequestFields, Distinct
<1>3. CASE Filed(x) /\ report[x].status = "OPEN"
  <2>1. Judge(r, q.u, x, q.act, q.todo \ {x})
    BY <1>3 DEF NextOfBulk
  <2> QED
    BY <1>1, <1>2, <1>3, <2>1, JudgeInv DEF Appointed, Judges
<1>4. CASE ~(Filed(x) /\ report[x].status = "OPEN")
  <2>1. Put(r, [q EXCEPT !.todo = q.todo \ {x}])
    BY <1>4 DEF NextOfBulk
  <2>2. [q EXCEPT !.todo = q.todo \ {x}].pc = "bulk" /\ [q EXCEPT !.todo = q.todo \ {x}] \in RequestType
    BY <1>1, RequestKinds DEF BulkType
  <2> QED
    BY <1>1, <2>1, <2>2, BulkInv
<1> QED
  BY <1>3, <1>4

LEMMA EffectInv == ASSUME IInv, NEW r \in Requests, Effect(r) PROVE IInv'
<1> USE DEF IInv
<1> DEFINE q == request[r]
           x == q.on
           new == [q EXCEPT !.pc = "commit", !.flag = Hits(q.act, report[x].on)]
<1>1. q \in RequestType /\ q.pc = "verdict" /\ Holds(q, target, report, roster)
  BY DEF Effect, TypeOK, RequestsOK
<1>2. /\ q.act # "DISMISS" => ~Locked(report[x].on)
      /\ Put(r, new) /\ UNCHANGED <<target, report, verdict, told, roster>>
  BY DEF Effect
<1>3. Hits(q.act, report[x].on) \in BOOLEAN
  BY DEF Hits
<1>4. /\ new.pc = "commit" /\ new.u = q.u /\ new.on = x /\ new.act = q.act /\ new.todo = q.todo
      /\ new.flag = Hits(q.act, report[x].on)
  BY <1>1, RequestFields
<1>5. new \in RequestType
  BY <1>1, <1>3, RequestKinds DEF JudgeType
<1>6. Holds(new, target, report, roster)
  BY <1>1, <1>4 DEF Holds, Judges, Hits
<1>7. \A s \in Requests : request'[s] = IF s = r THEN new ELSE request[s]
  BY <1>2 DEF Put, TypeOK
<1>8. Exclusive'
  <2>1. ASSUME NEW s \in Requests, s # r, Holding(s), report[request[s].on].on = report[x].on
        PROVE  ~Holding(r)'
    <3>1. Locked(report[x].on)
      BY <2>1 DEF Locked, Holding
    <3>2. q.act = "DISMISS"
      BY <1>2, <3>1
    <3> QED
      BY <1>4, <1>7, <3>2 DEF Holding, Hits
  <2>2. \A s \in Requests : s # r => request'[s] = request[s]
    BY <1>7
  <2>3. request'[r].on = x
    BY <1>4, <1>7
  <2> QED
    BY <1>2, <2>1, <2>2, <2>3 DEF Exclusive, Holding
<1>9. Bounded'
  <2>1. \A y \in Reports : Judging(y)' = Judging(y)
    <3>1. Judges(q) /\ Judges(new) /\ new.on = q.on
      BY <1>1, <1>4 DEF Judges
    <3> QED
      BY <1>7, <3>1 DEF Judging
  <2> QED
    BY <1>2, <2>1 DEF Bounded
<1> QED
  BY <1>2, <1>5, <1>6, <1>8, <1>9, RequestRows

-----------------------------------------------------------------------------
(* Steps that change targets or roles, or file and age reports *)

\* What keeps a target in its room, leaves alone what is locked, and takes no role
\* off the books.
LEMMA TargetRowsInv ==
  ASSUME IInv, UNCHANGED <<report, verdict, told>>, target' \in [Targets -> TargetType],
         roster' \in [Rooms -> [Members -> [role : {"MODERATOR", "MEMBER", None}, revoked : BOOLEAN]]],
         \A t \in Targets : Exists(t) => target'[t] # NoTarget /\ target'[t].room = target[t].room,
         \A t \in Targets : Locked(t) => target'[t].status = target[t].status,
         \A room \in Rooms, u \in Members : roster[room][u] # NoRole => roster'[room][u] # NoRole,
         request' \in [Requests -> RequestType],
         \A s \in Requests : request'[s] = request[s] \/ request'[s] = Idle,
         HiddenForCause'
  PROVE  IInv'
<1> USE DEF IInv
<1>1. ASSUME NEW x \in Reports, Filed(x)
      PROVE  report[x].on \in Targets /\ Exists(report[x].on)
  BY <1>1, ReportFields DEF TypeOK, Filed
<1>2. ASSUME NEW x \in Reports, Filed(x), NEW u \in Members, Appointed(u, report[x].on, target, roster)
      PROVE  Appointed(u, report[x].on, target', roster')
  <2> DEFINE t == report[x].on
  <2>1. t \in Targets /\ target'[t].room = target[t].room /\ target[t].room \in Rooms \cup {None}
    BY <1>1, <1>2, TargetFields DEF TypeOK, Exists
  <2> QED
    BY <1>2, <2>1 DEF Appointed
<1>3. RequestsOK'
  <2> SUFFICES ASSUME NEW s \in Requests, request'[s] = request[s]
               PROVE  Holds(request[s], target', report', roster')
    BY IdleType DEF RequestsOK
  <2> DEFINE q == request[s]
  <2>1. q \in RequestType /\ Holds(q, target, report, roster)
    BY DEF TypeOK, RequestsOK
  <2>2. CASE q.pc \in {"flood", "report", "remove"}
    BY <2>1, <2>2, RequestFields DEF Holds, Judges, Exists
  <2>3. CASE Judges(q)
    <3>1. q.on \in Reports /\ q.u \in Members /\ Filed(q.on)
      BY <2>1, <2>3, RequestFields DEF Holds, Judges, Filed
    <3>2. Appointed(q.u, report[q.on].on, target', roster')
      BY <1>2, <2>1, <2>3, <3>1 DEF Holds
    <3>3. q.pc = "commit" /\ q.flag => target'[report[q.on].on].status = target[report[q.on].on].status
      BY <1>1, <3>1 DEF Locked
    <3> QED
      BY <2>1, <2>3, <3>2, <3>3 DEF Holds, Judges
  <2> QED
    BY <2>1, <2>2, <2>3 DEF Holds, Judges
<1>4. TypeOK'
  <2>1. \A x \in Reports : Filed(x)' => Exists(report[x].on)'
    BY <1>1 DEF Filed, Exists
  <2>2. \A s \in Requests :
          /\ request'[s].pc \in {"verdict", "commit"} => report'[request'[s].on] # NoReport
          /\ request'[s].pc \in {"flood", "report", "remove"} => target'[request'[s].on] # NoTarget
    BY <1>3 DEF RequestsOK, Holds, Judges
  <2> QED
    BY <2>1, <2>2 DEF TypeOK, Filed, Exists
<1>5. Exclusive'
  BY DEF Exclusive, Holding, Idle
<1>6. Bounded'
  <2> SUFFICES ASSUME NEW x \in Reports
               PROVE  Len(verdict[x]) + Cardinality(Judging(x)') <= Cardinality(Requests)
    BY DEF Bounded
  <2>1. Judging(x)' \subseteq Judging(x)
    BY DEF Judging, Judges, Idle
  <2>2. Cardinality(Judging(x)') <= Cardinality(Judging(x)) /\ Cardinality(Judging(x)') \in Nat
    BY <2>1, JudgingFinite, FS_Subset, FS_CardinalityType
  <2>3. Len(verdict[x]) \in Nat /\ Len(verdict[x]) + Cardinality(Judging(x)) <= Cardinality(Requests)
    BY DEF TypeOK, Bounded
  <2> QED
    BY <2>2, <2>3, JudgingFinite
<1>7. TablesAgree'
  <2> SUFFICES ASSUME NEW x \in Reports, Filed(x) PROVE Agree(x)'
    BY DEF TablesAgree, Filed
  <2>1. Agree(x)
    BY DEF TablesAgree
  <2>2. \A j \in 1..Len(verdict[x]) : verdict[x][j].by \in Members
    <3>1. verdict[x] \in Seq([by : Members, act : Actions])
      BY DEF TypeOK
    <3>2. \A j \in 1..Len(verdict[x]) : verdict[x][j] \in [by : Members, act : Actions]
      BY <3>1, ElementOfSeq
    <3> QED
      BY <3>2
  <2>3. \A j \in 1..Len(verdict[x]) : Appointed(verdict[x][j].by, report[x].on, target', roster')
    BY <1>2, <2>1, <2>2 DEF Agree
  <2> QED
    BY <2>1, <2>3 DEF Agree
<1> QED
  BY <1>3, <1>4, <1>5, <1>6, <1>7 DEF Unfiled

LEMMA SameVerdicts ==
  ASSUME UNCHANGED verdict,
         \A x \in Reports : report'[x] # NoReport <=> report[x] # NoReport,
         \A x \in Reports : report[x] # NoReport => report'[x].on = report[x].on
  PROVE  \A t, act : Verdict(t, act)' <=> Verdict(t, act)
BY DEF Verdict, Filed

LEMMA CreateInv ==
  ASSUME IInv, NEW r \in Requests, NEW t \in Targets, Create(r, t)
  PROVE  IInv'
<1> USE DEF IInv
<1> DEFINE q == request[r]
           new == [kind |-> q.act[1], room |-> q.act[2], by |-> q.u, body |-> q.on, recent |-> TRUE,
                   status |-> IF q.flag THEN "HIDDEN" ELSE "VISIBLE", auto |-> q.flag,
                   sawAll |-> q.act[3]]
<1>1. q \in RequestType /\ q.pc = "create" /\ ~Exists(t) /\ target' = [target EXCEPT ![t] = new]
      /\ UNCHANGED <<report, verdict, told, roster>> /\ request' = [request EXCEPT ![r] = Idle]
  BY DEF Create, TypeOK, Finish, Put
<1>2. new \in TargetType
  BY <1>1, RequestFields DEF TargetType, Statuses
<1>3. target' \in [Targets -> TargetType] /\ request' \in [Requests -> RequestType]
  BY <1>1, <1>2, IdleType DEF TypeOK
<1>4. \A o \in Targets : o # t => target'[o] = target[o]
  BY <1>1 DEF TypeOK
<1>5. ASSUME NEW x \in Reports, Filed(x) PROVE report[x].on # t
  BY <1>1, <1>5 DEF TypeOK
<1>6. ~Locked(t)
  BY <1>5, RequestFields DEF Locked, TypeOK
<1>7. HiddenForCause'
  <2> SUFFICES ASSUME NEW o \in Targets, Exists(o)'
               PROVE  /\ target'[o].status = "HIDDEN" => target'[o].auto \/ Verdict(o, "HIDE")'
                      /\ target'[o].status = "VISIBLE" /\ (target'[o].auto \/ Verdict(o, "HIDE")') => Verdict(o, "RESTORE")'
    BY DEF HiddenForCause
  <2>1. \A act : Verdict(o, act)' <=> Verdict(o, act)
    BY <1>1, SameVerdicts
  <2>2. CASE o = t
    <3>1. ~Verdict(o, "HIDE")
      BY <1>5, <2>2 DEF Verdict
    <3>2. target'[o].status = (IF q.flag THEN "HIDDEN" ELSE "VISIBLE") /\ (target'[o].auto <=> q.flag)
      BY <1>1, <2>2 DEF TypeOK
    <3> QED
      BY <2>1, <3>1, <3>2
  <2>3. CASE o # t
    BY <1>4, <2>1, <2>3 DEF HiddenForCause, Exists
  <2> QED
    BY <2>2, <2>3
<1>8. \A s \in Requests : request'[s] = request[s] \/ request'[s] = Idle
  BY <1>1 DEF TypeOK
<1>9. \A o \in Targets : Exists(o) => target'[o] # NoTarget /\ target'[o].room = target[o].room
  BY <1>1, <1>4 DEF Exists
<1>10. \A o \in Targets : Locked(o) => target'[o].status = target[o].status
  BY <1>4, <1>6
<1>11. roster' \in [Rooms -> [Members -> [role : {"MODERATOR", "MEMBER", None}, revoked : BOOLEAN]]]
  BY <1>1 DEF TypeOK
<1> QED
  BY <1>1, <1>3, <1>7, <1>8, <1>9, <1>10, <1>11, TargetRowsInv

\* Age and deletion: one column of one target.
LEMMA OneTarget ==
  ASSUME IInv, NEW t \in Targets, Exists(t), NEW status \in Statuses, NEW recent \in BOOLEAN,
         target' = [target EXCEPT ![t] = [@ EXCEPT !.status = status, !.recent = recent]],
         status \in {target[t].status, "DELETED"}, Locked(t) => status = target[t].status,
         UNCHANGED <<report, verdict, told, roster>>,
         request' \in [Requests -> RequestType],
         \A s \in Requests : request'[s] = request[s] \/ request'[s] = Idle
  PROVE  IInv'
<1> USE DEF IInv
<1> DEFINE new == [target[t] EXCEPT !.status = status, !.recent = recent]
<1>1. target[t] \in TargetType /\ target[t] # NoTarget
  BY DEF TypeOK, Exists
<1>2. /\ new \in TargetType /\ new.room = target[t].room /\ new.auto = target[t].auto /\ new.status = status
      /\ new.kind = target[t].kind
  BY <1>1 DEF TargetType
<1>3. new # NoTarget
  <2>1. target[t].kind \in Kinds
    BY <1>1, TargetFields
  <2> QED
    BY <1>2, <2>1, Distinct DEF Kinds, NoTarget
<1>4. target' \in [Targets -> TargetType] /\ \A o \in Targets : target'[o] = IF o = t THEN new ELSE target[o]
  BY <1>2 DEF TypeOK
<1>5. HiddenForCause'
  <2> SUFFICES ASSUME NEW o \in Targets, Exists(o)'
               PROVE  /\ target'[o].status = "HIDDEN" => target'[o].auto \/ Verdict(o, "HIDE")'
                      /\ target'[o].status = "VISIBLE" /\ (target'[o].auto \/ Verdict(o, "HIDE")') => Verdict(o, "RESTORE")'
    BY DEF HiddenForCause
  <2>1. \A act : Verdict(o, act)' <=> Verdict(o, act)
    BY SameVerdicts
  <2>2. Exists(o) /\ (target'[o].auto <=> target[o].auto) /\ target'[o].status \in {target[o].status, "DELETED"}
    BY <1>1, <1>2, <1>4 DEF Exists
  <2> QED
    BY <2>1, <2>2 DEF HiddenForCause
<1>6. /\ \A o \in Targets : Exists(o) => target'[o] # NoTarget /\ target'[o].room = target[o].room
      /\ \A o \in Targets : Locked(o) => target'[o].status = target[o].status
  BY <1>2, <1>3, <1>4 DEF Exists
<1>7. roster' \in [Rooms -> [Members -> [role : {"MODERATOR", "MEMBER", None}, revoked : BOOLEAN]]]
  BY DEF TypeOK
<1> QED
  BY <1>4, <1>5, <1>6, <1>7, TargetRowsInv

LEMMA AgeTargetInv == ASSUME IInv, NEW t \in Targets, AgeTarget(t) PROVE IInv'
<1>1. target[t] \in TargetType /\ target[t] # NoTarget /\ target \in [Targets -> TargetType]
  BY DEF IInv, TypeOK, AgeTarget, Exists
<1>2. target[t].status \in Statuses
  BY <1>1, TargetFields
<1>3. [target[t] EXCEPT !.recent = FALSE] = [target[t] EXCEPT !.status = target[t].status, !.recent = FALSE]
  BY <1>1, TargetFields
<1>4. target' = [target EXCEPT ![t] = [@ EXCEPT !.status = target[t].status, !.recent = FALSE]]
  BY <1>3 DEF AgeTarget
<1>5. request' \in [Requests -> RequestType]
  BY DEF AgeTarget, IInv, TypeOK
<1> QED
  BY <1>2, <1>4, <1>5, OneTarget DEF AgeTarget

LEMMA RemoveInv == ASSUME IInv, NEW r \in Requests, Remove(r) PROVE IInv'
<1> DEFINE t == request[r].on
<1>1. request[r] \in RequestType /\ request[r].pc = "remove" /\ Exists(t)
  BY DEF IInv, TypeOK, Remove
<1>2. t \in Targets
  BY <1>1, RequestFields
<1>3. target[t] \in TargetType /\ target[t] # NoTarget
  BY <1>1, <1>2 DEF IInv, TypeOK, Exists
<1>4. target[t].recent \in BOOLEAN
  BY <1>3, TargetFields
<1>5. [target[t] EXCEPT !.status = "DELETED"] = [target[t] EXCEPT !.status = "DELETED", !.recent = target[t].recent]
  BY <1>3, TargetFields
<1>6. target' = [target EXCEPT ![t] = [@ EXCEPT !.status = "DELETED", !.recent = target[t].recent]]
  BY <1>5 DEF Remove
<1>7. request' \in [Requests -> RequestType] /\ \A s \in Requests : request'[s] = request[s] \/ request'[s] = Idle
  BY IdleType DEF Remove, Finish, Put, IInv, TypeOK
<1>8. ~Locked(t) /\ UNCHANGED <<report, verdict, told, roster>>
  BY DEF Remove
<1> HIDE DEF t
<1> QED
  BY <1>1, <1>2, <1>4, <1>6, <1>7, <1>8, OneTarget DEF Statuses

LEMMA RolesInv ==
  ASSUME IInv, NEW u \in Members, NEW room \in Rooms,
         Revoke(u, room) \/ \E role \in {"MODERATOR", "MEMBER"} : Grant(u, room, role)
  PROVE  IInv'
<1> USE DEF IInv
<1> DEFINE RoleType == [role : {"MODERATOR", "MEMBER", None}, revoked : BOOLEAN]
<1>1. UNCHANGED <<target, report, verdict, told, request>>
  BY DEF Revoke, Grant
<1>2. PICK new \in RoleType : new # NoRole /\ roster' = [roster EXCEPT ![room] = [@ EXCEPT ![u] = new]]
  <2>1. CASE Revoke(u, room)
    <3>1. roster[room][u] \in RoleType
      BY DEF TypeOK
    <3>2. [roster[room][u] EXCEPT !.revoked = TRUE] \in RoleType
          /\ [roster[room][u] EXCEPT !.revoked = TRUE].revoked = TRUE
      BY <3>1
    <3>3. roster' = [roster EXCEPT ![room] = [@ EXCEPT ![u] = [roster[room][u] EXCEPT !.revoked = TRUE]]]
      BY <2>1 DEF Revoke, TypeOK
    <3>4. [roster[room][u] EXCEPT !.revoked = TRUE] # NoRole
      BY <3>2 DEF NoRole
    <3> QED
      BY <3>2, <3>3, <3>4
  <2>2. CASE \E role \in {"MODERATOR", "MEMBER"} : Grant(u, room, role)
    BY <2>2, Distinct DEF Grant, NoRole
  <2> QED
    BY <2>1, <2>2
<1>3. roster' \in [Rooms -> [Members -> RoleType]]
  BY <1>2 DEF TypeOK
<1>4. \A o \in Rooms, v \in Members : roster[o][v] # NoRole => roster'[o][v] # NoRole
  BY <1>2 DEF TypeOK
<1>5. HiddenForCause'
  BY <1>1, SameVerdicts DEF HiddenForCause, Exists
<1>6. /\ target' \in [Targets -> TargetType] /\ request' \in [Requests -> RequestType]
      /\ \A t \in Targets : Exists(t) => target'[t] # NoTarget /\ target'[t].room = target[t].room
  BY <1>1 DEF TypeOK, Exists
<1> QED
  BY <1>1, <1>3, <1>4, <1>5, <1>6, TargetRowsInv

\* A report that is filed, or ages, leaves the others and what is judged alone.
LEMMA ReportRowsInv ==
  ASSUME IInv, UNCHANGED <<target, verdict, told, roster>>, report' \in [Reports -> ReportType],
         \A x \in Reports : Filed(x) =>
           /\ report'[x] # NoReport
           /\ report'[x].on = report[x].on /\ report'[x].by = report[x].by
           /\ (report'[x].auto <=> report[x].auto)
           /\ report'[x].status = report[x].status /\ report'[x].resolver = report[x].resolver
           /\ report'[x].resolution = report[x].resolution,
         \A x \in Reports : ~Filed(x) /\ report'[x] # NoReport =>
           Exists(report'[x].on) /\ (report'[x].status = "RESOLVED" <=> report'[x].auto),
         request' \in [Requests -> RequestType],
         \A s \in Requests : request'[s] = request[s] \/ request'[s] = Idle
  PROVE  IInv'
<1> USE DEF IInv
<1>1. RequestsOK'
  <2> SUFFICES ASSUME NEW s \in Requests, request'[s] = request[s]
               PROVE  Holds(request[s], target, report', roster)
    BY IdleType DEF RequestsOK
  <2> DEFINE q == request[s]
  <2>1. q \in RequestType /\ Holds(q, target, report, roster)
    BY DEF TypeOK, RequestsOK
  <2>2. CASE Judges(q)
    <3>1. q.on \in Reports /\ Filed(q.on)
      BY <2>1, <2>2, RequestFields DEF Holds, Judges, Filed
    <3> QED
      BY <2>1, <2>2, <3>1 DEF Holds, Judges
  <2> QED
    BY <2>1, <2>2 DEF Holds, Judges
<1>2. TypeOK'
  <2>1. \A x \in Reports : Filed(x)' => Exists(report'[x].on)
    BY DEF Filed, TypeOK
  <2>2. \A s \in Requests :
          /\ request'[s].pc \in {"verdict", "commit"} => report'[request'[s].on] # NoReport
          /\ request'[s].pc \in {"flood", "report", "remove"} => target'[request'[s].on] # NoTarget
    BY <1>1 DEF RequestsOK, Holds, Judges
  <2> QED
    BY <2>1, <2>2 DEF TypeOK, Filed, Exists
<1>3. Exclusive'
  <2>1. ASSUME NEW s \in Requests, Holding(s)'
        PROVE  Holding(s) /\ request'[s] = request[s] /\ report'[request[s].on].on = report[request[s].on].on
    <3>1. request'[s] = request[s] /\ Holding(s)
      BY <2>1 DEF Holding, Idle
    <3>2. request[s].on \in Reports /\ Filed(request[s].on)
      BY <3>1, RequestFields DEF Holding, TypeOK
    <3> QED
      BY <3>1, <3>2
  <2> QED
    BY <2>1 DEF Exclusive
<1>4. Bounded'
  <2> SUFFICES ASSUME NEW x \in Reports
               PROVE  Len(verdict[x]) + Cardinality(Judging(x)') <= Cardinality(Requests)
    BY DEF Bounded
  <2>1. Judging(x)' \subseteq Judging(x)
    BY DEF Judging, Judges, Idle
  <2>2. Cardinality(Judging(x)') <= Cardinality(Judging(x)) /\ Cardinality(Judging(x)') \in Nat
    BY <2>1, JudgingFinite, FS_Subset, FS_CardinalityType
  <2>3. Len(verdict[x]) \in Nat /\ Len(verdict[x]) + Cardinality(Judging(x)) <= Cardinality(Requests)
    BY DEF TypeOK, Bounded
  <2> QED
    BY <2>2, <2>3, JudgingFinite
<1>5. TablesAgree'
  <2> SUFFICES ASSUME NEW x \in Reports, Filed(x)' PROVE Agree(x)'
    BY DEF TablesAgree
  <2>1. CASE Filed(x)
    <3>1. Agree(x)
      BY <2>1 DEF TablesAgree
    <3> QED
      BY <2>1, <3>1 DEF Agree
  <2>2. CASE ~Filed(x)
    <3>1. verdict[x] = <<>> /\ told[x] = 0
      BY <2>2 DEF Unfiled, Filed
    <3>2. Len(verdict'[x]) = 0 /\ told'[x] = 0
      BY <3>1
    <3>3. {j \in 1..0 : verdict'[x][j].by # report'[x].by} = {} /\ Cardinality({}) = 0
      BY FS_EmptySet
    <3>4. report'[x].status = "RESOLVED" <=> report'[x].auto
      BY <2>2 DEF Filed
    <3> QED
      BY <3>2, <3>3, <3>4 DEF Agree
  <2> QED
    BY <2>1, <2>2
<1>6. Unfiled'
  BY DEF Unfiled, Filed
<1>7. HiddenForCause'
  <2>1. \A t, act : Verdict(t, act)' <=> Verdict(t, act)
    <3>1. ASSUME NEW x \in Reports, verdict[x] # <<>> PROVE Filed(x)
      BY <3>1 DEF Unfiled, Filed
    <3>2. \A x \in Reports : DOMAIN verdict[x] # {} => Filed(x)
      BY <3>1
    <3> QED
      BY <3>2 DEF Verdict, Filed
  <2> QED
    BY <2>1 DEF HiddenForCause, Exists
<1> QED
  BY <1>1, <1>2, <1>3, <1>4, <1>5, <1>6, <1>7

LEMMA CreateReportInv ==
  ASSUME IInv, NEW r \in Requests, NEW x \in Reports, CreateReport(r, x)
  PROVE  IInv'
<1> USE DEF IInv
<1> DEFINE q == request[r]
           new == [by |-> q.u, on |-> q.on, recent |-> TRUE, auto |-> q.flag, resolver |-> None,
                   status |-> IF q.flag THEN "RESOLVED" ELSE "OPEN",
                   resolution |-> IF q.flag THEN "DISMISS" ELSE None]
<1>1. /\ q \in RequestType /\ q.pc = "report" /\ Exists(q.on) /\ ~Filed(x) /\ report' = [report EXCEPT ![x] = new]
      /\ UNCHANGED <<target, verdict, told, roster>> /\ request' = [request EXCEPT ![r] = Idle]
  BY DEF CreateReport, TypeOK, Finish, Put
<1>2. new \in ReportType /\ new.on = q.on /\ (new.status = "RESOLVED" <=> new.auto)
  BY <1>1, RequestFields DEF ReportType, Actions
<1>3. report' \in [Reports -> ReportType] /\ \A y \in Reports : report'[y] = IF y = x THEN new ELSE report[y]
  BY <1>1, <1>2 DEF TypeOK
<1>4. request' \in [Requests -> RequestType] /\ \A s \in Requests : request'[s] = request[s] \/ request'[s] = Idle
  BY <1>1, IdleType DEF TypeOK
<1>5. \A y \in Reports : Filed(y) => y # x /\ report'[y] = report[y]
  BY <1>1, <1>3
<1>6. \A y \in Reports : ~Filed(y) /\ report'[y] # NoReport => report'[y] = new
  BY <1>3 DEF Filed
<1> HIDE DEF new, q
<1> QED
  BY <1>1, <1>2, <1>3, <1>4, <1>5, <1>6, ReportRowsInv DEF Filed

LEMMA AgeReportInv == ASSUME IInv, NEW x \in Reports, AgeReport(x) PROVE IInv'
<1> USE DEF IInv
<1> DEFINE new == [report[x] EXCEPT !.recent = FALSE]
<1>1. report[x] \in ReportType /\ report[x] # NoReport
  BY DEF TypeOK, AgeReport, Filed
<1>2. /\ new \in ReportType
      /\ new.on = report[x].on /\ new.by = report[x].by /\ new.auto = report[x].auto
      /\ new.status = report[x].status /\ new.resolver = report[x].resolver
      /\ new.resolution = report[x].resolution
  BY <1>1 DEF ReportType
<1>3. new # NoReport
  <2>1. report[x].status \in {"OPEN", "RESOLVED"}
    BY <1>1, ReportFields
  <2> QED
    BY <1>2, <2>1, Distinct DEF NoReport
<1>4. /\ report' \in [Reports -> ReportType]
      /\ \A y \in Reports : report'[y] = IF y = x THEN new ELSE report[y]
      /\ UNCHANGED <<target, verdict, told, roster, request>>
  BY <1>2 DEF AgeReport, TypeOK
<1>5. request' \in [Requests -> RequestType]
  BY <1>4 DEF TypeOK
<1> QED
  BY <1>1, <1>2, <1>3, <1>4, <1>5, ReportRowsInv DEF Filed

-----------------------------------------------------------------------------
(* The commit *)

LEMMA CommitInv == ASSUME IInv, NEW r \in Requests, Commit(r) PROVE IInv'
<1> USE DEF IInv
<1> DEFINE q == request[r]
           x == q.on
           t == report[x].on
           n == Len(verdict[x])
           V == [by : Members, act : Actions]
           v == [by |-> q.u, act |-> q.act]
           settled == [report[x] EXCEPT !.status = "RESOLVED", !.resolution = q.act, !.resolver = q.u]
           status == IF q.act = "HIDE" THEN "HIDDEN" ELSE "VISIBLE"
           moved == [target[t] EXCEPT !.status = status]
\* The request, the report and its target are of their types.
<1>1. q \in RequestType /\ q.pc = "commit" /\ Holds(q, target, report, roster)
  BY DEF Commit, TypeOK, RequestsOK
<1>2. x \in Reports /\ q.u \in Members /\ q.act \in Actions /\ q.flag \in BOOLEAN /\ Judges(q)
  BY <1>1, RequestFields DEF Judges
<1>3. Filed(x) /\ report[x] \in ReportType /\ report[x] # NoReport /\ ~report[x].auto
  BY <1>1, <1>2 DEF Holds, Filed, TypeOK
<1>4. t \in Targets /\ Exists(t) /\ target[t] \in TargetType /\ target[t] # NoTarget
  BY <1>2, <1>3, ReportFields DEF TypeOK, Exists
<1>5. Agree(x) /\ verdict[x] \in Seq(V) /\ v \in V /\ n \in Nat
  <2>1. Agree(x) /\ verdict[x] \in Seq(V)
    BY <1>2, <1>3 DEF TablesAgree, TypeOK
  <2>2. v \in V
    BY <1>2
  <2> QED
    BY <2>1, <2>2, LenProperties
\* What the commit writes.
<1>6. /\ report' = [report EXCEPT ![x] = settled]
      /\ verdict' = [verdict EXCEPT ![x] = Append(verdict[x], v)]
      /\ told' = IF report[x].by # q.u THEN [told EXCEPT ![x] = told[x] + 1] ELSE told
      /\ target' = IF q.flag THEN [target EXCEPT ![t] = moved] ELSE target
      /\ Continue(r) /\ UNCHANGED roster
  BY DEF Commit
<1>7. /\ settled \in ReportType
      /\ settled.on = t /\ settled.by = report[x].by /\ settled.auto = report[x].auto
      /\ settled.status = "RESOLVED" /\ settled.resolution = q.act /\ settled.resolver = q.u
  BY <1>2, <1>3, ReportFields DEF ReportType
<1>8. settled # NoReport
  BY <1>7, Distinct DEF NoReport
<1>9. /\ moved \in TargetType /\ moved.room = target[t].room /\ moved.auto = target[t].auto
      /\ moved.status = status /\ moved.kind = target[t].kind
  BY <1>4 DEF TargetType, Statuses
<1>10. moved # NoTarget
  <2>1. target[t].kind \in Kinds
    BY <1>4, TargetFields
  <2> QED
    BY <1>9, <2>1, Distinct DEF Kinds, NoTarget
<1>11. /\ report' \in [Reports -> ReportType]
       /\ \A y \in Reports : report'[y] = IF y = x THEN settled ELSE report[y]
  BY <1>2, <1>6, <1>7 DEF TypeOK
<1>12. /\ target' \in [Targets -> TargetType]
       /\ \A o \in Targets : target'[o] = IF q.flag /\ o = t THEN moved ELSE target[o]
  BY <1>4, <1>6, <1>9 DEF TypeOK
<1>13. /\ verdict' \in [Reports -> Seq(V)]
       /\ Len(verdict'[x]) = n + 1 /\ verdict'[x][n + 1] = v
       /\ \A j \in 1..n : verdict'[x][j] = verdict[x][j]
       /\ \A y \in Reports : y # x => verdict'[y] = verdict[y]
  <2>1. /\ Append(verdict[x], v) \in Seq(V)
        /\ Len(Append(verdict[x], v)) = n + 1 /\ Append(verdict[x], v)[n + 1] = v
        /\ \A j \in 1..n : Append(verdict[x], v)[j] = verdict[x][j]
    <3> HIDE DEF V, v, x
    <3> QED
      BY <1>5, AppendProperties
  <2>2. verdict \in [Reports -> Seq(V)]
    BY DEF TypeOK
  <2>3. verdict'[x] = Append(verdict[x], v)
    BY <1>2, <1>6, <2>2
  <2>4. verdict' \in [Reports -> Seq(V)] /\ \A y \in Reports : y # x => verdict'[y] = verdict[y]
    <3> HIDE DEF V, v, x
    <3> QED
      BY <1>2, <1>6, <2>1, <2>2
  <2> HIDE DEF V, v, x, n
  <2> QED
    BY <2>1, <2>3, <2>4
<1>14. PICK rest \in RequestType : ~Judges(rest) /\ Put(r, rest) /\ \A ta, re, ro : Holds(rest, ta, re, ro)
  <2>1. CASE q.todo = {}
    BY <1>6, <2>1, IdleType DEF Continue, Finish, Judges, Idle
  <2>2. CASE q.todo # {}
    <3> DEFINE bulk == [q EXCEPT !.pc = "bulk", !.on = None, !.flag = FALSE]
    <3>1. q.u \in Staff /\ q \in JudgeType
      BY <1>1, <1>2, <2>2, RequestKinds DEF Holds
    <3>2. bulk \in RequestType /\ bulk.pc = "bulk"
      BY <3>1, RequestKinds DEF BulkType, JudgeType
    <3>3. Put(r, bulk)
      BY <1>6, <2>2 DEF Continue
    <3> QED
      BY <3>2, <3>3 DEF Judges, Holds
  <2> QED
    BY <2>1, <2>2
<1>15. request' \in [Requests -> RequestType] /\ \A s \in Requests : request'[s] = IF s = r THEN rest ELSE request[s]
  BY <1>14 DEF Put, TypeOK
<1>16. told' \in [Reports -> Nat] /\ \A y \in Reports : y # x => told'[y] = told[y]
  BY <1>2, <1>6 DEF TypeOK
<1> HIDE DEF q, x, t, n, v, settled, moved, status
\* What it leaves as it was.
<1>17. \A y \in Reports : /\ Filed(y) => report'[y] # NoReport
                          /\ report'[y] # NoReport => Filed(y)
                          /\ Filed(y) => report'[y].on = report[y].on /\ (report'[y].auto <=> report[y].auto)
                                         /\ report'[y].by = report[y].by
  BY <1>3, <1>7, <1>8, <1>11 DEF Filed, t
<1>18. \A o \in Targets : /\ target'[o].room = target[o].room /\ (target'[o].auto <=> target[o].auto)
                          /\ Exists(o) <=> target'[o] # NoTarget
  BY <1>4, <1>9, <1>10, <1>12 DEF Exists
<1>19. \A y \in Reports : Filed(y) => report[y].on \in Targets
  BY ReportFields DEF Filed, TypeOK
<1>20. RequestsOK'
  <2> SUFFICES ASSUME NEW s \in Requests, s # r PROVE Holds(request[s], target', report', roster')
    BY <1>14, <1>15 DEF RequestsOK
  <2>1. request[s] \in RequestType /\ Holds(request[s], target, report, roster)
    BY DEF TypeOK, RequestsOK
  <2>2. CASE request[s].pc \in {"flood", "report", "remove"}
    BY <1>18, <2>1, <2>2, RequestFields DEF Holds, Judges, Exists
  <2>3. CASE Judges(request[s])
    <3> DEFINE y == request[s].on
    <3>1. y \in Reports /\ Filed(y)
      BY <2>1, <2>3, RequestFields DEF Holds, Judges, Filed
    <3>2. report[y].on \in Targets /\ report'[y].on = report[y].on /\ (report'[y].auto <=> report[y].auto)
          /\ report'[y] # NoReport
      BY <1>17, <1>19, <3>1
    <3>3. Appointed(request[s].u, report'[y].on, target', roster')
      BY <1>6, <1>18, <2>1, <2>3, <3>2 DEF Holds, Appointed
    <3>4. ASSUME Holding(s) PROVE target'[report[y].on] = target[report[y].on]
      <4>1. CASE q.flag /\ report[y].on = t
        BY <1>1, <2>1, <3>4, <4>1 DEF Exclusive, Holding, q, x, t
      <4>2. CASE ~(q.flag /\ report[y].on = t)
        BY <1>12, <3>2, <4>2
      <4> QED
        BY <4>1, <4>2
    <3> HIDE DEF y
    <3>5. request[s].pc = "commit" /\ request[s].flag /\ request[s].act = "RESTORE" =>
            target'[report'[y].on].status = "HIDDEN"
      BY <2>1, <3>2, <3>4 DEF Holds, Holding, y
    <3> QED
      BY <2>1, <2>3, <3>2, <3>3, <3>5 DEF Holds, Judges, y
  <2> QED
    BY <2>1, <2>2, <2>3 DEF Holds, Judges
<1>21. TypeOK'
  <2>1. \A y \in Reports : report'[y] # NoReport => target'[report'[y].on] # NoTarget
    BY <1>17, <1>18, <1>19 DEF TypeOK
  <2>2. \A s \in Requests :
          /\ request'[s].pc \in {"verdict", "commit"} => report'[request'[s].on] # NoReport
          /\ request'[s].pc \in {"flood", "report", "remove"} => target'[request'[s].on] # NoTarget
    BY <1>20 DEF RequestsOK, Holds, Judges
  <2> QED
    BY <1>6, <1>11, <1>12, <1>13, <1>15, <1>16, <2>1, <2>2 DEF TypeOK, Filed, Exists
<1>22. Exclusive'
  <2>1. ASSUME NEW s \in Requests, Holding(s)'
        PROVE  Holding(s) /\ request'[s] = request[s] /\ report'[request[s].on].on = report[request[s].on].on
    <3>1. s # r /\ request'[s] = request[s] /\ Holding(s)
      BY <1>14, <1>15, <2>1 DEF Holding, Judges
    <3>2. request[s].on \in Reports /\ Filed(request[s].on)
      BY <3>1, RequestFields DEF Holding, TypeOK
    <3> QED
      BY <1>17, <3>1, <3>2
  <2> QED
    BY <2>1 DEF Exclusive
<1>23. Bounded'
  <2> SUFFICES ASSUME NEW y \in Reports
               PROVE  Len(verdict'[y]) + Cardinality(Judging(y)') <= Cardinality(Requests)
    BY DEF Bounded
  <2>1. Len(verdict[y]) \in Nat /\ Len(verdict[y]) + Cardinality(Judging(y)) <= Cardinality(Requests)
    BY DEF TypeOK, Bounded
  <2>2. CASE y = x
    <3>1. Judging(y)' = Judging(y) \ {r} /\ r \in Judging(y)
      BY <1>2, <1>14, <1>15, <2>2 DEF Judging, q, x
    <3>2. Cardinality(Judging(y)') = Cardinality(Judging(y)) - 1
      BY <3>1, JudgingFinite, FS_RemoveElement
    <3> QED
      BY <1>13, <2>1, <2>2, <3>2, JudgingFinite DEF n
  <2>3. CASE y # x
    <3>1. Judging(y)' = Judging(y)
      BY <1>14, <1>15, <2>3 DEF Judging, q, x
    <3> QED
      BY <1>13, <2>1, <2>3, <3>1
  <2> QED
    BY <2>2, <2>3
<1>24. Unfiled'
  BY <1>3, <1>13, <1>16, <1>17 DEF Unfiled, Filed
<1>25. \A y \in Reports : \A u : Filed(y) /\ Appointed(u, report[y].on, target, roster) =>
         Appointed(u, report'[y].on, target', roster')
  BY <1>6, <1>17, <1>18, <1>19 DEF Appointed
<1>26. ASSUME NEW y \in Reports, y = x PROVE Agree(y)'
  <2> DEFINE Notified == {j \in 1..n : verdict[x][j].by # report[x].by}
  <2>1. /\ told[x] = Cardinality(Notified) /\ n + 1 > 0
        /\ \A j \in 1..n : Appointed(verdict[x][j].by, report[x].on, target, roster)
    BY <1>5 DEF Agree, n
  <2>2. IsFiniteSet(Notified) /\ n + 1 \notin Notified
    <3>1. Notified \subseteq 1..n
      OBVIOUS
    <3> HIDE DEF Notified
    <3>2. PICK k \in Nat : k = n
      BY <1>5
    <3>3. 1 \in Int /\ k \in Int /\ k + 1 \notin 1..k
      OBVIOUS
    <3>4. IsFiniteSet(1..k)
      BY <3>3, FS_Interval
    <3> QED
      BY <3>1, <3>2, <3>3, <3>4, FS_Subset
  <2>3. {j \in 1..(n + 1) : verdict'[x][j].by # report'[x].by} =
          IF report[x].by # q.u THEN Notified \cup {n + 1} ELSE Notified
    <3>1. v.by = q.u
      BY DEF v
    <3>2. \A j \in 1..(n + 1) : j \in 1..n \/ j = n + 1
      BY <1>5
    <3>3. 1..n \subseteq 1..(n + 1) /\ n + 1 \in 1..(n + 1) /\ report'[x].by = report[x].by
      BY <1>2, <1>3, <1>5, <1>17
    <3> QED
      BY <1>13, <3>1, <3>2, <3>3
  <2>4. told'[x] = IF report[x].by # q.u THEN told[x] + 1 ELSE told[x]
    BY <1>2, <1>6 DEF TypeOK
  <2>5. told'[x] = Cardinality({j \in 1..(n + 1) : verdict'[x][j].by # report'[x].by})
    <3> HIDE DEF Notified
    <3>1. Cardinality(Notified \cup {n + 1}) = Cardinality(Notified) + 1
      BY <2>2, FS_AddElement
    <3> QED
      BY <2>1, <2>3, <2>4, <3>1
  <2>6. \A j \in 1..(n + 1) : Appointed(verdict'[x][j].by, report'[x].on, target', roster')
    <3>1. Appointed(q.u, report[x].on, target, roster)
      BY <1>1, <1>2 DEF Holds, x
    <3>2. v.by = q.u
      BY DEF v
    <3>3. \A j \in 1..(n + 1) : j \in 1..n \/ j = n + 1
      BY <1>5
    <3> QED
      BY <1>2, <1>3, <1>13, <1>25, <2>1, <3>1, <3>2, <3>3
  <2>7. [by |-> report'[x].resolver, act |-> report'[x].resolution] = verdict'[x][n + 1]
    BY <1>2, <1>7, <1>11, <1>13 DEF v
  <2>8. report'[x].status = "RESOLVED" /\ ~report'[x].auto
    BY <1>2, <1>3, <1>7, <1>11
  <2> QED
    BY <1>13, <1>26, <2>1, <2>5, <2>6, <2>7, <2>8 DEF Agree
<1>27. TablesAgree'
  <2> SUFFICES ASSUME NEW y \in Reports, Filed(y), y # x PROVE Agree(y)'
    BY <1>17, <1>26 DEF TablesAgree, Filed
  <2>1. Agree(y) /\ report'[y] = report[y] /\ verdict'[y] = verdict[y] /\ told'[y] = told[y]
    BY <1>11, <1>13, <1>16 DEF TablesAgree
  <2>2. \A j \in 1..Len(verdict[y]) : Appointed(verdict[y][j].by, report'[y].on, target', roster')
    BY <1>25, <2>1 DEF Agree
  <2> QED
    BY <2>1, <2>2 DEF Agree
<1>28. \A o, act : Verdict(o, act)' <=> Verdict(o, act) \/ (o = t /\ act = q.act)
  <2>1. DOMAIN verdict'[x] = 1..(n + 1) /\ DOMAIN verdict[x] = 1..n
    BY <1>2, <1>5, <1>13, LenProperties DEF n
  <2>2. v.act = q.act
    BY DEF v
  <2>3. \A act : (\E j \in DOMAIN verdict'[x] : verdict'[x][j].act = act) <=>
                 (\E j \in DOMAIN verdict[x] : verdict[x][j].act = act) \/ act = q.act
    <3>1. \A j \in 1..(n + 1) : j \in 1..n \/ j = n + 1
      BY <1>5
    <3>2. 1..n \subseteq 1..(n + 1) /\ n + 1 \in 1..(n + 1)
      BY <1>5
    <3> QED
      BY <1>13, <2>1, <2>2, <3>1, <3>2
  <2>4. report'[x].on = t /\ report[x].on = t
    BY <1>2, <1>7, <1>11 DEF t
  <2>5. \A y \in Reports : y # x => verdict'[y] = verdict[y] /\ report'[y] = report[y]
    BY <1>11, <1>13
  <2> QED
    <3> SUFFICES ASSUME NEW o, NEW act
                 PROVE  Verdict(o, act)' <=> Verdict(o, act) \/ (o = t /\ act = q.act)
      OBVIOUS
    <3>1. Verdict(o, act)' <=> \E y \in Reports : /\ report'[y] # NoReport /\ report'[y].on = o
                                                 /\ \E j \in DOMAIN verdict'[y] : verdict'[y][j].act = act
      BY DEF Verdict, Filed
    <3>2. Verdict(o, act) <=> \E y \in Reports : /\ report[y] # NoReport /\ report[y].on = o
                                                /\ \E j \in DOMAIN verdict[y] : verdict[y][j].act = act
      BY DEF Verdict, Filed
    <3>3. report[x] # NoReport /\ report'[x] # NoReport
      BY <1>2, <1>3, <1>17
    <3>4. ASSUME Verdict(o, act)' PROVE Verdict(o, act) \/ (o = t /\ act = q.act)
      <4>1. PICK y \in Reports : /\ report'[y] # NoReport /\ report'[y].on = o
                                 /\ \E j \in DOMAIN verdict'[y] : verdict'[y][j].act = act
        BY <3>1, <3>4
      <4>2. CASE y = x
        BY <2>3, <2>4, <3>2, <3>3, <4>1, <4>2
      <4>3. CASE y # x
        <5>1. verdict'[y] = verdict[y] /\ report'[y] = report[y]
          BY <2>5, <4>3
        <5> QED
          BY <3>2, <4>1, <5>1
      <4> QED
        BY <4>2, <4>3
    <3>5. ASSUME Verdict(o, act) PROVE Verdict(o, act)'
      <4>1. PICK y \in Reports : /\ report[y] # NoReport /\ report[y].on = o
                                 /\ \E j \in DOMAIN verdict[y] : verdict[y][j].act = act
        BY <3>2, <3>5
      <4>2. CASE y = x
        BY <2>3, <2>4, <3>1, <3>3, <4>1, <4>2
      <4>3. CASE y # x
        <5>1. verdict'[y] = verdict[y] /\ report'[y] = report[y]
          BY <2>5, <4>3
        <5> QED
          BY <3>1, <4>1, <5>1
      <4> QED
        BY <4>2, <4>3
    <3>6. ASSUME o = t, act = q.act PROVE Verdict(o, act)'
      BY <1>2, <2>3, <2>4, <3>1, <3>3, <3>6
    <3> QED
      BY <3>4, <3>5, <3>6
<1>29. HiddenForCause'
  <2> SUFFICES ASSUME NEW o \in Targets, Exists(o)'
               PROVE  /\ target'[o].status = "HIDDEN" => target'[o].auto \/ Verdict(o, "HIDE")'
                      /\ target'[o].status = "VISIBLE" /\ (target'[o].auto \/ Verdict(o, "HIDE")') => Verdict(o, "RESTORE")'
    BY DEF HiddenForCause
  <2>1. /\ target[o].status = "HIDDEN" => target[o].auto \/ Verdict(o, "HIDE")
        /\ target[o].status = "VISIBLE" /\ (target[o].auto \/ Verdict(o, "HIDE")) => Verdict(o, "RESTORE")
    BY <1>18 DEF HiddenForCause, Exists
  <2>2. CASE o = t /\ q.flag
    <3>1. target'[o].status = status /\ q.act \in {"HIDE", "RESTORE"}
      BY <1>1, <1>9, <1>12, <2>2 DEF Holds, q
    <3> QED
      BY <1>28, <2>2, <3>1 DEF status
  <2>3. CASE ~(o = t /\ q.flag)
    <3>1. target'[o] = target[o]
      BY <1>12, <2>3
    <3>2. o = t => q.act # "HIDE"
      BY <1>1, <2>3 DEF Holds, q
    <3> QED
      BY <1>28, <2>1, <3>1, <3>2
  <2> QED
    BY <2>2, <2>3
<1> QED
  BY <1>20, <1>21, <1>22, <1>23, <1>24, <1>27, <1>29
-----------------------------------------------------------------------------
LEMMA PublishInv == ASSUME IInv, NEW r \in Requests, Publish(r) PROVE IInv'
BY LookCreateInv, CreateInv DEF Publish, Kinds

LEMMA ComplainInv == ASSUME IInv, NEW r \in Requests, Complain(r) PROVE IInv'
BY LookReportInv, CountReportsInv, CreateReportInv DEF Complain

LEMMA DecideInv == ASSUME IInv, NEW r \in Requests, Decide(r) PROVE IInv'
BY LookVerdictInv, StartBulkInv, NextOfBulkInv, EffectInv, CommitInv DEF Decide

LEMMA DeleteInv == ASSUME IInv, NEW r \in Requests, Delete(r) PROVE IInv'
BY LookRemoveInv, RemoveInv DEF Delete

LEMMA StutterInv == ASSUME IInv, UNCHANGED vars PROVE IInv'
<1> USE DEF vars, IInv
<1>1. TypeOK' /\ RequestsOK' /\ Unfiled'
  BY DEF TypeOK, Filed, Exists, RequestsOK, Unfiled
<1>2. Exclusive' /\ Bounded'
  BY DEF Exclusive, Holding, Bounded, Judging
<1>3. TablesAgree' /\ HiddenForCause'
  BY DEF TablesAgree, Agree, HiddenForCause, Verdict, Filed, Exists
<1> QED
  BY <1>1, <1>2, <1>3

LEMMA NextInv == IInv /\ [Next]_vars => IInv'
<1> SUFFICES ASSUME IInv, [Next]_vars PROVE IInv'
  OBVIOUS
<1>1. CASE UNCHANGED vars
  BY <1>1, StutterInv
<1>2. CASE Next
  BY <1>2, PublishInv, ComplainInv, DecideInv, DeleteInv, AbortInv, AgeTargetInv, AgeReportInv, RolesInv DEF Next
<1> QED
  BY <1>1, <1>2

LEMMA Invariance == Spec => []IInv
BY InitInv, NextInv, PTL DEF Spec

\* Every row and every local of a request has its type, and what is reported, about
\* to be judged or about to be deleted exists, at all times (report.service.ts).
THEOREM TypeCorrect == Spec => []TypeOK
<1>1. IInv => TypeOK
  BY DEF IInv
<1> QED
  BY <1>1, Invariance, PTL

\* Reports, moderation_actions and notices tell one story, and only those judge who
\* have been given the right to, for any number of moderators, batches and overlapping
\* requests (resolve and bulkResolve of report.service.ts).
THEOREM VerdictsCorrect == Spec => []VerdictsAgree
<1>1. ASSUME IInv, NEW x \in Reports, Filed(x)
      PROVE  Len(verdict[x]) <= Cardinality(Requests)
  <2>1. Len(verdict[x]) + Cardinality(Judging(x)) <= Cardinality(Requests)
    BY <1>1 DEF IInv, Bounded
  <2>2. verdict[x] \in Seq([by : Members, act : Actions])
    BY <1>1 DEF IInv, TypeOK
  <2>3. Len(verdict[x]) \in Nat
    BY <2>2, LenProperties
  <2> QED
    BY <2>1, <2>3, JudgingFinite
<1>2. ASSUME IInv, NEW x \in Reports, Filed(x)
      PROVE  Agree(x)
  BY <1>2 DEF IInv, TablesAgree
<1>3. IInv => VerdictsAgree
  BY <1>1, <1>2 DEF VerdictsAgree, Agree, Appointed
<1> QED
  BY <1>3, Invariance, PTL

\* What is hidden was caught by a gate or has a HIDE verdict, and what was hidden and
\* shows has a RESTORE verdict, whatever overlapped (report.service.ts).
THEOREM HiddenCorrect == Spec => []HiddenForCause
<1>1. IInv => HiddenForCause
  BY DEF IInv
<1> QED
  BY <1>1, Invariance, PTL

LEMMA DeletedStep ==
  ASSUME IInv, [Next]_vars, NEW t \in Targets, Exists(t), target[t].status = "DELETED"
  PROVE  target'[t].status # "VISIBLE"
<1>1. target \in [Targets -> TargetType]
  BY DEF IInv, TypeOK
<1>2. CASE UNCHANGED target
  BY <1>2
<1>3. ASSUME NEW r \in Requests, NEW o \in Targets, Create(r, o)
      PROVE  target'[t].status # "VISIBLE"
  BY <1>1, <1>3 DEF Create
<1>4. ASSUME NEW r \in Requests, Commit(r)
      PROVE  target'[t].status # "VISIBLE"
  <2> DEFINE q == request[r]
             o == report[q.on].on
  <2>1. q.pc = "commit" /\ Holds(q, target, report, roster)
    BY <1>4 DEF Commit, IInv, RequestsOK
  <2>2. q.flag \in BOOLEAN /\ q \in RequestType
    BY <2>1, RequestFields DEF IInv, TypeOK
  <2>3. CASE ~q.flag
    BY <1>2, <1>4, <2>3 DEF Commit
  <2>4. CASE q.flag
    <3>1. target' = [target EXCEPT ![o] = [@ EXCEPT !.status = IF q.act = "HIDE" THEN "HIDDEN" ELSE "VISIBLE"]]
      BY <1>4, <2>4 DEF Commit
    <3>2. t = o => q.act = "HIDE"
      BY <2>1, <2>4 DEF Holds
    <3>3. CASE t = o
      <4>1. target'[t] = [target[t] EXCEPT !.status = "HIDDEN"]
        BY <1>1, <3>1, <3>2, <3>3
      <4>2. "status" \in DOMAIN target[t]
        BY <1>1, TargetFields DEF Exists
      <4> QED
        BY <4>1, <4>2
    <3>4. CASE t # o
      <4>1. target'[t] = target[t]
        BY <1>1, <3>1, <3>4
      <4> QED
        BY <4>1
    <3> QED
      BY <3>3, <3>4
  <2> QED
    BY <2>2, <2>3, <2>4
<1>5. ASSUME NEW r \in Requests, Remove(r)
      PROVE  target'[t].status # "VISIBLE"
  <2> DEFINE o == request[r].on
  <2>1. target' = [target EXCEPT ![o] = [@ EXCEPT !.status = "DELETED"]]
    BY <1>5 DEF Remove
  <2>2. "status" \in DOMAIN target[t]
    BY <1>1, TargetFields DEF Exists
  <2>3. CASE t = o
    BY <1>1, <2>1, <2>2, <2>3
  <2>4. CASE t # o
    <3>1. target'[t] = target[t]
      BY <1>1, <2>1, <2>4
    <3> QED
      BY <3>1
  <2> QED
    BY <2>3, <2>4
<1>6. ASSUME NEW o \in Targets, AgeTarget(o)
      PROVE  target'[t].status # "VISIBLE"
  <2>1. target' = [target EXCEPT ![o] = [@ EXCEPT !.recent = FALSE]]
    BY <1>6 DEF AgeTarget
  <2>2. "recent" \in DOMAIN target[t] /\ "status" \in DOMAIN target[t]
    BY <1>1, TargetFields DEF Exists
  <2>3. CASE t = o
    BY <1>1, <2>1, <2>2, <2>3
  <2>4. CASE t # o
    <3>1. target'[t] = target[t]
      BY <1>1, <2>1, <2>4
    <3> QED
      BY <3>1
  <2> QED
    BY <2>3, <2>4
<1>7. ASSUME NEW r \in Requests, Publish(r) \/ Complain(r) \/ Decide(r) \/ Delete(r) \/ Abort(r)
      PROVE  \/ UNCHANGED target
             \/ \E o \in Targets : Create(r, o)
             \/ Commit(r) \/ Remove(r)
  <2>1. Publish(r) => UNCHANGED target \/ \E o \in Targets : Create(r, o)
    BY DEF Publish, LookCreate, Start
  <2>2. Complain(r) => UNCHANGED target
    BY DEF Complain, LookReport, CountReports, CreateReport, Start
  <2>3. Decide(r) => UNCHANGED target \/ Commit(r)
    BY DEF Decide, LookVerdict, StartBulk, NextOfBulk, Effect, Start
  <2>4. Delete(r) => UNCHANGED target \/ Remove(r)
    BY DEF Delete, LookRemove, Start
  <2>5. Abort(r) => UNCHANGED target
    BY DEF Abort
  <2> QED
    BY <1>7, <2>1, <2>2, <2>3, <2>4, <2>5
<1>8. CASE UNCHANGED vars
  BY <1>2, <1>8 DEF vars
<1>9. CASE Next
  <2>1. CASE \E r \in Requests : Publish(r) \/ Complain(r) \/ Decide(r) \/ Delete(r) \/ Abort(r)
    BY <1>2, <1>3, <1>4, <1>5, <1>7, <2>1
  <2>2. CASE \E o \in Targets : AgeTarget(o)
    BY <1>6, <2>2
  <2>3. CASE \E x \in Reports : AgeReport(x)
    BY <1>2, <2>3 DEF AgeReport
  <2>4. CASE \E u \in Members, room \in Rooms : \/ Revoke(u, room)
                                                \/ \E role \in {"MODERATOR", "MEMBER"} : Grant(u, room, role)
    BY <1>2, <2>4 DEF Revoke, Grant
  <2> QED
    BY <1>9, <2>1, <2>2, <2>3, <2>4 DEF Next
<1> QED
  BY <1>8, <1>9

\* No verdict brings back what its author deleted, however many of them and of
\* deletions are under way (applyTargetEffect of report.service.ts).
THEOREM DeletedCorrect == Spec => DeletedStaysDown
<1>1. IInv /\ [Next]_vars =>
        [\A t \in Targets : Exists(t) /\ target[t].status = "DELETED" => target'[t].status # "VISIBLE"]_vars
  BY DeletedStep
<1> QED
  BY <1>1, Invariance, PTL DEF Spec, DeletedStaysDown

-----------------------------------------------------------------------------
(* The gates.  What a gate lets through is there or on its way, and together  *)
(* they are bounded: whoever is let through was looked at when there was less *)
(* than the threshold, and overlaps with no more than the other requests.     *)

Gated(kind, u) == kind \in Kept /\ (kind # "DM" => u \notin Planners /\ Enforce)
Most(kind) == Threshold[kind] + Cardinality(Requests) - 1

\* Posts and messages of one body, and the requests that are to write one.
Through(kind, u, body) == {t \in Alike(kind, u, body) : ~target[t].auto /\ target[t].sawAll}
Coming(kind, u, body) ==
  {r \in Requests : /\ request[r].pc = "create" /\ request[r].u = u /\ request[r].on = body
                    /\ request[r].act[1] = kind /\ request[r].act[3] /\ ~request[r].flag}

\* Reports of one member, and the requests that are to file one.
Passed(u) == {x \in RecentBy(u) : ~report[x].auto}
Filing(u) == {r \in Requests : request[r].pc = "report" /\ request[r].u = u /\ ~request[r].flag}
Asking(u, t) ==
  {r \in Requests : request[r].pc \in {"flood", "report"} /\ request[r].u = u /\ request[r].on = t}

Within(rows, coming, n) == Cardinality(rows) + Cardinality(coming) <= n

PostsGated ==
  \A u \in Members, body \in Bodies, kind \in {"POST", "DM"} :
    Gated(kind, u) => Within(Through(kind, u, body), Coming(kind, u, body), Most(kind))
ReportsGated == \A u \in Members : Gated("REPORT", u) => Within(Passed(u), Filing(u), Most("REPORT"))
OneAtATime == \A u \in Members, t \in Targets : Within(OpenBy(u, t), Asking(u, t), Cardinality(Requests))

GatesInv == PostsGated /\ ReportsGated /\ OneAtATime

LEMMA Bounds ==
  /\ IsFiniteSet(Requests) /\ IsFiniteSet(Targets) /\ IsFiniteSet(Reports) /\ Cardinality(Requests) \in Nat
  /\ \A kind \in {"POST", "DM", "REPORT"} : Threshold[kind] \in Nat /\ Most(kind) \in Nat
<1>1. /\ IsFiniteSet(Requests) /\ IsFiniteSet(Targets) /\ IsFiniteSet(Reports)
      /\ Cardinality(Requests) \in Nat /\ Cardinality(Requests) # 0
  BY ModerationAssumption, FS_CardinalityType, FS_EmptySet
<1>2. \A kind \in {"POST", "DM", "REPORT"} : Threshold[kind] \in Nat
  BY ModerationAssumption
<1> QED
  BY <1>1, <1>2 DEF Most

\* What leaves makes room.
LEMMA WithinKeeps ==
  ASSUME NEW rows, IsFiniteSet(rows), NEW coming \in SUBSET Requests, NEW n \in Int, Within(rows, coming, n),
         NEW left \in SUBSET rows, NEW still \in SUBSET coming
  PROVE  Within(left, still, n)
<1>1. IsFiniteSet(coming)
  BY Bounds, FS_Subset
<1>2. Cardinality(left) <= Cardinality(rows) /\ Cardinality(still) <= Cardinality(coming)
  BY <1>1, FS_Subset
<1>3. /\ Cardinality(left) \in Nat /\ Cardinality(rows) \in Nat
      /\ Cardinality(still) \in Nat /\ Cardinality(coming) \in Nat
  BY <1>1, FS_Subset, FS_CardinalityType
<1> QED
  BY <1>2, <1>3 DEF Within

\* What was on its way arrives.
LEMMA WithinArrives ==
  ASSUME NEW rows, IsFiniteSet(rows), NEW coming \in SUBSET Requests, NEW n \in Int, Within(rows, coming, n),
         NEW r \in coming, NEW x, NEW after \in SUBSET (rows \cup {x}), NEW still \in SUBSET (coming \ {r})
  PROVE  Within(after, still, n)
<1>1. IsFiniteSet(coming)
  BY Bounds, FS_Subset
<1>2. IsFiniteSet(rows \cup {x}) /\ Cardinality(rows \cup {x}) <= Cardinality(rows) + 1
  <2>1. Cardinality(rows) \in Nat
    BY FS_CardinalityType
  <2>2. /\ IsFiniteSet(rows \cup {x})
        /\ Cardinality(rows \cup {x}) = IF x \in rows THEN Cardinality(rows) ELSE Cardinality(rows) + 1
    BY FS_AddElement
  <2> QED
    BY <2>1, <2>2
<1>3. IsFiniteSet(coming \ {r}) /\ Cardinality(coming \ {r}) = Cardinality(coming) - 1
  BY <1>1, FS_RemoveElement
<1>4. Cardinality(after) <= Cardinality(rows) + 1 /\ Cardinality(still) <= Cardinality(coming) - 1
  <2>1. Cardinality(after) <= Cardinality(rows \cup {x}) /\ Cardinality(after) \in Nat /\ Cardinality(rows) \in Nat
        /\ Cardinality(rows \cup {x}) \in Nat
    BY <1>2, FS_Subset, FS_CardinalityType
  <2>2. Cardinality(still) <= Cardinality(coming \ {r})
    BY <1>3, FS_Subset
  <2> QED
    BY <1>2, <1>3, <2>1, <2>2
<1>5. /\ Cardinality(after) \in Nat /\ Cardinality(rows) \in Nat
      /\ Cardinality(still) \in Nat /\ Cardinality(coming) \in Nat
  BY <1>1, <1>2, <1>3, FS_Subset, FS_CardinalityType
<1> QED
  BY <1>4, <1>5 DEF Within

\* What is let through finds less than the threshold, and everybody else at most
\* on their way.
LEMMA WithinAdmits ==
  ASSUME NEW rows, IsFiniteSet(rows), NEW m \in Nat, Cardinality(rows) < m, NEW coming \in SUBSET Requests
  PROVE  Within(rows, coming, m + Cardinality(Requests) - 1)
<1>1. Cardinality(coming) <= Cardinality(Requests) /\ Cardinality(coming) \in Nat /\ Cardinality(rows) \in Nat
  BY Bounds, FS_Subset, FS_CardinalityType
<1> QED
  BY <1>1, Bounds DEF Within

LEMMA GatesInit == Init => GatesInv
<1> SUFFICES ASSUME Init PROVE GatesInv
  OBVIOUS
<1> USE DEF Init
<1>1. /\ \A u, body, kind : Through(kind, u, body) = {} /\ Coming(kind, u, body) = {}
      /\ \A u : Passed(u) = {} /\ Filing(u) = {}
      /\ \A u, t : OpenBy(u, t) = {} /\ Asking(u, t) = {}
  BY DEF Through, Alike, Recent, Exists, Coming, Passed, RecentBy, Filed, Filing, OpenBy, Asking, Idle
<1>2. Cardinality({}) = 0
  BY FS_EmptySet
<1>3. \A n \in Nat : Within({}, {}, n)
  BY <1>2 DEF Within
<1>4. \A kind \in {"POST", "DM", "REPORT"} : Within({}, {}, Most(kind)) /\ Within({}, {}, Cardinality(Requests))
  BY <1>3, Bounds
<1> QED
  BY <1>1, <1>4 DEF GatesInv, PostsGated, ReportsGated, OneAtATime

LEMMA GateSets ==
  ASSUME NEW u, NEW t, NEW kind, NEW body
  PROVE  /\ IsFiniteSet(Through(kind, u, body)) /\ IsFiniteSet(Passed(u)) /\ IsFiniteSet(OpenBy(u, t))
         /\ IsFiniteSet(Alike(kind, u, body)) /\ IsFiniteSet(RecentBy(u))
         /\ Coming(kind, u, body) \in SUBSET Requests /\ Coming(kind, u, body)' \in SUBSET Requests
         /\ Filing(u) \in SUBSET Requests /\ Filing(u)' \in SUBSET Requests
         /\ Asking(u, t) \in SUBSET Requests /\ Asking(u, t)' \in SUBSET Requests
<1>1. /\ Through(kind, u, body) \subseteq Targets /\ Alike(kind, u, body) \subseteq Targets
      /\ Passed(u) \subseteq Reports /\ RecentBy(u) \subseteq Reports /\ OpenBy(u, t) \subseteq Reports
  BY DEF Through, Alike, Recent, Passed, RecentBy, OpenBy
<1>2. /\ IsFiniteSet(Through(kind, u, body)) /\ IsFiniteSet(Passed(u)) /\ IsFiniteSet(OpenBy(u, t))
      /\ IsFiniteSet(Alike(kind, u, body)) /\ IsFiniteSet(RecentBy(u))
  BY <1>1, Bounds, FS_Subset
<1> QED
  BY <1>2 DEF Coming, Filing, Asking

\* No new rows, and nobody new on the way to one: posts and messages.
LEMMA PostsKept ==
  ASSUME PostsGated,
         \A t \in Targets : target'[t] # NoTarget /\ target'[t].recent =>
           /\ Exists(t) /\ target[t].recent
           /\ target'[t].kind = target[t].kind /\ target'[t].by = target[t].by /\ target'[t].body = target[t].body
           /\ target'[t].auto = target[t].auto /\ target'[t].sawAll = target[t].sawAll,
         \A r \in Requests : request'[r].pc = "create" => request'[r] = request[r]
  PROVE  PostsGated'
<1> SUFFICES ASSUME NEW u \in Members, NEW body \in Bodies, NEW kind \in {"POST", "DM"}, Gated(kind, u)
             PROVE  Within(Through(kind, u, body)', Coming(kind, u, body)', Most(kind))
  BY DEF PostsGated, Within, Gated, Most
<1>1. Through(kind, u, body)' \subseteq Through(kind, u, body)
  BY DEF Through, Alike, Recent, Exists
<1>2. Coming(kind, u, body)' \subseteq Coming(kind, u, body)
  BY DEF Coming
<1>3. Within(Through(kind, u, body), Coming(kind, u, body), Most(kind))
  BY DEF PostsGated
<1>4. Most(kind) \in Int
  BY Bounds
<1> QED
  BY <1>1, <1>2, <1>3, <1>4, GateSets, WithinKeeps

\* Likewise reports.
LEMMA ReportsKept ==
  ASSUME ReportsGated, OneAtATime,
         \A x \in Reports : report'[x] # NoReport =>
           /\ Filed(x)
           /\ report'[x].by = report[x].by /\ report'[x].on = report[x].on /\ report'[x].auto = report[x].auto
           /\ report'[x].recent => report[x].recent
           /\ report'[x].status = "OPEN" => report[x].status = "OPEN",
         \A r \in Requests : request'[r].pc \in {"flood", "report"} => request'[r] = request[r]
  PROVE  ReportsGated' /\ OneAtATime'
<1>1. ASSUME NEW u \in Members, Gated("REPORT", u) PROVE Within(Passed(u)', Filing(u)', Most("REPORT"))
  <2>1. Passed(u)' \subseteq Passed(u)
    BY DEF Passed, RecentBy, Filed
  <2>2. Filing(u)' \subseteq Filing(u)
    BY DEF Filing
  <2>3. Within(Passed(u), Filing(u), Most("REPORT")) /\ Most("REPORT") \in Int
    BY <1>1, Bounds DEF ReportsGated
  <2> QED
    BY <2>1, <2>2, <2>3, GateSets, WithinKeeps
<1>2. ASSUME NEW u \in Members, NEW t \in Targets PROVE Within(OpenBy(u, t)', Asking(u, t)', Cardinality(Requests))
  <2>1. OpenBy(u, t)' \subseteq OpenBy(u, t)
    BY DEF OpenBy, Filed
  <2>2. Asking(u, t)' \subseteq Asking(u, t)
    BY DEF Asking
  <2>3. Within(OpenBy(u, t), Asking(u, t), Cardinality(Requests)) /\ Cardinality(Requests) \in Int
    BY Bounds DEF OneAtATime
  <2> QED
    BY <2>1, <2>2, <2>3, GateSets, WithinKeeps
<1> QED
  BY <1>1, <1>2 DEF ReportsGated, OneAtATime, Within, Gated, Most

\* Steps that write no row and bring nobody to a gate.
LEMMA ElsewhereGates ==
  ASSUME GatesInv, UNCHANGED <<target, report>>,
         \A r \in Requests : request'[r].pc \in {"create", "flood", "report"} => request'[r] = request[r]
  PROVE  GatesInv'
BY PostsKept, ReportsKept DEF GatesInv, Exists, Filed

\* The gate of posts and messages: whoever it lets through, having seen all, saw
\* less than the threshold of them.
LEMMA LookCreateGates ==
  ASSUME IInv, GatesInv, NEW r \in Requests, NEW kind \in Kinds, NEW u \in Members,
         NEW room \in Rooms \cup {None}, NEW body \in Bodies, LookCreate(r, kind, u, room, body)
  PROVE  GatesInv'
<1>1. PICK scanned \in AtMost(Take, Recent(kind, u)) :
        Start(r, [pc |-> "create", u |-> u, on |-> body, todo |-> {},
                  act |-> <<kind, room, scanned = Recent(kind, u)>>,
                  flag |-> kind # "REPLY" /\ Caught(kind, u, Cardinality(scanned \cap Alike(kind, u, body)))])
  BY DEF LookCreate
<1>2. PICK all, flag : /\ all = (scanned = Recent(kind, u))
                       /\ flag = (kind # "REPLY" /\ Caught(kind, u, Cardinality(scanned \cap Alike(kind, u, body))))
  OBVIOUS
<1> DEFINE q == [pc |-> "create", u |-> u, on |-> body, todo |-> {}, act |-> <<kind, room, all>>, flag |-> flag]
<1>3. Start(r, q)
  BY <1>1, <1>2
<1>4. /\ request[r] = Idle /\ request[r].pc = "idle"
      /\ UNCHANGED <<target, report>>
      /\ request'[r] = q
      /\ \A s \in Requests : s # r => request'[s] = request[s]
  BY <1>3 DEF Start, Put, IInv, TypeOK, Idle
<1>5. q.pc = "create" /\ q.u = u /\ q.on = body /\ q.act[1] = kind /\ q.act[3] = all /\ q.flag = flag
  OBVIOUS
<1> HIDE DEF q
<1>6. ASSUME NEW u2 \in Members, NEW body2 \in Bodies, NEW kind2 \in {"POST", "DM"}, Gated(kind2, u2)
      PROVE  Within(Through(kind2, u2, body2)', Coming(kind2, u2, body2)', Most(kind2))
  <2>1. Through(kind2, u2, body2)' = Through(kind2, u2, body2)
    BY <1>4 DEF Through, Alike, Recent, Exists
  <2>2. CASE r \notin Coming(kind2, u2, body2)'
    <3>1. Coming(kind2, u2, body2)' \subseteq Coming(kind2, u2, body2)
      BY <1>4, <2>2 DEF Coming
    <3>2. Within(Through(kind2, u2, body2), Coming(kind2, u2, body2), Most(kind2)) /\ Most(kind2) \in Int
      BY <1>6, Bounds DEF GatesInv, PostsGated
    <3> QED
      BY <2>1, <3>1, <3>2, GateSets, WithinKeeps
  <2>3. CASE r \in Coming(kind2, u2, body2)'
    <3>1. kind2 = kind /\ u2 = u /\ body2 = body /\ all /\ ~flag
      BY <1>4, <1>5, <2>3 DEF Coming
    <3>2. ~Caught(kind, u, Cardinality(scanned \cap Alike(kind, u, body))) /\ scanned = Recent(kind, u)
      BY <1>2, <3>1
    <3>3. scanned \cap Alike(kind, u, body) = Alike(kind, u, body)
      BY <3>2 DEF Alike
    <3>4. ~(Cardinality(Alike(kind, u, body)) >= Threshold[kind])
      BY <1>6, <3>1, <3>2, <3>3 DEF Caught, Gated
    <3>5. Through(kind, u, body) \subseteq Alike(kind, u, body)
      BY DEF Through
    <3>6. /\ Cardinality(Through(kind, u, body)) <= Cardinality(Alike(kind, u, body))
          /\ Cardinality(Through(kind, u, body)) \in Nat /\ Cardinality(Alike(kind, u, body)) \in Nat
      BY <3>5, GateSets, FS_Subset, FS_CardinalityType
    <3>7. Threshold[kind] \in Nat /\ Cardinality(Through(kind, u, body)) < Threshold[kind]
      BY <3>1, <3>4, <3>6, Bounds
    <3> QED
      BY <2>1, <3>1, <3>7, GateSets, WithinAdmits DEF Most
  <2> QED
    BY <2>2, <2>3
<1>7. PostsGated'
  BY <1>6 DEF PostsGated, Within, Gated, Most
<1>8. \A s \in Requests : request'[s].pc \in {"flood", "report"} => request'[s] = request[s]
  BY <1>4, <1>5
<1> QED
  BY <1>4, <1>7, <1>8, ReportsKept DEF GatesInv, Filed

LEMMA CreateGates ==
  ASSUME IInv, GatesInv, NEW r \in Requests, NEW t \in Targets, Create(r, t)
  PROVE  GatesInv'
<1> DEFINE q == request[r]
           new == [kind |-> q.act[1], room |-> q.act[2], by |-> q.u, body |-> q.on, recent |-> TRUE,
                   status |-> IF q.flag THEN "HIDDEN" ELSE "VISIBLE", auto |-> q.flag,
                   sawAll |-> q.act[3]]
<1>1. /\ q.pc = "create" /\ ~Exists(t) /\ UNCHANGED report
      /\ target'[t] = new /\ \A o \in Targets : o # t => target'[o] = target[o]
      /\ request'[r] = Idle /\ \A s \in Requests : s # r => request'[s] = request[s]
  BY DEF Create, Finish, Put, IInv, TypeOK
<1>2. Idle.pc = "idle"
  BY DEF Idle
<1>3. /\ new.kind = q.act[1] /\ new.by = q.u /\ new.body = q.on /\ new.auto = q.flag /\ new.sawAll = q.act[3]
  OBVIOUS
<1> HIDE DEF new
<1>4. ASSUME NEW u \in Members, NEW body \in Bodies, NEW kind \in {"POST", "DM"}, Gated(kind, u)
      PROVE  Within(Through(kind, u, body)', Coming(kind, u, body)', Most(kind))
  <2>1. Coming(kind, u, body)' \subseteq Coming(kind, u, body) \ {r}
    BY <1>1, <1>2 DEF Coming
  <2>2. \A o \in Targets : o # t => (o \in Through(kind, u, body)' <=> o \in Through(kind, u, body))
    BY <1>1 DEF Through, Alike, Recent, Exists
  <2>3. Within(Through(kind, u, body), Coming(kind, u, body), Most(kind)) /\ Most(kind) \in Int
    BY <1>4, Bounds DEF GatesInv, PostsGated
  <2>4. Through(kind, u, body)' \subseteq Targets
    BY DEF Through, Alike, Recent
  <2>5. CASE t \in Through(kind, u, body)'
    <3>1. q.act[1] = kind /\ q.u = u /\ q.on = body /\ ~q.flag /\ q.act[3]
      BY <1>1, <1>3, <2>5 DEF Through, Alike, Recent
    <3>2. r \in Coming(kind, u, body)
      BY <1>1, <3>1 DEF Coming
    <3>3. Through(kind, u, body)' \subseteq Through(kind, u, body) \cup {t}
      BY <2>2, <2>4
    <3> QED
      BY <2>1, <2>3, <3>2, <3>3, GateSets, WithinArrives
  <2>6. CASE t \notin Through(kind, u, body)'
    <3>1. Through(kind, u, body)' \subseteq Through(kind, u, body)
      BY <2>2, <2>4, <2>6
    <3> QED
      BY <2>1, <2>3, <3>1, GateSets, WithinKeeps
  <2> QED
    BY <2>5, <2>6
<1>5. PostsGated'
  BY <1>4 DEF PostsGated, Within, Gated, Most
<1>6. \A s \in Requests : request'[s].pc \in {"flood", "report"} => request'[s] = request[s]
  BY <1>1, <1>2
<1> QED
  BY <1>1, <1>5, <1>6, ReportsKept DEF GatesInv, Filed

\* The check for an open report: while there is none, all the requests may be
\* about to file one.
LEMMA LookReportGates ==
  ASSUME IInv, GatesInv, NEW r \in Requests, NEW u \in Members, NEW t \in Targets, LookReport(r, u, t)
  PROVE  GatesInv'
<1> DEFINE q == [Idle EXCEPT !.pc = "flood", !.u = u, !.on = t]
<1>1. /\ q.pc = "flood" /\ q.u = u /\ q.on = t
  BY DEF Idle
<1>2. /\ OpenBy(u, t) = {} /\ UNCHANGED <<target, report>>
      /\ request'[r] = q /\ \A s \in Requests : s # r => request'[s] = request[s]
  BY DEF LookReport, Start, Put, IInv, TypeOK
<1> HIDE DEF q
<1>3. PostsGated'
  BY <1>1, <1>2, PostsKept DEF GatesInv, Exists
<1>4. ASSUME NEW v \in Members, Gated("REPORT", v) PROVE Within(Passed(v)', Filing(v)', Most("REPORT"))
  <2>1. Passed(v)' = Passed(v) /\ Filing(v)' \subseteq Filing(v)
    BY <1>1, <1>2 DEF Passed, RecentBy, Filed, Filing
  <2>2. Within(Passed(v), Filing(v), Most("REPORT")) /\ Most("REPORT") \in Int
    BY <1>4, Bounds DEF GatesInv, ReportsGated
  <2> QED
    BY <2>1, <2>2, GateSets, WithinKeeps
<1>5. ASSUME NEW v \in Members, NEW o \in Targets
      PROVE  Within(OpenBy(v, o)', Asking(v, o)', Cardinality(Requests))
  <2>1. OpenBy(v, o)' = OpenBy(v, o)
    BY <1>2 DEF OpenBy, Filed
  <2>2. CASE v = u /\ o = t
    <3>1. Within({}, Asking(v, o)', 1 + Cardinality(Requests) - 1)
      <4>1. IsFiniteSet({}) /\ Cardinality({}) < 1 /\ 1 \in Nat
        BY FS_EmptySet
      <4>2. Asking(v, o)' \in SUBSET Requests
        BY GateSets
      <4> QED
        BY <4>1, <4>2, WithinAdmits
    <3> QED
      BY <1>2, <2>1, <2>2, <3>1, Bounds
  <2>3. CASE ~(v = u /\ o = t)
    <3>1. Asking(v, o)' \subseteq Asking(v, o)
      BY <1>1, <1>2, <2>3 DEF Asking
    <3>2. Within(OpenBy(v, o), Asking(v, o), Cardinality(Requests)) /\ Cardinality(Requests) \in Int
      BY Bounds DEF GatesInv, OneAtATime
    <3> QED
      BY <2>1, <3>1, <3>2, GateSets, WithinKeeps
  <2> QED
    BY <2>2, <2>3
<1> QED
  BY <1>3, <1>4, <1>5 DEF GatesInv, ReportsGated, OneAtATime, Within, Gated, Most

\* The flood gate, of reports.
LEMMA CountReportsGates ==
  ASSUME IInv, GatesInv, NEW r \in Requests, CountReports(r)
  PROVE  GatesInv'
<1>1. request[r] \in RequestType /\ request[r].pc = "flood"
  BY DEF CountReports, IInv, TypeOK
<1>2. PICK u, t, flag :
        /\ u = request[r].u /\ t = request[r].on
        /\ flag = Caught("REPORT", u, Cardinality(RecentBy(u)))
  OBVIOUS
<1>3. PICK q : q = [request[r] EXCEPT !.pc = "report", !.flag = flag]
  OBVIOUS
<1>4. q.pc = "report" /\ q.u = u /\ q.on = t /\ q.flag = flag
  BY <1>1, <1>2, <1>3, RequestFields
<1>5. /\ UNCHANGED <<target, report>>
      /\ request'[r] = q /\ \A s \in Requests : s # r => request'[s] = request[s]
  BY <1>2, <1>3 DEF CountReports, Put, IInv, TypeOK
<1>6. PostsGated'
  BY <1>4, <1>5, PostsKept DEF GatesInv, Exists
<1>7. ASSUME NEW v \in Members, Gated("REPORT", v) PROVE Within(Passed(v)', Filing(v)', Most("REPORT"))
  <2>1. Passed(v)' = Passed(v)
    BY <1>5 DEF Passed, RecentBy, Filed
  <2>2. CASE r \notin Filing(v)'
    <3>1. Filing(v)' \subseteq Filing(v)
      BY <1>5, <2>2 DEF Filing
    <3>2. Within(Passed(v), Filing(v), Most("REPORT")) /\ Most("REPORT") \in Int
      BY <1>7, Bounds DEF GatesInv, ReportsGated
    <3> QED
      BY <2>1, <3>1, <3>2, GateSets, WithinKeeps
  <2>3. CASE r \in Filing(v)'
    <3>1. v = u /\ ~Caught("REPORT", v, Cardinality(RecentBy(v)))
      BY <1>2, <1>4, <1>5, <2>3 DEF Filing
    <3>2. ~(Cardinality(RecentBy(v)) >= Threshold["REPORT"])
      BY <1>7, <3>1 DEF Caught, Gated
    <3>3. Passed(v) \subseteq RecentBy(v)
      BY DEF Passed
    <3>4. /\ Cardinality(Passed(v)) <= Cardinality(RecentBy(v))
          /\ Cardinality(Passed(v)) \in Nat /\ Cardinality(RecentBy(v)) \in Nat
      BY <3>3, GateSets, FS_Subset, FS_CardinalityType
    <3>5. Threshold["REPORT"] \in Nat /\ Cardinality(Passed(v)) < Threshold["REPORT"]
      BY <3>2, <3>4, Bounds
    <3> QED
      BY <2>1, <3>5, GateSets, WithinAdmits DEF Most
  <2> QED
    BY <2>2, <2>3
<1>8. ASSUME NEW v \in Members, NEW o \in Targets
      PROVE  Within(OpenBy(v, o)', Asking(v, o)', Cardinality(Requests))
  <2>1. OpenBy(v, o)' = OpenBy(v, o)
    BY <1>5 DEF OpenBy, Filed
  <2>2. Asking(v, o)' = Asking(v, o)
    BY <1>1, <1>2, <1>4, <1>5 DEF Asking
  <2> QED
    BY <2>1, <2>2 DEF GatesInv, OneAtATime
<1> QED
  BY <1>6, <1>7, <1>8 DEF GatesInv, ReportsGated, OneAtATime, Within, Gated, Most

LEMMA CreateReportGates ==
  ASSUME IInv, GatesInv, NEW r \in Requests, NEW x \in Reports, CreateReport(r, x)
  PROVE  GatesInv'
<1> DEFINE q == request[r]
           new == [by |-> q.u, on |-> q.on, recent |-> TRUE, auto |-> q.flag, resolver |-> None,
                   status |-> IF q.flag THEN "RESOLVED" ELSE "OPEN",
                   resolution |-> IF q.flag THEN "DISMISS" ELSE None]
<1>1. /\ q.pc = "report" /\ UNCHANGED target
      /\ report'[x] = new /\ \A y \in Reports : y # x => report'[y] = report[y]
      /\ request'[r] = Idle /\ \A s \in Requests : s # r => request'[s] = request[s]
  BY DEF CreateReport, Finish, Put, IInv, TypeOK
<1>2. Idle.pc = "idle"
  BY DEF Idle
<1>3. new.by = q.u /\ new.on = q.on /\ new.auto = q.flag
  OBVIOUS
<1> HIDE DEF new
<1>4. PostsGated'
  BY <1>1, <1>2, PostsKept DEF GatesInv, Exists
<1>5. ASSUME NEW v \in Members, Gated("REPORT", v) PROVE Within(Passed(v)', Filing(v)', Most("REPORT"))
  <2>1. Filing(v)' \subseteq Filing(v) \ {r}
    BY <1>1, <1>2 DEF Filing
  <2>2. Passed(v)' \subseteq Passed(v) \cup {x}
    BY <1>1 DEF Passed, RecentBy, Filed
  <2>3. Within(Passed(v), Filing(v), Most("REPORT")) /\ Most("REPORT") \in Int
    BY <1>5, Bounds DEF GatesInv, ReportsGated
  <2>4. CASE r \in Filing(v)
    <3>1. IsFiniteSet(Passed(v)) /\ Filing(v) \in SUBSET Requests
      BY GateSets
    <3> QED
      BY <2>1, <2>2, <2>3, <2>4, <3>1, WithinArrives
  <2>5. CASE r \notin Filing(v)
    <3>1. x \notin Passed(v)'
      BY <1>1, <1>3, <2>5 DEF Passed, RecentBy, Filing
    <3>2. Passed(v)' \subseteq Passed(v)
      BY <2>2, <3>1
    <3> QED
      BY <2>1, <2>3, <3>2, GateSets, WithinKeeps
  <2> QED
    BY <2>4, <2>5
<1>6. ASSUME NEW v \in Members, NEW o \in Targets
      PROVE  Within(OpenBy(v, o)', Asking(v, o)', Cardinality(Requests))
  <2>1. Asking(v, o)' \subseteq Asking(v, o) \ {r}
    BY <1>1, <1>2 DEF Asking
  <2>2. OpenBy(v, o)' \subseteq OpenBy(v, o) \cup {x}
    BY <1>1 DEF OpenBy, Filed
  <2>3. Within(OpenBy(v, o), Asking(v, o), Cardinality(Requests)) /\ Cardinality(Requests) \in Int
    BY Bounds DEF GatesInv, OneAtATime
  <2>4. CASE r \in Asking(v, o)
    <3>1. IsFiniteSet(OpenBy(v, o)) /\ Asking(v, o) \in SUBSET Requests
      BY GateSets
    <3>2. PICK n \in Int : n = Cardinality(Requests)
      BY <2>3
    <3>3. Within(OpenBy(v, o), Asking(v, o), n)
      BY <2>3, <3>2
    <3>4. PICK rows : rows = OpenBy(v, o)
      OBVIOUS
    <3>5. PICK coming : coming = Asking(v, o)
      OBVIOUS
    <3>6. PICK after : after = OpenBy(v, o)'
      OBVIOUS
    <3>7. PICK still : still = Asking(v, o)'
      OBVIOUS
    <3>8. Within(after, still, n)
      <4>1. IsFiniteSet(rows) /\ Within(rows, coming, n)
        BY <3>1, <3>3, <3>4, <3>5
      <4>2. coming \in SUBSET Requests /\ r \in coming /\ still \in SUBSET (coming \ {r})
        BY <2>1, <2>4, <3>1, <3>5, <3>7
      <4>3. after \in SUBSET (rows \cup {x})
        BY <2>2, <3>4, <3>6
      <4> QED
        BY <4>1, <4>2, <4>3, WithinArrives
    <3> QED
      BY <3>2, <3>6, <3>7, <3>8
  <2>5. CASE r \notin Asking(v, o)
    <3>1. x \notin OpenBy(v, o)'
      BY <1>1, <1>3, <2>5 DEF OpenBy, Asking
    <3>2. OpenBy(v, o)' \subseteq OpenBy(v, o)
      BY <2>2, <3>1
    <3> QED
      BY <2>1, <2>3, <3>2, GateSets, WithinKeeps
  <2> QED
    BY <2>4, <2>5
<1> QED
  BY <1>4, <1>5, <1>6 DEF GatesInv, ReportsGated, OneAtATime, Within, Gated, Most

\* Rows that leave their window, targets that are deleted, verdicts.
LEMMA AgeTargetGates ==
  ASSUME IInv, GatesInv, NEW t \in Targets, AgeTarget(t)
  PROVE  GatesInv'
<1>1. /\ target[t] \in TargetType /\ target[t] # NoTarget /\ UNCHANGED <<report, request>>
      /\ target'[t] = [target[t] EXCEPT !.recent = FALSE]
      /\ \A o \in Targets : o # t => target'[o] = target[o]
  BY DEF AgeTarget, Exists, IInv, TypeOK
<1>2. ~target'[t].recent
  BY <1>1, TargetFields
<1> QED
  BY <1>1, <1>2, PostsKept, ReportsKept DEF GatesInv, Exists, Filed

LEMMA AgeReportGates ==
  ASSUME IInv, GatesInv, NEW x \in Reports, AgeReport(x)
  PROVE  GatesInv'
<1>1. /\ report[x] \in ReportType /\ report[x] # NoReport /\ UNCHANGED <<target, request>>
      /\ report'[x] = [report[x] EXCEPT !.recent = FALSE]
      /\ \A y \in Reports : y # x => report'[y] = report[y]
  BY DEF AgeReport, Filed, IInv, TypeOK
<1>2. /\ ~report'[x].recent /\ report'[x].by = report[x].by /\ report'[x].on = report[x].on
      /\ report'[x].auto = report[x].auto /\ report'[x].status = report[x].status
  BY <1>1, ReportFields
<1> QED
  BY <1>1, <1>2, PostsKept, ReportsKept DEF GatesInv, Exists, Filed

LEMMA RemoveGates ==
  ASSUME IInv, GatesInv, NEW r \in Requests, Remove(r)
  PROVE  GatesInv'
<1> PICK t : t = request[r].on
  OBVIOUS
<1>1. request[r] \in RequestType /\ request[r].pc = "remove" /\ Exists(t)
  BY DEF IInv, TypeOK, Remove
<1>2. t \in Targets
  BY <1>1, RequestFields
<1>3. /\ target[t] \in TargetType /\ target[t] # NoTarget /\ UNCHANGED report
      /\ target'[t] = [target[t] EXCEPT !.status = "DELETED"]
      /\ \A o \in Targets : o # t => target'[o] = target[o]
      /\ request'[r] = Idle /\ \A s \in Requests : s # r => request'[s] = request[s]
  BY <1>1, <1>2 DEF Remove, Finish, Put, Exists, IInv, TypeOK
<1>4. /\ target'[t].kind = target[t].kind /\ target'[t].by = target[t].by /\ target'[t].body = target[t].body
      /\ target'[t].auto = target[t].auto /\ target'[t].sawAll = target[t].sawAll
      /\ target'[t].recent = target[t].recent
  BY <1>3, TargetFields
<1>5. \A s \in Requests : request'[s].pc \in {"create", "flood", "report"} => request'[s] = request[s]
  BY <1>3 DEF Idle
<1> QED
  BY <1>3, <1>4, <1>5, PostsKept, ReportsKept DEF GatesInv, Exists, Filed

LEMMA CommitGates ==
  ASSUME IInv, GatesInv, NEW r \in Requests, Commit(r)
  PROVE  GatesInv'
<1> PICK q, x, t, settled, moved :
      /\ q = request[r] /\ x = q.on /\ t = report[x].on
      /\ settled = [report[x] EXCEPT !.status = "RESOLVED", !.resolution = q.act, !.resolver = q.u]
      /\ moved = [target[t] EXCEPT !.status = IF q.act = "HIDE" THEN "HIDDEN" ELSE "VISIBLE"]
  OBVIOUS
<1>1. q \in RequestType /\ q.pc = "commit" /\ Filed(x)
  BY DEF Commit, IInv, TypeOK
<1>2. x \in Reports /\ report[x] \in ReportType /\ report[x] # NoReport
  BY <1>1, RequestFields DEF Filed, IInv, TypeOK
<1>3. t \in Targets /\ target[t] \in TargetType /\ target[t] # NoTarget
  BY <1>1, <1>2, ReportFields DEF IInv, TypeOK, Exists
<1>4. /\ report' = [report EXCEPT ![x] = settled]
      /\ target' = [target EXCEPT ![t] = moved] \/ target' = target
      /\ Continue(r)
  BY DEF Commit
<1>5. /\ report'[x] = settled /\ \A y \in Reports : y # x => report'[y] = report[y]
      /\ target'[t] = moved \/ target'[t] = target[t]
      /\ \A o \in Targets : o # t => target'[o] = target[o]
  BY <1>2, <1>3, <1>4 DEF IInv, TypeOK
<1>6. /\ settled.by = report[x].by /\ settled.on = report[x].on /\ settled.auto = report[x].auto
      /\ settled.recent = report[x].recent /\ settled.status = "RESOLVED"
  BY <1>2, ReportFields
<1>7. /\ moved.kind = target[t].kind /\ moved.by = target[t].by /\ moved.body = target[t].body
      /\ moved.auto = target[t].auto /\ moved.sawAll = target[t].sawAll /\ moved.recent = target[t].recent
  BY <1>3, TargetFields
<1>8. PICK rest : rest.pc \in {"idle", "bulk"} /\ Put(r, rest)
  <2>1. PICK rest : rest = [request[r] EXCEPT !.pc = "bulk", !.on = None, !.flag = FALSE]
    OBVIOUS
  <2>2. CASE Put(r, rest)
    <3>1. rest.pc = "bulk"
      BY <1>1, <2>1, RequestFields
    <3> QED
      BY <2>2, <3>1
  <2>3. CASE Put(r, Idle)
    BY <2>3 DEF Idle
  <2> QED
    BY <1>4, <2>1, <2>2, <2>3 DEF Continue, Finish
<1>9. \A s \in Requests : request'[s].pc \in {"create", "flood", "report"} => request'[s] = request[s]
  BY <1>8 DEF Put, IInv, TypeOK
<1>10. PostsGated'
  <2>1. \A o \in Targets :
          /\ target'[o].kind = target[o].kind /\ target'[o].by = target[o].by /\ target'[o].body = target[o].body
          /\ target'[o].auto = target[o].auto /\ target'[o].sawAll = target[o].sawAll
          /\ target'[o].recent = target[o].recent
    <3> TAKE o \in Targets
    <3>1. CASE o = t /\ target'[t] = moved
      BY <1>7, <3>1
    <3>2. CASE target'[o] = target[o]
      BY <3>2
    <3> QED
      BY <1>5, <3>1, <3>2
  <2>2. \A o \in Targets : target'[o] # NoTarget => target[o] # NoTarget
    BY <1>3, <1>5
  <2>3. \A s \in Requests : request'[s].pc = "create" => request'[s] = request[s]
    BY <1>9
  <2> QED
    BY <2>1, <2>2, <2>3, PostsKept DEF GatesInv, Exists
<1>11. ReportsGated' /\ OneAtATime'
  BY <1>2, <1>5, <1>6, <1>9, ReportsKept DEF GatesInv, Filed
<1> QED
  BY <1>10, <1>11 DEF GatesInv

\* What happens to verdicts before the commit, to batches and to roles is
\* elsewhere than at the gates, and so is giving up.
LEMMA RestGates ==
  ASSUME IInv, GatesInv, NEW r \in Requests,
         \/ Abort(r) \/ Effect(r)
         \/ \E t \in Targets : LookRemove(r, t)
         \/ \E x \in Reports : NextOfBulk(r, x)
         \/ \E u \in Members, act \in Actions : \/ \E x \in Reports : LookVerdict(r, u, x, act)
                                                \/ \E xs \in SUBSET Reports : StartBulk(r, u, xs, act)
  PROVE  GatesInv'
<1>1. PICK q : /\ Put(r, q) /\ q.pc \notin {"create", "flood", "report"}
               /\ UNCHANGED <<target, report>>
  <2>1. CASE Abort(r)
    BY <2>1 DEF Abort, Finish, Idle
  <2>2. CASE Effect(r)
    <3>1. PICK flag : Put(r, [request[r] EXCEPT !.pc = "commit", !.flag = flag])
      BY <2>2 DEF Effect
    <3>2. request[r] \in RequestType
      BY DEF IInv, TypeOK
    <3>3. [request[r] EXCEPT !.pc = "commit", !.flag = flag].pc = "commit"
      BY <3>2, RequestFields
    <3> QED
      BY <2>2, <3>1, <3>3 DEF Effect
  <2>3. ASSUME NEW t \in Targets, LookRemove(r, t)
        PROVE  /\ Put(r, [Idle EXCEPT !.pc = "remove", !.u = target[t].by, !.on = t])
               /\ [Idle EXCEPT !.pc = "remove", !.u = target[t].by, !.on = t].pc = "remove"
               /\ UNCHANGED <<target, report>>
    BY <2>3 DEF LookRemove, Start, Idle
  <2>4. ASSUME NEW u, NEW x, NEW act, NEW todo, Judge(r, u, x, act, todo)
        PROVE  \E q : Put(r, q) /\ q.pc = "verdict"
    BY <2>4 DEF Judge
  <2>5. ASSUME NEW x \in Reports, NextOfBulk(r, x)
        PROVE  /\ \E q : Put(r, q) /\ q.pc \in {"verdict", "bulk"}
               /\ UNCHANGED <<target, report>>
    <3>1. CASE \E u, act, todo : Judge(r, u, x, act, todo)
      BY <2>4, <2>5, <3>1 DEF NextOfBulk
    <3>2. CASE Put(r, [request[r] EXCEPT !.todo = @ \ {x}])
      <4>1. request[r] \in RequestType /\ request[r].pc = "bulk"
        BY <2>5 DEF NextOfBulk, IInv, TypeOK
      <4>2. [request[r] EXCEPT !.todo = @ \ {x}].pc = "bulk"
        BY <4>1, RequestFields
      <4> QED
        BY <2>5, <3>2, <4>2 DEF NextOfBulk
    <3> QED
      BY <2>5, <3>1, <3>2 DEF NextOfBulk
  <2>6. ASSUME NEW u \in Members, NEW act \in Actions, NEW x \in Reports, LookVerdict(r, u, x, act)
        PROVE  (\E q : Put(r, q) /\ q.pc = "verdict") /\ UNCHANGED <<target, report>>
    BY <2>4, <2>6 DEF LookVerdict
  <2>7. ASSUME NEW u \in Members, NEW act \in Actions, NEW xs \in SUBSET Reports, StartBulk(r, u, xs, act)
        PROVE  (\E q : Put(r, q) /\ q.pc = "bulk") /\ UNCHANGED <<target, report>>
    BY <2>7 DEF StartBulk, Start
  <2> QED
    BY <2>1, <2>2, <2>3, <2>5, <2>6, <2>7
<1>2. \A s \in Requests : request'[s].pc \in {"create", "flood", "report"} => request'[s] = request[s]
  BY <1>1 DEF Put, IInv, TypeOK
<1> QED
  BY <1>1, <1>2, ElsewhereGates

LEMMA GatesNext == IInv /\ GatesInv /\ [Next]_vars => GatesInv'
<1> SUFFICES ASSUME IInv, GatesInv, [Next]_vars PROVE GatesInv'
  OBVIOUS
<1>1. CASE UNCHANGED <<target, report, request>>
  BY <1>1, ElsewhereGates
<1>2. ASSUME NEW r \in Requests, Publish(r) PROVE GatesInv'
  BY <1>2, LookCreateGates, CreateGates DEF Publish, Kinds
<1>3. ASSUME NEW r \in Requests, Complain(r) PROVE GatesInv'
  BY <1>3, LookReportGates, CountReportsGates, CreateReportGates DEF Complain
<1>4. ASSUME NEW r \in Requests, Decide(r) \/ Delete(r) \/ Abort(r) PROVE GatesInv'
  BY <1>4, RestGates, CommitGates, RemoveGates DEF Decide, Delete
<1>5. ASSUME NEW u \in Members, NEW room \in Rooms,
             Revoke(u, room) \/ \E role \in {"MODERATOR", "MEMBER"} : Grant(u, room, role)
      PROVE  GatesInv'
  BY <1>1, <1>5 DEF Revoke, Grant
<1> QED
  BY <1>1, <1>2, <1>3, <1>4, <1>5, AgeTargetGates, AgeReportGates DEF Next, vars

\* However many requests overlap, a gate lets through one more duplicate for each
\* beyond its threshold, of those for which it saw all recent rows; and a reporter
\* has no more open reports of a target than there are requests
\* (auto-moderation.service.ts, createReport of report.service.ts).
THEOREM GatesCorrect == Spec => []GatesHold
<1>1. IInv /\ GatesInv => GatesHold
  <2> SUFFICES ASSUME GatesInv PROVE GatesHold
    OBVIOUS
  <2>1. ASSUME NEW rows, IsFiniteSet(rows), NEW coming \in SUBSET Requests, NEW n \in Int, Within(rows, coming, n)
        PROVE  Cardinality(rows) <= n
    <3>1. Cardinality(rows) \in Nat /\ Cardinality(coming) \in Nat
      BY <2>1, Bounds, FS_Subset, FS_CardinalityType
    <3> QED
      BY <2>1, <3>1 DEF Within
  <2>2. ASSUME NEW u \in Members, NEW body \in Bodies, NEW kind \in {"POST", "DM"} \cap Kept,
               kind = "POST" => u \notin Planners /\ Enforce
        PROVE  Cardinality(Through(kind, u, body)) <= Most(kind)
    <3>1. Within(Through(kind, u, body), Coming(kind, u, body), Most(kind)) /\ Most(kind) \in Int
      BY <2>2, Bounds DEF GatesInv, PostsGated, Gated
    <3> QED
      BY <2>1, <3>1, GateSets
  <2>3. ASSUME NEW u \in Members \ Planners, "REPORT" \in Kept /\ Enforce
        PROVE  Cardinality(Passed(u)) <= Most("REPORT")
    <3>1. Within(Passed(u), Filing(u), Most("REPORT")) /\ Most("REPORT") \in Int
      BY <2>3, Bounds DEF GatesInv, ReportsGated, Gated
    <3> QED
      BY <2>1, <3>1, GateSets
  <2>4. ASSUME NEW u \in Members, NEW t \in Targets
        PROVE  Cardinality(OpenBy(u, t)) <= Cardinality(Requests)
    <3>1. Within(OpenBy(u, t), Asking(u, t), Cardinality(Requests)) /\ Cardinality(Requests) \in Int
      BY Bounds DEF GatesInv, OneAtATime
    <3> QED
      BY <2>1, <3>1, GateSets
  <2> QED
    BY <2>2, <2>3, <2>4 DEF GatesHold, Through, Passed, Most
<1> QED
  BY <1>1, Invariance, GatesInit, GatesNext, PTL DEF Spec
=============================================================================
