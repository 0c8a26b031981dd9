----------------------------- MODULE Moderation -----------------------------
(* Posts, replies and messages from the gate that may hide them at birth to   *)
(* the verdicts that hide and restore them: reports with their flood gate,    *)
(* the moderators a room's owner appoints, single and bulk verdicts, and the  *)
(* author's deletion.  Every handler looks before it writes, and what it saw  *)
(* may be stale when it does.  A verdict is one transaction of two statements *)
(* that matter: the first settles the target and keeps its row locked if it   *)
(* changes it, the last settles the report, and both show at the commit.      *)
EXTENDS Integers, FiniteSets, Sequences

CONSTANTS Members, Staff,  \* global MODERATOR and ADMIN are staff
          Planners,        \* members syncTierFor calls PLANNER: staff, curators, planners
          Rooms, Owner,    \* Owner[room] is rooms.owner_id
          Parties,         \* the two parties of the one DM channel
          Targets, Reports,\* uuids of posts, replies and messages, and of reports
          Bodies,          \* bodies, told apart by their normalised hash
          Requests,
          Kept,            \* rules that are on, of POST, DM and REPORT
          Threshold,       \* their thresholds
          Take,            \* how many recent rows a duplicate is looked for among
          Enforce,         \* AUTO_MODERATION_ENFORCE
          None             \* null

ASSUME ModerationAssumption ==
  /\ Staff \subseteq Planners /\ Planners \subseteq Members /\ Parties \subseteq Members
  /\ Owner \in [Rooms -> Members]
  /\ IsFiniteSet(Targets) /\ IsFiniteSet(Reports)
  /\ IsFiniteSet(Requests) /\ Requests # {}
  /\ Kept \subseteq {"POST", "DM", "REPORT"}
  /\ Threshold \in [{"POST", "DM", "REPORT"} -> Nat] /\ Take \in Nat
  /\ Enforce \in BOOLEAN
  /\ None \notin Members \cup Rooms \cup Targets \cup Reports \cup Bodies
  /\ None \notin {"HIDE", "RESTORE", "DISMISS", "POST", "REPLY", "DM", "OPEN", "RESOLVED", "MODERATOR", "MEMBER"}

VARIABLES target,  \* posts, replies and dm_messages
          report,  \* reports
          verdict, \* moderation_actions of each report, in the order of their commits
          told,    \* REPORT_RESOLVED notices of each report
          roster,  \* room_roles
          request  \* the requests in flight

vars == <<target, report, verdict, told, roster, request>>

Idle == [pc |-> "idle", u |-> None, on |-> None, act |-> None, flag |-> FALSE, todo |-> {}]
NoTarget == [kind |-> None]
NoReport == [status |-> None]
NoRole == [role |-> None, revoked |-> FALSE]
Exists(t) == target[t] # NoTarget
Filed(x) == report[x] # NoReport

Init ==
  /\ target = [t \in Targets |-> NoTarget]
  /\ report = [x \in Reports |-> NoReport]
  /\ verdict = [x \in Reports |-> <<>>]
  /\ told = [x \in Reports |-> 0]
  /\ roster = [room \in Rooms |-> [u \in Members |-> NoRole]]
  /\ request = [r \in Requests |-> Idle]

Put(r, q) == request' = [request EXCEPT ![r] = q]
Finish(r) == Put(r, Idle)
Start(r, q) ==
  /\ request[r] = Idle
  /\ Put(r, q)
  /\ UNCHANGED <<target, report, verdict, told, roster>>

-----------------------------------------------------------------------------
(* The gates *)

\* Faulty variant of Caught: a first duplicate too many.
CaughtLate(kind, u, n) ==
  /\ kind \in Kept
  /\ n > Threshold[kind]
  /\ kind # "DM" => u \notin Planners /\ Enforce

\* The PLANNER tier bypasses the gates of posts and reports, which only take note
\* unless they are enforced; the gate of messages is for everyone, always.
Caught(kind, u, n) ==
  /\ kind \in Kept
  /\ n >= Threshold[kind]
  /\ kind # "DM" => u \notin Planners /\ Enforce

Recent(kind, u) == {t \in Targets : Exists(t) /\ target[t].kind = kind /\ target[t].by = u /\ target[t].recent}
Alike(kind, u, body) == {t \in Recent(kind, u) : target[t].body = body}
AtMost(n, S) == IF Cardinality(S) <= n THEN {S} ELSE {R \in SUBSET S : Cardinality(R) = n}

\* evaluatePostBeforeCreate and evaluateDmMessageBeforeCreate look among Take of
\* the recent rows, in no order; sawAll is history: these were all.  Replies pass
\* no gate.
LookCreate(r, kind, u, room, body) ==
  /\ room # None <=> kind # "DM"
  /\ kind = "DM" => u \in Parties
  /\ \E scanned \in AtMost(Take, Recent(kind, u)) :
       Start(r, [pc |-> "create", u |-> u, on |-> body, todo |-> {},
                 act |-> <<kind, room, scanned = Recent(kind, u)>>,
                 flag |-> kind # "REPLY" /\ Caught(kind, u, Cardinality(scanned \cap Alike(kind, u, body)))])

Create(r, t) ==
  LET q == request[r] IN
  /\ q.pc = "create" /\ ~Exists(t)
  /\ target' = [target EXCEPT ![t] =
       [kind |-> q.act[1], room |-> q.act[2], by |-> q.u, body |-> q.on, recent |-> TRUE,
        status |-> IF q.flag THEN "HIDDEN" ELSE "VISIBLE", auto |-> q.flag, sawAll |-> q.act[3]]]
  /\ Finish(r)
  /\ UNCHANGED <<report, verdict, told, roster>>

OpenBy(u, t) == {x \in Reports : Filed(x) /\ report[x].by = u /\ report[x].on = t /\ report[x].status = "OPEN"}
RecentBy(u) == {x \in Reports : Filed(x) /\ report[x].by = u /\ report[x].recent}

\* createReport: the target exists, a message only for the parties of its channel,
\* and the reporter has no open report of it ...
LookReport(r, u, t) ==
  /\ Exists(t)
  /\ target[t].kind = "DM" => u \in Parties
  /\ OpenBy(u, t) = {}
  /\ Start(r, [Idle EXCEPT !.pc = "flood", !.u = u, !.on = t])

\* ... then the flood gate counts the reporter's recent reports, of anything ...
CountReports(r) ==
  /\ request[r].pc = "flood"
  /\ Put(r, [request[r] EXCEPT !.pc = "report",
                               !.flag = Caught("REPORT", request[r].u, Cardinality(RecentBy(request[r].u)))])
  /\ UNCHANGED <<target, report, verdict, told, roster>>

\* ... and then there is a report, resolved at once if it was caught.
CreateReport(r, x) ==
  LET q == request[r] IN
  /\ q.pc = "report" /\ ~Filed(x)
  /\ report' = [report EXCEPT ![x] =
       [by |-> q.u, on |-> q.on, recent |-> TRUE, auto |-> q.flag, resolver |-> None,
        status |-> IF q.flag THEN "RESOLVED" ELSE "OPEN",
        resolution |-> IF q.flag THEN "DISMISS" ELSE None]]
  /\ Finish(r)
  /\ UNCHANGED <<target, verdict, told, roster>>

\* A row leaves the window of its gate.
AgeTarget(t) ==
  /\ Exists(t) /\ target[t].recent
  /\ target' = [target EXCEPT ![t] = [@ EXCEPT !.recent = FALSE]]
  /\ UNCHANGED <<report, verdict, told, roster, request>>

AgeReport(x) ==
  /\ Filed(x) /\ report[x].recent
  /\ report' = [report EXCEPT ![x] = [@ EXCEPT !.recent = FALSE]]
  /\ UNCHANGED <<target, verdict, told, roster, request>>

-----------------------------------------------------------------------------
(* Room roles *)

\* grant and revoke, by the owner alone.
Grant(u, room, role) ==
  /\ u # Owner[room]
  /\ roster' = [roster EXCEPT ![room][u] = [role |-> role, revoked |-> FALSE]]
  /\ UNCHANGED <<target, report, verdict, told, request>>

Revoke(u, room) ==
  /\ roster[room][u] # NoRole /\ ~roster[room][u].revoked
  /\ roster' = [roster EXCEPT ![room][u].revoked = TRUE]
  /\ UNCHANGED <<target, report, verdict, told, request>>

ModeratesRoom(u, room) ==
  \/ u \in Staff
  \/ u = Owner[room]
  \/ roster[room][u] = [role |-> "MODERATOR", revoked |-> FALSE]

\* canModerateReport: the room is the target's own; a message has none.
MayModerate(u, t) == u \in Staff \/ (target[t].room # None /\ ModeratesRoom(u, target[t].room))

-----------------------------------------------------------------------------
(* Verdicts *)

Actions == {"HIDE", "RESTORE", "DISMISS"}

Judge(r, u, x, act, todo) ==
  Put(r, [pc |-> "verdict", u |-> u, on |-> x, act |-> act, flag |-> FALSE, todo |-> todo])

\* resolve, the checks.
LookVerdict(r, u, x, act) ==
  /\ request[r] = Idle
  /\ Filed(x) /\ MayModerate(u, report[x].on)
  /\ report[x].status = "OPEN"
  /\ Judge(r, u, x, act, {})
  /\ UNCHANGED <<target, report, verdict, told, roster>>

\* bulkResolve, by staff alone, of some reports one after the other ...
StartBulk(r, u, xs, act) ==
  /\ u \in Staff /\ xs # {}
  /\ Start(r, [pc |-> "bulk", u |-> u, on |-> None, act |-> act, flag |-> FALSE, todo |-> xs])

\* ... where those that are resolved meanwhile are skipped.
NextOfBulk(r, x) ==
  LET q == request[r] IN
  /\ q.pc = "bulk" /\ x \in q.todo
  /\ IF Filed(x) /\ report[x].status = "OPEN"
     THEN Judge(r, q.u, x, q.act, q.todo \ {x})
     ELSE Put(r, [q EXCEPT !.todo = @ \ {x}])
  /\ UNCHANGED <<target, report, verdict, told, roster>>

Locked(t) == \E r \in Requests : request[r].pc = "commit" /\ request[r].flag /\ report[request[r].on].on = t

\* Faulty variant of Hits: RESTORE does not look at the status.
HitsAny(act, t) == act \in {"HIDE", "RESTORE"}

\* Faulty variant of Hits: what is not HIDE restores.
HitsElse(act, t) == act = "HIDE" \/ target[t].status = "HIDDEN"

\* HIDE finds the target whatever its status is, RESTORE only when it is hidden.
Hits(act, t) == act = "HIDE" \/ (act = "RESTORE" /\ target[t].status = "HIDDEN")

\* The first statement: a row that is to change must not be locked.
Effect(r) ==
  LET q == request[r] IN LET t == report[q.on].on IN
  /\ q.pc = "verdict"
  /\ q.act # "DISMISS" => ~Locked(t)
  /\ Put(r, [q EXCEPT !.pc = "commit", !.flag = Hits(q.act, t)])
  /\ UNCHANGED <<target, report, verdict, told, roster>>

\* Faulty variant of Continue: the batch forgets to reset its locals.
ContinueAsIs(r) == IF request[r].todo = {} THEN Finish(r) ELSE Put(r, [request[r] EXCEPT !.pc = "bulk"])

\* What is left of a bulk verdict after one report.
Continue(r) ==
  IF request[r].todo = {} THEN Finish(r)
  ELSE Put(r, [request[r] EXCEPT !.pc = "bulk", !.on = None, !.flag = FALSE])

\* Faulty variant of Commit: the report of another verdict is not overwritten.
CommitFirst(r) ==
  LET q == request[r] IN LET x == q.on IN
  /\ q.pc = "commit"
  /\ IF q.flag
     THEN target' = [target EXCEPT ![report[x].on] =
                       [@ EXCEPT !.status = IF q.act = "HIDE" THEN "HIDDEN" ELSE "VISIBLE"]]
     ELSE UNCHANGED target
  /\ verdict' = [verdict EXCEPT ![x] = Append(@, [by |-> q.u, act |-> q.act])]
  /\ report' = IF report[x].status = "RESOLVED" THEN report
               ELSE [report EXCEPT ![x] = [@ EXCEPT !.status = "RESOLVED", !.resolution = q.act, !.resolver = q.u]]
  /\ told' = IF report[x].by # q.u THEN [told EXCEPT ![x] = @ + 1] ELSE told
  /\ Continue(r)
  /\ UNCHANGED roster

Commit(r) ==
  LET q == request[r] IN LET x == q.on IN
  /\ q.pc = "commit"
  /\ IF q.flag
     THEN target' = [target EXCEPT ![report[x].on] =
                       [@ EXCEPT !.status = IF q.act = "HIDE" THEN "HIDDEN" ELSE "VISIBLE"]]
     ELSE UNCHANGED target
  /\ verdict' = [verdict EXCEPT ![x] = Append(@, [by |-> q.u, act |-> q.act])]
  /\ report' = [report EXCEPT ![x] = [@ EXCEPT !.status = "RESOLVED", !.resolution = q.act, !.resolver = q.u]]
  /\ told' = IF report[x].by # q.u THEN [told EXCEPT ![x] = @ + 1] ELSE told
  /\ Continue(r)
  /\ UNCHANGED roster

-----------------------------------------------------------------------------
(* The author deletes a post or a reply *)

LookRemove(r, t) ==
  /\ Exists(t) /\ target[t].kind # "DM" /\ target[t].status # "DELETED"
  /\ Start(r, [Idle EXCEPT !.pc = "remove", !.u = target[t].by, !.on = t])

Remove(r) ==
  LET t == request[r].on IN
  /\ request[r].pc = "remove" /\ ~Locked(t)
  /\ target' = [target EXCEPT ![t] = [@ EXCEPT !.status = "DELETED"]]
  /\ Finish(r)
  /\ UNCHANGED <<report, verdict, told, roster>>

\* A later check refuses, the batch is done, or the process dies.
Abort(r) ==
  /\ request[r] # Idle
  /\ Finish(r)
  /\ UNCHANGED <<target, report, verdict, told, roster>>

Publish(r) ==
  \/ \E kind \in {"POST", "REPLY", "DM"}, u \in Members, room \in Rooms \cup {None}, body \in Bodies :
       LookCreate(r, kind, u, room, body)
  \/ \E t \in Targets : Create(r, t)

Complain(r) ==
  \/ \E u \in Members, t \in Targets : LookReport(r, u, t)
  \/ CountReports(r)
  \/ \E x \in Reports : CreateReport(r, x)

Decide(r) ==
  \/ \E u \in Members, act \in Actions : \/ \E x \in Reports : LookVerdict(r, u, x, act)
                                          \/ \E xs \in SUBSET Reports : StartBulk(r, u, xs, act)
  \/ \E x \in Reports : NextOfBulk(r, x)
  \/ Effect(r) \/ Commit(r)

Delete(r) == Remove(r) \/ \E t \in Targets : LookRemove(r, t)

Next ==
  \/ \E r \in Requests : Publish(r) \/ Complain(r) \/ Decide(r) \/ Delete(r) \/ Abort(r)
  \/ \E t \in Targets : AgeTarget(t)
  \/ \E x \in Reports : AgeReport(x)
  \/ \E u \in Members, room \in Rooms : Revoke(u, room) \/ \E role \in {"MODERATOR", "MEMBER"} : Grant(u, room, role)

Spec == Init /\ [][Next]_vars

-----------------------------------------------------------------------------
Kinds == {"POST", "REPLY", "DM"}
Statuses == {"VISIBLE", "HIDDEN", "DELETED"}
TargetType ==
  {NoTarget} \cup
  [kind : Kinds, room : Rooms \cup {None}, by : Members, body : Bodies, recent : BOOLEAN,
   status : Statuses, auto : BOOLEAN, sawAll : BOOLEAN]
ReportType ==
  {NoReport} \cup
  [by : Members, on : Targets, recent : BOOLEAN, auto : BOOLEAN, resolver : Members \cup {None},
   status : {"OPEN", "RESOLVED"}, resolution : Actions \cup {None}]
RequestType ==
  {Idle} \cup
  [pc : {"create"}, u : Members, on : Bodies, act : Kinds \X (Rooms \cup {None}) \X BOOLEAN, flag : BOOLEAN, todo : {{}}] \cup
  [pc : {"flood", "report", "remove"}, u : Members, on : Targets, act : {None}, flag : BOOLEAN, todo : {{}}] \cup
  [pc : {"bulk"}, u : Staff, on : {None}, act : Actions, flag : {FALSE}, todo : SUBSET Reports] \cup
  [pc : {"verdict", "commit"}, u : Members, on : Reports, act : Actions, flag : BOOLEAN, todo : SUBSET Reports]

\* Every row and every local of a request has its type, and what is reported or
\* about to be judged or deleted exists.
TypeOK ==
  /\ target \in [Targets -> TargetType]
  /\ report \in [Reports -> ReportType]
  /\ verdict \in [Reports -> Seq([by : Members, act : Actions])]
  /\ told \in [Reports -> Nat]
  /\ roster \in [Rooms -> [Members -> [role : {"MODERATOR", "MEMBER", None}, revoked : BOOLEAN]]]
  /\ request \in [Requests -> RequestType]
  /\ \A x \in Reports : Filed(x) => Exists(report[x].on)
  /\ \A r \in Requests : /\ request[r].pc \in {"verdict", "commit"} => Filed(request[r].on)
                         /\ request[r].pc \in {"flood", "report", "remove"} => Exists(request[r].on)

\* The tables a verdict writes tell one story, though two moderators may judge a
\* report at once and a batch may run over both: a report is resolved when it was
\* caught by the flood gate or has a verdict, never both; what it says is the last
\* verdict, and there are no more verdicts than requests that overlapped.  And
\* whoever judged it is staff, owns the room its target is in, or has been given a
\* role in that very room; a message is judged by staff alone.
VerdictsAgree ==
  \A x \in Reports : Filed(x) =>
    LET n == Len(verdict[x]) IN
    LET room == target[report[x].on].room IN
    /\ n <= Cardinality(Requests)
    /\ report[x].auto => n = 0
    /\ report[x].status = "RESOLVED" <=> report[x].auto \/ n > 0
    /\ n > 0 => [by |-> report[x].resolver, act |-> report[x].resolution] = verdict[x][n]
    /\ told[x] = Cardinality({i \in 1..n : verdict[x][i].by # report[x].by})
    /\ \A i \in 1..n : LET u == verdict[x][i].by IN
         u \in Staff \/ (room # None /\ (u = Owner[room] \/ roster[room][u] # NoRole))

Verdict(t, act) == \E x \in Reports : Filed(x) /\ report[x].on = t /\ \E i \in DOMAIN verdict[x] : verdict[x][i].act = act

\* What is hidden was caught by a gate or has a HIDE verdict, and what was hidden
\* and shows has a RESTORE verdict, whatever verdicts and deletions overlapped.
HiddenForCause ==
  \A t \in Targets : Exists(t) =>
    /\ target[t].status = "HIDDEN" => target[t].auto \/ Verdict(t, "HIDE")
    /\ target[t].status = "VISIBLE" /\ (target[t].auto \/ Verdict(t, "HIDE")) => Verdict(t, "RESTORE")

\* No verdict brings what its author deleted straight back: a RESTORE that was
\* under way when the deletion committed does not find it.
DeletedStaysDown ==
  [][\A t \in Targets : Exists(t) /\ target[t].status = "DELETED" => target'[t].status # "VISIBLE"]_vars

\* A gate lets through at most one duplicate for each request that overlaps beyond
\* its threshold: of recent posts and messages of one body, of those for which it
\* looked among all recent rows, and of recent reports.  A reporter has at most
\* one open report of a target for each request that overlaps, for the check for
\* one and its insert are two statements.
GatesHold ==
  LET Slack(kind) == Threshold[kind] + Cardinality(Requests) - 1 IN
  /\ \A u \in Members, body \in Bodies, kind \in {"POST", "DM"} \cap Kept :
       (kind = "POST" => u \notin Planners /\ Enforce) =>
         Cardinality({t \in Alike(kind, u, body) : ~target[t].auto /\ target[t].sawAll}) <= Slack(kind)
  /\ \A u \in Members \ Planners :
       "REPORT" \in Kept /\ Enforce => Cardinality({x \in RecentBy(u) : ~report[x].auto}) <= Slack("REPORT")
  /\ \A u \in Members, t \in Targets : Cardinality(OpenBy(u, t)) <= Cardinality(Requests)
=============================================================================
