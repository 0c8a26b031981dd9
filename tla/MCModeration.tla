---------------------------- MODULE MCModeration ----------------------------
(* Moderation in settings, one of which is chosen at the start.  "posts" and    *)
(* "messages": a member who is not staff writes some.  "flood": that member     *)
(* reports what is there already.  "verdicts": the owner of a room judges two   *)
(* open reports of a post one by one and staff in a batch, while its author     *)
(* deletes it.  "rooms": members of every standing judge reports in two rooms   *)
(* and of a message, while the owner of one room appoints a moderator.          *)
EXTENDS Moderation, TLC

CONSTANTS ann, bob, sam, A, B, t1, t2, t3, t4, x1, x2, x3

VARIABLE setting

MCMembers == {ann, bob, sam}
MCStaff == {sam}
MCRooms == {A, B}
MCOwner == [room \in MCRooms |-> IF room = A THEN ann ELSE sam]
MCParties == {ann, bob}
MCTargets == {t1, t2, t3, t4}
MCReports == {x1, x2, x3}
MCThreshold == [kind \in {"POST", "DM", "REPORT"} |-> 1]

Old(kind, room, status) ==
  [kind |-> kind, room |-> room, by |-> ann, body |-> CHOOSE b \in Bodies : TRUE,
   recent |-> FALSE, status |-> status, auto |-> status = "HIDDEN", sawAll |-> TRUE]
Open(u, t) ==
  [by |-> u, on |-> t, recent |-> FALSE, auto |-> FALSE, resolver |-> None, status |-> "OPEN", resolution |-> None]

NoReports == [x \in Reports |-> NoReport]

MCInit ==
  /\ setting \in {"posts", "messages", "flood", "verdicts", "rooms"}
  /\ target = IF setting \in {"posts", "messages"} THEN [t \in Targets |-> NoTarget]
              ELSE (t1 :> Old("POST", A, "HIDDEN") @@ t2 :> Old("REPLY", B, "VISIBLE") @@ t3 :> Old("DM", None, "VISIBLE") @@ t4 :> NoTarget)
  /\ report = CASE setting = "verdicts" -> (x1 :> Open(bob, t1) @@ x2 :> Open(sam, t1) @@ NoReports)
                [] setting = "rooms" -> (x1 :> Open(bob, t1) @@ x2 :> Open(bob, t2) @@ x3 :> Open(bob, t3))
                [] OTHER -> NoReports
  /\ verdict = [x \in Reports |-> <<>>]
  /\ told = [x \in Reports |-> 0]
  /\ roster = [room \in Rooms |-> [u \in Members |-> NoRole]]
  /\ request = [r \in Requests |-> Idle]

\* uuids are taken in a fixed order, for one is as good as another.
NewTargets == LET Free == {i \in 1..4 : ~Exists(<<t1, t2, t3, t4>>[i])} IN
              {<<t1, t2, t3, t4>>[i] : i \in {i \in Free : \A j \in Free : i <= j}}
NewReports == LET Free == {i \in 1..3 : ~Filed(<<x1, x2, x3>>[i])} IN
              {<<x1, x2, x3>>[i] : i \in {i \in Free : \A j \in Free : i <= j}}

Spam ==
  /\ \/ /\ setting \in {"posts", "messages"}
        /\ \/ \E r \in Requests, t \in NewTargets : Create(r, t)
           \/ \E t \in Targets : AgeTarget(t)
     \/ \E r \in Requests, body \in Bodies :
          \/ setting = "posts" /\ \E kind \in {"POST", "REPLY"} : LookCreate(r, kind, bob, A, body)
          \/ setting = "messages" /\ LookCreate(r, "DM", bob, None, body)

Flood ==
  /\ setting = "flood"
  /\ \/ \E r \in Requests : \/ CountReports(r)
                            \/ \E x \in NewReports : CreateReport(r, x)
                            \/ \E t \in {t1, t3} : LookReport(r, bob, t)
     \/ \E x \in Reports : AgeReport(x)

Judging(r) ==
  /\ setting = "verdicts"
  /\ \/ \E x \in {x1, x2}, act \in Actions : LookVerdict(r, ann, x, act)
     \/ \E act \in Actions : StartBulk(r, sam, {x1, x2}, act)
     \/ \E x \in {x1, x2} : NextOfBulk(r, x)
     \/ LookRemove(r, t1) \/ Remove(r)
     \/ Effect(r) \/ Commit(r)

Appointing ==
  /\ setting = "rooms"
  /\ \/ \E r \in Requests, u \in Members, x \in Reports : LookVerdict(r, u, x, "DISMISS")
     \/ \E r \in Requests : Effect(r) \/ Commit(r)
     \/ \E role \in {"MODERATOR", "MEMBER"} : Grant(bob, A, role)
     \/ Revoke(bob, A)

MCNext ==
  /\ Spam \/ Flood \/ Appointing \/ \E r \in Requests : Judging(r) \/ Abort(r)
  /\ UNCHANGED setting

MCSpec == MCInit /\ [][MCNext]_<<vars, setting>>

Symmetric == Permutations(Requests)
=============================================================================
