------------------------------ MODULE MCSocial ------------------------------
(* Social with its readers and with what is computed from it, in settings, one *)
(* of which is chosen at the start.  "ties": two members toggle their follows  *)
(* of each other and of a room and block each other.  "posts": a member posts  *)
(* with mentions and a quote, and deletes, while a follower blocks them.       *)
(* "walk" and "inbox": three posts and three notices are there, and rows are   *)
(* hidden and come back, and one more comes, while a member turns the pages.   *)
(* "audit": the same with the audit log, to which rows are added.  "places":   *)
(* posts with an event card, one in a dormant room, are hidden and come back   *)
(* while digests are made and a member follows.  "signals": two refreshes.     *)
(* "nights" and "hubs": the nightly runs, while follows end and contributions  *)
(* are approved.  "weeks": the weekly digests, on Sundays and by hand, while   *)
(* time passes; RestSpec has nothing but the Sundays.                          *)
EXTENDS Feeds, TLC

CONSTANTS ann, bob, pia, A, B, C, p1, p2, p3, p4, x, y, k1, k2, e

VARIABLE setting

MCMembers == {ann, bob, pia}
MCHubOf == A :> x @@ B :> y @@ C :> x
MCOwner == A :> None @@ B :> None @@ C :> ann
MCBlockOf == k1 :> x @@ k2 :> y
MCPinned == {<<B, e>>, <<C, e>>}
MCLinked == {<<x, e>>, <<y, e>>}
MCCardOf == p1 :> e @@ p2 :> e @@ p3 :> e @@ p4 :> None
MCHubs == {x, y}

Row(room, at, type, by) == [room |-> room, by |-> by, type |-> type, quotes |-> None, status |-> "VISIBLE", gone |-> FALSE, at |-> at]
Told(p, u) == [kind |-> "NEWS", post |-> p, actor |-> u]

MCInit ==
  /\ setting \in {"ties", "posts", "walk", "inbox", "audit", "places", "signals", "nights", "hubs", "weeks"}
  /\ follow = CASE setting = "posts" -> {<<bob, A>>}
                [] setting = "weeks" -> {<<bob, A>>, <<pia, B>>}
                [] setting = "nights" -> {<<ann, A>>, <<bob, A>>, <<pia, A>>}
                [] setting = "places" -> {<<bob, C>>}
                [] OTHER -> {}
  /\ block = {} /\ mute = {} /\ mention = {}
  /\ post = IF setting \in {"ties", "posts", "audit", "nights", "hubs"} THEN [p \in Posts |-> NoPost]
            ELSE IF setting = "places" THEN
                 (p1 :> Row(A, 0, "GENERAL", ann) @@ p2 :> Row(C, 1, "GENERAL", ann)
                  @@ p3 :> [Row(B, 2, "GENERAL", pia) EXCEPT !.quotes = p1] @@ p4 :> NoPost)
            ELSE (p1 :> Row(A, 0, "GENERAL", ann) @@ p2 :> Row(IF setting = "weeks" THEN B ELSE A, 1, "RECRUITMENT", IF setting = "inbox" THEN pia ELSE ann)
                  @@ p3 :> Row(A, 2, "GENERAL", ann) @@ p4 :> NoPost)
  /\ notice = [u \in Members |->
       IF setting = "inbox" /\ u = bob THEN <<Told(p1, ann), Told(p2, pia), Told(p3, ann)>> ELSE <<>>]
  /\ request = [r \in Requests |-> Idle]
  /\ walk = NoWalk
  /\ audit = IF setting = "audit" THEN <<"ANALYTICS", "MODERATION">> ELSE <<>>
  /\ expert = [h \in Hubs |-> IF setting = "hubs" /\ h = x THEN {ann} ELSE {}]
  /\ signal = [h \in Hubs |-> [t \in SignalTypes |-> 0]]
  /\ digest = [h \in Hubs |-> {}]
  /\ recommended = [u \in Members |-> {}]
  /\ similar = [h \in Hubs |-> {}]
  /\ stamp = [u \in Readers |-> Cooldown + 1] /\ last = stamp
  /\ early = [u \in Readers |-> 0]
  /\ sunday = Week
  /\ job = [j \in Jobs |-> NoJob]
  /\ failures = 0

\* uuids are taken in a fixed order, for one is as good as another.
NewPosts == LET Free == {i \in 1..4 : ~Exists(<<p1, p2, p3, p4>>[i])} IN
            {<<p1, p2, p3, p4>>[i] : i \in {i \in Free : \A k \in Free : i <= k}}

Ties ==
  /\ setting = "ties"
  /\ \/ \E r \in Requests : \/ \E u, v \in {ann, bob} : CheckFollow(r, u, v) \/ Block(r, u, v)
                            \/ CheckRoom(r, ann, A)
                            \/ ReadFollow(r) \/ Follow(r) \/ Unfollow(r) \/ ClearFollows(r)
     \/ \E u, v \in {ann, bob} : Unblock(u, v)

Posting(r) ==
  \/ \E room \in Rooms, quotes \in {None, p1} :
       /\ ~Exists(p2)
       /\ LookPost(r, IF room = A THEN ann ELSE pia,
                   [room |-> room, type |-> IF room = A THEN "GENERAL" ELSE "RECRUITMENT", quotes |-> quotes, names |-> {ann, bob}])
  \/ \E p \in NewPosts \cap {p1, p2}, status \in {"VISIBLE", "HIDDEN"} : InsertPost(r, p, status)
  \/ Announce(r) \/ Detach(r) \/ InsertMentions(r) \/ NotifyMentioned(r)
  \/ \E f \in Members : Tell(r, f)
  \/ LookDelete(r, ann, p1) \/ Delete(r) \/ ClearMentions(r)
  \/ Block(r, bob, ann) \/ Fail(r)

Posts2 == setting = "posts" /\ \/ \E r \in Requests : Posting(r)
                               \/ Moderate(p1)

Rows ==
  \/ /\ setting = "walk"
     /\ \/ \E p \in Posts : Moderate(p)
        \/ \E r \in {CHOOSE r \in Requests : TRUE} :
             \/ LookPost(r, ann, [room |-> A, type |-> "GENERAL", quotes |-> None, names |-> {}])
             \/ InsertPost(r, p4, "VISIBLE") \/ LookDelete(r, ann, p2) \/ Delete(r)
  \/ /\ setting = "inbox"
     /\ \/ Mute(bob, ann) \/ Unmute(bob, ann) \/ Mute(bob, pia)
        \/ \E r \in {CHOOSE r \in Requests : TRUE} :
             \/ LookPost(r, ann, [room |-> A, type |-> "GENERAL", quotes |-> None, names |-> {bob}])
             \/ InsertPost(r, p4, "VISIBLE") \/ Announce(r) \/ Detach(r) \/ InsertMentions(r) \/ NotifyMentioned(r)

Placing ==
  /\ setting = "places"
  /\ \/ \E p \in {p1, p2, p3} : Moderate(p)
     \/ \E r \in {CHOOSE r \in Requests : TRUE} :
          CheckRoom(r, bob, A) \/ ReadFollow(r) \/ Follow(r) \/ Unfollow(r) \/ LookDelete(r, ann, p1) \/ Delete(r)

Walking ==
  /\ \/ setting = "walk" /\ \E v \in {bob, pia} : BeginWalk("timeline", v, A) \/ BeginWalk("activity", v, ann)
     \/ setting = "inbox" /\ BeginWalk("inbox", bob, None)
     \/ setting = "audit" /\ BeginWalk("audit", pia, None)
     \/ NextPage \/ NextPageOfInbox \/ NextPageOfAudit
     \/ setting = "audit" /\ Len(audit) < 5 /\ Len(walk.got) < 6 /\ \E table \in Tables : Record(table)
  /\ UNCHANGED computed

Social1 ==
  /\ Ties \/ Posts2 \/ Rows \/ Placing
  /\ KeepSteady
  /\ UNCHANGED <<audit, computed>>

Signals ==
  /\ setting = "signals"
  /\ \E j \in Jobs : j[1] = "signals" /\ (BeginRun(j) \/ Step(j) \/ FailRun(j))
  /\ UNCHANGED <<vars, walk, audit>>

Digests ==
  /\ setting = "places"
  /\ \E j \in Jobs : j = <<"digest", 1>> /\ (BeginRun(j) \/ Step(j))
  /\ UNCHANGED <<vars, walk, audit>>

Nightly(kind) == setting = (IF kind = "similar" THEN "hubs" ELSE "nights") /\ Scheduled(kind) /\ UNCHANGED <<vars, walk, audit>>
Sunday == setting = "weeks" /\ Scheduled("weekly") /\ UNCHANGED <<vars, walk, audit>>
Time == setting = "weeks" /\ PassTime /\ UNCHANGED <<vars, walk, audit>>

Interrupted ==
  /\ \/ setting = "weeks" /\ (SkipSunday \/ \E n \in Replicas : BeginWeekly(<<"weekly", n>>) \/ FailRun(<<"weekly", n>>))
     \/ setting \in {"nights", "hubs"} /\ \E kind \in {"recommend", "similar"}, n \in Replicas : FailRun(<<kind, n>>)
     \/ setting = "hubs" /\ (Approve(ann, y) \/ Approve(bob, x))
  /\ UNCHANGED <<vars, walk, audit>>

\* In the nights, rooms are only left and one member followed, so that it comes to an end.
Leaving ==
  /\ setting = "nights"
  /\ \E r \in {CHOOSE r \in Requests : TRUE} :
       \/ \E u \in {ann, bob} : <<u, A>> \in follow /\ CheckRoom(r, u, A)
       \/ <<pia, bob>> \notin follow /\ CheckFollow(r, pia, bob)
       \/ ReadFollow(r) \/ Follow(r) \/ Unfollow(r)
  /\ UNCHANGED <<walk, audit, computed>>

MCNext ==
  /\ Social1 \/ Walking \/ Signals \/ Digests \/ Nightly("recommend") \/ Nightly("similar") \/ Sunday \/ Time \/ Interrupted \/ Leaving
  /\ UNCHANGED setting

all == <<vars, walk, audit, computed, setting>>

MCSpec ==
  /\ MCInit /\ [][MCNext]_all
  /\ WF_all(Nightly("recommend") /\ UNCHANGED setting)
  /\ WF_all(Nightly("similar") /\ UNCHANGED setting)

\* Sunday after Sunday, time goes on and so does each run, to its end.
RestSpec ==
  /\ MCInit /\ setting = "weeks"
  /\ [][(Sunday \/ Time) /\ UNCHANGED setting]_all
  /\ WF_all(Sunday /\ UNCHANGED setting)
  /\ WF_all(Time /\ UNCHANGED setting)
=============================================================================
