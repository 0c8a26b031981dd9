------------------------------ MODULE Computed ------------------------------
(* What is computed from follows, posts and contributions beside the requests *)
(* of members: activity signals of topic hubs and digests of their week, when *)
(* operators ask; recommendations whom to follow and similar hubs, every      *)
(* night; and the weekly digest of each member.  A run goes through hubs or   *)
(* members one after the other, reads and then writes; of those that hold a   *)
(* lock there is one at a time.  Time goes in ticks and stands still while    *)
(* weekly digests are sent.                                                   *)
EXTENDS Social

CONSTANTS Hubs,
          HubOf,      \* the hub of each room, by way of their category
          Unpublished, \* hubs and blocks that are not PUBLISHED: no code retires one either
          Replicas,   \* runs of a kind that may be under way
          Readers,    \* members with weeklyDigestEnabled
          Batch,      \* BATCH_SIZE
          Cooldown,   \* COOLDOWN_DAYS, in ticks
          Week,       \* from Sunday to Sunday, in ticks
          Newcomers,  \* members of the last ninety days, which the model does not outlive
          UserCap,    \* take of the active users, 5000
          HubCap,     \* ACTIVE_HUB_CAP, 1000
          Unlike,     \* CONTRIBUTOR_WEIGHT / MIN_SCORE, 14
          MaxFailures \* bound on the runs that fail

ASSUME ComputedAssumption ==
  /\ HubOf \in [Rooms -> Hubs]
  /\ Readers \subseteq Members /\ Newcomers \subseteq Members
  /\ IsFiniteSet(Replicas)
  /\ Batch \in Nat /\ UserCap \in Nat /\ HubCap \in Nat /\ Unlike \in Nat /\ MaxFailures \in Nat
  /\ Cooldown \in Nat /\ Week \in Nat /\ Cooldown < Week
  /\ Hubs \cap Members = {} /\ None \notin Hubs

VARIABLES expert,      \* contributors to each hub, by approval or revision
          signal,      \* how many topic_signals rows of a type each hub has
          digest,      \* popularPosts of the week's topic_hub_digests
          recommended, \* follow_recommendations: whom, and by which shared hubs
          similar,     \* topic_hub_similarities
          stamp,       \* age of weeklyDigestLastSentAt of a reader, up to Cooldown + 1
          last,        \* age of the last digest a reader got, likewise
          early,       \* digests a reader got before the cooldown of the last was over
          sunday,      \* ticks until the cron's next run; 0, it is due
          job,         \* the runs under way
          failures

mail == <<stamp, last, early, sunday>>
computed == <<expert, signal, digest, recommended, similar, mail, job, failures>>

SignalTypes == {"HOT_DEBATE", "POPULAR_REF", "VERIFIED_REVIEWS"}
Kinds == {"signals", "digest", "recommend", "similar", "weekly"}
Locking == Kinds \ {"signals", "digest"}
Jobs == Kinds \X Replicas
NoJob == [pc |-> "idle", todo |-> {}, on |-> None, rows |-> {}]

ComputedInit ==
  /\ expert = [h \in Hubs |-> {}]
  /\ signal = [h \in Hubs |-> [t \in SignalTypes |-> 0]]
  /\ digest = [h \in Hubs |-> {}]
  /\ recommended = [u \in Members |-> {}]
  /\ similar = [h \in Hubs |-> {}]
  /\ stamp = [u \in Readers |-> Cooldown + 1]
  /\ last = [u \in Readers |-> Cooldown + 1]
  /\ early = [u \in Readers |-> 0]
  /\ sunday = Week
  /\ job = [j \in Jobs |-> NoJob]
  /\ failures = 0

\* A contribution of u to a hub is approved.
Approve(u, h) ==
  /\ expert' = [expert EXCEPT ![h] = @ \cup {u}]
  /\ UNCHANGED <<signal, digest, recommended, similar, mail, job, failures>>

-----------------------------------------------------------------------------
(* What is computed *)

Seen(h) == {p \in Posts : Exists(p) /\ HubOf[post[p].room] = h /\ post[p].status \notin {"DELETED", "HIDDEN"}}

\* refreshAll of signals: a hot post of the last month and a popular one, if any is
\* recent or liked, and whether there are recruitments.
SignalsOf(h) ==
  LET hiring == IF \E p \in Seen(h) : post[p].type = "RECRUITMENT" THEN {"VERIFIED_REVIEWS"} ELSE {} IN
  {hiring \cup some : some \in IF Seen(h) = {} THEN {{}} ELSE SUBSET {"HOT_DEBATE", "POPULAR_REF"}}

\* generateForHub, the first five posts.
Popular(h) == {p \in Posts : Exists(p) /\ HubOf[post[p].room] = h /\ post[p].status = "VISIBLE"}

Interests(u) == {HubOf[room] : room \in {room \in Rooms : <<u, room>> \in follow}}

\* _topCandidatesFor, the first twenty aside: who shares a hub and is not followed.
TopCandidatesFor(u) ==
  {<<v, Interests(u) \cap Interests(v)>> :
     v \in {v \in Members \ {u} : Interests(u) \cap Interests(v) # {} /\ <<u, v>> \notin follow}}

PublishedHubs == Hubs \ Unpublished

\* Jaccard's measure of their contributors reaches MIN_SCORE; 0.7 / 14 is, as a
\* double, below 0.05.  A room is in one category, so no two hubs share any.
Alike(g, h) == Cardinality(expert[g] \cup expert[h]) < Unlike * Cardinality(expert[g] \cap expert[h])

\* _topSimilarsFor, of the hubs that were read, the first ten aside.
TopSimilarsFor(h, hubs) == {g \in hubs \ {h} : Alike(g, h)}

\* _sectionsFor, as far as posts of followed rooms go, which are taken to be new every
\* week.
SectionsFor(u) == {p \in Posts : Exists(p) /\ <<u, post[p].room>> \in follow /\ post[p].status = "VISIBLE"}

\* listForUser: none that is followed meanwhile, and none whose hubs are all out of
\* the reader's sight.
Suggested(u) ==
  {c[1] : c \in {c \in recommended[u] : /\ <<u, c[1]>> \notin follow
                                        /\ \E room \in Rooms : HubOf[room] \in c[2] /\ Readable(u, room)}}

-----------------------------------------------------------------------------
(* Runs *)

PutJob(j, q) == job' = [job EXCEPT ![j] = q]
Locked(kind) == kind \in Locking /\ \E n \in Replicas : job[<<kind, n>>] # NoJob

Begin(j, todo, rows) ==
  /\ job[j] = NoJob /\ ~Locked(j[1])
  /\ PutJob(j, [pc |-> "next", todo |-> todo, on |-> None, rows |-> rows])
  /\ UNCHANGED <<expert, signal, digest, recommended, similar, failures>>

\* take, without an order: any n rows, or all if there are fewer.
Take(S, n) == {T \in SUBSET S : Cardinality(T) = IF Cardinality(S) < n THEN Cardinality(S) ELSE n}

\* Who follows a room, or has come lately.
Active == Newcomers \cup {u \in Members : \E room \in Rooms : <<u, room>> \in follow}

\* refreshAll of signals and of digests, and recomputeAll of recommendations.
BeginRun(j) ==
  /\ \/ j[1] = "signals" /\ Begin(j, {HubOf[room] : room \in Rooms}, {})
     \/ j[1] = "digest" /\ Begin(j, PublishedHubs, {})
     \/ j[1] = "recommend" /\ \E users \in Take(Active, UserCap) : Begin(j, users, {})
  /\ UNCHANGED mail

\* recomputeAll of similarities reads its hubs at once.
BeginSimilar(j) ==
  /\ j[1] = "similar"
  /\ \E hubs \in Take(PublishedHubs, HubCap) :
       /\ Cardinality(hubs) > 1
       /\ Begin(j, hubs, [h \in hubs |-> TopSimilarsFor(h, hubs)])
  /\ UNCHANGED mail

\* Readers whose cooldown is over.
Due == {u \in Readers : stamp[u] > Cooldown}

\* An operator's run, at any time.
BeginWeekly(j) ==
  /\ j[1] = "weekly"
  /\ \E readers \in Take(Due, Batch) : Begin(j, readers, {})
  /\ UNCHANGED mail

\* The cron's ...
BeginSunday(j) ==
  /\ j[1] = "weekly" /\ sunday = 0
  /\ \E readers \in Take(Due, Batch) : Begin(j, readers, {})
  /\ sunday' = Week
  /\ UNCHANGED <<stamp, last, early>>

\* ... which waits for another week if an operator's is under way.
SkipSunday ==
  /\ sunday = 0 /\ Locked("weekly")
  /\ sunday' = Week
  /\ UNCHANGED <<expert, signal, digest, recommended, similar, stamp, last, early, job, failures>>

\* A tick.
PassTime ==
  LET Older(age) == [u \in Readers |-> IF age[u] > Cooldown THEN age[u] ELSE age[u] + 1] IN
  /\ sunday > 0 /\ ~Locked("weekly")
  /\ sunday' = sunday - 1
  /\ stamp' = Older(stamp) /\ last' = Older(last)
  /\ UNCHANGED <<expert, signal, digest, recommended, similar, early, job, failures>>

\* The next hub or member.  Recommendations or a digest with nothing in them are not
\* written; a hub may have revisions, references or events to tell of beside posts.
Read(j, x) ==
  LET q == job[j] IN
  LET Pass == PutJob(j, [q EXCEPT !.todo = @ \ {x}]) IN
  LET Go(rows) == PutJob(j, [q EXCEPT !.todo = @ \ {x}, !.pc = "write", !.on = x,
                                    !.rows = IF j[1] = "similar" THEN @ ELSE rows]) IN
  LET GoUnlessEmpty(rows) == IF rows = {} THEN Pass ELSE Go(rows) IN
  /\ q.pc = "next" /\ x \in q.todo
  /\ CASE j[1] = "signals" -> \E types \in SignalsOf(x) : Go(types)
       [] j[1] = "digest" -> GoUnlessEmpty(Popular(x)) \/ Go(Popular(x))
       [] j[1] = "recommend" -> GoUnlessEmpty(TopCandidatesFor(x))
       [] j[1] = "similar" -> Go({})
       [] j[1] = "weekly" -> GoUnlessEmpty(SectionsFor(x))
  /\ UNCHANGED <<expert, signal, digest, recommended, similar, mail, failures>>

Done(q) == [q EXCEPT !.pc = "next", !.on = None]

\* Signals: the old rows go ...
DeleteSignals(j) ==
  /\ j[1] = "signals" /\ job[j].pc = "write"
  /\ signal' = [signal EXCEPT ![job[j].on] = [t \in SignalTypes |-> 0]]
  /\ PutJob(j, [job[j] EXCEPT !.pc = "insert"])
  /\ UNCHANGED <<expert, digest, recommended, similar, mail, failures>>

\* ... and the new ones come, in a statement of its own.
InsertSignals(j) ==
  /\ job[j].pc = "insert"
  /\ signal' = [signal EXCEPT ![job[j].on] = [t \in SignalTypes |-> @[t] + IF t \in job[j].rows THEN 1 ELSE 0]]
  /\ PutJob(j, Done(job[j]))
  /\ UNCHANGED <<expert, digest, recommended, similar, mail, failures>>

\* The digest of a hub is put in place of that of the same week.
GenerateForHub(j) ==
  /\ j[1] = "digest" /\ job[j].pc = "write"
  /\ digest' = [digest EXCEPT ![job[j].on] = job[j].rows]
  /\ PutJob(j, Done(job[j]))
  /\ UNCHANGED <<expert, signal, recommended, similar, mail, failures>>

\* A hub whose digest fails is passed over.
PassOver(j) ==
  /\ j[1] = "digest" /\ job[j].pc = "write" /\ failures < MaxFailures
  /\ failures' = failures + 1
  /\ PutJob(j, Done(job[j]))
  /\ UNCHANGED <<expert, signal, digest, recommended, similar, mail>>

\* Faulty variant of Replace: the new rows come beside the old.
ReplaceNone(j) ==
  /\ j[1] = "recommend" /\ job[j].pc = "write"
  /\ recommended' = [recommended EXCEPT ![job[j].on] = @ \cup job[j].rows]
  /\ PutJob(j, Done(job[j]))
  /\ UNCHANGED <<expert, signal, digest, similar, mail, failures>>

\* Recommendations are replaced in one transaction.
Replace(j) ==
  /\ j[1] = "recommend" /\ job[j].pc = "write"
  /\ recommended' = [recommended EXCEPT ![job[j].on] = job[j].rows]
  /\ PutJob(j, Done(job[j]))
  /\ UNCHANGED <<expert, signal, digest, similar, mail, failures>>

\* Similarities too, from what was read at the beginning.
ReplaceSimilar(j) ==
  LET q == job[j] IN
  /\ j[1] = "similar" /\ q.pc = "write"
  /\ similar' = [similar EXCEPT ![q.on] = q.rows[q.on]]
  /\ PutJob(j, Done(q))
  /\ UNCHANGED <<expert, signal, digest, recommended, mail, failures>>

\* The digest is a notice ...
SendDigest(j) ==
  /\ j[1] = "weekly" /\ job[j].pc = "write"
  /\ early' = [early EXCEPT ![job[j].on] = @ + IF last[job[j].on] > Cooldown THEN 0 ELSE 1]
  /\ last' = [last EXCEPT ![job[j].on] = 0]
  /\ PutJob(j, [job[j] EXCEPT !.pc = "stamp"])
  /\ UNCHANGED <<expert, signal, digest, recommended, similar, stamp, sunday, failures>>

\* Faulty variant of StampDigest: there is no stamp.
StampNone(j) ==
  /\ job[j].pc = "stamp"
  /\ PutJob(j, Done(job[j]))
  /\ UNCHANGED <<expert, signal, digest, recommended, similar, mail, failures>>

\* ... and then the stamp that starts the cooldown.
StampDigest(j) ==
  /\ job[j].pc = "stamp"
  /\ stamp' = [stamp EXCEPT ![job[j].on] = 0]
  /\ PutJob(j, Done(job[j]))
  /\ UNCHANGED <<expert, signal, digest, recommended, similar, last, early, sunday, failures>>

\* The lock is released.
End(j) ==
  /\ job[j].pc = "next" /\ job[j].todo = {}
  /\ PutJob(j, NoJob)
  /\ UNCHANGED <<expert, signal, digest, recommended, similar, mail, failures>>

\* A run fails, or its process dies.
FailRun(j) ==
  /\ job[j] # NoJob /\ failures < MaxFailures
  /\ failures' = failures + 1
  /\ PutJob(j, NoJob)
  /\ UNCHANGED <<expert, signal, digest, recommended, similar, mail>>

Step(j) ==
  \/ \E x \in Hubs \cup Members : Read(j, x)
  \/ DeleteSignals(j) \/ InsertSignals(j) \/ GenerateForHub(j) \/ PassOver(j) \/ Replace(j) \/ ReplaceSimilar(j)
  \/ SendDigest(j) \/ StampDigest(j) \/ End(j)

\* The nightly and weekly runs, of which one replica takes its turn.
Scheduled(kind) ==
  \E n \in Replicas : LET j == <<kind, n>> IN
    \/ kind \in Locking /\ (BeginRun(j) \/ BeginSimilar(j) \/ BeginSunday(j))
    \/ Step(j)

ByHand(j) == BeginWeekly(j) \/ (j[1] \notin Locking /\ (BeginRun(j) \/ Step(j)))

Compute ==
  /\ \/ \E kind \in Kinds : Scheduled(kind)
     \/ \E j \in Jobs : ByHand(j) \/ FailRun(j)
     \/ \E u \in Members, h \in Hubs : Approve(u, h)
     \/ SkipSunday \/ PassTime
  /\ UNCHANGED vars

-----------------------------------------------------------------------------
\* Nothing is computed twice over: a hub has at most one signal of a type for each
\* refresh that overlaps, though a refresh deletes and inserts in two statements;
\* and however often operators run the weekly digests beside the cron, a reader gets
\* none before the cooldown of the last is over, but for each run that failed between
\* a digest and its stamp.
NothingTwice ==
  /\ \A h \in Hubs, t \in SignalTypes : signal[h][t] <= Cardinality(Replicas)
  /\ \A u \in Readers : early[u] <= failures

\* Once follows and contributions stand still, the nightly runs catch up with them,
\* whatever they read and wrote meanwhile and however many failed, unless there are
\* more hubs or active members than a run takes: a published hub has the hubs similar
\* to it and no others; and a member is shown who is recommended, as long as there is
\* anybody to recommend.
TablesCatchUp ==
  /\ Cardinality(PublishedHubs) <= HubCap =>
       \A h \in PublishedHubs : []<>(similar[h] = TopSimilarsFor(h, PublishedHubs))
  /\ \A u \in Members :
       []<>(\/ Cardinality(Active) > UserCap
            \/ TopCandidatesFor(u) = {}
            \/ Suggested(u) = {c[1] : c \in TopCandidatesFor(u)})

\* "the next tick (a full week later) picks up the rest": a reader with something to
\* read gets a digest again and again, however many readers there are.
RestIsPickedUp == \A u \in Readers : []<>(SectionsFor(u) = {} \/ last[u] = 0)
=============================================================================
