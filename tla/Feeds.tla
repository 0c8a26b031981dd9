-------------------------------- MODULE Feeds -------------------------------
(* What the services that read posts and notices show to a member: each has   *)
(* written the conditions out for itself.  Besides, one member walks through  *)
(* a list page by page, with the id of the last item as the cursor, while the *)
(* rows of the list come and go.                                              *)
EXTENDS Places, Functions

CONSTANT Limit  \* items of a page

ASSUME FeedsAssumption == Limit \in Nat \ {0}

VARIABLES walk,  \* the walk under way, or the one that has ended
          audit  \* moderation_actions and the analytics_events that the audit log
                 \* shows, by when they were created

-----------------------------------------------------------------------------
(* Posts *)

Planner(v) == v \in Planners

\* getById: a hidden post opens.
Openable(v, p) ==
  /\ Exists(p) /\ post[p].status # "DELETED"
  /\ Readable(v, post[p].room)

\* Faulty variant of InTimeline: only deletion is looked at.
InTimelineAll(v, p) ==
  /\ Exists(p) /\ OpenRoom(v, post[p].room)
  /\ post[p].status # "DELETED"

\* listByRoomSlug
InTimeline(v, p) ==
  /\ Exists(p) /\ OpenRoom(v, post[p].room)
  /\ post[p].status \notin {"DELETED", "HIDDEN"}

\* fetchFollowedRoomPosts, before the cut.
InHome(v, p) ==
  /\ Exists(p) /\ <<v, post[p].room>> \in follow
  /\ post[p].status \notin {"DELETED", "HIDDEN"}
  /\ Readable(v, post[p].room)

\* fetchTrendingCandidates, before the cut.
Trending(v, p) ==
  /\ Exists(p) /\ post[p].status \notin {"DELETED", "HIDDEN"}
  /\ Readable(v, post[p].room)

\* searchPosts, for what the body contains.
Found(v, p) ==
  /\ Exists(p) /\ post[p].status \notin {"DELETED", "HIDDEN"}
  /\ Readable(v, post[p].room)

\* resolveTarget of a bookmark.
Resolved(v, p) ==
  /\ Exists(p) /\ post[p].status \notin {"DELETED", "HIDDEN"}
  /\ Readable(v, post[p].room)

\* resolveTarget of the home page's own, for what was saved last.
SavedRecently(v, p) ==
  /\ Exists(p) /\ post[p].status \notin {"DELETED", "HIDDEN"}
  /\ Readable(v, post[p].room)

\* postPreview
Previewed(v, p) ==
  /\ Exists(p) /\ post[p].status = "VISIBLE"
  /\ Readable(v, post[p].room)

\* fetchQuoteRefs: whether the post quoted by p is said to be available.
QuoteAvailable(p) == post[post[p].quotes].status \notin {"DELETED", "HIDDEN"}

\* getProfileBundle, recent_posts and post_count of the author.
OnProfile(v, p) ==
  /\ Exists(p) /\ post[p].status \notin {"DELETED", "HIDDEN"}
  /\ Readable(v, post[p].room)
  /\ Planner(v) \/ post[p].type # "RECRUITMENT"

\* listPostsForUser
InActivity(v, p) ==
  /\ Exists(p) /\ post[p].status \notin {"DELETED", "HIDDEN"}
  /\ Readable(v, post[p].room)
  /\ Planner(v) \/ post[p].type # "RECRUITMENT"

\* listForUser: the policy stamped on the notice, and who caused it.
InInbox(v, i) ==
  LET n == notice[v][i] IN
  /\ Readable(v, post[n.post].room)
  /\ ~Blocked(v, n.actor)
  /\ <<v, n.actor>> \notin mute

\* searchAll and searchOne, for a query that everything matches.
SearchAll(v) ==
  [topic_hub |-> FoundHubs(v), knowledge_block |-> FoundBlocks(v), room |-> FoundRooms(v),
   post |-> {p \in Posts : Found(v, p)}, event_card |-> Cards]

\* getBundle of the home page, before the cuts.
HomeBundle(v) ==
  [followed_room_updates |-> {p \in Posts : InHome(v, p)}, recommended_rooms |-> RecommendedRooms(v),
   trending_posts |-> {p \in Posts : Trending(v, p)}, active_topic_hubs |-> ActiveHubs(v)]

-----------------------------------------------------------------------------
(* Walks *)

NoWalk == [pc |-> "idle", kind |-> None, v |-> None, of |-> None, cursor |-> 0,
           got |-> <<>>, steady |-> {}, lost |-> 0]

\* The rows a list shows, by when they were created, and all rows of its table.
ShownIn(kind, v, x) ==
  CASE kind = "timeline" -> {post[p].at : p \in {p \in Posts : InTimeline(v, p) /\ post[p].room = x}}
    [] kind = "activity" -> {post[p].at : p \in {p \in Posts : InActivity(v, p) /\ post[p].by = x}}
    [] kind = "inbox" -> {i \in DOMAIN notice[v] : InInbox(v, i)}
    [] kind = "audit" -> DOMAIN audit

Shown == ShownIn(walk.kind, walk.v, walk.of)

\* What was shown when the walk began and ever since.
KeepSteady ==
  \E kind \in {walk.kind}, v \in {walk.v}, x \in {walk.of} :
    walk' = IF walk.pc = "idle" THEN walk ELSE [walk EXCEPT !.steady = @ \cap ShownIn(kind, v, x)']

BeginWalk(kind, v, x) ==
  /\ walk = NoWalk
  /\ kind = "timeline" <=> x \in Rooms
  /\ kind = "activity" => x \in Members
  /\ kind \in {"inbox", "audit"} => x = None
  /\ walk' = [NoWalk EXCEPT !.pc = "open", !.kind = kind, !.v = v, !.of = x, !.steady = ShownIn(kind, v, x)]
  /\ UNCHANGED <<vars, audit>>

First(n, s) == IF Len(s) <= n THEN s ELSE SubSeq(s, 1, n)
Newest(S) == [n \in 1 .. Cardinality(S) |-> CHOOSE x \in S : Cardinality({y \in S : y > x}) = n - 1]

\* Faulty variant of After: the cursor's row is not skipped.
AfterWithIt(S) ==
  IF walk.got = <<>> THEN Newest(S) ELSE Newest({i \in S : i <= walk.cursor})

\* cursor with skip: 1, of the rows that match, from the cursor's place on; the
\* row of the cursor itself may match no longer.
After(S) ==
  IF walk.got = <<>> THEN Newest(S)
  ELSE LET rest == Newest({i \in S : i <= walk.cursor}) IN IF rest = <<>> THEN <<>> ELSE Tail(rest)

Turn(items, more, lost) ==
  walk' = [walk EXCEPT !.pc = IF more THEN "open" ELSE "done",
                       !.got = @ \o items,
                       !.cursor = IF items = <<>> THEN @ ELSE items[Len(items)],
                       !.lost = @ + lost]

\* listByRoomSlug and listPostsForUser: the query filters, and takes one row more
\* than the page to see whether there are any left.
NextPage ==
  LET rows == First(Limit + 1, After(Shown)) IN
  /\ walk.pc = "open" /\ walk.kind \in {"timeline", "activity"}
  /\ Turn(First(Limit, rows), Len(rows) > Limit,
          IF walk.got # <<>> /\ walk.cursor \notin Shown THEN 1 ELSE 0)
  /\ UNCHANGED <<vars, audit>>

\* listForUser: the query takes one row more than the page, and what it took is
\* filtered afterwards.
NextPageOfInbox ==
  LET rows == First(Limit + 1, After(DOMAIN notice[walk.v])) IN
  LET visible == Newest(Range(rows) \cap Shown) IN
  /\ walk.pc = "open" /\ walk.kind = "inbox"
  /\ Turn(First(Limit, visible), Len(visible) > Limit, Len(rows) - Len(visible))
  /\ UNCHANGED <<vars, audit>>

\* list of the audit log: of either table one row more than the page, always the
\* newest; then what is after the cursor, or everything if the cursor is not there.
NextPageOfAudit ==
  LET Latest(table) == First(Limit + 1, Newest({i \in DOMAIN audit : audit[i] = table})) IN
  LET all == Range(Latest("MODERATION")) \cup Range(Latest("ANALYTICS")) IN
  LET rows == Newest(IF walk.cursor \in all THEN {i \in all : i < walk.cursor} ELSE all) IN
  /\ walk.pc = "open" /\ walk.kind = "audit"
  /\ Turn(First(Limit, rows), Len(rows) > Limit, 0)
  /\ UNCHANGED <<vars, audit>>

\* A verdict, or an event of the curated types.
Record(table) ==
  /\ audit' = Append(audit, table)
  /\ UNCHANGED <<vars, walk>>

Tables == {"MODERATION", "ANALYTICS"}

WalkNext ==
  \/ \E kind \in {"timeline", "activity", "inbox", "audit"}, v \in Members, x \in Rooms \cup Members \cup {None} :
       BeginWalk(kind, v, x)
  \/ NextPage \/ NextPageOfInbox \/ NextPageOfAudit
  \/ \E table \in Tables : Record(table)

FeedsInit == Init /\ ComputedInit /\ walk = NoWalk /\ audit = <<>>

FeedsNext ==
  \/ WalkNext /\ UNCHANGED computed
  \/ Next /\ KeepSteady /\ UNCHANGED <<audit, computed>>
  \/ Compute /\ UNCHANGED <<walk, audit>>

FeedsSpec == FeedsInit /\ [][FeedsNext]_<<vars, computed, walk, audit>>

-----------------------------------------------------------------------------
PostsAgree(v) ==
  \A p \in Posts :
    /\ \A shown \in {Trending(v, p), Resolved(v, p), SavedRecently(v, p), Previewed(v, p)} : shown = Found(v, p)
    /\ InTimeline(v, p) <=> Found(v, p) /\ post[p].room \notin Dormant
    /\ InHome(v, p) <=> Found(v, p) /\ <<v, post[p].room>> \in follow
    /\ OnProfile(v, p) = InActivity(v, p)
    /\ Found(v, p) /\ ~OnProfile(v, p) => post[p].type = "RECRUITMENT" /\ ~Planner(v)
    /\ Found(v, p) => Openable(v, p)
    /\ Openable(v, p) /\ ~Found(v, p) => post[p].status = "HIDDEN"
    /\ Exists(p) /\ post[p].quotes # None /\ QuoteAvailable(p) =>
         Found(v, post[p].quotes) \/ ~Readable(v, post[post[p].quotes].room)

NoticesLead(v) ==
  \A i \in DOMAIN notice[v] : LET n == notice[v][i] IN
    n.kind = "MENTION" => <<n.post, v>> \in mention \/ post[n.post].gone

PlacesAgree(v) ==
  LET found == SearchAll(v)
      home == HomeBundle(v) IN
  /\ found.room = UNION {ListedRooms(v, h) : h \in Hubs}
  /\ \A room \in found.room \cup RememberedRooms(v) \cup (home.recommended_rooms \ Dormant) : OpenRoom(v, room)
  /\ home.followed_room_updates \cup home.trending_posts \subseteq found.post
  /\ \A p \in home.followed_room_updates : post[p].room \notin home.recommended_rooms
  /\ \A h \in found.topic_hub \cup home.active_topic_hubs \cup RememberedHubs(v)
              \cup UNION {SimilarHubs(v, h) : h \in Hubs} :
       PreviewedHub(v, h) /\ HubPage(v, h).signals = ListedSignals(v, h)
  /\ \A b \in found.knowledge_block :
       b \in HubPage(v, BlockOf[b]).blocks /\ Validated(v, b) /\ RevisionsListed(v, b)
  /\ \A h \in Hubs : \A p \in QuotedInDigest(v, h) : Openable(v, p) \/ post[p].status = "DELETED"

EventsAgree(v) ==
  \A c \in Cards :
    /\ RelatedPosts(v, c) = {p \in Posts : Found(v, p) /\ CardOf[p] = c}
    /\ \A room \in Rooms : OpenRoom(v, room) /\ c \in PinsOf(room) => room \in RelatedRooms(v, c)
    /\ \A room \in RelatedRooms(v, c) \cup ComposeRooms(v, c) : OpenRoom(v, room)
    /\ MaySuggest(v, c) => \A room \in SuggestedRooms(v, c) :
         OpenRoom(v, room) \/ Owner[room] = v \/ ~ReadableHub(v, HubOf[room])

\* The services agree on what there is to see, though each filters for itself: trends,
\* search, bookmarks and previews show a member the same posts; timelines those of
\* active rooms, home those of followed rooms, and a profile all but recruitments to
\* those who are no planners.  Whatever is shown opens, and what opens without
\* being shown is hidden; rooms, hubs and blocks that are found, recommended or
\* linked open too, dormant recommendations aside, and so do posts that a digest
\* quotes, unless they were deleted since.  A room that an event page names can be
\* posted in; one that a recap is suggested for, too, but for a dormant room of
\* one's own and rooms of a hub out of sight.  A notice that somebody was mentioned
\* leads to a post that mentions them, or that its author deleted at some time: a verdict
\* may have hidden it afterwards and another have shown it again, without its mentions.
ListedIsOpenable == \A v \in Members : PostsAgree(v) /\ NoticesLead(v) /\ PlacesAgree(v) /\ EventsAgree(v)

\* A walk through a list shows nothing twice.  When it has ended it has shown all that
\* was there from its beginning to its end, but for one post at each page whose
\* cursor was hidden or deleted since the page before; and in the inbox only when a
\* page had something to filter out, which ends the walk early.  In the audit log
\* both hold only as long as neither table has more rows than a page and one.
WalkMissesFew ==
  LET missed == walk.steady \ Range(walk.got) IN
  LET Many == \E table \in Tables : Cardinality({i \in DOMAIN audit : audit[i] = table}) > Limit + 1 IN
  (walk.kind = "audit" => ~Many) =>
    /\ \A i, j \in DOMAIN walk.got : i < j => walk.got[i] > walk.got[j]
    /\ walk.pc = "done" =>
         CASE walk.kind = "inbox" -> missed # {} => walk.lost > 0
           [] walk.kind = "audit" -> missed = {}
           [] OTHER -> Cardinality(missed) <= walk.lost
=============================================================================
