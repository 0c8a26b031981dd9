------------------------------- MODULE Places -------------------------------
(* What is shown of rooms, topic hubs and events: lists, pages, searches and  *)
(* previews, each with the conditions its service has written out for itself. *)
(* A hub stands for its category, which a post's room shares with others.     *)
EXTENDS Computed

CONSTANTS Owner,  \* of each room; None of an OFFICIAL one
          Talk,   \* EVENT_REACTION and DISCUSSION rooms
          Blocks, \* knowledge blocks
          BlockOf, \* the hub of each
          Cards,  \* event cards
          Pinned, \* room_pins: rooms with cards
          Linked, \* topic_hub_event_links: hubs with cards
          CardOf, \* the card attached to a post, if any
          Over    \* COMPLETED events

ASSUME PlacesAssumption ==
  /\ Owner \in [Rooms -> Members \cup {None}] /\ Talk \subseteq Rooms
  /\ BlockOf \in [Blocks -> Hubs]
  /\ Pinned \subseteq Rooms \X Cards /\ Linked \subseteq Hubs \X Cards
  /\ CardOf \in [Posts -> Cards \cup {None}] /\ None \notin Cards
  /\ Over \subseteq Cards
  \* The rooms of a category are in one space.
  /\ \A room, other \in Rooms : HubOf[room] = HubOf[other] => (room \in Private <=> other \in Private)

RoomsOf(h) == {room \in Rooms : HubOf[room] = h}
Published(x) == x \notin Unpublished

\* accessPoliciesAllowedFor, of the space a hub's category is in.
ReadableHub(v, h) == \A room \in RoomsOf(h) : Readable(v, room)

-----------------------------------------------------------------------------
(* Rooms *)

\* getRoomDetailBySlug: whether the page opens ...
OpenRoom(v, room) == Readable(v, room) /\ room \notin Dormant

\* ... and the cards on it, as resolvePins finds them.
PinsOf(room) == {c \in Cards : <<room, c>> \in Pinned}

\* listByCategorySlug
ListedRooms(v, h) == IF ReadableHub(v, h) THEN RoomsOf(h) \ Dormant ELSE {}

\* searchRooms, of those that match.
FoundRooms(v) == {room \in Rooms \ Dormant : Readable(v, room)}

\* fetchRecommendedRooms, before the cut: a dormant room is not left out.
RecommendedRooms(v) == {room \in Rooms : Readable(v, room) /\ <<v, room>> \notin follow}

\* _roomFollows of memories, whatever the day.
RememberedRooms(v) == {room \in Rooms \ Dormant : <<v, room>> \in follow /\ Readable(v, room)}

-----------------------------------------------------------------------------
(* Topic hubs *)

SignalsOn(h) == {t \in SignalTypes : signal[h][t] > 0}

\* getHubByCategorySlug: blocks whatever their status.
HubPage(v, h) ==
  IF ~ReadableHub(v, h) THEN None
  ELSE [blocks |-> {b \in Blocks : BlockOf[b] = h}, signals |-> SignalsOn(h),
        cards |-> {c \in Cards : <<h, c>> \in Linked}, rooms |-> ListedRooms(v, h)]

\* searchTopicHubs and searchKnowledgeBlocks, of those that match.
FoundHubs(v) == {h \in Hubs : Published(h) /\ ReadableHub(v, h)}
FoundBlocks(v) == {b \in Blocks : Published(b) /\ ReadableHub(v, BlockOf[b])}

\* fetchActiveHubs, before the cut: whatever their status.
ActiveHubs(v) == {h \in Hubs : (\E b \in Blocks : BlockOf[b] = h) /\ ReadableHub(v, h)}

\* topicHubPreview
PreviewedHub(v, h) == ReadableHub(v, h)

\* listForHubSlug of similarities.
SimilarHubs(v, h) == IF ReadableHub(v, h) THEN {g \in similar[h] : ReadableHub(v, g)} ELSE {}

\* listForHub of signals.
ListedSignals(v, h) == IF ReadableHub(v, h) THEN SignalsOn(h) ELSE {}

\* getForCategory: the posts quoted in the digest of the week.
QuotedInDigest(v, h) == IF ReadableHub(v, h) THEN digest[h] ELSE {}

\* _loadBlockOrThrow, for the score and the chain of a block.
Validated(v, b) == ReadableHub(v, BlockOf[b])

\* listForBlock
RevisionsListed(v, b) == ReadableHub(v, BlockOf[b])

\* _contributions of memories, whatever the day.
RememberedHubs(v) == {h \in Hubs : v \in expert[h] /\ ReadableHub(v, h)}

-----------------------------------------------------------------------------
(* Events *)

\* _relatedPostsWhere
RelatedPosts(v, c) ==
  {p \in Posts : /\ Exists(p) /\ post[p].status \notin {"DELETED", "HIDDEN"}
                 /\ CardOf[p] = c /\ Readable(v, post[p].room)}

\* getBundle: rooms the card is pinned in, and rooms of posts it is attached to.
RelatedRooms(v, c) ==
  {room \in Rooms \ Dormant : <<room, c>> \in Pinned /\ Readable(v, room)}
    \cup ({post[p].room : p \in RelatedPosts(v, c)} \ Dormant)

Official(S) == {room \in S : Owner[room] = None /\ room \in Talk}

\* _resolveDefaultComposeRoom: any of these; or none, of some hub with a link, when
\* the hub is not readable or has no such room, though another might.
ComposeRooms(v, c) ==
  LET related == RelatedRooms(v, c)
      OfHub(h) == IF ReadableHub(v, h) THEN Official(FoundRooms(v) \cap RoomsOf(h)) ELSE {} IN
  IF related = {} THEN UNION {OfHub(h) : h \in {h \in Hubs : <<h, c>> \in Linked}}
  ELSE IF Official(related) # {} THEN Official(related) ELSE related

LinkedRooms(c) == {room \in Rooms : <<HubOf[room], c>> \in Linked}

\* suggestFor: whom it is for ...
MaySuggest(v, c) == c \in Over /\ (v \in Planners \/ \E room \in LinkedRooms(c) : Owner[room] = v)

\* ... and where to post: their own rooms, dormant or not, and the others.
SuggestedRooms(v, c) == {room \in LinkedRooms(c) : Owner[room] = v \/ room \notin Dormant}
=============================================================================
