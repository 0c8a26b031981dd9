---------------------------- MODULE Feeds_proofs ----------------------------
(* Ties, posts, what is computed from them and what is shown of them, for any *)
(* members, rooms, posts, hubs, requests, runs and page sizes: types, that    *)
(* nothing is computed twice, that the readers agree, and that a walk through *)
(* a list shows nothing twice and misses little.                              *)
EXTENDS Feeds, FiniteSetTheorems, SequenceTheorems, TLAPS

-----------------------------------------------------------------------------
(* Ties, posts and notices *)

TiesOK ==
  /\ follow \subseteq Members \X (Members \cup Rooms)
  /\ block \subseteq Members \X Members /\ mute \subseteq Members \X Members
  /\ \A u \in Members : <<u, u>> \notin follow \cup block \cup mute

PostsOK ==
  /\ post \in [Posts -> PostType]
  /\ \A p \in Posts : Exists(p) /\ post[p].quotes # None => Exists(post[p].quotes)

MentionsOK ==
  /\ mention \subseteq Posts \X Members
  /\ \A m \in mention : Exists(m[1]) /\ post[m[1]].by # m[2]

\* A notice is of a post that exists, by somebody else, and if it is of a mention
\* it leads to one.
Leads(n, u, posts, mentions) ==
  /\ n \in NoticeType
  /\ posts[n.post] # NoPost /\ posts[n.post].by = n.actor /\ n.actor # u
  /\ n.kind = "MENTION" => <<n.post, u>> \in mentions \/ posts[n.post].gone

NoticesOK ==
  /\ notice \in [Members -> Seq(NoticeType)]
  /\ \A u \in Members : \A i \in DOMAIN notice[u] : Leads(notice[u][i], u, post, mention)

\* What a request holds is there; whom it is about to notify has a mention,
\* unless the post has been deleted since.
Sound(q, posts, mentions) ==
  /\ q \in RequestType
  /\ q.pc \in {"follow", "toggle", "unfollow"} => q.u # q.v
  /\ q.pc = "insert" /\ q.seen.quotes # None => posts[q.seen.quotes] # NoPost
  /\ q.pc \in {"announce", "tell", "mention", "notify", "delete", "clear"} =>
       posts[q.v] # NoPost /\ posts[q.v].by = q.u
  /\ q.u \notin q.todo
  /\ q.pc = "notify" => posts[q.v].gone \/ \A u \in q.todo : <<q.v, u>> \in mentions
  /\ q.pc = "clear" => posts[q.v].gone

RequestsOK ==
  /\ request \in [Requests -> RequestType]
  /\ \A r \in Requests : Sound(request[r], post, mention)

SocialInv == TiesOK /\ PostsOK /\ MentionsOK /\ NoticesOK /\ RequestsOK

\* Posts stay, where they are and who wrote them, and what was once deleted is known
\* to have been.
Grows ==
  \A p \in Posts : post[p] # NoPost =>
    /\ post'[p] # NoPost /\ post'[p].by = post[p].by /\ post'[p].room = post[p].room
    /\ post[p].gone => post'[p].gone

\* Only what is deleted loses its mentions.
MentionsKept ==
  \A p \in Posts, u \in Members : <<p, u>> \in mention => <<p, u>> \in mention' \/ post'[p].gone

LEMMA SocialParts ==
  ASSUME SocialInv
  PROVE  TypeOK /\ \A v \in Members : NoticesLead(v)
<1>1. TypeOK
  <2>1. /\ follow \subseteq Members \X (Members \cup Rooms)
        /\ block \subseteq Members \X Members /\ mute \subseteq Members \X Members
        /\ \A u \in Members : <<u, u>> \notin follow \cup block \cup mute
    BY DEF SocialInv, TiesOK
  <2>2. /\ post \in [Posts -> PostType]
        /\ \A p \in Posts : Exists(p) /\ post[p].quotes # None => Exists(post[p].quotes)
    BY DEF SocialInv, PostsOK
  <2>3. mention \subseteq Posts \X Members /\ \A m \in mention : Exists(m[1]) /\ post[m[1]].by # m[2]
    BY DEF SocialInv, MentionsOK
  <2>4. /\ notice \in [Members -> Seq(NoticeType)]
        /\ \A u \in Members : \A i \in DOMAIN notice[u] :
             Exists(notice[u][i].post) /\ post[notice[u][i].post].by = notice[u][i].actor /\ notice[u][i].actor # u
    BY DEF SocialInv, NoticesOK, Leads, Exists
  <2>5. /\ request \in [Requests -> RequestType]
        /\ \A r \in Requests : LET q == request[r] IN
             /\ q.pc \in {"follow", "toggle", "unfollow"} => q.u # q.v
             /\ q.pc = "insert" /\ q.seen.quotes # None => Exists(q.seen.quotes)
             /\ q.pc \in {"announce", "tell", "mention", "notify", "delete", "clear"} => Exists(q.v) /\ post[q.v].by = q.u
             /\ q.u \notin q.todo
    BY DEF SocialInv, RequestsOK, Sound, Exists
  <2> QED
    BY <2>1, <2>2, <2>3, <2>4, <2>5 DEF TypeOK
<1>2. \A v \in Members : NoticesLead(v)
  BY DEF SocialInv, NoticesOK, Leads, NoticesLead
<1> QED
  BY <1>1, <1>2

\* A request, a post and a draft, field by field.
LEMMA RequestFields ==
  ASSUME NEW q \in RequestType
  PROVE  /\ q.pc = "idle" => q = Idle
         /\ q.pc # "idle" => q.u \in Members
         /\ q.pc \in {"follow", "toggle"} => q.v \in Members \cup Rooms /\ q.seen \in {None, "ROW", Gone} /\ q.todo = {}
         /\ q.pc = "unfollow" => q.v \in Members
         /\ q.pc = "insert" => q.v = None /\ q.seen \in Drafts /\ q.todo = {}
         /\ q.pc \in {"announce", "tell", "mention", "notify"} =>
              q.v \in Posts /\ q.seen \in SUBSET Members /\ q.todo \in SUBSET Members
         /\ q.pc \in {"delete", "clear"} => q.v \in Posts /\ q.seen = None /\ q.todo = {}
         /\ q.pc \in {"idle", "follow", "toggle", "unfollow", "insert", "announce", "tell", "mention", "notify", "delete", "clear"}
BY DEF RequestType, Idle

LEMMA PostFields ==
  ASSUME NEW p \in PostType, p # NoPost
  PROVE  /\ p.room \in Rooms /\ p.by \in Members /\ p.type \in {"GENERAL", "RECRUITMENT"}
         /\ p.quotes \in Posts \cup {None} /\ p.status \in {"VISIBLE", "HIDDEN", "DELETED"} /\ p.gone \in BOOLEAN /\ p.at \in Nat
BY DEF PostType

LEMMA DraftFields ==
  ASSUME NEW d \in Drafts
  PROVE  /\ d.room \in Rooms /\ d.type \in {"GENERAL", "RECRUITMENT"}
         /\ d.quotes \in Posts \cup {None} /\ d.names \in SUBSET Members
BY DEF Drafts

LEMMA IdleSound ==
  ASSUME NEW posts, NEW mentions
  PROVE  Sound(Idle, posts, mentions)
BY SocialAssumption DEF Sound, Idle, RequestType

LEMMA SoundKeeps ==
  ASSUME Grows, MentionsKept, NEW q, Sound(q, post, mention)
  PROVE  Sound(q, post', mention')
<1>1. q \in RequestType
  BY DEF Sound
<1>2. q.pc = "insert" => q.seen.quotes \in Posts \cup {None}
  BY <1>1, RequestFields, DraftFields
<1>3. q.pc \in {"announce", "tell", "mention", "notify"} => q.v \in Posts /\ q.todo \in SUBSET Members
  BY <1>1, RequestFields
<1>4. q.pc \in {"delete", "clear"} => q.v \in Posts
  BY <1>1, RequestFields
<1> QED
  BY <1>1, <1>2, <1>3, <1>4 DEF Sound, Grows, MentionsKept

LEMMA LeadsKeeps ==
  ASSUME Grows, MentionsKept, NEW u \in Members, NEW n, Leads(n, u, post, mention)
  PROVE  Leads(n, u, post', mention')
<1>1. n.post \in Posts
  BY DEF Leads, NoticeType
<1> QED
  BY <1>1 DEF Leads, Grows, MentionsKept

\* One request moves on, to something that is sound.
LEMMA RequestsMove ==
  ASSUME SocialInv, Grows, MentionsKept, NEW r \in Requests, NEW q, Sound(q, post', mention'), Put(r, q)
  PROVE  RequestsOK'
<1>1. request \in [Requests -> RequestType] /\ request' = [request EXCEPT ![r] = q] /\ q \in RequestType
  BY DEF SocialInv, RequestsOK, Put, Sound
<1>2. ASSUME NEW s \in Requests PROVE Sound(request'[s], post', mention')
  <2>1. CASE s = r
    BY <1>1, <2>1
  <2>2. CASE s # r
    BY <1>1, <2>2, SoundKeeps DEF SocialInv, RequestsOK
  <2> QED
    BY <2>1, <2>2
<1> QED
  BY <1>1, <1>2 DEF RequestsOK

LEMMA RequestsEnd ==
  ASSUME SocialInv, Grows, MentionsKept, NEW r \in Requests, Finish(r)
  PROVE  RequestsOK'
BY IdleSound, RequestsMove DEF Finish

LEMMA NoticesKeep ==
  ASSUME SocialInv, Grows, MentionsKept, UNCHANGED notice
  PROVE  NoticesOK'
BY LeadsKeeps DEF SocialInv, NoticesOK

LEMMA NothingLost ==
  ASSUME UNCHANGED <<post, mention>>
  PROVE  Grows /\ MentionsKept
BY DEF Grows, MentionsKept

\* Posts and news stay as they are.
LEMMA OnlyTies ==
  ASSUME SocialInv, UNCHANGED <<post, news>>, TiesOK', RequestsOK'
  PROVE  SocialInv'
<1>1. UNCHANGED <<post, mention, notice>>
  BY DEF news
<1>2. PostsOK' /\ MentionsOK' /\ NoticesOK'
  BY <1>1 DEF SocialInv, PostsOK, MentionsOK, NoticesOK, Exists
<1> QED
  BY <1>2 DEF SocialInv

LEMMA StartInv ==
  ASSUME SocialInv, NEW r \in Requests, NEW pc, NEW u, NEW v, NEW seen, Start(r, pc, u, v, seen),
         Sound([pc |-> pc, u |-> u, v |-> v, seen |-> seen, todo |-> {}], post, mention)
  PROVE  SocialInv'
<1> DEFINE q == [pc |-> pc, u |-> u, v |-> v, seen |-> seen, todo |-> {}]
<1>1. Put(r, q) /\ UNCHANGED <<follow, block, mute, post, mention, notice>>
  BY DEF Start, ties, news
<1>2. Sound(q, post', mention')
  BY <1>1
<1> HIDE DEF q
<1>3. RequestsOK'
  BY <1>1, <1>2, NothingLost, RequestsMove
<1>4. TiesOK'
  BY <1>1 DEF SocialInv, TiesOK
<1> QED
  BY <1>1, <1>3, <1>4, OnlyTies DEF news

LEMMA CheckFollowInv ==
  ASSUME SocialInv, NEW r \in Requests, NEW u \in Members, NEW v \in Members, CheckFollow(r, u, v)
  PROVE  SocialInv'
<1> DEFINE q == [pc |-> "follow", u |-> u, v |-> v, seen |-> None, todo |-> {}]
<1>1. u # v /\ Start(r, "follow", u, v, None)
  BY DEF CheckFollow
<1>2. q \in RequestType
  BY DEF RequestType
<1>3. Sound(q, post, mention)
  BY <1>1, <1>2 DEF Sound
<1> QED
  BY <1>1, <1>3, StartInv

LEMMA CheckRoomInv ==
  ASSUME SocialInv, NEW r \in Requests, NEW u \in Members, NEW room \in Rooms, CheckRoom(r, u, room)
  PROVE  SocialInv'
<1> DEFINE q == [pc |-> "follow", u |-> u, v |-> room, seen |-> None, todo |-> {}]
<1>1. u # room /\ Start(r, "follow", u, room, None)
  BY SocialAssumption DEF CheckRoom
<1>2. q \in RequestType
  BY DEF RequestType
<1>3. Sound(q, post, mention)
  BY <1>1, <1>2 DEF Sound
<1> QED
  BY <1>1, <1>3, StartInv

LEMMA ReadFollowInv ==
  ASSUME SocialInv, NEW r \in Requests, ReadFollow(r)
  PROVE  SocialInv'
<1> DEFINE q == request[r]
           seen == IF <<q.u, q.v>> \in follow THEN "ROW" ELSE None
           new == [q EXCEPT !.pc = "toggle", !.seen = seen]
<1>1. /\ q.pc = "follow" /\ Put(r, new) /\ UNCHANGED <<follow, block, mute, post, mention, notice>>
      /\ Sound(q, post, mention)
  BY DEF ReadFollow, ties, news, SocialInv, RequestsOK
<1>2. /\ q \in [pc : {"follow", "toggle"}, u : Members, v : Members \cup Rooms, seen : {None, "ROW", Gone}, todo : {{}}]
      /\ q.u # q.v
  BY <1>1 DEF Sound, RequestType, Idle
<1>3. seen \in {None, "ROW", Gone}
  OBVIOUS
<1> HIDE DEF seen
<1>4. new \in [pc : {"follow", "toggle"}, u : Members, v : Members \cup Rooms, seen : {None, "ROW", Gone}, todo : {{}}]
      /\ new.pc = "toggle" /\ new.u = q.u /\ new.v = q.v /\ new.todo = {}
  BY <1>2, <1>3
<1>5. Sound(new, post', mention')
  BY <1>2, <1>4 DEF Sound, RequestType
<1> HIDE DEF new
<1>6. RequestsOK'
  BY <1>1, <1>5, NothingLost, RequestsMove
<1>7. TiesOK'
  BY <1>1 DEF SocialInv, TiesOK
<1> QED
  BY <1>1, <1>6, <1>7, OnlyTies DEF news

LEMMA FollowInv ==
  ASSUME SocialInv, NEW r \in Requests, Follow(r)
  PROVE  SocialInv'
<1> DEFINE q == request[r]
<1>1. /\ q.pc = "toggle" /\ follow' = follow \cup {<<q.u, q.v>>} /\ Finish(r)
      /\ UNCHANGED <<block, mute, post, mention, notice>> /\ Sound(q, post, mention)
  BY DEF Follow, news, SocialInv, RequestsOK
<1>2. q.u \in Members /\ q.v \in Members \cup Rooms /\ q.u # q.v
  BY <1>1, RequestFields DEF Sound
<1>3. TiesOK'
  BY <1>1, <1>2 DEF SocialInv, TiesOK
<1> QED
  BY <1>1, <1>3, NothingLost, RequestsEnd, OnlyTies DEF news

\* Follows that are deleted, and the ids that other requests hold of them.
LEMMA DropInv ==
  ASSUME SocialInv, NEW r \in Requests, NEW gone, Drop(r, gone), follow' = follow \ gone,
         UNCHANGED <<block, mute, post, news>>
  PROVE  SocialInv'
<1>1. UNCHANGED <<block, mute, post, mention, notice>>
  BY DEF news
<1>2. ASSUME NEW s \in Requests PROVE Sound(request'[s], post', mention')
  <2>1. Sound(request[s], post', mention')
    BY <1>1 DEF SocialInv, RequestsOK
  <2>2. CASE request'[s] = Idle
    BY <2>2, IdleSound
  <2>3. CASE request'[s] = request[s]
    BY <2>1, <2>3
  <2>4. CASE request[s].pc = "toggle" /\ request'[s] = [request[s] EXCEPT !.seen = Gone]
    <3>1. request[s] \in [pc : {"follow", "toggle"}, u : Members, v : Members \cup Rooms, seen : {None, "ROW", Gone}, todo : {{}}]
      BY <2>1, <2>4 DEF Sound, RequestType, Idle
    <3>2. /\ request'[s] \in [pc : {"follow", "toggle"}, u : Members, v : Members \cup Rooms, seen : {None, "ROW", Gone}, todo : {{}}]
          /\ request'[s].pc = "toggle" /\ request'[s].u = request[s].u /\ request'[s].v = request[s].v
          /\ request'[s].todo = {}
      BY <2>4, <3>1
    <3> QED
      BY <2>1, <2>4, <3>2 DEF Sound, RequestType
  <2> QED
    BY <2>2, <2>3, <2>4 DEF Drop
<1>3. RequestsOK'
  <2>1. \A s \in Requests : request'[s] \in RequestType
    BY <1>2 DEF Sound
  <2>2. request' \in [Requests -> RequestType]
    BY <2>1 DEF Drop
  <2> QED
    BY <1>2, <2>2 DEF RequestsOK
<1>4. TiesOK'
  BY <1>1 DEF SocialInv, TiesOK
<1> QED
  BY <1>3, <1>4, OnlyTies

LEMMA BlockInv ==
  ASSUME SocialInv, NEW r \in Requests, NEW u \in Members, NEW v \in Members, Block(r, u, v)
  PROVE  SocialInv'
<1> DEFINE q == [Idle EXCEPT !.pc = "unfollow", !.u = u, !.v = v]
<1>1. /\ u # v /\ block' = block \cup {<<u, v>>} /\ Put(r, q)
      /\ UNCHANGED <<follow, mute, post, mention, notice>>
  BY DEF Block, news
<1>2. q \in [pc : {"unfollow"}, u : Members, v : Members, seen : {None}, todo : {{}}] /\ q.u = u /\ q.v = v
  BY DEF Idle
<1> HIDE DEF q
<1>3. Sound(q, post', mention')
  BY <1>1, <1>2 DEF Sound, RequestType
<1>4. RequestsOK'
  BY <1>1, <1>3, NothingLost, RequestsMove
<1>5. TiesOK'
  BY <1>1 DEF SocialInv, TiesOK
<1> QED
  BY <1>1, <1>4, <1>5, OnlyTies DEF news

LEMMA TiesInv ==
  ASSUME SocialInv, NEW u \in Members, NEW v \in Members, Unblock(u, v) \/ Mute(u, v) \/ Unmute(u, v)
  PROVE  SocialInv'
<1>1. UNCHANGED <<post, mention, notice, request>>
  BY DEF Unblock, Mute, Unmute, news
<1>2. TiesOK'
  BY DEF Unblock, Mute, Unmute, SocialInv, TiesOK
<1>3. RequestsOK'
  BY <1>1 DEF SocialInv, RequestsOK
<1> QED
  BY <1>1, <1>2, <1>3, OnlyTies DEF news

LEMMA FailInv ==
  ASSUME SocialInv, NEW r \in Requests, Fail(r)
  PROVE  SocialInv'
<1>1. Finish(r) /\ UNCHANGED <<follow, block, mute, post, mention, notice>>
  BY DEF Fail, ties, news
<1>2. TiesOK'
  BY <1>1 DEF SocialInv, TiesOK
<1> QED
  BY <1>1, <1>2, NothingLost, RequestsEnd, OnlyTies DEF news

\* A post that comes, or whose status changes.
LEMMA RowInv ==
  ASSUME SocialInv, NEW p \in Posts, NEW row \in PostType, row # NoPost, row.quotes # None => Exists(row.quotes),
         post[p] # NoPost => /\ row.by = post[p].by /\ row.room = post[p].room
                             /\ post[p].gone => row.gone,
         post' = [post EXCEPT ![p] = row], UNCHANGED mention
  PROVE  PostsOK' /\ MentionsOK' /\ Grows /\ MentionsKept
<1>1. post \in [Posts -> PostType] /\ post'[p] = row /\ \A o \in Posts : o # p => post'[o] = post[o]
  BY DEF SocialInv, PostsOK
<1>2. Grows /\ MentionsKept
  BY <1>1 DEF Grows, MentionsKept
<1>3. PostsOK'
  <2>1. post' \in [Posts -> PostType]
    BY <1>1
  <2>2. ASSUME NEW o \in Posts, post'[o] # NoPost, post'[o].quotes # None PROVE post'[post'[o].quotes] # NoPost
    <3>1. CASE o = p
      <4>1. row.quotes \in Posts /\ post[row.quotes] # NoPost
        BY <1>1, <2>2, <3>1, PostFields DEF Exists
      <4> QED
        BY <1>1, <1>2, <3>1, <4>1 DEF Grows
    <3>2. CASE o # p
      <4>1. post[o] # NoPost /\ post'[o] = post[o] /\ post[o].quotes \in Posts /\ post[post[o].quotes] # NoPost
        BY <1>1, <2>2, <3>2, PostFields DEF SocialInv, PostsOK, Exists
      <4> QED
        BY <1>2, <4>1 DEF Grows
    <3> QED
      BY <3>1, <3>2
  <2> QED
    BY <2>1, <2>2 DEF PostsOK, Exists
<1>4. MentionsOK'
  BY <1>2 DEF SocialInv, MentionsOK, Grows, Exists
<1> QED
  BY <1>2, <1>3, <1>4

LEMMA LookPostInv ==
  ASSUME SocialInv, NEW r \in Requests, NEW u \in Members, NEW draft \in Drafts, LookPost(r, u, draft)
  PROVE  SocialInv'
<1> DEFINE q == [pc |-> "insert", u |-> u, v |-> None, seen |-> draft, todo |-> {}]
<1>1. Start(r, "insert", u, None, draft) /\ (draft.quotes # None => Exists(draft.quotes))
  BY DEF LookPost, Quotable
<1>2. q \in RequestType
  BY DEF RequestType
<1>3. Sound(q, post, mention)
  BY <1>1, <1>2 DEF Sound, Exists
<1> QED
  BY <1>1, <1>3, StartInv

LEMMA CountIsNat == Cardinality({o \in Posts : Exists(o)}) \in Nat
<1>1. {o \in Posts : Exists(o)} \subseteq Posts /\ IsFiniteSet(Posts)
  BY SocialAssumption DEF Exists
<1> QED
  BY <1>1, FS_Subset, FS_CardinalityType

LEMMA InsertPostInv ==
  ASSUME SocialInv, NEW r \in Requests, NEW p \in Posts, NEW status \in {"VISIBLE", "HIDDEN"}, InsertPost(r, p, status)
  PROVE  SocialInv'
<1> DEFINE q == request[r]
           at == Cardinality({o \in Posts : Exists(o)})
           row == [room |-> q.seen.room, by |-> q.u, type |-> q.seen.type, quotes |-> q.seen.quotes,
                   status |-> status, gone |-> FALSE, at |-> at]
           new == [q EXCEPT !.pc = "announce", !.v = p, !.seen = q.seen.names]
<1>1. /\ q.pc = "insert" /\ post[p] = NoPost /\ post' = [post EXCEPT ![p] = row] /\ Put(r, new)
      /\ UNCHANGED <<follow, block, mute, mention, notice>> /\ Sound(q, post, mention)
  <2>1. post' = [post EXCEPT ![p] = row] /\ Put(r, new)
    BY DEF InsertPost
  <2>2. q.pc = "insert" /\ post[p] = NoPost /\ UNCHANGED <<follow, block, mute, mention, notice>>
    BY DEF InsertPost, Exists, ties, news
  <2>3. Sound(q, post, mention)
    BY DEF SocialInv, RequestsOK
  <2> QED
    BY <2>1, <2>2, <2>3
<1>2. /\ q \in [pc : {"insert"}, u : Members, v : {None}, seen : Drafts, todo : {{}}]
      /\ q.seen.quotes # None => Exists(q.seen.quotes)
  BY <1>1 DEF Sound, RequestType, Idle, Exists
<1>3. at \in Nat
  BY CountIsNat
<1>4. q.seen.room \in Rooms /\ q.seen.names \in SUBSET Members /\ q.u \in Members
      /\ q.seen.type \in {"GENERAL", "RECRUITMENT"} /\ q.seen.quotes \in Posts \cup {None}
  BY <1>2, DraftFields
<1> HIDE DEF at
<1>5. row \in PostType /\ row.room \in Rooms /\ row.by = q.u /\ row.quotes = q.seen.quotes
  BY <1>3, <1>4 DEF PostType
<1> HIDE DEF row
<1>6. row # NoPost
  BY <1>5, SocialAssumption DEF NoPost
<1>7. PostsOK' /\ MentionsOK' /\ Grows /\ MentionsKept
  BY <1>1, <1>2, <1>5, <1>6, RowInv
<1>8. /\ new \in [pc : {"announce"}, u : Members, v : Posts, seen : SUBSET Members, todo : {{}}]
      /\ new.pc = "announce" /\ new.u = q.u /\ new.v = p /\ new.todo = {}
  BY <1>2, <1>4
<1> HIDE DEF new
<1>9. Sound(new, post', mention')
  <2>1. new \in RequestType
    BY <1>8 DEF RequestType
  <2>2. post'[p] = row
    BY <1>1 DEF SocialInv, PostsOK
  <2> QED
    BY <1>5, <1>6, <1>8, <2>1, <2>2 DEF Sound
<1>10. RequestsOK' /\ NoticesOK'
  BY <1>1, <1>7, <1>9, RequestsMove, NoticesKeep
<1>11. TiesOK'
  BY <1>1 DEF SocialInv, TiesOK
<1> QED
  BY <1>7, <1>10, <1>11 DEF SocialInv

\* Somebody deletes a post, or a moderator changes what becomes of it.
WithStatus(p, status) ==
  {[post[p] EXCEPT !.status = status], [post[p] EXCEPT !.status = status, !.gone = TRUE]}

LEMMA StatusRow ==
  ASSUME SocialInv, NEW p \in Posts, post[p] # NoPost, NEW status \in {"VISIBLE", "HIDDEN", "DELETED"},
         NEW row \in WithStatus(p, status)
  PROVE  /\ row \in PostType /\ row # NoPost /\ row.by = post[p].by /\ row.status = status /\ row.room = post[p].room
         /\ row.quotes = post[p].quotes /\ (row.quotes # None => Exists(row.quotes)) /\ row.at = post[p].at
         /\ post[p].gone => row.gone
<1>1. post[p] \in [room : Rooms, by : Members, type : {"GENERAL", "RECRUITMENT"}, quotes : Posts \cup {None},
                   status : {"VISIBLE", "HIDDEN", "DELETED"}, gone : BOOLEAN, at : Nat]
      /\ (post[p].quotes # None => Exists(post[p].quotes))
  BY DEF SocialInv, PostsOK, PostType, Exists
<1>2. row \in [room : Rooms, by : Members, type : {"GENERAL", "RECRUITMENT"}, quotes : Posts \cup {None},
               status : {"VISIBLE", "HIDDEN", "DELETED"}, gone : BOOLEAN, at : Nat]
      /\ row.by = post[p].by /\ row.status = status /\ row.room = post[p].room
      /\ row.quotes = post[p].quotes /\ row.at = post[p].at /\ (row.gone = post[p].gone \/ row.gone = TRUE)
  <2>1. CASE row = [post[p] EXCEPT !.status = status]
    BY <1>1, <2>1
  <2>2. CASE row = [post[p] EXCEPT !.status = status, !.gone = TRUE]
    BY <1>1, <2>2
  <2> QED
    BY <2>1, <2>2 DEF WithStatus
<1>3. row # NoPost
  BY <1>2, SocialAssumption DEF NoPost
<1>4. row \in PostType
  BY <1>2 DEF PostType
<1> QED
  BY <1>1, <1>2, <1>3, <1>4

LEMMA LookDeleteInv ==
  ASSUME SocialInv, NEW r \in Requests, NEW u \in Members, NEW p \in Posts, LookDelete(r, u, p)
  PROVE  SocialInv'
<1> DEFINE q == [pc |-> "delete", u |-> u, v |-> p, seen |-> None, todo |-> {}]
<1>1. Start(r, "delete", u, p, None) /\ post[p] # NoPost /\ post[p].by = u
  BY DEF LookDelete, Exists
<1>2. q \in RequestType
  BY DEF RequestType
<1>3. Sound(q, post, mention)
  BY <1>1, <1>2 DEF Sound
<1> QED
  BY <1>1, <1>3, StartInv

LEMMA DeleteInv ==
  ASSUME SocialInv, NEW r \in Requests, Delete(r)
  PROVE  SocialInv'
<1> DEFINE q == request[r]
           p == q.v
           row == [post[p] EXCEPT !.status = "DELETED", !.gone = TRUE]
           new == [q EXCEPT !.pc = "clear"]
<1>1. /\ q.pc = "delete" /\ post' = [post EXCEPT ![p] = row] /\ Put(r, new)
      /\ UNCHANGED <<follow, block, mute, mention, notice>> /\ Sound(q, post, mention)
  BY DEF Delete, ties, news, SocialInv, RequestsOK
<1>2. /\ q \in [pc : {"delete", "clear"}, u : Members, v : Posts, seen : {None}, todo : {{}}]
      /\ post[p] # NoPost /\ post[p].by = q.u
  BY <1>1 DEF Sound, RequestType, Idle
<1>3. /\ row \in PostType /\ row # NoPost /\ row.by = post[p].by /\ row.room = post[p].room
      /\ row.gone /\ (row.quotes # None => Exists(row.quotes))
  <2>1. row \in WithStatus(p, "DELETED")
    BY DEF WithStatus
  <2>2. row.gone
    BY <1>2 DEF SocialInv, PostsOK, PostType
  <2> HIDE DEF row
  <2> QED
    BY <1>2, <2>1, <2>2, StatusRow
<1>4. /\ new \in [pc : {"delete", "clear"}, u : Members, v : Posts, seen : {None}, todo : {{}}]
      /\ new.pc = "clear" /\ new.u = q.u /\ new.v = p /\ new.todo = {}
  BY <1>2
<1>5. p \in Posts
  BY <1>2
<1> HIDE DEF row, new
<1>6. PostsOK' /\ MentionsOK' /\ Grows /\ MentionsKept
  BY <1>1, <1>3, <1>5, RowInv
<1>7. Sound(new, post', mention')
  <2>1. new \in RequestType
    BY <1>4 DEF RequestType
  <2>2. post'[p] = row
    BY <1>1, <1>5 DEF SocialInv, PostsOK
  <2> QED
    BY <1>2, <1>3, <1>4, <2>1, <2>2 DEF Sound
<1>8. RequestsOK' /\ NoticesOK'
  BY <1>1, <1>6, <1>7, RequestsMove, NoticesKeep
<1>9. TiesOK'
  BY <1>1 DEF SocialInv, TiesOK
<1> QED
  BY <1>6, <1>8, <1>9 DEF SocialInv

LEMMA ModerateInv ==
  ASSUME SocialInv, NEW p \in Posts, Moderate(p)
  PROVE  SocialInv'
<1>1. PICK status \in {"VISIBLE", "HIDDEN"} :
        /\ post[p] # NoPost /\ post' = [post EXCEPT ![p] = [post[p] EXCEPT !.status = status]]
        /\ UNCHANGED <<follow, block, mute, mention, notice, request>>
  BY DEF Moderate, Exists, ties, news
<1>2. PICK row \in WithStatus(p, status) : row = [post[p] EXCEPT !.status = status]
  BY DEF WithStatus
<1>3. /\ row \in PostType /\ row # NoPost /\ row.by = post[p].by /\ row.room = post[p].room
      /\ row.quotes # None => Exists(row.quotes)
      /\ post[p].gone => row.gone
  BY <1>1, StatusRow
<1>4. PostsOK' /\ MentionsOK' /\ Grows /\ MentionsKept
  BY <1>1, <1>2, <1>3, RowInv
<1>5. NoticesOK'
  BY <1>1, <1>4, NoticesKeep
<1>6. RequestsOK'
  BY <1>1, <1>4, SoundKeeps DEF SocialInv, RequestsOK
<1>7. TiesOK'
  BY <1>1 DEF SocialInv, TiesOK
<1> QED
  BY <1>4, <1>5, <1>6, <1>7 DEF SocialInv

\* Ties and posts stay as they are, and only what is deleted loses its mentions.
LEMMA OnlyNews ==
  ASSUME SocialInv, UNCHANGED <<ties, post>>, MentionsKept, MentionsOK', NoticesOK', RequestsOK'
  PROVE  SocialInv'
<1>1. UNCHANGED <<follow, block, mute, post>>
  BY DEF ties
<1>2. TiesOK' /\ PostsOK'
  BY <1>1 DEF SocialInv, TiesOK, PostsOK, Exists
<1> QED
  BY <1>2 DEF SocialInv

\* One step further on with a post that is being published.
Publishing(pc) ==
  [pc : {pc}, u : Members, v : Posts, seen : SUBSET Members, todo : SUBSET Members]

LEMMA PublishingSound ==
  ASSUME NEW pc \in {"announce", "tell", "mention", "notify"}, NEW q \in Publishing(pc), NEW posts, NEW mentions,
         posts[q.v] # NoPost, posts[q.v].by = q.u, q.u \notin q.todo,
         pc = "notify" => \A u \in q.todo : <<q.v, u>> \in mentions
  PROVE  Sound(q, posts, mentions)
<1>1. q \in [pc : {"announce", "tell", "mention", "notify"}, u : Members, v : Posts, seen : SUBSET Members, todo : SUBSET Members]
      /\ q.pc = pc
  BY DEF Publishing
<1>2. q \in RequestType
  BY <1>1 DEF RequestType
<1> QED
  BY <1>1, <1>2 DEF Sound

LEMMA PublishingIs ==
  ASSUME SocialInv, NEW r \in Requests, request[r].pc \in {"announce", "tell", "mention", "notify"}
  PROVE  /\ request[r] \in Publishing(request[r].pc)
         /\ post[request[r].v] # NoPost /\ post[request[r].v].by = request[r].u /\ request[r].u \notin request[r].todo
<1>1. Sound(request[r], post, mention)
  BY DEF SocialInv, RequestsOK
<1>2. request[r] \in [pc : {"announce", "tell", "mention", "notify"}, u : Members, v : Posts, seen : SUBSET Members, todo : SUBSET Members]
  BY <1>1 DEF Sound, RequestType, Idle
<1> QED
  BY <1>1, <1>2 DEF Sound, Publishing

LEMMA AnnounceInv ==
  ASSUME SocialInv, NEW r \in Requests, Announce(r)
  PROVE  SocialInv'
<1> DEFINE q == request[r]
           todo == {f \in Members : <<f, post[q.v].room>> \in follow} \ {q.u}
           new == [q EXCEPT !.pc = "tell", !.todo = todo]
<1>1. q.pc = "announce" /\ Put(r, new) /\ UNCHANGED <<ties, post, mention, notice>>
  BY DEF Announce, news
<1>2. q \in Publishing("announce") /\ post[q.v] # NoPost /\ post[q.v].by = q.u
  BY <1>1, PublishingIs
<1>3. todo \in SUBSET Members /\ q.u \notin todo
  OBVIOUS
<1> HIDE DEF todo
<1>4. new \in Publishing("tell") /\ new.u = q.u /\ new.v = q.v /\ new.todo = todo
  BY <1>2, <1>3 DEF Publishing
<1> HIDE DEF new
<1>5. Sound(new, post', mention')
  BY <1>1, <1>2, <1>3, <1>4, PublishingSound
<1>6. RequestsOK' /\ NoticesOK'
  BY <1>1, <1>5, NothingLost, RequestsMove, NoticesKeep
<1>7. MentionsOK' /\ MentionsKept
  BY <1>1, NothingLost DEF SocialInv, MentionsOK, Exists
<1> QED
  BY <1>1, <1>6, <1>7, OnlyNews

\* Another notice, at the end or in the place of one.
LEMMA RowOfNotices ==
  ASSUME NEW s \in Seq(NoticeType), NEW row \in NoticeType
  PROVE  /\ Append(s, row) \in Seq(NoticeType)
         /\ \A i \in DOMAIN Append(s, row) : Append(s, row)[i] = row \/ (i \in DOMAIN s /\ Append(s, row)[i] = s[i])
         /\ DOMAIN Append(s, row) = 1 .. Len(s) + 1 /\ DOMAIN s = 1 .. Len(s)
         /\ \A n \in DOMAIN s : /\ [s EXCEPT ![n] = row] \in Seq(NoticeType)
                                /\ DOMAIN [s EXCEPT ![n] = row] = DOMAIN s
                                /\ \A i \in DOMAIN s : [s EXCEPT ![n] = row][i] = IF i = n THEN row ELSE s[i]
<1>1. ASSUME NEW S, NEW t \in Seq(S), NEW x \in S
      PROVE  /\ Append(t, x) \in Seq(S) /\ DOMAIN t = 1 .. Len(t) /\ DOMAIN Append(t, x) = 1 .. Len(t) + 1
             /\ Append(t, x)[Len(t) + 1] = x /\ \A i \in 1 .. Len(t) : Append(t, x)[i] = t[i] /\ t[i] \in S
  BY <1>1, AppendProperties
<1>2. ASSUME NEW S, NEW t \in Seq(S), NEW x \in S, NEW n \in DOMAIN t
      PROVE  [t EXCEPT ![n] = x] \in Seq(S)
  OBVIOUS
<1>3. \A n \in DOMAIN s : [s EXCEPT ![n] = row] \in Seq(NoticeType)
  BY <1>2
<1>4. Len(s) \in Nat
  OBVIOUS
<1>5. \A i \in DOMAIN Append(s, row) : Append(s, row)[i] = row \/ (i \in DOMAIN s /\ Append(s, row)[i] = s[i])
  <2>1. DOMAIN s = 1 .. Len(s) /\ DOMAIN Append(s, row) = 1 .. Len(s) + 1
        /\ Append(s, row)[Len(s) + 1] = row /\ \A i \in 1 .. Len(s) : Append(s, row)[i] = s[i]
    BY <1>1
  <2> QED
    BY <1>4, <2>1
<1> QED
  BY <1>1, <1>3, <1>5

LEMMA TellInv ==
  ASSUME SocialInv, NEW r \in Requests, NEW f \in Members, Tell(r, f)
  PROVE  SocialInv'
<1> DEFINE q == request[r]
           new == [q EXCEPT !.todo = @ \ {f}]
           row == [kind |-> "NEWS", post |-> q.v, actor |-> q.u]
<1>1. q.pc = "tell" /\ f \in q.todo /\ Put(r, new) /\ UNCHANGED <<ties, post, mention>>
  BY DEF Tell
<1>2. q \in Publishing("tell") /\ post[q.v] # NoPost /\ post[q.v].by = q.u /\ q.u \notin q.todo
  BY <1>1, PublishingIs
<1>3. new \in Publishing("tell") /\ new.u = q.u /\ new.v = q.v /\ new.todo = q.todo \ {f}
  BY <1>2 DEF Publishing
<1>4. row \in NoticeType /\ row.kind = "NEWS" /\ row.post = q.v /\ row.actor = q.u
  BY <1>2 DEF NoticeType, Publishing
<1>5. \/ notice' = [notice EXCEPT ![f] = Append(@, row)]
      \/ \E i \in DOMAIN notice[f] : notice' = [notice EXCEPT ![f] = [@ EXCEPT ![i] = row]]
  BY DEF Tell
<1> HIDE DEF new, row
<1>6. Sound(new, post', mention')
  BY <1>1, <1>2, <1>3, PublishingSound
<1>7. Grows /\ MentionsKept
  BY <1>1, NothingLost
<1>8. RequestsOK'
  BY <1>1, <1>6, <1>7, RequestsMove
<1>9. NoticesOK'
  <2>1. notice \in [Members -> Seq(NoticeType)]
        /\ \A u \in Members : \A i \in DOMAIN notice[u] : Leads(notice[u][i], u, post, mention)
    BY DEF SocialInv, NoticesOK
  <2>2. Leads(row, f, post, mention)
    BY <1>1, <1>2, <1>4 DEF Leads
  <2>3. /\ notice'[f] \in Seq(NoticeType)
        /\ \A i \in DOMAIN notice'[f] : notice'[f][i] = row \/ (i \in DOMAIN notice[f] /\ notice'[f][i] = notice[f][i])
        /\ \A u \in Members : u # f => notice'[u] = notice[u]
        /\ notice' \in [Members -> Seq(NoticeType)]
    <3>1. PICK s \in Seq(NoticeType) : s = notice[f]
      BY <2>1
    <3>2. CASE notice' = [notice EXCEPT ![f] = Append(@, row)]
      <4>1. PICK t : t = Append(s, row)
        OBVIOUS
      <4>2. t \in Seq(NoticeType) /\ \A i \in DOMAIN t : t[i] = row \/ (i \in DOMAIN s /\ t[i] = s[i])
        BY <1>4, <4>1, RowOfNotices
      <4>3. notice' = [notice EXCEPT ![f] = t]
        BY <3>1, <3>2, <4>1
      <4> QED
        BY <2>1, <3>1, <4>2, <4>3
    <3>3. CASE \E i \in DOMAIN notice[f] : notice' = [notice EXCEPT ![f] = [@ EXCEPT ![i] = row]]
      <4>1. PICK n \in DOMAIN s : notice' = [notice EXCEPT ![f] = [s EXCEPT ![n] = row]]
        BY <3>1, <3>3
      <4>2. PICK t : t = [s EXCEPT ![n] = row]
        OBVIOUS
      <4>3. t \in Seq(NoticeType) /\ DOMAIN t = DOMAIN s /\ \A i \in DOMAIN s : t[i] = row \/ t[i] = s[i]
        BY <1>4, <4>2, RowOfNotices
      <4> QED
        BY <2>1, <3>1, <4>1, <4>2, <4>3
    <3> QED
      BY <1>5, <3>2, <3>3
  <2> QED
    BY <1>1, <2>1, <2>2, <2>3 DEF NoticesOK
<1>10. MentionsOK'
  BY <1>1 DEF SocialInv, MentionsOK, Exists
<1> QED
  BY <1>1, <1>7, <1>8, <1>9, <1>10, OnlyNews

LEMMA DetachInv ==
  ASSUME SocialInv, NEW r \in Requests, Detach(r)
  PROVE  SocialInv'
<1> DEFINE q == request[r]
           named == {u \in q.seen \ {q.u} : ~Blocked(q.u, u)}
           new == [q EXCEPT !.pc = "mention", !.todo = named]
<1>1. q.pc = "tell" /\ (Finish(r) \/ Put(r, new)) /\ UNCHANGED <<ties, post, mention, notice>>
  BY DEF Detach, news
<1>2. q \in Publishing("tell") /\ post[q.v] # NoPost /\ post[q.v].by = q.u
  BY <1>1, PublishingIs
<1>3. named \in SUBSET Members /\ q.u \notin named
  BY <1>2 DEF Publishing
<1> HIDE DEF named
<1>4. new \in Publishing("mention") /\ new.u = q.u /\ new.v = q.v /\ new.todo = named
  BY <1>2, <1>3 DEF Publishing
<1> HIDE DEF new
<1>5. Sound(new, post', mention')
  BY <1>1, <1>2, <1>3, <1>4, PublishingSound
<1>6. RequestsOK' /\ NoticesOK'
  BY <1>1, <1>5, NothingLost, RequestsMove, RequestsEnd, NoticesKeep
<1>7. MentionsOK' /\ MentionsKept
  BY <1>1, NothingLost DEF SocialInv, MentionsOK, Exists
<1> QED
  BY <1>1, <1>6, <1>7, OnlyNews

LEMMA InsertMentionsInv ==
  ASSUME SocialInv, NEW r \in Requests, InsertMentions(r)
  PROVE  SocialInv'
<1> DEFINE q == request[r]
           new == [q EXCEPT !.pc = "notify"]
<1>1. /\ q.pc = "mention" /\ mention' = mention \cup ({q.v} \X q.todo) /\ Put(r, new)
      /\ UNCHANGED <<ties, post, notice>>
  BY DEF InsertMentions
<1>2. q \in Publishing("mention") /\ post[q.v] # NoPost /\ post[q.v].by = q.u /\ q.u \notin q.todo
  BY <1>1, PublishingIs
<1>3. new \in Publishing("notify") /\ new.u = q.u /\ new.v = q.v /\ new.todo = q.todo
  BY <1>2 DEF Publishing
<1>4. q.v \in Posts /\ q.todo \in SUBSET Members
  BY <1>2 DEF Publishing
<1> HIDE DEF new
<1>5. Grows /\ MentionsKept
  BY <1>1 DEF Grows, MentionsKept
<1>6. Sound(new, post', mention')
  <2>1. \A u \in new.todo : <<new.v, u>> \in mention'
    BY <1>1, <1>3
  <2> QED
    BY <1>1, <1>2, <1>3, <2>1, PublishingSound
<1>7. RequestsOK' /\ NoticesOK'
  BY <1>1, <1>5, <1>6, RequestsMove, NoticesKeep
<1>8. MentionsOK'
  <2>1. mention' \subseteq Posts \X Members
    BY <1>1, <1>4 DEF SocialInv, MentionsOK
  <2>2. ASSUME NEW m \in mention' PROVE post[m[1]] # NoPost /\ post[m[1]].by # m[2]
    <3>1. CASE m \in mention
      BY <3>1 DEF SocialInv, MentionsOK, Exists
    <3>2. CASE m \in {q.v} \X q.todo
      BY <1>2, <3>2
    <3> QED
      BY <1>1, <3>1, <3>2
  <2> QED
    BY <1>1, <2>1, <2>2 DEF MentionsOK, Exists
<1> QED
  BY <1>1, <1>5, <1>7, <1>8, OnlyNews

LEMMA NotifyMentionedInv ==
  ASSUME SocialInv, NEW r \in Requests, NotifyMentioned(r)
  PROVE  SocialInv'
<1> DEFINE q == request[r]
           row == [kind |-> "MENTION", post |-> q.v, actor |-> q.u]
<1>1. /\ q.pc = "notify" /\ Finish(r) /\ UNCHANGED <<ties, post, mention>>
      /\ notice' = [u \in Members |-> IF u \in q.todo THEN Append(notice[u], row) ELSE notice[u]]
      /\ Sound(q, post, mention)
  BY DEF NotifyMentioned, SocialInv, RequestsOK
<1>2. q \in Publishing("notify") /\ post[q.v] # NoPost /\ post[q.v].by = q.u /\ q.u \notin q.todo
  BY <1>1, PublishingIs
<1>3. row \in NoticeType /\ row.post = q.v /\ row.actor = q.u
  BY <1>2 DEF NoticeType, Publishing
<1> HIDE DEF row
<1>4. \A u \in q.todo : Leads(row, u, post, mention)
  BY <1>1, <1>2, <1>3 DEF Leads, Sound
<1>5. Grows /\ MentionsKept
  BY <1>1, NothingLost
<1>6. NoticesOK'
  <2>1. ASSUME NEW u \in Members
        PROVE  notice'[u] \in Seq(NoticeType) /\ \A i \in DOMAIN notice'[u] : Leads(notice'[u][i], u, post, mention)
    <3>1. notice[u] \in Seq(NoticeType) /\ \A i \in DOMAIN notice[u] : Leads(notice[u][i], u, post, mention)
      BY DEF SocialInv, NoticesOK
    <3>2. CASE u \in q.todo
      <4>1. PICK s \in Seq(NoticeType) : s = notice[u]
        BY <3>1
      <4>2. PICK t : t = Append(s, row)
        OBVIOUS
      <4>3. t \in Seq(NoticeType) /\ \A i \in DOMAIN t : t[i] = row \/ (i \in DOMAIN s /\ t[i] = s[i])
        BY <1>3, <4>2, RowOfNotices
      <4>4. notice'[u] = t
        BY <1>1, <3>2, <4>1, <4>2
      <4> QED
        BY <1>4, <3>1, <3>2, <4>1, <4>3, <4>4
    <3>3. CASE u \notin q.todo
      BY <1>1, <3>1, <3>3
    <3> QED
      BY <3>2, <3>3
  <2>2. notice' = [u \in Members |-> notice'[u]]
    BY <1>1
  <2>3. notice' \in [Members -> Seq(NoticeType)]
    BY <2>1, <2>2
  <2> QED
    BY <1>1, <2>1, <2>3 DEF NoticesOK
<1>7. RequestsOK'
  BY <1>1, <1>5, RequestsEnd
<1>8. MentionsOK'
  BY <1>1 DEF SocialInv, MentionsOK, Exists
<1> QED
  BY <1>1, <1>5, <1>6, <1>7, <1>8, OnlyNews

LEMMA ClearMentionsInv ==
  ASSUME SocialInv, NEW r \in Requests, ClearMentions(r)
  PROVE  SocialInv'
<1> DEFINE q == request[r]
<1>1. /\ q.pc = "clear" /\ mention' = mention \ ({q.v} \X Members) /\ Finish(r) /\ UNCHANGED <<ties, post, notice>>
      /\ post[q.v].gone
  BY DEF ClearMentions, SocialInv, RequestsOK, Sound
<1>2. Grows /\ MentionsKept
  BY <1>1 DEF Grows, MentionsKept
<1>3. RequestsOK' /\ NoticesOK'
  BY <1>1, <1>2, RequestsEnd, NoticesKeep
<1>4. MentionsOK'
  BY <1>1 DEF SocialInv, MentionsOK, Exists
<1> QED
  BY <1>1, <1>2, <1>3, <1>4, OnlyNews

LEMMA SocialInit == Init => SocialInv
<1> SUFFICES ASSUME Init PROVE SocialInv
  OBVIOUS
<1>1. TiesOK
  BY DEF Init, TiesOK
<1>2. PostsOK
  BY DEF Init, PostsOK, PostType, Exists
<1>3. MentionsOK
  BY DEF Init, MentionsOK
<1>4. NoticesOK
  BY DEF Init, NoticesOK
<1>5. RequestsOK
  BY IdleSound DEF Init, RequestsOK, RequestType
<1> QED
  BY <1>1, <1>2, <1>3, <1>4, <1>5 DEF SocialInv

LEMMA SocialNext == SocialInv /\ Next => SocialInv'
<1> SUFFICES ASSUME SocialInv, Next PROVE SocialInv'
  OBVIOUS
<1>1. ASSUME NEW r \in Requests, Toggle(r) PROVE SocialInv'
  <2>1. ASSUME Unfollow(r) PROVE SocialInv'
    BY <2>1, DropInv DEF Unfollow
  <2> QED
    BY <1>1, <2>1, CheckFollowInv, CheckRoomInv, ReadFollowInv, FollowInv DEF Toggle
<1>2. ASSUME NEW r \in Requests, Part(r) PROVE SocialInv'
  <2>1. ASSUME ClearFollows(r) PROVE SocialInv'
    BY <2>1, DropInv DEF ClearFollows
  <2> QED
    BY <1>2, <2>1, BlockInv DEF Part
<1>3. ASSUME NEW r \in Requests, Publish(r) PROVE SocialInv'
  BY <1>3, LookPostInv, InsertPostInv, AnnounceInv, DetachInv, InsertMentionsInv, NotifyMentionedInv, TellInv DEF Publish
<1>4. ASSUME NEW r \in Requests, TakeDown(r) PROVE SocialInv'
  BY <1>4, LookDeleteInv, DeleteInv, ClearMentionsInv DEF TakeDown
<1>5. ASSUME NEW r \in Requests, Fail(r) PROVE SocialInv'
  BY <1>5, FailInv
<1>6. ASSUME NEW u \in Members, NEW v \in Members, Unblock(u, v) \/ Mute(u, v) \/ Unmute(u, v) PROVE SocialInv'
  BY <1>6, TiesInv
<1>7. ASSUME NEW p \in Posts, Moderate(p) PROVE SocialInv'
  BY <1>7, ModerateInv
<1> QED
  BY <1>1, <1>2, <1>3, <1>4, <1>5, <1>6, <1>7 DEF Next

LEMMA SocialStutters ==
  ASSUME SocialInv, UNCHANGED vars
  PROVE  SocialInv'
BY DEF vars, ties, news, SocialInv, TiesOK, PostsOK, MentionsOK, NoticesOK, RequestsOK, Exists

\* Most requests leave posts alone.
LEMMA NextGrows == SocialInv /\ Next => Grows
<1> SUFFICES ASSUME SocialInv, Next PROVE Grows
  OBVIOUS
<1>1. \/ UNCHANGED post
      \/ \E r \in Requests : Delete(r) \/ \E p \in Posts, status \in {"VISIBLE", "HIDDEN"} : InsertPost(r, p, status)
      \/ \E p \in Posts : Moderate(p)
  <2>1. ASSUME NEW r \in Requests, Toggle(r) PROVE UNCHANGED post
    BY <2>1 DEF Toggle, CheckFollow, CheckRoom, Start, ReadFollow, Follow, Unfollow
  <2>2. ASSUME NEW r \in Requests, Part(r) PROVE UNCHANGED post
    BY <2>2 DEF Part, ClearFollows, Block
  <2>3. ASSUME NEW r \in Requests, Publish(r)
        PROVE  UNCHANGED post \/ \E p \in Posts, status \in {"VISIBLE", "HIDDEN"} : InsertPost(r, p, status)
    BY <2>3 DEF Publish, LookPost, Start, Announce, Detach, InsertMentions, NotifyMentioned, Tell
  <2>4. ASSUME NEW r \in Requests, TakeDown(r) PROVE UNCHANGED post \/ Delete(r)
    BY <2>4 DEF TakeDown, LookDelete, Start, ClearMentions
  <2>5. ASSUME NEW r \in Requests, Fail(r) PROVE UNCHANGED post
    BY <2>5 DEF Fail
  <2>6. ASSUME NEW u \in Members, NEW v \in Members, Unblock(u, v) \/ Mute(u, v) \/ Unmute(u, v) PROVE UNCHANGED post
    BY <2>6 DEF Unblock, Mute, Unmute
  <2> QED
    BY <2>1, <2>2, <2>3, <2>4, <2>5, <2>6 DEF Next
<1>2. post \in [Posts -> PostType]
  BY DEF SocialInv, PostsOK
<1>3. ASSUME NEW r \in Requests, NEW p \in Posts, NEW status, InsertPost(r, p, status) PROVE Grows
  <2>1. post[p] = NoPost /\ \A o \in Posts : o # p => post'[o] = post[o]
    BY <1>2, <1>3 DEF InsertPost, Exists
  <2> QED
    BY <2>1 DEF Grows
<1>4. ASSUME NEW p \in Posts, NEW status \in {"VISIBLE", "HIDDEN", "DELETED"}, post[p] # NoPost,
             NEW row \in WithStatus(p, status), post' = [post EXCEPT ![p] = row]
      PROVE  Grows
  <2>1. row # NoPost /\ row.by = post[p].by /\ row.room = post[p].room /\ (post[p].gone => row.gone)
    BY <1>4, StatusRow
  <2>2. post'[p] = row /\ \A o \in Posts : o # p => post'[o] = post[o]
    BY <1>2, <1>4
  <2> QED
    BY <1>4, <2>1, <2>2 DEF Grows
<1>5. ASSUME NEW r \in Requests, Delete(r) PROVE Grows
  <2>1. request[r].v \in Posts /\ post[request[r].v] # NoPost
    BY <1>5, RequestFields DEF Delete, SocialInv, RequestsOK, Sound
  <2>2. PICK row : row = [post[request[r].v] EXCEPT !.status = "DELETED", !.gone = TRUE]
    OBVIOUS
  <2>3. post' = [post EXCEPT ![request[r].v] = row] /\ row \in WithStatus(request[r].v, "DELETED")
    BY <1>5, <2>2 DEF Delete, WithStatus
  <2> QED
    BY <1>4, <2>1, <2>3
<1>6. ASSUME NEW p \in Posts, Moderate(p) PROVE Grows
  <2>1. PICK status \in {"VISIBLE", "HIDDEN"} :
          post[p] # NoPost /\ post' = [post EXCEPT ![p] = [post[p] EXCEPT !.status = status]]
    BY <1>6 DEF Moderate, Exists
  <2>2. PICK row : row = [post[p] EXCEPT !.status = status]
    OBVIOUS
  <2> QED
    BY <1>4, <2>1, <2>2 DEF WithStatus
<1>7. ASSUME UNCHANGED post PROVE Grows
  BY <1>7 DEF Grows
<1> QED
  BY <1>1, <1>3, <1>5, <1>6, <1>7

-----------------------------------------------------------------------------
(* What is computed *)

\* A run's locals have their names, and only some runs have all the steps.
JobsOK ==
  /\ DOMAIN job = Jobs
  /\ \A j \in Jobs : /\ DOMAIN job[j] = {"pc", "todo", "on", "rows"}
                     /\ job[j].pc = "insert" => j[1] = "signals"
                     /\ job[j].pc = "stamp" => j[1] = "weekly"

\* The refreshes that have deleted the signals of a hub and are about to insert.
Inserting(h) == {n \in Replicas : job[<<"signals", n>>].pc = "insert" /\ job[<<"signals", n>>].on = h}

SignalsOK ==
  /\ signal \in [Hubs -> [SignalTypes -> Nat]]
  /\ \A h \in Hubs, t \in SignalTypes : signal[h][t] + Cardinality(Inserting(h)) <= Cardinality(Replicas)

\* Posts of a hub.
OfHub(S, h, posts) == S \subseteq Posts /\ \A p \in S : posts[p] # NoPost /\ HubOf[posts[p].room] = h

DigestsOK ==
  /\ DOMAIN digest = Hubs
  /\ \A h \in Hubs : OfHub(digest[h], h, post)
  /\ \A n \in Replicas : LET q == job[<<"digest", n>>] IN q.pc = "write" => OfHub(q.rows, q.on, post)

\* A run of weekly digests goes through readers whose cooldown is over, among them
\* the one it is at.
WeeklySound(q, stamps) ==
  q # NoJob =>
    /\ q.todo \subseteq Readers /\ \A u \in q.todo : stamps[u] > Cooldown
    /\ q.pc \in {"write", "stamp"} => q.on \in Readers \ q.todo /\ stamps[q.on] > Cooldown

\* The reader has got a digest which the run has yet to stamp.
Sending(u) == \E n \in Replicas : job[<<"weekly", n>>].pc = "stamp" /\ job[<<"weekly", n>>].on = u

\* No digest came too early but for a failure; and who has a digest without a stamp,
\* which no run is about to give, owes it to a failure that has cost nothing yet.
ReaderOK(u) ==
  /\ early[u] <= failures
  /\ Sending(u) => last[u] = 0
  /\ last[u] # stamp[u] /\ ~Sending(u) => early[u] < failures

Ages == 0 .. Cooldown + 1

WeeklyTypes == failures \in Nat /\ stamp \in [Readers -> Ages] /\ last \in [Readers -> Ages] /\ early \in [Readers -> Nat]

\* There is one such run at a time.
WeeklyOK ==
  /\ WeeklyTypes
  /\ \A m, n \in Replicas : job[<<"weekly", m>>] # NoJob /\ job[<<"weekly", n>>] # NoJob => m = n
  /\ \A n \in Replicas : WeeklySound(job[<<"weekly", n>>], stamp)
  /\ \A u \in Readers : ReaderOK(u)

ComputedInv == JobsOK /\ SignalsOK /\ DigestsOK /\ WeeklyOK

LEMMA FewReplicas ==
  ASSUME NEW h
  PROVE  /\ IsFiniteSet(Inserting(h)) /\ Cardinality(Inserting(h)) \in Nat /\ Cardinality(Replicas) \in Nat
         /\ Cardinality(Inserting(h)) <= Cardinality(Replicas)
<1>1. IsFiniteSet(Replicas) /\ Inserting(h) \subseteq Replicas
  BY ComputedAssumption DEF Inserting
<1> QED
  BY <1>1, FS_Subset, FS_CardinalityType

\* Nothing is computed twice over.
LEMMA ComputedParts ==
  ASSUME ComputedInv
  PROVE  NothingTwice
<1>1. ASSUME NEW h \in Hubs, NEW t \in SignalTypes PROVE signal[h][t] <= Cardinality(Replicas)
  <2>1. signal[h][t] \in Nat /\ signal[h][t] + Cardinality(Inserting(h)) <= Cardinality(Replicas)
    BY DEF ComputedInv, SignalsOK
  <2> QED
    BY <2>1, FewReplicas
<1> QED
  BY <1>1 DEF NothingTwice, ComputedInv, WeeklyOK, ReaderOK

LEMMA JobIs ==
  ASSUME NEW j \in Jobs
  PROVE  j[1] \in Kinds /\ j[2] \in Replicas /\ j = <<j[1], j[2]>>
BY DEF Jobs

LEMMA NoJobFields == NoJob.pc = "idle" /\ DOMAIN NoJob = {"pc", "todo", "on", "rows"}
BY DEF NoJob

LEMMA DoneFields ==
  ASSUME NEW q, DOMAIN q = {"pc", "todo", "on", "rows"}
  PROVE  /\ DOMAIN Done(q) = {"pc", "todo", "on", "rows"}
         /\ Done(q).pc = "next" /\ Done(q).todo = q.todo /\ Done(q).on = None /\ Done(q).rows = q.rows
BY DEF Done

\* A run moves on.
LEMMA JobMoves ==
  ASSUME ComputedInv, NEW j \in Jobs, NEW q, PutJob(j, q), DOMAIN q = {"pc", "todo", "on", "rows"},
         q.pc = "insert" => j[1] = "signals", q.pc = "stamp" => j[1] = "weekly"
  PROVE  JobsOK' /\ job'[j] = q /\ \A i \in Jobs : i # j => job'[i] = job[i]
BY DEF PutJob, ComputedInv, JobsOK

LEMMA KindsOfJobs ==
  ASSUME NEW n \in Replicas
  PROVE  \A kind \in Kinds : <<kind, n>> \in Jobs
BY DEF Jobs

\* What other runs do leaves signals, digests and weekly digests right.
LEMMA SignalsKeep ==
  ASSUME ComputedInv, UNCHANGED signal,
         \A n \in Replicas : LET j == <<"signals", n>> IN job'[j].pc = "insert" => job'[j] = job[j]
  PROVE  SignalsOK'
<1>1. ASSUME NEW h \in Hubs, NEW t \in SignalTypes
      PROVE  signal[h][t] + Cardinality(Inserting(h)') <= Cardinality(Replicas)
  <2>1. Inserting(h)' \subseteq Inserting(h)
    BY DEF Inserting
  <2>2. Cardinality(Inserting(h)') <= Cardinality(Inserting(h)) /\ Cardinality(Inserting(h)') \in Nat
    BY <2>1, FewReplicas, FS_Subset, FS_CardinalityType
  <2>3. signal[h][t] \in Nat /\ signal[h][t] + Cardinality(Inserting(h)) <= Cardinality(Replicas)
    BY DEF ComputedInv, SignalsOK
  <2> QED
    BY <2>2, <2>3, FewReplicas
<1> QED
  BY <1>1 DEF ComputedInv, SignalsOK

LEMMA DigestsKeep ==
  ASSUME ComputedInv, UNCHANGED digest, Grows,
         \A n \in Replicas : LET j == <<"digest", n>> IN job'[j].pc = "write" => job'[j] = job[j]
  PROVE  DigestsOK'
BY DEF ComputedInv, DigestsOK, OfHub, Grows

LEMMA WeeklyKeep ==
  ASSUME ComputedInv, UNCHANGED <<stamp, last, early>>, failures' \in {failures, failures + 1},
         \A n \in Replicas : LET j == <<"weekly", n>> IN job'[j] = job[j]
  PROVE  WeeklyOK'
<1>1. \A u \in Readers : Sending(u)' <=> Sending(u)
  BY DEF Sending
<1>2. WeeklyTypes /\ WeeklyTypes' /\ failures <= failures'
  BY DEF ComputedInv, WeeklyOK, WeeklyTypes
<1>3. ASSUME NEW u \in Readers PROVE ReaderOK(u)'
  <2>1. ReaderOK(u) /\ early[u] \in Nat /\ failures \in Nat /\ failures' \in Nat
    BY <1>2 DEF ComputedInv, WeeklyOK, WeeklyTypes
  <2> QED
    BY <1>1, <1>2, <2>1 DEF ReaderOK
<1> QED
  BY <1>2, <1>3 DEF ComputedInv, WeeklyOK

\* A run moves on: what is of other kinds stays right.
LEMMA RunMoves ==
  ASSUME ComputedInv, UNCHANGED post, NEW j \in Jobs, NEW q, PutJob(j, q), DOMAIN q = {"pc", "todo", "on", "rows"},
         q.pc = "insert" => j[1] = "signals", q.pc = "stamp" => j[1] = "weekly"
  PROVE  /\ JobsOK' /\ job'[j] = q /\ \A i \in Jobs : i # j => job'[i] = job[i]
         /\ UNCHANGED signal /\ q.pc # "insert" => SignalsOK'
         /\ UNCHANGED digest /\ (j[1] # "digest" \/ q.pc # "write") => DigestsOK'
         /\ UNCHANGED <<stamp, last, early>> /\ failures' \in {failures, failures + 1} /\ j[1] # "weekly" => WeeklyOK'
<1>1. JobsOK' /\ job'[j] = q /\ \A i \in Jobs : i # j => job'[i] = job[i]
  BY JobMoves
<1>2. ASSUME NEW kind \in Kinds, NEW n \in Replicas
      PROVE  job'[<<kind, n>>] = job[<<kind, n>>] \/ (j = <<kind, n>> /\ kind = j[1] /\ job'[<<kind, n>>] = q)
  BY <1>1, KindsOfJobs
<1>3. "signals" \in Kinds /\ "digest" \in Kinds /\ "weekly" \in Kinds
  BY DEF Kinds
<1>4. Grows
  BY DEF Grows
<1>5. ASSUME UNCHANGED signal, q.pc # "insert" PROVE SignalsOK'
  <2>1. \A n \in Replicas : job'[<<"signals", n>>].pc = "insert" => job'[<<"signals", n>>] = job[<<"signals", n>>]
    BY <1>2, <1>3, <1>5
  <2> QED
    BY <1>5, <2>1, SignalsKeep
<1>6. ASSUME UNCHANGED digest, j[1] # "digest" \/ q.pc # "write" PROVE DigestsOK'
  <2>1. \A n \in Replicas : job'[<<"digest", n>>].pc = "write" => job'[<<"digest", n>>] = job[<<"digest", n>>]
    BY <1>2, <1>3, <1>6
  <2> QED
    BY <1>4, <1>6, <2>1, DigestsKeep
<1>7. ASSUME UNCHANGED <<stamp, last, early>>, failures' \in {failures, failures + 1}, j[1] # "weekly" PROVE WeeklyOK'
  <2>1. \A n \in Replicas : job'[<<"weekly", n>>] = job[<<"weekly", n>>]
    BY <1>2, <1>3, <1>7
  <2> QED
    BY <1>7, <2>1, WeeklyKeep
<1> QED
  BY <1>1, <1>5, <1>6, <1>7

\* A run of weekly digests moves on without sending or stamping.
LEMMA WeeklyMoves ==
  ASSUME ComputedInv, UNCHANGED <<last, early, failures, stamp>>, NEW j \in Jobs, j[1] = "weekly", NEW q,
         job'[j] = q, \A i \in Jobs : i # j => job'[i] = job[i],
         WeeklySound(q, stamp), q.pc # "stamp", job[j].pc # "stamp",
         q # NoJob => job[j] # NoJob \/ ~Locked("weekly")
  PROVE  WeeklyOK'
<1>1. ASSUME NEW n \in Replicas
      PROVE  job'[<<"weekly", n>>] = job[<<"weekly", n>>] \/ (j = <<"weekly", n>> /\ job'[<<"weekly", n>>] = q)
  BY KindsOfJobs DEF Kinds
<1>2. \A u \in Readers : Sending(u)' <=> Sending(u)
  BY <1>1, KindsOfJobs DEF Sending, Kinds
<1>3. ASSUME NEW m \in Replicas, NEW n \in Replicas, job'[<<"weekly", m>>] # NoJob, job'[<<"weekly", n>>] # NoJob
      PROVE  m = n
  <2>1. CASE job'[<<"weekly", m>>] = job[<<"weekly", m>>] /\ job'[<<"weekly", n>>] = job[<<"weekly", n>>]
    BY <1>3, <2>1 DEF ComputedInv, WeeklyOK
  <2>2. CASE j = <<"weekly", m>> /\ j = <<"weekly", n>>
    BY <2>2
  <2>3. CASE j = <<"weekly", m>> /\ job'[<<"weekly", n>>] = job[<<"weekly", n>>]
    BY <1>3, <2>3 DEF ComputedInv, WeeklyOK, Locked, Locking, Kinds
  <2>4. CASE j = <<"weekly", n>> /\ job'[<<"weekly", m>>] = job[<<"weekly", m>>]
    BY <1>3, <2>4 DEF ComputedInv, WeeklyOK, Locked, Locking, Kinds
  <2> QED
    BY <1>1, <2>1, <2>2, <2>3, <2>4
<1>4. \A n \in Replicas : WeeklySound(job'[<<"weekly", n>>], stamp)
  BY <1>1 DEF ComputedInv, WeeklyOK
<1>5. WeeklyTypes' /\ \A u \in Readers : ReaderOK(u)'
  BY <1>2 DEF ComputedInv, WeeklyOK, WeeklyTypes, ReaderOK
<1> QED
  BY <1>3, <1>4, <1>5 DEF ComputedInv, WeeklyOK

\* A run that begins.
LEMMA Begins ==
  ASSUME ComputedInv, UNCHANGED post, NEW j \in Jobs, NEW todo, NEW rows, Begin(j, todo, rows)
  PROVE  /\ JobsOK' /\ SignalsOK' /\ DigestsOK'
         /\ job[j] = NoJob /\ ~Locked(j[1]) /\ failures' = failures
         /\ job'[j] = [pc |-> "next", todo |-> todo, on |-> None, rows |-> rows]
         /\ \A i \in Jobs : i # j => job'[i] = job[i]
         /\ UNCHANGED <<stamp, last, early>> /\ j[1] # "weekly" => WeeklyOK'
<1> DEFINE q == [pc |-> "next", todo |-> todo, on |-> None, rows |-> rows]
<1>1. job[j] = NoJob /\ ~Locked(j[1]) /\ PutJob(j, q) /\ UNCHANGED <<signal, digest, failures>>
  BY DEF Begin
<1>2. DOMAIN q = {"pc", "todo", "on", "rows"} /\ q.pc = "next"
  OBVIOUS
<1>3. PICK r : r = q
  OBVIOUS
<1> HIDE DEF q
<1>4. PutJob(j, r) /\ DOMAIN r = {"pc", "todo", "on", "rows"} /\ r.pc = "next"
  BY <1>1, <1>2, <1>3
<1>5. /\ JobsOK' /\ job'[j] = r /\ \A i \in Jobs : i # j => job'[i] = job[i]
      /\ SignalsOK' /\ DigestsOK'
      /\ UNCHANGED <<stamp, last, early>> /\ j[1] # "weekly" => WeeklyOK'
  BY <1>1, <1>4, RunMoves
<1> QED
  BY <1>1, <1>3, <1>5 DEF q

LEMMA BeginsInv ==
  ASSUME ComputedInv, UNCHANGED post, NEW j \in Jobs, BeginRun(j) \/ BeginSimilar(j)
  PROVE  ComputedInv'
BY Begins DEF BeginRun, BeginSimilar, ComputedInv, mail

\* A run of weekly digests at its beginning, by hand or on a Sunday.
LEMMA WeeklyBegins ==
  ASSUME ComputedInv, UNCHANGED post, NEW j \in Jobs, j[1] = "weekly", NEW readers \in Take(Due, Batch),
         Begin(j, readers, {}), UNCHANGED <<stamp, last, early>>
  PROVE  ComputedInv'
<1>1. PICK q : q = [pc |-> "next", todo |-> readers, on |-> None, rows |-> {}]
  OBVIOUS
<1>2. WeeklySound(q, stamp) /\ q.pc = "next"
  BY <1>1 DEF WeeklySound, Take, Due
<1>3. NoJob.pc = "idle"
  BY NoJobFields
<1>4. /\ JobsOK' /\ SignalsOK' /\ DigestsOK' /\ job[j] = NoJob /\ ~Locked("weekly") /\ job'[j] = q
      /\ UNCHANGED <<last, early, failures, stamp>>
      /\ \A i \in Jobs : i # j => job'[i] = job[i]
  BY <1>1, Begins
<1>5. WeeklyOK'
  BY <1>2, <1>3, <1>4, WeeklyMoves
<1> QED
  BY <1>4, <1>5 DEF ComputedInv

LEMMA WeeklyBeginsInv ==
  ASSUME ComputedInv, UNCHANGED post, NEW j \in Jobs, BeginWeekly(j) \/ BeginSunday(j)
  PROVE  ComputedInv'
BY WeeklyBegins DEF BeginWeekly, BeginSunday, mail

\* Time passes for all readers alike.
LEMMA PassTimeInv ==
  ASSUME ComputedInv, UNCHANGED post, PassTime
  PROVE  ComputedInv'
<1> DEFINE older(age) == [u \in Readers |-> IF age[u] > Cooldown THEN age[u] ELSE age[u] + 1]
<1>1. /\ stamp' = older(stamp) /\ last' = older(last) /\ ~Locked("weekly")
      /\ UNCHANGED <<signal, digest, early, job, failures>>
  BY DEF PassTime
<1>2. \A n \in Replicas : job[<<"weekly", n>>] = NoJob
  BY <1>1 DEF Locked, Locking, Kinds
<1>3. JobsOK' /\ SignalsOK' /\ DigestsOK'
  <2>1. Grows
    BY DEF Grows
  <2> QED
    BY <1>1, <2>1, SignalsKeep, DigestsKeep DEF ComputedInv, JobsOK
<1>4. WeeklyTypes /\ \A u \in Readers : ReaderOK(u)
  BY DEF ComputedInv, WeeklyOK
<1>5. ASSUME NEW u \in Readers
      PROVE  /\ stamp'[u] \in Ages /\ last'[u] \in Ages
             /\ last[u] = stamp[u] => last'[u] = stamp'[u]
  BY <1>1, <1>4, ComputedAssumption DEF WeeklyTypes, Ages
<1>6. WeeklyTypes'
  BY <1>1, <1>4, <1>5 DEF WeeklyTypes
<1>7. \A u \in Readers : ~Sending(u) /\ ~Sending(u)'
  BY <1>1, <1>2, NoJobFields DEF Sending
<1>8. \A u \in Readers : ReaderOK(u)'
  BY <1>1, <1>4, <1>5, <1>7 DEF ReaderOK
<1>9. WeeklyOK'
  BY <1>1, <1>2, <1>6, <1>8 DEF WeeklyOK, WeeklySound
<1> QED
  BY <1>3, <1>9 DEF ComputedInv

\* A run reads: it passes on, or has something to write of what it is at.
LEMMA ReadStep ==
  ASSUME ComputedInv, NEW j \in Jobs, NEW x, Read(j, x)
  PROVE  /\ job[j].pc = "next" /\ x \in job[j].todo
         /\ \E q : /\ PutJob(j, q) /\ DOMAIN q = {"pc", "todo", "on", "rows"} /\ q.todo = job[j].todo \ {x}
                   /\ \/ q.pc = "next" /\ q.rows = job[j].rows
                      \/ /\ q.pc = "write" /\ q.on = x
                         /\ j[1] = "digest" => q.rows = Popular(x)
<1> DEFINE pass == [job[j] EXCEPT !.todo = @ \ {x}]
           go(rows) == [job[j] EXCEPT !.todo = @ \ {x}, !.pc = "write", !.on = x,
                                      !.rows = IF j[1] = "similar" THEN @ ELSE rows]
<1>1. job[j].pc = "next" /\ x \in job[j].todo
  BY DEF Read
<1>2. DOMAIN job[j] = {"pc", "todo", "on", "rows"}
  BY DEF ComputedInv, JobsOK
<1>3. DOMAIN pass = {"pc", "todo", "on", "rows"} /\ pass.todo = job[j].todo \ {x} /\ pass.pc = "next" /\ pass.rows = job[j].rows
  BY <1>1, <1>2
<1>4. ASSUME NEW rows
      PROVE  /\ DOMAIN go(rows) = {"pc", "todo", "on", "rows"} /\ go(rows).todo = job[j].todo \ {x}
             /\ go(rows).pc = "write" /\ go(rows).on = x
             /\ j[1] = "digest" => go(rows).rows = rows
  BY <1>2
<1>5. j[1] \in {"signals", "digest", "recommend", "similar", "weekly"}
  BY JobIs DEF Kinds
<1>6. \/ PutJob(j, pass)
      \/ \E rows : PutJob(j, go(rows)) /\ (j[1] = "digest" => rows = Popular(x))
  <2>1. CASE j[1] = "signals"
    BY <2>1 DEF Read
  <2>2. CASE j[1] = "digest"
    BY <2>2 DEF Read
  <2>3. CASE j[1] = "recommend"
    BY <2>3 DEF Read
  <2>4. CASE j[1] = "similar"
    BY <2>4 DEF Read
  <2>5. CASE j[1] = "weekly"
    BY <2>5 DEF Read
  <2> QED
    BY <1>5, <2>1, <2>2, <2>3, <2>4, <2>5
<1> HIDE DEF pass, go
<1>7. CASE PutJob(j, pass)
  BY <1>1, <1>3, <1>7
<1>8. CASE \E rows : PutJob(j, go(rows)) /\ (j[1] = "digest" => rows = Popular(x))
  BY <1>1, <1>4, <1>8
<1> QED
  BY <1>6, <1>7, <1>8

LEMMA ReadInv ==
  ASSUME ComputedInv, UNCHANGED post, NEW j \in Jobs, NEW x \in Hubs \cup Members, Read(j, x)
  PROVE  ComputedInv'
<1>1. /\ job[j].pc = "next" /\ x \in job[j].todo
      /\ UNCHANGED <<expert, signal, digest, recommended, similar, stamp, last, early, failures>>
  BY ReadStep DEF Read, mail
<1>2. PICK q : /\ PutJob(j, q) /\ DOMAIN q = {"pc", "todo", "on", "rows"} /\ q.todo = job[j].todo \ {x}
               /\ \/ q.pc = "next" /\ q.rows = job[j].rows
                  \/ /\ q.pc = "write" /\ q.on = x
                     /\ j[1] = "digest" => q.rows = Popular(x)
  BY ReadStep
<1>3. /\ JobsOK' /\ job'[j] = q /\ \A i \in Jobs : i # j => job'[i] = job[i]
      /\ SignalsOK'
      /\ j[1] # "digest" => DigestsOK'
      /\ j[1] # "weekly" => WeeklyOK'
  BY <1>1, <1>2, RunMoves
<1>4. CASE j[1] = "digest"
  <2>1. OfHub(Popular(x), x, post)
    BY DEF OfHub, Popular, Exists
  <2>2. ASSUME NEW n \in Replicas, job'[<<"digest", n>>].pc = "write"
        PROVE  OfHub(job'[<<"digest", n>>].rows, job'[<<"digest", n>>].on, post)
    <3>1. CASE <<"digest", n>> = j
      BY <1>2, <1>3, <1>4, <2>1, <2>2, <3>1
    <3>2. CASE <<"digest", n>> # j
      BY <1>3, <2>2, <3>2, KindsOfJobs DEF Kinds, ComputedInv, DigestsOK
    <3> QED
      BY <3>1, <3>2
  <2>3. DigestsOK'
    BY <1>1, <2>2 DEF ComputedInv, DigestsOK
  <2> QED
    BY <1>3, <1>4, <2>3 DEF ComputedInv
<1>5. CASE j[1] = "weekly"
  <2>1. PICK n \in Replicas : j = <<"weekly", n>>
    BY <1>5, JobIs
  <2>2. WeeklySound(job[j], stamp) /\ job[j] # NoJob
    BY <1>1, <2>1, NoJobFields DEF ComputedInv, WeeklyOK
  <2>3. WeeklySound(q, stamp) /\ q.pc # "stamp"
    BY <1>1, <1>2, <1>5, <2>2 DEF WeeklySound
  <2>4. WeeklyOK'
    BY <1>1, <1>3, <1>5, <2>2, <2>3, WeeklyMoves
  <2> QED
    BY <1>3, <1>5, <2>4 DEF ComputedInv
<1> QED
  BY <1>3, <1>4, <1>5 DEF ComputedInv

LEMMA DeleteSignalsInv ==
  ASSUME ComputedInv, UNCHANGED post, NEW j \in Jobs, DeleteSignals(j)
  PROVE  ComputedInv'
<1>1. PICK q : q = [job[j] EXCEPT !.pc = "insert"]
  OBVIOUS
<1>2. /\ j[1] = "signals" /\ job[j].pc = "write" /\ PutJob(j, q)
      /\ signal' = [signal EXCEPT ![job[j].on] = [t \in SignalTypes |-> 0]]
      /\ UNCHANGED <<digest, stamp, last, early, failures>>
  BY <1>1 DEF DeleteSignals, mail
<1>3. DOMAIN q = {"pc", "todo", "on", "rows"} /\ q.pc = "insert" /\ q.on = job[j].on
  BY <1>1 DEF ComputedInv, JobsOK
<1>4. JobsOK' /\ job'[j] = q /\ (\A i \in Jobs : i # j => job'[i] = job[i]) /\ DigestsOK' /\ WeeklyOK'
  BY <1>2, <1>3, RunMoves
<1>5. signal \in [Hubs -> [SignalTypes -> Nat]]
  BY DEF ComputedInv, SignalsOK
<1>6. ASSUME NEW h \in Hubs, NEW t \in SignalTypes
      PROVE  signal'[h][t] + Cardinality(Inserting(h)') <= Cardinality(Replicas)
  <2>1. CASE h = job[j].on
    <3>1. signal'[h][t] = 0
      BY <1>2, <1>5, <2>1
    <3>2. IsFiniteSet(Replicas) /\ Inserting(h)' \subseteq Replicas
      BY ComputedAssumption DEF Inserting
    <3> QED
      BY <3>1, <3>2, FS_Subset, FS_CardinalityType
  <2>2. CASE h # job[j].on
    <3>1. Inserting(h)' \subseteq Inserting(h)
      BY <1>3, <1>4, <2>2, KindsOfJobs DEF Inserting, Kinds
    <3>2. Cardinality(Inserting(h)') <= Cardinality(Inserting(h)) /\ Cardinality(Inserting(h)') \in Nat
      BY <3>1, FewReplicas, FS_Subset, FS_CardinalityType
    <3>3. signal'[h][t] = signal[h][t]
      BY <1>2, <1>5, <2>2
    <3>4. signal[h][t] \in Nat /\ signal[h][t] + Cardinality(Inserting(h)) <= Cardinality(Replicas)
      BY DEF ComputedInv, SignalsOK
    <3> QED
      BY <3>2, <3>3, <3>4, FewReplicas
  <2> QED
    BY <2>1, <2>2
<1>7. SignalsOK'
  BY <1>2, <1>5, <1>6 DEF SignalsOK
<1> QED
  BY <1>4, <1>7 DEF ComputedInv

LEMMA InsertSignalsInv ==
  ASSUME ComputedInv, UNCHANGED post, NEW j \in Jobs, InsertSignals(j)
  PROVE  ComputedInv'
<1> DEFINE more(t) == IF t \in job[j].rows THEN 1 ELSE 0
<1>1. PICK q : q = Done(job[j])
  OBVIOUS
<1>2. /\ j[1] = "signals" /\ job[j].pc = "insert" /\ PutJob(j, q)
      /\ signal' = [signal EXCEPT ![job[j].on] = [t \in SignalTypes |-> @[t] + more(t)]]
      /\ UNCHANGED <<digest, stamp, last, early, failures>>
  BY <1>1 DEF InsertSignals, ComputedInv, JobsOK, mail
<1>3. DOMAIN q = {"pc", "todo", "on", "rows"} /\ q.pc = "next"
  BY <1>1, DoneFields DEF ComputedInv, JobsOK
<1>4. JobsOK' /\ job'[j] = q /\ (\A i \in Jobs : i # j => job'[i] = job[i]) /\ DigestsOK' /\ WeeklyOK'
  BY <1>2, <1>3, RunMoves
<1>5. signal \in [Hubs -> [SignalTypes -> Nat]]
  BY DEF ComputedInv, SignalsOK
<1>6. PICK n \in Replicas : j = <<"signals", n>>
  BY <1>2, JobIs
<1>7. \A t \in SignalTypes : more(t) \in {0, 1}
  OBVIOUS
<1> HIDE DEF more
<1>8. signal' \in [Hubs -> [SignalTypes -> Nat]]
  <2>1. CASE job[j].on \in Hubs
    <3>1. PICK row : row = [t \in SignalTypes |-> signal[job[j].on][t] + more(t)]
      OBVIOUS
    <3>2. row \in [SignalTypes -> Nat]
      BY <1>5, <1>7, <2>1, <3>1
    <3>3. signal' = [signal EXCEPT ![job[j].on] = row]
      BY <1>2, <3>1
    <3> QED
      BY <1>5, <3>2, <3>3
  <2>2. CASE job[j].on \notin Hubs
    BY <1>2, <1>5, <2>2
  <2> QED
    BY <2>1, <2>2
<1>9. ASSUME NEW h \in Hubs, NEW t \in SignalTypes
      PROVE  signal'[h][t] + Cardinality(Inserting(h)') <= Cardinality(Replicas)
  <2>0. signal[h][t] \in Nat /\ signal[h][t] + Cardinality(Inserting(h)) <= Cardinality(Replicas)
    BY DEF ComputedInv, SignalsOK
  <2>1. CASE h = job[j].on
    <3>1. signal'[h][t] = signal[h][t] + more(t)
      BY <1>2, <1>5, <2>1
    <3>2. Inserting(h)' = Inserting(h) \ {n}
      BY <1>3, <1>4, <1>6, KindsOfJobs DEF Inserting, Kinds
    <3>3. n \in Inserting(h)
      BY <1>2, <1>6, <2>1 DEF Inserting
    <3>4. Cardinality(Inserting(h) \ {n}) = Cardinality(Inserting(h)) - 1
      BY <3>3, FewReplicas, FS_RemoveElement
    <3> QED
      BY <1>7, <2>0, <3>1, <3>2, <3>4, FewReplicas
  <2>2. CASE h # job[j].on
    <3>1. Inserting(h)' = Inserting(h)
      BY <1>2, <1>3, <1>4, <1>6, <2>2, KindsOfJobs DEF Inserting, Kinds
    <3>2. signal'[h][t] = signal[h][t]
      BY <1>2, <1>5, <2>2
    <3> QED
      BY <2>0, <3>1, <3>2
  <2> QED
    BY <2>1, <2>2
<1>10. SignalsOK'
  BY <1>8, <1>9 DEF SignalsOK
<1> QED
  BY <1>4, <1>10 DEF ComputedInv

LEMMA GenerateForHubInv ==
  ASSUME ComputedInv, UNCHANGED post, NEW j \in Jobs, GenerateForHub(j)
  PROVE  ComputedInv'
<1>1. PICK q : q = Done(job[j])
  OBVIOUS
<1>2. /\ j[1] = "digest" /\ job[j].pc = "write" /\ PutJob(j, q)
      /\ digest' = [digest EXCEPT ![job[j].on] = job[j].rows]
      /\ UNCHANGED <<signal, stamp, last, early, failures>>
  BY <1>1 DEF GenerateForHub, mail
<1>3. DOMAIN q = {"pc", "todo", "on", "rows"} /\ q.pc = "next"
  BY <1>1, DoneFields DEF ComputedInv, JobsOK
<1>4. JobsOK' /\ job'[j] = q /\ (\A i \in Jobs : i # j => job'[i] = job[i]) /\ SignalsOK' /\ WeeklyOK'
  BY <1>2, <1>3, RunMoves
<1>5. PICK n \in Replicas : j = <<"digest", n>>
  BY <1>2, JobIs
<1>6. OfHub(job[j].rows, job[j].on, post)
  BY <1>2, <1>5 DEF ComputedInv, DigestsOK
<1>7. \A m \in Replicas : job'[<<"digest", m>>].pc = "write" => job'[<<"digest", m>>] = job[<<"digest", m>>]
  BY <1>3, <1>4, KindsOfJobs DEF Kinds
<1>8. DOMAIN digest' = Hubs /\ \A h \in Hubs : OfHub(digest'[h], h, post)
  BY <1>2, <1>6 DEF ComputedInv, DigestsOK
<1>9. DigestsOK'
  BY <1>7, <1>8 DEF ComputedInv, DigestsOK
<1> QED
  BY <1>4, <1>9 DEF ComputedInv

LEMMA PlainInv ==
  ASSUME ComputedInv, UNCHANGED post, NEW j \in Jobs, PassOver(j) \/ Replace(j) \/ ReplaceSimilar(j)
  PROVE  ComputedInv'
<1>1. PICK q : q = Done(job[j])
  OBVIOUS
<1>2. /\ j[1] # "weekly" /\ PutJob(j, q) /\ UNCHANGED <<signal, digest, stamp, last, early>>
      /\ failures' \in {failures, failures + 1}
  BY <1>1 DEF PassOver, Replace, ReplaceSimilar, mail
<1>3. DOMAIN q = {"pc", "todo", "on", "rows"} /\ q.pc = "next"
  BY <1>1, DoneFields DEF ComputedInv, JobsOK
<1> QED
  BY <1>2, <1>3, RunMoves DEF ComputedInv

\* The one run of weekly digests: nobody else gets one meanwhile.
LEMMA OneWeekly ==
  ASSUME ComputedInv, NEW n \in Replicas, job[<<"weekly", n>>] # NoJob
  PROVE  \A m \in Replicas : m # n => job[<<"weekly", m>>] = NoJob /\ job[<<"weekly", m>>].pc # "stamp"
BY NoJobFields DEF ComputedInv, WeeklyOK

LEMMA SendDigestInv ==
  ASSUME ComputedInv, UNCHANGED post, NEW j \in Jobs, SendDigest(j)
  PROVE  ComputedInv'
<1>1. PICK q : q = [job[j] EXCEPT !.pc = "stamp"]
  OBVIOUS
<1>2. /\ j[1] = "weekly" /\ job[j].pc = "write" /\ PutJob(j, q)
      /\ early' = [early EXCEPT ![job[j].on] = @ + IF last[job[j].on] > Cooldown THEN 0 ELSE 1]
      /\ last' = [last EXCEPT ![job[j].on] = 0]
      /\ UNCHANGED <<signal, digest, stamp, failures>>
  BY <1>1 DEF SendDigest
<1>3. DOMAIN q = {"pc", "todo", "on", "rows"} /\ q.pc = "stamp" /\ q.on = job[j].on /\ q.todo = job[j].todo
      /\ q.rows = job[j].rows
  BY <1>1 DEF ComputedInv, JobsOK
<1>4. JobsOK' /\ job'[j] = q /\ (\A i \in Jobs : i # j => job'[i] = job[i]) /\ SignalsOK' /\ DigestsOK'
  BY <1>2, <1>3, RunMoves
<1>5. PICK n \in Replicas : j = <<"weekly", n>>
  BY <1>2, JobIs
<1>6. job[j] # NoJob
  BY <1>2, NoJobFields
<1>7. \A m \in Replicas : m # n => job[<<"weekly", m>>] = NoJob /\ job[<<"weekly", m>>].pc # "stamp"
  BY <1>5, <1>6, OneWeekly
<1>8. \A m \in Replicas : m # n => job'[<<"weekly", m>>] = NoJob
  BY <1>4, <1>5, <1>7, KindsOfJobs DEF Kinds
<1>9. WeeklySound(job[j], stamp) /\ job[j].on \in Readers /\ stamp[job[j].on] > Cooldown
  BY <1>2, <1>5, <1>6 DEF ComputedInv, WeeklyOK, WeeklySound
<1>10. WeeklySound(q, stamp)
  BY <1>2, <1>3, <1>6, <1>9 DEF WeeklySound
<1>11. \A u \in Readers : ~Sending(u)
  BY <1>2, <1>5, <1>7 DEF Sending
<1>12. WeeklyTypes /\ \A u \in Readers : ReaderOK(u)
  BY DEF ComputedInv, WeeklyOK
<1>13. ASSUME NEW u \in Readers
       PROVE  ReaderOK(u)' /\ early'[u] \in Nat /\ last'[u] \in Ages
  <2>1. /\ early[u] \in Nat /\ failures \in Nat /\ last[u] \in Int /\ last[u] \in Ages
        /\ early[u] <= failures /\ (last[u] # stamp[u] => early[u] < failures)
    BY <1>11, <1>12 DEF WeeklyTypes, ReaderOK, Ages
  <2>2. CASE u = job[j].on
    <3>1. last'[u] = 0 /\ early'[u] = early[u] + IF last[u] > Cooldown THEN 0 ELSE 1
      BY <1>2, <1>12, <2>2 DEF WeeklyTypes
    <3>2. Sending(u)'
      BY <1>3, <1>4, <1>5, <2>2 DEF Sending
    <3>3. ~(last[u] > Cooldown) => early[u] < failures
      BY <1>9, <2>1, <2>2
    <3>4. early'[u] \in Nat /\ early'[u] <= failures
      BY <2>1, <3>1, <3>3
    <3>5. 0 \in Ages
      BY ComputedAssumption DEF Ages
    <3> QED
      BY <1>2, <3>1, <3>2, <3>4, <3>5 DEF ReaderOK
  <2>3. CASE u # job[j].on
    <3>1. last'[u] = last[u] /\ early'[u] = early[u]
      BY <1>2, <1>12, <2>3 DEF WeeklyTypes
    <3>2. ~Sending(u)'
      BY <1>3, <1>4, <1>5, <1>8, <2>3, NoJobFields DEF Sending
    <3> QED
      BY <1>2, <2>1, <3>1, <3>2 DEF ReaderOK
  <2> QED
    BY <2>2, <2>3
<1>14. WeeklyOK'
  <2>1. WeeklyTypes'
    BY <1>2, <1>12, <1>13 DEF WeeklyTypes
  <2>2. \A m \in Replicas : WeeklySound(job'[<<"weekly", m>>], stamp)
    BY <1>4, <1>5, <1>8, <1>10 DEF WeeklySound
  <2>3. \A m, o \in Replicas : job'[<<"weekly", m>>] # NoJob /\ job'[<<"weekly", o>>] # NoJob => m = o
    BY <1>8
  <2> QED
    BY <1>2, <1>13, <2>1, <2>2, <2>3 DEF WeeklyOK
<1> QED
  BY <1>4, <1>14 DEF ComputedInv

LEMMA StampDigestInv ==
  ASSUME ComputedInv, UNCHANGED post, NEW j \in Jobs, StampDigest(j)
  PROVE  ComputedInv'
<1>1. PICK q : q = Done(job[j])
  OBVIOUS
<1>2. /\ j[1] = "weekly" /\ job[j].pc = "stamp" /\ PutJob(j, q)
      /\ stamp' = [stamp EXCEPT ![job[j].on] = 0]
      /\ UNCHANGED <<signal, digest, last, early, failures>>
  BY <1>1 DEF StampDigest, ComputedInv, JobsOK
<1>3. DOMAIN q = {"pc", "todo", "on", "rows"} /\ q.pc = "next" /\ q.todo = job[j].todo /\ q.rows = job[j].rows
  BY <1>1, DoneFields DEF ComputedInv, JobsOK
<1>4. JobsOK' /\ job'[j] = q /\ (\A i \in Jobs : i # j => job'[i] = job[i]) /\ SignalsOK' /\ DigestsOK'
  BY <1>2, <1>3, RunMoves
<1>5. PICK n \in Replicas : j = <<"weekly", n>>
  BY <1>2, JobIs
<1>6. job[j] # NoJob
  BY <1>2, NoJobFields
<1>7. \A m \in Replicas : m # n => job[<<"weekly", m>>] = NoJob /\ job[<<"weekly", m>>].pc # "stamp"
  BY <1>5, <1>6, OneWeekly
<1>8. \A m \in Replicas : m # n => job'[<<"weekly", m>>] = NoJob
  BY <1>4, <1>5, <1>7, KindsOfJobs DEF Kinds
<1>9. WeeklySound(job[j], stamp) /\ job[j].on \in Readers \ job[j].todo
  BY <1>2, <1>5, <1>6 DEF ComputedInv, WeeklyOK, WeeklySound
<1>10. WeeklyTypes /\ \A u \in Readers : ReaderOK(u)
  BY DEF ComputedInv, WeeklyOK
<1>11. stamp' \in [Readers -> Ages] /\ stamp'[job[j].on] = 0 /\ \A u \in Readers : u # job[j].on => stamp'[u] = stamp[u]
  <2>1. 0 \in Ages
    BY ComputedAssumption DEF Ages
  <2> QED
    BY <1>2, <1>9, <1>10, <2>1 DEF WeeklyTypes
<1>12. WeeklySound(q, stamp')
  BY <1>3, <1>6, <1>9, <1>11 DEF WeeklySound
<1>13. \A u \in Readers : ~Sending(u)'
  BY <1>3, <1>4, <1>5, <1>8, NoJobFields DEF Sending
<1>14. ASSUME NEW u \in Readers PROVE ReaderOK(u)'
  <2>1. CASE u = job[j].on
    <3>1. last[u] = 0
      BY <1>2, <1>5, <1>10, <2>1 DEF ReaderOK, Sending
    <3> QED
      BY <1>2, <1>10, <1>11, <1>13, <2>1, <3>1 DEF ReaderOK
  <2>2. CASE u # job[j].on
    <3>1. ~Sending(u)
      BY <1>2, <1>5, <1>7, <2>2 DEF Sending
    <3> QED
      BY <1>2, <1>10, <1>11, <1>13, <2>2, <3>1 DEF ReaderOK
  <2> QED
    BY <2>1, <2>2
<1>15. WeeklyOK'
  <2>1. WeeklyTypes'
    BY <1>2, <1>10, <1>11 DEF WeeklyTypes
  <2>2. \A m \in Replicas : WeeklySound(job'[<<"weekly", m>>], stamp')
    BY <1>4, <1>5, <1>8, <1>12 DEF WeeklySound
  <2>3. \A m, o \in Replicas : job'[<<"weekly", m>>] # NoJob /\ job'[<<"weekly", o>>] # NoJob => m = o
    BY <1>8
  <2> QED
    BY <1>14, <2>1, <2>2, <2>3 DEF WeeklyOK
<1> QED
  BY <1>4, <1>15 DEF ComputedInv

\* A run that ends, or fails, at whatever step.
LEMMA StopInv ==
  ASSUME ComputedInv, UNCHANGED post, NEW j \in Jobs, End(j) \/ FailRun(j)
  PROVE  ComputedInv'
<1>1. /\ PutJob(j, NoJob) /\ UNCHANGED <<signal, digest, stamp, last, early>>
      /\ failures' = failures + 1 \/ (failures' = failures /\ job[j].pc # "stamp")
  BY DEF End, FailRun, mail
<1>2. /\ JobsOK' /\ job'[j] = NoJob /\ (\A i \in Jobs : i # j => job'[i] = job[i]) /\ SignalsOK' /\ DigestsOK'
      /\ j[1] # "weekly" => WeeklyOK'
  BY <1>1, NoJobFields, RunMoves
<1>3. CASE j[1] = "weekly"
  <2>1. \A n \in Replicas : job'[<<"weekly", n>>] = job[<<"weekly", n>>] \/ job'[<<"weekly", n>>] = NoJob
    BY <1>2, KindsOfJobs DEF Kinds
  <2>2. /\ \A m, n \in Replicas : job'[<<"weekly", m>>] # NoJob /\ job'[<<"weekly", n>>] # NoJob => m = n
        /\ \A n \in Replicas : WeeklySound(job'[<<"weekly", n>>], stamp)
    BY <2>1 DEF ComputedInv, WeeklyOK, WeeklySound
  <2>3. WeeklyTypes /\ WeeklyTypes'
    BY <1>1 DEF ComputedInv, WeeklyOK, WeeklyTypes
  <2>4. ASSUME NEW u \in Readers PROVE ReaderOK(u)'
    <3>1. ReaderOK(u) /\ early[u] \in Nat /\ failures \in Nat
      BY <2>3 DEF ComputedInv, WeeklyOK, WeeklyTypes
    <3>2. Sending(u)' => Sending(u)
      BY <2>1, NoJobFields DEF Sending
    <3>3. CASE failures' = failures + 1
      BY <1>1, <3>1, <3>2, <3>3 DEF ReaderOK
    <3>4. CASE failures' = failures /\ job[j].pc # "stamp"
      <4>1. Sending(u) => Sending(u)'
        BY <1>2, <3>4, KindsOfJobs DEF Sending, Kinds
      <4> QED
        BY <1>1, <3>1, <3>2, <3>4, <4>1 DEF ReaderOK
    <3> QED
      BY <1>1, <3>3, <3>4
  <2>6. WeeklyOK'
    BY <1>1, <2>2, <2>3, <2>4 DEF WeeklyOK
  <2> QED
    BY <1>2, <2>6 DEF ComputedInv
<1> QED
  BY <1>2, <1>3 DEF ComputedInv

\* Nothing of what is computed changes; posts may.
LEMMA ComputedStays ==
  ASSUME ComputedInv, Grows, UNCHANGED <<signal, digest, stamp, last, early, job, failures>>
  PROVE  ComputedInv'
<1>1. JobsOK'
  BY DEF ComputedInv, JobsOK
<1>2. SignalsOK' /\ DigestsOK' /\ WeeklyOK'
  BY SignalsKeep, DigestsKeep, WeeklyKeep
<1> QED
  BY <1>1, <1>2 DEF ComputedInv

LEMMA ComputedStart == ComputedInit => ComputedInv
<1> SUFFICES ASSUME ComputedInit PROVE ComputedInv
  OBVIOUS
<1>1. \A j \in Jobs : job[j] = NoJob
  BY DEF ComputedInit
<1>2. \A n \in Replicas : job[<<"signals", n>>] = NoJob /\ job[<<"digest", n>>] = NoJob /\ job[<<"weekly", n>>] = NoJob
  BY <1>1, KindsOfJobs DEF Kinds
<1>3. JobsOK
  BY <1>1, NoJobFields DEF ComputedInit, JobsOK
<1>4. SignalsOK
  <2>1. \A h : Inserting(h) = {}
    BY <1>2, NoJobFields DEF Inserting
  <2>2. \A h \in Hubs : Cardinality(Inserting(h)) = 0
    BY <2>1, FS_EmptySet
  <2>3. Cardinality(Replicas) \in Nat
    BY ComputedAssumption, FS_CardinalityType
  <2> QED
    BY <2>2, <2>3 DEF ComputedInit, SignalsOK
<1>5. DigestsOK
  BY <1>2, NoJobFields DEF ComputedInit, DigestsOK, OfHub
<1>6. WeeklyOK
  <2>1. WeeklyTypes
    BY ComputedAssumption DEF ComputedInit, WeeklyTypes, Ages
  <2>2. /\ \A m, n \in Replicas : job[<<"weekly", m>>] # NoJob /\ job[<<"weekly", n>>] # NoJob => m = n
        /\ \A n \in Replicas : WeeklySound(job[<<"weekly", n>>], stamp)
    BY <1>2 DEF WeeklySound
  <2>3. ASSUME NEW u \in Readers PROVE ReaderOK(u)
    <3>1. ~Sending(u)
      BY <1>2, NoJobFields DEF Sending
    <3> QED
      BY <3>1 DEF ComputedInit, ReaderOK
  <2> QED
    BY <2>1, <2>2, <2>3 DEF WeeklyOK
<1> QED
  BY <1>3, <1>4, <1>5, <1>6 DEF ComputedInv

LEMMA ComputeInv ==
  ASSUME ComputedInv, Compute
  PROVE  ComputedInv'
<1>1. UNCHANGED post
  BY DEF Compute, vars
<1>2. ASSUME NEW j \in Jobs, Step(j) PROVE ComputedInv'
  BY <1>1, <1>2, ReadInv, DeleteSignalsInv, InsertSignalsInv, GenerateForHubInv, PlainInv, SendDigestInv, StampDigestInv, StopInv
     DEF Step
<1>3. ASSUME NEW kind \in Kinds, Scheduled(kind) PROVE ComputedInv'
  BY <1>1, <1>2, <1>3, KindsOfJobs, BeginsInv, WeeklyBeginsInv DEF Scheduled
<1>4. ASSUME NEW j \in Jobs, ByHand(j) PROVE ComputedInv'
  BY <1>1, <1>2, <1>4, WeeklyBeginsInv, BeginsInv DEF ByHand
<1>5. ASSUME NEW j \in Jobs, FailRun(j) PROVE ComputedInv'
  BY <1>1, <1>5, StopInv
<1>6. ASSUME NEW u \in Members, NEW h \in Hubs, Approve(u, h) PROVE ComputedInv'
  BY <1>1, <1>6, ComputedStays DEF Approve, Grows, mail
<1>7. ASSUME SkipSunday PROVE ComputedInv'
  BY <1>1, <1>7, ComputedStays DEF SkipSunday, Grows
<1>8. ASSUME PassTime PROVE ComputedInv'
  BY <1>1, <1>8, PassTimeInv
<1> QED
  BY <1>3, <1>4, <1>5, <1>6, <1>7, <1>8 DEF Compute

-----------------------------------------------------------------------------
(* Everything but the walks *)

FeedsInv == SocialInv /\ ComputedInv

LEMMA FeedsInvHolds == FeedsSpec => []FeedsInv
<1>1. FeedsInit => FeedsInv
  BY SocialInit, ComputedStart DEF FeedsInit, FeedsInv
<1>2. FeedsInv /\ [FeedsNext]_<<vars, computed, walk, audit>> => FeedsInv'
  <2> SUFFICES ASSUME FeedsInv, [FeedsNext]_<<vars, computed, walk, audit>> PROVE FeedsInv'
    OBVIOUS
  <2>1. SocialInv /\ ComputedInv
    BY DEF FeedsInv
  <2>2. ASSUME UNCHANGED vars, UNCHANGED computed PROVE FeedsInv'
    <3>1. UNCHANGED <<signal, digest, stamp, last, early, job, failures>>
      BY <2>2 DEF computed, mail
    <3>2. Grows
      BY <2>2 DEF vars, Grows
    <3> QED
      BY <2>1, <2>2, <3>1, <3>2, SocialStutters, ComputedStays DEF FeedsInv
  <2>3. CASE WalkNext /\ UNCHANGED computed
    <3>1. UNCHANGED vars
      BY <2>3 DEF WalkNext, BeginWalk, NextPage, NextPageOfInbox, NextPageOfAudit, Record
    <3> QED
      BY <2>2, <2>3, <3>1
  <2>4. CASE Next /\ UNCHANGED computed
    <3>1. UNCHANGED <<signal, digest, stamp, last, early, job, failures>>
      BY <2>4 DEF computed, mail
    <3> QED
      BY <2>1, <2>4, <3>1, SocialNext, NextGrows, ComputedStays DEF FeedsInv
  <2>5. CASE Compute
    <3>1. UNCHANGED vars
      BY <2>5 DEF Compute
    <3> QED
      BY <2>1, <2>5, <3>1, SocialStutters, ComputeInv DEF FeedsInv
  <2>6. CASE UNCHANGED <<vars, computed, walk, audit>>
    BY <2>2, <2>6
  <2> QED
    BY <2>3, <2>4, <2>5, <2>6 DEF FeedsNext
<1> QED
  BY <1>1, <1>2, PTL DEF FeedsSpec

\* Ties, posts, mentions, notices and what requests hold of them have their types,
\* and what they refer to exists, whoever follows, blocks, posts and deletes meanwhile.
THEOREM SocialTypesCorrect == FeedsSpec => []TypeOK
<1>1. FeedsInv => TypeOK
  BY SocialParts DEF FeedsInv
<1> QED
  BY <1>1, FeedsInvHolds, PTL

\* However many refreshes overlap and runs fail, a hub has no more signals of a type
\* than refreshes; and a reader gets no more digests before the cooldown of the last is
\* over than runs have failed, whenever operators and the cron run them.
THEOREM NothingTwiceCorrect == FeedsSpec => []NothingTwice
<1>1. FeedsInv => NothingTwice
  BY ComputedParts DEF FeedsInv
<1> QED
  BY <1>1, FeedsInvHolds, PTL

-----------------------------------------------------------------------------
(* What is shown *)

LEMMA PostsAgreeAlways ==
  ASSUME SocialInv, NEW v \in Members
  PROVE  PostsAgree(v)
<1> SUFFICES ASSUME NEW p \in Posts
    PROVE  /\ \A shown \in {Trending(v, p), Resolved(v, p), SavedRecently(v, p), Previewed(v, p)} : shown = Found(v, p)
           /\ InTimeline(v, p) <=> Found(v, p) /\ post[p].room \notin Dormant
           /\ InHome(v, p) <=> Found(v, p) /\ <<v, post[p].room>> \in follow
           /\ OnProfile(v, p) = InActivity(v, p)
           /\ Found(v, p) /\ ~OnProfile(v, p) => post[p].type = "RECRUITMENT" /\ ~Planner(v)
           /\ Found(v, p) => Openable(v, p)
           /\ Openable(v, p) /\ ~Found(v, p) => post[p].status = "HIDDEN"
           /\ Exists(p) /\ post[p].quotes # None /\ QuoteAvailable(p) =>
                Found(v, post[p].quotes) \/ ~Readable(v, post[post[p].quotes].room)
  BY DEF PostsAgree
<1>1. Exists(p) => post[p].status \in {"VISIBLE", "HIDDEN", "DELETED"}
  BY PostFields DEF SocialInv, PostsOK, Exists
<1>2. Trending(v, p) = Found(v, p) /\ Resolved(v, p) = Found(v, p) /\ SavedRecently(v, p) = Found(v, p)
  BY DEF Trending, Found, Resolved, SavedRecently
<1>3. Previewed(v, p) = Found(v, p)
  <2>1. CASE Exists(p) /\ post[p].status = "VISIBLE"
    BY <2>1 DEF Previewed, Found
  <2>2. CASE ~(Exists(p) /\ post[p].status = "VISIBLE")
    <3>1. Previewed(v, p) = FALSE
      BY <2>2 DEF Previewed
    <3>2. Found(v, p) = FALSE
      BY <1>1, <2>2 DEF Found
    <3> QED
      BY <3>1, <3>2
  <2> QED
    BY <2>1, <2>2
<1>4. \A shown \in {Trending(v, p), Resolved(v, p), SavedRecently(v, p), Previewed(v, p)} : shown = Found(v, p)
  BY <1>2, <1>3, Zenon
<1>5. InTimeline(v, p) <=> Found(v, p) /\ post[p].room \notin Dormant
  BY DEF InTimeline, Found, OpenRoom
<1>6. InHome(v, p) <=> Found(v, p) /\ <<v, post[p].room>> \in follow
  BY DEF InHome, Found
<1>7. OnProfile(v, p) = InActivity(v, p) /\ (Found(v, p) /\ ~OnProfile(v, p) => post[p].type = "RECRUITMENT" /\ ~Planner(v))
  BY DEF OnProfile, InActivity, Found
<1>8. (Found(v, p) => Openable(v, p)) /\ (Openable(v, p) /\ ~Found(v, p) => post[p].status = "HIDDEN")
  BY <1>1 DEF Found, Openable
<1>9. Exists(p) /\ post[p].quotes # None /\ QuoteAvailable(p) =>
        Found(v, post[p].quotes) \/ ~Readable(v, post[post[p].quotes].room)
  BY DEF SocialInv, PostsOK, QuoteAvailable, Found
<1> QED
  BY <1>4, <1>5, <1>6, <1>7, <1>8, <1>9

\* A member may read a hub who may read one of its rooms: all are in one space.
LEMMA HubsReadable ==
  ASSUME NEW v, NEW room \in Rooms
  PROVE  Readable(v, room) <=> ReadableHub(v, HubOf[room])
BY PlacesAssumption DEF Readable, ReadableHub, RoomsOf

LEMMA PlacesAgreeAlways ==
  ASSUME FeedsInv, NEW v \in Members
  PROVE  PlacesAgree(v)
<1> DEFINE found == SearchAll(v)
           home == HomeBundle(v)
<1>0. SocialInv /\ ComputedInv
  BY DEF FeedsInv
<1>1. /\ found.room = FoundRooms(v) /\ found.topic_hub = FoundHubs(v) /\ found.knowledge_block = FoundBlocks(v)
      /\ found.post = {p \in Posts : Found(v, p)}
      /\ home.followed_room_updates = {p \in Posts : InHome(v, p)} /\ home.trending_posts = {p \in Posts : Trending(v, p)}
      /\ home.recommended_rooms = RecommendedRooms(v) /\ home.active_topic_hubs = ActiveHubs(v)
  BY DEF SearchAll, HomeBundle
<1> HIDE DEF found, home
<1>2. found.room = UNION {ListedRooms(v, h) : h \in Hubs}
  <2>1. ASSUME NEW room \in FoundRooms(v) PROVE \E h \in Hubs : room \in ListedRooms(v, h)
    <3>1. room \in Rooms /\ room \notin Dormant /\ ReadableHub(v, HubOf[room]) /\ HubOf[room] \in Hubs
      BY <2>1, HubsReadable, ComputedAssumption DEF FoundRooms
    <3> QED
      BY <3>1 DEF ListedRooms, RoomsOf
  <2>2. ASSUME NEW h \in Hubs, NEW room \in ListedRooms(v, h) PROVE room \in FoundRooms(v)
    BY <2>2 DEF ListedRooms, RoomsOf, FoundRooms, ReadableHub
  <2> QED
    BY <1>1, <2>1, <2>2
<1>3. \A room \in found.room \cup RememberedRooms(v) \cup (home.recommended_rooms \ Dormant) : OpenRoom(v, room)
  BY <1>1 DEF FoundRooms, RememberedRooms, RecommendedRooms, OpenRoom
<1>4. (home.followed_room_updates \cup home.trending_posts) \subseteq found.post
  BY <1>1 DEF InHome, Trending, Found
<1>5. \A p \in home.followed_room_updates : post[p].room \notin home.recommended_rooms
  BY <1>1 DEF InHome, RecommendedRooms
<1>6. ASSUME NEW h \in found.topic_hub \cup home.active_topic_hubs \cup RememberedHubs(v)
                       \cup UNION {SimilarHubs(v, g) : g \in Hubs}
      PROVE  PreviewedHub(v, h) /\ HubPage(v, h).signals = ListedSignals(v, h)
  <2>1. ReadableHub(v, h)
    BY <1>1 DEF FoundHubs, ActiveHubs, RememberedHubs, SimilarHubs
  <2> QED
    BY <2>1 DEF PreviewedHub, HubPage, ListedSignals
<1>7. ASSUME NEW b \in found.knowledge_block
      PROVE  b \in HubPage(v, BlockOf[b]).blocks /\ Validated(v, b) /\ RevisionsListed(v, b)
  BY <1>1 DEF FoundBlocks, HubPage, Validated, RevisionsListed
<1>8. ASSUME NEW h \in Hubs, NEW p \in QuotedInDigest(v, h)
      PROVE  Openable(v, p) \/ post[p].status = "DELETED"
  <2>1. ReadableHub(v, h) /\ p \in digest[h]
    BY DEF QuotedInDigest
  <2>2. p \in Posts /\ post[p] # NoPost /\ HubOf[post[p].room] = h
    BY <1>0, <2>1 DEF ComputedInv, DigestsOK, OfHub
  <2>3. post[p].room \in Rooms
    BY <1>0, <2>2, PostFields DEF SocialInv, PostsOK
  <2> QED
    BY <2>1, <2>2, <2>3, HubsReadable DEF Openable, Exists
<1> QED
  BY <1>2, <1>3, <1>4, <1>5, <1>6, <1>7, <1>8 DEF PlacesAgree, found, home

LEMMA EventsAgreeAlways ==
  ASSUME NEW v \in Members
  PROVE  EventsAgree(v)
<1> SUFFICES ASSUME NEW c \in Cards
    PROVE  /\ RelatedPosts(v, c) = {p \in Posts : Found(v, p) /\ CardOf[p] = c}
           /\ \A room \in Rooms : OpenRoom(v, room) /\ c \in PinsOf(room) => room \in RelatedRooms(v, c)
           /\ \A room \in RelatedRooms(v, c) \cup ComposeRooms(v, c) : OpenRoom(v, room)
           /\ MaySuggest(v, c) => \A room \in SuggestedRooms(v, c) :
                OpenRoom(v, room) \/ Owner[room] = v \/ ~ReadableHub(v, HubOf[room])
  BY DEF EventsAgree
<1>1. RelatedPosts(v, c) = {p \in Posts : Found(v, p) /\ CardOf[p] = c}
  BY DEF RelatedPosts, Found
<1>2. \A room \in Rooms : OpenRoom(v, room) /\ c \in PinsOf(room) => room \in RelatedRooms(v, c)
  BY DEF OpenRoom, PinsOf, RelatedRooms
<1>3. \A room \in RelatedRooms(v, c) : OpenRoom(v, room)
  BY DEF RelatedRooms, RelatedPosts, OpenRoom
<1>4. \A room \in ComposeRooms(v, c) : OpenRoom(v, room)
  <2>1. \A room \in FoundRooms(v) : OpenRoom(v, room)
    BY DEF FoundRooms, OpenRoom
  <2> QED
    BY <1>3, <2>1 DEF ComposeRooms, Official
<1>5. ASSUME NEW room \in SuggestedRooms(v, c), Owner[room] # v, ReadableHub(v, HubOf[room]) PROVE OpenRoom(v, room)
  <2>1. room \in Rooms /\ room \notin Dormant
    BY <1>5 DEF SuggestedRooms, LinkedRooms
  <2> QED
    BY <1>5, <2>1, HubsReadable DEF OpenRoom
<1> QED
  BY <1>1, <1>2, <1>3, <1>4, <1>5

\* Lists, pages, searches and notices agree on what there is to see, and what they
\* show opens, whatever is posted, hidden, deleted and computed meanwhile.
THEOREM ListedCorrect == FeedsSpec => []ListedIsOpenable
<1>1. FeedsInv => ListedIsOpenable
  <2> SUFFICES ASSUME FeedsInv, NEW v \in Members
      PROVE  PostsAgree(v) /\ NoticesLead(v) /\ PlacesAgree(v) /\ EventsAgree(v)
    BY DEF ListedIsOpenable
  <2>1. SocialInv
    BY DEF FeedsInv
  <2> QED
    BY <2>1, SocialParts, PostsAgreeAlways, PlacesAgreeAlways, EventsAgreeAlways
<1> QED
  BY <1>1, FeedsInvHolds, PTL

-----------------------------------------------------------------------------
(* Newest first *)

Descending(s) == \A i, j \in DOMAIN s : i < j => s[i] > s[j]

LEMMA SeqIs ==
  ASSUME NEW s \in Seq(Nat)
  PROVE  /\ DOMAIN s = 1 .. Len(s) /\ Len(s) \in Nat /\ \A i \in 1 .. Len(s) : s[i] \in Nat
         /\ \A x : x \in Range(s) <=> \E i \in 1 .. Len(s) : x = s[i]
         /\ Range(s) \in SUBSET Nat
         /\ s # <<>> <=> Len(s) > 0
         /\ Descending(s) <=> \A i, j \in 1 .. Len(s) : i < j => s[i] > s[j]
<1>1. DOMAIN s = 1 .. Len(s) /\ Len(s) \in Nat /\ \A i \in 1 .. Len(s) : s[i] \in Nat
  OBVIOUS
<1>2. /\ \A x : x \in Range(s) <=> \E i \in 1 .. Len(s) : x = s[i]
      /\ Range(s) \in SUBSET Nat
  BY <1>1 DEF Range
<1>3. s # <<>> <=> Len(s) > 0
  BY EmptySeq
<1>4. Descending(s) <=> \A i, j \in 1 .. Len(s) : i < j => s[i] > s[j]
  BY <1>1 DEF Descending
<1> QED
  BY <1>1, <1>2, <1>3, <1>4

Above(S, x) == {y \in S : y > x}

LEMMA Ranks ==
  ASSUME NEW S \in SUBSET Nat, IsFiniteSet(S)
  PROVE  /\ \A x \in S : IsFiniteSet(Above(S, x)) /\ Cardinality(Above(S, x)) \in 0 .. Cardinality(S) - 1
         /\ \A x, z \in S : x < z => Cardinality(Above(S, z)) < Cardinality(Above(S, x))
         /\ \A n \in 1 .. Cardinality(S) : \E x \in S : Cardinality(Above(S, x)) = n - 1
<1>1. ASSUME NEW x \in S
      PROVE  IsFiniteSet(Above(S, x)) /\ Cardinality(Above(S, x)) \in 0 .. Cardinality(S) - 1
  <2>1. IsFiniteSet(Above(S, x)) /\ Cardinality(Above(S, x)) <= Cardinality(S) /\ Above(S, x) # S
        /\ (Cardinality(S) = Cardinality(Above(S, x)) => S = Above(S, x))
    <3>1. Above(S, x) \in SUBSET S /\ x \notin Above(S, x)
      BY DEF Above
    <3> QED
      BY <3>1, FS_Subset
  <2>2. Cardinality(S) \in Nat /\ Cardinality(Above(S, x)) \in Nat
    BY <2>1, FS_CardinalityType
  <2> QED
    BY <2>1, <2>2
<1>2. ASSUME NEW x \in S, NEW z \in S, x < z
      PROVE  Cardinality(Above(S, z)) < Cardinality(Above(S, x))
  <2>1. Above(S, z) \in SUBSET Above(S, x) /\ z \in Above(S, x) /\ z \notin Above(S, z)
    <3>1. x \in Nat /\ z \in Nat /\ \A y \in S : y \in Nat
      OBVIOUS
    <3>2. z > x /\ ~(z > z) /\ \A y \in S : y > z => y > x
      BY <1>2, <3>1
    <3> QED
      BY <3>2 DEF Above
  <2>2. IsFiniteSet(Above(S, x)) /\ IsFiniteSet(Above(S, z))
    BY <1>1
  <2>3. Cardinality(Above(S, z)) <= Cardinality(Above(S, x)) /\ Cardinality(Above(S, z)) # Cardinality(Above(S, x))
    BY <2>1, <2>2, FS_Subset
  <2>4. Cardinality(Above(S, z)) \in Nat /\ Cardinality(Above(S, x)) \in Nat
    BY <2>2, FS_CardinalityType
  <2> QED
    BY <2>3, <2>4
<1>3. ASSUME NEW n \in 1 .. Cardinality(S) PROVE \E x \in S : Cardinality(Above(S, x)) = n - 1
  <2> DEFINE T == 0 .. Cardinality(S) - 1
             f == [x \in S |-> Cardinality(Above(S, x))]
  <2>1. Cardinality(S) \in Nat /\ Cardinality(S) > 0
    BY FS_CardinalityType
  <2>2. IsFiniteSet(T) /\ Cardinality(T) = Cardinality(S)
    <3>1. PICK m \in Nat : m = Cardinality(S)
      BY <2>1
    <3>2. IsFiniteSet(0 .. m - 1) /\ Cardinality(0 .. m - 1) = IF 0 > m - 1 THEN 0 ELSE m - 1 - 0 + 1
      BY FS_Interval
    <3> QED
      BY <2>1, <3>1, <3>2
  <2>3. f \in [S -> T]
    BY <1>1
  <2>4. \A x, z \in S : f[x] = f[z] => x = z
    <3>1. TAKE x, z \in S
    <3>2. x \in Nat /\ z \in Nat
      OBVIOUS
    <3>3. f[x] \in Nat /\ f[z] \in Nat /\ f[x] = Cardinality(Above(S, x)) /\ f[z] = Cardinality(Above(S, z))
      BY <1>1, <2>1
    <3> QED
      BY <1>2, <3>2, <3>3
  <2>5. f \in Injection(S, T)
    BY <2>3, <2>4 DEF Injection, IsInjective
  <2>6. f \in Surjection(S, T)
    BY <2>2, <2>5, FS_Injection
  <2>7. n - 1 \in T
    BY <2>1
  <2> QED
    BY <2>6, <2>7 DEF Surjection
<1> QED
  BY <1>1, <1>2, <1>3

\* Newest lists every member of a set, from the newest to the oldest.
LEMMA NewestIs ==
  ASSUME NEW S \in SUBSET Nat, IsFiniteSet(S)
  PROVE  /\ Newest(S) \in Seq(S) /\ Newest(S) \in Seq(Nat) /\ Len(Newest(S)) = Cardinality(S)
         /\ Descending(Newest(S)) /\ Range(Newest(S)) = S
<1> DEFINE N == Newest(S)
<1>1. Cardinality(S) \in Nat
  BY FS_CardinalityType
<1>2. ASSUME NEW n \in 1 .. Cardinality(S) PROVE N[n] \in S /\ Cardinality(Above(S, N[n])) = n - 1
  <2>1. \E x \in S : Cardinality({y \in S : y > x}) = n - 1
    BY Ranks DEF Above
  <2>2. N[n] = CHOOSE x \in S : Cardinality({y \in S : y > x}) = n - 1
    BY DEF Newest
  <2> QED
    BY <2>1, <2>2 DEF Above
<1>3. N = [n \in 1 .. Cardinality(S) |-> N[n]]
  BY DEF Newest
<1> HIDE DEF N
<1>4. N \in [1 .. Cardinality(S) -> S]
  BY <1>2, <1>3
<1>5. N \in Seq(S) /\ N \in Seq(Nat) /\ Len(N) = Cardinality(S) /\ DOMAIN N = 1 .. Cardinality(S)
  <2>1. PICK m \in Nat : m = Cardinality(S)
    BY <1>1
  <2>2. N \in [1 .. m -> S]
    BY <1>4, <2>1
  <2>3. N \in Seq(S)
    BY <2>2, SeqDef
  <2>4. Len(N) = m /\ DOMAIN N = 1 .. m
    BY <2>2, <2>3, LenProperties
  <2> QED
    BY <2>1, <2>3, <2>4, SeqMonotonic
<1>6. Descending(N)
  <2> SUFFICES ASSUME NEW i \in 1 .. Cardinality(S), NEW j \in 1 .. Cardinality(S), i < j PROVE N[i] > N[j]
    BY <1>5 DEF Descending
  <2>1. N[i] \in S /\ N[j] \in S /\ N[i] \in Nat /\ N[j] \in Nat
    BY <1>2
  <2>2. Cardinality(Above(S, N[i])) = i - 1 /\ Cardinality(Above(S, N[j])) = j - 1
    BY <1>2
  <2>3. N[i] = N[j] \/ N[i] < N[j] \/ N[i] > N[j]
    BY <2>1
  <2>4. ~(N[i] < N[j])
    <3>1. ~(j - 1 < i - 1)
      BY <1>1
    <3> QED
      BY <2>1, <2>2, <3>1, Ranks
  <2>5. N[i] # N[j]
    <3>1. i - 1 # j - 1
      BY <1>1
    <3> QED
      BY <2>2, <3>1
  <2> QED
    BY <2>3, <2>4, <2>5
<1>7. Range(N) = S
  <2>1. Range(N) \subseteq S
    BY <1>2, <1>5 DEF Range
  <2>2. ASSUME NEW x \in S PROVE x \in Range(N)
    <3>1. PICK n : n = Cardinality(Above(S, x)) + 1
      OBVIOUS
    <3>2. n \in 1 .. Cardinality(S) /\ Cardinality(Above(S, x)) = n - 1
      BY <1>1, <3>1, Ranks
    <3>3. N[n] \in S /\ Cardinality(Above(S, N[n])) = Cardinality(Above(S, x))
      BY <1>2, <3>2
    <3>4. ~(N[n] < x) /\ ~(x < N[n])
      <4>1. Cardinality(Above(S, x)) \in Nat /\ Cardinality(Above(S, N[n])) \in Nat
        BY <1>1, <3>2, <3>3
      <4>2. \A a, b \in S : a < b => Cardinality(Above(S, b)) < Cardinality(Above(S, a))
        BY Ranks
      <4>3. N[n] < x => Cardinality(Above(S, x)) < Cardinality(Above(S, N[n]))
        BY <3>3, <4>2
      <4>4. x < N[n] => Cardinality(Above(S, N[n])) < Cardinality(Above(S, x))
        BY <3>3, <4>2
      <4> QED
        BY <3>3, <4>1, <4>3, <4>4
    <3>5. N[n] = x
      <4>1. N[n] \in Nat /\ x \in Nat
        BY <3>3
      <4> QED
        BY <3>4, <4>1
    <3> QED
      BY <1>5, <3>2, <3>5 DEF Range
  <2> QED
    BY <2>1, <2>2
<1> QED
  BY <1>5, <1>6, <1>7 DEF N

\* The first items of a list.
LEMMA FirstIs ==
  ASSUME NEW S, NEW s \in Seq(S), NEW n \in Nat
  PROVE  /\ First(n, s) \in Seq(S) /\ Len(First(n, s)) = (IF Len(s) <= n THEN Len(s) ELSE n)
         /\ \A i \in DOMAIN First(n, s) : i \in DOMAIN s /\ First(n, s)[i] = s[i]
<1>1. CASE Len(s) <= n
  BY <1>1 DEF First
<1>2. CASE ~(Len(s) <= n)
  <2>1. \A i \in 1 .. n : s[i] \in S
    BY <1>2
  <2>2. /\ SubSeq(s, 1, n) \in Seq(S) /\ Len(SubSeq(s, 1, n)) = n
        /\ \A i \in 1 .. n : SubSeq(s, 1, n)[i] = s[i]
    BY <2>1, SubSeqProperties
  <2> QED
    BY <1>2, <2>2 DEF First
<1> QED
  BY <1>1, <1>2

\* What follows the cursor: older rows, all of them but one if its own is gone.
LEMMA AfterIs ==
  ASSUME NEW S \in SUBSET Nat, IsFiniteSet(S), walk.cursor \in Nat
  PROVE  /\ After(S) \in Seq(S) /\ After(S) \in Seq(Nat) /\ Descending(After(S))
         /\ walk.got = <<>> => Range(After(S)) = S
         /\ walk.got # <<>> =>
              /\ \A i \in DOMAIN After(S) : After(S)[i] < walk.cursor
              /\ walk.cursor \in S => \A x \in S : x < walk.cursor => x \in Range(After(S))
              /\ \E gone : \A x \in S : x < walk.cursor => x = gone \/ x \in Range(After(S))
<1>1. CASE walk.got = <<>>
  BY <1>1, NewestIs DEF After
<1>2. CASE walk.got # <<>>
  <2>1. PICK rest : rest = {i \in S : i <= walk.cursor}
    OBVIOUS
  <2>2. rest \in SUBSET Nat /\ rest \in SUBSET S /\ IsFiniteSet(rest)
    BY <2>1, FS_Subset
  <2>3. PICK N : N = Newest(rest)
    OBVIOUS
  <2>4. N \in Seq(rest) /\ N \in Seq(S) /\ N \in Seq(Nat) /\ Descending(N) /\ Range(N) = rest
    <3>1. N \in Seq(rest) /\ Descending(N) /\ Range(N) = rest
      BY <2>2, <2>3, NewestIs
    <3>2. N \in Seq(S) /\ N \in Seq(Nat)
      BY <2>2, <3>1, SeqMonotonic
    <3> QED
      BY <3>1, <3>2
  <2>5. CASE N = <<>>
    <3>1. After(S) = <<>>
      BY <1>2, <2>1, <2>3, <2>5 DEF After
    <3>2. rest = {}
      BY <2>4, <2>5 DEF Range
    <3>3. \A x \in S : ~(x < walk.cursor)
      BY <2>1, <3>2
    <3> QED
      BY <1>2, <3>1, <3>3 DEF Descending
  <2>6. CASE N # <<>>
    <3>1. PICK A : A = Tail(N)
      OBVIOUS
    <3>2. After(S) = A
      BY <1>2, <2>1, <2>3, <2>6, <3>1 DEF After
    <3>3. /\ A \in Seq(S) /\ A \in Seq(Nat) /\ Len(A) = Len(N) - 1
          /\ \A i \in 1 .. Len(A) : A[i] = N[i + 1]
      BY <2>4, <2>6, <3>1, HeadTailProperties
    <3>4. /\ Len(N) \in Nat /\ Len(N) > 0 /\ \A i \in 1 .. Len(N) : N[i] \in Nat
          /\ \A i, j \in 1 .. Len(N) : i < j => N[i] > N[j]
          /\ \A x \in rest : \E i \in 1 .. Len(N) : x = N[i]
          /\ \A i \in 1 .. Len(N) : N[i] \in rest
      BY <2>4, <2>6, SeqIs
    <3>5. N[1] \in rest /\ N[1] <= walk.cursor /\ N[1] \in Nat
      <4>1. 1 \in 1 .. Len(N)
        BY <3>4
      <4> QED
        BY <2>1, <3>4, <4>1
    <3>6. \A i \in 1 .. Len(A) : i + 1 \in 1 .. Len(N) /\ A[i] = N[i + 1] /\ A[i] < N[1] /\ A[i] \in Nat
      <4>1. TAKE i \in 1 .. Len(A)
      <4>2. i + 1 \in 1 .. Len(N) /\ 1 \in 1 .. Len(N) /\ 1 < i + 1
        BY <3>3, <3>4
      <4>3. N[1] > N[i + 1] /\ N[i + 1] \in Nat
        BY <3>4, <4>2
      <4> QED
        BY <3>3, <3>5, <4>2, <4>3
    <3>7. Descending(A)
      <4> SUFFICES ASSUME NEW i \in 1 .. Len(A), NEW j \in 1 .. Len(A), i < j PROVE A[i] > A[j]
        BY <3>3, SeqIs
      <4>1. i + 1 \in 1 .. Len(N) /\ j + 1 \in 1 .. Len(N) /\ i + 1 < j + 1
        BY <3>6
      <4> QED
        BY <3>4, <3>6, <4>1
    <3>8. \A x \in rest : x = N[1] \/ x \in Range(A)
      <4>1. TAKE x \in rest
      <4>2. PICK i \in 1 .. Len(N) : x = N[i]
        BY <3>4
      <4>3. CASE i = 1
        BY <4>2, <4>3
      <4>4. CASE i # 1
        <5>1. PICK k : k = i - 1
          OBVIOUS
        <5>2. k \in 1 .. Len(A) /\ k + 1 = i
          BY <3>3, <3>4, <4>4, <5>1
        <5>3. A[k] = x
          BY <3>3, <4>2, <5>2
        <5> QED
          BY <3>3, <5>2, <5>3, SeqIs
      <4> QED
        BY <4>3, <4>4
    <3>9. \A i \in DOMAIN A : A[i] < walk.cursor
      <4>1. DOMAIN A = 1 .. Len(A)
        BY <3>3, SeqIs
      <4> QED
        BY <3>5, <3>6, <4>1
    <3>10. \A x \in S : x < walk.cursor => x = N[1] \/ x \in Range(A)
      BY <2>1, <3>8
    <3>11. walk.cursor \in S => N[1] = walk.cursor
      <4>1. walk.cursor \in S => walk.cursor \in rest
        BY <2>1
      <4>2. \A x \in Range(A) : x < walk.cursor
        BY <3>9 DEF Range
      <4> QED
        BY <3>8, <4>1, <4>2
    <3>12. walk.cursor \in S => \A x \in S : x < walk.cursor => x \in Range(A)
      BY <3>10, <3>11
    <3> QED
      BY <1>2, <3>2, <3>3, <3>7, <3>9, <3>10, <3>12
  <2> QED
    BY <2>5, <2>6
<1> QED
  BY <1>1, <1>2

\* A page of a list: what is not on it is older, if there is more.
LEMMA PageIs ==
  ASSUME NEW A \in Seq(Nat), Descending(A), NEW items, NEW limit \in Nat \ {0}, items = First(limit, A),
         NEW x \in Range(A), x \notin Range(items)
  PROVE  Len(A) > limit /\ items # <<>> /\ x < items[Len(items)]
<1>1. limit \in Nat /\ limit > 0
  OBVIOUS
<1>2. /\ items \in Seq(Nat) /\ Len(items) = (IF Len(A) <= limit THEN Len(A) ELSE limit)
      /\ \A i \in DOMAIN items : items[i] = A[i]
  BY <1>1, FirstIs
<1>3. PICK k \in 1 .. Len(A) : x = A[k]
  BY SeqIs
<1>4. Len(A) \in Nat /\ DOMAIN items = 1 .. Len(items) /\ \A i, j \in 1 .. Len(A) : i < j => A[i] > A[j]
  BY <1>2, SeqIs
<1>5. ~(k \in 1 .. Len(items))
  BY <1>2, <1>3, <1>4, SeqIs
<1>6. Len(A) > limit /\ Len(items) = limit /\ k > limit
  <2>1. Len(A) <= limit => Len(items) = Len(A)
    BY <1>2
  <2>2. ~(Len(A) <= limit)
    BY <1>3, <1>5, <2>1
  <2>3. Len(items) = limit
    BY <1>2, <2>2
  <2> QED
    BY <1>1, <1>3, <1>4, <1>5, <2>2, <2>3
<1>7. items[limit] = A[limit] /\ A[limit] > A[k]
  <2>1. limit \in DOMAIN items /\ limit \in 1 .. Len(A)
    BY <1>1, <1>4, <1>6
  <2> QED
    BY <1>2, <1>3, <1>4, <1>6, <2>1
<1>8. items # <<>>
  BY <1>1, <1>2, <1>6, SeqIs
<1>9. x \in Nat /\ A[k] \in Nat /\ A[limit] \in Nat
  BY <1>1, <1>3, <1>6, SeqIs
<1> QED
  BY <1>3, <1>6, <1>7, <1>8, <1>9

\* The first items are as new as the rest is.
LEMMA FirstDescends ==
  ASSUME NEW s \in Seq(Nat), Descending(s), NEW n \in Nat
  PROVE  /\ First(n, s) \in Seq(Nat) /\ Descending(First(n, s)) /\ Range(First(n, s)) \subseteq Range(s)
         /\ First(n, First(n + 1, s)) = First(n, s)
         /\ Len(First(n + 1, s)) > n <=> Len(s) > n
<1>1. PICK t : t = First(n, s)
  OBVIOUS
<1>2. PICK u : u = First(n + 1, s)
  OBVIOUS
<1>3. PICK w : w = First(n, u)
  OBVIOUS
<1>4. /\ t \in Seq(Nat) /\ Len(t) = (IF Len(s) <= n THEN Len(s) ELSE n)
      /\ \A i \in DOMAIN t : i \in DOMAIN s /\ t[i] = s[i]
  BY <1>1, FirstIs
<1>5. /\ u \in Seq(Nat) /\ Len(u) = (IF Len(s) <= n + 1 THEN Len(s) ELSE n + 1)
      /\ \A i \in DOMAIN u : i \in DOMAIN s /\ u[i] = s[i]
  BY <1>2, FirstIs
<1>6. /\ w \in Seq(Nat) /\ Len(w) = (IF Len(u) <= n THEN Len(u) ELSE n)
      /\ \A i \in DOMAIN w : i \in DOMAIN u /\ w[i] = u[i]
  BY <1>3, <1>5, FirstIs
<1>7. DOMAIN t = 1 .. Len(t) /\ DOMAIN w = 1 .. Len(w) /\ Len(s) \in Nat /\ Len(t) \in Nat /\ Len(w) \in Nat
  BY <1>4, <1>6, SeqIs
<1>8. Descending(t)
  BY <1>4 DEF Descending
<1>9. Range(t) \subseteq Range(s)
  BY <1>4 DEF Range
<1>10. Len(u) > n <=> Len(s) > n
  BY <1>5, <1>7
<1>11. w = t
  <2>1. Len(w) = Len(t)
    BY <1>4, <1>5, <1>6, <1>7
  <2>2. \A i \in 1 .. Len(w) : w[i] = t[i]
    BY <1>4, <1>5, <1>6, <1>7, <2>1
  <2> QED
    BY <1>4, <1>6, <2>1, <2>2, SeqEqual
<1> QED
  BY <1>1, <1>2, <1>3, <1>4, <1>8, <1>9, <1>10, <1>11

\* What a list shows once a page is added.
LEMMA Joined ==
  ASSUME NEW s \in Seq(Nat), NEW t \in Seq(Nat)
  PROVE  /\ s \o t \in Seq(Nat)
         /\ s \o t = <<>> => s = <<>> /\ t = <<>>
         /\ t = <<>> => s \o t = s
         /\ t # <<>> => (s \o t)[Len(s \o t)] = t[Len(t)] /\ s \o t # <<>>
<1>1. PICK u : u = s \o t
  OBVIOUS
<1>2. /\ u \in Seq(Nat) /\ Len(u) = Len(s) + Len(t) /\ Len(s) \in Nat /\ Len(t) \in Nat
      /\ \A i \in 1 .. Len(s) + Len(t) : u[i] = IF i <= Len(s) THEN s[i] ELSE t[i - Len(s)]
  BY <1>1, ConcatProperties
<1>3. u = <<>> => s = <<>> /\ t = <<>>
  BY <1>2, EmptySeq
<1>4. t = <<>> => u = s
  BY <1>1, ConcatEmptySeq
<1>5. ASSUME t # <<>> PROVE u[Len(u)] = t[Len(t)] /\ u # <<>>
  <2>1. Len(t) > 0
    BY <1>5, SeqIs
  <2>2. PICK k : k = Len(u)
    OBVIOUS
  <2>3. k \in 1 .. Len(s) + Len(t) /\ ~(k <= Len(s)) /\ k - Len(s) = Len(t) /\ Len(u) > 0
    BY <1>2, <2>1, <2>2
  <2>4. u[k] = t[k - Len(s)]
    BY <1>2, <2>3
  <2> QED
    BY <1>2, <2>2, <2>3, <2>4, SeqIs
<1> QED
  BY <1>1, <1>2, <1>3, <1>4, <1>5

LEMMA JoinDescends ==
  ASSUME NEW s \in Seq(Nat), NEW t \in Seq(Nat), Descending(s), Descending(t),
         s # <<>> => \A i \in DOMAIN t : t[i] < s[Len(s)]
  PROVE  Descending(s \o t) /\ Range(s \o t) = Range(s) \cup Range(t)
<1>1. PICK u : u = s \o t
  OBVIOUS
<1>2. /\ u \in Seq(Nat) /\ Len(u) = Len(s) + Len(t) /\ Len(s) \in Nat /\ Len(t) \in Nat
      /\ \A i \in 1 .. Len(s) + Len(t) : u[i] = IF i <= Len(s) THEN s[i] ELSE t[i - Len(s)]
  BY <1>1, ConcatProperties
<1>3. /\ DOMAIN t = 1 .. Len(t)
      /\ \A i \in 1 .. Len(s) : s[i] \in Nat
      /\ \A i \in 1 .. Len(t) : t[i] \in Nat
      /\ \A i, j \in 1 .. Len(s) : i < j => s[i] > s[j]
      /\ \A i, j \in 1 .. Len(t) : i < j => t[i] > t[j]
  BY SeqIs
<1>4. /\ \A i \in 1 .. Len(s) : i \in 1 .. Len(u) /\ u[i] = s[i]
      /\ \A i \in 1 .. Len(t) : Len(s) + i \in 1 .. Len(u) /\ u[Len(s) + i] = t[i]
      /\ \A i \in 1 .. Len(u) : i \in 1 .. Len(s) \/ \E k \in 1 .. Len(t) : i = Len(s) + k
  <2>1. \A i \in 1 .. Len(s) : i \in 1 .. Len(u) /\ u[i] = s[i]
    BY <1>2
  <2>2. ASSUME NEW i \in 1 .. Len(t) PROVE Len(s) + i \in 1 .. Len(u) /\ u[Len(s) + i] = t[i]
    <3>1. PICK k : k = Len(s) + i
      OBVIOUS
    <3>2. k \in 1 .. Len(s) + Len(t) /\ ~(k <= Len(s)) /\ k - Len(s) = i
      BY <1>2, <3>1
    <3>3. u[k] = t[k - Len(s)]
      BY <1>2, <3>2
    <3> QED
      BY <1>2, <3>1, <3>2, <3>3
  <2>3. ASSUME NEW i \in 1 .. Len(u), i \notin 1 .. Len(s) PROVE \E k \in 1 .. Len(t) : i = Len(s) + k
    <3>1. i - Len(s) \in 1 .. Len(t) /\ i = Len(s) + (i - Len(s))
      BY <1>2, <2>3
    <3> QED
      BY <3>1
  <2> QED
    BY <2>1, <2>2, <2>3
<1>5. Descending(u)
  <2> SUFFICES ASSUME NEW i \in 1 .. Len(u), NEW j \in 1 .. Len(u), i < j PROVE u[i] > u[j]
    BY <1>2, SeqIs
  <2>1. CASE i \in 1 .. Len(s) /\ j \in 1 .. Len(s)
    BY <1>3, <1>4, <2>1
  <2>2. CASE \E k \in 1 .. Len(t) : i = Len(s) + k
    <3>1. PICK k \in 1 .. Len(t) : i = Len(s) + k
      BY <2>2
    <3>2. PICK l \in 1 .. Len(t) : j = Len(s) + l
      <4>1. j \notin 1 .. Len(s)
        <5>1. Len(s) \in Nat /\ k \in Nat /\ k > 0 /\ j \in Nat /\ Len(s) + k < j
          BY <1>2, <3>1
        <5> QED
          BY <5>1
      <4> QED
        BY <1>4, <4>1
    <3>3. k < l
      BY <1>2, <3>1, <3>2
    <3> QED
      BY <1>3, <1>4, <3>1, <3>2, <3>3
  <2>3. CASE i \in 1 .. Len(s) /\ \E k \in 1 .. Len(t) : j = Len(s) + k
    <3>1. PICK k \in 1 .. Len(t) : j = Len(s) + k
      BY <2>3
    <3>2. s # <<>> /\ Len(s) \in 1 .. Len(s)
      BY <1>2, <2>3, SeqIs
    <3>3. t[k] < s[Len(s)] /\ t[k] \in Nat /\ s[Len(s)] \in Nat /\ s[i] \in Nat
      BY <1>3, <2>3, <3>2
    <3>4. i = Len(s) \/ s[i] > s[Len(s)]
      <4>1. i = Len(s) \/ i < Len(s)
        BY <1>2, <2>3
      <4> QED
        BY <1>3, <2>3, <3>2, <4>1
    <3>5. u[i] = s[i] /\ u[j] = t[k]
      BY <1>4, <2>3, <3>1
    <3> QED
      BY <3>3, <3>4, <3>5
  <2> QED
    BY <1>4, <2>1, <2>2, <2>3
<1>6. Range(u) = Range(s) \cup Range(t)
  BY <1>1, RangeConcatenation
<1> QED
  BY <1>1, <1>5, <1>6

-----------------------------------------------------------------------------
(* Walks *)

WalkKinds == {"timeline", "activity", "inbox", "audit"}
WalkType ==
  [pc : {"open", "done"}, kind : WalkKinds, v : Members, of : Rooms \cup Members \cup {None}, cursor : Nat,
   got : Seq(Nat), steady : SUBSET Nat, lost : Nat]

\* The rows of a table of the audit log, and that there are no more than a page
\* and one of either.
RowsOf(table) == {i \in DOMAIN audit : audit[i] = table}
Few == \A table \in Tables : ~(Cardinality(RowsOf(table)) > Limit + 1)

\* What the walk is past, and what it is past without having shown it.
Passed(i) == walk.pc = "done" \/ (walk.got # <<>> /\ i >= walk.cursor)
Missed == {i \in walk.steady \ Range(walk.got) : Passed(i)}

WalkTypes ==
  /\ audit \in Seq(Tables)
  /\ walk # NoWalk =>
       /\ walk \in WalkType /\ walk.steady \subseteq Shown
       /\ walk.got = <<>> => walk.cursor = 0
       /\ walk.got # <<>> => walk.cursor = walk.got[Len(walk.got)]

\* The walk shows rows from the newest on, and of those it is past it missed none
\* but what was lost at a page; the cursor's own row stays in the inbox and the log.
WalkRight ==
  walk # NoWalk /\ (walk.kind = "audit" => Few) =>
    /\ Descending(walk.got)
    /\ walk.kind \in {"timeline", "activity"} => Cardinality(Missed) <= walk.lost
    /\ walk.kind = "inbox" =>
         (Missed = {} \/ walk.lost > 0) /\ (walk.got # <<>> => walk.cursor \in DOMAIN notice[walk.v])
    /\ walk.kind = "audit" =>
         Missed = {} /\ (walk.got # <<>> => walk.cursor \in DOMAIN audit)

WalkInv == WalkTypes /\ WalkRight

LEMMA NoWalkFields == NoWalk.pc = "idle" /\ NoWalk.got = <<>> /\ NoWalk.steady = {} /\ NoWalk.cursor = 0 /\ NoWalk.lost = 0
BY DEF NoWalk

LEMMA WalkIs ==
  ASSUME NEW w \in WalkType
  PROVE  w # NoWalk /\ w.pc \in {"open", "done"}
BY NoWalkFields DEF WalkType

LEMMA WalkParts ==
  ASSUME WalkInv
  PROVE  WalkMissesFew
<1> DEFINE missed == walk.steady \ Range(walk.got)
<1>1. Few <=> ~\E table \in Tables : Cardinality({i \in DOMAIN audit : audit[i] = table}) > Limit + 1
  BY DEF Few, RowsOf
<1>2. CASE walk = NoWalk
  <2>1. \A i, j \in DOMAIN walk.got : i < j => walk.got[i] > walk.got[j]
    BY <1>2, NoWalkFields
  <2>2. walk.pc # "done"
    BY <1>2, NoWalkFields
  <2> QED
    BY <2>1, <2>2 DEF WalkMissesFew
<1>3. CASE walk # NoWalk
  <2> SUFFICES ASSUME walk.kind = "audit" => Few
      PROVE  /\ \A i, j \in DOMAIN walk.got : i < j => walk.got[i] > walk.got[j]
             /\ walk.pc = "done" =>
                  CASE walk.kind = "inbox" -> missed # {} => walk.lost > 0
                    [] walk.kind = "audit" -> missed = {}
                    [] OTHER -> Cardinality(missed) <= walk.lost
    BY <1>1 DEF WalkMissesFew
  <2>1. walk.pc = "done" => missed = Missed
    BY DEF Missed, Passed
  <2>2. walk.kind \in WalkKinds
    BY <1>3 DEF WalkInv, WalkTypes, WalkType
  <2>3. /\ Descending(walk.got)
        /\ walk.kind \in {"timeline", "activity"} => Cardinality(Missed) <= walk.lost
        /\ walk.kind = "inbox" => Missed = {} \/ walk.lost > 0
        /\ walk.kind = "audit" => Missed = {}
    BY <1>3 DEF WalkInv, WalkRight
  <2> HIDE DEF missed
  <2> QED
    BY <2>1, <2>2, <2>3 DEF WalkKinds, Descending
<1> QED
  BY <1>2, <1>3

\* The rows a list shows are finitely many.
LEMMA ShownIs ==
  ASSUME SocialInv, audit \in Seq(Tables), NEW kind \in WalkKinds, NEW v \in Members, NEW x
  PROVE  ShownIn(kind, v, x) \in SUBSET Nat /\ IsFiniteSet(ShownIn(kind, v, x))
<1>1. ASSUME NEW T \in SUBSET Posts, \A p \in T : Exists(p), NEW S, S = {post[p].at : p \in T}
      PROVE  S \in SUBSET Nat /\ IsFiniteSet(S)
  <2>1. \A p \in T : post[p].at \in Nat
    BY <1>1, PostFields DEF SocialInv, PostsOK, Exists
  <2>2. PICK f : f = [p \in T |-> post[p].at]
    OBVIOUS
  <2>3. f \in [T -> S] /\ \A n \in S : \E p \in T : f[p] = n
    BY <1>1, <2>2
  <2>4. f \in Surjection(T, S)
    BY <2>3 DEF Surjection
  <2>5. IsFiniteSet(T)
    BY SocialAssumption, FS_Subset
  <2> QED
    BY <1>1, <2>1, <2>4, <2>5, FS_Surjection
<1>2. CASE kind = "timeline"
  <2>1. PICK T : T = {p \in Posts : InTimeline(v, p) /\ post[p].room = x}
    OBVIOUS
  <2>2. T \in SUBSET Posts /\ \A p \in T : Exists(p)
    BY <2>1 DEF InTimeline
  <2>3. ShownIn(kind, v, x) = {post[p].at : p \in T}
    BY <1>2, <2>1 DEF ShownIn
  <2> QED
    BY <1>1, <2>2, <2>3
<1>3. CASE kind = "activity"
  <2>1. PICK T : T = {p \in Posts : InActivity(v, p) /\ post[p].by = x}
    OBVIOUS
  <2>2. T \in SUBSET Posts /\ \A p \in T : Exists(p)
    BY <2>1 DEF InActivity
  <2>3. ShownIn(kind, v, x) = {post[p].at : p \in T}
    BY <1>3, <2>1 DEF ShownIn
  <2> QED
    BY <1>1, <2>2, <2>3
<1>4. ASSUME NEW A, NEW s \in Seq(A), NEW S \in SUBSET DOMAIN s PROVE S \in SUBSET Nat /\ IsFiniteSet(S)
  <2>1. PICK n \in Nat : DOMAIN s = 1 .. n
    BY LenProperties
  <2>2. IsFiniteSet(1 .. n) /\ 1 .. n \in SUBSET Nat
    BY FS_Interval
  <2> QED
    BY <2>1, <2>2, FS_Subset
<1>5. CASE kind = "inbox"
  <2>1. notice[v] \in Seq(NoticeType)
    BY DEF SocialInv, NoticesOK
  <2>2. ShownIn(kind, v, x) \in SUBSET DOMAIN notice[v]
    BY <1>5 DEF ShownIn
  <2> QED
    BY <1>4, <2>1, <2>2
<1>6. CASE kind = "audit"
  <2>1. ShownIn(kind, v, x) = DOMAIN audit
    BY <1>6 DEF ShownIn
  <2> QED
    BY <1>4, <2>1
<1> QED
  BY <1>2, <1>3, <1>5, <1>6 DEF WalkKinds

\* What is shown depends on posts, blocks, mutes, notices and the log.
LEMMA ShownStays ==
  ASSUME UNCHANGED <<vars, audit>>, NEW kind, NEW v, NEW x
  PROVE  ShownIn(kind, v, x)' = ShownIn(kind, v, x)
BY DEF vars, ties, news, ShownIn, InTimeline, InActivity, InInbox, OpenRoom, Readable, Planner, Blocked, Exists

LEMMA ShownAfter ==
  ASSUME NEW kind, NEW v, NEW x, walk'.kind = kind, walk'.v = v, walk'.of = x
  PROVE  Shown' = ShownIn(kind, v, x)'
BY DEF Shown, ShownIn, InTimeline, InActivity, InInbox, OpenRoom, Readable, Planner, Blocked, Exists

\* Notices are added and rewritten, never taken away.
LEMMA NoticesGrow ==
  ASSUME SocialInv, Next, NEW v \in Members
  PROVE  DOMAIN notice[v] \subseteq DOMAIN notice'[v]
<1>1. notice \in [Members -> Seq(NoticeType)]
  BY DEF SocialInv, NoticesOK
<1>2. \/ UNCHANGED notice
      \/ \E r \in Requests : NotifyMentioned(r) \/ \E f \in Members : Tell(r, f)
  <2>1. ASSUME NEW r \in Requests, Toggle(r) PROVE UNCHANGED notice
    BY <2>1 DEF Toggle, CheckFollow, CheckRoom, Start, ReadFollow, Follow, Unfollow, news
  <2>2. ASSUME NEW r \in Requests, Part(r) PROVE UNCHANGED notice
    BY <2>2 DEF Part, ClearFollows, Block, news
  <2>3. ASSUME NEW r \in Requests, Publish(r)
        PROVE  UNCHANGED notice \/ NotifyMentioned(r) \/ \E f \in Members : Tell(r, f)
    BY <2>3 DEF Publish, LookPost, Start, InsertPost, Announce, Detach, InsertMentions, news
  <2>4. ASSUME NEW r \in Requests, TakeDown(r) PROVE UNCHANGED notice
    BY <2>4 DEF TakeDown, LookDelete, Start, Delete, ClearMentions, news
  <2>5. ASSUME NEW r \in Requests, Fail(r) PROVE UNCHANGED notice
    BY <2>5 DEF Fail, news
  <2>6. ASSUME NEW u \in Members, NEW w \in Members, Unblock(u, w) \/ Mute(u, w) \/ Unmute(u, w) PROVE UNCHANGED notice
    BY <2>6 DEF Unblock, Mute, Unmute, news
  <2>7. ASSUME NEW p \in Posts, Moderate(p) PROVE UNCHANGED notice
    BY <2>7 DEF Moderate, news
  <2> QED
    BY <2>1, <2>2, <2>3, <2>4, <2>5, <2>6, <2>7 DEF Next
<1>3. ASSUME NEW s \in Seq(NoticeType), NEW row PROVE DOMAIN s \subseteq DOMAIN Append(s, row)
  OBVIOUS
<1>4. ASSUME NEW r \in Requests, NotifyMentioned(r) PROVE DOMAIN notice[v] \subseteq DOMAIN notice'[v]
  <2>1. notice'[v] = notice[v] \/ \E row : notice'[v] = Append(notice[v], row)
    BY <1>1, <1>4 DEF NotifyMentioned
  <2> QED
    BY <1>1, <1>3, <2>1
<1>5. ASSUME NEW r \in Requests, NEW f \in Members, Tell(r, f) PROVE DOMAIN notice[v] \subseteq DOMAIN notice'[v]
  <2>1. PICK row : row = [kind |-> "NEWS", post |-> request[r].v, actor |-> request[r].u]
    OBVIOUS
  <2>2. \/ notice' = [notice EXCEPT ![f] = Append(@, row)]
        \/ \E i \in DOMAIN notice[f] : notice' = [notice EXCEPT ![f] = [@ EXCEPT ![i] = row]]
    BY <1>5, <2>1 DEF Tell
  <2>3. CASE v # f
    BY <1>1, <2>2, <2>3
  <2>4. CASE v = f
    <3>1. CASE notice' = [notice EXCEPT ![f] = Append(@, row)]
      <4>1. notice'[v] = Append(notice[v], row)
        BY <1>1, <2>4, <3>1
      <4> QED
        BY <1>1, <1>3, <4>1
    <3>2. CASE \E i \in DOMAIN notice[f] : notice' = [notice EXCEPT ![f] = [@ EXCEPT ![i] = row]]
      <4>1. PICK i \in DOMAIN notice[f] : notice' = [notice EXCEPT ![f] = [@ EXCEPT ![i] = row]]
        BY <3>2
      <4>2. notice'[v] = [notice[v] EXCEPT ![i] = row]
        BY <1>1, <2>4, <4>1
      <4> QED
        BY <4>2
    <3> QED
      BY <2>2, <3>1, <3>2
  <2> QED
    BY <2>3, <2>4
<1> QED
  BY <1>2, <1>4, <1>5

\* Nothing of a walk or of the log changes.
LEMMA WalkStutters ==
  ASSUME WalkInv, UNCHANGED <<vars, walk, audit>>
  PROVE  WalkInv'
<1>1. Shown' = Shown
  <2>1. PICK kind, v, x : kind = walk.kind /\ v = walk.v /\ x = walk.of
    OBVIOUS
  <2>2. Shown' = ShownIn(kind, v, x)'
    BY <2>1, ShownAfter
  <2>3. ShownIn(kind, v, x)' = ShownIn(kind, v, x)
    BY ShownStays
  <2> QED
    BY <2>1, <2>2, <2>3 DEF Shown
<1>2. UNCHANGED notice
  BY DEF vars, news
<1>3. WalkTypes'
  BY <1>1 DEF WalkInv, WalkTypes
<1>4. (Few' <=> Few) /\ Missed' = Missed
  BY DEF Few, RowsOf, Missed, Passed
<1>5. WalkRight'
  BY <1>2, <1>4 DEF WalkInv, WalkRight
<1> QED
  BY <1>3, <1>5 DEF WalkInv

\* Posts, ties and notices change: less has been there from the beginning.
LEMMA KeepSteadyInv ==
  ASSUME SocialInv, WalkInv, Next, KeepSteady, UNCHANGED audit
  PROVE  WalkInv'
<1>1. PICK kind, v, x : kind = walk.kind /\ v = walk.v /\ x = walk.of
  OBVIOUS
<1>2. walk' = IF walk.pc = "idle" THEN walk ELSE [walk EXCEPT !.steady = @ \cap ShownIn(kind, v, x)']
  BY <1>1 DEF KeepSteady
<1>3. CASE walk = NoWalk
  <2>1. walk' = NoWalk
    BY <1>2, <1>3, NoWalkFields
  <2> QED
    BY <2>1 DEF WalkInv, WalkTypes, WalkRight
<1>4. CASE walk # NoWalk
  <2>1. /\ walk \in WalkType /\ audit \in Seq(Tables)
        /\ walk.got = <<>> => walk.cursor = 0
        /\ walk.got # <<>> => walk.cursor = walk.got[Len(walk.got)]
    BY <1>4 DEF WalkInv, WalkTypes
  <2>2. PICK kept : kept = walk.steady \cap ShownIn(kind, v, x)'
    OBVIOUS
  <2>3. walk' = [walk EXCEPT !.steady = kept]
    BY <1>2, <2>1, <2>2, WalkIs, NoWalkFields
  <2>4. /\ walk' \in WalkType /\ walk'.steady = kept /\ walk'.pc = walk.pc /\ walk'.got = walk.got
        /\ walk'.cursor = walk.cursor /\ walk'.lost = walk.lost
        /\ walk'.kind = kind /\ walk'.v = v /\ walk'.of = x
    BY <1>1, <2>1, <2>2, <2>3 DEF WalkType
  <2>5. Shown' = ShownIn(kind, v, x)'
    BY <2>4, ShownAfter
  <2>6. WalkTypes'
    BY <2>1, <2>2, <2>4, <2>5 DEF WalkTypes
  <2>7. Few' <=> Few
    BY DEF Few, RowsOf
  <2>8. Missed' \subseteq Missed
    BY <2>2, <2>4 DEF Missed, Passed
  <2>9. kind \in WalkKinds /\ v \in Members /\ walk.steady \subseteq Shown
    BY <1>1, <1>4, <2>1 DEF WalkType, WalkInv, WalkTypes
  <2>10. Cardinality(Missed') <= Cardinality(Missed) /\ Cardinality(Missed') \in Nat /\ Cardinality(Missed) \in Nat
    <3>1. IsFiniteSet(Shown)
      BY <1>1, <2>1, <2>9, ShownIs DEF Shown
    <3>2. Missed \in SUBSET Shown
      BY <2>9 DEF Missed
    <3>3. IsFiniteSet(Missed) /\ IsFiniteSet(Missed')
      BY <2>8, <3>1, <3>2, FS_Subset
    <3> QED
      BY <2>8, <3>3, FS_Subset, FS_CardinalityType
  <2>11. walk.lost \in Nat
    BY <2>1 DEF WalkType
  <2>12. DOMAIN notice[v] \subseteq DOMAIN notice'[v]
    BY <2>9, NoticesGrow
  <2>13. WalkRight'
    <3> SUFFICES ASSUME walk'.kind = "audit" => Few'
        PROVE  /\ Descending(walk'.got)
               /\ walk'.kind \in {"timeline", "activity"} => Cardinality(Missed') <= walk'.lost
               /\ walk'.kind = "inbox" =>
                    (Missed' = {} \/ walk'.lost > 0) /\ (walk'.got # <<>> => walk'.cursor \in DOMAIN notice'[walk'.v])
               /\ walk'.kind = "audit" =>
                    Missed' = {} /\ (walk'.got # <<>> => walk'.cursor \in DOMAIN audit')
      BY DEF WalkRight, Descending
    <3>1. /\ Descending(walk.got)
          /\ kind \in {"timeline", "activity"} => Cardinality(Missed) <= walk.lost
          /\ kind = "inbox" =>
               (Missed = {} \/ walk.lost > 0) /\ (walk.got # <<>> => walk.cursor \in DOMAIN notice[v])
          /\ kind = "audit" =>
               Missed = {} /\ (walk.got # <<>> => walk.cursor \in DOMAIN audit)
      BY <1>1, <1>4, <2>4, <2>7 DEF WalkInv, WalkRight
    <3>2. kind \in {"timeline", "activity"} => Cardinality(Missed') <= walk.lost
      BY <2>10, <2>11, <3>1
    <3> QED
      BY <2>4, <2>8, <2>12, <3>1, <3>2
  <2> QED
    BY <2>6, <2>13 DEF WalkInv
<1> QED
  BY <1>3, <1>4

LEMMA BeginWalkInv ==
  ASSUME SocialInv, WalkInv, NEW kind \in WalkKinds, NEW v \in Members, NEW x \in Rooms \cup Members \cup {None},
         BeginWalk(kind, v, x)
  PROVE  WalkInv'
<1>1. PICK S : S = ShownIn(kind, v, x)
  OBVIOUS
<1>2. walk' = [NoWalk EXCEPT !.pc = "open", !.kind = kind, !.v = v, !.of = x, !.steady = S] /\ UNCHANGED <<vars, audit>>
  BY <1>1 DEF BeginWalk
<1>3. audit \in Seq(Tables)
  BY DEF WalkInv, WalkTypes
<1>4. S \in SUBSET Nat
  BY <1>1, <1>3, ShownIs
<1>5. walk' = [pc |-> "open", kind |-> kind, v |-> v, of |-> x, cursor |-> 0, got |-> <<>>, steady |-> S, lost |-> 0]
  BY <1>2 DEF NoWalk
<1>6. /\ walk' \in WalkType /\ walk'.pc = "open" /\ walk'.kind = kind /\ walk'.v = v /\ walk'.of = x
      /\ walk'.cursor = 0 /\ walk'.got = <<>> /\ walk'.steady = S /\ walk'.lost = 0
  <2>1. <<>> \in Seq(Nat)
    BY EmptySeq
  <2> QED
    BY <1>4, <1>5, <2>1 DEF WalkType
<1>7. Shown' = S
  <2>1. Shown' = ShownIn(kind, v, x)'
    BY <1>6, ShownAfter
  <2>2. ShownIn(kind, v, x)' = ShownIn(kind, v, x)
    BY <1>2, ShownStays
  <2> QED
    BY <1>1, <2>1, <2>2
<1>8. WalkTypes'
  BY <1>2, <1>3, <1>6, <1>7 DEF WalkTypes
<1>9. Missed' = {}
  BY <1>6 DEF Missed, Passed
<1>10. Cardinality(Missed') <= 0
  BY <1>9, FS_EmptySet
<1>11. Descending(walk'.got)
  BY <1>6 DEF Descending
<1>12. WalkRight'
  BY <1>6, <1>9, <1>10, <1>11 DEF WalkRight, Descending
<1> QED
  BY <1>8, <1>12 DEF WalkInv

\* The log grows; if either table has few rows, it had.
LEMMA RecordInv ==
  ASSUME WalkInv, NEW table \in Tables, Record(table)
  PROVE  WalkInv'
<1>1. audit \in Seq(Tables) /\ audit' = Append(audit, table) /\ UNCHANGED <<vars, walk>>
  BY DEF Record, WalkInv, WalkTypes
<1>2. /\ audit' \in Seq(Tables) /\ Len(audit') = Len(audit) + 1 /\ Len(audit) \in Nat
      /\ DOMAIN audit = 1 .. Len(audit) /\ DOMAIN audit' = 1 .. Len(audit')
      /\ \A i \in 1 .. Len(audit) : audit'[i] = audit[i]
  BY <1>1, AppendProperties, LenProperties
<1>3. DOMAIN audit \subseteq DOMAIN audit'
  BY <1>2
<1>4. Shown \subseteq Shown'
  <2>1. CASE walk.kind = "audit"
    <3>1. Shown = DOMAIN audit /\ Shown' = DOMAIN audit'
      BY <1>1, <2>1 DEF Shown, ShownIn
    <3> QED
      BY <1>3, <3>1
  <2>2. CASE walk.kind # "audit"
    BY <1>1, <2>2 DEF vars, ties, news, Shown, ShownIn, InTimeline, InActivity, InInbox, OpenRoom, Readable, Planner, Blocked, Exists
  <2> QED
    BY <2>1, <2>2
<1>5. WalkTypes'
  <2>1. walk \in WalkType /\ walk.steady \subseteq Shown =>
          walk' \in WalkType /\ walk'.steady \subseteq Shown'
    BY <1>1, <1>4
  <2> QED
    BY <1>1, <1>2, <2>1 DEF WalkInv, WalkTypes
<1>6. Few' => Few
  <2> SUFFICES ASSUME Few', NEW t \in Tables PROVE ~(Cardinality(RowsOf(t)) > Limit + 1)
    BY DEF Few
  <2>1. RowsOf(t) \in SUBSET RowsOf(t)' /\ RowsOf(t)' \in SUBSET (1 .. Len(audit'))
    BY <1>2, <1>3 DEF RowsOf
  <2>2. IsFiniteSet(1 .. Len(audit'))
    BY <1>2, FS_Interval
  <2>3. IsFiniteSet(RowsOf(t)') /\ IsFiniteSet(RowsOf(t))
    BY <2>1, <2>2, FS_Subset
  <2>4. Cardinality(RowsOf(t)) <= Cardinality(RowsOf(t)') /\ Cardinality(RowsOf(t)) \in Nat /\ Cardinality(RowsOf(t)') \in Nat
    BY <2>1, <2>3, FS_Subset, FS_CardinalityType
  <2>5. ~(Cardinality(RowsOf(t)') > Limit + 1)
    BY DEF Few
  <2> QED
    BY <2>4, <2>5, FeedsAssumption
<1>7. Missed' = Missed
  BY <1>1 DEF Missed, Passed
<1>8. UNCHANGED notice
  BY <1>1 DEF vars, news
<1>9. WalkRight'
  BY <1>1, <1>3, <1>6, <1>7, <1>8 DEF WalkInv, WalkRight, Descending
<1> QED
  BY <1>5, <1>9 DEF WalkInv

\* A page is added to what the walk has shown.
LEMMA TurnTypes ==
  ASSUME WalkTypes, walk.pc = "open", NEW items \in Seq(Nat), NEW more, NEW lost \in Nat,
         Turn(items, more, lost), UNCHANGED <<vars, audit>>
  PROVE  /\ WalkTypes' /\ walk \in WalkType /\ walk' # NoWalk
         /\ walk'.kind = walk.kind /\ walk'.v = walk.v /\ walk'.of = walk.of /\ walk'.steady = walk.steady
         /\ walk'.pc = (IF more THEN "open" ELSE "done") /\ walk'.got = walk.got \o items
         /\ walk'.cursor = (IF items = <<>> THEN walk.cursor ELSE items[Len(items)])
         /\ walk'.lost = walk.lost + lost /\ walk.lost \in Nat
         /\ items # <<>> => items[Len(items)] \in Range(items) /\ walk'.got # <<>>
         /\ items = <<>> => walk'.got = walk.got
<1>1. /\ walk \in WalkType /\ audit \in Seq(Tables) /\ walk.steady \subseteq Shown
      /\ walk.got = <<>> => walk.cursor = 0
      /\ walk.got # <<>> => walk.cursor = walk.got[Len(walk.got)]
  BY NoWalkFields DEF WalkTypes
<1>2. walk.got \in Seq(Nat) /\ walk.cursor \in Nat /\ walk.lost \in Nat
  BY <1>1 DEF WalkType
<1>3. PICK got : got = walk.got \o items
  OBVIOUS
<1>4. /\ got \in Seq(Nat)
      /\ got = <<>> => walk.got = <<>> /\ items = <<>>
      /\ items = <<>> => got = walk.got
      /\ items # <<>> => got[Len(got)] = items[Len(items)] /\ got # <<>>
  BY <1>2, <1>3, Joined
<1>5. PICK cursor : cursor = IF items = <<>> THEN walk.cursor ELSE items[Len(items)]
  OBVIOUS
<1>6. items # <<>> => items[Len(items)] \in Nat /\ items[Len(items)] \in Range(items)
  <2> SUFFICES ASSUME items # <<>> PROVE items[Len(items)] \in Nat /\ items[Len(items)] \in Range(items)
    OBVIOUS
  <2>1. Len(items) \in 1 .. Len(items)
    BY SeqIs
  <2> QED
    BY <2>1, SeqIs
<1>7. cursor \in Nat
  BY <1>2, <1>5, <1>6
<1>8. PICK pc : pc = IF more THEN "open" ELSE "done"
  OBVIOUS
<1>9. PICK all : all = walk.lost + lost
  OBVIOUS
<1>10. all \in Nat /\ pc \in {"open", "done"}
  BY <1>2, <1>8, <1>9
<1>11. walk' = [walk EXCEPT !.pc = pc, !.got = got, !.cursor = cursor, !.lost = all]
  BY <1>3, <1>5, <1>8, <1>9 DEF Turn
<1>12. /\ walk' \in WalkType /\ walk'.pc = pc /\ walk'.got = got /\ walk'.cursor = cursor /\ walk'.lost = all
       /\ walk'.kind = walk.kind /\ walk'.v = walk.v /\ walk'.of = walk.of /\ walk'.steady = walk.steady
  BY <1>1, <1>4, <1>7, <1>10, <1>11 DEF WalkType
<1>13. Shown' = Shown
  <2>1. PICK kind, v, x : kind = walk.kind /\ v = walk.v /\ x = walk.of
    OBVIOUS
  <2>2. Shown' = ShownIn(kind, v, x)'
    BY <1>12, <2>1, ShownAfter
  <2>3. ShownIn(kind, v, x)' = ShownIn(kind, v, x)
    BY ShownStays
  <2> QED
    BY <2>1, <2>2, <2>3 DEF Shown
<1>14. WalkTypes'
  BY <1>1, <1>4, <1>5, <1>12, <1>13 DEF WalkTypes
<1>15. walk' # NoWalk
  BY <1>12, WalkIs
<1> QED
  BY <1>1, <1>2, <1>3, <1>4, <1>5, <1>6, <1>8, <1>9, <1>12, <1>14, <1>15

\* A page of what follows the cursor: the walk goes on from the newest to the
\* oldest, and what it newly passes without showing it was not on the list.
LEMMA TurnRight ==
  ASSUME WalkTypes, walk.pc = "open", NEW rows \in Seq(Nat), Descending(rows), NEW lost \in Nat,
         Descending(walk.got), walk.got # <<>> => \A x \in Range(rows) : x < walk.cursor,
         Turn(First(Limit, rows), Len(rows) > Limit, lost), UNCHANGED <<vars, audit>>
  PROVE  /\ WalkTypes' /\ Descending(walk'.got)
         /\ walk'.got # <<>> => walk'.cursor \in Range(rows) \/ (walk.got # <<>> /\ walk'.cursor = walk.cursor)
         /\ \A x \in Missed' : x \in Missed \/ /\ x \in walk.steady /\ x \notin Range(rows)
                                               /\ walk.got = <<>> \/ x < walk.cursor
                                               /\ Len(rows) > Limit => \E y \in Range(rows) : x >= y
<1>1. PICK items : items = First(Limit, rows)
  OBVIOUS
<1>2. PICK more : more = (Len(rows) > Limit)
  OBVIOUS
<1>3. Limit \in Nat /\ Limit \in Nat \ {0}
  BY FeedsAssumption
<1>4. items \in Seq(Nat) /\ Descending(items) /\ Range(items) \subseteq Range(rows)
  BY <1>1, <1>3, FirstDescends
<1>5. Turn(items, more, lost)
  BY <1>1, <1>2
<1>6. /\ WalkTypes' /\ walk \in WalkType /\ walk' # NoWalk
      /\ walk'.steady = walk.steady
      /\ walk'.pc = (IF more THEN "open" ELSE "done") /\ walk'.got = walk.got \o items
      /\ walk'.cursor = (IF items = <<>> THEN walk.cursor ELSE items[Len(items)])
      /\ items # <<>> => items[Len(items)] \in Range(items) /\ walk'.got # <<>>
      /\ items = <<>> => walk'.got = walk.got
  BY <1>4, <1>5, TurnTypes
<1>7. walk.got \in Seq(Nat) /\ walk.cursor \in Nat /\ walk.steady \in SUBSET Nat /\ walk' \in WalkType /\ walk'.cursor \in Nat
  BY <1>6 DEF WalkType, WalkTypes
<1>8. walk.got # <<>> => \A i \in DOMAIN items : items[i] < walk.got[Len(walk.got)]
  <2>1. \A i \in DOMAIN items : items[i] \in Range(rows)
    BY <1>4 DEF Range
  <2>2. walk.got # <<>> => walk.cursor = walk.got[Len(walk.got)]
    BY <1>6, WalkIs DEF WalkTypes
  <2> QED
    BY <2>1, <2>2
<1>9. Descending(walk.got \o items) /\ Range(walk.got \o items) = Range(walk.got) \cup Range(items)
  BY <1>4, <1>7, <1>8, JoinDescends
<1>10. Descending(walk'.got)
  BY <1>6, <1>9
<1>11. walk'.got # <<>> => walk'.cursor \in Range(rows) \/ (walk.got # <<>> /\ walk'.cursor = walk.cursor)
  BY <1>4, <1>6
<1>12. ASSUME NEW x \in Missed', x \notin Missed
       PROVE  /\ x \in walk.steady /\ x \notin Range(rows) /\ (walk.got = <<>> \/ x < walk.cursor)
              /\ Len(rows) > Limit => \E y \in Range(rows) : x >= y
  <2>1. x \in walk.steady /\ x \notin Range(walk'.got) /\ x \in Nat
        /\ (walk'.pc = "done" \/ (walk'.got # <<>> /\ x >= walk'.cursor))
    BY <1>6, <1>7 DEF Missed, Passed
  <2>2. x \notin Range(walk.got) /\ x \notin Range(items)
    BY <1>6, <1>9, <2>1
  <2>3. walk.got = <<>> \/ x < walk.cursor
    <3>1. ~(walk.got # <<>> /\ x >= walk.cursor)
      BY <1>12, <2>1, <2>2 DEF Missed, Passed
    <3> QED
      BY <1>7, <2>1, <3>1
  <2>4. x \notin Range(rows)
    <3> SUFFICES ASSUME x \in Range(rows) PROVE FALSE
      OBVIOUS
    <3>1. Len(rows) > Limit /\ items # <<>> /\ x < items[Len(items)]
      BY <1>1, <1>3, <2>2, PageIs
    <3>2. walk'.pc = "open" /\ walk'.cursor = items[Len(items)]
      BY <1>2, <1>6, <3>1
    <3>3. x >= walk'.cursor
      BY <2>1, <3>2
    <3> QED
      BY <1>7, <2>1, <3>1, <3>2, <3>3
  <2>5. ASSUME Len(rows) > Limit PROVE \E y \in Range(rows) : x >= y
    <3>1. walk'.pc = "open"
      BY <1>2, <1>6, <2>5
    <3>2. x >= walk'.cursor
      BY <2>1, <3>1
    <3>3. items # <<>>
      <4>1. Len(items) = Limit
        <5>1. Len(items) = IF Len(rows) <= Limit THEN Len(rows) ELSE Limit
          BY <1>1, <1>3, FirstIs
        <5>2. Len(rows) \in Nat
          BY SeqIs
        <5> QED
          BY <1>3, <2>5, <5>1, <5>2
      <4> QED
        BY <1>3, <1>4, <4>1, SeqIs
    <3> QED
      BY <1>4, <1>6, <3>2, <3>3
  <2> QED
    BY <2>1, <2>3, <2>4, <2>5
<1> QED
  BY <1>6, <1>10, <1>11, <1>12

LEMMA ShownFinite ==
  ASSUME SocialInv, WalkTypes, walk # NoWalk
  PROVE  Shown \in SUBSET Nat /\ IsFiniteSet(Shown) /\ walk.steady \subseteq Shown /\ walk \in WalkType
         /\ walk.kind \in WalkKinds /\ walk.v \in Members
<1>1. walk \in WalkType /\ audit \in Seq(Tables) /\ walk.steady \subseteq Shown
  BY DEF WalkTypes
<1>2. walk.kind \in WalkKinds /\ walk.v \in Members
  BY <1>1 DEF WalkType
<1> QED
  BY <1>1, <1>2, ShownIs DEF Shown

LEMMA NextPageInv ==
  ASSUME SocialInv, WalkInv, NextPage
  PROVE  WalkInv'
<1> DEFINE lost == IF walk.got # <<>> /\ walk.cursor \notin Shown THEN 1 ELSE 0
<1>1. PICK A : A = After(Shown)
  OBVIOUS
<1>2. PICK rows : rows = First(Limit + 1, A)
  OBVIOUS
<1>3. /\ walk.pc = "open" /\ walk.kind \in {"timeline", "activity"} /\ UNCHANGED <<vars, audit>>
      /\ Turn(First(Limit, rows), Len(rows) > Limit, lost)
  BY <1>1, <1>2 DEF NextPage
<1>4. walk # NoWalk /\ WalkTypes
  BY <1>3, NoWalkFields DEF WalkInv
<1>5. /\ Shown \in SUBSET Nat /\ IsFiniteSet(Shown) /\ walk.steady \subseteq Shown /\ walk \in WalkType
      /\ walk.cursor \in Nat /\ walk.lost \in Nat /\ walk.got \in Seq(Nat)
  BY <1>4, ShownFinite DEF WalkType
<1>6. /\ A \in Seq(Nat) /\ Descending(A)
      /\ walk.got = <<>> => Range(A) = Shown
      /\ walk.got # <<>> =>
           /\ \A i \in DOMAIN A : A[i] < walk.cursor
           /\ walk.cursor \in Shown => \A x \in Shown : x < walk.cursor => x \in Range(A)
           /\ \E gone : \A x \in Shown : x < walk.cursor => x = gone \/ x \in Range(A)
  BY <1>1, <1>5, AfterIs
<1>7. Limit \in Nat
  BY FeedsAssumption
<1>8. First(Limit, rows) = First(Limit, A) /\ (Len(rows) > Limit <=> Len(A) > Limit)
  BY <1>2, <1>6, <1>7, FirstDescends
<1>9. Turn(First(Limit, A), Len(A) > Limit, lost)
  <2>1. (Len(rows) > Limit) = (Len(A) > Limit)
    BY <1>8
  <2> QED
    BY <1>3, <1>8, <2>1
<1>10. walk.got # <<>> => \A x \in Range(A) : x < walk.cursor
  BY <1>6 DEF Range
<1>11. Descending(walk.got) /\ Cardinality(Missed) <= walk.lost
  BY <1>3, <1>4 DEF WalkInv, WalkRight
<1>12. lost \in Nat
  OBVIOUS
<1>13. /\ WalkTypes' /\ Descending(walk'.got)
       /\ \A x \in Missed' : x \in Missed \/ /\ x \in walk.steady /\ x \notin Range(A)
                                             /\ walk.got = <<>> \/ x < walk.cursor
  BY <1>3, <1>4, <1>6, <1>9, <1>10, <1>11, <1>12, TurnRight
<1>14. walk'.kind = walk.kind /\ walk'.lost = walk.lost + lost
  <2>1. First(Limit, A) \in Seq(Nat)
    BY <1>6, <1>7, FirstDescends
  <2>2. PICK more : more = (Len(A) > Limit)
    OBVIOUS
  <2>3. Turn(First(Limit, A), more, lost)
    BY <1>9, <2>2
  <2> HIDE DEF lost
  <2> QED
    BY <1>3, <1>4, <1>12, <2>1, <2>3, TurnTypes
<1>15. Missed \in SUBSET Shown /\ IsFiniteSet(Missed) /\ Cardinality(Missed) \in Nat
  <2>1. Missed \in SUBSET Shown
    BY <1>5 DEF Missed
  <2> QED
    BY <1>5, <2>1, FS_Subset, FS_CardinalityType
<1>16. Cardinality(Missed') <= walk'.lost
  <2>1. CASE walk.got = <<>> \/ walk.cursor \in Shown
    <3>1. Missed' \in SUBSET Missed
      BY <1>5, <1>6, <1>13, <2>1
    <3>2. Cardinality(Missed') <= Cardinality(Missed) /\ Cardinality(Missed') \in Nat
      BY <1>15, <3>1, FS_Subset, FS_CardinalityType
    <3>3. lost = 0
      BY <2>1
    <3> QED
      BY <1>5, <1>11, <1>14, <1>15, <3>2, <3>3
  <2>2. CASE walk.got # <<>> /\ walk.cursor \notin Shown
    <3>1. PICK gone : \A x \in Shown : x < walk.cursor => x = gone \/ x \in Range(A)
      BY <1>6, <2>2
    <3>2. Missed' \in SUBSET (Missed \cup {gone})
      BY <1>5, <1>13, <2>2, <3>1
    <3>3. IsFiniteSet(Missed \cup {gone}) /\ Cardinality(Missed \cup {gone}) <= Cardinality(Missed) + 1
      <4>1. /\ IsFiniteSet(Missed \cup {gone})
            /\ Cardinality(Missed \cup {gone}) = IF gone \in Missed THEN Cardinality(Missed) ELSE Cardinality(Missed) + 1
        BY <1>15, FS_AddElement
      <4> QED
        BY <1>15, <4>1
    <3>4. /\ Cardinality(Missed') <= Cardinality(Missed \cup {gone}) /\ Cardinality(Missed') \in Nat
          /\ Cardinality(Missed \cup {gone}) \in Nat
      BY <3>2, <3>3, FS_Subset, FS_CardinalityType
    <3>5. lost = 1
      BY <2>2
    <3> QED
      BY <1>5, <1>11, <1>14, <1>15, <3>3, <3>4, <3>5
  <2> QED
    BY <2>1, <2>2
<1>17. WalkRight'
  BY <1>3, <1>13, <1>14, <1>16 DEF WalkRight, Descending
<1> QED
  BY <1>13, <1>17 DEF WalkInv

\* A list is no shorter than what is picked of it.
LEMMA PickedIs ==
  ASSUME NEW rows \in Seq(Nat), NEW S \in SUBSET Range(rows)
  PROVE  /\ IsFiniteSet(Range(rows)) /\ IsFiniteSet(S)
         /\ Newest(S) \in Seq(Nat) /\ Descending(Newest(S)) /\ Range(Newest(S)) = S
         /\ Len(Newest(S)) \in Nat /\ Len(rows) \in Nat /\ Len(Newest(S)) <= Len(rows)
<1>1. PICK n \in Nat : n = Len(rows)
  BY SeqIs
<1>2. IsFiniteSet(1 .. n) /\ Cardinality(1 .. n) = n
  <2>1. IsFiniteSet(1 .. n) /\ Cardinality(1 .. n) = IF 1 > n THEN 0 ELSE n - 1 + 1
    BY FS_Interval
  <2> QED
    BY <2>1
<1>3. rows \in Surjection(1 .. n, Range(rows))
  <2>1. DOMAIN rows = 1 .. n /\ \A x \in Range(rows) : \E i \in 1 .. n : rows[i] = x
    BY <1>1, SeqIs
  <2>2. rows \in [1 .. n -> Range(rows)]
    BY <2>1 DEF Range
  <2> QED
    BY <2>1, <2>2 DEF Surjection
<1>4. IsFiniteSet(Range(rows)) /\ Cardinality(Range(rows)) <= n
  BY <1>2, <1>3, FS_Surjection
<1>5. IsFiniteSet(S) /\ Cardinality(S) <= Cardinality(Range(rows)) /\ S \in SUBSET Nat
  BY <1>4, FS_Subset, SeqIs
<1>6. Cardinality(S) \in Nat /\ Cardinality(Range(rows)) \in Nat
  BY <1>4, <1>5, FS_CardinalityType
<1>7. Newest(S) \in Seq(Nat) /\ Descending(Newest(S)) /\ Range(Newest(S)) = S /\ Len(Newest(S)) = Cardinality(S)
  BY <1>5, NewestIs
<1> QED
  BY <1>1, <1>4, <1>5, <1>6, <1>7

LEMMA NextPageOfInboxInv ==
  ASSUME SocialInv, WalkInv, NextPageOfInbox
  PROVE  WalkInv'
<1>1. PICK T : T = DOMAIN notice[walk.v]
  OBVIOUS
<1>2. PICK A : A = After(T)
  OBVIOUS
<1>3. PICK rows : rows = First(Limit + 1, A)
  OBVIOUS
<1>4. PICK visible : visible = Newest(Range(rows) \cap Shown)
  OBVIOUS
<1>5. PICK lost : lost = Len(rows) - Len(visible)
  OBVIOUS
<1>6. /\ walk.pc = "open" /\ walk.kind = "inbox" /\ UNCHANGED <<vars, audit>>
      /\ Turn(First(Limit, visible), Len(visible) > Limit, lost)
  BY <1>1, <1>2, <1>3, <1>4, <1>5 DEF NextPageOfInbox
<1>7. walk # NoWalk /\ WalkTypes
  BY <1>6, NoWalkFields DEF WalkInv
<1>8. /\ walk.steady \subseteq Shown /\ walk \in WalkType /\ walk.v \in Members
      /\ walk.cursor \in Nat /\ walk.lost \in Nat /\ walk.steady \in SUBSET Nat
  BY <1>7, ShownFinite DEF WalkType
<1>9. T \in SUBSET Nat /\ IsFiniteSet(T)
  <2>1. PICK n \in Nat : T = 1 .. n
    <3>1. notice[walk.v] \in Seq(NoticeType)
      BY <1>8 DEF SocialInv, NoticesOK
    <3> QED
      BY <1>1, <3>1, LenProperties
  <2> QED
    BY <2>1, FS_Interval
<1>10. Shown \subseteq T
  BY <1>1, <1>6 DEF Shown, ShownIn
<1>11. /\ Descending(walk.got) /\ (Missed = {} \/ walk.lost > 0)
       /\ walk.got # <<>> => walk.cursor \in T
  BY <1>1, <1>6, <1>7 DEF WalkInv, WalkRight
<1>12. /\ A \in Seq(Nat) /\ Descending(A)
       /\ walk.got = <<>> => Range(A) = T
       /\ walk.got # <<>> => /\ \A i \in DOMAIN A : A[i] < walk.cursor
                             /\ \A x \in T : x < walk.cursor => x \in Range(A)
  BY <1>2, <1>8, <1>9, <1>11, AfterIs
<1>13. Limit \in Nat /\ Limit + 1 \in Nat /\ Limit + 1 \in Nat \ {0}
  BY FeedsAssumption
<1>14. /\ rows \in Seq(Nat) /\ Descending(rows) /\ Range(rows) \subseteq Range(A)
       /\ Len(rows) = IF Len(A) <= Limit + 1 THEN Len(A) ELSE Limit + 1
  BY <1>3, <1>12, <1>13, FirstDescends, FirstIs
<1>15. /\ visible \in Seq(Nat) /\ Descending(visible) /\ Range(visible) = Range(rows) \cap Shown
       /\ Len(visible) \in Nat /\ Len(rows) \in Nat /\ Len(visible) <= Len(rows)
  <2>1. Range(rows) \cap Shown \in SUBSET Range(rows)
    OBVIOUS
  <2> QED
    BY <1>4, <1>14, <2>1, PickedIs
<1>16. lost \in Nat
  BY <1>5, <1>15
<1>17. walk.got # <<>> => \A x \in Range(visible) : x < walk.cursor
  <2>1. walk.got # <<>> => \A x \in Range(A) : x < walk.cursor
    BY <1>12 DEF Range
  <2> QED
    BY <1>14, <1>15, <2>1
<1>18. /\ WalkTypes' /\ Descending(walk'.got)
       /\ walk'.got # <<>> => walk'.cursor \in Range(visible) \/ (walk.got # <<>> /\ walk'.cursor = walk.cursor)
       /\ \A x \in Missed' : x \in Missed \/ /\ x \in walk.steady /\ x \notin Range(visible)
                                             /\ walk.got = <<>> \/ x < walk.cursor
                                             /\ Len(visible) > Limit => \E y \in Range(visible) : x >= y
  BY <1>6, <1>7, <1>11, <1>15, <1>16, <1>17, TurnRight
<1>19. walk'.kind = "inbox" /\ walk'.v = walk.v /\ walk'.lost = walk.lost + lost
  <2>1. First(Limit, visible) \in Seq(Nat)
    BY <1>13, <1>15, FirstDescends
  <2> QED
    BY <1>6, <1>7, <1>16, <2>1, TurnTypes
<1>20. ASSUME NEW x \in Missed', x \notin Missed PROVE lost > 0
  <2>1. /\ x \in walk.steady /\ x \notin Range(visible) /\ (walk.got = <<>> \/ x < walk.cursor)
        /\ Len(visible) > Limit => \E y \in Range(visible) : x >= y
    BY <1>18, <1>20
  <2>2. x \in Shown /\ x \in T /\ x \in Nat
    BY <1>8, <1>10, <2>1
  <2>3. x \in Range(A) /\ x \notin Range(rows)
    BY <1>12, <1>15, <2>1, <2>2
  <2>4. Len(A) > Limit + 1 /\ rows # <<>> /\ x < rows[Len(rows)]
    BY <1>3, <1>12, <1>13, <2>3, PageIs
  <2>5. Len(rows) = Limit + 1
    <3>1. Len(A) \in Nat
      BY <1>12, SeqIs
    <3> QED
      BY <1>13, <1>14, <2>4, <3>1
  <2>6. ~(Len(visible) > Limit)
    <3> SUFFICES ASSUME NEW y \in Range(rows), x >= y PROVE FALSE
      BY <1>15, <2>1
    <3>1. PICK i \in 1 .. Len(rows) : y = rows[i]
      BY <1>14, SeqIs
    <3>2. Len(rows) \in 1 .. Len(rows)
      BY <1>13, <2>5
    <3>3. i = Len(rows) \/ i < Len(rows)
      BY <1>15
    <3>4. i = Len(rows) \/ rows[i] > rows[Len(rows)]
      BY <1>14, <3>1, <3>2, <3>3, SeqIs
    <3>5. rows[i] \in Nat /\ rows[Len(rows)] \in Nat
      BY <1>14, <3>1, <3>2, SeqIs
    <3> QED
      BY <2>2, <2>4, <3>1, <3>4, <3>5
  <2> QED
    BY <1>5, <1>13, <1>15, <2>5, <2>6
<1>21. Missed' = {} \/ walk'.lost > 0
  <2>1. CASE walk.lost > 0
    BY <1>8, <1>16, <1>19, <2>1
  <2>2. CASE Missed = {}
    <3>1. Missed' = {} \/ lost > 0
      BY <1>20, <2>2
    <3> QED
      BY <1>8, <1>16, <1>19, <3>1
  <2> QED
    BY <1>11, <2>1, <2>2
<1>22. walk'.got # <<>> => walk'.cursor \in DOMAIN notice'[walk'.v]
  <2>1. UNCHANGED notice
    BY <1>6 DEF vars, news
  <2> QED
    BY <1>1, <1>10, <1>11, <1>15, <1>18, <1>19, <2>1
<1>23. WalkRight'
  BY <1>18, <1>19, <1>21, <1>22 DEF WalkRight, Descending
<1> QED
  BY <1>18, <1>23 DEF WalkInv

\* The newest rows of a table: all there are, if they are few.
LEMMA LatestIs ==
  ASSUME audit \in Seq(Tables), NEW table \in Tables
  PROVE  LET latest == First(Limit + 1, Newest(RowsOf(table))) IN
         /\ Range(latest) \subseteq RowsOf(table)
         /\ Few => Range(latest) = RowsOf(table)
<1>1. PICK n \in Nat : DOMAIN audit = 1 .. n
  BY LenProperties
<1>2. RowsOf(table) \in SUBSET Nat /\ IsFiniteSet(RowsOf(table))
  <2>1. RowsOf(table) \in SUBSET (1 .. n) /\ IsFiniteSet(1 .. n)
    BY <1>1, FS_Interval DEF RowsOf
  <2> QED
    BY <2>1, FS_Subset
<1>3. PICK N : N = Newest(RowsOf(table))
  OBVIOUS
<1>4. N \in Seq(Nat) /\ Descending(N) /\ Range(N) = RowsOf(table) /\ Len(N) = Cardinality(RowsOf(table))
  BY <1>2, <1>3, NewestIs
<1>5. Limit + 1 \in Nat
  BY FeedsAssumption
<1>6. Range(First(Limit + 1, N)) \subseteq RowsOf(table)
  BY <1>4, <1>5, FirstDescends
<1>7. Few => First(Limit + 1, N) = N
  <2>1. Len(N) \in Nat
    BY <1>4, SeqIs
  <2>2. Few => Len(N) <= Limit + 1
    BY <1>4, <1>5, <2>1 DEF Few
  <2> QED
    BY <2>2 DEF First
<1> QED
  BY <1>3, <1>4, <1>6, <1>7

LEMMA NextPageOfAuditInv ==
  ASSUME SocialInv, WalkInv, NextPageOfAudit
  PROVE  WalkInv'
<1> DEFINE Latest(table) == First(Limit + 1, Newest(RowsOf(table)))
<1>1. PICK all : all = Range(Latest("MODERATION")) \cup Range(Latest("ANALYTICS"))
  OBVIOUS
<1>2. PICK R : R = IF walk.cursor \in all THEN {i \in all : i < walk.cursor} ELSE all
  OBVIOUS
<1>3. PICK rows : rows = Newest(R)
  OBVIOUS
<1>4. /\ walk.pc = "open" /\ walk.kind = "audit" /\ UNCHANGED <<vars, audit>>
      /\ Turn(First(Limit, rows), Len(rows) > Limit, 0)
  BY <1>1, <1>2, <1>3 DEF NextPageOfAudit, RowsOf
<1>5. walk # NoWalk /\ WalkTypes /\ audit \in Seq(Tables)
  BY <1>4, NoWalkFields DEF WalkInv, WalkTypes
<1>6. walk \in WalkType /\ walk.cursor \in Nat /\ walk.steady \subseteq Shown /\ walk.steady \in SUBSET Nat
  BY <1>5, ShownFinite DEF WalkType
<1>7. all \subseteq DOMAIN audit /\ (Few => all = DOMAIN audit)
  <2>1. /\ Range(Latest("MODERATION")) \subseteq RowsOf("MODERATION") /\ (Few => Range(Latest("MODERATION")) = RowsOf("MODERATION"))
        /\ Range(Latest("ANALYTICS")) \subseteq RowsOf("ANALYTICS") /\ (Few => Range(Latest("ANALYTICS")) = RowsOf("ANALYTICS"))
    BY <1>5, LatestIs DEF Tables
  <2>2. RowsOf("MODERATION") \cup RowsOf("ANALYTICS") = DOMAIN audit
    <3>1. \A i \in DOMAIN audit : audit[i] \in Tables
      BY <1>5, LenProperties
    <3> QED
      BY <3>1 DEF RowsOf, Tables
  <2> HIDE DEF Latest
  <2> QED
    BY <1>1, <2>1, <2>2
<1>8. PICK n \in Nat : DOMAIN audit = 1 .. n
  BY <1>5, LenProperties
<1>9. R \in SUBSET Nat /\ IsFiniteSet(R) /\ R \subseteq DOMAIN audit
  <2>1. R \in SUBSET (1 .. n) /\ IsFiniteSet(1 .. n)
    BY <1>2, <1>7, <1>8, FS_Interval
  <2>2. R \in SUBSET Nat /\ R \subseteq DOMAIN audit
    BY <1>8, <2>1
  <2>3. IsFiniteSet(R)
    BY <2>1, FS_Subset
  <2> QED
    BY <2>2, <2>3
<1>10. rows \in Seq(Nat) /\ Descending(rows) /\ Range(rows) = R
  BY <1>3, <1>9, NewestIs
<1>11. Limit \in Nat
  BY FeedsAssumption
<1>12. WalkTypes' /\ walk'.kind = "audit"
  <2>1. First(Limit, rows) \in Seq(Nat)
    BY <1>10, <1>11, FirstDescends
  <2> QED
    BY <1>4, <1>5, <2>1, TurnTypes
<1>13. Few' <=> Few
  BY <1>4 DEF Few, RowsOf
<1>14. ASSUME Few
       PROVE  Descending(walk'.got) /\ Missed' = {} /\ (walk'.got # <<>> => walk'.cursor \in DOMAIN audit)
  <2>1. Descending(walk.got) /\ Missed = {} /\ (walk.got # <<>> => walk.cursor \in DOMAIN audit)
    BY <1>4, <1>5, <1>14 DEF WalkInv, WalkRight
  <2>2. all = DOMAIN audit
    BY <1>7, <1>14
  <2>3. walk.got = <<>> => R = DOMAIN audit
    <3>1. walk.got = <<>> => walk.cursor = 0
      BY <1>5 DEF WalkTypes
    <3>2. 0 \notin DOMAIN audit
      BY <1>8
    <3> QED
      BY <1>2, <2>2, <3>1, <3>2
  <2>4. walk.got # <<>> => R = {i \in DOMAIN audit : i < walk.cursor}
    BY <1>2, <2>1, <2>2
  <2>5. walk.got # <<>> => \A x \in Range(rows) : x < walk.cursor
    BY <1>10, <2>4
  <2>6. /\ Descending(walk'.got)
        /\ walk'.got # <<>> => walk'.cursor \in Range(rows) \/ (walk.got # <<>> /\ walk'.cursor = walk.cursor)
        /\ \A x \in Missed' : x \in Missed \/ /\ x \in walk.steady /\ x \notin Range(rows)
                                              /\ walk.got = <<>> \/ x < walk.cursor
    BY <1>4, <1>5, <1>10, <2>1, <2>5, TurnRight
  <2>7. Shown = DOMAIN audit
    BY <1>4 DEF Shown, ShownIn
  <2>8. Missed' = {}
    <3> SUFFICES ASSUME NEW x \in Missed' PROVE FALSE
      OBVIOUS
    <3>1. x \in walk.steady /\ x \notin R /\ (walk.got = <<>> \/ x < walk.cursor)
      BY <1>10, <2>1, <2>6
    <3>2. x \in DOMAIN audit
      BY <1>6, <2>7, <3>1
    <3> QED
      BY <2>3, <2>4, <3>1, <3>2
  <2> QED
    BY <1>9, <1>10, <2>1, <2>6, <2>8
<1>15. WalkRight'
  BY <1>4, <1>12, <1>13, <1>14 DEF WalkRight, Descending
<1> QED
  BY <1>12, <1>15 DEF WalkInv

LEMMA WalkInvHolds == FeedsSpec => []WalkInv
<1>1. FeedsInit => WalkInv
  <2> SUFFICES ASSUME FeedsInit PROVE WalkInv
    OBVIOUS
  <2>1. walk = NoWalk /\ audit = <<>>
    BY DEF FeedsInit
  <2>2. audit \in Seq(Tables)
    BY <2>1, EmptySeq
  <2> QED
    BY <2>1, <2>2 DEF WalkInv, WalkTypes, WalkRight
<1>2. FeedsInv /\ WalkInv /\ [FeedsNext]_<<vars, computed, walk, audit>> => WalkInv'
  <2> SUFFICES ASSUME FeedsInv, WalkInv, [FeedsNext]_<<vars, computed, walk, audit>> PROVE WalkInv'
    OBVIOUS
  <2>1. SocialInv
    BY DEF FeedsInv
  <2>2. CASE WalkNext
    <3>1. ASSUME NEW kind \in WalkKinds, NEW v \in Members, NEW x \in Rooms \cup Members \cup {None}, BeginWalk(kind, v, x)
          PROVE  WalkInv'
      BY <2>1, <3>1, BeginWalkInv
    <3>2. CASE NextPage \/ NextPageOfInbox \/ NextPageOfAudit
      BY <2>1, <3>2, NextPageInv, NextPageOfInboxInv, NextPageOfAuditInv
    <3>3. ASSUME NEW table \in Tables, Record(table) PROVE WalkInv'
      BY <3>3, RecordInv
    <3> QED
      BY <2>2, <3>1, <3>2, <3>3 DEF WalkNext, WalkKinds
  <2>3. CASE Next /\ KeepSteady /\ UNCHANGED <<audit, computed>>
    BY <2>1, <2>3, KeepSteadyInv
  <2>4. CASE Compute /\ UNCHANGED <<walk, audit>>
    BY <2>4, WalkStutters DEF Compute
  <2>5. CASE UNCHANGED <<vars, computed, walk, audit>>
    BY <2>5, WalkStutters
  <2> QED
    BY <2>2, <2>3, <2>4, <2>5 DEF FeedsNext
<1> QED
  BY <1>1, <1>2, FeedsInvHolds, PTL DEF FeedsSpec

\* A walk through a list shows nothing twice and misses no more than what was lost at
\* its cursors, for pages of any size and whatever is posted, hidden, deleted, told
\* and recorded between them.
THEOREM WalksCorrect == FeedsSpec => []WalkMissesFew
BY WalkInvHolds, WalkParts, PTL
=============================================================================
