-------------------------------- MODULE Social ------------------------------
(* Who follows, blocks and mutes whom, posts with the announcement to the     *)
(* followers of their room and the mentions fanned out behind it, and what    *)
(* each of the services that list posts shows to whom.  Every handler is a    *)
(* row of statements in no transaction, the post's own insert apart, and may  *)
(* fail between any two.  uuids are never used again: Gone is the id a        *)
(* request holds of a row that was deleted since.                             *)
EXTENDS Integers, FiniteSets, Sequences

CONSTANTS Members,
          Planners, \* VERIFIED_PLANNER and ADMIN
          Rooms,
          Private,  \* rooms of PLANNER_ONLY spaces
          Hiring,   \* RECRUITMENT rooms
          Dormant,  \* rooms that are not ACTIVE: no code retires one, an operator may
          Posts,    \* uuids of posts
          Requests, \* how many requests the API serves at a time
          None      \* null

ASSUME SocialAssumption ==
  /\ Planners \subseteq Members
  /\ Private \subseteq Rooms /\ Hiring \subseteq Rooms /\ Dormant \subseteq Rooms
  /\ Members \cap Rooms = {} /\ Members \cap Posts = {} /\ Rooms \cap Posts = {}
  /\ IsFiniteSet(Members) /\ IsFiniteSet(Posts)
  /\ None \notin Members \cup Rooms \cup Posts \cup {"ROW", "GONE"}

VARIABLES follow,  \* user_follows and room_follows
          block,   \* user_blocks
          mute,    \* user_mutes
          post,    \* posts and post_quotes
          mention, \* mentions
          notice,  \* notifications of each member, oldest first
          request  \* the requests in flight

ties == <<follow, block, mute>>
news == <<mention, notice>>
vars == <<ties, post, news, request>>

Gone == "GONE"
Idle == [pc |-> "idle", u |-> None, v |-> None, seen |-> None, todo |-> {}]
NoPost == [room |-> None]
Exists(p) == post[p] # NoPost

Init ==
  /\ follow = {} /\ block = {} /\ mute = {} /\ mention = {}
  /\ post = [p \in Posts |-> NoPost]
  /\ notice = [u \in Members |-> <<>>]
  /\ request = [r \in Requests |-> Idle]

Put(r, q) == request' = [request EXCEPT ![r] = q]
Finish(r) == Put(r, Idle)
Start(r, pc, u, v, seen) ==
  /\ request[r] = Idle
  /\ Put(r, [pc |-> pc, u |-> u, v |-> v, seen |-> seen, todo |-> {}])
  /\ UNCHANGED <<ties, post, news>>

\* accessPoliciesAllowedFor, of the space a room is in.
Readable(u, room) == room \notin Private \/ u \in Planners

\* isBlockedEitherWay and blockedSetFor
Blocked(u, v) == <<u, v>> \in block \/ <<v, u>> \in block

-----------------------------------------------------------------------------
(* Follows, blocks and mutes *)

\* toggle of a member: the block is looked for first ...
CheckFollow(r, u, v) ==
  /\ u # v /\ ~Blocked(u, v)
  /\ Start(r, "follow", u, v, None)

\* ... and of a room.
CheckRoom(r, u, room) ==
  /\ Readable(u, room)
  /\ Start(r, "follow", u, room, None)

ReadFollow(r) ==
  LET q == request[r] IN
  /\ q.pc = "follow"
  /\ Put(r, [q EXCEPT !.pc = "toggle", !.seen = IF <<q.u, q.v>> \in follow THEN "ROW" ELSE None])
  /\ UNCHANGED <<ties, post, news>>

\* A second row meets the unique key.
Follow(r) ==
  LET q == request[r] IN
  /\ q.pc = "toggle" /\ q.seen = None
  /\ <<q.u, q.v>> \notin follow
  /\ follow' = follow \cup {<<q.u, q.v>>}
  /\ Finish(r)
  /\ UNCHANGED <<block, mute, post, news>>

\* The requests once some follows are deleted, and r is done.
Drop(r, gone) ==
  request' = [s \in Requests |->
    IF s = r THEN Idle
    ELSE IF request[s].pc = "toggle" /\ request[s].seen = "ROW" /\ <<request[s].u, request[s].v>> \in gone
    THEN [request[s] EXCEPT !.seen = Gone]
    ELSE request[s]]

Unfollow(r) ==
  LET q == request[r] IN
  /\ q.pc = "toggle" /\ q.seen = "ROW"
  /\ follow' = follow \ {<<q.u, q.v>>}
  /\ Drop(r, {<<q.u, q.v>>})
  /\ UNCHANGED <<block, mute, post, news>>

\* block: a row, unless there is one, in which case that is all ...
Block(r, u, v) ==
  /\ u # v /\ <<u, v>> \notin block
  /\ request[r] = Idle
  /\ block' = block \cup {<<u, v>>}
  /\ Put(r, [Idle EXCEPT !.pc = "unfollow", !.u = u, !.v = v])
  /\ UNCHANGED <<follow, mute, post, news>>

\* ... and then an end to both follows.
ClearFollows(r) ==
  LET both == {<<request[r].u, request[r].v>>, <<request[r].v, request[r].u>>} IN
  /\ request[r].pc = "unfollow"
  /\ follow' = follow \ both
  /\ Drop(r, both)
  /\ UNCHANGED <<block, mute, post, news>>

Unblock(u, v) ==
  /\ block' = block \ {<<u, v>>}
  /\ UNCHANGED <<follow, mute, post, news, request>>

Mute(u, v) ==
  /\ u # v
  /\ mute' = mute \cup {<<u, v>>}
  /\ UNCHANGED <<follow, block, post, news, request>>

Unmute(u, v) ==
  /\ mute' = mute \ {<<u, v>>}
  /\ UNCHANGED <<follow, block, post, news, request>>

-----------------------------------------------------------------------------
(* Posts *)

\* A quoted post must be there to see, for this member, and of nobody blocked.
Quotable(u, p) ==
  /\ Exists(p) /\ post[p].status = "VISIBLE"
  /\ Readable(u, post[p].room)
  /\ post[p].by # u => ~Blocked(u, post[p].by)

\* create: the checks, ...
LookPost(r, u, draft) ==
  /\ Readable(u, draft.room) /\ draft.room \notin Dormant
  /\ draft.type = "RECRUITMENT" => draft.room \in Hiring
  /\ draft.quotes # None => Quotable(u, draft.quotes)
  /\ Start(r, "insert", u, None, draft)

\* ... the post with its quote, hidden or not as the gate has it, ...
InsertPost(r, p, status) ==
  LET q == request[r] IN
  /\ q.pc = "insert" /\ ~Exists(p)
  /\ post' = [post EXCEPT ![p] =
       [room |-> q.seen.room, by |-> q.u, type |-> q.seen.type, quotes |-> q.seen.quotes,
        status |-> status, gone |-> FALSE, at |-> Cardinality({o \in Posts : Exists(o)})]]
  /\ Put(r, [q EXCEPT !.pc = "announce", !.v = p, !.seen = q.seen.names])
  /\ UNCHANGED <<ties, news>>

\* ... the followers of the room, all but the author, ...
Announce(r) ==
  LET q == request[r] IN
  /\ q.pc = "announce"
  /\ Put(r, [q EXCEPT !.pc = "tell", !.todo = {f \in Members : <<f, post[q.v].room>> \in follow} \ {q.u}])
  /\ UNCHANGED <<ties, post, news>>

\* ... each of whom createOrGroup tells, in a row of its own or in the newest of
\* the room, which then shows this post, ...
Tell(r, f) ==
  LET q == request[r] IN LET row == [kind |-> "NEWS", post |-> q.v, actor |-> q.u] IN
  /\ q.pc = "tell" /\ f \in q.todo
  /\ \/ notice' = [notice EXCEPT ![f] = Append(@, row)]
     \/ \E i \in DOMAIN notice[f] :
          /\ notice[f][i].kind = "NEWS" /\ post[notice[f][i].post].room = post[q.v].room
          /\ notice' = [notice EXCEPT ![f] = [@ EXCEPT ![i] = row]]
  /\ Put(r, [q EXCEPT !.todo = @ \ {f}])
  /\ UNCHANGED <<ties, post, mention>>

\* Faulty variant of Detach: the author is not left out.
DetachAll(r) ==
  LET q == request[r] IN
  LET named == {u \in q.seen : ~Blocked(q.u, u)} IN
  /\ q.pc = "tell" /\ q.todo = {}
  /\ IF named = {} THEN Finish(r) ELSE Put(r, [q EXCEPT !.pc = "mention", !.todo = named])
  /\ UNCHANGED <<ties, post, news>>

\* ... and, with the request answered, recordMentions: who is named in the body
\* and is not in a block with the author ...
Detach(r) ==
  LET q == request[r] IN
  LET named == {u \in q.seen \ {q.u} : ~Blocked(q.u, u)} IN
  /\ q.pc = "tell" /\ q.todo = {}
  /\ IF named = {} THEN Finish(r) ELSE Put(r, [q EXCEPT !.pc = "mention", !.todo = named])
  /\ UNCHANGED <<ties, post, news>>

\* ... gets a mention, if the post does not mention them, ...
InsertMentions(r) ==
  /\ request[r].pc = "mention"
  /\ mention' = mention \cup ({request[r].v} \X request[r].todo)
  /\ Put(r, [request[r] EXCEPT !.pc = "notify"])
  /\ UNCHANGED <<ties, post, notice>>

\* ... and a notice.
NotifyMentioned(r) ==
  LET q == request[r] IN
  /\ q.pc = "notify"
  /\ notice' = [u \in Members |->
       IF u \in q.todo THEN Append(notice[u], [kind |-> "MENTION", post |-> q.v, actor |-> q.u]) ELSE notice[u]]
  /\ Finish(r)
  /\ UNCHANGED <<ties, post, mention>>

\* softDelete: the author deletes the post (gone remembers it, for the property of
\* notices) ...
LookDelete(r, u, p) ==
  /\ Exists(p) /\ post[p].status # "DELETED" /\ post[p].by = u
  /\ Start(r, "delete", u, p, None)

Delete(r) ==
  /\ request[r].pc = "delete"
  /\ post' = [post EXCEPT ![request[r].v] = [@ EXCEPT !.status = "DELETED", !.gone = TRUE]]
  /\ Put(r, [request[r] EXCEPT !.pc = "clear"])
  /\ UNCHANGED <<ties, news>>

\* ... and clearForSource its mentions.
ClearMentions(r) ==
  /\ request[r].pc = "clear"
  /\ mention' = mention \ ({request[r].v} \X Members)
  /\ Finish(r)
  /\ UNCHANGED <<ties, post, notice>>

\* resolve: a verdict hides a post whatever its status, one that was deleted too, and
\* restores what is hidden, even so.
Moderate(p) ==
  /\ Exists(p)
  /\ \/ post' = [post EXCEPT ![p].status = "HIDDEN"]
     \/ /\ post[p].status = "HIDDEN"
        /\ post' = [post EXCEPT ![p].status = "VISIBLE"]
  /\ UNCHANGED <<ties, news, request>>

\* A statement fails or the process dies; nobody takes up what is left.
Fail(r) ==
  /\ request[r] # Idle
  /\ Finish(r)
  /\ UNCHANGED <<ties, post, news>>

Drafts ==
  [room : Rooms, type : {"GENERAL", "RECRUITMENT"}, quotes : Posts \cup {None}, names : SUBSET Members]

Toggle(r) ==
  \/ \E u \in Members : \/ \E v \in Members : CheckFollow(r, u, v)
                        \/ \E room \in Rooms : CheckRoom(r, u, room)
  \/ ReadFollow(r) \/ Follow(r) \/ Unfollow(r)

Part(r) == ClearFollows(r) \/ \E u, v \in Members : Block(r, u, v)

Publish(r) ==
  \/ \E u \in Members, draft \in Drafts : LookPost(r, u, draft)
  \/ \E p \in Posts, status \in {"VISIBLE", "HIDDEN"} : InsertPost(r, p, status)
  \/ Announce(r) \/ Detach(r) \/ InsertMentions(r) \/ NotifyMentioned(r)
  \/ \E f \in Members : Tell(r, f)

TakeDown(r) ==
  \/ \E u \in Members, p \in Posts : LookDelete(r, u, p)
  \/ Delete(r) \/ ClearMentions(r)

Next ==
  \/ \E r \in Requests : Toggle(r) \/ Part(r) \/ Publish(r) \/ TakeDown(r) \/ Fail(r)
  \/ \E u, v \in Members : Unblock(u, v) \/ Mute(u, v) \/ Unmute(u, v)
  \/ \E p \in Posts : Moderate(p)

Spec == Init /\ [][Next]_vars

-----------------------------------------------------------------------------
PostType ==
  {NoPost} \cup
  [room : Rooms, by : Members, type : {"GENERAL", "RECRUITMENT"}, quotes : Posts \cup {None},
   status : {"VISIBLE", "HIDDEN", "DELETED"}, gone : BOOLEAN, at : Nat]
NoticeType == [kind : {"NEWS", "MENTION"}, post : Posts, actor : Members]
RequestType ==
  {Idle} \cup
  [pc : {"follow", "toggle"}, u : Members, v : Members \cup Rooms, seen : {None, "ROW", Gone}, todo : {{}}] \cup
  [pc : {"unfollow"}, u : Members, v : Members, seen : {None}, todo : {{}}] \cup
  [pc : {"insert"}, u : Members, v : {None}, seen : Drafts, todo : {{}}] \cup
  [pc : {"announce", "tell", "mention", "notify"}, u : Members, v : Posts, seen : SUBSET Members, todo : SUBSET Members] \cup
  [pc : {"delete", "clear"}, u : Members, v : Posts, seen : {None}, todo : {{}}]

\* Every row and every local has its type; nobody follows or blocks themselves; what
\* is quoted, mentioned, told or at work on exists; and nobody is told of, or
\* mentioned in, a post of their own.
TypeOK ==
  /\ follow \subseteq Members \X (Members \cup Rooms)
  /\ block \subseteq Members \X Members /\ mute \subseteq Members \X Members
  /\ post \in [Posts -> PostType]
  /\ mention \subseteq Posts \X Members
  /\ notice \in [Members -> Seq(NoticeType)]
  /\ request \in [Requests -> RequestType]
  /\ \A u \in Members : <<u, u>> \notin follow \cup block \cup mute
  /\ \A p \in Posts : Exists(p) /\ post[p].quotes # None => Exists(post[p].quotes)
  /\ \A m \in mention : Exists(m[1]) /\ post[m[1]].by # m[2]
  /\ \A u \in Members : \A i \in DOMAIN notice[u] :
       Exists(notice[u][i].post) /\ post[notice[u][i].post].by = notice[u][i].actor /\ notice[u][i].actor # u
  /\ \A r \in Requests : LET q == request[r] IN
       /\ q.pc \in {"follow", "toggle", "unfollow"} => q.u # q.v
       /\ q.pc = "insert" /\ q.seen.quotes # None => Exists(q.seen.quotes)
       /\ q.pc \in {"announce", "tell", "mention", "notify", "delete", "clear"} => Exists(q.v) /\ post[q.v].by = q.u
       /\ q.u \notin q.todo
=============================================================================
