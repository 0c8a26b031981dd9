----------------------------- MODULE Engagement -----------------------------
(* What members leave on a post: a reaction, a boost and a bookmark, each a   *)
(* row that a toggle creates and deletes beside a counter on the post, the    *)
(* collections bookmarks are filed in, and replies.  A toggle reads the row   *)
(* and then runs a transaction that goes by what was read; what a transaction *)
(* writes shows when it commits.  uuids are never used again, so once the row *)
(* a request has read is deleted, the request holds the id of no row: Gone.   *)
EXTENDS Integers, FiniteSets

CONSTANTS Members,    \* members who can read the room
          Emojis,     \* REACTION_TYPES
          Folders,    \* uuids of saved_collections rows
          Names,      \* names of collections
          MaxFolders, \* MAX_COLLECTIONS_PER_USER
          Replies,    \* uuids of replies
          Requests,   \* how many requests the API serves at a time
          Floor,      \* bound: reply_count falls no lower than -Floor
          None        \* null

ASSUME EngagementAssumption ==
  /\ MaxFolders \in Nat \ {0} /\ Floor \in Nat
  /\ IsFiniteSet(Members) /\ IsFiniteSet(Folders) /\ IsFiniteSet(Replies) /\ IsFiniteSet(Requests)
  /\ None \notin Emojis \cup {"ON", "GONE"} \cup Members \cup Names \cup Folders \cup Replies
  /\ {"ON", "GONE"} \cap Emojis = {}

VARIABLES post,    \* posts.status
          mark,    \* reactions, post_boosts and saved_items of the post, by member
          count,   \* like_count, boost_count, bookmark_count
          filed,   \* collection_id of each member's bookmark
          folder,  \* saved_collections
          reply,   \* replies
          replyCount,
          request  \* the requests in flight

vars == <<post, mark, count, filed, folder, reply, replyCount, request>>
marks == <<mark, count, filed>>
replies == <<reply, replyCount>>

Kinds == {"react", "boost", "save"}
On(k) == IF k = "react" THEN Emojis ELSE {"ON"}
Gone == "GONE"
Idle == [pc |-> "idle", u |-> None, want |-> None, seen |-> None]
NoFolder == [u |-> None, name |-> None]
NoReply == [status |-> "ABSENT", parent |-> None]

Init ==
  /\ post \in {"VISIBLE", "HIDDEN"}
  /\ mark = [k \in Kinds |-> [u \in Members |-> None]]
  /\ count = [k \in Kinds |-> 0]
  /\ filed = [u \in Members |-> None]
  /\ folder = [f \in Folders |-> NoFolder]
  /\ reply = [x \in Replies |-> NoReply]
  /\ replyCount = 0
  /\ request = [r \in Requests |-> Idle]

Start(r, pc, u, want, seen) ==
  /\ request[r] = Idle
  /\ request' = [request EXCEPT ![r] = [pc |-> pc, u |-> u, want |-> want, seen |-> seen]]
  /\ UNCHANGED <<post, marks, folder, replies>>

Finish(r) == request' = [request EXCEPT ![r] = Idle]

-----------------------------------------------------------------------------
(* Toggles *)

\* ensureTargetAccess: a hidden post can be reacted to, a deleted one cannot.
LookReaction(r, u, e) ==
  /\ post # "DELETED"
  /\ Start(r, "react", u, e, mark["react"][u])

LookBoost(r, u) ==
  /\ post = "VISIBLE"
  /\ Start(r, "boost", u, "ON", mark["boost"][u])

\* Any post that exists can be saved, a deleted one too.
LookSave(r, u) == Start(r, "save", u, "ON", mark["save"][u])

Look(r) ==
  \/ \E u \in Members, e \in Emojis : LookReaction(r, u, e)
  \/ \E u \in Members : LookBoost(r, u) \/ LookSave(r, u)

Put(k, u, m) == mark' = [mark EXCEPT ![k] = [@ EXCEPT ![u] = m]]
AddToCount(k, d) == count' = [count EXCEPT ![k] = @ + d]

\* Faulty variant of Create: no unique (user, target) key.
CreateAgain(r, k) ==
  LET q == request[r] IN
  /\ q.pc = k /\ q.seen = None
  /\ Put(k, q.u, q.want)
  /\ AddToCount(k, 1)
  /\ Finish(r)
  /\ UNCHANGED <<post, filed, folder, replies>>

\* The row and the counter, in one transaction; a second row meets the unique key.
Create(r, k) ==
  LET q == request[r] IN
  /\ q.pc = k /\ q.seen = None
  /\ mark[k][q.u] = None
  /\ Put(k, q.u, q.want)
  /\ AddToCount(k, 1)
  /\ Finish(r)
  /\ UNCHANGED <<post, filed, folder, replies>>

\* The requests that have read the row of u no longer hold the id of a row.
Drop(r, k, u) ==
  request' = [s \in Requests |->
    IF s = r THEN Idle
    ELSE IF request[s].u = u /\ request[s].seen # None
            /\ request[s].pc \in {k} \cup (IF k = "save" THEN {"file"} ELSE {})
    THEN [request[s] EXCEPT !.seen = Gone]
    ELSE request[s]]

\* The row is deleted by its id, whatever it has become since it was read.  A
\* bookmark takes its place in a collection with it, and its counter is only
\* decremented above zero.
Delete(r, k) ==
  LET q == request[r] IN
  /\ q.pc = k /\ q.seen \notin {None, Gone}
  /\ k = "react" => q.seen = q.want
  /\ Put(k, q.u, None)
  /\ IF k = "save" /\ count[k] = 0 THEN UNCHANGED count ELSE AddToCount(k, -1)
  /\ filed' = IF k = "save" THEN [filed EXCEPT ![q.u] = None] ELSE filed
  /\ Drop(r, k, q.u)
  /\ UNCHANGED <<post, folder, replies>>

\* Another emoji: the row is updated in place and the counter stays.
Swap(r) ==
  LET q == request[r] IN
  /\ q.pc = "react" /\ q.seen \notin {None, Gone, q.want}
  /\ Put("react", q.u, q.want)
  /\ Finish(r)
  /\ UNCHANGED <<post, count, filed, folder, replies>>

Toggle(r) == Swap(r) \/ \E k \in Kinds : Create(r, k) \/ Delete(r, k)

-----------------------------------------------------------------------------
(* Collections *)

FoldersOf(u) == {f \in Folders : folder[f].u = u}
Taken(u, name) == \E f \in FoldersOf(u) : folder[f].name = name

\* create: how many the member has ...
CountFolders(r, u, name) ==
  /\ Cardinality(FoldersOf(u)) < MaxFolders
  /\ Start(r, "folder", u, name, None)

\* ... and then one more, unless the member has one of that name.
CreateFolder(r, f) ==
  LET q == request[r] IN
  /\ q.pc = "folder"
  /\ folder[f] = NoFolder
  /\ ~Taken(q.u, q.want)
  /\ \A s \in Requests : request[s].want # f
  /\ folder' = [folder EXCEPT ![f] = [u |-> q.u, name |-> q.want]]
  /\ Finish(r)
  /\ UNCHANGED <<post, marks, replies>>

\* patch, by the owner; a new sort_order changes nothing else.
Rename(f, name) ==
  /\ folder[f] # NoFolder
  /\ ~Taken(folder[f].u, name)
  /\ folder' = [folder EXCEPT ![f] = [@ EXCEPT !.name = name]]
  /\ UNCHANGED <<post, marks, replies, request>>

\* Faulty variant of DeleteFolder: bookmarks keep the collection.
DeleteFolderOnly(f) ==
  /\ folder[f] # NoFolder
  /\ folder' = [folder EXCEPT ![f] = NoFolder]
  /\ UNCHANGED <<post, marks, replies, request>>

\* delete, by the owner: the foreign key sets its bookmarks' collection to null.
DeleteFolder(f) ==
  /\ folder[f] # NoFolder
  /\ folder' = [folder EXCEPT ![f] = NoFolder]
  /\ filed' = [u \in Members |-> IF filed[u] = f THEN None ELSE filed[u]]
  /\ UNCHANGED <<post, mark, count, replies, request>>

\* moveSave reads the bookmark and the collection, both the member's own ...
LookMove(r, u, f) ==
  /\ mark["save"][u] # None
  /\ f # None => folder[f].u = u
  /\ Start(r, "file", u, f, "ON")

\* ... and then updates the bookmark, if it and the collection are still there.
Move(r) ==
  LET q == request[r] IN
  /\ q.pc = "file" /\ q.seen # Gone
  /\ q.want # None => folder[q.want] # NoFolder
  /\ filed' = [filed EXCEPT ![q.u] = q.want]
  /\ Finish(r)
  /\ UNCHANGED <<post, mark, count, folder, replies>>

File(r) ==
  \/ \E u \in Members, name \in Names : CountFolders(r, u, name)
  \/ \E f \in Folders : CreateFolder(r, f)
  \/ \E u \in Members, f \in Folders \cup {None} : LookMove(r, u, f)
  \/ Move(r)

-----------------------------------------------------------------------------
(* Replies *)

\* Faulty variant of LookReply: any reply may be answered.
LookNestedReply(r, u, parent) ==
  /\ post # "DELETED"
  /\ parent # None => reply[parent].status \in {"VISIBLE", "HIDDEN"}
  /\ Start(r, "reply", u, parent, None)

\* create, the checks: the post and the parent are there, and the parent is a
\* reply to the post itself.  Blocks and the reply policy only refuse.
LookReply(r, u, parent) ==
  /\ post # "DELETED"
  /\ parent # None => reply[parent].status \in {"VISIBLE", "HIDDEN"} /\ reply[parent].parent = None
  /\ Start(r, "reply", u, parent, None)

\* The reply and the counter, in one transaction.
CreateReply(r, x) ==
  /\ request[r].pc = "reply"
  /\ reply[x] = NoReply
  /\ reply' = [reply EXCEPT ![x] = [status |-> "VISIBLE", parent |-> request[r].want]]
  /\ replyCount' = replyCount + 1
  /\ Finish(r)
  /\ UNCHANGED <<post, marks, folder>>

\* softDelete, by the author: the reply must not have been deleted ...
LookDelete(r, u, x) ==
  /\ reply[x].status \in {"VISIBLE", "HIDDEN"}
  /\ Start(r, "unreply", u, x, None)

\* ... and then it is, whatever has happened to it meanwhile.
DeleteReply(r) ==
  LET x == request[r].want IN
  /\ request[r].pc = "unreply"
  /\ replyCount > -Floor
  /\ reply' = [reply EXCEPT ![x] = [@ EXCEPT !.status = "DELETED"]]
  /\ replyCount' = replyCount - 1
  /\ Finish(r)
  /\ UNCHANGED <<post, marks, folder>>

Discuss(r) ==
  \/ \E u \in Members, parent \in Replies \cup {None} : LookReply(r, u, parent)
  \/ \E x \in Replies : CreateReply(r, x)
  \/ \E u \in Members, x \in Replies : LookDelete(r, u, x)
  \/ DeleteReply(r)

\* A verdict hides a reply whatever its status is, and restores only a hidden one.
HideReply(x) ==
  /\ reply[x] # NoReply
  /\ reply' = [reply EXCEPT ![x] = [@ EXCEPT !.status = "HIDDEN"]]
  /\ UNCHANGED <<post, marks, folder, replyCount, request>>

\* Faulty variant of RestoreReply: whatever its status is.
RestoreAnyReply(x) ==
  /\ reply[x] # NoReply
  /\ reply' = [reply EXCEPT ![x] = [@ EXCEPT !.status = "VISIBLE"]]
  /\ UNCHANGED <<post, marks, folder, replyCount, request>>

RestoreReply(x) ==
  /\ reply[x].status = "HIDDEN"
  /\ reply' = [reply EXCEPT ![x] = [@ EXCEPT !.status = "VISIBLE"]]
  /\ UNCHANGED <<post, marks, folder, replyCount, request>>

\* The post is hidden, restored, or deleted by its author.
SetPost(status) ==
  /\ status # post
  /\ status = "VISIBLE" => post = "HIDDEN"
  /\ post' = status
  /\ UNCHANGED <<marks, folder, replies, request>>

-----------------------------------------------------------------------------
\* A later check refuses, a constraint is met, or the process dies.
Abort(r) ==
  /\ request[r] # Idle
  /\ Finish(r)
  /\ UNCHANGED <<post, marks, folder, replies>>

Next ==
  \/ \E r \in Requests : Look(r) \/ Toggle(r) \/ File(r) \/ Discuss(r) \/ Abort(r)
  \/ \E f \in Folders : DeleteFolder(f) \/ \E name \in Names : Rename(f, name)
  \/ \E x \in Replies : HideReply(x) \/ RestoreReply(x)
  \/ \E status \in {"VISIBLE", "HIDDEN", "DELETED"} : SetPost(status)

Spec == Init /\ [][Next]_vars

-----------------------------------------------------------------------------
RequestType ==
  {Idle} \cup
  [pc : {"react"}, u : Members, want : Emojis, seen : Emojis \cup {None, Gone}] \cup
  [pc : {"boost", "save"}, u : Members, want : {"ON"}, seen : {"ON", None, Gone}] \cup
  [pc : {"folder"}, u : Members, want : Names, seen : {None}] \cup
  [pc : {"file"}, u : Members, want : Folders \cup {None}, seen : {"ON", Gone}] \cup
  [pc : {"reply"}, u : Members, want : Replies \cup {None}, seen : {None}] \cup
  [pc : {"unreply"}, u : Members, want : Replies, seen : {None}]

\* Every column and every local of a request has its type; replies are nested one
\* deep at most, though a reply may come under one deleted meanwhile.
TypeOK ==
  /\ post \in {"VISIBLE", "HIDDEN", "DELETED"}
  /\ mark \in [Kinds -> [Members -> Emojis \cup {"ON", None}]]
  /\ \A k \in Kinds, u \in Members : mark[k][u] \in On(k) \cup {None}
  /\ count \in [Kinds -> Int]
  /\ filed \in [Members -> Folders \cup {None}]
  /\ folder \in [Folders -> {NoFolder} \cup [u : Members, name : Names]]
  /\ reply \in [Replies -> {NoReply} \cup
                 [status : {"VISIBLE", "HIDDEN", "DELETED"}, parent : Replies \cup {None}]]
  /\ \A x \in Replies : reply[x].parent # None => reply[reply[x].parent].parent = None
  /\ replyCount \in Int
  /\ request \in [Requests -> RequestType]

\* The counter of a kind is the number of members whose mark there is, whichever
\* toggles of whichever members overlap, fail or swap emojis meanwhile.
CountersAgree == \A k \in Kinds : count[k] = Cardinality({u \in Members : mark[k][u] # None})

\* A bookmark is in no collection, or in one that exists and is its member's own,
\* though the collection may be deleted, and its place taken, under a move.  And
\* racing requests put a member over the cap on collections by at most one each,
\* the first of them being within the cap.
FiledAtHome ==
  \A u \in Members :
    /\ filed[u] # None => mark["save"][u] # None /\ folder[filed[u]].u = u
    /\ Cardinality(FoldersOf(u)) <= MaxFolders + Cardinality(Requests) - 1

Standing == {x \in Replies : reply[x].status \in {"VISIBLE", "HIDDEN"}}

\* reply_count never promises more than the replies that stand, and falls behind
\* only where a reply that has been deleted is deleted once more, by a request on
\* its way, or is hidden by a verdict, which makes it stand again.
ReplyCountOnlyFallsBehind ==
  /\ [](replyCount <= Cardinality(Standing))
  /\ [][Cardinality(Standing)' - replyCount' # Cardinality(Standing) - replyCount =>
          \E x \in Replies : /\ reply[x].status = "DELETED"
                             /\ \/ reply'[x].status = "HIDDEN"
                                \/ \E r \in Requests : request[r].pc = "unreply" /\ request[r].want = x
       ]_vars
=============================================================================
