------------------------- MODULE Engagement_proofs --------------------------
(* Engagement for any members, posts, collections, replies and numbers of     *)
(* overlapping requests: its types, that the counters of marks agree with the *)
(* rows, that bookmarks are filed at home and collections bounded, and that   *)
(* the counter of replies only falls behind.                                  *)
EXTENDS Engagement, FiniteSetTheorems, TLAPS

\* What a request has read still holds in so far as it will go by it.
Holds(q, marked, folders, discussion) ==
  /\ q.pc \in Kinds /\ q.seen \notin {None, Gone} => marked[q.pc][q.u] # None
  /\ q.pc = "file" => /\ q.seen # Gone => marked["save"][q.u] # None
                      /\ q.want # None => folders[q.want] = NoFolder \/ folders[q.want].u = q.u
  /\ q.pc = "reply" /\ q.want # None =>
       discussion[q.want] # NoReply /\ discussion[q.want].parent = None
  /\ q.pc = "unreply" => discussion[q.want] # NoReply

RequestsOK == \A r \in Requests : Holds(request[r], mark, folder, reply)

Marked(k) == {u \in Members : mark[k][u] # None}

Filing == \A u \in Members : filed[u] # None => mark["save"][u] # None /\ folder[filed[u]].u = u

\* A request that has found room for one more collection of u counts as one.
Pending(u) == {r \in Requests : request[r].pc = "folder" /\ request[r].u = u}
Cap == \A u \in Members :
  Cardinality(FoldersOf(u)) + Cardinality(Pending(u)) <= MaxFolders + Cardinality(Requests) - 1

\* A parent is a reply there is.
Parents == \A x \in Replies : reply[x].parent # None => reply[reply[x].parent] # NoReply

Behind == replyCount <= Cardinality(Standing)

IInv == TypeOK /\ RequestsOK /\ CountersAgree /\ Filing /\ Cap /\ Parents /\ Behind

-----------------------------------------------------------------------------
(* Requests, field by field *)

LEMMA Distinct == /\ None \notin Emojis /\ None # "ON" /\ None # Gone /\ None \notin Members /\ None \notin Names
               /\ None \notin Folders /\ None \notin Replies
               /\ "ON" \notin Emojis /\ Gone \notin Emojis /\ Gone # "ON"
BY EngagementAssumption DEF Gone

LEMMA IdleType ==
  /\ Idle \in RequestType
  /\ Holds(Idle, mark, folder, reply) /\ Holds(Idle, mark', folder', reply')
BY DEF RequestType, Holds, Idle, Kinds

LEMMA RequestFields ==
  ASSUME NEW q \in RequestType
  PROVE  /\ q = [pc |-> q.pc, u |-> q.u, want |-> q.want, seen |-> q.seen]
         /\ q.pc \in Kinds => q.u \in Members /\ q.want \in On(q.pc) /\ q.seen \in On(q.pc) \cup {None, Gone}
         /\ q.pc = "folder" => q.u \in Members /\ q.want \in Names /\ q.seen = None
         /\ q.pc = "file" => q.u \in Members /\ q.want \in Folders \cup {None} /\ q.seen \in {"ON", Gone}
         /\ q.pc = "reply" => q.u \in Members /\ q.want \in Replies \cup {None} /\ q.seen = None
         /\ q.pc = "unreply" => q.u \in Members /\ q.want \in Replies /\ q.seen = None
         /\ q.pc \in Kinds \cup {"idle", "folder", "file", "reply", "unreply"}
         /\ q.pc = "idle" => q = Idle
BY DEF RequestType, Idle, Kinds, On

LEMMA ToggleType ==
  ASSUME NEW k \in Kinds, NEW u \in Members, NEW want \in On(k), NEW seen \in On(k) \cup {None, Gone}
  PROVE  [pc |-> k, u |-> u, want |-> want, seen |-> seen] \in RequestType
BY DEF RequestType, Kinds, On

LEMMA FileType ==
  ASSUME NEW u \in Members, NEW want \in Folders \cup {None}, NEW seen \in {"ON", Gone}
  PROVE  [pc |-> "file", u |-> u, want |-> want, seen |-> seen] \in RequestType
BY DEF RequestType

-----------------------------------------------------------------------------
(* Counting *)

LEMMA CountsFinite ==
  /\ \A k \in Kinds : IsFiniteSet(Marked(k))
  /\ \A u \in Members : IsFiniteSet(FoldersOf(u)) /\ IsFiniteSet(Pending(u))
  /\ IsFiniteSet(Standing)
BY EngagementAssumption, FS_Subset DEF Marked, FoldersOf, Pending, Standing

\* Fewer requests to create a collection leave the cap where it is.
LEMMA FewerPending ==
  ASSUME Cap, UNCHANGED folder,
         \A r \in Requests : request'[r] = request[r] \/ request'[r].pc # "folder"
  PROVE  Cap'
<1> SUFFICES ASSUME NEW u \in Members
             PROVE  Cardinality(FoldersOf(u)') + Cardinality(Pending(u)')
                      <= MaxFolders + Cardinality(Requests) - 1
  BY DEF Cap
<1>1. FoldersOf(u)' = FoldersOf(u) /\ Pending(u)' \subseteq Pending(u)
  BY DEF FoldersOf, Pending
<1>2. Cardinality(Pending(u)') <= Cardinality(Pending(u))
  BY <1>1, CountsFinite, FS_Subset
<1>3. /\ Cardinality(Pending(u)) \in Nat /\ Cardinality(Pending(u)') \in Nat
      /\ Cardinality(FoldersOf(u)) \in Nat /\ Cardinality(Requests) \in Nat /\ MaxFolders \in Nat
  BY <1>1, CountsFinite, FS_Subset, FS_CardinalityType, EngagementAssumption
<1>4. Cardinality(FoldersOf(u)) + Cardinality(Pending(u)) <= MaxFolders + Cardinality(Requests) - 1
  BY DEF Cap
<1> QED
  BY <1>1, <1>2, <1>3, <1>4

LEMMA InitInv == Init => IInv
<1> SUFFICES ASSUME Init PROVE IInv
  OBVIOUS
<1> USE Distinct DEF Init
<1>1. TypeOK
  BY IdleType DEF TypeOK, NoReply, NoFolder, Kinds
<1>2. RequestsOK
  BY IdleType DEF RequestsOK
<1>3. \A k \in Kinds : {u \in Members : mark[k][u] # None} = {}
  OBVIOUS
<1>4. CountersAgree
  BY <1>3, FS_EmptySet DEF CountersAgree
<1>5. \A u \in Members : FoldersOf(u) = {} /\ Pending(u) = {}
  BY DEF FoldersOf, Pending, NoFolder, Idle
<1>6. Cap
  <2>1. Cardinality(Requests) \in Nat /\ MaxFolders >= 1 /\ MaxFolders \in Nat /\ Cardinality({}) = 0
    BY FS_EmptySet, FS_CardinalityType, EngagementAssumption
  <2>2. Cardinality({}) + Cardinality({}) <= MaxFolders + Cardinality(Requests) - 1
    BY <2>1
  <2> QED
    BY <1>5, <2>2 DEF Cap
<1>7. Standing = {}
  BY DEF Standing, NoReply
<1>8. Filing /\ Parents /\ Behind
  BY <1>7, FS_EmptySet DEF Filing, Parents, Behind, NoReply
<1> QED
  BY <1>1, <1>2, <1>4, <1>6, <1>8 DEF IInv

-----------------------------------------------------------------------------
(* Steps that write nothing but a request *)

LEMMA RequestInv ==
  ASSUME IInv, NEW r \in Requests, NEW q \in RequestType, Holds(q, mark, folder, reply), Cap',
         request' = [request EXCEPT ![r] = q], UNCHANGED <<post, marks, folder, replies>>
  PROVE  IInv'
<1> USE DEF IInv, marks, replies
<1>1. TypeOK'
  BY DEF TypeOK
<1>2. RequestsOK'
  BY DEF RequestsOK, Holds, TypeOK
<1>3. CountersAgree' /\ Filing' /\ Parents' /\ Behind'
  BY DEF CountersAgree, Filing, Parents, Behind, Standing
<1> QED
  BY <1>1, <1>2, <1>3

LEMMA RequestCap ==
  ASSUME IInv, NEW r \in Requests, NEW q, q.pc # "folder",
         request' = [request EXCEPT ![r] = q], UNCHANGED folder
  PROVE  Cap'
BY FewerPending DEF IInv, TypeOK

LEMMA LookInv == ASSUME IInv, NEW r \in Requests, Look(r) PROVE IInv'
<1> USE Distinct DEF IInv, Start
<1>1. CASE \E u \in Members, e \in Emojis : LookReaction(r, u, e)
  <2>1. PICK u \in Members, e \in Emojis : LookReaction(r, u, e)
    BY <1>1
  <2> DEFINE q == [pc |-> "react", u |-> u, want |-> e, seen |-> mark["react"][u]]
  <2>2. q \in RequestType
    BY ToggleType DEF TypeOK, Kinds, On
  <2>3. Holds(q, mark, folder, reply)
    BY DEF Holds, Kinds
  <2> QED
    BY <2>1, <2>2, <2>3, RequestInv, RequestCap DEF LookReaction
<1>2. ASSUME NEW u \in Members, LookBoost(r, u)
      PROVE  IInv'
  <2> DEFINE q == [pc |-> "boost", u |-> u, want |-> "ON", seen |-> mark["boost"][u]]
  <2>1. q \in RequestType
    BY ToggleType DEF TypeOK, Kinds, On
  <2>2. Holds(q, mark, folder, reply)
    BY DEF Holds, Kinds
  <2> QED
    BY <1>2, <2>1, <2>2, RequestInv, RequestCap DEF LookBoost
<1>3. ASSUME NEW u \in Members, LookSave(r, u)
      PROVE  IInv'
  <2> DEFINE q == [pc |-> "save", u |-> u, want |-> "ON", seen |-> mark["save"][u]]
  <2>1. q \in RequestType
    BY ToggleType DEF TypeOK, Kinds, On
  <2>2. Holds(q, mark, folder, reply)
    BY DEF Holds, Kinds
  <2> QED
    BY <1>3, <2>1, <2>2, RequestInv, RequestCap DEF LookSave
<1> QED
  BY <1>1, <1>2, <1>3 DEF Look

LEMMA AbortInv == ASSUME IInv, NEW r \in Requests, Abort(r) PROVE IInv'
BY RequestInv, RequestCap, IdleType DEF Abort, Finish, Idle
-----------------------------------------------------------------------------
(* Toggles *)

\* A toggle sets one mark, of a kind and a member.
LEMMA PutType ==
  ASSUME TypeOK, NEW k \in Kinds, NEW u \in Members, NEW m \in On(k) \cup {None}, Put(k, u, m)
  PROVE  /\ mark' \in [Kinds -> [Members -> Emojis \cup {"ON", None}]]
         /\ \A j \in Kinds, v \in Members : mark'[j][v] = IF j = k /\ v = u THEN m ELSE mark[j][v]
         /\ \A j \in Kinds, v \in Members : mark'[j][v] \in On(j) \cup {None}
<1>1. mark' = [mark EXCEPT ![k] = [mark[k] EXCEPT ![u] = m]]
  BY DEF Put
<1>2. On(k) \subseteq Emojis \cup {"ON"}
  BY DEF On
<1>3. mark \in [Kinds -> [Members -> Emojis \cup {"ON", None}]]
  BY DEF TypeOK
<1>4. [mark[k] EXCEPT ![u] = m] \in [Members -> Emojis \cup {"ON", None}]
  BY <1>2, <1>3
<1>5. mark' \in [Kinds -> [Members -> Emojis \cup {"ON", None}]]
  BY <1>1, <1>3, <1>4
<1>6. \A j \in Kinds, v \in Members : mark'[j][v] = IF j = k /\ v = u THEN m ELSE mark[j][v]
  BY <1>1, <1>3
<1> QED
  BY <1>5, <1>6 DEF TypeOK

\* With the mark, its counter moves.
LEMMA CountersStep ==
  ASSUME TypeOK, CountersAgree, NEW k \in Kinds, NEW u \in Members, NEW m \in On(k) \cup {None}, Put(k, u, m),
         mark[k][u] # None \/ m # None,
         count' = [count EXCEPT ![k] = @ + (IF m = None THEN -1 ELSE IF mark[k][u] = None THEN 1 ELSE 0)]
  PROVE  CountersAgree'
<1> SUFFICES ASSUME NEW j \in Kinds PROVE count'[j] = Cardinality(Marked(j)')
  BY DEF CountersAgree, Marked
<1>1. count[j] = Cardinality(Marked(j)) /\ IsFiniteSet(Marked(j))
  BY CountsFinite DEF CountersAgree, Marked
<1>2. CASE j # k
  <2>1. Marked(j)' = Marked(j) /\ count'[j] = count[j]
    BY <1>2, PutType DEF Marked, TypeOK
  <2> QED
    BY <1>1, <2>1
<1>3. CASE j = k
  <2>1. count[k] \in Int
    BY DEF TypeOK
  <2>2. CASE m # None
    <3>1. Marked(k)' = Marked(k) \cup {u} /\ (u \in Marked(k) <=> mark[k][u] # None)
      BY <2>2, PutType DEF Marked
    <3>2. count'[k] = IF u \in Marked(k) THEN count[k] ELSE count[k] + 1
      BY <2>1, <2>2, <3>1 DEF TypeOK
    <3> QED
      BY <1>1, <1>3, <3>1, <3>2, FS_AddElement
  <2>3. CASE m = None
    <3>1. Marked(k)' = Marked(k) \ {u} /\ u \in Marked(k)
      BY <2>3, PutType DEF Marked
    <3>2. count'[k] = count[k] - 1
      BY <2>1, <2>3 DEF TypeOK
    <3> QED
      BY <1>1, <1>3, <3>1, <3>2, FS_RemoveElement
  <2> QED
    BY <2>2, <2>3
<1> QED
  BY <1>2, <1>3

LEMMA CreateInv == ASSUME IInv, NEW r \in Requests, NEW k \in Kinds, Create(r, k) PROVE IInv'
<1> USE Distinct DEF IInv, Create
<1> DEFINE q == request[r]
<1>1. q \in RequestType /\ q.pc = k
  BY DEF TypeOK
<1>2. q.u \in Members /\ q.want \in On(k) /\ q.want # None
  BY <1>1, RequestFields DEF On
<1>3. request' = [request EXCEPT ![r] = Idle] /\ Put(k, q.u, q.want) /\ UNCHANGED <<post, filed, folder, replies>>
  BY DEF Finish
<1>4. mark[k][q.u] = None
  OBVIOUS
<1>5. count' = [count EXCEPT ![k] = @ + (IF q.want = None THEN -1 ELSE IF mark[k][q.u] = None THEN 1 ELSE 0)]
  BY <1>2 DEF AddToCount
<1> HIDE DEF Create, q
<1>6. CountersAgree'
  BY <1>2, <1>3, <1>4, <1>5, CountersStep
<1>7. \A j \in Kinds, v \in Members : mark[j][v] # None => mark'[j][v] # None
  BY <1>2, <1>3, PutType
<1>8. TypeOK'
  BY <1>2, <1>3, <1>5, PutType, IdleType DEF TypeOK, replies
<1>9. RequestsOK'
  <2> SUFFICES ASSUME NEW s \in Requests PROVE Holds(request'[s], mark', folder', reply')
    BY DEF RequestsOK
  <2>1. request'[s] = Idle \/ request'[s] = request[s]
    BY <1>3 DEF TypeOK
  <2>2. Holds(request[s], mark, folder, reply) /\ request[s] \in RequestType
    BY DEF RequestsOK, TypeOK
  <2>3. Holds(Idle, mark', folder', reply')
    BY IdleType
  <2>4. Holds(request[s], mark', folder', reply')
    BY <1>3, <1>7, <2>2, RequestFields DEF Holds, replies, Kinds
  <2> QED
    BY <2>1, <2>3, <2>4
<1>10. Cap'
  BY <1>3, RequestCap DEF Idle
<1>11. Filing'
  BY <1>3, <1>7 DEF Filing, Kinds
<1>12. Parents' /\ Behind'
  BY <1>3 DEF Parents, Behind, Standing, replies
<1> QED
  BY <1>6, <1>8, <1>9, <1>10, <1>11, <1>12

LEMMA SwapInv == ASSUME IInv, NEW r \in Requests, Swap(r) PROVE IInv'
<1> USE Distinct DEF IInv, Swap
<1> DEFINE q == request[r]
           k == "react"
<1>1. q \in RequestType /\ q.pc = k /\ k \in Kinds
  BY DEF TypeOK, Kinds
<1>2. q.u \in Members /\ q.want \in On(k) /\ q.want # None
  BY <1>1, RequestFields DEF On
<1>3. request' = [request EXCEPT ![r] = Idle] /\ Put(k, q.u, q.want) /\ UNCHANGED <<post, count, filed, folder, replies>>
  BY DEF Finish
<1>4. mark[k][q.u] # None
  BY <1>1 DEF RequestsOK, Holds
<1>5. count' = [count EXCEPT ![k] = @ + (IF q.want = None THEN -1 ELSE IF mark[k][q.u] = None THEN 1 ELSE 0)]
  BY <1>1, <1>2, <1>3, <1>4 DEF TypeOK
<1> HIDE DEF Swap, q, k
<1>6. CountersAgree'
  BY <1>1, <1>2, <1>3, <1>4, <1>5, CountersStep
<1>7. \A j \in Kinds, v \in Members : mark[j][v] # None => mark'[j][v] # None
  BY <1>1, <1>2, <1>3, PutType
<1>8. TypeOK'
  BY <1>1, <1>2, <1>3, PutType, IdleType DEF TypeOK, replies
<1>9. RequestsOK'
  <2> SUFFICES ASSUME NEW s \in Requests PROVE Holds(request'[s], mark', folder', reply')
    BY DEF RequestsOK
  <2>1. request'[s] = Idle \/ request'[s] = request[s]
    BY <1>3 DEF TypeOK
  <2>2. Holds(request[s], mark, folder, reply) /\ request[s] \in RequestType
    BY DEF RequestsOK, TypeOK
  <2>3. Holds(Idle, mark', folder', reply')
    BY IdleType
  <2>4. Holds(request[s], mark', folder', reply')
    BY <1>3, <1>7, <2>2, RequestFields DEF Holds, replies, Kinds
  <2> QED
    BY <2>1, <2>3, <2>4
<1>10. Cap'
  BY <1>3, RequestCap DEF Idle
<1>11. Filing'
  BY <1>3, <1>7 DEF Filing, Kinds
<1>12. Parents' /\ Behind'
  BY <1>3 DEF Parents, Behind, Standing, replies
<1> QED
  BY <1>6, <1>8, <1>9, <1>10, <1>11, <1>12

\* The requests that had read a row that is deleted know of none.
LEMMA DropType ==
  ASSUME TypeOK, NEW r \in Requests, NEW k \in Kinds, NEW u \in Members, Drop(r, k, u)
  PROVE  /\ request' \in [Requests -> RequestType]
         /\ \A s \in Requests :
              \/ request'[s] = Idle
              \/ /\ request'[s] = request[s]
                 /\ request[s].u = u /\ request[s].seen # None =>
                      request[s].pc # k /\ (k = "save" => request[s].pc # "file")
              \/ /\ request'[s] = [request[s] EXCEPT !.seen = Gone]
                 /\ request[s].pc \in {k, "file"}
<1> USE DEF Drop
<1>1. ASSUME NEW s \in Requests, request[s].u = u, request[s].seen # None,
             request[s].pc \in {k} \cup (IF k = "save" THEN {"file"} ELSE {})
      PROVE  [request[s] EXCEPT !.seen = Gone] \in RequestType
  <2>1. request[s] \in RequestType
    BY DEF TypeOK
  <2>2. [request[s] EXCEPT !.seen = Gone] = [pc |-> request[s].pc, u |-> u, want |-> request[s].want, seen |-> Gone]
    BY <1>1, <2>1, RequestFields
  <2>3. CASE request[s].pc = k
    BY <2>1, <2>2, <2>3, RequestFields, ToggleType
  <2>4. CASE request[s].pc = "file"
    BY <2>1, <2>2, <2>4, RequestFields, FileType
  <2> QED
    BY <1>1, <2>3, <2>4
<1>2. \A s \in Requests : request'[s] \in RequestType
  BY <1>1, IdleType DEF TypeOK
<1>3. request' \in [Requests -> RequestType]
  BY <1>2
<1>4. ASSUME NEW s \in Requests
      PROVE  \/ request'[s] = Idle
             \/ /\ request'[s] = request[s]
                /\ request[s].u = u /\ request[s].seen # None =>
                     request[s].pc # k /\ (k = "save" => request[s].pc # "file")
             \/ /\ request'[s] = [request[s] EXCEPT !.seen = Gone]
                /\ request[s].pc \in {k, "file"}
  OBVIOUS
<1> QED
  BY <1>3, <1>4

LEMMA DeleteInv == ASSUME IInv, NEW r \in Requests, NEW k \in Kinds, Delete(r, k) PROVE IInv'
<1> USE Distinct DEF IInv, Delete
<1> DEFINE q == request[r]
<1>1. q \in RequestType /\ q.pc = k
  BY DEF TypeOK
<1>2. q.u \in Members
  BY <1>1, RequestFields
<1>3. Drop(r, k, q.u) /\ Put(k, q.u, None) /\ UNCHANGED <<post, folder, replies>>
  OBVIOUS
<1>4. mark[k][q.u] # None
  BY <1>1 DEF RequestsOK, Holds
<1>5. count' = [count EXCEPT ![k] = @ + (IF None = None THEN -1 ELSE IF mark[k][q.u] = None THEN 1 ELSE 0)]
  <2>1. q.u \in Marked(k) /\ IsFiniteSet(Marked(k)) /\ count[k] = Cardinality(Marked(k))
    BY <1>2, <1>4, CountsFinite DEF Marked, CountersAgree
  <2>2. count[k] # 0
    BY <2>1, FS_EmptySet
  <2> QED
    BY <2>2 DEF AddToCount
<1>6. filed' = IF k = "save" THEN [filed EXCEPT ![q.u] = None] ELSE filed
  OBVIOUS
<1> HIDE DEF Delete, q
<1>7. CountersAgree'
  BY <1>2, <1>3, <1>4, <1>5, CountersStep
<1>8. \A j \in Kinds, v \in Members : j # k \/ v # q.u => mark'[j][v] = mark[j][v]
  BY <1>2, <1>3, PutType
<1>9. TypeOK'
  <2>1. count' \in [Kinds -> Int]
    BY <1>5 DEF TypeOK
  <2>2. filed' \in [Members -> Folders \cup {None}]
    BY <1>6 DEF TypeOK
  <2> QED
    BY <1>2, <1>3, <2>1, <2>2, PutType, DropType DEF TypeOK, replies
<1>10. RequestsOK'
  <2> SUFFICES ASSUME NEW s \in Requests PROVE Holds(request'[s], mark', folder', reply')
    BY DEF RequestsOK
  <2>1. Holds(request[s], mark, folder, reply) /\ request[s] \in RequestType
    BY DEF RequestsOK, TypeOK
  <2>2. CASE request'[s] = Idle
    BY <2>2 DEF Holds, Idle, Kinds
  <2>3. CASE /\ request'[s] = request[s]
             /\ request[s].u = q.u /\ request[s].seen # None =>
                  request[s].pc # k /\ (k = "save" => request[s].pc # "file")
    <3>1. request[s].pc \in Kinds /\ request[s].seen \notin {None, Gone} => mark'[request[s].pc][request[s].u] # None
      BY <1>8, <2>1, <2>3, RequestFields DEF Holds
    <3>2. request[s].pc = "file" /\ request[s].seen # Gone => mark'["save"][request[s].u] # None
      BY <1>8, <2>1, <2>3, RequestFields DEF Holds, Kinds
    <3> QED
      BY <1>3, <2>1, <2>3, <3>1, <3>2 DEF Holds, replies
  <2>4. CASE /\ request'[s] = [request[s] EXCEPT !.seen = Gone]
             /\ request[s].pc \in {k, "file"}
    <3>1. /\ request'[s].pc = request[s].pc /\ request'[s].u = request[s].u
          /\ request'[s].want = request[s].want /\ request'[s].seen = Gone
      BY <2>1, <2>4, RequestFields
    <3> QED
      BY <1>3, <2>1, <2>4, <3>1 DEF Holds, replies, Kinds
  <2> QED
    BY <1>2, <1>3, <2>2, <2>3, <2>4, DropType
<1>11. Cap'
  <2>1. \A s \in Requests : request'[s] = request[s] \/ request'[s].pc # "folder"
    <3> SUFFICES ASSUME NEW s \in Requests PROVE request'[s] = request[s] \/ request'[s].pc # "folder"
      OBVIOUS
    <3>1. request[s] \in RequestType
      BY DEF TypeOK
    <3>2. CASE request'[s] = [request[s] EXCEPT !.seen = Gone] /\ request[s].pc \in {k, "file"}
      BY <3>1, <3>2, RequestFields DEF Kinds
    <3> QED
      BY <1>2, <1>3, <3>2, DropType DEF Idle
  <2> QED
    BY <1>3, <2>1, FewerPending
<1>12. Filing'
  BY <1>3, <1>6, <1>8 DEF Filing, TypeOK, Kinds
<1>13. Parents' /\ Behind'
  BY <1>3 DEF Parents, Behind, Standing, replies
<1> QED
  BY <1>7, <1>9, <1>10, <1>11, <1>12, <1>13

LEMMA ToggleInv == ASSUME IInv, NEW r \in Requests, Toggle(r) PROVE IInv'
BY SwapInv, CreateInv, DeleteInv DEF Toggle

-----------------------------------------------------------------------------
(* Collections *)

\* Steps that leave marks and replies alone.
LEMMA FolderRequests ==
  ASSUME RequestsOK, TypeOK, UNCHANGED <<mark, replies>>, NEW r \in Requests,
         \A s \in Requests : request'[s] = request[s] \/ request'[s] = Idle,
         \A f \in Folders : \/ folder'[f] = folder[f] \/ folder'[f] = NoFolder
                            \/ folder[f] # NoFolder /\ folder'[f].u = folder[f].u
                            \/ \A s \in Requests : request'[s].want # f
  PROVE  RequestsOK'
<1> SUFFICES ASSUME NEW s \in Requests PROVE Holds(request'[s], mark', folder', reply')
  BY DEF RequestsOK
<1>1. CASE request'[s] = Idle
  BY <1>1, IdleType
<1>2. CASE request'[s] = request[s]
  <2>1. Holds(request[s], mark, folder, reply) /\ request[s] \in RequestType
    BY DEF RequestsOK, TypeOK
  <2>2. ASSUME request[s].pc = "file", request[s].want # None
        PROVE  folder'[request[s].want] = NoFolder \/ folder'[request[s].want].u = request[s].u
    <3>1. request[s].want \in Folders
      BY <2>1, <2>2, RequestFields
    <3> QED
      BY <1>2, <2>1, <2>2, <3>1 DEF Holds
  <2> QED
    BY <1>2, <2>1, <2>2 DEF Holds, replies
<1> QED
  BY <1>1, <1>2

LEMMA CountFoldersInv ==
  ASSUME IInv, NEW r \in Requests, NEW u \in Members, NEW name \in Names, CountFolders(r, u, name)
  PROVE  IInv'
<1> USE DEF IInv, CountFolders, Start
<1> DEFINE q == [pc |-> "folder", u |-> u, want |-> name, seen |-> None]
<1>1. request[r] = Idle /\ request' = [request EXCEPT ![r] = q] /\ UNCHANGED <<post, marks, folder, replies>>
  OBVIOUS
<1>2. Cardinality(FoldersOf(u)) < MaxFolders
  OBVIOUS
<1>3. q \in RequestType /\ Holds(q, mark, folder, reply)
  BY DEF RequestType, Holds, Kinds
<1>4. Cap'
  <2> SUFFICES ASSUME NEW v \in Members
               PROVE  Cardinality(FoldersOf(v)') + Cardinality(Pending(v)')
                        <= MaxFolders + Cardinality(Requests) - 1
    BY DEF Cap
  <2>1. FoldersOf(v)' = FoldersOf(v)
    BY <1>1 DEF FoldersOf
  <2>2. /\ Cardinality(FoldersOf(v)) \in Nat /\ Cardinality(Requests) \in Nat /\ MaxFolders \in Nat
        /\ Cardinality(Pending(v)) \in Nat
    BY CountsFinite, FS_CardinalityType, EngagementAssumption
  <2>3. CASE v = u
    <3>1. Pending(u)' \subseteq Requests
      BY DEF Pending
    <3>2. Cardinality(Pending(u)') <= Cardinality(Requests) /\ Cardinality(Pending(u)') \in Nat
      BY <3>1, FS_Subset, FS_CardinalityType, EngagementAssumption
    <3> QED
      BY <1>2, <2>1, <2>2, <2>3, <3>2
  <2>4. CASE v # u
    <3>1. Pending(v)' = Pending(v)
      BY <1>1, <2>4 DEF Pending, TypeOK, Idle
    <3> QED
      BY <2>1, <3>1 DEF Cap
  <2> QED
    BY <2>3, <2>4
<1> QED
  BY <1>1, <1>3, <1>4, RequestInv

LEMMA CreateFolderInv ==
  ASSUME IInv, NEW r \in Requests, NEW f \in Folders, CreateFolder(r, f)
  PROVE  IInv'
<1> USE Distinct DEF IInv, CreateFolder
<1> DEFINE u == request[r].u
           new == [u |-> u, name |-> request[r].want]
<1>1. request[r] \in RequestType /\ request[r].pc = "folder" /\ folder[f] = NoFolder
  BY DEF TypeOK
<1>2. u \in Members /\ request[r].want \in Names /\ new # NoFolder
  BY <1>1, RequestFields DEF NoFolder
<1>3. /\ request' = [request EXCEPT ![r] = Idle] /\ folder' = [folder EXCEPT ![f] = new]
      /\ UNCHANGED <<post, marks, replies>>
  BY DEF Finish
<1>4. \A s \in Requests : request[s].want # f
  OBVIOUS
<1> HIDE DEF CreateFolder, u, new
<1>5. new.u = u
  BY DEF new
<1>6. TypeOK'
  <2>1. folder' \in [Folders -> {NoFolder} \cup [u : Members, name : Names]]
    BY <1>2, <1>3 DEF TypeOK, new
  <2> QED
    BY <1>3, <2>1, IdleType DEF TypeOK, marks, replies
<1>7. RequestsOK'
  <2>1. \A s \in Requests : request'[s].want # f /\ (request'[s] = request[s] \/ request'[s] = Idle)
    BY <1>3, <1>4 DEF TypeOK, Idle
  <2> QED
    BY <1>3, <2>1, FolderRequests DEF TypeOK, marks
<1>8. Cap'
  <2> SUFFICES ASSUME NEW v \in Members
               PROVE  Cardinality(FoldersOf(v)') + Cardinality(Pending(v)')
                        <= MaxFolders + Cardinality(Requests) - 1
    BY DEF Cap
  <2>1. Cardinality(FoldersOf(v)) + Cardinality(Pending(v)) <= MaxFolders + Cardinality(Requests) - 1
    BY DEF Cap
  <2>2. IsFiniteSet(FoldersOf(v)) /\ IsFiniteSet(Pending(v))
    BY CountsFinite
  <2>3. CASE v = u
    <3>1. FoldersOf(v)' = FoldersOf(v) \cup {f} /\ f \notin FoldersOf(v)
      BY <1>1, <1>2, <1>3, <1>5, <2>3 DEF FoldersOf, TypeOK, NoFolder
    <3>2. Pending(v)' = Pending(v) \ {r} /\ r \in Pending(v)
      BY <1>1, <1>3, <2>3 DEF Pending, TypeOK, Idle, u
    <3>3. /\ Cardinality(FoldersOf(v)') = Cardinality(FoldersOf(v)) + 1
          /\ Cardinality(Pending(v)') = Cardinality(Pending(v)) - 1
      BY <2>2, <3>1, <3>2, FS_AddElement, FS_RemoveElement
    <3>4. Cardinality(FoldersOf(v)) \in Nat /\ Cardinality(Pending(v)) \in Nat
      BY <2>2, FS_CardinalityType
    <3> QED
      BY <2>1, <3>3, <3>4
  <2>4. CASE v # u
    <3>1. FoldersOf(v)' = FoldersOf(v)
      BY <1>1, <1>3, <1>5, <2>4 DEF FoldersOf, TypeOK, NoFolder
    <3>2. Pending(v)' = Pending(v)
      BY <1>3, <2>4 DEF Pending, TypeOK, Idle, u
    <3> QED
      BY <2>1, <3>1, <3>2
  <2> QED
    BY <2>3, <2>4
<1>9. Filing'
  <2>1. \A v \in Members : filed[v] # None => filed[v] # f
    BY <1>1 DEF Filing, NoFolder
  <2> QED
    BY <1>3, <2>1 DEF Filing, TypeOK, marks
<1>10. CountersAgree' /\ Parents' /\ Behind'
  BY <1>3 DEF CountersAgree, Parents, Behind, Standing, marks, replies
<1> QED
  BY <1>6, <1>7, <1>8, <1>9, <1>10

LEMMA RenameInv ==
  ASSUME IInv, NEW f \in Folders, NEW name \in Names, Rename(f, name)
  PROVE  IInv'
<1> USE Distinct DEF IInv, Rename
<1>1. folder[f] \in [u : Members, name : Names]
  BY DEF TypeOK
<1>2. folder' = [folder EXCEPT ![f] = [folder[f] EXCEPT !.name = name]]
  OBVIOUS
<1>3. UNCHANGED <<post, marks, replies, request>>
  OBVIOUS
<1> HIDE DEF Rename
<1>4. \A g \in Folders : \/ folder'[g] = folder[g]
                         \/ folder[g] # NoFolder /\ folder'[g].u = folder[g].u
  BY <1>1, <1>2 DEF TypeOK, NoFolder
<1>5. TypeOK'
  BY <1>1, <1>2, <1>3 DEF TypeOK, marks, replies
<1>6. RequestsOK'
  <2> SUFFICES ASSUME NEW s \in Requests PROVE Holds(request'[s], mark', folder', reply')
    BY DEF RequestsOK
  <2>1. Holds(request[s], mark, folder, reply) /\ request[s] \in RequestType
    BY DEF RequestsOK, TypeOK
  <2> QED
    BY <1>3, <1>4, <2>1, RequestFields DEF Holds, marks, replies
<1>7. \A u \in Members : FoldersOf(u)' = FoldersOf(u) /\ Pending(u)' = Pending(u)
  BY <1>3, <1>4 DEF FoldersOf, Pending
<1>8. Cap'
  BY <1>7 DEF Cap
<1>9. Filing'
  BY <1>3, <1>4 DEF Filing, TypeOK, marks
<1> QED
  BY <1>3, <1>5, <1>6, <1>8, <1>9 DEF CountersAgree, Parents, Behind, Standing, marks, replies

LEMMA DeleteFolderInv ==
  ASSUME IInv, NEW f \in Folders, DeleteFolder(f)
  PROVE  IInv'
<1> USE Distinct DEF IInv, DeleteFolder
<1>1. folder' = [folder EXCEPT ![f] = NoFolder]
  OBVIOUS
<1>2. UNCHANGED <<post, mark, count, replies, request>>
  OBVIOUS
<1>3. TypeOK'
  BY DEF TypeOK, replies
<1>4. RequestsOK'
  <2> SUFFICES ASSUME NEW s \in Requests PROVE Holds(request'[s], mark', folder', reply')
    BY DEF RequestsOK
  <2>1. Holds(request[s], mark, folder, reply) /\ request[s] \in RequestType
    BY DEF RequestsOK, TypeOK
  <2> QED
    BY <1>1, <1>2, <2>1, RequestFields DEF Holds, replies, TypeOK
<1>5. Cap'
  <2> SUFFICES ASSUME NEW v \in Members
               PROVE  Cardinality(FoldersOf(v)') + Cardinality(Pending(v)')
                        <= MaxFolders + Cardinality(Requests) - 1
    BY DEF Cap
  <2>1. FoldersOf(v)' \subseteq FoldersOf(v) /\ Pending(v)' = Pending(v)
    BY <1>1, <1>2 DEF FoldersOf, Pending, TypeOK, NoFolder
  <2>2. Cardinality(FoldersOf(v)') <= Cardinality(FoldersOf(v))
    BY <2>1, CountsFinite, FS_Subset
  <2>3. /\ Cardinality(FoldersOf(v)) \in Nat /\ Cardinality(FoldersOf(v)') \in Nat
        /\ Cardinality(Pending(v)) \in Nat /\ Cardinality(Requests) \in Nat /\ MaxFolders \in Nat
    BY <2>1, CountsFinite, FS_Subset, FS_CardinalityType, EngagementAssumption
  <2>4. Cardinality(FoldersOf(v)) + Cardinality(Pending(v)) <= MaxFolders + Cardinality(Requests) - 1
    BY DEF Cap
  <2> QED
    BY <2>1, <2>2, <2>3, <2>4
<1>6. Filing'
  BY <1>1, <1>2 DEF Filing, TypeOK
<1> QED
  BY <1>2, <1>3, <1>4, <1>5, <1>6 DEF CountersAgree, Parents, Behind, Standing, replies

LEMMA LookMoveInv ==
  ASSUME IInv, NEW r \in Requests, NEW u \in Members, NEW f \in Folders \cup {None}, LookMove(r, u, f)
  PROVE  IInv'
<1> DEFINE q == [pc |-> "file", u |-> u, want |-> f, seen |-> "ON"]
<1>1. q \in RequestType
  BY FileType
<1>2. Holds(q, mark, folder, reply)
  BY DEF Holds, LookMove, Kinds
<1> QED
  BY <1>1, <1>2, RequestInv, RequestCap DEF LookMove, Start

LEMMA MoveInv == ASSUME IInv, NEW r \in Requests, Move(r) PROVE IInv'
<1> USE Distinct DEF IInv, Move
<1> DEFINE q == request[r]
<1>1. q \in RequestType /\ q.pc = "file" /\ q.seen # Gone
  BY DEF TypeOK
<1>2. q.u \in Members /\ q.want \in Folders \cup {None}
  BY <1>1, RequestFields
<1>3. mark["save"][q.u] # None /\ (q.want # None => folder[q.want].u = q.u)
  BY <1>1 DEF RequestsOK, Holds
<1>4. /\ request' = [request EXCEPT ![r] = Idle] /\ filed' = [filed EXCEPT ![q.u] = q.want]
      /\ UNCHANGED <<post, mark, count, folder, replies>>
  BY DEF Finish
<1> HIDE DEF Move, q
<1>5. TypeOK'
  BY <1>2, <1>4, IdleType DEF TypeOK, replies
<1>6. RequestsOK'
  BY <1>4, FolderRequests DEF TypeOK
<1>7. Cap'
  BY <1>4, RequestCap DEF Idle
<1>8. Filing'
  BY <1>2, <1>3, <1>4 DEF Filing, TypeOK
<1> QED
  BY <1>4, <1>5, <1>6, <1>7, <1>8 DEF CountersAgree, Parents, Behind, Standing, replies

LEMMA FileInv == ASSUME IInv, NEW r \in Requests, File(r) PROVE IInv'
BY CountFoldersInv, CreateFolderInv, LookMoveInv, MoveInv DEF File

-----------------------------------------------------------------------------
(* Replies *)

LEMMA LookReplyInv ==
  ASSUME IInv, NEW r \in Requests, NEW u \in Members, NEW parent \in Replies \cup {None},
         LookReply(r, u, parent)
  PROVE  IInv'
<1> DEFINE q == [pc |-> "reply", u |-> u, want |-> parent, seen |-> None]
<1>1. q \in RequestType
  BY DEF RequestType
<1>2. Holds(q, mark, folder, reply)
  BY DEF Holds, LookReply, Kinds, NoReply
<1> QED
  BY <1>1, <1>2, RequestInv, RequestCap DEF LookReply, Start

LEMMA LookDeleteInv ==
  ASSUME IInv, NEW r \in Requests, NEW u \in Members, NEW x \in Replies, LookDelete(r, u, x)
  PROVE  IInv'
<1> DEFINE q == [pc |-> "unreply", u |-> u, want |-> x, seen |-> None]
<1>1. q \in RequestType
  BY DEF RequestType
<1>2. Holds(q, mark, folder, reply)
  BY DEF Holds, LookDelete, Kinds, NoReply
<1> QED
  BY <1>1, <1>2, RequestInv, RequestCap DEF LookDelete, Start

\* A reply keeps its place under its parent, and what a request knows of it,
\* whatever becomes of its status.
LEMMA StatusInv ==
  ASSUME IInv, NEW x \in Replies, reply[x] # NoReply, NEW status \in {"VISIBLE", "HIDDEN", "DELETED"},
         reply' = [reply EXCEPT ![x] = [@ EXCEPT !.status = status]],
         replyCount' \in Int, Behind', UNCHANGED <<post, marks, folder>>,
         \/ UNCHANGED request
         \/ \E r \in Requests : request' = [request EXCEPT ![r] = Idle]
  PROVE  IInv'
<1> USE DEF IInv
<1>1. reply[x] \in [status : {"VISIBLE", "HIDDEN", "DELETED"}, parent : Replies \cup {None}]
  BY DEF TypeOK
<1>2. reply' \in [Replies -> {NoReply} \cup
                   [status : {"VISIBLE", "HIDDEN", "DELETED"}, parent : Replies \cup {None}]]
  BY <1>1 DEF TypeOK
<1>3. \A y \in Replies : reply'[y].parent = reply[y].parent /\ (reply[y] # NoReply => reply'[y] # NoReply)
  BY <1>1 DEF TypeOK, NoReply
<1>4. \A s \in Requests : request'[s] = request[s] \/ request'[s] = Idle
  BY DEF TypeOK
<1>5. request' \in [Requests -> RequestType]
  BY IdleType DEF TypeOK
<1>6. TypeOK'
  BY <1>2, <1>3, <1>5 DEF TypeOK, marks
<1>7. RequestsOK'
  <2> SUFFICES ASSUME NEW s \in Requests PROVE Holds(request'[s], mark', folder', reply')
    BY DEF RequestsOK
  <2>1. CASE request'[s] = Idle
    BY <2>1, IdleType
  <2>2. CASE request'[s] = request[s]
    <3>1. Holds(request[s], mark, folder, reply) /\ request[s] \in RequestType
      BY DEF RequestsOK, TypeOK
    <3> QED
      BY <1>3, <2>2, <3>1, RequestFields DEF Holds, marks
  <2> QED
    BY <1>4, <2>1, <2>2
<1>8. Parents'
  <2> SUFFICES ASSUME NEW y \in Replies, reply'[y].parent # None
               PROVE  reply'[reply'[y].parent] # NoReply
    BY DEF Parents
  <2>1. reply[y].parent \in Replies /\ reply[reply[y].parent] # NoReply
    BY <1>3 DEF Parents, TypeOK, NoReply
  <2> QED
    BY <1>3, <2>1
<1>9. Cap'
  BY <1>4, FewerPending DEF Idle
<1> QED
  BY <1>6, <1>7, <1>8, <1>9 DEF CountersAgree, Filing, marks

\* A step that moves the status of one reply moves Standing by that reply.
LEMMA StandingStep ==
  ASSUME TypeOK, NEW x \in Replies, reply[x] # NoReply, NEW status \in {"VISIBLE", "HIDDEN", "DELETED"},
         reply' = [reply EXCEPT ![x] = [@ EXCEPT !.status = status]]
  PROVE  Standing' = IF status = "DELETED" THEN Standing \ {x} ELSE Standing \cup {x}
<1>1. \A y \in Replies : reply'[y].status = IF y = x THEN status ELSE reply[y].status
  BY DEF TypeOK, NoReply
<1> QED
  BY <1>1 DEF Standing

LEMMA Sizes ==
  /\ Cardinality(Standing) \in Nat
  /\ \A x : /\ Cardinality(Standing \cup {x}) = IF x \in Standing THEN Cardinality(Standing) ELSE Cardinality(Standing) + 1
            /\ Cardinality(Standing \ {x}) = IF x \in Standing THEN Cardinality(Standing) - 1 ELSE Cardinality(Standing)
BY CountsFinite, FS_CardinalityType, FS_AddElement, FS_RemoveElement

\* How each step moves the counter and the replies that stand.
CreatesReply == \E r \in Requests, x \in Replies : CreateReply(r, x)
DeletesReply == \E r \in Requests : DeleteReply(r)
JudgesReply == \E x \in Replies : HideReply(x) \/ RestoreReply(x)

LEMMA CreateReplyInv ==
  ASSUME IInv, NEW r \in Requests, NEW x \in Replies, CreateReply(r, x)
  PROVE  IInv' /\ Cardinality(Standing)' - replyCount' = Cardinality(Standing) - replyCount
<1> USE Distinct DEF IInv, CreateReply
<1> DEFINE parent == request[r].want
           new == [status |-> "VISIBLE", parent |-> parent]
<1>1. request[r] \in RequestType /\ request[r].pc = "reply" /\ reply[x] = NoReply
  BY DEF TypeOK
<1>2. parent \in Replies \cup {None} /\ new # NoReply
  BY <1>1, RequestFields DEF NoReply
<1>3. parent # None => reply[parent] # NoReply /\ reply[parent].parent = None
  BY <1>1 DEF RequestsOK, Holds
<1>4. /\ request' = [request EXCEPT ![r] = Idle] /\ reply' = [reply EXCEPT ![x] = new]
      /\ replyCount' = replyCount + 1 /\ UNCHANGED <<post, marks, folder>>
  BY DEF Finish
<1> HIDE DEF CreateReply, parent
<1>5. \A y \in Replies : reply[y] # NoReply => y # x /\ reply'[y] = reply[y]
  BY <1>1, <1>4 DEF TypeOK
<1>6. reply'[x] = new
  BY <1>4 DEF TypeOK
<1>7. \A y \in Replies : reply'[y].parent # None =>
        /\ reply'[y].parent \in Replies
        /\ reply[reply'[y].parent] # NoReply
        /\ reply[reply'[y].parent].parent = None
  <2> SUFFICES ASSUME NEW y \in Replies, reply'[y].parent # None
               PROVE  /\ reply'[y].parent \in Replies
                      /\ reply[reply'[y].parent] # NoReply
                      /\ reply[reply'[y].parent].parent = None
    OBVIOUS
  <2>1. CASE y = x
    BY <1>2, <1>3, <1>6, <2>1
  <2>2. CASE y # x
    <3>1. reply'[y] = reply[y]
      BY <1>4, <2>2 DEF TypeOK
    <3> QED
      BY <3>1 DEF TypeOK, Parents, NoReply
  <2> QED
    BY <2>1, <2>2
<1>8. TypeOK'
  <2>1. reply' \in [Replies -> {NoReply} \cup
                     [status : {"VISIBLE", "HIDDEN", "DELETED"}, parent : Replies \cup {None}]]
    BY <1>2, <1>4 DEF TypeOK
  <2>2. \A y \in Replies : reply'[y].parent # None => reply'[reply'[y].parent].parent = None
    BY <1>5, <1>7
  <2>3. request' \in [Requests -> RequestType] /\ replyCount' \in Int
    BY <1>4, IdleType DEF TypeOK
  <2>4. UNCHANGED <<post, mark, count, filed, folder>>
    BY <1>4 DEF marks
  <2> QED
    BY <2>1, <2>2, <2>3, <2>4 DEF TypeOK
<1>9. RequestsOK'
  <2> SUFFICES ASSUME NEW s \in Requests PROVE Holds(request'[s], mark', folder', reply')
    BY DEF RequestsOK
  <2>1. request'[s] = Idle \/ request'[s] = request[s]
    BY <1>4 DEF TypeOK
  <2>2. Holds(request[s], mark, folder, reply) /\ request[s] \in RequestType
    BY DEF RequestsOK, TypeOK
  <2>3. Holds(Idle, mark', folder', reply')
    BY IdleType
  <2>4. Holds(request[s], mark', folder', reply')
    BY <1>4, <1>5, <2>2, RequestFields DEF Holds, marks
  <2> QED
    BY <2>1, <2>3, <2>4
<1>10. Cap'
  BY <1>4, RequestCap DEF Idle
<1>11. Parents'
  BY <1>5, <1>7 DEF Parents
<1>12. Standing' = Standing \cup {x} /\ x \notin Standing
  BY <1>1, <1>4 DEF Standing, TypeOK, NoReply
<1>13. Cardinality(Standing)' = Cardinality(Standing) + 1
  BY <1>12, Sizes
<1>14. Behind' /\ Cardinality(Standing)' - replyCount' = Cardinality(Standing) - replyCount
  <2>1. replyCount \in Int /\ replyCount' = replyCount + 1 /\ replyCount <= Cardinality(Standing)
    BY <1>4 DEF TypeOK, Behind
  <2> QED
    BY <1>13, <2>1, Sizes DEF Behind
<1> QED
  BY <1>4, <1>8, <1>9, <1>10, <1>11, <1>14 DEF CountersAgree, Filing, marks

LEMMA DeleteReplyInv ==
  ASSUME IInv, NEW r \in Requests, DeleteReply(r)
  PROVE  /\ IInv'
         /\ \/ Cardinality(Standing)' - replyCount' = Cardinality(Standing) - replyCount
            \/ request[r].want \in Replies /\ reply[request[r].want].status = "DELETED"
<1> USE DEF IInv, DeleteReply
<1> DEFINE x == request[r].want
<1>1. request[r] \in RequestType /\ request[r].pc = "unreply"
  BY DEF TypeOK
<1>2. x \in Replies /\ reply[x] # NoReply
  BY <1>1, RequestFields DEF RequestsOK, Holds
<1>3. /\ request' = [request EXCEPT ![r] = Idle]
      /\ reply' = [reply EXCEPT ![x] = [@ EXCEPT !.status = "DELETED"]]
      /\ replyCount' = replyCount - 1 /\ UNCHANGED <<post, marks, folder>>
  BY DEF Finish
<1> HIDE DEF DeleteReply, x
<1>4. Standing' = Standing \ {x} /\ (x \in Standing <=> reply[x].status # "DELETED")
  BY <1>2, <1>3, StandingStep DEF Standing, TypeOK
<1>5. Behind' /\ replyCount' \in Int
  BY <1>3, <1>4, Sizes DEF Behind, TypeOK
<1>6. IInv'
  BY <1>2, <1>3, <1>5, StatusInv
<1>7. \/ Cardinality(Standing)' - replyCount' = Cardinality(Standing) - replyCount
      \/ reply[x].status = "DELETED"
  <2>1. replyCount \in Int /\ replyCount' = replyCount - 1
    BY <1>3 DEF TypeOK
  <2>2. x \in Standing => Cardinality(Standing)' = Cardinality(Standing) - 1
    BY <1>4, Sizes
  <2> QED
    BY <1>4, <2>1, <2>2, Sizes
<1> QED
  BY <1>2, <1>6, <1>7 DEF x

LEMMA JudgeReplyInv ==
  ASSUME IInv, NEW x \in Replies, HideReply(x) \/ RestoreReply(x)
  PROVE  /\ IInv'
         /\ \/ Cardinality(Standing)' - replyCount' = Cardinality(Standing) - replyCount
            \/ reply[x].status = "DELETED" /\ reply'[x].status = "HIDDEN"
<1> USE DEF IInv
<1>1. PICK status \in {"VISIBLE", "HIDDEN"} : reply' = [reply EXCEPT ![x] = [@ EXCEPT !.status = status]]
  BY DEF HideReply, RestoreReply
<1>2. reply[x] # NoReply /\ UNCHANGED <<post, marks, folder, replyCount, request>>
  BY DEF HideReply, RestoreReply, NoReply
<1>3. Standing' = Standing \cup {x} /\ (x \in Standing <=> reply[x].status # "DELETED")
  BY <1>1, <1>2, StandingStep DEF Standing, TypeOK
<1>4. Behind' /\ replyCount' \in Int
  BY <1>2, <1>3, Sizes DEF Behind, TypeOK
<1>5. IInv'
  BY <1>1, <1>2, <1>4, StatusInv
<1>6. x \in Standing => Cardinality(Standing)' - replyCount' = Cardinality(Standing) - replyCount
  BY <1>2, <1>3, Sizes
<1>7. reply[x].status = "DELETED" => reply'[x].status = "HIDDEN"
  BY <1>2 DEF HideReply, RestoreReply, TypeOK, NoReply
<1> QED
  BY <1>3, <1>5, <1>6, <1>7

-----------------------------------------------------------------------------
LEMMA DiscussInv == ASSUME IInv, NEW r \in Requests, Discuss(r) PROVE IInv'
BY LookReplyInv, CreateReplyInv, LookDeleteInv, DeleteReplyInv DEF Discuss

LEMMA SetPostInv ==
  ASSUME IInv, NEW status \in {"VISIBLE", "HIDDEN", "DELETED"}, SetPost(status)
  PROVE  IInv'
<1> USE DEF IInv, SetPost, marks, replies
<1>1. TypeOK'
  BY DEF TypeOK
<1>2. RequestsOK' /\ CountersAgree' /\ Filing'
  BY DEF RequestsOK, CountersAgree, Filing
<1>3. Cap' /\ Parents' /\ Behind'
  BY DEF Cap, FoldersOf, Pending, Parents, Behind, Standing
<1> QED
  BY <1>1, <1>2, <1>3

LEMMA NextInv == IInv /\ [Next]_vars => IInv'
<1> SUFFICES ASSUME IInv, [Next]_vars PROVE IInv'
  OBVIOUS
<1>1. CASE UNCHANGED vars
  BY <1>1 DEF vars, IInv, TypeOK, RequestsOK, CountersAgree, Filing, Cap, FoldersOf, Pending, Parents, Behind,
     Standing
<1>2. CASE Next
  BY <1>2, LookInv, ToggleInv, FileInv, DiscussInv, AbortInv, DeleteFolderInv, RenameInv, JudgeReplyInv,
     SetPostInv DEF Next
<1> QED
  BY <1>1, <1>2

LEMMA Invariance == Spec => []IInv
BY InitInv, NextInv, PTL DEF Spec

\* Every column and every local of a request has its type, and replies are nested
\* one deep at most (reply.service.ts), at all times.
THEOREM TypeCorrect == Spec => []TypeOK
<1>1. IInv => TypeOK
  BY DEF IInv
<1> QED
  BY <1>1, Invariance, PTL

\* like_count, boost_count and bookmark_count are the numbers of the rows, for any
\* number of overlapping toggles (reaction.service.ts, boosts and saves).
THEOREM CountersCorrect == Spec => []CountersAgree
<1>1. IInv => CountersAgree
  BY DEF IInv
<1> QED
  BY <1>1, Invariance, PTL

\* A bookmark is in a collection of its own member, and the cap on collections is
\* exceeded by racing requests only (saved-collection.service.ts).
THEOREM FilingCorrect == Spec => []FiledAtHome
<1>1. ASSUME IInv, NEW u \in Members
      PROVE  Cardinality(FoldersOf(u)) <= MaxFolders + Cardinality(Requests) - 1
  <2>1. Cardinality(FoldersOf(u)) + Cardinality(Pending(u)) <= MaxFolders + Cardinality(Requests) - 1
    BY <1>1 DEF IInv, Cap
  <2>2. /\ Cardinality(FoldersOf(u)) \in Nat /\ Cardinality(Pending(u)) \in Nat
        /\ Cardinality(Requests) \in Nat /\ MaxFolders \in Nat
    BY CountsFinite, FS_CardinalityType, EngagementAssumption
  <2> QED
    BY <2>1, <2>2
<1>2. IInv => FiledAtHome
  BY <1>1 DEF IInv, Filing, FiledAtHome
<1> QED
  BY <1>2, Invariance, PTL

\* Which steps may let the counter fall behind.
LEMMA BehindStep ==
  ASSUME IInv, [Next]_vars, Cardinality(Standing)' - replyCount' # Cardinality(Standing) - replyCount
  PROVE  \E x \in Replies : /\ reply[x].status = "DELETED"
                            /\ \/ reply'[x].status = "HIDDEN"
                               \/ \E r \in Requests : request[r].pc = "unreply" /\ request[r].want = x
<1>1. ~ UNCHANGED replies
  BY DEF replies, Standing
<1>2. ~CreatesReply
  BY CreateReplyInv DEF CreatesReply
<1>3. ASSUME NEW r \in Requests
      PROVE  ~Look(r) /\ ~Toggle(r) /\ ~File(r) /\ ~Abort(r) /\ (Discuss(r) => DeletesReply)
  <2>1. ~Look(r) /\ ~Abort(r)
    BY <1>1 DEF Look, LookReaction, LookBoost, LookSave, Start, Abort
  <2>2. ~Toggle(r)
    BY <1>1 DEF Toggle, Create, Swap, Delete
  <2>3. ~File(r)
    BY <1>1 DEF File, CountFolders, CreateFolder, LookMove, Move, Start
  <2>4. Discuss(r) => DeletesReply
    BY <1>1, <1>2 DEF Discuss, LookReply, LookDelete, Start, CreatesReply, DeletesReply
  <2> QED
    BY <2>1, <2>2, <2>3, <2>4
<1>4. DeletesReply \/ JudgesReply
  <2>1. ~UNCHANGED vars
    BY <1>1 DEF vars, replies
  <2>2. \A f \in Folders : ~DeleteFolder(f) /\ \A name \in Names : ~Rename(f, name)
    BY <1>1 DEF DeleteFolder, Rename
  <2>3. \A status \in {"VISIBLE", "HIDDEN", "DELETED"} : ~SetPost(status)
    BY <1>1 DEF SetPost
  <2> QED
    BY <1>3, <2>1, <2>2, <2>3 DEF Next, JudgesReply
<1>5. CASE DeletesReply
  <2>1. PICK r \in Requests : DeleteReply(r)
    BY <1>5 DEF DeletesReply
  <2>2. request[r].want \in Replies /\ reply[request[r].want].status = "DELETED"
    BY <2>1, DeleteReplyInv
  <2> QED
    BY <2>1, <2>2 DEF DeleteReply
<1>6. CASE JudgesReply
  <2>1. PICK x \in Replies : HideReply(x) \/ RestoreReply(x)
    BY <1>6 DEF JudgesReply
  <2> QED
    BY <2>1, JudgeReplyInv
<1> QED
  BY <1>4, <1>5, <1>6

\* reply_count is never above the replies that stand, and only deleting a reply
\* twice, or hiding a deleted one, takes it further below (reply.service.ts and
\* the verdicts of report.service.ts).
THEOREM ReplyCountCorrect == Spec => ReplyCountOnlyFallsBehind
<1>1. IInv => replyCount <= Cardinality(Standing)
  BY DEF IInv, Behind
<1>2. IInv /\ [Next]_vars =>
        [Cardinality(Standing)' - replyCount' # Cardinality(Standing) - replyCount =>
           \E x \in Replies : /\ reply[x].status = "DELETED"
                              /\ \/ reply'[x].status = "HIDDEN"
                                 \/ \E r \in Requests : request[r].pc = "unreply" /\ request[r].want = x
        ]_vars
  BY BehindStep
<1> QED
  BY <1>1, <1>2, Invariance, PTL DEF Spec, ReplyCountOnlyFallsBehind
=============================================================================
