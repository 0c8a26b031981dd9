---------------------------- MODULE MCEngagement ----------------------------
(* Engagement for two members, two requests at a time, and a cap of one       *)
(* collection.  Marks, collections and replies are rows of different tables,  *)
(* which meet in bookmarks alone; an instance in which all three move at once *)
(* shows no more than one that looks at each in turn, for which it is chosen  *)
(* at the start what members are up to.                                       *)
EXTENDS Engagement, TLC

VARIABLE agenda

MCInit == Init /\ agenda \in {"marks", "collections", "replies"}

Mark ==
  /\ agenda = "marks"
  /\ \E r \in Requests : Look(r) \/ Toggle(r)

Collect ==
  /\ agenda = "collections"
  /\ \/ \E r \in Requests : File(r) \/ Toggle(r) \/ \E u \in Members : LookSave(r, u)
     \/ \E f \in Folders : DeleteFolder(f) \/ \E name \in Names : Rename(f, name)

Talk ==
  /\ agenda = "replies"
  /\ \/ \E r \in Requests : Discuss(r)
     \/ \E x \in Replies : HideReply(x) \/ RestoreReply(x)

Moderate ==
  /\ agenda # "collections"
  /\ \E status \in {"VISIBLE", "HIDDEN", "DELETED"} : SetPost(status)

MCNext ==
  /\ Mark \/ Collect \/ Talk \/ Moderate \/ \E r \in Requests : Abort(r)
  /\ UNCHANGED agenda

MCSpec == MCInit /\ [][MCNext]_<<vars, agenda>>

Symmetric == Permutations(Members) \cup Permutations(Requests) \cup Permutations(Names)
=============================================================================
