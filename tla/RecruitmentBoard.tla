-------------------------- MODULE RecruitmentBoard --------------------------
(* What a recruitment post shows to the rest of the club: whether the post   *)
(* can be read, the status its author announces (the JSON column every list, *)
(* the DM gate and the DM cron read), and each member's application.  Every  *)
(* operation is one step here.  RecruitmentPromise.tla adds what a decision  *)
(* writes besides, for Recruitment.tla to implement with its requests, reads *)
(* and transactions; DmChannels.tla is built on this module.                 *)
CONSTANTS Applicants

VARIABLES post,   \* the post's status
          legacy, \* recruitmentFields.status, the author-canonical one
          app     \* the applications' status, by applicant

board == <<post, legacy, app>>

PostStatuses == {"VISIBLE", "HIDDEN", "DELETED"}
RecruitmentStatuses == {"OPEN", "CLOSED", "FILLED"}
Decisions == {"ACCEPTED", "REJECTED"}
AppStatuses == {"ABSENT", "PENDING", "WITHDRAWN"} \cup Decisions

Init ==
  /\ post \in {"VISIBLE", "HIDDEN"}
  /\ legacy \in RecruitmentStatuses
  /\ app = [u \in Applicants |-> "ABSENT"]

Put(u, status) == app' = [app EXCEPT ![u] = status]

Applied(u) == Put(u, "PENDING") /\ UNCHANGED <<post, legacy>>

Withdrawn(u) ==
  /\ app[u] = "PENDING"
  /\ Put(u, "WITHDRAWN")
  /\ UNCHANGED <<post, legacy>>

\* An acceptance may fill the recruitment.
Decided(u, decision, fills) ==
  /\ app[u] # "ABSENT"
  /\ fills => decision = "ACCEPTED"
  /\ Put(u, decision)
  /\ legacy' = IF fills THEN "FILLED" ELSE legacy
  /\ UNCHANGED post

\* setRecruitmentStatus: from any status to any other, unless deleted.
SetRecruitmentStatus(status) ==
  /\ post # "DELETED"
  /\ legacy' = status
  /\ UNCHANGED <<post, app>>

SoftDelete == post # "DELETED" /\ post' = "DELETED" /\ UNCHANGED <<legacy, app>>

\* A resolved report hides any post, and restores only a hidden one.
Hide == post' = "HIDDEN" /\ UNCHANGED <<legacy, app>>
Restore == post = "HIDDEN" /\ post' = "VISIBLE" /\ UNCHANGED <<legacy, app>>

Manage ==
  \/ \E status \in RecruitmentStatuses : SetRecruitmentStatus(status)
  \/ SoftDelete
  \/ Hide
  \/ Restore

Apply == \E u \in Applicants : Applied(u)
Withdraw == \E u \in Applicants : Withdrawn(u)
Decide ==
  \E u \in Applicants, decision \in Decisions, fills \in BOOLEAN :
    Decided(u, decision, fills)

Next == Apply \/ Withdraw \/ Decide \/ Manage
=============================================================================
