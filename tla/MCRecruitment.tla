---------------------------- MODULE MCRecruitment ---------------------------
(* Recruitment with room for two, or no limit, three applicants and two      *)
(* requests at a time: enough for two decisions on one application, on two   *)
(* applications for the last seat with a third one left to see it still open, *)
(* and a decision against a new application.                                 *)
EXTENDS Recruitment, TLC

Symmetric == Permutations(Applicants) \cup Permutations(Requests)

MCCapacities == {2, NoCapacity}
=============================================================================
