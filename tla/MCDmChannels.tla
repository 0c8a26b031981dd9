----------------------------- MODULE MCDmChannels ---------------------------
(* DmChannels on one channel at a time, channels being independent of each    *)
(* other: an applicant's, beside a recruitment whose author toggles, hides    *)
(* and deletes it at will, or a proposal's; which, is chosen at the start.  A  *)
(* grace of two days leaves room for ticks before, at and after the cutoff,   *)
(* and for skipped ones.                                                      *)
EXTENDS DmChannels

VARIABLE setting

MCInit == DmInit /\ setting \in {"recruitment", "proposal"}

MCNext ==
  /\ DmNext
  /\ setting = "recruitment" => UNCHANGED sentBack
  /\ setting = "proposal" => UNCHANGED <<post, legacy, app>>
  /\ UNCHANGED setting

MCSpec == MCInit /\ [][MCNext]_<<dmVars, setting>> /\ DmFairness
=============================================================================
