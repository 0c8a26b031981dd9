------------------------------- MODULE MCRaces ------------------------------
(* The two services that look and then insert, one of which is chosen at the  *)
(* start.  Polls for one member, members being independent of each other, and *)
(* three options, so that two requests can race for two of them while the     *)
(* third has a vote; five uuids are enough for the rows and what requests     *)
(* hold.  Inbox with four actors and a cap of two, so that actors are cut off *)
(* and come back, and two calls at a time; two rows are one for each call of  *)
(* a race, or one before and one after a read or the end of the window.       *)
EXTENDS Polls, Inbox, TLC

VARIABLE setting

RacesInit == PollInit /\ Init /\ setting \in {"poll", "inbox"}

RacesNext ==
  /\ \/ setting = "poll" /\ PollNext /\ UNCHANGED vars
     \/ setting = "inbox" /\ Next /\ UNCHANGED pollVars
  /\ UNCHANGED setting

RacesSpec == RacesInit /\ [][RacesNext]_<<pollVars, vars, setting>>

Symmetric == Permutations(Actors) \cup Permutations(Requests)
=============================================================================
