--------------------------- MODULE MCEventReminders -------------------------
(* The event in half hours, with a day of two hours: the windows are as wide  *)
(* as in the code, the H-1 window, of ten minutes, one instant, and the       *)
(* windows of the three kinds still come one after the other.  The event      *)
(* starts on the hour or at half past.  One of three settings is chosen at    *)
(* the start: the reminders, an operator's run beside the cron's; the notices  *)
(* of a change, two calls at a time; what members write on the page.          *)
EXTENDS EventPages, TLC

VARIABLE setting

Symmetric == Permutations(Users)

MCInit ==
  /\ Init /\ InitPages
  /\ setting \in {"reminders", "updates", "page"}
  /\ setting # "reminders" => event.starts = 0

\* RSVPs are given and taken back before the last hour.
Reminders ==
  /\ setting = "reminders"
  /\ Next
  /\ rsvp' = rsvp \/ now < Horizon - 1
  /\ UNCHANGED pages

Time == Advance /\ UNCHANGED pages

Updates ==
  /\ setting = "updates"
  /\ \/ \E s \in Syncs : \/ \E starts \in Starts : GetById(s, starts, "UPCOMING")
                         \/ OnItsWay(s)
     \/ now < 4 /\ Time
     \/ /\ \A u \in Users : rsvp[u] = "NONE"   \* one member at a time: notices are each member's own
        /\ \E u \in Users : SetRsvp(u, "INTERESTED")
        /\ UNCHANGED pages

OnPage ==
  /\ setting = "page"
  /\ \/ \E q \in Pages : Page(q)
     \/ Content
     \/ Time
     \/ /\ \/ \E u \in Users : RemoveRsvp(u) \/ SetRsvp(u, "ATTENDED")
           \/ \E starts \in Starts : Sync(starts, event.status)
           \/ RunStatusRefresh
        /\ UNCHANGED pages

MCNext == (Reminders \/ Updates \/ OnPage) /\ UNCHANGED setting

MCSpec == MCInit /\ [][MCNext]_<<card, pages, setting>>
=============================================================================
