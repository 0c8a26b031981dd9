---------------------------- MODULE EventReminders --------------------------
(* The reminders of one event: EventReminderCron, the RSVPs it reads and the *)
(* send-once table it writes.  A run goes through the kinds of reminder; for *)
(* each it finds the event and its RSVPs, and for each member inserts a      *)
(* row of event_reminder_sends and then, in a statement of its own, the      *)
(* notification.  The hourly run holds the lock; an operator's does not.     *)
(* Runs fail, are skipped and are slow, and the catalogue moves the event.   *)
EXTENDS Integers, FiniteSets

CONSTANTS Users,
          Cron,          \* the hourly run, of whichever replica has the lock
          Ops,           \* runs started by operators
          NoOne,         \* whom a run is about to notify when it is not
          HOUR, DAY,     \* in units of time
          D1_WINDOW, H1_WINDOW, RP_WINDOW,
          STATUS_COMPLETE_AFTER,
          Starts,        \* the times the catalogue gives for the event
          Horizon,       \* bound on time
          MaxRun,        \* bound on how long a run takes
          MaxFailures    \* bound on the runs that fail

Runs == {Cron} \cup Ops
Kinds == {"D1", "H1", "REVIEW_PROMPT"}

ASSUME EventRemindersAssumption ==
  /\ IsFiniteSet(Users)
  /\ IsFiniteSet(Ops)
  /\ NoOne \notin Users
  /\ HOUR \in Nat \ {0} /\ DAY \in Nat \ {0}
  /\ D1_WINDOW \in Nat /\ H1_WINDOW \in Nat /\ RP_WINDOW \in Nat
  /\ STATUS_COMPLETE_AFTER \in Nat
  /\ Horizon \in Nat /\ MaxRun \in Nat /\ MaxFailures \in Nat
  /\ Starts \subseteq Nat

\* Half an hour each way leaves no gap between hours, and is over long before
\* the event is taken for completed.
ASSUME WindowAssumption ==
  /\ HOUR <= 2 * D1_WINDOW + 1
  /\ D1_WINDOW <= DAY + STATUS_COMPLETE_AFTER

VARIABLES now,
          event,    \* event_cards: when it starts, and its status
          rsvp,     \* event_rsvps; INTERESTED stands for GOING as well
          sends,    \* event_reminder_sends
          notified, \* how many notifications of a kind a member got
          run,      \* the runs in progress
          ticked,   \* this hour's tick has begun
          failures, \* how many runs have failed
          smooth,   \* no run failed, each hour's ended in it, the event stood still
          early     \* members interested since before the D-1 window opened

vars == <<now, event, rsvp, sends, notified, run, ticked, failures, smooth, early>>

AtKind(kind, at) == [pc |-> "events", at |-> at, kind |-> kind, due |-> {}, user |-> NoOne]
Idle == [pc |-> "idle", at |-> 0, kind |-> "D1", due |-> {}, user |-> NoOne]

Init ==
  /\ now = 0
  /\ event \in [starts : Starts, status : {"UPCOMING"}]
  /\ rsvp = [u \in Users |-> "NONE"]
  /\ sends = {}
  /\ notified = [x \in Users \X Kinds |-> 0]
  /\ run = [t \in Runs |-> Idle]
  /\ ticked = FALSE
  /\ failures = 0
  /\ smooth = TRUE
  /\ early = {}

-----------------------------------------------------------------------------
\* Members and the catalogue.
NoRun == UNCHANGED <<sends, notified, run, ticked, failures>>

BeforeD1 == now < event.starts - DAY - D1_WINDOW

\* setRsvp; only what has begun or is over can have been attended.
SetRsvp(u, status) ==
  /\ status = "ATTENDED" => event.status = "COMPLETED" \/ event.starts <= now
  /\ rsvp' = [rsvp EXCEPT ![u] = status]
  /\ early' = IF status = "INTERESTED"
              THEN IF BeforeD1 THEN early \cup {u} ELSE early
              ELSE early \ {u}
  /\ NoRun
  /\ UNCHANGED <<now, event, smooth>>

RemoveRsvp(u) ==
  /\ rsvp' = [rsvp EXCEPT ![u] = "NONE"]
  /\ early' = early \ {u}
  /\ NoRun
  /\ UNCHANGED <<now, event, smooth>>

\* upsertFromExternal takes over whatever the catalogue says.
Sync(starts, status) ==
  /\ event' = [starts |-> starts, status |-> status]
  /\ smooth' = (smooth /\ event' = event)
  /\ NoRun
  /\ UNCHANGED <<now, rsvp, early>>

\* Faulty variant of RunStatusRefresh: a status nobody asks for.
RunStatusRefreshLive ==
  /\ event.status = "UPCOMING"
  /\ event.starts < now
  /\ event' = [event EXCEPT !.status = "IN_PROGRESS"]
  /\ NoRun
  /\ UNCHANGED <<now, rsvp, smooth, early>>

RunStatusRefresh ==
  /\ event.status = "UPCOMING"
  /\ event.starts < now - STATUS_COMPLETE_AFTER
  /\ event' = [event EXCEPT !.status = "COMPLETED"]
  /\ NoRun
  /\ UNCHANGED <<now, rsvp, smooth, early>>

-----------------------------------------------------------------------------
\* Runs of runReminderTick.
NoNews == UNCHANGED <<now, event, rsvp, early>>

\* The tick on the hour, unless the last one still has the lock.
HourlyTick ==
  /\ now % HOUR = 0
  /\ ~ticked
  /\ run[Cron].pc = "idle"
  /\ ticked' = TRUE
  /\ run' = [run EXCEPT ![Cron] = AtKind("D1", now)]
  /\ UNCHANGED <<sends, notified, failures, smooth>>
  /\ NoNews

OpsRun(t) ==
  /\ run[t].pc = "idle"
  /\ run' = [run EXCEPT ![t] = AtKind("D1", now)]
  /\ UNCHANGED <<sends, notified, ticked, failures, smooth>>
  /\ NoNews

\* A run goes on to the next kind, or ends.
NextKind(t) ==
  run' = [run EXCEPT ![t] =
    CASE @.kind = "D1" -> AtKind("H1", @.at)
      [] @.kind = "H1" -> AtKind("REVIEW_PROMPT", @.at)
      [] OTHER -> Idle]

Around(time, window) == time - window .. time + window

\* Faulty variant of Target: the window of the D-1 reminder is that of the H-1.
TargetNarrow(kind, at) ==
  CASE kind = "D1" -> Around(at + DAY, H1_WINDOW)
    [] kind = "H1" -> Around(at + HOUR, H1_WINDOW)
    [] OTHER -> Around(at - DAY, RP_WINDOW)

\* When the events a kind is for start.
Target(kind, at) ==
  CASE kind = "D1" -> Around(at + DAY, D1_WINDOW)
    [] kind = "H1" -> Around(at + HOUR, H1_WINDOW)
    [] OTHER -> Around(at - DAY, RP_WINDOW)

Concerned(kind, at) ==
  /\ event.starts \in Target(kind, at)
  /\ kind # "REVIEW_PROMPT" => event.status = "UPCOMING"

Audience(kind) ==
  {u \in Users : rsvp[u] = IF kind = "REVIEW_PROMPT" THEN "ATTENDED" ELSE "INTERESTED"}

\* _fanoutKind and _fanoutReviewPrompt, their two queries: the events of the
\* window and, for one that is found, its RSVPs.
FindAudience(t) ==
  /\ run[t].pc = "events"
  /\ IF Concerned(run[t].kind, run[t].at) /\ Audience(run[t].kind) # {}
     THEN run' = [run EXCEPT ![t] =
            [pc |-> "sending", at |-> @.at, kind |-> @.kind,
             due |-> Audience(@.kind), user |-> NoOne]]
     ELSE NextKind(t)
  /\ UNCHANGED <<sends, notified, ticked, failures, smooth>>
  /\ NoNews

\* What a run has left to do for its kind, about to notify u.
Left(t, u) ==
  [pc |-> IF u = NoOne THEN "sending" ELSE "notifying", at |-> run[t].at,
   kind |-> run[t].kind, due |-> run[t].due \ {u}, user |-> u]

\* Faulty variant of RecordSend: whether the row is there is not looked at.
RecordAnyway(t, u) ==
  /\ run[t].pc = "sending"
  /\ u \in run[t].due
  /\ sends' = sends \cup {<<u, run[t].kind>>}
  /\ run' = [run EXCEPT ![t] = Left(t, u)]
  /\ UNCHANGED <<notified, ticked, failures, smooth>>
  /\ NoNews

\* Faulty variant of RecordSend: the whole batch is recorded first.
RecordBatch(t, u) ==
  /\ run[t].pc = "sending"
  /\ u \in run[t].due
  /\ <<u, run[t].kind>> \notin sends
  /\ sends' = sends \cup run[t].due \X {run[t].kind}
  /\ run' = [run EXCEPT ![t] = Left(t, u)]
  /\ UNCHANGED <<notified, ticked, failures, smooth>>
  /\ NoNews

\* _tryRecordSend: the run that inserts the row owns the send.
RecordSend(t, u) ==
  /\ run[t].pc = "sending"
  /\ u \in run[t].due
  /\ <<u, run[t].kind>> \notin sends
  /\ sends' = sends \cup {<<u, run[t].kind>>}
  /\ run' = [run EXCEPT ![t] = Left(t, u)]
  /\ UNCHANGED <<notified, ticked, failures, smooth>>
  /\ NoNews

AlreadySent(t, u) ==
  /\ run[t].pc = "sending"
  /\ u \in run[t].due
  /\ <<u, run[t].kind>> \in sends
  /\ run' = [run EXCEPT ![t] =
       [pc |-> "sending", at |-> @.at, kind |-> @.kind, due |-> @.due \ {u}, user |-> NoOne]]
  /\ UNCHANGED <<sends, notified, ticked, failures, smooth>>
  /\ NoNews

Notify(t) ==
  /\ run[t].pc = "notifying"
  /\ notified' = [notified EXCEPT ![<<run[t].user, run[t].kind>>] = @ + 1]
  /\ run' = [run EXCEPT ![t] = Left(t, NoOne)]
  /\ UNCHANGED <<sends, ticked, failures, smooth>>
  /\ NoNews

FinishKind(t) ==
  /\ run[t].pc = "sending"
  /\ run[t].due = {}
  /\ NextKind(t)
  /\ UNCHANGED <<sends, notified, ticked, failures, smooth>>
  /\ NoNews

\* A query throws or the process dies; the rest of the run is not made up for.
Fail(t) ==
  /\ run[t].pc # "idle"
  /\ failures < MaxFailures
  /\ failures' = failures + 1
  /\ smooth' = FALSE
  /\ run' = [run EXCEPT ![t] = Idle]
  /\ UNCHANGED <<sends, notified, ticked>>
  /\ NoNews

AllIdle == \A t \in Runs : run[t].pc = "idle"

\* Time passes; an hour whose tick has not begun goes without.
Advance ==
  /\ now < Horizon
  /\ \A t \in Runs : run[t].pc # "idle" => now < run[t].at + MaxRun
  /\ now' = now + 1
  /\ ticked' = FALSE
  /\ smooth' = (smooth /\ AllIdle /\ (now % HOUR = 0 => ticked))
  /\ UNCHANGED <<event, rsvp, sends, notified, run, failures, early>>

Next ==
  \/ \E u \in Users :
       \/ \E status \in {"INTERESTED", "ATTENDED"} : SetRsvp(u, status)
       \/ RemoveRsvp(u)
  \/ \E starts \in Starts, status \in {"UPCOMING", "COMPLETED"} : Sync(starts, status)
  \/ RunStatusRefresh
  \/ HourlyTick
  \/ \E t \in Ops : OpsRun(t)
  \/ \E t \in Runs :
       \/ FindAudience(t)
       \/ \E u \in Users : RecordSend(t, u) \/ AlreadySent(t, u)
       \/ Notify(t)
       \/ FinishKind(t)
       \/ Fail(t)
  \/ Advance

Spec == Init /\ [][Next]_vars

-----------------------------------------------------------------------------
RunType == [pc : {"idle", "events", "sending", "notifying"}, at : Nat,
            kind : Kinds, due : SUBSET Users, user : Users \cup {NoOne}]

\* Every column and every local of a run has its type.
TypeOK ==
  /\ now \in 0 .. Horizon
  /\ event \in [starts : Starts, status : {"UPCOMING", "COMPLETED"}]
  /\ rsvp \in [Users -> {"NONE", "INTERESTED", "ATTENDED"}]
  /\ sends \subseteq Users \X Kinds
  /\ notified \in [Users \X Kinds -> Nat]
  /\ run \in [Runs -> RunType]
  /\ ticked \in BOOLEAN
  /\ failures \in 0 .. MaxFailures
  /\ smooth \in BOOLEAN
  /\ early \subseteq Users

\* Whatever runs at the same time, fails, or is run again, and wherever the
\* event is moved, nobody is notified twice of one kind, nor without a record.
OnceEach ==
  \A x \in Users \X Kinds : notified[x] <= 1 /\ (notified[x] = 1 => x \in sends)

Unnotified == {x \in sends : notified[x] = 0}
Notifying == {t \in Runs : run[t].pc = "notifying"}

\* A run that fails loses one member's reminder at most: the recorded sends
\* without a notification are no more than the runs about to make theirs and
\* those that have failed.
OneLostPerFailure ==
  Cardinality(Unnotified) <= Cardinality(Notifying) + failures

\* If no run has failed, every tick ran through in its hour and the event was
\* not moved, then everyone interested since before the D-1 window opened has
\* their reminder recorded when it has closed, wherever between the hours the
\* event starts.
EveryoneReminded ==
  smooth /\ now > event.starts - DAY + D1_WINDOW =>
    \A u \in early : <<u, "D1">> \in sends

=============================================================================
