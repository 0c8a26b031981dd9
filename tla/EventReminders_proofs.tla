----------------------- MODULE EventReminders_proofs ------------------------
(* EventReminders for any members, runs, windows and bounds: its types, that *)
(* nobody is notified twice of one kind, that each failing run loses one     *)
(* reminder at most, and that nobody is forgotten while all goes well.  And  *)
(* EventPages: how close notices of a change may come, when a recap may be   *)
(* too early, and that a review that was deleted stays off the page.         *)
EXTENDS EventPages, FiniteSetTheorems, TLAPS

Owned(t) == <<run[t].user, run[t].kind>>

\* A run about to notify has inserted the row that makes the send its own.
OwnersOK ==
  /\ \A t \in Notifying :
       run[t].user \in Users /\ Owned(t) \in sends /\ notified[Owned(t)] = 0
  /\ \A s, t \in Notifying : Owned(s) = Owned(t) => s = t

IInv == TypeOK /\ OwnersOK /\ OnceEach /\ OneLostPerFailure

-----------------------------------------------------------------------------
LEMMA KindsFinite == IsFiniteSet(Kinds) /\ IsFiniteSet(Runs)
<1>1. IsFiniteSet({}) /\ \A x : IsFiniteSet({x})
  BY FS_EmptySet, FS_Singleton
<1>2. IsFiniteSet({"D1"} \cup {"H1"})
  BY <1>1, FS_Union
<1>3. IsFiniteSet(({"D1"} \cup {"H1"}) \cup {"REVIEW_PROMPT"})
  BY <1>1, <1>2, FS_Union
<1>4. Kinds = ({"D1"} \cup {"H1"}) \cup {"REVIEW_PROMPT"}
  BY DEF Kinds
<1>5. IsFiniteSet({Cron} \cup Ops)
  BY <1>1, EventRemindersAssumption, FS_Union
<1> QED
  BY <1>3, <1>4, <1>5 DEF Runs

\* Both sides of the count of lost reminders are about finite sets.
LEMMA CountsFinite == TypeOK => IsFiniteSet(Unnotified) /\ IsFiniteSet(Notifying)
<1> SUFFICES ASSUME TypeOK PROVE IsFiniteSet(Unnotified) /\ IsFiniteSet(Notifying)
  OBVIOUS
<1>1. IsFiniteSet(Users \X Kinds)
  BY KindsFinite, EventRemindersAssumption, FS_Product
<1>2. Unnotified \subseteq Users \X Kinds /\ Notifying \subseteq Runs
  BY DEF TypeOK, Unnotified, Notifying
<1> QED
  BY <1>1, <1>2, KindsFinite, FS_Subset

LEMMA InitInv == Init => IInv
<1> SUFFICES ASSUME Init PROVE IInv
  OBVIOUS
<1> USE DEF Init
<1>1. TypeOK
  <2>1. Idle = [pc |-> "idle", at |-> 0, kind |-> "D1", due |-> {}, user |-> NoOne]
    BY DEF Idle
  <2>2. Idle \in RunType
    BY <2>1 DEF RunType, Kinds
  <2>3. now \in 0 .. Horizon /\ failures \in 0 .. MaxFailures
    BY EventRemindersAssumption
  <2>4. event \in [starts : Starts, status : {"UPCOMING", "COMPLETED"}]
    OBVIOUS
  <2> QED
    BY <2>2, <2>3, <2>4 DEF TypeOK
<1>2. Notifying = {} /\ Unnotified = {}
  BY DEF Notifying, Unnotified, Idle, AtKind
<1>3. OwnersOK /\ OnceEach
  BY <1>2 DEF OwnersOK, OnceEach
<1>4. OneLostPerFailure
  BY <1>2, FS_EmptySet DEF OneLostPerFailure
<1> QED
  BY <1>1, <1>3, <1>4 DEF IInv

\* Steps that record and notify nothing, and leave the runs that are about to
\* notify alone.
LEMMA QuietInv ==
  ASSUME IInv, TypeOK', UNCHANGED <<sends, notified, failures>>,
         \A t \in Runs : \/ run'[t] = run[t]
                         \/ run[t].pc # "notifying" /\ run'[t].pc # "notifying"
  PROVE  IInv'
<1> USE DEF IInv
<1>1. Unnotified' = Unnotified
  BY DEF Unnotified
<1>2. Notifying' = Notifying /\ \A t \in Notifying : run'[t] = run[t]
  BY DEF Notifying
<1>3. OwnersOK'
  BY <1>2 DEF OwnersOK, Owned
<1>4. OnceEach'
  BY DEF OnceEach
<1>5. OneLostPerFailure'
  BY <1>1, <1>2 DEF OneLostPerFailure
<1> QED
  BY <1>3, <1>4, <1>5

\* Going on to the next kind.
LEMMA NextKindOK ==
  ASSUME TypeOK, NEW t \in Runs, NextKind(t)
  PROVE  /\ run' \in [Runs -> RunType]
         /\ run'[t].pc # "notifying"
         /\ \A s \in Runs \ {t} : run'[s] = run[s]
<1>1. run[t].at \in Nat
  BY DEF TypeOK, RunType
<1>2. \/ run' = [run EXCEPT ![t] = AtKind("H1", run[t].at)]
      \/ run' = [run EXCEPT ![t] = AtKind("REVIEW_PROMPT", run[t].at)]
      \/ run' = [run EXCEPT ![t] = Idle]
  BY DEF NextKind
<1>3. ASSUME NEW next \in RunType, next.pc # "notifying", run' = [run EXCEPT ![t] = next]
      PROVE  /\ run' \in [Runs -> RunType]
             /\ run'[t].pc # "notifying"
             /\ \A s \in Runs \ {t} : run'[s] = run[s]
  BY <1>3 DEF TypeOK
<1>4. /\ Idle \in RunType /\ Idle.pc # "notifying"
      /\ \A kind \in Kinds : /\ AtKind(kind, run[t].at) \in RunType
                             /\ AtKind(kind, run[t].at).pc # "notifying"
  BY <1>1 DEF RunType, AtKind, Idle, Kinds
<1> QED
  BY <1>2, <1>3, <1>4 DEF Kinds

-----------------------------------------------------------------------------
LEMMA SetRsvpInv ==
  ASSUME IInv, NEW u \in Users, NEW status \in {"INTERESTED", "ATTENDED"}, SetRsvp(u, status)
  PROVE  IInv'
<1>1. TypeOK'
  BY DEF IInv, TypeOK, SetRsvp, NoRun
<1> QED
  BY <1>1, QuietInv DEF SetRsvp, NoRun

LEMMA RemoveRsvpInv ==
  ASSUME IInv, NEW u \in Users, RemoveRsvp(u)
  PROVE  IInv'
<1>1. TypeOK'
  BY DEF IInv, TypeOK, RemoveRsvp, NoRun
<1> QED
  BY <1>1, QuietInv DEF RemoveRsvp, NoRun

LEMMA SyncInv ==
  ASSUME IInv, NEW starts \in Starts, NEW status \in {"UPCOMING", "COMPLETED"},
         Sync(starts, status)
  PROVE  IInv'
<1>1. TypeOK'
  BY DEF IInv, TypeOK, Sync, NoRun
<1> QED
  BY <1>1, QuietInv DEF Sync, NoRun

LEMMA RunStatusRefreshInv ==
  ASSUME IInv, RunStatusRefresh
  PROVE  IInv'
<1>1. TypeOK'
  BY DEF IInv, TypeOK, RunStatusRefresh, NoRun
<1> QED
  BY <1>1, QuietInv DEF RunStatusRefresh, NoRun

LEMMA StartInv ==
  ASSUME IInv, NEW t \in Runs, run[t].pc = "idle", ticked' \in BOOLEAN,
         run' = [run EXCEPT ![t] = AtKind("D1", now)],
         UNCHANGED <<sends, notified, failures, smooth>>, NoNews
  PROVE  IInv'
<1>1. AtKind("D1", now) \in RunType
  BY DEF IInv, TypeOK, AtKind, RunType, Kinds
<1>2. TypeOK'
  BY <1>1 DEF IInv, TypeOK, NoNews
<1>3. \A s \in Runs : run'[s] = run[s] \/ (s = t /\ run'[s].pc = "events")
  BY DEF IInv, TypeOK, AtKind
<1> QED
  BY <1>2, <1>3, QuietInv

LEMMA FindAudienceInv ==
  ASSUME IInv, NEW t \in Runs, FindAudience(t)
  PROVE  IInv'
<1>1. /\ run[t].pc = "events"
      /\ UNCHANGED <<sends, notified, ticked, failures, smooth>>
      /\ UNCHANGED <<now, event, rsvp, early>>
  BY DEF FindAudience, NoNews
<1>2. TypeOK
  BY DEF IInv
<1>3. CASE NextKind(t)
  <2>1. TypeOK'
    BY <1>1, <1>2, <1>3, NextKindOK DEF TypeOK
  <2> QED
    BY <1>1, <1>2, <1>3, <2>1, NextKindOK, QuietInv
<1>4. CASE run' = [run EXCEPT ![t] =
             [pc |-> "sending", at |-> run[t].at, kind |-> run[t].kind,
              due |-> Audience(run[t].kind), user |-> NoOne]]
  <2>1. Audience(run[t].kind) \subseteq Users
    BY DEF Audience
  <2>2. run' \in [Runs -> RunType]
    BY <1>2, <1>4, <2>1 DEF TypeOK, RunType
  <2>3. TypeOK'
    BY <1>1, <1>2, <2>2 DEF TypeOK
  <2>4. \A s \in Runs : run'[s] = run[s] \/ (s = t /\ run'[s].pc = "sending")
    BY <1>2, <1>4 DEF TypeOK
  <2> QED
    BY <1>1, <2>3, <2>4, QuietInv
<1> QED
  BY <1>3, <1>4 DEF FindAudience

\* The run that inserts the row is one more that is about to notify.
LEMMA RecordSendInv ==
  ASSUME IInv, NEW t \in Runs, NEW u \in Users, RecordSend(t, u)
  PROVE  IInv'
<1> USE DEF IInv
<1> DEFINE x == <<u, run[t].kind>>
<1>1. /\ run[t].pc = "sending"
      /\ x \notin sends
      /\ sends' = sends \cup {x}
      /\ run' = [run EXCEPT ![t] = Left(t, u)]
      /\ UNCHANGED <<now, event, rsvp, notified, ticked, failures, smooth, early>>
  BY DEF RecordSend, NoNews
<1>2. /\ Left(t, u).pc = "notifying"
      /\ Left(t, u).user = u
      /\ Left(t, u).kind = run[t].kind
      /\ Left(t, u) \in RunType
  BY EventRemindersAssumption DEF Left, TypeOK, RunType
<1>3. x \in Users \X Kinds
  BY DEF TypeOK, RunType
<1>4. TypeOK'
  BY <1>1, <1>2, <1>3 DEF TypeOK
<1>5. notified[x] = 0
  BY <1>1, <1>3 DEF OnceEach, TypeOK
<1>6. /\ t \notin Notifying
      /\ Notifying' = Notifying \cup {t}
      /\ run'[t] = Left(t, u)
      /\ \A s \in Notifying : run'[s] = run[s]
  BY <1>1, <1>2 DEF Notifying, TypeOK
<1>7. Unnotified' = Unnotified \cup {x} /\ x \notin Unnotified
  BY <1>1, <1>5 DEF Unnotified
<1>8. OwnersOK'
  <2>1. Owned(t)' = x /\ \A s \in Notifying : Owned(s)' = Owned(s)
    BY <1>2, <1>6 DEF Owned
  <2>2. \A s \in Notifying : Owned(s) # x
    BY <1>1 DEF OwnersOK
  <2> QED
    BY <1>1, <1>2, <1>5, <1>6, <2>1, <2>2 DEF OwnersOK
<1>9. OnceEach'
  BY <1>1 DEF OnceEach
<1>10. OneLostPerFailure'
  <2>1. /\ Cardinality(Unnotified') = Cardinality(Unnotified) + 1
        /\ Cardinality(Notifying') = Cardinality(Notifying) + 1
    BY <1>6, <1>7, CountsFinite, FS_AddElement
  <2>2. /\ Cardinality(Unnotified) \in Nat
        /\ Cardinality(Notifying) \in Nat
    BY CountsFinite, FS_CardinalityType
  <2> QED
    BY <1>1, <2>1, <2>2 DEF OneLostPerFailure, TypeOK
<1> QED
  BY <1>4, <1>8, <1>9, <1>10

LEMMA AlreadySentInv ==
  ASSUME IInv, NEW t \in Runs, NEW u \in Users, AlreadySent(t, u)
  PROVE  IInv'
<1>1. /\ run[t].pc = "sending"
      /\ run' = [run EXCEPT ![t] = [pc |-> "sending", at |-> run[t].at, kind |-> run[t].kind,
                                    due |-> run[t].due \ {u}, user |-> NoOne]]
      /\ UNCHANGED <<sends, notified, ticked, failures, smooth>>
      /\ UNCHANGED <<now, event, rsvp, early>>
  BY DEF AlreadySent, NoNews
<1>2. run' \in [Runs -> RunType] /\ run'[t].pc = "sending"
  BY <1>1 DEF IInv, TypeOK, RunType
<1>3. TypeOK'
  BY <1>1, <1>2 DEF IInv, TypeOK
<1>4. \A s \in Runs : run'[s] = run[s] \/ s = t
  BY <1>1 DEF IInv, TypeOK
<1> QED
  BY <1>1, <1>2, <1>3, <1>4, QuietInv

\* The send a run owns has been made, and the run no longer owns it.
LEMMA NotifyInv ==
  ASSUME IInv, NEW t \in Runs, Notify(t)
  PROVE  IInv'
<1> USE DEF IInv
<1> DEFINE x == Owned(t)
<1>1. /\ run[t].pc = "notifying"
      /\ notified' = [notified EXCEPT ![x] = notified[x] + 1]
      /\ run' = [run EXCEPT ![t] = Left(t, NoOne)]
      /\ UNCHANGED <<now, event, rsvp, sends, ticked, failures, smooth, early>>
  BY DEF Notify, NoNews, Owned
<1>2. t \in Notifying
  BY <1>1 DEF Notifying
<1>3. x \in Users \X Kinds /\ x \in sends /\ notified[x] = 0
  BY <1>2 DEF OwnersOK, TypeOK, RunType, Owned
<1>4. Left(t, NoOne) \in RunType /\ Left(t, NoOne).pc = "sending"
  BY DEF Left, TypeOK, RunType
<1>5. TypeOK'
  BY <1>1, <1>3, <1>4 DEF TypeOK
<1>6. Notifying' = Notifying \ {t} /\ \A s \in Notifying' : run'[s] = run[s]
  BY <1>1, <1>4 DEF Notifying, TypeOK
<1>7. notified'[x] = 1 /\ \A y \in Users \X Kinds : y # x => notified'[y] = notified[y]
  BY <1>1, <1>3 DEF TypeOK
<1>8. Unnotified' = Unnotified \ {x} /\ x \in Unnotified
  BY <1>1, <1>3, <1>7 DEF Unnotified, TypeOK
<1>9. OwnersOK'
  <2>1. \A s \in Notifying' : Owned(s)' = Owned(s) /\ Owned(s) # x /\ s \in Notifying
    BY <1>2, <1>6 DEF OwnersOK, Owned
  <2>2. \A s \in Notifying : Owned(s) \in Users \X Kinds
    BY DEF OwnersOK, TypeOK
  <2> QED
    BY <1>1, <1>6, <1>7, <2>1, <2>2 DEF OwnersOK
<1>10. OnceEach'
  BY <1>1, <1>3, <1>7 DEF OnceEach
<1>11. OneLostPerFailure'
  <2>1. /\ Cardinality(Unnotified') = Cardinality(Unnotified) - 1
        /\ Cardinality(Notifying') = Cardinality(Notifying) - 1
    BY <1>2, <1>6, <1>8, CountsFinite, FS_RemoveElement
  <2>2. /\ Cardinality(Unnotified) \in Nat
        /\ Cardinality(Notifying) \in Nat
    BY CountsFinite, FS_CardinalityType
  <2> QED
    BY <1>1, <2>1, <2>2 DEF OneLostPerFailure, TypeOK
<1> QED
  BY <1>5, <1>9, <1>10, <1>11

LEMMA FinishKindInv ==
  ASSUME IInv, NEW t \in Runs, FinishKind(t)
  PROVE  IInv'
<1>1. /\ run[t].pc = "sending"
      /\ NextKind(t)
      /\ UNCHANGED <<sends, notified, ticked, failures, smooth>>
      /\ UNCHANGED <<now, event, rsvp, early>>
  BY DEF FinishKind, NoNews
<1>2. TypeOK'
  BY <1>1, NextKindOK DEF IInv, TypeOK
<1> QED
  BY <1>1, <1>2, NextKindOK, QuietInv DEF IInv

\* A failing run may have been about to notify: one more failure, one run less.
LEMMA FailInv ==
  ASSUME IInv, NEW t \in Runs, Fail(t)
  PROVE  IInv'
<1> USE DEF IInv
<1>1. /\ failures' = failures + 1
      /\ failures < MaxFailures
      /\ smooth' = FALSE
      /\ run' = [run EXCEPT ![t] = Idle]
      /\ UNCHANGED <<now, event, rsvp, sends, notified, ticked, early>>
  BY DEF Fail, NoNews
<1>2. Idle \in RunType /\ Idle.pc = "idle"
  BY DEF Idle, AtKind, RunType, Kinds
<1>3. TypeOK'
  <2>1. failures' \in 0 .. MaxFailures
    BY <1>1, EventRemindersAssumption DEF TypeOK
  <2>2. run' \in [Runs -> RunType]
    BY <1>1, <1>2 DEF TypeOK
  <2> QED
    BY <1>1, <2>1, <2>2 DEF TypeOK
<1>4. Notifying' = Notifying \ {t} /\ \A s \in Notifying' : run'[s] = run[s]
  BY <1>1, <1>2 DEF Notifying, TypeOK
<1>5. Unnotified' = Unnotified
  BY <1>1 DEF Unnotified
<1>6. OwnersOK'
  BY <1>1, <1>4 DEF OwnersOK, Owned
<1>7. OnceEach'
  BY <1>1 DEF OnceEach
<1>8. OneLostPerFailure'
  <2>1. /\ Cardinality(Notifying') >= Cardinality(Notifying) - 1
        /\ Cardinality(Notifying') \in Nat
    <3>1. /\ IsFiniteSet(Notifying')
          /\ Cardinality(Notifying') =
               IF t \in Notifying THEN Cardinality(Notifying) - 1 ELSE Cardinality(Notifying)
      BY <1>4, CountsFinite, FS_RemoveElement
    <3> QED
      BY <3>1, CountsFinite, FS_CardinalityType
  <2>2. /\ Cardinality(Unnotified) \in Nat
        /\ Cardinality(Notifying) \in Nat
    BY CountsFinite, FS_CardinalityType
  <2> QED
    BY <1>1, <1>5, <2>1, <2>2 DEF OneLostPerFailure, TypeOK
<1> QED
  BY <1>3, <1>6, <1>7, <1>8

LEMMA AdvanceInv ==
  ASSUME IInv, Advance
  PROVE  IInv'
<1>1. TypeOK'
  <2>1. now' \in 0 .. Horizon
    BY EventRemindersAssumption DEF IInv, TypeOK, Advance
  <2>2. smooth' \in BOOLEAN
    BY DEF IInv, TypeOK, Advance
  <2> QED
    BY <2>1, <2>2 DEF IInv, TypeOK, Advance
<1> QED
  BY <1>1, QuietInv DEF Advance

LEMMA StutterInv ==
  ASSUME IInv, UNCHANGED vars
  PROVE  IInv'
<1>1. TypeOK'
  BY DEF IInv, TypeOK, vars
<1> QED
  BY <1>1, QuietInv DEF vars

\* Every step preserves the invariant.
LEMMA NextInv == IInv /\ [Next]_vars => IInv'
<1> SUFFICES ASSUME IInv, [Next]_vars PROVE IInv'
  OBVIOUS
<1>1. CASE HourlyTick
  <2>1. Cron \in Runs
    BY DEF Runs
  <2> QED
    BY <1>1, <2>1, StartInv DEF HourlyTick
<1>2. ASSUME NEW t \in Ops, OpsRun(t) PROVE IInv'
  <2>1. t \in Runs /\ ticked' \in BOOLEAN
    BY <1>2 DEF Runs, OpsRun, IInv, TypeOK
  <2> QED
    BY <1>2, <2>1, StartInv DEF OpsRun
<1> QED
  BY <1>1, <1>2, SetRsvpInv, RemoveRsvpInv, SyncInv, RunStatusRefreshInv, FindAudienceInv,
     RecordSendInv, AlreadySentInv, NotifyInv, FinishKindInv, FailInv, AdvanceInv, StutterInv
     DEF Next

LEMMA InvariantHolds == Spec => []IInv
BY InitInv, NextInv, PTL DEF Spec

-----------------------------------------------------------------------------
\* The columns and the runs' locals keep their types.
THEOREM TypeCorrect == Spec => []TypeOK
BY InvariantHolds, PTL DEF IInv

\* However many runs there are at a time, and whichever fail, nobody is notified
\* twice of one kind.
THEOREM OnceCorrect == Spec => []OnceEach
BY InvariantHolds, PTL DEF IInv

\* A failing run loses one reminder at most, however many members it was to send
\* to and however many runs there were beside it.
THEOREM LossBounded == Spec => []OneLostPerFailure
BY InvariantHolds, PTL DEF IInv
-----------------------------------------------------------------------------
(* Nobody is forgotten.  While all goes well a tick runs within one instant,  *)
(* and the D-1 window holds the hour of one of them.                         *)

Opens == event.starts - DAY - D1_WINDOW
Closes == event.starts - DAY + D1_WINDOW

\* The tick of the hour h has begun.
Ticked(h) == h % HOUR = 0 /\ (h < now \/ (h = now /\ ticked))

\* The run of the hour has u's reminder still before it.
Pending(u) ==
  /\ run[Cron].kind = "D1"
  /\ \/ run[Cron].pc = "events"
     \/ run[Cron].pc \in {"sending", "notifying"} /\ u \in run[Cron].due

Served ==
  \A u \in early, h \in Opens .. Closes :
    Ticked(h) => <<u, "D1">> \in sends \/ (h = now /\ Pending(u))

\* As long as nothing fails or moves: the event is upcoming until after its
\* start, the run in progress is that of this instant, who is interested early
\* stays so, and each tick within the window has recorded their reminders or is
\* about to.
TicksOK ==
  /\ event.status = "COMPLETED" => event.starts < now - STATUS_COMPLETE_AFTER
  /\ run[Cron].pc # "idle" => run[Cron].at = now
  /\ early # {} => Opens > 0
  /\ \A u \in early : rsvp[u] = "INTERESTED"
  /\ Served

RemindedInv == smooth => TicksOK

\* Every multiple of an hour within the window is an integer number of hours:
\* the last one before it closes is not before it opens.
LEMMA AnHourInTheWindow ==
  ASSUME NEW c \in Nat
  PROVE  \E h \in 0 .. c : h % HOUR = 0 /\ c - h < HOUR
<1> DEFINE m == c % HOUR
<1>1. HOUR \in Nat /\ HOUR > 0
  BY EventRemindersAssumption
<1>2. m \in 0 .. HOUR - 1 /\ m <= c
  BY <1>1
<1>3. (c - m) % HOUR = 0
  BY <1>1
<1>4. c - m \in 0 .. c /\ c - (c - m) < HOUR
  BY <1>1, <1>2
<1> QED
  BY <1>3, <1>4
LEMMA Numbers ==
  ASSUME TypeOK
  PROVE  /\ now \in Nat /\ event.starts \in Nat /\ Opens \in Int /\ Closes \in Int
         /\ \A t \in Runs : run[t] \in RunType
         /\ Cron \in Runs
<1>1. event.starts \in Starts /\ now \in 0 .. Horizon
  BY DEF TypeOK
<1>2. now \in Nat /\ event.starts \in Nat
  <2>1. now \in Nat
    BY <1>1, EventRemindersAssumption
  <2>2. Starts \subseteq Nat
    BY EventRemindersAssumption
  <2>3. event.starts \in Nat
    BY <1>1, <2>2, Zenon
  <2> QED
    BY <2>1, <2>3
<1>3. Opens \in Int /\ Closes \in Int
  BY <1>2, EventRemindersAssumption DEF Opens, Closes
<1> QED
  BY <1>2, <1>3 DEF TypeOK, Runs

LEMMA RemindedInit == Init => RemindedInv
<1> SUFFICES ASSUME Init PROVE TicksOK
  BY DEF RemindedInv
<1>1. early = {} /\ event.status = "UPCOMING" /\ run[Cron] = Idle
  BY DEF Init, Runs
<1> QED
  BY <1>1 DEF TicksOK, Served, Idle

\* Steps that leave the clock, the event and the run of the hour alone.
LEMMA RestReminded ==
  ASSUME RemindedInv, smooth' => smooth,
         UNCHANGED <<now, event, rsvp, early, ticked>>, run'[Cron] = run[Cron],
         sends \subseteq sends'
  PROVE  RemindedInv'
<1> SUFFICES ASSUME smooth' PROVE TicksOK'
  BY DEF RemindedInv
<1>1. TicksOK
  BY DEF RemindedInv
<1>2. Opens' = Opens /\ Closes' = Closes /\ \A h : Ticked(h)' = Ticked(h)
  BY DEF Opens, Closes, Ticked
<1>3. \A u : Pending(u)' = Pending(u)
  BY DEF Pending
<1> QED
  BY <1>1, <1>2, <1>3 DEF TicksOK, Served

LEMMA SetRsvpReminded ==
  ASSUME TypeOK, RemindedInv, NEW u \in Users, NEW status \in {"INTERESTED", "ATTENDED"},
         SetRsvp(u, status)
  PROVE  RemindedInv'
<1> SUFFICES ASSUME smooth' PROVE TicksOK'
  BY DEF RemindedInv
<1>1. /\ UNCHANGED <<now, event, sends, run, ticked, smooth>>
      /\ rsvp' = [rsvp EXCEPT ![u] = status]
  BY DEF SetRsvp, NoRun
<1>2. TicksOK
  BY <1>1 DEF RemindedInv
<1>3. Opens' = Opens /\ Closes' = Closes /\ \A h : Ticked(h)' = Ticked(h)
  BY <1>1 DEF Opens, Closes, Ticked
<1>4. \A v : Pending(v)' = Pending(v)
  BY <1>1 DEF Pending
<1>5. \/ early' = early \cup {u} /\ now < Opens /\ status = "INTERESTED"
      \/ early' = early /\ status = "INTERESTED"
      \/ early' = early \ {u}
  BY DEF SetRsvp, BeforeD1, Opens
<1>6. \A v \in early' : rsvp'[v] = "INTERESTED"
  BY <1>1, <1>2, <1>5 DEF TicksOK, TypeOK
<1>7. early' # {} => Opens > 0
  BY <1>2, <1>5, Numbers DEF TicksOK
<1>8. Served'
  <2> SUFFICES ASSUME NEW v \in early', NEW h \in Opens .. Closes, Ticked(h)
               PROVE  <<v, "D1">> \in sends \/ (h = now /\ Pending(v))
    BY <1>1, <1>3, <1>4 DEF Served
  <2>1. ~(now < Opens)
    BY Numbers DEF Ticked
  <2>2. v \in early
    BY <1>5, <2>1
  <2> QED
    BY <1>2, <2>2 DEF TicksOK, Served
<1> QED
  BY <1>1, <1>2, <1>3, <1>6, <1>7, <1>8 DEF TicksOK

LEMMA RemoveRsvpReminded ==
  ASSUME TypeOK, RemindedInv, NEW u \in Users, RemoveRsvp(u)
  PROVE  RemindedInv'
<1> SUFFICES ASSUME smooth' PROVE TicksOK'
  BY DEF RemindedInv
<1>1. /\ UNCHANGED <<now, event, sends, run, ticked, smooth>>
      /\ rsvp' = [rsvp EXCEPT ![u] = "NONE"] /\ early' = early \ {u}
  BY DEF RemoveRsvp, NoRun
<1>2. TicksOK
  BY <1>1 DEF RemindedInv
<1>3. Opens' = Opens /\ Closes' = Closes /\ \A h : Ticked(h)' = Ticked(h)
  BY <1>1 DEF Opens, Closes, Ticked
<1>4. \A v : Pending(v)' = Pending(v)
  BY <1>1 DEF Pending
<1> QED
  BY <1>1, <1>2, <1>3, <1>4 DEF TicksOK, Served, TypeOK

\* The event stands still, but for its status after the start.
LEMMA EventReminded ==
  ASSUME TypeOK, RemindedInv,
         RunStatusRefresh \/ \E starts \in Starts, status \in {"UPCOMING", "COMPLETED"} : Sync(starts, status)
  PROVE  RemindedInv'
<1>1. CASE \E starts \in Starts, status \in {"UPCOMING", "COMPLETED"} : Sync(starts, status)
  <2>1. smooth' => smooth /\ event' = event
    BY <1>1 DEF Sync
  <2>2. UNCHANGED <<now, rsvp, early, ticked, run, sends>>
    BY <1>1 DEF Sync, NoRun
  <2>3. CASE smooth'
    BY <2>1, <2>2, <2>3, RestReminded
  <2> QED
    BY <2>3 DEF RemindedInv
<1>2. CASE RunStatusRefresh
  <2> SUFFICES ASSUME smooth' PROVE TicksOK'
    BY DEF RemindedInv
  <2>1. /\ UNCHANGED <<now, rsvp, early, ticked, run, sends, smooth>>
        /\ event.starts < now - STATUS_COMPLETE_AFTER
        /\ event'.starts = event.starts
    BY <1>2 DEF RunStatusRefresh, NoRun, TypeOK
  <2>2. TicksOK
    BY <2>1 DEF RemindedInv
  <2>3. Opens' = Opens /\ Closes' = Closes /\ \A h : Ticked(h)' = Ticked(h)
    BY <2>1 DEF Opens, Closes, Ticked
  <2>4. \A v : Pending(v)' = Pending(v)
    BY <2>1 DEF Pending
  <2> QED
    BY <2>1, <2>2, <2>3, <2>4 DEF TicksOK, Served
<1> QED
  BY <1>1, <1>2

\* The run begins: by the tick of the hour, which then counts as begun, or by
\* whoever else runs it.
LEMMA StartReminded ==
  ASSUME TypeOK, RemindedInv, UNCHANGED <<now, event, rsvp, early, sends, smooth>>,
         run[Cron].pc = "idle", run'[Cron] = AtKind("D1", now)
  PROVE  RemindedInv'
<1> SUFFICES ASSUME smooth' PROVE TicksOK'
  BY DEF RemindedInv
<1>1. TicksOK
  BY DEF RemindedInv
<1>2. \A u : Pending(u)' /\ ~Pending(u)
  BY DEF Pending, AtKind
<1>3. Opens' = Opens /\ Closes' = Closes
  BY DEF Opens, Closes
<1>4. \A h : Ticked(h)' => h = now \/ Ticked(h)
  BY DEF Ticked
<1>5. Served'
  BY <1>1, <1>2, <1>3, <1>4 DEF TicksOK, Served
<1> QED
  BY <1>1, <1>3, <1>5 DEF TicksOK, AtKind

\* The run of the hour finds an event that starts in its window, which is still
\* upcoming, and all who were interested early.
LEMMA InTheWindow ==
  ASSUME TypeOK, TicksOK, NEW u \in early, now \in Opens .. Closes, run[Cron].at = now
  PROVE  Concerned("D1", run[Cron].at) /\ u \in Audience("D1")
<1>1. event.starts \in Around(now + DAY, D1_WINDOW)
  BY Numbers, EventRemindersAssumption DEF Around, Opens, Closes
<1>2. ~(event.starts < now - STATUS_COMPLETE_AFTER)
  BY Numbers, EventRemindersAssumption, WindowAssumption DEF Opens, Closes
<1>3. event.status = "UPCOMING"
  BY <1>2 DEF TicksOK, TypeOK
<1> QED
  BY <1>1, <1>3 DEF Concerned, Target, Audience, TicksOK, TypeOK
\* What the run of the hour becomes: the reminders it had before it are
\* recorded or still before it.
LEMMA CronReminded ==
  ASSUME TypeOK, RemindedInv, smooth' = smooth,
         UNCHANGED <<now, event, rsvp, early, ticked>>, sends \subseteq sends',
         run[Cron].pc # "idle",
         run'[Cron].pc # "idle" => run'[Cron].at = run[Cron].at,
         \A u \in early : smooth /\ now \in Opens .. Closes /\ Pending(u) =>
           Pending(u)' \/ <<u, "D1">> \in sends'
  PROVE  RemindedInv'
<1> SUFFICES ASSUME smooth' PROVE TicksOK'
  BY DEF RemindedInv
<1>1. TicksOK
  BY DEF RemindedInv
<1>2. Opens' = Opens /\ Closes' = Closes /\ \A h : Ticked(h)' = Ticked(h)
  BY DEF Opens, Closes, Ticked
<1>3. Served'
  BY <1>1, <1>2 DEF TicksOK, Served
<1> QED
  BY <1>1, <1>2, <1>3 DEF TicksOK

\* Going on to the next kind of reminder.
LEMMA NextKindKeeps ==
  ASSUME TypeOK, NEW t \in Runs, NextKind(t)
  PROVE  /\ run'[t].pc # "idle" => run'[t].at = run[t].at
         /\ \A s \in Runs \ {t} : run'[s] = run[s]
BY DEF NextKind, TypeOK, AtKind, Idle

LEMMA FindAudienceReminded ==
  ASSUME TypeOK, RemindedInv, NEW t \in Runs, FindAudience(t)
  PROVE  RemindedInv'
<1>1. /\ UNCHANGED <<now, event, rsvp, early, sends, ticked, smooth>>
      /\ run[t].pc = "events"
  BY DEF FindAudience, NoNews
<1> DEFINE k == run[t].kind
           found == [pc |-> "sending", at |-> run[t].at, kind |-> k, due |-> Audience(k), user |-> NoOne]
<1>2. \/ NextKind(t) /\ ~(Concerned(k, run[t].at) /\ Audience(k) # {})
      \/ run' = [run EXCEPT ![t] = found]
  BY DEF FindAudience
<1>3. CASE t # Cron
  <2>1. run'[Cron] = run[Cron]
    BY <1>2, <1>3, NextKindKeeps, Numbers DEF TypeOK
  <2> QED
    BY <1>1, <2>1, RestReminded
<1>4. CASE t = Cron
  <2>1. run'[Cron].pc # "idle" => run'[Cron].at = run[Cron].at
    BY <1>2, <1>4, NextKindKeeps DEF TypeOK
  <2>2. ASSUME NEW u \in early, smooth, now \in Opens .. Closes, Pending(u)
        PROVE  Pending(u)'
    <3>1. TicksOK /\ k = "D1" /\ run[Cron].at = now
      BY <1>1, <1>4, <2>2 DEF RemindedInv, TicksOK, Pending
    <3>2. Concerned(k, run[t].at) /\ u \in Audience(k)
      BY <1>4, <2>2, <3>1, InTheWindow
    <3>3. run'[Cron] = found
      BY <1>2, <1>4, <3>2 DEF TypeOK
    <3>4. run'[Cron].pc = "sending" /\ run'[Cron].kind = "D1" /\ u \in run'[Cron].due
      BY <3>1, <3>2, <3>3
    <3> QED
      BY <3>4 DEF Pending
  <2> QED
    BY <1>1, <1>4, <2>1, <2>2, CronReminded
<1> QED
  BY <1>3, <1>4

\* A reminder is recorded, found recorded, or made.
LEMMA SendReminded ==
  ASSUME TypeOK, RemindedInv, NEW t \in Runs,
         Notify(t) \/ \E u \in Users : RecordSend(t, u) \/ AlreadySent(t, u)
  PROVE  RemindedInv'
<1>1. /\ UNCHANGED <<now, event, rsvp, early, ticked, smooth>>
      /\ run[t].pc \in {"sending", "notifying"} /\ sends \subseteq sends'
  BY DEF Notify, RecordSend, AlreadySent, NoNews
<1>2. PICK v \in Users \cup {NoOne} :
        /\ run'[t].pc \in {"sending", "notifying"} /\ run'[t].kind = run[t].kind
        /\ run'[t].at = run[t].at /\ run'[t].due = run[t].due \ {v}
        /\ v # NoOne => <<v, run[t].kind>> \in sends'
        /\ \A s \in Runs \ {t} : run'[s] = run[s]
  <2>1. ASSUME Notify(t) PROVE
        /\ run'[t].pc \in {"sending", "notifying"} /\ run'[t].kind = run[t].kind
        /\ run'[t].at = run[t].at /\ run'[t].due = run[t].due \ {NoOne}
        /\ \A s \in Runs \ {t} : run'[s] = run[s]
    BY <2>1 DEF Notify, Left, TypeOK
  <2>2. ASSUME NEW u \in Users, RecordSend(t, u) PROVE
        /\ run'[t].pc \in {"sending", "notifying"} /\ run'[t].kind = run[t].kind
        /\ run'[t].at = run[t].at /\ run'[t].due = run[t].due \ {u}
        /\ <<u, run[t].kind>> \in sends'
        /\ \A s \in Runs \ {t} : run'[s] = run[s]
    BY <2>2 DEF RecordSend, Left, TypeOK
  <2>3. ASSUME NEW u \in Users, AlreadySent(t, u) PROVE
        /\ run'[t].pc \in {"sending", "notifying"} /\ run'[t].kind = run[t].kind
        /\ run'[t].at = run[t].at /\ run'[t].due = run[t].due \ {u}
        /\ <<u, run[t].kind>> \in sends'
        /\ \A s \in Runs \ {t} : run'[s] = run[s]
    BY <2>3 DEF AlreadySent, TypeOK
  <2> QED
    BY <2>1, <2>2, <2>3
<1>3. CASE t # Cron
  <2>1. run'[Cron] = run[Cron]
    BY <1>2, <1>3, Numbers
  <2> QED
    BY <1>1, <2>1, RestReminded
<1>4. CASE t = Cron
  <2>1. ASSUME NEW u \in early, Pending(u)
        PROVE  Pending(u)' \/ <<u, "D1">> \in sends'
    <3>1. run[Cron].kind = "D1" /\ u \in run[Cron].due /\ u # NoOne
      BY <1>1, <1>4, <2>1, EventRemindersAssumption DEF Pending, TypeOK
    <3>2. CASE u = v
      BY <1>2, <1>4, <3>1, <3>2
    <3>3. CASE u # v
      BY <1>2, <1>4, <3>1, <3>3 DEF Pending
    <3> QED
      BY <3>2, <3>3
  <2> QED
    BY <1>1, <1>2, <1>4, <2>1, CronReminded
<1> QED
  BY <1>3, <1>4

LEMMA FinishKindReminded ==
  ASSUME TypeOK, RemindedInv, NEW t \in Runs, FinishKind(t)
  PROVE  RemindedInv'
<1>1. /\ UNCHANGED <<now, event, rsvp, early, sends, ticked, smooth>>
      /\ run[t].pc = "sending" /\ run[t].due = {} /\ NextKind(t)
  BY DEF FinishKind, NoNews
<1>2. CASE t # Cron
  <2>1. run'[Cron] = run[Cron]
    BY <1>1, <1>2, NextKindKeeps, Numbers
  <2> QED
    BY <1>1, <2>1, RestReminded
<1>3. CASE t = Cron
  <2>1. \A u : ~Pending(u)
    BY <1>1, <1>3 DEF Pending
  <2> QED
    BY <1>1, <1>3, <2>1, NextKindKeeps, CronReminded
<1> QED
  BY <1>2, <1>3

\* Time only passes smoothly once the tick of the hour has come and gone.
LEMMA AdvanceReminded ==
  ASSUME TypeOK, RemindedInv, Advance
  PROVE  RemindedInv'
<1> SUFFICES ASSUME smooth' PROVE TicksOK'
  BY DEF RemindedInv
<1>1. /\ now' = now + 1 /\ ticked' = FALSE /\ UNCHANGED <<event, rsvp, early, sends, run>>
      /\ smooth /\ run[Cron].pc = "idle" /\ (now % HOUR = 0 => ticked)
  BY Numbers DEF Advance, AllIdle
<1>2. TicksOK
  BY <1>1 DEF RemindedInv
<1>3. Opens' = Opens /\ Closes' = Closes
  BY <1>1 DEF Opens, Closes
<1>4. \A u : ~Pending(u)
  BY <1>1 DEF Pending
<1>5. Served'
  <2> SUFFICES ASSUME NEW u \in early, NEW h \in Opens .. Closes, Ticked(h)'
               PROVE  <<u, "D1">> \in sends
    BY <1>1, <1>3 DEF Served
  <2>1. h % HOUR = 0 /\ h < now + 1
    BY <1>1 DEF Ticked
  <2>2. h \in Int /\ (h < now \/ h = now)
    BY <2>1, Numbers
  <2>3. Ticked(h)
    BY <1>1, <2>1, <2>2 DEF Ticked
  <2> QED
    BY <1>2, <1>4, <2>3 DEF TicksOK, Served
<1>6. event'.status = "COMPLETED" => event'.starts < now' - STATUS_COMPLETE_AFTER
  BY <1>1, <1>2, Numbers, EventRemindersAssumption DEF TicksOK
<1> QED
  BY <1>1, <1>2, <1>3, <1>5, <1>6 DEF TicksOK

LEMMA RemindedNext == TypeOK /\ RemindedInv /\ [Next]_vars => RemindedInv'
<1> SUFFICES ASSUME TypeOK, RemindedInv, [Next]_vars PROVE RemindedInv'
  OBVIOUS
<1>1. ASSUME NEW t \in Ops, OpsRun(t) PROVE RemindedInv'
  <2>1. CASE t # Cron
    BY <1>1, <2>1, RestReminded, Numbers DEF OpsRun, NoNews, Runs, TypeOK
  <2>2. CASE t = Cron
    <3>1. /\ UNCHANGED <<now, event, rsvp, early, sends, smooth, ticked>>
          /\ run[Cron].pc = "idle" /\ run'[Cron] = AtKind("D1", now)
      BY <1>1, <2>2, Numbers DEF OpsRun, NoNews, TypeOK
    <3> QED
      BY <3>1, StartReminded
  <2> QED
    BY <2>1, <2>2
<1>2. ASSUME NEW t \in Runs, FindAudience(t) PROVE RemindedInv'
  BY <1>2, FindAudienceReminded
<1>3. ASSUME NEW t \in Runs, Notify(t) \/ \E u \in Users : RecordSend(t, u) \/ AlreadySent(t, u)
      PROVE  RemindedInv'
  BY <1>3, SendReminded
<1>4. ASSUME NEW t \in Runs, FinishKind(t) PROVE RemindedInv'
  BY <1>4, FinishKindReminded
<1>5. ASSUME NEW t \in Runs, Fail(t) PROVE RemindedInv'
  BY <1>5 DEF Fail, RemindedInv
<1>6. ASSUME NEW u \in Users, \/ RemoveRsvp(u)
                              \/ \E status \in {"INTERESTED", "ATTENDED"} : SetRsvp(u, status)
      PROVE  RemindedInv'
  BY <1>6, SetRsvpReminded, RemoveRsvpReminded
<1>7. CASE HourlyTick
  <2>1. /\ UNCHANGED <<now, event, rsvp, early, sends, smooth>>
        /\ run[Cron].pc = "idle" /\ run'[Cron] = AtKind("D1", now)
    BY <1>7, Numbers DEF HourlyTick, NoNews, TypeOK
  <2> QED
    BY <1>7, <2>1, StartReminded DEF HourlyTick
<1>8. CASE UNCHANGED vars
  BY <1>8, RestReminded DEF vars
<1> QED
  BY <1>1, <1>2, <1>3, <1>4, <1>5, <1>6, <1>7, <1>8, EventReminded, AdvanceReminded DEF Next

\* If no run has failed, every tick ran through in its hour and the event was
\* not moved, then everyone interested since before the D-1 window opened has
\* their reminder recorded when it has closed: the window is as wide as an hour.
THEOREM EveryoneCorrect == Spec => []EveryoneReminded
<1>1. TypeOK /\ RemindedInv => EveryoneReminded
  <2> SUFFICES ASSUME TypeOK, RemindedInv, smooth, now > Closes, NEW u \in early
               PROVE  <<u, "D1">> \in sends
    BY DEF EveryoneReminded, Closes
  <2>1. TicksOK /\ Opens > 0
    BY DEF RemindedInv, TicksOK
  <2>2. Closes \in Nat /\ Closes - Opens = 2 * D1_WINDOW
    BY <2>1, Numbers, EventRemindersAssumption DEF Opens, Closes
  <2>3. PICK h \in 0 .. Closes : h % HOUR = 0 /\ Closes - h < HOUR
    BY <2>2, AnHourInTheWindow
  <2>4. h \in Opens .. Closes /\ h < now /\ h # now
    BY <2>2, <2>3, Numbers, EventRemindersAssumption, WindowAssumption
  <2>5. Ticked(h)
    BY <2>3, <2>4 DEF Ticked
  <2> QED
    BY <2>1, <2>4, <2>5 DEF TicksOK, Served
<1> QED
  BY <1>1, InvariantHolds, RemindedInit, RemindedNext, PTL DEF Spec, IInv
-----------------------------------------------------------------------------
(* The notices of a change.  A notice is in the log soon after it was made,   *)
(* and once it is, nobody who looks at the log joins those about to make      *)
(* another: the calls at the time and those that failed are all there are.   *)

Writing(u) == {s \in Syncs : sync[s].pc = "record" /\ sync[s].user = u}
Due(u) == {s \in Syncs : sync[s].pc \in {"notify", "record"} /\ u \in sync[s].due}

\* The log has a notice made since t.
Logged(u, t) == \E l \in t .. now : <<u, l>> \in log

\* How many notices there are from the i-th on.
Since(u, i) == Len(notices[u]) - i + 1

SyncsOK ==
  /\ DOMAIN sync = Syncs
  /\ \A s \in Syncs :
       /\ sync[s].pc \in {"read", "upsert"} =>
            sync[s].answer \in [starts : Starts, status : {"UPCOMING", "COMPLETED"}]
       /\ sync[s].pc \in {"recent", "notify", "record"} => sync[s].due \subseteq Users
       /\ sync[s].pc = "record" => sync[s].user \in Users \ sync[s].due

SpacedFrom(u, i) ==
  /\ notices[u][i] <= now
  /\ ~Logged(u, notices[u][i]) => Since(u, i) <= lost + Cardinality(Writing(u))
  /\ Logged(u, notices[u][i]) /\ now <= notices[u][i] + NOTIFY_WINDOW =>
       Since(u, i) + Cardinality(Due(u)) <= lost + Cardinality(Syncs)
  /\ \A j \in DOMAIN notices[u] :
       j >= i + Cardinality(Syncs) + lost => notices[u][j] > notices[u][i] + NOTIFY_WINDOW

LoggedByNow == \A u \in Users, t \in 0 .. Horizon : <<u, t>> \in log => t <= now

SpacedInv ==
  /\ PageTypes /\ SyncsOK /\ LoggedByNow
  /\ \A u \in Users : \A i \in DOMAIN notices[u] : SpacedFrom(u, i)

LEMMA SyncsCounted ==
  ASSUME NEW S \in SUBSET Syncs
  PROVE  IsFiniteSet(S) /\ Cardinality(S) \in Nat /\ Cardinality(S) <= Cardinality(Syncs)
BY EventPagesAssumption, FS_Subset, FS_CardinalityType

LEMMA SpacedNumbers ==
  ASSUME PageTypes, NEW u \in Users
  PROVE  /\ Len(notices[u]) \in Nat /\ DOMAIN notices[u] = 1 .. Len(notices[u])
         /\ \A i \in DOMAIN notices[u] : notices[u][i] \in 0 .. Horizon
         /\ lost \in Nat
<1>1. notices[u] \in Seq(0 .. Horizon) /\ lost \in Nat
  BY EventPagesAssumption DEF PageTypes
<1>2. ASSUME NEW S, NEW q \in Seq(S)
      PROVE  /\ Len(q) \in Nat /\ DOMAIN q = 1 .. Len(q)
             /\ \A i \in DOMAIN q : q[i] \in S
  OBVIOUS
<1> QED
  BY <1>1, <1>2

LEMMA SyncNumbers ==
  ASSUME NEW u
  PROVE  /\ Cardinality(Syncs) \in Nat /\ NOTIFY_WINDOW \in Nat
         /\ Writing(u) \in SUBSET Syncs /\ Due(u) \in SUBSET Syncs
         /\ Writing(u)' \in SUBSET Syncs /\ Due(u)' \in SUBSET Syncs
         /\ Cardinality(Writing(u)) \in Nat /\ Cardinality(Due(u)) \in Nat
         /\ Cardinality(Writing(u)') \in Nat /\ Cardinality(Due(u)') \in Nat
<1>1. /\ Writing(u) \in SUBSET Syncs /\ Due(u) \in SUBSET Syncs
      /\ Writing(u)' \in SUBSET Syncs /\ Due(u)' \in SUBSET Syncs
  BY DEF Writing, Due
<1> QED
  BY <1>1, SyncsCounted, EventPagesAssumption, FS_CardinalityType

\* A call moves on, and counts as before for all but what it now says of itself.
LEMMA SyncMoves ==
  ASSUME SyncsOK, NEW s \in Syncs, NEW next, SyncTo(s, next), NEW u
  PROVE  /\ DOMAIN sync' = Syncs /\ sync'[s] = next
         /\ \A t \in Syncs \ {s} : sync'[t] = sync[t]
         /\ Writing(u)' = (Writing(u) \ {s})
              \cup {t \in {s} : next.pc = "record" /\ next.user = u}
         /\ Due(u)' = (Due(u) \ {s})
              \cup {t \in {s} : next.pc \in {"notify", "record"} /\ u \in next.due}
<1>1. /\ DOMAIN sync' = Syncs /\ sync'[s] = next
      /\ \A t \in Syncs \ {s} : sync'[t] = sync[t]
  BY DEF SyncTo, SyncsOK
<1> QED
  BY <1>1 DEF Writing, Due

\* Steps that make no notice and log none keep them spaced, as long as those
\* about to log, with the fan-outs that failed, become no fewer, and nobody is
\* made due whose notice of late is in the log.
LEMMA StillSpaced ==
  ASSUME TypeOK, SpacedInv, PageTypes', UNCHANGED <<now, notices, log>>, NEW u \in Users,
         lost' >= lost,
         lost + Cardinality(Writing(u)) <= lost' + Cardinality(Writing(u)'),
         \/ Cardinality(Due(u)') <= Cardinality(Due(u))
         \/ \A t \in now - NOTIFY_WINDOW .. now : <<u, t>> \notin log,
         NEW i \in DOMAIN notices[u]
  PROVE  SpacedFrom(u, i)'
<1> DEFINE n == notices[u]
<1>1. SpacedFrom(u, i) /\ \A t : Logged(u, t)' = Logged(u, t)
  BY DEF SpacedInv, Logged
<1>2. Since(u, i)' = Since(u, i) /\ Since(u, i) \in Int
  BY SpacedNumbers DEF Since, SpacedInv
<1>3. n[i] \in Nat /\ now \in Nat /\ now <= Horizon
  BY SpacedNumbers, EventRemindersAssumption DEF SpacedInv, TypeOK
<1>4. lost' \in Nat /\ lost \in Nat /\ i \in Nat
  BY SpacedNumbers, EventPagesAssumption DEF PageTypes, SpacedInv
<1>5. ~Logged(u, n[i]) => Since(u, i) <= lost' + Cardinality(Writing(u)')
  BY <1>1, <1>2, <1>4, SyncNumbers DEF SpacedFrom
<1>6. ASSUME Logged(u, n[i]), now <= n[i] + NOTIFY_WINDOW
      PROVE  Since(u, i) + Cardinality(Due(u)') <= lost' + Cardinality(Syncs)
  <2>1. PICK t \in n[i] .. now : <<u, t>> \in log
    BY <1>6 DEF Logged
  <2>2. t \in now - NOTIFY_WINDOW .. now
    BY <1>3, <1>6, <2>1, SyncNumbers
  <2>3. Cardinality(Due(u)') <= Cardinality(Due(u))
    BY <2>1, <2>2
  <2> QED
    BY <1>1, <1>2, <1>4, <1>6, <2>3, SyncNumbers DEF SpacedFrom
<1>7. \A j \in DOMAIN n : j >= i + Cardinality(Syncs) + lost' => n[j] > n[i] + NOTIFY_WINDOW
  <2>1. \A j \in DOMAIN n : j \in Nat
    BY SpacedNumbers DEF SpacedInv
  <2> QED
    BY <1>1, <1>4, <2>1, SyncNumbers DEF SpacedFrom
<1> QED
  BY <1>1, <1>2, <1>5, <1>6, <1>7 DEF SpacedFrom

\* Nothing is logged ahead of time.
LEMMA ClockSpaced ==
  ASSUME TypeOK, TypeOK', SpacedInv, UNCHANGED pages, now' = now \/ now' = now + 1
  PROVE  SpacedInv'
<1>1. UNCHANGED <<live, review, recap, page, slipped, notices, log, sync, lost>>
  BY DEF pages, content, updates
<1>2. PageTypes' /\ SyncsOK'
  BY <1>1 DEF SpacedInv, PageTypes, SyncsOK
<1>3. now \in Nat /\ now' \in Nat /\ now' >= now
  BY EventRemindersAssumption DEF TypeOK
<1>4. LoggedByNow'
  BY <1>1, <1>3 DEF SpacedInv, LoggedByNow
<1>5. ASSUME NEW u \in Users, NEW i \in DOMAIN notices[u] PROVE SpacedFrom(u, i)'
  <2>1. notices[u][i] \in Nat /\ SpacedFrom(u, i)
    BY SpacedNumbers DEF SpacedInv
  <2>2. Logged(u, notices[u][i])' <=> Logged(u, notices[u][i])
    <3>1. ASSUME NEW t \in notices[u][i] .. now', <<u, t>> \in log PROVE t \in notices[u][i] .. now
      <4>1. t \in 0 .. Horizon
        BY <3>1 DEF SpacedInv, PageTypes
      <4> QED
        BY <1>3, <2>1, <3>1, <4>1 DEF SpacedInv, LoggedByNow
    <3>2. notices[u][i] .. now \subseteq notices[u][i] .. now'
      BY <1>3, <2>1
    <3> QED
      BY <1>1, <3>1, <3>2 DEF Logged
  <2>3. /\ Since(u, i)' = Since(u, i)
        /\ Writing(u)' = Writing(u) /\ Due(u)' = Due(u)
    BY <1>1 DEF Since, Writing, Due
  <2> QED
    BY <1>1, <1>3, <2>1, <2>2, <2>3, SyncNumbers DEF SpacedFrom
<1> QED
  BY <1>1, <1>2, <1>4, <1>5 DEF SpacedInv

\* A call moves on without a notice.
LEMMA CallSpaced ==
  ASSUME TypeOK, SpacedInv, SyncsOK', UNCHANGED <<now, content, notices, log, lost>>,
         NEW s \in Syncs, NEW next, SyncTo(s, next), sync[s].pc # "record", next.pc # "record",
         \A u \in Users : next.pc = "notify" /\ u \in next.due /\ s \notin Due(u) =>
           \A t \in now - NOTIFY_WINDOW .. now : <<u, t>> \notin log
  PROVE  SpacedInv'
<1>1. PageTypes' /\ LoggedByNow'
  BY DEF SpacedInv, PageTypes, LoggedByNow, content
<1>2. ASSUME NEW u \in Users, NEW i \in DOMAIN notices[u] PROVE SpacedFrom(u, i)'
  <2>1. Writing(u)' = Writing(u)
    BY SyncMoves DEF SpacedInv, Writing
  <2>2. \/ Due(u)' \subseteq Due(u)
        \/ \A t \in now - NOTIFY_WINDOW .. now : <<u, t>> \notin log
    BY SyncMoves DEF SpacedInv
  <2>3. Due(u)' \subseteq Due(u) => Cardinality(Due(u)') <= Cardinality(Due(u))
    BY SyncNumbers, SyncsCounted, FS_Subset
  <2>4. lost' = lost /\ lost \in Nat
    BY SpacedNumbers DEF SpacedInv
  <2> QED
    BY <1>1, <2>1, <2>2, <2>3, <2>4, SyncNumbers, StillSpaced
<1> QED
  BY <1>1, <1>2 DEF SpacedInv

\* Of two disjoint sets of calls there are no more than calls.
LEMMA Disjoint ==
  ASSUME NEW S \in SUBSET Syncs, NEW T \in SUBSET Syncs, S \cap T = {}
  PROVE  Cardinality(S) + Cardinality(T) <= Cardinality(Syncs)
<1>1. IsFiniteSet(S) /\ IsFiniteSet(T) /\ S \cup T \in SUBSET Syncs
  BY SyncsCounted
<1>2. Cardinality(S \cup T) = Cardinality(S) + Cardinality(T) - Cardinality(S \cap T)
  BY <1>1, FS_Union
<1>3. Cardinality(S \cup T) <= Cardinality(Syncs) /\ Cardinality(S \cap T) = 0
  BY <1>1, SyncsCounted, FS_EmptySet
<1> QED
  BY <1>2, <1>3, SyncsCounted

\* A notice: who makes it was among those due it and is now to log it.
LEMMA NotifyUpdateSpaced ==
  ASSUME TypeOK, SpacedInv, NEW s \in Syncs, NEW v \in Users, NotifyUpdate(s, v)
  PROVE  SpacedInv'
<1> DEFINE next == [pc |-> "record", due |-> sync[s].due \ {v}, user |-> v]
<1>1. /\ sync[s].pc = "notify" /\ v \in sync[s].due
      /\ SyncTo(s, next)
      /\ notices' = [notices EXCEPT ![v] = Append(notices[v], now)]
      /\ UNCHANGED <<now, event, rsvp, live, review, recap, page, slipped, log, lost>>
  BY DEF NotifyUpdate, card, content
<1>2. SyncsOK'
  <2>1. next.pc = "record" /\ next.due \subseteq Users /\ next.user \in Users \ next.due
    BY <1>1 DEF SpacedInv, SyncsOK
  <2>2. /\ DOMAIN sync' = Syncs /\ sync'[s] = next
        /\ \A t \in Syncs \ {s} : sync'[t] = sync[t]
    BY <1>1, SyncMoves DEF SpacedInv
  <2> HIDE DEF next
  <2> QED
    BY <2>1, <2>2 DEF SpacedInv, SyncsOK
<1>3. now \in 0 .. Horizon /\ now \in Nat
  BY EventRemindersAssumption DEF TypeOK
<1>4. \A u \in Users : notices'[u] = IF u = v THEN Append(notices[v], now) ELSE notices[u]
  BY <1>1 DEF SpacedInv, PageTypes
<1>5. PageTypes'
  <2>1. Append(notices[v], now) \in Seq(0 .. Horizon)
    BY <1>3, SpacedNumbers DEF SpacedInv, PageTypes
  <2>2. notices' \in [Users -> Seq(0 .. Horizon)]
    BY <1>1, <2>1 DEF SpacedInv, PageTypes
  <2> QED
    BY <1>1, <2>2 DEF SpacedInv, PageTypes
<1>6. LoggedByNow'
  BY <1>1 DEF SpacedInv, LoggedByNow
<1>7. ASSUME NEW u \in Users, u # v
      PROVE  /\ notices'[u] = notices[u] /\ Writing(u)' = Writing(u) /\ Due(u)' = Due(u)
  <2>1. /\ Writing(u)' = (Writing(u) \ {s}) \cup {t \in {s} : next.pc = "record" /\ next.user = u}
        /\ Due(u)' = (Due(u) \ {s}) \cup {t \in {s} : next.pc \in {"notify", "record"} /\ u \in next.due}
    BY <1>1, SyncMoves DEF SpacedInv
  <2>2. s \notin Writing(u) /\ (s \in Due(u) <=> u \in sync[s].due)
    BY <1>1 DEF Writing, Due
  <2> QED
    BY <1>4, <1>7, <2>1, <2>2
<1>8. ASSUME NEW u \in Users, u # v, NEW i \in DOMAIN notices[u] PROVE SpacedFrom(u, i)'
  <2>1. SpacedFrom(u, i)
    BY DEF SpacedInv
  <2>2. Since(u, i)' = Since(u, i) /\ Logged(u, notices[u][i])' = Logged(u, notices[u][i])
    BY <1>1, <1>7, <1>8 DEF Since, Logged
  <2> QED
    BY <1>1, <1>7, <1>8, <2>1, <2>2 DEF SpacedFrom
<1>9. ASSUME NEW i \in DOMAIN notices'[v] PROVE SpacedFrom(v, i)'
  <2> DEFINE n == notices[v]
             N == Cardinality(Syncs)
  <2>1. /\ Writing(v)' = Writing(v) \cup {s} /\ s \notin Writing(v)
        /\ Due(v)' = Due(v) \ {s} /\ s \in Due(v)
    <3>1. /\ Writing(v)' = (Writing(v) \ {s}) \cup {t \in {s} : next.pc = "record" /\ next.user = v}
          /\ Due(v)' = (Due(v) \ {s}) \cup {t \in {s} : next.pc \in {"notify", "record"} /\ v \in next.due}
      BY <1>1, SyncMoves DEF SpacedInv
    <3>2. s \notin Writing(v) /\ s \in Due(v)
      BY <1>1 DEF Writing, Due
    <3> QED
      BY <3>1, <3>2
  <2>2. /\ Cardinality(Writing(v)') = Cardinality(Writing(v)) + 1
        /\ Cardinality(Due(v)') = Cardinality(Due(v)) - 1
    <3>1. IsFiniteSet(Writing(v)) /\ IsFiniteSet(Due(v))
      BY SyncNumbers, SyncsCounted
    <3> QED
      BY <2>1, <3>1, FS_AddElement, FS_RemoveElement
  <2>3. /\ Cardinality(Writing(v)) + 1 <= N /\ Cardinality(Due(v)') + 1 <= N
        /\ N \in Nat
    BY <2>2, SyncNumbers, SyncsCounted
  <2>4. /\ Len(n) \in Nat /\ DOMAIN n = 1 .. Len(n) /\ lost \in Nat
        /\ DOMAIN notices'[v] = 1 .. Len(n) + 1
        /\ Len(notices'[v]) = Len(n) + 1
        /\ notices'[v][Len(n) + 1] = now
        /\ \A j \in 1 .. Len(n) : notices'[v][j] = n[j] /\ n[j] \in Nat
    <3>1. n \in Seq(0 .. Horizon) /\ notices'[v] = Append(n, now)
      BY <1>4 DEF SpacedInv, PageTypes
    <3>2. ASSUME NEW S, NEW q \in Seq(S), NEW x \in S
          PROVE  /\ DOMAIN Append(q, x) = 1 .. Len(q) + 1
                 /\ Len(Append(q, x)) = Len(q) + 1
                 /\ Append(q, x)[Len(q) + 1] = x
                 /\ \A j \in 1 .. Len(q) : Append(q, x)[j] = q[j]
      OBVIOUS
    <3>3. /\ Len(n) \in Nat /\ DOMAIN n = 1 .. Len(n) /\ lost \in Nat
          /\ \A j \in 1 .. Len(n) : n[j] \in Nat
      BY SpacedNumbers DEF SpacedInv
    <3> QED
      BY <1>3, <3>1, <3>2, <3>3
  <2>5. CASE i = Len(n) + 1
    <3>1. Since(v, i)' = 1
      BY <2>4, <2>5 DEF Since
    <3>2. \A j \in DOMAIN notices'[v] : ~(j >= i + N + lost)
      BY <2>3, <2>4, <2>5, SyncNumbers
    <3> QED
      BY <1>1, <1>3, <2>2, <2>3, <2>4, <2>5, <3>1, <3>2, SyncNumbers DEF SpacedFrom
  <2>6. CASE i \in 1 .. Len(n)
    <3>1. SpacedFrom(v, i) /\ notices'[v][i] = n[i] /\ n[i] \in Nat
      BY <2>4, <2>6 DEF SpacedInv
    <3>2. Since(v, i)' = Since(v, i) + 1 /\ Since(v, i) = Len(n) - i + 1 /\ i \in Nat
      BY <2>4, <2>6 DEF Since
    <3>3. Logged(v, notices[v][i])' <=> Logged(v, n[i])
      BY <1>1, <3>1 DEF Logged
    <3>4. /\ Cardinality(Writing(v)) \in Nat /\ Cardinality(Due(v)) \in Nat
          /\ Cardinality(Due(v)') \in Nat /\ NOTIFY_WINDOW \in Nat
      BY SyncNumbers
    <3>5. now <= n[i] + NOTIFY_WINDOW => Len(n) + 1 < i + N + lost
      <4>1. CASE Logged(v, n[i])
        <5>1. now <= n[i] + NOTIFY_WINDOW => Since(v, i) + Cardinality(Due(v)) <= lost + N
          BY <3>1, <4>1 DEF SpacedFrom
        <5>2. lost \in Nat /\ n[i] \in Nat /\ Len(n) \in Nat /\ Cardinality(Due(v)) >= 1
          BY <2>2, <2>4, <3>1, <3>4
        <5> HIDE DEF n, N
        <5> QED
          BY <1>3, <2>3, <3>2, <3>4, <5>1, <5>2
      <4>2. CASE ~Logged(v, n[i])
        BY <1>3, <2>2, <2>3, <2>4, <3>1, <3>2, <3>4, <4>2 DEF SpacedFrom
      <4> QED
        BY <4>1, <4>2
    <3>6. \A j \in DOMAIN notices'[v] : j >= i + N + lost => notices'[v][j] > n[i] + NOTIFY_WINDOW
      <4>1. n[i] + NOTIFY_WINDOW \in Nat /\ i + N + lost \in Nat
        <5>1. lost \in Nat /\ n[i] \in Nat
          BY <2>4, <3>1
        <5>2. n[i] + NOTIFY_WINDOW \in Nat
          BY <3>4, <5>1
        <5>3. i \in Nat /\ N \in Nat
          BY <2>3, <3>2
        <5> HIDE DEF n, N
        <5> QED
          BY <5>1, <5>2, <5>3
      <4>2. \A j \in 1 .. Len(n) : j >= i + N + lost => n[j] > n[i] + NOTIFY_WINDOW
        BY <2>4, <3>1 DEF SpacedFrom
      <4>3. Len(n) + 1 >= i + N + lost => now > n[i] + NOTIFY_WINDOW
        BY <1>3, <2>4, <3>5, <4>1
      <4> HIDE DEF n, N
      <4> QED
        BY <2>4, <4>2, <4>3
    <3>7. ~Logged(v, n[i]) => Since(v, i) + 1 <= lost + Cardinality(Writing(v)')
      BY <2>2, <2>4, <3>1, <3>2, <3>4 DEF SpacedFrom
    <3>8. Logged(v, n[i]) /\ now <= n[i] + NOTIFY_WINDOW =>
            Since(v, i) + 1 + Cardinality(Due(v)') <= lost + N
      BY <2>2, <2>3, <2>4, <3>1, <3>2, <3>4 DEF SpacedFrom
    <3> QED
      BY <1>1, <3>1, <3>2, <3>3, <3>6, <3>7, <3>8 DEF SpacedFrom
  <2> QED
    BY <2>4, <2>5, <2>6
<1> QED
  BY <1>2, <1>4, <1>5, <1>6, <1>8, <1>9 DEF SpacedInv

\* The row is in the log: whoever looks at it from now on sees that notice.
LEMMA RecordUpdateSpaced ==
  ASSUME TypeOK, SpacedInv, NEW s \in Syncs, RecordUpdate(s)
  PROVE  SpacedInv'
<1> PICK v, due : v = sync[s].user /\ due = sync[s].due
  OBVIOUS
<1>1. /\ sync[s].pc = "record" /\ log' = log \cup {<<v, now>>} /\ Notifies(s, due)
      /\ UNCHANGED <<now, event, rsvp, live, review, recap, page, slipped, notices, lost>>
      /\ v \in Users \ due /\ due \subseteq Users
  BY DEF RecordUpdate, card, content, SpacedInv, SyncsOK
<1>2. PICK next : /\ SyncTo(s, next)
                  /\ \/ due = {} /\ next = Quiet
                     \/ next = [pc |-> "notify", due |-> due]
  BY <1>1 DEF Notifies
<1>3. /\ DOMAIN sync' = Syncs /\ sync'[s] = next
      /\ \A t \in Syncs \ {s} : sync'[t] = sync[t]
      /\ next.pc \in {"idle", "notify"}
      /\ next.pc = "notify" => next.due = due
  BY <1>2, SyncMoves DEF SpacedInv, Quiet
<1>4. SyncsOK'
  BY <1>1, <1>3 DEF SpacedInv, SyncsOK
<1>5. now \in 0 .. Horizon /\ now \in Nat
  BY EventRemindersAssumption DEF TypeOK
<1>6. PageTypes'
  BY <1>1, <1>5 DEF SpacedInv, PageTypes
<1>7. LoggedByNow'
  BY <1>1, <1>5 DEF SpacedInv, LoggedByNow
<1>8. ASSUME NEW u \in Users PROVE Due(u)' = Due(u)
  <2>1. Due(u)' = (Due(u) \ {s}) \cup {t \in {s} : next.pc \in {"notify", "record"} /\ u \in next.due}
    BY <1>2, SyncMoves DEF SpacedInv
  <2>2. s \in Due(u) <=> u \in due
    BY <1>1 DEF Due
  <2> QED
    BY <1>2, <1>3, <2>1, <2>2
<1>9. ASSUME NEW u \in Users, u # v, NEW i \in DOMAIN notices[u] PROVE SpacedFrom(u, i)'
  <2>1. Writing(u)' = Writing(u)
    BY <1>1, <1>3, <1>9 DEF Writing
  <2>2. Since(u, i)' = Since(u, i) /\ (Logged(u, notices[u][i])' <=> Logged(u, notices[u][i]))
    BY <1>1, <1>9 DEF Since, Logged
  <2>3. SpacedFrom(u, i)
    BY DEF SpacedInv
  <2> QED
    BY <1>1, <1>8, <2>1, <2>2, <2>3 DEF SpacedFrom
<1>10. ASSUME NEW i \in DOMAIN notices[v] PROVE SpacedFrom(v, i)'
  <2>1. SpacedFrom(v, i) /\ notices[v][i] \in Nat /\ lost \in Nat
    BY <1>1, SpacedNumbers DEF SpacedInv
  <2>2. Logged(v, notices[v][i])'
    <3>1. now \in notices[v][i] .. now
      BY <1>5, <2>1 DEF SpacedFrom
    <3> QED
      BY <1>1, <3>1 DEF Logged
  <2>3. Since(v, i)' = Since(v, i) /\ Since(v, i) \in Int
    <3>1. Len(notices[v]) \in Nat /\ i \in Nat
      BY <1>1, SpacedNumbers DEF SpacedInv
    <3> QED
      BY <1>1, <3>1 DEF Since
  <2>4. Writing(v) \cap Due(v) = {}
    BY DEF Writing, Due, SpacedInv, SyncsOK
  <2>5. Cardinality(Writing(v)) + Cardinality(Due(v)) <= Cardinality(Syncs)
    BY <2>4, Disjoint, SyncNumbers
  <2>6. now <= notices[v][i] + NOTIFY_WINDOW => Since(v, i) + Cardinality(Due(v)) <= lost + Cardinality(Syncs)
    BY <2>1, <2>3, <2>5, SyncNumbers DEF SpacedFrom
  <2>7. Due(v)' = Due(v)
    BY <1>1, <1>8
  <2> QED
    BY <1>1, <2>1, <2>2, <2>3, <2>6, <2>7 DEF SpacedFrom
<1> QED
  BY <1>1, <1>4, <1>6, <1>7, <1>9, <1>10 DEF SpacedInv

\* A fan-out that fails takes a notice with it that will not be logged.
LEMMA FailSyncSpaced ==
  ASSUME TypeOK, SpacedInv, NEW s \in Syncs, FailSync(s)
  PROVE  SpacedInv'
<1>1. /\ SyncTo(s, Quiet) /\ lost < MaxLost /\ lost' = lost + 1 /\ Quiet.pc = "idle"
      /\ UNCHANGED <<now, event, rsvp, live, review, recap, page, slipped, notices, log>>
  BY DEF FailSync, card, content, Quiet
<1>2. lost \in Nat /\ lost' \in 0 .. MaxLost
  BY <1>1, EventPagesAssumption DEF SpacedInv, PageTypes
<1>3. PageTypes' /\ LoggedByNow'
  BY <1>1, <1>2 DEF SpacedInv, PageTypes, LoggedByNow
<1>4. SyncsOK'
  <2>1. DOMAIN sync' = Syncs /\ sync'[s] = Quiet /\ \A t \in Syncs \ {s} : sync'[t] = sync[t]
    BY <1>1, SyncMoves DEF SpacedInv
  <2> QED
    BY <1>1, <2>1 DEF SpacedInv, SyncsOK
<1>5. ASSUME NEW u \in Users, NEW i \in DOMAIN notices[u] PROVE SpacedFrom(u, i)'
  <2>1. Writing(u)' = Writing(u) \ {s} /\ Due(u)' = Due(u) \ {s}
    BY <1>1, SyncMoves DEF SpacedInv
  <2>2. IsFiniteSet(Writing(u)) /\ IsFiniteSet(Due(u))
    BY SyncNumbers, SyncsCounted
  <2>3. /\ Cardinality(Writing(u)) <= Cardinality(Writing(u)') + 1
        /\ Cardinality(Due(u)') <= Cardinality(Due(u))
    <3>1. ASSUME NEW S, IsFiniteSet(S)
          PROVE  Cardinality(S) <= Cardinality(S \ {s}) + 1 /\ Cardinality(S \ {s}) <= Cardinality(S)
      <4>1. Cardinality(S) \in Nat
        BY <3>1, FS_CardinalityType
      <4>2. Cardinality(S \ {s}) = IF s \in S THEN Cardinality(S) - 1 ELSE Cardinality(S)
        BY <3>1, FS_RemoveElement
      <4> QED
        BY <4>1, <4>2
    <3> QED
      BY <2>1, <2>2, <3>1
  <2>4. lost + Cardinality(Writing(u)) <= lost' + Cardinality(Writing(u)')
    BY <1>1, <1>2, <2>3, SyncNumbers
  <2> QED
    BY <1>1, <1>2, <1>3, <2>3, <2>4, StillSpaced
<1> QED
  BY <1>1, <1>3, <1>4, <1>5 DEF SpacedInv

\* The other steps of a call: only those not in the log of late are due a notice.
LEMMA OnItsWaySpaced ==
  ASSUME TypeOK, SpacedInv, NEW s \in Syncs,
         \/ ReadBefore(s) \/ UpsertFromExternal(s) \/ FindRecipients(s) \/ ReadRecent(s)
         \/ \E starts \in Starts, status \in {"UPCOMING", "COMPLETED"} : GetById(s, starts, status)
  PROVE  SpacedInv'
<1> DEFINE Event == [starts : Starts, status : {"UPCOMING", "COMPLETED"}]
           Fresh(u) == \A t \in now - NOTIFY_WINDOW .. now : <<u, t>> \notin log
<1>1. PICK next :
        /\ SyncTo(s, next) /\ sync[s].pc # "record" /\ next.pc # "record"
        /\ next.pc \in {"read", "upsert"} => next.answer \in Event
        /\ next.pc \in {"recent", "notify"} => next.due \subseteq Users
        /\ next.pc = "notify" => \A u \in next.due : Fresh(u)
        /\ UNCHANGED <<now, content, notices, log, lost>>
  <2>1. ASSUME NEW starts \in Starts, NEW status \in {"UPCOMING", "COMPLETED"},
               GetById(s, starts, status)
        PROVE  /\ SyncTo(s, [pc |-> "read", answer |-> [starts |-> starts, status |-> status]])
               /\ sync[s].pc # "record" /\ UNCHANGED <<now, content, notices, log, lost>>
               /\ [starts |-> starts, status |-> status] \in Event
    BY <2>1 DEF GetById, card
  <2>2. CASE ReadBefore(s)
    <3>1. /\ SyncTo(s, [pc |-> "upsert", answer |-> sync[s].answer, before |-> event])
          /\ sync[s].pc = "read" /\ UNCHANGED <<now, content, notices, log, lost>>
      BY <2>2 DEF ReadBefore, card
    <3>2. sync[s].answer \in Event
      BY <3>1 DEF SpacedInv, SyncsOK
    <3> QED
      BY <3>1, <3>2
  <2>3. CASE UpsertFromExternal(s)
    <3>1. /\ SyncTo(s, [pc |-> "recipients"]) \/ SyncTo(s, Quiet)
          /\ sync[s].pc = "upsert" /\ UNCHANGED <<now, content, notices, log, lost>>
      BY <2>3 DEF UpsertFromExternal, Sync
    <3> QED
      BY <3>1 DEF Quiet
  <2>4. CASE FindRecipients(s)
    <3>1. PICK found \in SUBSET Users : SyncTo(s, Quiet) \/ SyncTo(s, [pc |-> "recent", due |-> found])
      BY <2>4 DEF FindRecipients
    <3>2. sync[s].pc = "recipients" /\ UNCHANGED <<now, content, notices, log, lost>>
      BY <2>4 DEF FindRecipients, card
    <3> QED
      BY <3>1, <3>2 DEF Quiet
  <2>5. CASE ReadRecent(s)
    <3>1. PICK due \in SUBSET Users :
            /\ \A u \in due : Fresh(u)
            /\ SyncTo(s, Quiet) \/ SyncTo(s, [pc |-> "notify", due |-> due])
      <4>1. {u \in sync[s].due : Fresh(u)} \subseteq Users
        BY <2>5 DEF ReadRecent, SpacedInv, SyncsOK
      <4> QED
        BY <2>5, <4>1 DEF ReadRecent, Notifies
    <3>2. sync[s].pc = "recent" /\ UNCHANGED <<now, content, notices, log, lost>>
      BY <2>5 DEF ReadRecent, card
    <3> QED
      BY <3>1, <3>2 DEF Quiet
  <2> HIDE DEF Event, Fresh
  <2>6. CASE \E starts \in Starts, status \in {"UPCOMING", "COMPLETED"} : GetById(s, starts, status)
    BY <2>1, <2>6
  <2> QED
    BY <2>2, <2>3, <2>4, <2>5, <2>6
<1>2. SyncsOK'
  <2>1. DOMAIN sync' = Syncs /\ sync'[s] = next /\ \A t \in Syncs \ {s} : sync'[t] = sync[t]
    BY <1>1, SyncMoves DEF SpacedInv
  <2> QED
    BY <1>1, <2>1 DEF SpacedInv, SyncsOK
<1> QED
  BY <1>1, <1>2, CallSpaced

-----------------------------------------------------------------------------
(* The page: recaps are of events a day old, and what is deleted stays gone.  *)

\* The periods recaps are being written of, by runs that have read the start.
Writes == {Period(page[q].starts) : q \in {r \in Pages : page[r].pc \in {"recap", "write"}}}

TooEarly == {p \in Periods : now < p + DAY - HOUR}

\* The recaps written too early, and those about to be.
Ahead == EarlyRecaps \cup (Writes \cap TooEarly)

PagesOK ==
  /\ DOMAIN page = Pages
  /\ \A q \in Pages :
       /\ page[q].pc = "due" => page[q].listed \in Starts /\ now >= page[q].listed + DAY - HOUR
       /\ page[q].pc \in {"recap", "write"} => page[q].starts \in Starts
       /\ page[q].pc = "write" => page[q].quoted \subseteq Users

PagesInv == PageTypes /\ PagesOK /\ IsFiniteSet(Ahead) /\ Cardinality(Ahead) <= slipped

Gone ==
  \A u \in Users : review[u] = "DELETED" =>
    /\ u \notin ListForEvent'
    /\ \A q \in Pages : page'[q].pc = "write" /\ u \in page'[q].quoted => page'[q] = page[q]

\* A period starts no later than the event does, at a time that is a number.
LEMMA PeriodIs ==
  ASSUME NEW s \in Starts
  PROVE  Period(s) \in Int /\ Period(s) <= s /\ Period(s) \in Periods
<1>1. s \in Nat /\ HOUR \in Nat /\ HOUR > 0
  BY EventRemindersAssumption
<1>2. s % HOUR \in 0 .. HOUR - 1
  BY <1>1
<1>3. PICK m \in 0 .. HOUR - 1 : m = s % HOUR
  BY <1>2
<1>4. Period(s) = s - m
  BY <1>3 DEF Period
<1> QED
  BY <1>1, <1>3, <1>4 DEF Periods

\* The times the properties compare are numbers.
LEMMA PeriodNumbers ==
  ASSUME TypeOK, PageTypes
  PROVE  /\ now \in Nat /\ DAY \in Nat /\ HOUR \in Nat /\ slipped \in Nat
         /\ Periods \subseteq Int
<1>1. now \in Nat /\ DAY \in Nat /\ HOUR \in Nat
  BY EventRemindersAssumption DEF TypeOK
<1>2. slipped \in Nat
  BY EventPagesAssumption DEF PageTypes
<1>3. Periods \subseteq Int
  BY PeriodIs DEF Periods
<1> QED
  BY <1>1, <1>2, <1>3

\* When no recap that is early joins, or one does and the event had moved, the
\* recaps that are early are still no more than the times it had.
LEMMA NoneJoins ==
  ASSUME PagesInv, PageTypes', Ahead' \subseteq Ahead, slipped' = slipped, slipped \in Nat
  PROVE  IsFiniteSet(Ahead)' /\ (Cardinality(Ahead) <= slipped)'
<1>1. IsFiniteSet(Ahead) /\ Cardinality(Ahead) \in Nat /\ Cardinality(Ahead) <= slipped
  BY FS_CardinalityType DEF PagesInv
<1>2. IsFiniteSet(Ahead') /\ Cardinality(Ahead') <= Cardinality(Ahead)
  BY <1>1, FS_Subset
<1>3. Cardinality(Ahead') \in Nat
  BY <1>2, FS_CardinalityType
<1> QED
  BY <1>1, <1>2, <1>3

LEMMA OneJoins ==
  ASSUME PagesInv, NEW p, Ahead' \subseteq Ahead \cup {p}, slipped' = slipped + 1, slipped \in Nat
  PROVE  IsFiniteSet(Ahead)' /\ (Cardinality(Ahead) <= slipped)'
<1>1. IsFiniteSet(Ahead) /\ Cardinality(Ahead) \in Nat /\ Cardinality(Ahead) <= slipped
  BY FS_CardinalityType DEF PagesInv
<1>2. PICK S : S = Ahead \cup {p}
  OBVIOUS
<1>3. IsFiniteSet(S) /\ Cardinality(S) <= Cardinality(Ahead) + 1 /\ Cardinality(S) \in Nat
  <2>1. IsFiniteSet(S)
    BY <1>1, <1>2, FS_AddElement
  <2>2. Cardinality(S) = IF p \in Ahead THEN Cardinality(Ahead) ELSE Cardinality(Ahead) + 1
    BY <1>1, <1>2, FS_AddElement
  <2> QED
    BY <1>1, <2>1, <2>2, FS_CardinalityType
<1>4. IsFiniteSet(Ahead') /\ Cardinality(Ahead') <= Cardinality(S)
  BY <1>2, <1>3, FS_Subset
<1>5. Cardinality(Ahead') \in Nat
  BY <1>4, FS_CardinalityType
<1> QED
  BY <1>1, <1>3, <1>4, <1>5

\* Steps that leave the page alone: as time passes, recaps are early no more.
LEMMA ElsewhereGone ==
  ASSUME TypeOK, PagesInv, PageTypes', UNCHANGED content, now' = now \/ now' = now + 1
  PROVE  PagesInv' /\ Gone
<1>1. UNCHANGED <<live, review, recap, page, slipped>>
  BY DEF content
<1>2. now \in Nat /\ now' \in Nat /\ now' >= now /\ DAY \in Nat /\ HOUR \in Nat /\ slipped \in Nat
      /\ Periods \subseteq Int
  BY PeriodNumbers DEF PagesInv
<1>3. PagesOK'
  <2>1. \A s \in Starts : s \in Nat
    BY EventRemindersAssumption
  <2> QED
    BY <1>1, <1>2, <2>1 DEF PagesInv, PagesOK
<1>4. EarlyRecaps' \subseteq EarlyRecaps /\ TooEarly' \subseteq TooEarly /\ Writes' = Writes
  <2>1. \A p \in Periods : now' < p + DAY - HOUR => now < p + DAY - HOUR
    BY <1>2
  <2>2. TooEarly' \subseteq TooEarly
    BY <2>1 DEF TooEarly
  <2>3. EarlyRecaps' \subseteq EarlyRecaps
    BY <1>1, <2>1 DEF EarlyRecaps
  <2>4. Writes' = Writes
    BY <1>1 DEF Writes
  <2> QED
    BY <2>2, <2>3, <2>4
<1>5. Ahead' \subseteq Ahead
  BY <1>4 DEF Ahead
<1>6. Gone
  BY <1>1 DEF Gone, ListForEvent
<1> QED
  BY <1>1, <1>2, <1>3, <1>5, <1>6, NoneJoins DEF PagesInv

\* A request goes on.
LEMMA PageMoves ==
  ASSUME PagesInv, NEW q \in Pages, NEW next, PageTo(q, next), UNCHANGED now,
         next.pc \in {"idle", "live", "review", "due"}
           \/ (next.pc \in {"recap", "write"} /\ next.starts \in Starts),
         next.pc = "due" => next.listed \in Starts /\ now >= next.listed + DAY - HOUR,
         next.pc = "write" => next.quoted \subseteq Users
  PROVE  /\ PagesOK'
         /\ DOMAIN page' = Pages /\ page'[q] = next
         /\ \A r \in Pages \ {q} : page'[r] = page[r]
         /\ Writes' \subseteq Writes \cup
              {Period(n.starts) : n \in {m \in {next} : m.pc \in {"recap", "write"}}}
<1>1. /\ DOMAIN page' = Pages /\ page'[q] = next
      /\ \A r \in Pages \ {q} : page'[r] = page[r]
  BY DEF PageTo, PagesInv, PagesOK
<1>2. PagesOK'
  BY <1>1 DEF PagesInv, PagesOK
<1>3. Writes' \subseteq Writes \cup
              {Period(n.starts) : n \in {m \in {next} : m.pc \in {"recap", "write"}}}
  BY <1>1 DEF Writes
<1> QED
  BY <1>1, <1>2, <1>3

\* A request that ends or goes on elsewhere takes no recap with it.
LEMMA PageLeaves ==
  ASSUME TypeOK, PagesInv, PageTypes', NEW q \in Pages, NEW next, PageTo(q, next),
         UNCHANGED <<now, recap, slipped>>, next.pc \in {"idle", "live", "review", "due"},
         next.pc = "due" => next.listed \in Starts /\ now >= next.listed + DAY - HOUR
  PROVE  PagesInv'
<1>1. PagesOK' /\ Writes' \subseteq Writes
  BY PageMoves
<1>2. EarlyRecaps' = EarlyRecaps /\ TooEarly' = TooEarly
  BY DEF EarlyRecaps, TooEarly
<1>3. Ahead' \subseteq Ahead
  BY <1>1, <1>2 DEF Ahead
<1> QED
  BY <1>1, <1>3, NoneJoins, PeriodNumbers DEF PagesInv

\* A step that changes no review and of one request at most, which quotes only
\* reviews that are listed.
LEMMA GoneKept ==
  ASSUME PagesInv, UNCHANGED review, NEW q \in Pages, NEW next, PageTo(q, next),
         next.pc = "write" => next.quoted = ListForEvent
  PROVE  Gone
<1>1. page'[q] = next /\ \A r \in Pages \ {q} : page'[r] = page[r]
  BY DEF PageTo, PagesInv, PagesOK
<1>2. \A u \in Users : review[u] = "DELETED" => u \notin ListForEvent /\ u \notin ListForEvent'
  BY DEF ListForEvent
<1> QED
  BY <1>1, <1>2 DEF Gone

\* Looking first, and failing: the page itself stays as it is.
LEMMA LookGone ==
  ASSUME TypeOK, PagesInv, NEW q \in Pages,
         LookLive(q) \/ LookReview(q) \/ GenerateDueRecaps(q) \/ FailPage(q)
  PROVE  PagesInv' /\ Gone
<1>1. UNCHANGED <<now, live, review, recap, slipped, notices, log, lost>>
  BY DEF LookLive, LookReview, GenerateDueRecaps, FailPage, card, updates
<1>2. PageTypes'
  BY <1>1 DEF PagesInv, PageTypes
<1>3. CASE LookLive(q) \/ LookReview(q) \/ FailPage(q)
  <2>1. PICK next : PageTo(q, next) /\ next.pc \in {"idle", "live", "review"}
    BY <1>3 DEF LookLive, LookReview, FailPage, Quiet
  <2> QED
    BY <1>1, <1>2, <2>1, PageLeaves, GoneKept
<1>4. CASE GenerateDueRecaps(q)
  <2>1. PICK at \in now - MaxRun .. now : event.starts \in Around(at - DAY, HOUR)
    BY <1>4 DEF GenerateDueRecaps
  <2>2. PICK s \in Starts : s = event.starts
    BY DEF TypeOK
  <2>3. now >= s + DAY - HOUR
    <3>1. s \in Nat /\ now \in Nat /\ MaxRun \in Nat /\ DAY \in Nat /\ HOUR \in Nat
      BY EventRemindersAssumption DEF TypeOK
    <3>2. at \in Int /\ at <= now
      BY <2>1, <3>1
    <3>3. s <= at - DAY + HOUR
      BY <2>1, <2>2, <3>1, <3>2 DEF Around
    <3> QED
      BY <3>1, <3>2, <3>3
  <2>4. PICK next : PageTo(q, next) /\ next.pc = "due" /\ next.listed = s
    BY <1>4, <2>2 DEF GenerateDueRecaps
  <2> QED
    BY <1>1, <1>2, <2>3, <2>4, PageLeaves, GoneKept
<1> QED
  BY <1>3, <1>4

\* Looking the event up: if it is where it was listed, its recap is not early.
LEMMA ReadEventGone ==
  ASSUME TypeOK, PagesInv, NEW q \in Pages, ReadEvent(q)
  PROVE  PagesInv' /\ Gone
<1>1. UNCHANGED <<now, live, review, recap, notices, log, lost>>
  BY DEF ReadEvent, card, updates
<1>2. PICK s \in Starts : s = event.starts
  BY DEF TypeOK
<1>3. PICK next : PageTo(q, next) /\ next.pc = "recap" /\ next.starts = s
  BY <1>2 DEF ReadEvent
<1>4. slipped \in Nat /\ now \in Nat /\ DAY \in Nat /\ HOUR \in Nat
  BY PeriodNumbers DEF PagesInv
<1>5. /\ slipped' = IF s = page[q].listed THEN slipped ELSE slipped + 1
      /\ slipped' <= MaxSlips
  BY <1>2 DEF ReadEvent
<1>6. slipped' \in 0 .. MaxSlips
  BY <1>4, <1>5, EventPagesAssumption
<1>7. PageTypes'
  BY <1>1, <1>6 DEF PagesInv, PageTypes
<1>8. PagesOK' /\ Writes' \subseteq Writes \cup {Period(s)}
  BY <1>1, <1>3, PageMoves
<1>9. EarlyRecaps' = EarlyRecaps /\ TooEarly' = TooEarly
  BY <1>1 DEF EarlyRecaps, TooEarly
<1>10. IsFiniteSet(Ahead)' /\ (Cardinality(Ahead) <= slipped)'
  <2>1. CASE s = page[q].listed
    <3>1. now >= s + DAY - HOUR
      BY <2>1 DEF ReadEvent, PagesInv, PagesOK
    <3>2. Period(s) \in Int /\ Period(s) <= s /\ s \in Nat
      BY PeriodIs, EventRemindersAssumption
    <3>3. Period(s) \notin TooEarly
      BY <1>4, <3>1, <3>2 DEF TooEarly
    <3>4. Ahead' \subseteq Ahead
      BY <1>8, <1>9, <3>3 DEF Ahead
    <3> QED
      BY <1>4, <1>5, <1>7, <2>1, <3>4, NoneJoins
  <2>2. CASE s # page[q].listed
    <3>1. Ahead' \subseteq Ahead \cup {Period(s)}
      BY <1>8, <1>9 DEF Ahead
    <3> QED
      BY <1>4, <1>5, <2>2, <3>1, OneJoins
  <2> QED
    BY <2>1, <2>2
<1>11. Gone
  BY <1>1, <1>3, GoneKept
<1> QED
  BY <1>7, <1>8, <1>10, <1>11 DEF PagesInv

LEMMA ReadForRecapGone ==
  ASSUME TypeOK, PagesInv, NEW q \in Pages, NEW posts \in BOOLEAN, ReadForRecap(q, posts)
  PROVE  PagesInv' /\ Gone
<1>1. UNCHANGED <<now, live, review, recap, slipped, notices, log, lost>>
  BY DEF ReadForRecap, card, updates
<1>2. PageTypes'
  BY <1>1 DEF PagesInv, PageTypes
<1>3. CASE PageTo(q, Quiet)
  BY <1>1, <1>2, <1>3, PageLeaves, GoneKept DEF Quiet
<1>4. CASE ~PageTo(q, Quiet)
  <2>1. PICK s \in Starts : s = page[q].starts
    BY DEF ReadForRecap, PagesInv, PagesOK
  <2>2. PICK next : /\ PageTo(q, next) /\ next.pc = "write"
                    /\ next.starts = s /\ next.quoted = ListForEvent
    BY <1>4, <2>1 DEF ReadForRecap
  <2>3. ListForEvent \subseteq Users
    BY DEF ListForEvent
  <2>4. PagesOK' /\ Writes' \subseteq Writes \cup {Period(s)}
    BY <1>1, <2>2, <2>3, PageMoves
  <2>5. Period(s) \in Writes
    BY <2>1 DEF ReadForRecap, Writes
  <2>6. EarlyRecaps' = EarlyRecaps /\ TooEarly' = TooEarly
    BY <1>1 DEF EarlyRecaps, TooEarly
  <2>7. Ahead' \subseteq Ahead
    BY <2>4, <2>5, <2>6 DEF Ahead
  <2>8. Gone
    BY <1>1, <2>2, GoneKept
  <2> QED
    BY <1>1, <1>2, <2>4, <2>7, <2>8, NoneJoins, PeriodNumbers DEF PagesInv
<1> QED
  BY <1>3, <1>4

\* Live posts and reviews: what is deleted is not written anew.
LEMMA WriteGone ==
  ASSUME TypeOK, PagesInv,
         \/ \E q \in Pages, u \in Users : CreateOrUpdate(q, u) \/ \E p \in LivePosts : CreateLivePost(q, u, p)
         \/ Content
  PROVE  PagesInv' /\ Gone
<1>1. UNCHANGED <<now, recap, slipped, notices, log, lost>>
  BY DEF CreateOrUpdate, CreateLivePost, Content, ArchiveExpired, DeleteByAuthor, card, updates
<1>2. \/ live' = live
      \/ \E p \in LivePosts : live[p] = "NONE" /\ live' = [live EXCEPT ![p] = "UP"]
      \/ live' = [p \in LivePosts |-> IF live[p] = "UP" THEN "ARCHIVED" ELSE live[p]]
  BY DEF CreateOrUpdate, CreateLivePost, Content, ArchiveExpired, DeleteByAuthor
<1>3. \/ review' = review
      \/ \E u \in Users : review' = [review EXCEPT ![u] = IF review[u] = "NONE" THEN "VISIBLE" ELSE review[u]]
      \/ \E u \in Users : review' = [review EXCEPT ![u] = "DELETED"]
  BY DEF CreateOrUpdate, CreateLivePost, Content, ArchiveExpired, DeleteByAuthor
<1>4. live' \in [LivePosts -> {"NONE", "UP", "ARCHIVED"}]
  BY <1>2 DEF PagesInv, PageTypes
<1>5. review' \in [Users -> {"NONE", "VISIBLE", "DELETED"}]
  BY <1>3 DEF PagesInv, PageTypes
<1>6. PageTypes'
  BY <1>1, <1>4, <1>5 DEF PagesInv, PageTypes
<1>7. \A u \in Users : review[u] = "DELETED" => review'[u] = "DELETED"
  BY <1>3 DEF PagesInv, PageTypes
<1>8. CASE UNCHANGED page
  <2>1. PagesOK' /\ Writes' = Writes
    BY <1>1, <1>8 DEF PagesInv, PagesOK, Writes
  <2>2. EarlyRecaps' = EarlyRecaps /\ TooEarly' = TooEarly
    BY <1>1 DEF EarlyRecaps, TooEarly
  <2>3. Ahead' \subseteq Ahead
    BY <2>1, <2>2 DEF Ahead
  <2> QED
    BY <1>1, <1>6, <1>7, <1>8, <2>1, <2>3, NoneJoins, PeriodNumbers
       DEF PagesInv, Gone, ListForEvent
<1>9. ASSUME NEW q \in Pages, PageTo(q, Quiet) PROVE PagesInv' /\ Gone
  <2>1. PagesInv'
    BY <1>1, <1>6, <1>9, PageLeaves DEF Quiet
  <2>2. \A r \in Pages : page'[r] = IF r = q THEN Quiet ELSE page[r]
    BY <1>9 DEF PageTo, PagesInv, PagesOK
  <2> QED
    BY <1>7, <2>1, <2>2 DEF Gone, ListForEvent, Quiet
<1> QED
  BY <1>8, <1>9 DEF CreateOrUpdate, CreateLivePost, Content, ArchiveExpired, DeleteByAuthor

LEMMA GenerateForEventGone ==
  ASSUME TypeOK, PagesInv, NEW q \in Pages, GenerateForEvent(q)
  PROVE  PagesInv' /\ Gone
<1>1. PICK s \in Starts, quoted \in SUBSET Users : s = page[q].starts /\ quoted = page[q].quoted
  BY DEF GenerateForEvent, PagesInv, PagesOK
<1>2. /\ recap' = [recap EXCEPT ![Period(s)] = quoted] /\ PageTo(q, Quiet)
      /\ UNCHANGED <<now, live, review, slipped, notices, log, lost>>
  BY <1>1 DEF GenerateForEvent, card, updates
<1>3. PageTypes'
  <2>1. recap' \in [Periods -> (SUBSET Users) \cup {NoRecap}]
    BY <1>2 DEF PagesInv, PageTypes
  <2> QED
    BY <1>2, <2>1 DEF PagesInv, PageTypes
<1>4. PagesOK' /\ Writes' \subseteq Writes
  BY <1>2, PageMoves DEF Quiet
<1>5. Period(s) \in Writes
  BY <1>1 DEF GenerateForEvent, Writes
<1>6. TooEarly' = TooEarly /\ EarlyRecaps' \subseteq EarlyRecaps \cup (TooEarly \cap {Period(s)})
  BY <1>2 DEF TooEarly, EarlyRecaps, PagesInv, PageTypes
<1>7. Ahead' \subseteq Ahead
  BY <1>4, <1>5, <1>6 DEF Ahead
<1>8. Gone
  BY <1>2, GoneKept DEF Quiet
<1> QED
  BY <1>2, <1>3, <1>4, <1>7, <1>8, NoneJoins, PeriodNumbers DEF PagesInv

-----------------------------------------------------------------------------
(* The card and its page together.                                           *)

PageInv == IInv /\ SpacedInv /\ PagesInv

LEMMA PageInit == Init /\ InitPages => PageInv
<1> SUFFICES ASSUME Init, InitPages PROVE PageInv
  OBVIOUS
<1>1. IInv
  BY InitInv
<1>2. PageTypes
  <2>1. lost \in 0 .. MaxLost
    BY EventPagesAssumption DEF InitPages
  <2>2. <<>> \in Seq(0 .. Horizon)
    OBVIOUS
  <2>3. notices \in [Users -> Seq(0 .. Horizon)]
    BY <2>2 DEF InitPages
  <2>4. /\ live \in [LivePosts -> {"NONE", "UP", "ARCHIVED"}]
        /\ review \in [Users -> {"NONE", "VISIBLE", "DELETED"}]
    BY DEF InitPages
  <2>5. recap \in [Periods -> (SUBSET Users) \cup {NoRecap}] /\ slipped \in 0 .. MaxSlips
    BY EventPagesAssumption DEF InitPages
  <2>6. log \subseteq Users \X (0 .. Horizon)
    BY DEF InitPages
  <2> QED
    BY <2>1, <2>3, <2>4, <2>5, <2>6 DEF PageTypes
<1>3. SyncsOK /\ PagesOK /\ LoggedByNow
  BY DEF InitPages, SyncsOK, PagesOK, LoggedByNow, Quiet
<1>4. \A u \in Users : DOMAIN notices[u] = {}
  BY DEF InitPages
<1>5. EarlyRecaps = {} /\ Writes = {}
  BY DEF EarlyRecaps, Writes, InitPages, Quiet
<1>6. IsFiniteSet(Ahead) /\ Cardinality(Ahead) <= slipped
  <2>1. Ahead = {} /\ slipped = 0
    BY <1>5 DEF Ahead, InitPages
  <2> QED
    BY <2>1, FS_EmptySet
<1> QED
  BY <1>1, <1>2, <1>3, <1>4, <1>6 DEF PageInv, SpacedInv, PagesInv

\* Time does not go back, and passes one unit at a time.
LEMMA Clock == TypeOK /\ [Next]_vars => now' = now \/ now' = now + 1
BY DEF Next, vars, SetRsvp, RemoveRsvp, Sync, RunStatusRefresh, HourlyTick, OpsRun, FindAudience,
       RecordSend, AlreadySent, Notify, FinishKind, Fail, Advance, NoRun, NoNews

\* A step of the card's members, catalogue or runs.
LEMMA CardStep ==
  ASSUME PageInv, [Next]_vars, UNCHANGED pages
  PROVE  PageInv' /\ Gone
<1>1. IInv'
  BY NextInv DEF PageInv
<1>2. SpacedInv'
  BY <1>1, Clock, ClockSpaced DEF PageInv, IInv
<1>3. PagesInv' /\ Gone
  BY <1>2, Clock, ElsewhereGone DEF PageInv, IInv, pages, SpacedInv
<1> QED
  BY <1>1, <1>2, <1>3 DEF PageInv

\* A step of a call of the catalogue's.
LEMMA SyncStep ==
  ASSUME PageInv, NEW s \in Syncs,
         OnItsWay(s) \/ \E starts \in Starts, status \in {"UPCOMING", "COMPLETED"} : GetById(s, starts, status)
  PROVE  PageInv' /\ Gone
<1>1. SpacedInv'
  BY NotifyUpdateSpaced, RecordUpdateSpaced, FailSyncSpaced, OnItsWaySpaced
     DEF PageInv, IInv, OnItsWay
<1>2. UNCHANGED content
  BY DEF OnItsWay, ReadBefore, UpsertFromExternal, FindRecipients, ReadRecent, NotifyUpdate,
         RecordUpdate, FailSync, GetById
<1>3. CASE UNCHANGED vars
  <2>1. IInv'
    BY <1>3, StutterInv DEF PageInv
  <2>2. PageTypes' /\ TypeOK /\ PagesInv /\ UNCHANGED now
    BY <1>1, <1>3 DEF PageInv, IInv, SpacedInv, vars
  <2>3. PagesInv' /\ Gone
    BY <1>2, <2>2, ElsewhereGone
  <2> QED
    BY <1>1, <2>1, <2>3 DEF PageInv
<1>4. CASE UpsertFromExternal(s)
  <2>1. /\ sync[s].answer \in [starts : Starts, status : {"UPCOMING", "COMPLETED"}]
        /\ Sync(sync[s].answer.starts, sync[s].answer.status)
    BY <1>4 DEF PageInv, SpacedInv, SyncsOK, UpsertFromExternal
  <2>2. IInv'
    BY <2>1, SyncInv DEF PageInv
  <2> QED
    BY <1>1, <1>2, <2>1, <2>2, ElsewhereGone DEF PageInv, IInv, SpacedInv, Sync
<1>5. UNCHANGED card \/ UpsertFromExternal(s)
  BY DEF OnItsWay, ReadBefore, FindRecipients, ReadRecent, NotifyUpdate, RecordUpdate, FailSync, GetById
<1> QED
  BY <1>3, <1>4, <1>5 DEF card, vars

\* A step of a request for the page, of its members or of the clean-up.
LEMMA PageStep ==
  ASSUME PageInv, Content \/ \E q \in Pages : Page(q)
  PROVE  PageInv' /\ Gone
<1>1. PagesInv' /\ Gone
  BY LookGone, ReadEventGone, ReadForRecapGone, WriteGone, GenerateForEventGone DEF PageInv, IInv, Page
<1>2. UNCHANGED card /\ UNCHANGED updates
  BY DEF Page, Content, LookLive, CreateLivePost, ArchiveExpired, LookReview, CreateOrUpdate,
         DeleteByAuthor, GenerateDueRecaps, ReadEvent, ReadForRecap, GenerateForEvent, FailPage
<1>3. IInv'
  BY <1>2, StutterInv DEF PageInv, card, vars
<1>4. SpacedInv'
  <2>1. UNCHANGED <<now, notices, log, sync, lost>>
    BY <1>2 DEF card, updates
  <2>2. SyncsOK' /\ LoggedByNow'
    BY <2>1 DEF PageInv, SpacedInv, SyncsOK, LoggedByNow
  <2>3. \A u \in Users : \A i \in DOMAIN notices[u] : SpacedFrom(u, i)'
    BY <2>1 DEF PageInv, SpacedInv, SpacedFrom, Logged, Since, Writing, Due
  <2> QED
    BY <1>1, <2>1, <2>2, <2>3 DEF SpacedInv, PagesInv
<1> QED
  BY <1>1, <1>3, <1>4 DEF PageInv

LEMMA PageNext == PageInv /\ [EventPagesNext]_<<card, pages>> => PageInv' /\ Gone
<1> SUFFICES ASSUME PageInv, [EventPagesNext]_<<card, pages>> PROVE PageInv' /\ Gone
  OBVIOUS
<1>1. CASE UNCHANGED <<card, pages>>
  BY <1>1, CardStep DEF card, vars
<1> QED
  BY <1>1, CardStep, SyncStep, PageStep DEF EventPagesNext

LEMMA PageHolds == EventPagesSpec => []PageInv
BY PageInit, PageNext, PTL DEF EventPagesSpec

\* However often the catalogue changes its mind, however many calls of it are on
\* their way at a time and whichever fail: a member gets no more notices of it
\* within the window than there are calls, and fan-outs that failed.
THEOREM SpacedCorrect == EventPagesSpec => []UpdatesSpaced
<1>1. TypeOK /\ SpacedInv => UpdatesSpaced
  <2> SUFFICES ASSUME TypeOK, SpacedInv, NEW u \in Users, NEW i \in DOMAIN notices[u],
                      NEW j \in DOMAIN notices[u], j = i + Cardinality(Syncs) + lost
               PROVE  notices[u][j] > notices[u][i] + NOTIFY_WINDOW
    BY DEF UpdatesSpaced, SpacedInv
  <2>1. j \in Nat
    BY SpacedNumbers DEF SpacedInv
  <2> QED
    BY <2>1 DEF SpacedInv, SpacedFrom
<1> QED
  BY <1>1, PageHolds, PTL DEF PageInv, IInv

\* However the event is moved and however many runs overlap: no more recaps are
\* shown of periods not yet over than runs found the event moved.
THEOREM RecapsCorrect == EventPagesSpec => []RecapsInTime
<1>1. TypeOK /\ PagesInv => RecapsInTime
  <2> SUFFICES ASSUME TypeOK, PagesInv PROVE Cardinality(EarlyRecaps) <= slipped
    BY DEF RecapsInTime
  <2>1. EarlyRecaps \subseteq Ahead /\ IsFiniteSet(Ahead) /\ Cardinality(Ahead) <= slipped
    BY DEF Ahead, PagesInv
  <2>2. IsFiniteSet(EarlyRecaps) /\ Cardinality(EarlyRecaps) <= Cardinality(Ahead)
    BY <2>1, FS_Subset
  <2>3. Cardinality(EarlyRecaps) \in Nat /\ Cardinality(Ahead) \in Nat /\ slipped \in Nat
    BY <2>1, <2>2, FS_CardinalityType, PeriodNumbers DEF PagesInv
  <2> QED
    BY <2>1, <2>2, <2>3
<1> QED
  BY <1>1, PageHolds, PTL DEF PageInv, IInv

\* A review its author has deleted stays off the page of the event, and is quoted
\* by no recap whose run reads the reviews later.
THEOREM DeletedCorrect == EventPagesSpec => DeletedStaysGone
<1>1. PageInv /\ [EventPagesNext]_<<card, pages>> => Gone
  BY PageNext
<1> QED
  BY <1>1, PageHolds, PTL DEF EventPagesSpec, DeletedStaysGone, Gone
=============================================================================
