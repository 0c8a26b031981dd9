----------------------------- MODULE EventPages -----------------------------
(* What is on the page of the event whose reminders EventReminders models:    *)
(* live posts, reviews and recaps, and the notices of a change to the event.   *)
(* A change comes from the catalogue through upsertFromExternal, whose fan-out *)
(* is not awaited: it reads the RSVPs and then the log of notices, and writes  *)
(* for each member a notice and then a row of that log.                       *)
EXTENDS EventReminders, Sequences, FiniteSetsExt

CONSTANTS LivePosts,        \* uuids of event_live_posts
          Syncs,            \* how many calls of upsertFromExternal overlap
          Pages,            \* how many requests and recap runs overlap
          IN_PROGRESS,      \* IN_PROGRESS_HOURS, in units of time
          ARCHIVE,          \* ARCHIVE_HOURS
          NOTIFY_WINDOW,    \* RECENT_EVENT_UPDATE_NOTIFY_WINDOW_SEC
          MaxLost,          \* bound on the fan-outs that fail
          MaxSlips          \* bound on the recaps whose event moves under their run

ASSUME EventPagesAssumption ==
  /\ IsFiniteSet(Syncs) /\ IN_PROGRESS \in Nat /\ ARCHIVE \in Nat /\ NOTIFY_WINDOW \in Nat
  /\ MaxLost \in Nat /\ MaxSlips \in Nat

VARIABLES live,     \* event_live_posts
          review,   \* event_reviews, one of each member
          recap,    \* event_card_digests: the reviews quoted, by the start of the period
          notices,  \* when each member got an EVENT_UPDATED
          log,      \* EVENT_UPDATED_NOTIFY rows of analytics_events
          sync,     \* upsertFromExternal and its fan-out
          page,     \* requests for the page, and recap runs
          lost,     \* how many fan-outs have failed
          slipped   \* history: how often a run read another start than it had listed

card == <<now, event, rsvp, sends, notified, run, ticked, failures, smooth, early>>
content == <<live, review, recap, page, slipped>>
updates == <<notices, log, sync, lost>>
pages == <<content, updates>>

Quiet == [pc |-> "idle"]
NoRecap == {NoOne}

\* roundDownToHour, of the starts the catalogue may give.
Period(s) == s - (s % HOUR)
Periods == {Period(s) : s \in Starts}

InitPages ==
  /\ live = [p \in LivePosts |-> "NONE"]
  /\ review = [u \in Users |-> "NONE"]
  /\ recap = [p \in Periods |-> NoRecap]
  /\ notices = [u \in Users |-> <<>>]
  /\ log = {}
  /\ sync = [s \in Syncs |-> Quiet]
  /\ page = [q \in Pages |-> Quiet]
  /\ lost = 0
  /\ slipped = 0

-----------------------------------------------------------------------------
(* The catalogue's news *)

SyncTo(s, what) == sync' = [sync EXCEPT ![s] = what]

\* getById: an answer, parsed; a time-out, an error or nonsense ends the call.
GetById(s, starts, status) ==
  /\ sync[s].pc = "idle"
  /\ SyncTo(s, [pc |-> "read", answer |-> [starts |-> starts, status |-> status]])
  /\ UNCHANGED <<card, content, notices, log, lost>>

ReadBefore(s) ==
  /\ sync[s].pc = "read"
  /\ SyncTo(s, [pc |-> "upsert", answer |-> sync[s].answer, before |-> event])
  /\ UNCHANGED <<card, content, notices, log, lost>>

HasMaterialChange(before, after) == before # after

UpsertFromExternal(s) ==
  LET q == sync[s] IN
  /\ q.pc = "upsert"
  /\ Sync(q.answer.starts, q.answer.status)
  /\ SyncTo(s, IF HasMaterialChange(q.before, q.answer) THEN [pc |-> "recipients"] ELSE Quiet)
  /\ UNCHANGED <<content, notices, log, lost>>

\* Those who are INTERESTED or GOING.
FindRecipients(s) ==
  LET found == {u \in Users : rsvp[u] = "INTERESTED"} IN
  /\ sync[s].pc = "recipients"
  /\ SyncTo(s, IF found = {} THEN Quiet ELSE [pc |-> "recent", due |-> found])
  /\ UNCHANGED <<card, content, notices, log, lost>>

Notifies(s, due) == SyncTo(s, IF due = {} THEN Quiet ELSE [pc |-> "notify", due |-> due])

\* Faulty variant of ReadRecent: the cutoff is an instant too late.
ReadRecentLate(s) ==
  /\ sync[s].pc = "recent"
  /\ Notifies(s, {u \in sync[s].due : \A t \in now - NOTIFY_WINDOW + 1 .. now : <<u, t>> \notin log})
  /\ UNCHANGED <<card, content, notices, log, lost>>

ReadRecent(s) ==
  /\ sync[s].pc = "recent"
  /\ Notifies(s, {u \in sync[s].due : \A t \in now - NOTIFY_WINDOW .. now : <<u, t>> \notin log})
  /\ UNCHANGED <<card, content, notices, log, lost>>

NotifyUpdate(s, u) ==
  /\ sync[s].pc = "notify" /\ u \in sync[s].due
  /\ notices' = [notices EXCEPT ![u] = Append(@, now)]
  /\ SyncTo(s, [pc |-> "record", due |-> sync[s].due \ {u}, user |-> u])
  /\ UNCHANGED <<card, content, log, lost>>

RecordUpdate(s) ==
  /\ sync[s].pc = "record"
  /\ log' = log \cup {<<sync[s].user, now>>}
  /\ Notifies(s, sync[s].due)
  /\ UNCHANGED <<card, content, notices, lost>>

\* A statement of the call fails, or the process dies.
FailSync(s) ==
  /\ sync[s].pc # "idle" /\ lost < MaxLost
  /\ SyncTo(s, Quiet)
  /\ lost' = lost + 1
  /\ UNCHANGED <<card, content, notices, log>>

OnItsWay(s) ==
  \/ ReadBefore(s) \/ UpsertFromExternal(s) \/ FindRecipients(s) \/ ReadRecent(s)
  \/ \E u \in Users : NotifyUpdate(s, u)
  \/ RecordUpdate(s) \/ FailSync(s)

-----------------------------------------------------------------------------
(* Live posts, reviews and recaps *)

PageTo(q, what) == page' = [page EXCEPT ![q] = what]

\* createLivePost: the event is looked at, then the RSVP.
LookLive(q) ==
  /\ page[q].pc = "idle"
  /\ now \in event.starts .. event.starts + IN_PROGRESS
  /\ PageTo(q, [pc |-> "live"])
  /\ UNCHANGED <<card, updates, live, review, recap, slipped>>

CreateLivePost(q, u, p) ==
  /\ page[q].pc = "live" /\ rsvp[u] = "ATTENDED"
  /\ live[p] = "NONE"
  /\ live' = [live EXCEPT ![p] = "UP"]
  /\ PageTo(q, Quiet)
  /\ UNCHANGED <<card, updates, review, recap, slipped>>

\* archiveExpired, twice a day or later: one statement.
ArchiveExpired ==
  /\ event.starts < now - ARCHIVE
  /\ \E p \in LivePosts : live[p] = "UP"
  /\ live' = [p \in LivePosts |-> IF live[p] = "UP" THEN "ARCHIVED" ELSE live[p]]
  /\ UNCHANGED <<card, updates, review, recap, page, slipped>>

\* listLivePosts, to insiders; GOING is among INTERESTED.
Strip(v) == {p \in LivePosts : live[p] = "UP" /\ rsvp[v] # "NONE"}

LookReview(q) ==
  /\ page[q].pc = "idle" /\ event.status = "COMPLETED"
  /\ PageTo(q, [pc |-> "review"])
  /\ UNCHANGED <<card, updates, live, review, recap, slipped>>

\* The upsert writes rating and body over a row that is there, not its status.
CreateOrUpdate(q, u) ==
  /\ page[q].pc = "review" /\ rsvp[u] = "ATTENDED"
  /\ review' = [review EXCEPT ![u] = IF @ = "NONE" THEN "VISIBLE" ELSE @]
  /\ PageTo(q, Quiet)
  /\ UNCHANGED <<card, updates, live, recap, slipped>>

DeleteByAuthor(u) ==
  /\ review[u] = "VISIBLE"
  /\ review' = [review EXCEPT ![u] = "DELETED"]
  /\ UNCHANGED <<card, updates, live, recap, page, slipped>>

\* listForEvent and topForEvent.
ListForEvent == {u \in Users : review[u] = "VISIBLE"}

\* Faulty variant of GenerateDueRecaps: the events of this hour, not of a day ago.
GenerateRecapsNow(q) ==
  /\ page[q].pc = "idle"
  /\ \E at \in now - MaxRun .. now : event.starts \in Around(at, HOUR)
  /\ PageTo(q, [pc |-> "due", listed |-> event.starts])
  /\ UNCHANGED <<card, updates, live, review, recap, slipped>>

\* generateDueRecaps: the last thing a run does, by the time it began at.
GenerateDueRecaps(q) ==
  /\ page[q].pc = "idle"
  /\ \E at \in now - MaxRun .. now : event.starts \in Around(at - DAY, HOUR)
  /\ PageTo(q, [pc |-> "due", listed |-> event.starts])
  /\ UNCHANGED <<card, updates, live, review, recap, slipped>>

\* generateForEvent looks the event up again, which may have moved.
ReadEvent(q) ==
  /\ page[q].pc = "due"
  /\ slipped' = IF event.starts = page[q].listed THEN slipped ELSE slipped + 1
  /\ slipped' <= MaxSlips
  /\ PageTo(q, [pc |-> "recap", starts |-> event.starts])
  /\ UNCHANGED <<card, updates, live, review, recap>>

\* Its two reads; an event with neither posts nor reviews gets no recap.
ReadForRecap(q, posts) ==
  /\ page[q].pc = "recap"
  /\ PageTo(q, IF ~posts /\ ListForEvent = {} THEN Quiet
               ELSE [pc |-> "write", starts |-> page[q].starts, quoted |-> ListForEvent])
  /\ UNCHANGED <<card, updates, live, review, recap, slipped>>

GenerateForEvent(q) ==
  /\ page[q].pc = "write"
  /\ recap' = [recap EXCEPT ![Period(page[q].starts)] = page[q].quoted]
  /\ PageTo(q, Quiet)
  /\ UNCHANGED <<card, updates, live, review, slipped>>

FailPage(q) ==
  /\ page[q].pc # "idle"
  /\ PageTo(q, Quiet)
  /\ UNCHANGED <<card, updates, live, review, recap, slipped>>

Page(q) ==
  \/ LookLive(q) \/ LookReview(q) \/ FailPage(q)
  \/ GenerateDueRecaps(q) \/ ReadEvent(q) \/ GenerateForEvent(q)
  \/ \E u \in Users : CreateOrUpdate(q, u) \/ \E p \in LivePosts : CreateLivePost(q, u, p)
  \/ \E posts \in BOOLEAN : ReadForRecap(q, posts)

Content == ArchiveExpired \/ \E u \in Users : DeleteByAuthor(u)

EventPagesNext ==
  \/ Next /\ UNCHANGED pages
  \/ \E s \in Syncs :
       \/ \E starts \in Starts, status \in {"UPCOMING", "COMPLETED"} : GetById(s, starts, status)
       \/ OnItsWay(s)
  \/ \E q \in Pages : Page(q)
  \/ Content

EventPagesSpec == Init /\ InitPages /\ [][EventPagesNext]_<<card, pages>>

-----------------------------------------------------------------------------
(* Properties *)

PageTypes ==
  /\ live \in [LivePosts -> {"NONE", "UP", "ARCHIVED"}]
  /\ review \in [Users -> {"NONE", "VISIBLE", "DELETED"}]
  /\ recap \in [Periods -> (SUBSET Users) \cup {NoRecap}]
  /\ notices \in [Users -> Seq(0 .. Horizon)]
  /\ log \subseteq Users \X (0 .. Horizon)
  /\ lost \in 0 .. MaxLost
  /\ slipped \in 0 .. MaxSlips

\* However often the catalogue changes its mind, within one window a member
\* gets no more notices of it than there are calls at the same time and
\* fan-outs that failed, so one when there are neither.
UpdatesSpaced ==
  /\ PageTypes
  /\ \A u \in Users : \A i, j \in DOMAIN notices[u] :
       j = i + Cardinality(Syncs) + lost => notices[u][j] > notices[u][i] + NOTIFY_WINDOW

EarlyRecaps == {p \in Periods : recap[p] # NoRecap /\ now < p + DAY - HOUR}

\* Wherever the catalogue moves the event, and however long runs take and overlap:
\* the page shows a recap of a period that is not over, an hour short of a day
\* after its start, only if the event was moved between a run's listing it as due
\* and looking it up again, one recap for each time.
RecapsInTime == Cardinality(EarlyRecaps) <= slipped

\* A review its author has deleted stays off the list of the event's reviews,
\* however often reviews are written, and no recap run that reads them later
\* quotes it.
DeletedStaysGone ==
  [][\A u \in Users : review[u] = "DELETED" =>
       /\ u \notin ListForEvent'
       /\ \A q \in Pages : page'[q].pc = "write" /\ u \in page'[q].quoted =>
            page'[q] = page[q]]_<<card, pages>>
=============================================================================
